------------------------------ MODULE MCDelivery ------------------------------
EXTENDS Delivery

CONSTANTS a, b

MCMessages == { a, b }

\* Two valid submissions, and one beside a message of each other kind.
MCKinds ==
  { kinds \in [ MCMessages -> { "valid", "malformed", "refused" } ] : kinds[a] = "valid" }
=============================================================================
