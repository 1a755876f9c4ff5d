--------------------------- MODULE MCExecutableCache ---------------------------
(***************************************************************************)
(* An instance of ExecutableCache for TLC: three workers, a script that    *)
(* most tasks need and that is copied, one that has to be built.           *)
(***************************************************************************)
EXTENDS ExecutableCache

CONSTANTS w1, w2, w3, check, compare

MCWorker == { w1, w2, w3 }
MCScript == { check, compare }
MCBuilds == { compare }
MCTasks == { <<check, compare>>, <<compare>> }
=============================================================================
