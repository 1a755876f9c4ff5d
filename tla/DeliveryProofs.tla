---------------------------- MODULE DeliveryProofs ----------------------------
(***************************************************************************)
(* Theorems of Delivery, with their proofs, for any messages, any number   *)
(* of tests and every bound on the faults.                                 *)
(*                                                                         *)
(* A message and its submission are two things that live apart: the broker *)
(* has the one back as soon as the channel is lost, the workers go on with *)
(* the other.  The inductive invariant says what ties them together: the   *)
(* channel of an envelope (Channels), and what has been reported when an   *)
(* envelope is acknowledged, here or in place of another one (Reported).   *)
(***************************************************************************)
EXTENDS Delivery, TLAPS

-----------------------------------------------------------------------------
(* The inductive invariant.                                                *)

\* The messages that have left the broker.
Left == { m \in Messages : gone[m] # "no" }

\* The two parts of TypeOK: where the messages are, and where the submissions are.
Broker ==
  /\ ready \subseteq Messages /\ gone \in [ Messages -> { "no", "own", "stray" } ]
  /\ tags \in Nat /\ DOMAIN unacked \subseteq 1 .. tags
  /\ unacked \in [ DOMAIN unacked -> Messages ]
  /\ \A s, t \in DOMAIN unacked : unacked[s] = unacked[t] => s = t
  /\ ready \cup Range(unacked) \cup Left = Messages
  /\ ready \cap Range(unacked) = {} /\ (ready \cup Range(unacked)) \cap Left = {}

Jobs ==
  [ msg : Messages, channel : Nat, tag : Nat, left : 1 .. Tests,
    pc : { "judge", "ack", "done" } ]

Submissions ==
  /\ server \in Servers /\ kind \in Kinds
  /\ jobs \subseteq Jobs /\ \A j, k \in jobs : j.msg = k.msg => j = k
  /\ channel \in Nat \ {0} /\ \A j \in jobs : j.channel \in 1 .. channel
  /\ stored \in [ Messages -> { "none", "partial", "final" } ]
  /\ services \subseteq Services /\ outages \in Nat
  /\ open => alive

\* A channel that is closed has no deliveries, a process that has ended no submissions;
\* and the message of a submission does not come back before its channel is lost.
Channels ==
  /\ ~ open => unacked = << >>
  /\ ~ alive => jobs = {} /\ ~ hung
  /\ open => \A j \in jobs : j.channel = channel => j.msg \notin ready

\* What mcourse and moj have reported when they acknowledge, when they are done, and
\* when a delivered or acknowledged message has no submission under judgement any more.
Reported ==
  /\ { "database", "redis" } \subseteq services \/ outages > 0
  /\ \A j \in jobs : j.pc = "ack" => stored[j.msg] = "final" /\ j.left = 1
  /\ \A j \in jobs : j.pc = "done" => stored[j.msg] = "final" \/ outages > 0
  /\ \A m \in Range(unacked) : kind[m] = "valid" =>
       (\E j \in jobs : j.msg = m) \/ stored[m] = "final" \/ outages > 0
  /\ \A m \in Messages : kind[m] = "valid" /\ gone[m] = "own" =>
       \/ stored[m] = "final" /\ \A j \in jobs : j.msg = m => j.pc = "done"
       \/ server = "mcourse" /\ outages > 0

IInv ==
  /\ Broker /\ Submissions /\ Channels /\ (server # "forth" => Reported)
  /\ NotLost /\ HungByRedelivery

-----------------------------------------------------------------------------
(* What the broker's operations do to the messages.                        *)

\* A delivery moves a message from the queue to the channel.
LEMMA Delivered ==
  ASSUME Broker, NEW m \in ready, Deliver(m)
  PROVE  Broker' /\ Range(unacked)' = Range(unacked) \cup {m}
<1>. DEFINE u == unacked'
            D == DOMAIN unacked \cup {tags + 1}
<1>1. u = [ t \in D |-> IF t = tags + 1 THEN m ELSE unacked[t] ]
  BY DEF Deliver
<1>2. tags \in Nat /\ tags + 1 \notin DOMAIN unacked /\ tags' = tags + 1 /\ gone' = gone
      /\ ready' = ready \ {m}
  BY DEF Deliver, Broker
<1>3. DOMAIN u = D /\ u[tags + 1] = m /\ \A t \in DOMAIN unacked : u[t] = unacked[t]
  BY <1>1, <1>2
<1>. HIDE DEF u
<1>4. Range(u) = Range(unacked) \cup {m}
  BY <1>3 DEF Range
<1>5. m \notin Range(unacked) /\ m \in Messages
  BY DEF Broker
<1>6. \A s, t \in DOMAIN u : u[s] = u[t] => s = t
  BY <1>3, <1>5 DEF Broker, Range
<1>7. DOMAIN u \subseteq 1 .. tags'
  BY <1>2, <1>3 DEF Broker
<1>8. u \in [ DOMAIN u -> Messages ]
  BY <1>1, <1>3, <1>5 DEF Broker, u
<1>9. Left' = Left
  BY <1>2 DEF Left
<1>10. Broker'
  BY <1>2, <1>4, <1>5, <1>6, <1>7, <1>8, <1>9 DEF Broker, u
<1>. QED  BY <1>4, <1>10 DEF u

\* A message that is acknowledged at once leaves the broker from the queue.
LEMMA Discarded ==
  ASSUME Broker, NEW m \in ready, Discard(m)
  PROVE  Broker'
<1>1. Left' = Left \cup {m}
  BY DEF Broker, Discard, Left
<1>2. m \notin Range(unacked) /\ m \in Messages
  BY DEF Broker
<1>3. tags' \in Nat /\ DOMAIN unacked \subseteq 1 .. tags'
  BY DEF Broker, Discard
<1>. QED  BY <1>1, <1>2, <1>3 DEF Broker, Discard

\* With the channel, what it had delivered goes back to the queue.
LEMMA ChannelLost ==
  ASSUME Broker, ready' = ready \cup Range(unacked), unacked' = << >>, gone' = gone,
         tags' \in Nat
  PROVE  Broker' /\ Range(unacked)' = {}
<1>1. DOMAIN << >> = {} /\ Range(<< >>) = {}
  BY DEF Range
<1>2. Left' = Left
  BY DEF Left
<1>3. unacked' \in [ DOMAIN unacked' -> Messages ]
  BY <1>1
<1>. QED  BY <1>1, <1>2, <1>3 DEF Broker

\* An acknowledgement takes a delivery from the channel, whosever tag it is.
LEMMA Acknowledged ==
  ASSUME Broker, NEW t \in DOMAIN unacked, NEW g \in { "own", "stray" },
         unacked' = Restrict(unacked, DOMAIN unacked \ {t}),
         gone' = [gone EXCEPT ![unacked[t]] = g], UNCHANGED <<ready, tags>>
  PROVE  Broker' /\ Range(unacked)' = Range(unacked) \ {unacked[t]}
<1>. DEFINE u == unacked'
<1>1. DOMAIN u = DOMAIN unacked \ {t} /\ \A s \in DOMAIN u : u[s] = unacked[s]
  BY DEF Restrict
<1>2. u \in [ DOMAIN u -> Messages ]
  BY <1>1 DEF Restrict, Broker
<1>. HIDE DEF u
<1>3. Range(u) = Range(unacked) \ {unacked[t]}
  BY <1>1 DEF Range, Broker
<1>4. unacked[t] \in Range(unacked) /\ unacked[t] \in Messages
  BY DEF Range, Broker
<1>5. Left' = Left \cup {unacked[t]}
  BY <1>4 DEF Left, Broker
<1>6. Broker'
  <2>1. ready \cup Range(u) \cup Left' = Messages
    BY <1>3, <1>4, <1>5 DEF Broker
  <2>2. ready \cap Range(u) = {} /\ (ready \cup Range(u)) \cap Left' = {}
    BY <1>3, <1>4, <1>5 DEF Broker
  <2>3. \A s, r \in DOMAIN u : u[s] = u[r] => s = r
    BY <1>1 DEF Broker
  <2>4. gone' \in [ Messages -> { "no", "own", "stray" } ] /\ DOMAIN u \subseteq 1 .. tags
    BY <1>1, <1>4 DEF Broker
  <2>. QED  BY <1>2, <2>1, <2>2, <2>3, <2>4 DEF Broker, u
<1>. QED  BY <1>3, <1>6 DEF u

\* A step that leaves the messages where they are.
LEMMA BrokerSame ==
  ASSUME Broker, UNCHANGED <<ready, unacked, gone, tags>>
  PROVE  Broker' /\ Range(unacked)' = Range(unacked)
BY DEF Broker, Left

-----------------------------------------------------------------------------
(* What a step makes of a submission.                                      *)

\* Submission j is now k.
Replaced(j, k) ==
  /\ k \in Jobs /\ k.msg = j.msg /\ k.channel = j.channel
  /\ jobs' = (jobs \ {j}) \cup {k}

\* It goes on to its next task, or is done with the last one.
LEMMA Continued ==
  ASSUME Submissions, NEW j \in jobs, Continue(j)
  PROVE  \E k : Replaced(j, k) /\ k.pc = IF j.left = 1 THEN "done" ELSE "judge"
<1>1. j \in Jobs
  BY DEF Submissions
<1>2. CASE j.left = 1
  <2>. DEFINE k == [j EXCEPT !.pc = "done"]
  <2>1. jobs' = (jobs \ {j}) \cup {k}
    BY <1>2 DEF Continue, Complete
  <2>2. k \in Jobs /\ k.msg = j.msg /\ k.channel = j.channel /\ k.pc = "done"
    BY <1>1 DEF Jobs
  <2>. QED  BY <1>2, <2>1, <2>2 DEF Replaced
<1>3. CASE j.left # 1
  <2>. DEFINE k == [j EXCEPT !.left = j.left - 1, !.pc = "judge"]
  <2>1. jobs' = (jobs \ {j}) \cup {k}
    BY <1>3 DEF Continue, Complete
  <2>2. j.left - 1 \in 1 .. Tests
    BY <1>1, <1>3, DeliveryAssumption DEF Jobs
  <2>3. k \in Jobs /\ k.msg = j.msg /\ k.channel = j.channel /\ k.pc = "judge"
    BY <1>1, <2>2 DEF Jobs
  <2>. QED  BY <1>3, <2>1, <2>3 DEF Replaced
<1>. QED  BY <1>2, <1>3

\* Its worker is about to acknowledge.
LEMMA ToAck ==
  ASSUME Submissions, NEW j \in jobs, ThenAck(j)
  PROVE  \E k : Replaced(j, k) /\ k.pc = "ack" /\ k.left = j.left
<1>. DEFINE k == [j EXCEPT !.pc = "ack"]
<1>1. j \in Jobs /\ jobs' = (jobs \ {j}) \cup {k}
  BY DEF Submissions, ThenAck
<1>2. k \in Jobs /\ k.msg = j.msg /\ k.channel = j.channel /\ k.pc = "ack" /\ k.left = j.left
  BY <1>1 DEF Jobs
<1>. QED  BY <1>1, <1>2 DEF Replaced

\* In all of this it stays the only submission of its message.
LEMMA ReplacedApart ==
  ASSUME Submissions, NEW j \in jobs, NEW k, Replaced(j, k),
         stored' \in [ Messages -> { "none", "partial", "final" } ],
         UNCHANGED <<server, kind, channel, services, outages>>, open' => alive'
  PROVE  /\ Submissions'
         /\ \A i \in jobs' : i = k \/ (i \in jobs /\ i.msg # j.msg)
         /\ \A i \in jobs : i = j \/ (i \in jobs' /\ i.msg # j.msg)
<1>0. jobs' = (jobs \ {j}) \cup {k} /\ \A i \in jobs : i.msg = j.msg => i = j
  BY DEF Replaced, Submissions
<1>1. \A i \in jobs' : i = k \/ (i \in jobs /\ i.msg # j.msg)
  BY <1>0
<1>2. \A i \in jobs : i = j \/ (i \in jobs' /\ i.msg # j.msg)
  BY <1>0
<1>3. jobs' \subseteq Jobs /\ k.channel \in 1 .. channel
  BY DEF Replaced, Submissions
<1>4. \A i, l \in jobs' : i.msg = l.msg => i = l
  BY <1>1 DEF Replaced, Submissions
<1>. QED  BY <1>1, <1>2, <1>3, <1>4 DEF Submissions

-----------------------------------------------------------------------------
(* The steps.                                                              *)

\* A message that can be had is taken: accepted, refused or discarded.
LEMMA AcceptStep ==
  ASSUME IInv, NEW m \in Messages, Deliverable(m), Accept(m),
         UNCHANGED <<server, kind, stored, alive, services, ended, faults>>
  PROVE  IInv'
<1>. USE DEF IInv
<1>1. /\ m \in ready /\ alive /\ open /\ ~ hung /\ kind[m] = "valid" /\ Deliver(m)
      /\ gone' = gone /\ channel' = channel /\ open' = open /\ ready' = ready \ {m}
      /\ outages' = outages
  BY DEF Deliverable, Accept, Deliver, faults
<1>2. Broker' /\ Range(unacked)' = Range(unacked) \cup {m}
  BY <1>1, Delivered
<1>3. gone[m] = "no"
  BY <1>1 DEF Broker, Left
<1>4. CASE \E j \in jobs : j.msg = m
  <2>1. PICK j \in jobs : j.msg = m
    BY <1>4
  <2>2. hung' = TRUE /\ jobs' = jobs
    BY <1>4 DEF Accept
  <2>3. j.channel < channel
    BY <1>1, <2>1 DEF Channels, Submissions
  <2>4. Submissions'
    BY <1>1, <2>2 DEF Submissions
  <2>5. Channels'
    BY <1>1, <2>2 DEF Channels
  <2>6. server # "forth" => Reported'
    BY <1>1, <1>2, <2>1, <2>2 DEF Reported
  <2>7. NotLost'
    BY <1>1, <2>2 DEF NotLost
  <2>8. HungByRedelivery'
    BY <1>1, <2>2, <2>3 DEF HungByRedelivery
  <2>. QED  BY <1>2, <2>4, <2>5, <2>6, <2>7, <2>8
<1>5. CASE ~ \E j \in jobs : j.msg = m
  <2>. DEFINE k == Job(m, tags + 1)
  <2>1. jobs' = jobs \cup {k} /\ hung' = hung
    BY <1>5 DEF Accept
  <2>2. k.msg = m /\ k.channel = channel /\ k.pc = "judge" /\ k \in Jobs
    <3>1. tags + 1 \in Nat /\ channel \in Nat /\ Tests \in 1 .. Tests
      BY DeliveryAssumption DEF Broker, Submissions
    <3>. QED  BY <3>1 DEF Job, Jobs
  <2>. HIDE DEF k
  <2>3. \A i, j \in jobs' : i.msg = j.msg => i = j
    BY <1>5, <2>1, <2>2 DEF Submissions
  <2>4. Submissions'
    BY <1>1, <2>1, <2>2, <2>3 DEF Submissions
  <2>5. Channels'
    BY <1>1, <2>1, <2>2 DEF Channels
  <2>6. server # "forth" => Reported'
    <3>. SUFFICES ASSUME server # "forth"  PROVE Reported'
      OBVIOUS
    <3>1. \A j \in jobs' : (j.pc = "ack" => stored[j.msg] = "final" /\ j.left = 1)
                           /\ (j.pc = "done" => stored[j.msg] = "final" \/ outages > 0)
      BY <2>1, <2>2 DEF Reported
    <3>2. \A n \in Range(unacked)' : kind[n] = "valid" =>
            (\E j \in jobs' : j.msg = n) \/ stored[n] = "final" \/ outages > 0
      BY <1>2, <2>1, <2>2 DEF Reported
    <3>3. \A n \in Messages : kind[n] = "valid" /\ gone[n] = "own" =>
            \/ stored[n] = "final" /\ \A j \in jobs' : j.msg = n => j.pc = "done"
            \/ server = "mcourse" /\ outages > 0
      BY <1>3, <2>1, <2>2 DEF Reported
    <3>. QED  BY <1>1, <3>1, <3>2, <3>3 DEF Reported
  <2>7. NotLost'
    BY <1>1, <2>1 DEF NotLost
  <2>8. HungByRedelivery'
    BY <1>1, <2>1 DEF HungByRedelivery
  <2>. QED  BY <1>2, <2>4, <2>5, <2>6, <2>7, <2>8
<1>. QED  BY <1>4, <1>5

\* A message that is refused stays with the channel it came by, and gets no submission.
LEMMA RefuseStep ==
  ASSUME IInv, NEW m \in Messages, Deliverable(m), Refuse(m),
         UNCHANGED <<server, kind, stored, alive, services, ended, faults>>
  PROVE  IInv'
<1>. USE DEF IInv
<1>1. /\ m \in ready /\ alive /\ open /\ kind[m] # "valid" /\ Deliver(m)
      /\ gone' = gone /\ channel' = channel /\ open' = open /\ ready' = ready \ {m}
      /\ outages' = outages /\ jobs' = jobs /\ hung' = hung
  BY DEF Deliverable, Refuse, Deliver, faults
<1>2. Broker' /\ Range(unacked)' = Range(unacked) \cup {m}
  BY <1>1, Delivered
<1>3. Submissions' /\ Channels'
  BY <1>1 DEF Submissions, Channels
<1>4. server # "forth" => Reported'
  BY <1>1, <1>2 DEF Reported
<1>5. NotLost' /\ HungByRedelivery'
  BY <1>1 DEF NotLost, HungByRedelivery
<1>. QED  BY <1>2, <1>3, <1>4, <1>5

\* One that is acknowledged unread is malformed, or mcourse cannot look it up.
LEMMA DiscardStep ==
  ASSUME IInv, NEW m \in Messages, Deliverable(m), Discard(m),
         kind[m] # "valid" \/ (server = "mcourse" /\ "database" \notin services),
         UNCHANGED <<server, kind, stored, alive, services, ended, faults, jobs, hung>>
  PROVE  IInv'
<1>. USE DEF IInv
<1>1. /\ m \in ready /\ alive /\ open /\ ready' = ready \ {m}
      /\ gone' = [gone EXCEPT ![m] = "own"] /\ UNCHANGED <<channel, open, unacked, outages>>
  BY DEF Deliverable, Discard, faults
<1>2. Broker'
  BY <1>1, Discarded
<1>3. Submissions' /\ Channels'
  BY <1>1 DEF Submissions, Channels
<1>4. kind[m] # "valid" \/ (server = "mcourse" /\ outages > 0)
  BY DEF Reported
<1>5. \A n \in Messages : gone'[n] = IF n = m THEN "own" ELSE gone[n]
  BY <1>1 DEF Broker
<1>6. server # "forth" => Reported'
  BY <1>1, <1>4, <1>5 DEF Reported
<1>7. NotLost'
  BY <1>1, <1>4, <1>5 DEF NotLost
<1>8. HungByRedelivery'
  BY <1>1 DEF HungByRedelivery
<1>. QED  BY <1>2, <1>3, <1>6, <1>7, <1>8

\* A step that makes k of submission j and leaves the broker alone: what it says of the
\* report is true.
LEMMA ReportStep ==
  ASSUME IInv, NEW j \in jobs, NEW k, Replaced(j, k), j.pc = "judge",
         stored' = stored \/ Store(j),
         server # "forth" =>
           /\ k.pc = "ack" => stored'[j.msg] = "final" /\ k.left = 1
           /\ k.pc = "done" => stored'[j.msg] = "final" \/ outages > 0,
         UNCHANGED <<server, kind, broker, gone, alive, hung, services, ended, faults>>
  PROVE  IInv'
<1>. USE DEF IInv
<1>1. UNCHANGED <<ready, channel, open, unacked, tags, outages>>
  BY DEF broker, faults
<1>2. Broker' /\ Range(unacked)' = Range(unacked)
  BY <1>1, BrokerSame
<1>3. /\ stored' \in [ Messages -> { "none", "partial", "final" } ]
      /\ \A m \in Messages : m # j.msg => stored'[m] = stored[m]
      /\ j.msg \in Messages
  BY DEF Submissions, Store, Jobs
<1>4. /\ Submissions'
      /\ \A i \in jobs' : i = k \/ (i \in jobs /\ i.msg # j.msg)
      /\ \A i \in jobs : i = j \/ (i \in jobs' /\ i.msg # j.msg)
  BY <1>1, <1>3, ReplacedApart DEF Submissions
<1>5. k \in jobs' /\ k.msg = j.msg /\ k.channel = j.channel
  BY DEF Replaced
<1>6. Channels'
  BY <1>1, <1>4, <1>5 DEF Channels
<1>7. ASSUME server # "forth"  PROVE Reported'
  <2>1. \A i \in jobs' : (i.pc = "ack" => stored'[i.msg] = "final" /\ i.left = 1)
                         /\ (i.pc = "done" => stored'[i.msg] = "final" \/ outages > 0)
    BY <1>3, <1>4, <1>5, <1>7 DEF Reported, Submissions, Jobs
  <2>2. ASSUME NEW m \in Range(unacked), kind[m] = "valid"
        PROVE  (\E i \in jobs' : i.msg = m) \/ stored'[m] = "final" \/ outages > 0
    <3>1. m \in Messages
      BY DEF Broker
    <3>2. CASE m = j.msg
      BY <1>5, <3>2
    <3>3. CASE m # j.msg
      BY <1>3, <1>4, <1>7, <2>2, <3>1, <3>3 DEF Reported
    <3>. QED  BY <3>2, <3>3
  <2>3. ASSUME NEW m \in Messages, kind[m] = "valid", gone[m] = "own"
        PROVE  \/ stored'[m] = "final" /\ \A i \in jobs' : i.msg = m => i.pc = "done"
               \/ server = "mcourse" /\ outages > 0
    <3>1. CASE m = j.msg
      BY <1>7, <2>3, <3>1 DEF Reported
    <3>2. CASE m # j.msg
      BY <1>3, <1>4, <1>5, <1>7, <2>3, <3>2 DEF Reported
    <3>. QED  BY <3>1, <3>2
  <2>. QED  BY <1>1, <1>2, <1>7, <2>1, <2>2, <2>3 DEF Reported
<1>8. NotLost'
  <2>. SUFFICES ASSUME NEW m \in Messages, server # "forth", kind[m] = "valid", gone[m] # "no"
                PROVE  \/ stored'[m] = "final"
                       \/ \E i \in jobs' : i.msg = m /\ i.pc # "done"
                       \/ server = "mcourse" /\ outages > 0
                       \/ gone[m] = "stray" /\ (ended \/ outages > 0)
    BY <1>1 DEF NotLost
  <2>1. CASE m = j.msg
    <3>1. gone[m] = "stray" \/ (server = "mcourse" /\ outages > 0)
      BY <2>1 DEF Reported, Broker
    <3>. QED  BY <1>5, <2>1, <3>1
  <2>2. CASE m # j.msg
    BY <1>3, <1>4, <2>2 DEF NotLost
  <2>. QED  BY <2>1, <2>2
<1>9. HungByRedelivery'
  BY <1>1, <1>4, <1>5 DEF HungByRedelivery
<1>. QED  BY <1>2, <1>4, <1>6, <1>7, <1>8, <1>9

\* mcourse and moj acknowledge after a complete report that was stored.
LEMMA ReportedInTime ==
  ASSUME IInv, NEW j \in jobs, ReportMcourse(j) \/ ReportMoj(j)
  PROVE  IInv'
<1>1. /\ j.pc = "judge" /\ (stored' = stored \/ Store(j))
      /\ UNCHANGED <<server, kind, broker, gone, alive, hung, services, ended, faults>>
  BY DEF ReportMcourse, ReportMoj
<1>2. server # "forth"
  BY DEF ReportMcourse, ReportMoj
<1>3. j \in Jobs /\ j.msg \in Messages
  BY DEF IInv, Submissions, Jobs
<1>4. j.left = 1 /\ Store(j) => stored'[j.msg] = "final"
  BY <1>3 DEF Store, Complete, IInv, Submissions
<1>5. \/ ThenAck(j) /\ Store(j) /\ Complete(j)
      \/ Continue(j) /\ (Complete(j) => Store(j) \/ outages > 0)
  BY <1>2 DEF ReportMcourse, ReportMoj, IInv, Reported
<1>6. CASE ThenAck(j) /\ Store(j) /\ Complete(j)
  <2>1. PICK k : Replaced(j, k) /\ k.pc = "ack" /\ k.left = j.left
    BY <1>6, ToAck DEF IInv
  <2>2. server # "forth" =>
          /\ k.pc = "ack" => stored'[j.msg] = "final" /\ k.left = 1
          /\ k.pc = "done" => stored'[j.msg] = "final" \/ outages > 0
    BY <1>4, <1>6, <2>1 DEF Complete
  <2>. QED  BY <1>1, <2>1, <2>2, ReportStep
<1>7. CASE Continue(j) /\ (Complete(j) => Store(j) \/ outages > 0)
  <2>1. PICK k : Replaced(j, k) /\ k.pc = IF j.left = 1 THEN "done" ELSE "judge"
    BY <1>7, Continued DEF IInv
  <2>2. server # "forth" =>
          /\ k.pc = "ack" => stored'[j.msg] = "final" /\ k.left = 1
          /\ k.pc = "done" => stored'[j.msg] = "final" \/ outages > 0
    BY <1>4, <1>7, <2>1 DEF Complete
  <2>. QED  BY <1>1, <2>1, <2>2, ReportStep
<1>. QED  BY <1>5, <1>6, <1>7

\* The process ends: the broker has everything back, and no submission is left.
LEMMA DieStep ==
  ASSUME IInv, Die, UNCHANGED <<server, kind, channel, stored, gone, services, outages>>,
         tags' \in Nat
  PROVE  IInv'
<1>. USE DEF IInv
<1>1. /\ ready' = ready \cup Range(unacked) /\ unacked' = << >> /\ jobs' = {}
      /\ ~ open' /\ ~ hung' /\ ~ alive' /\ ended'
  BY DEF Die
<1>2. Broker' /\ Range(unacked)' = {}
  BY <1>1, ChannelLost
<1>3. Submissions' /\ Channels'
  BY <1>1 DEF Submissions, Channels
<1>4. server # "forth" => Reported'
  BY <1>1, <1>2 DEF Reported
<1>5. NotLost'
  BY <1>1 DEF NotLost, Reported, Broker
<1>6. HungByRedelivery'
  BY <1>1 DEF HungByRedelivery
<1>. QED  BY <1>2, <1>3, <1>4, <1>5, <1>6

\* forth publishes, or the process ends with the connection for the reports.
LEMMA ReportForthStep ==
  ASSUME IInv, NEW j \in jobs, ReportForth(j)
  PROVE  IInv'
<1>. USE DEF IInv
<1>1. server = "forth" /\ j.pc = "judge"
      /\ UNCHANGED <<server, kind, channel, tags, gone, services, faults>>
  BY DEF ReportForth
<1>2. CASE "reports" \in services
  <2>1. Store(j) /\ ThenAck(j) /\ UNCHANGED <<ready, open, unacked, alive, hung, ended>>
    BY <1>2 DEF ReportForth
  <2>2. PICK k : Replaced(j, k) /\ k.pc = "ack" /\ k.left = j.left
    BY <2>1, ToAck
  <2>3. UNCHANGED <<server, kind, broker, gone, alive, hung, services, ended, faults>>
    BY <1>1, <2>1 DEF broker
  <2>. QED  BY <1>1, <2>1, <2>2, <2>3, ReportStep
<1>3. CASE "reports" \notin services
  <2>1. Die /\ stored' = stored
    BY <1>3 DEF ReportForth
  <2>2. tags' \in Nat /\ outages' = outages
    BY <1>1 DEF Broker, faults
  <2>. QED  BY <1>1, <2>1, <2>2, DieStep
<1>. QED  BY <1>2, <1>3

\* An envelope is acknowledged on the present channel: that takes its own message from the
\* broker, which has been reported in full; or another one, whose submission is still
\* there or has been reported; or the channel is lost.
LEMMA AckStep ==
  ASSUME IInv, NEW j \in jobs, Ack(j)
  PROVE  IInv'
<1>. USE DEF IInv
<1>1. alive /\ j.pc = "ack" /\ UNCHANGED <<server, kind, stored, services, faults>>
  BY DEF Ack
<1>2. outages' = outages
  BY <1>1 DEF faults
<1>3. CASE ~ open
  <2>1. Die /\ UNCHANGED <<tags, channel, gone>>
    BY <1>3 DEF Ack
  <2>2. tags' \in Nat
    BY <2>1 DEF Broker
  <2>. QED  BY <1>1, <1>2, <2>1, <2>2, DieStep
<1>4. CASE open
  <2>1. /\ Continue(j) /\ UNCHANGED <<alive, hung, ended, channel, tags>>
        /\ open' => open
    BY <1>4 DEF Ack
  <2>2. PICK k : Replaced(j, k) /\ k.pc = IF j.left = 1 THEN "done" ELSE "judge"
    BY <2>1, Continued
  <2>3. k \in jobs' /\ k.msg = j.msg /\ k.channel = j.channel /\ j.msg \in Messages
    BY <2>2 DEF Replaced, Submissions, Jobs
  <2>4. /\ Submissions'
        /\ \A i \in jobs' : i = k \/ (i \in jobs /\ i.msg # j.msg)
        /\ \A i \in jobs : i = j \/ (i \in jobs' /\ i.msg # j.msg)
    <3>1. stored' \in [ Messages -> { "none", "partial", "final" } ] /\ (open' => alive')
      BY <1>1, <2>1 DEF Submissions
    <3>. QED  BY <1>1, <1>2, <2>1, <2>2, <3>1, ReplacedApart
  <2>5. server # "forth" => stored[j.msg] = "final" /\ k.pc = "done"
    BY <1>1, <2>2 DEF Reported
  <2>6. ASSUME server # "forth"
        PROVE  \A i \in jobs' : (i.pc = "ack" => stored[i.msg] = "final" /\ i.left = 1)
                                /\ (i.pc = "done" => stored[i.msg] = "final" \/ outages > 0)
    BY <2>3, <2>4, <2>5, <2>6 DEF Reported
  <2>7. ASSUME server # "forth", NEW m \in Messages, kind[m] = "valid",
               (\E i \in jobs : i.msg = m) \/ stored[m] = "final" \/ outages > 0
        PROVE  (\E i \in jobs' : i.msg = m) \/ stored[m] = "final" \/ outages > 0
    BY <2>3, <2>4, <2>7
  <2>8. HungByRedelivery'
    BY <2>1, <2>3, <2>4 DEF HungByRedelivery
  <2>9. CASE j.tag \in DOMAIN unacked
    <3>. DEFINE n == unacked[j.tag]
                g == IF n = j.msg THEN "own" ELSE "stray"
    <3>1. /\ unacked' = Restrict(unacked, DOMAIN unacked \ {j.tag})
          /\ gone' = [gone EXCEPT ![n] = g] /\ UNCHANGED <<ready, open>>
      BY <1>4, <2>9 DEF Ack
    <3>2. /\ n \in Range(unacked) /\ n \in Messages
          /\ gone \in [ Messages -> { "no", "own", "stray" } ]
      BY <2>9 DEF Range, Broker
    <3>3. Broker' /\ Range(unacked)' = Range(unacked) \ {n}
      BY <2>1, <2>9, <3>1, Acknowledged
    <3>4. g \in { "own", "stray" } /\ (g = "own" <=> n = j.msg)
      OBVIOUS
    <3>. HIDE DEF n, g
    <3>5. \A m \in Messages : gone'[m] = IF m = n THEN g ELSE gone[m]
      BY <3>1, <3>2
    <3>6. Channels'
      BY <1>4, <2>1, <2>3, <2>4, <3>1 DEF Channels
    <3>7. ASSUME server # "forth"  PROVE Reported'
      <4>1. \A m \in Range(unacked)' : kind[m] = "valid" =>
              (\E i \in jobs' : i.msg = m) \/ stored[m] = "final" \/ outages > 0
        BY <2>7, <3>3, <3>7 DEF Reported, Broker
      <4>2. ASSUME NEW m \in Messages, kind[m] = "valid", gone'[m] = "own"
            PROVE  \/ stored[m] = "final" /\ \A i \in jobs' : i.msg = m => i.pc = "done"
                   \/ server = "mcourse" /\ outages > 0
        <5>1. CASE m = j.msg
          BY <2>4, <2>5, <3>7, <5>1
        <5>2. CASE m # j.msg
          <6>1. gone[m] = "own"
            BY <3>4, <3>5, <4>2, <5>2
          <6>. QED  BY <2>3, <2>4, <3>7, <4>2, <5>2, <6>1 DEF Reported
        <5>. QED  BY <5>1, <5>2
      <4>. QED  BY <1>1, <1>2, <2>6, <3>7, <4>1, <4>2 DEF Reported
    <3>8. NotLost'
      <4>. SUFFICES ASSUME NEW m \in Messages, server # "forth", kind[m] = "valid",
                           gone'[m] # "no"
                    PROVE  \/ stored[m] = "final"
                           \/ \E i \in jobs' : i.msg = m /\ i.pc # "done"
                           \/ server = "mcourse" /\ outages > 0
                           \/ gone'[m] = "stray" /\ (ended \/ outages > 0)
        BY <1>1, <1>2, <2>1 DEF NotLost
      <4>1. CASE m = j.msg
        BY <2>5, <4>1
      <4>2. CASE m # j.msg /\ m = n
        <5>1. gone'[m] = "stray"
          BY <3>4, <3>5, <4>2
        <5>2. (\E i \in jobs : i.msg = m) \/ stored[m] = "final" \/ outages > 0
          BY <3>2, <4>2 DEF Reported
        <5>3. \A i \in jobs : i.msg = m => i \in jobs'
                                /\ (i.pc = "done" => stored[m] = "final" \/ outages > 0)
          BY <2>4, <4>2 DEF Reported
        <5>. QED  BY <5>1, <5>2, <5>3
      <4>3. CASE m # j.msg /\ m # n
        BY <2>4, <3>5, <4>3 DEF NotLost
      <4>. QED  BY <4>1, <4>2, <4>3
    <3>. QED  BY <1>1, <2>4, <2>8, <3>3, <3>6, <3>7, <3>8
  <2>10. CASE j.tag \notin DOMAIN unacked
    <3>1. /\ ~ open' /\ ready' = ready \cup Range(unacked) /\ unacked' = << >>
          /\ gone' = gone
      BY <1>4, <2>10 DEF Ack
    <3>2. Broker' /\ Range(unacked)' = {}
      <4>1. tags' \in Nat
        BY <2>1 DEF Broker
      <4>. QED  BY <3>1, <4>1, ChannelLost
    <3>3. Channels'
      BY <1>1, <2>1, <3>1 DEF Channels
    <3>4. ASSUME server # "forth"  PROVE Reported'
      <4>1. ASSUME NEW m \in Messages, kind[m] = "valid", gone[m] = "own"
            PROVE  \/ stored[m] = "final" /\ \A i \in jobs' : i.msg = m => i.pc = "done"
                   \/ server = "mcourse" /\ outages > 0
        <5>1. CASE m = j.msg
          BY <2>4, <2>5, <3>4, <5>1
        <5>2. CASE m # j.msg
          BY <2>3, <2>4, <3>4, <4>1, <5>2 DEF Reported
        <5>. QED  BY <5>1, <5>2
      <4>. QED  BY <1>1, <1>2, <2>6, <3>1, <3>2, <3>4, <4>1 DEF Reported
    <3>5. NotLost'
      <4>. SUFFICES ASSUME NEW m \in Messages, server # "forth", kind[m] = "valid",
                           gone[m] # "no"
                    PROVE  \/ stored[m] = "final"
                           \/ \E i \in jobs' : i.msg = m /\ i.pc # "done"
                           \/ server = "mcourse" /\ outages > 0
                           \/ gone[m] = "stray" /\ (ended \/ outages > 0)
        BY <1>1, <1>2, <2>1, <3>1 DEF NotLost
      <4>1. CASE m = j.msg
        BY <2>5, <4>1
      <4>2. CASE m # j.msg
        BY <2>4, <4>2 DEF NotLost
      <4>. QED  BY <4>1, <4>2
    <3>. QED  BY <1>1, <2>4, <2>8, <3>2, <3>3, <3>4, <3>5
  <2>. QED  BY <2>9, <2>10
<1>. QED  BY <1>3, <1>4

\* A submission that is over is destroyed.
LEMMA FinishStep ==
  ASSUME IInv, NEW j \in jobs, Finish(j)
  PROVE  IInv'
<1>. USE DEF IInv
<1>1. /\ ~ hung /\ j.pc = "done" /\ jobs' = jobs \ {j}
      /\ UNCHANGED <<server, kind, ready, channel, open, unacked, tags, stored, gone, alive, hung,
                     services, ended, outages>>
  BY DEF Finish, broker, faults
<1>2. Broker' /\ Range(unacked)' = Range(unacked)
  BY <1>1, BrokerSame
<1>3. Submissions' /\ Channels'
  BY <1>1 DEF Submissions, Channels
<1>4. server # "forth" => Reported'
  BY <1>1, <1>2 DEF Reported
<1>5. NotLost'
  BY <1>1 DEF NotLost
<1>6. HungByRedelivery'
  BY <1>1 DEF HungByRedelivery
<1>. QED  BY <1>1, <1>2, <1>3, <1>4, <1>5, <1>6

\* A channel is opened, when there was none.
LEMMA OpenStep ==
  ASSUME IInv, ~ open, channel' = channel + 1, open' = TRUE, alive' = TRUE, unacked' = << >>,
         tags' = 0, services \subseteq services', services' \subseteq Services,
         UNCHANGED <<server, kind, ready, jobs, stored, gone, hung, ended, outages>>
  PROVE  IInv'
<1>. USE DEF IInv
<1>1. unacked' = unacked /\ DOMAIN << >> = {}
  BY DEF Channels
<1>2. Broker' /\ Range(unacked)' = Range(unacked)
  BY <1>1 DEF Broker, Left
<1>3. channel + 1 \in Nat \ {0} /\ \A j \in jobs : j.channel \in 1 .. channel
  BY DEF Submissions
<1>4. Submissions' /\ Channels'
  BY <1>3 DEF Submissions, Channels
<1>5. server # "forth" => Reported'
  BY <1>2 DEF Reported
<1>6. NotLost'
  BY DEF NotLost
<1>7. HungByRedelivery'
  <2>1. \A j \in jobs : j.channel < channel + 1
    BY <1>3 DEF Submissions
  <2>. QED  BY <2>1 DEF HungByRedelivery
<1>. QED  BY <1>2, <1>4, <1>5, <1>6, <1>7

\* The connection breaks: its messages are in the queue again.
LEMMA BreakStep ==
  ASSUME IInv, Break
  PROVE  IInv'
<1>. USE DEF IInv
<1>1. /\ ~ open' /\ ready' = ready \cup Range(unacked) /\ unacked' = << >>
      /\ UNCHANGED <<server, kind, channel, tags, jobs, stored, gone, alive, hung, services, ended,
                     outages>>
  BY DEF Break
<1>2. Broker' /\ Range(unacked)' = {}
  <2>1. tags' \in Nat
    BY <1>1 DEF Broker
  <2>. QED  BY <1>1, <2>1, ChannelLost
<1>3. Submissions' /\ Channels'
  BY <1>1 DEF Submissions, Channels
<1>4. server # "forth" => Reported'
  BY <1>1, <1>2 DEF Reported
<1>5. NotLost' /\ HungByRedelivery'
  BY <1>1 DEF NotLost, HungByRedelivery
<1>. QED  BY <1>1, <1>2, <1>3, <1>4, <1>5

\* A service goes away, which is counted, or comes back.
LEMMA ServiceStep ==
  ASSUME IInv, services' \subseteq Services, outages' \in Nat, outages' >= outages,
         services \subseteq services' \/ outages' > 0,
         UNCHANGED <<server, kind, broker, jobs, stored, gone, alive, hung, ended>>
  PROVE  IInv'
<1>. USE DEF IInv
<1>1. UNCHANGED <<ready, channel, open, unacked, tags>> /\ outages \in Nat
  BY DEF broker, Submissions
<1>2. Broker' /\ Range(unacked)' = Range(unacked)
  BY <1>1, BrokerSame
<1>3. Submissions' /\ Channels'
  BY <1>1 DEF Submissions, Channels
<1>4. outages > 0 => outages' > 0
  BY <1>1
<1>5. server # "forth" => Reported'
  BY <1>1, <1>2, <1>4 DEF Reported
<1>6. NotLost' /\ HungByRedelivery'
  BY <1>1, <1>4 DEF NotLost, HungByRedelivery
<1>. QED  BY <1>2, <1>3, <1>5, <1>6

-----------------------------------------------------------------------------
(* The theorems.                                                           *)

\* At the start every message is in the queue and nothing is in flight.
LEMMA InitOK == Init => IInv
<1>. SUFFICES ASSUME Init  PROVE IInv
  OBVIOUS
<1>1. DOMAIN << >> = {} /\ Range(<< >>) = {}
  BY DEF Range
<1>2. gone \in [ Messages -> { "no", "own", "stray" } ] /\ Left = {}
  BY DEF Init, Left
<1>3. Broker
  BY <1>1, <1>2 DEF Init, Broker
<1>4. Submissions
  BY DEF Init, Submissions
<1>5. Channels
  BY DEF Init, Channels
<1>6. Reported
  BY <1>1 DEF Init, Reported, Services
<1>7. NotLost /\ HungByRedelivery
  BY DEF Init, NotLost, HungByRedelivery
<1>. QED  BY <1>3, <1>4, <1>5, <1>6, <1>7 DEF IInv

\* No step disturbs the invariant.
LEMMA NextPreserves ==
  ASSUME IInv, [Next]_vars
  PROVE  IInv'
<1>1. ASSUME NEW m \in Messages, FetchMcourse(m) \/ FetchMoj(m) \/ FetchForth(m)
      PROVE  IInv'
  <2>1. Deliverable(m) /\ UNCHANGED <<server, kind, stored, alive, services, ended, faults>>
    BY <1>1 DEF FetchMcourse, FetchMoj, FetchForth
  <2>2. \/ Accept(m) \/ Refuse(m)
        \/ /\ Discard(m) /\ UNCHANGED <<jobs, hung>>
           /\ kind[m] # "valid" \/ (server = "mcourse" /\ "database" \notin services)
    BY <1>1 DEF FetchMcourse, FetchMoj, FetchForth, Malformed
  <2>. QED  BY <2>1, <2>2, AcceptStep, RefuseStep, DiscardStep
<1>2. CASE Reconnect
  <2>1. ~ open /\ alive' = TRUE /\ services' = services /\ services \subseteq Services
    BY <1>2 DEF Reconnect, IInv, Submissions
  <2>. QED  BY <1>2, <2>1, OpenStep DEF Reconnect, faults
<1>3. ASSUME NEW j \in jobs,
             ReportMcourse(j) \/ ReportMoj(j) \/ ReportForth(j) \/ Ack(j) \/ Finish(j)
      PROVE  IInv'
  BY <1>3, ReportedInTime, ReportForthStep, AckStep, FinishStep
<1>4. CASE Break
  BY <1>4, BreakStep
<1>5. CASE Crash
  <2>1. tags' \in Nat
    BY <1>5 DEF Crash, IInv, Broker
  <2>. QED  BY <1>5, <2>1, DieStep DEF Crash
<1>6. CASE Restart
  <2>1. ~ open /\ unacked' = << >>
    BY <1>6 DEF Restart, IInv, Submissions, Channels
  <2>2. services \subseteq services' /\ services' \subseteq Services
    BY <1>6 DEF Restart, IInv, Submissions, Services
  <2>. QED  BY <1>6, <2>1, <2>2, OpenStep DEF Restart, faults
<1>7. ASSUME NEW service \in Services, Lose(service) \/ Restore(service)
      PROVE  IInv'
  <2>1. services \subseteq Services /\ outages \in Nat
    BY DEF IInv, Submissions
  <2>2. services' \subseteq Services /\ (services \subseteq services' \/ outages' > 0)
    BY <1>7, <2>1 DEF Lose, Restore
  <2>3. outages' \in Nat /\ outages' >= outages
    BY <1>7, <2>1 DEF Lose, Restore, faults
  <2>4. UNCHANGED <<server, kind, broker, jobs, stored, gone, alive, hung, ended>>
    BY <1>7 DEF Lose, Restore
  <2>. QED  BY <2>2, <2>3, <2>4, ServiceStep
<1>8. CASE UNCHANGED vars
  <2>1. services' \subseteq Services /\ outages' \in Nat /\ outages' >= outages
        /\ services \subseteq services'
    BY <1>8 DEF vars, faults, IInv, Submissions
  <2>. QED  BY <1>8, <2>1, ServiceStep DEF vars
<1>. QED  BY <1>1, <1>2, <1>3, <1>4, <1>5, <1>6, <1>7, <1>8 DEF Next, Fetch, Summarize

\* The inductive invariant holds whatever breaks, how often and in which order.
THEOREM Invariance == Spec => []IInv
BY InitOK, NextPreserves, PTL DEF Spec

\* A message is in one place, and it has one submission at most.
THEOREM TypeCorrect == Spec => []TypeOK
<1>1. IInv => TypeOK
  <2>. SUFFICES ASSUME IInv  PROVE TypeOK
    OBVIOUS
  <2>1. \A j \in jobs : j.left \in 1 .. Tests
    BY DEF IInv, Submissions, Jobs
  <2>2. Range(unacked) \subseteq Messages
    BY DEF IInv, Broker
  <2>. QED  BY <2>1, <2>2 DEF IInv, Broker, Submissions, Left, TypeOK
<1>. QED  BY <1>1, Invariance, PTL

\* No accepted submission of mcourse or moj is lost but in the cases that NotLost names,
\* for any number of messages, lost channels, crashes and outages.
THEOREM NothingLost == Spec => []NotLost
<1>1. IInv => NotLost
  BY DEF IInv
<1>. QED  BY <1>1, Invariance, PTL

\* Fetching waits for the lock of a directory for ever only because of a channel that was
\* lost while a submission was judged.
THEOREM HangExplained == Spec => []HungByRedelivery
<1>1. IInv => HungByRedelivery
  BY DEF IInv
<1>. QED  BY <1>1, Invariance, PTL
=============================================================================
