------------------------------- MODULE Delivery -------------------------------
(***************************************************************************)
(* How a judge server takes submissions from its message queue, reports    *)
(* them and acknowledges them: mcourse, moj (one of its two queues, which  *)
(* are alike) and forth, on class rabbitmq.                                *)
(*                                                                         *)
(* The broker and the database are outside the program and are modelled by *)
(* what the code relies on: a delivery has a tag that means something on   *)
(* its own channel only; what was delivered and not acknowledged goes back *)
(* to the queue when the channel closes; at most Prefetch deliveries are   *)
(* unacknowledged; the acknowledgement of a tag the channel does not know  *)
(* closes it; a statement fails while the database is away.                *)
(*                                                                         *)
(* Submissions are programming submissions.  verify locks the working      *)
(* directory of each (module SubmissionLock): here, a message that is      *)
(* delivered again while its submission is in flight makes fetching hang.  *)
(* Judging ends, and the report can be dumped to JSON: the submissions     *)
(* left out are those with a program that sleeps for ever, which no limit  *)
(* ends (module ProgrammingJudger), and those whose report quotes text     *)
(* that is not UTF-8, which mcourse never acknowledges and which end moj's *)
(* process again after each delivery (module CourseGrading).               *)
(***************************************************************************)
EXTENDS Naturals, FiniteSets, Functions

CONSTANTS
  Messages,        \* the messages in the queue at the start
  Kinds,           \* what the messages may be: "valid", "malformed", "refused" (by verify)
  Servers,         \* a subset of {"mcourse", "moj", "forth"}
  Prefetch,        \* how many deliveries may be unacknowledged
  Tests,           \* how often a submission is summarized, the last time complete
  MaxBreaks,       \* bound: connections that break by themselves
  MaxCrashes,      \* bound: crashes of the process from outside
  MaxOutages,      \* bound: outages of the database, redis and the report queue
  MaxChannels      \* bound: channels opened

ASSUME DeliveryAssumption ==
  /\ Servers \subseteq { "mcourse", "moj", "forth" }
  /\ Kinds \subseteq [ Messages -> { "valid", "malformed", "refused" } ]
  /\ Tests \in Nat \ {0}

VARIABLES
  server,          \* the server of this behaviour
  kind,            \* what each message is
  ready,           \* messages in the queue
  channel,         \* the number of the channel
  open,            \* the channel is connected
  unacked,         \* the deliveries of this channel: from tags to messages
  tags,            \* the number of deliveries of this channel
  jobs,            \* the submissions in flight, each with its envelope
  stored,          \* the report of each message: "none", "partial" or "final"
  gone,            \* how each message left the broker: "no", "own", "stray"
  alive,           \* the process runs
  hung,            \* a worker waits for a directory lock and holds server_mutex
  services,        \* of database, redis and report queue, those that answer
  ended,           \* the process has ended at some time
  breaks, crashes, outages

broker == <<ready, channel, open, unacked, tags>>
faults == <<breaks, crashes, outages>>
vars == <<server, kind, broker, jobs, stored, gone, alive, hung, services, ended, faults>>

Services == { "database", "redis", "reports" }

\* A submission under judgement: its envelope, the summaries to come, and whether
\* the worker is about to acknowledge (pc "ack") or
\* to call finish_submission (pc "done").
Job(m, tag) == [ msg |-> m, channel |-> channel, tag |-> tag, left |-> Tests, pc |-> "judge" ]

Init ==
  /\ server \in Servers
  /\ kind \in Kinds
  /\ ready = Messages
  /\ channel = 1 /\ open = TRUE /\ unacked = << >> /\ tags = 0
  /\ jobs = {}
  /\ stored = [ m \in Messages |-> "none" ]
  /\ gone = [ m \in Messages |-> "no" ]
  /\ alive = TRUE /\ hung = FALSE /\ ended = FALSE /\ services = Services
  /\ breaks = 0 /\ crashes = 0 /\ outages = 0

-----------------------------------------------------------------------------
(* fetch_submission, which runs under server_mutex.                        *)

\* A message can be had: the channel is open and the prefetch is not used up.
Deliverable(m) ==
  /\ alive /\ open /\ ~ hung
  /\ m \in ready
  /\ Cardinality(DOMAIN unacked) < Prefetch

\* The envelope of the message reaches the program and stays unacknowledged.
Deliver(m) ==
  /\ ready' = ready \ {m}
  /\ tags' = tags + 1
  /\ unacked' = [ t \in DOMAIN unacked \cup {tags + 1} |->
                    IF t = tags + 1 THEN m ELSE unacked[t] ]
  /\ UNCHANGED <<channel, open, gone>>

\* It is delivered and acknowledged at once.
Discard(m) ==
  /\ ready' = ready \ {m}
  /\ tags' = tags + 1
  /\ gone' = [gone EXCEPT ![m] = "own"]
  /\ UNCHANGED <<channel, open, unacked>>

\* Mutation: a message that becomes a submission stays in the queue.
AcceptPeek(m) ==
  /\ kind[m] = "valid"
  /\ jobs' = jobs \cup { Job(m, tags + 1) }
  /\ tags' = tags + 1
  /\ UNCHANGED <<ready, channel, open, unacked, gone, hung>>

\* verify accepts the submission and it is distributed; or verify waits for the lock
\* of the same submission, which is in flight.
Accept(m) ==
  /\ kind[m] = "valid"
  /\ Deliver(m)
  /\ IF \E j \in jobs : j.msg = m THEN hung' = TRUE /\ UNCHANGED jobs
     ELSE jobs' = jobs \cup { Job(m, tags + 1) } /\ UNCHANGED hung

\* verify refuses it.  summarize_invalid throws (mcourse, moj) or does nothing
\* (forth); fetch_submission_nolock logs what is thrown.  Nobody acknowledges it.
Refuse(m) ==
  /\ kind[m] = "refused"
  /\ Deliver(m)
  /\ UNCHANGED <<jobs, hung>>

\* Mutation: the message is not acknowledged.
MalformedKept(m) ==
  /\ kind[m] = "malformed"
  /\ Deliver(m)
  /\ UNCHANGED <<jobs, hung>>

\* It cannot be parsed: the exception is met with an acknowledgement.
Malformed(m) ==
  /\ kind[m] = "malformed"
  /\ Discard(m)
  /\ UNCHANGED <<jobs, hung>>

\* mcourse marks the submission with grade -1 before it is verified.  When that
\* fails, it is taken for invalid like one that cannot be parsed, the report that
\* says so fails as well, and it is acknowledged.
FetchMcourse(m) ==
  /\ server = "mcourse"
  /\ Deliverable(m)
  /\ \/ "database" \in services /\ (Accept(m) \/ Refuse(m))
     \/ "database" \notin services /\ kind[m] # "malformed" /\ Discard(m) /\ UNCHANGED <<jobs, hung>>
     \/ Malformed(m)
  /\ UNCHANGED <<server, kind, stored, alive, services, ended, faults>>

FetchMoj(m) ==
  /\ server = "moj"
  /\ Deliverable(m)
  /\ Accept(m) \/ Refuse(m) \/ Malformed(m)
  /\ UNCHANGED <<server, kind, stored, alive, services, ended, faults>>

FetchForth(m) ==
  /\ server = "forth"
  /\ Deliverable(m)
  /\ Accept(m) \/ Refuse(m) \/ Malformed(m)
  /\ UNCHANGED <<server, kind, stored, alive, services, ended, faults>>

\* rabbitmq::fetch meets an exception, sleeps and connects again, with a new channel.
Reconnect ==
  /\ alive /\ ~ open /\ ~ hung
  /\ channel < MaxChannels
  /\ channel' = channel + 1
  /\ open' = TRUE
  /\ unacked' = << >>
  /\ tags' = 0
  /\ UNCHANGED <<server, kind, ready, jobs, stored, gone, alive, hung, services, ended, faults>>

-----------------------------------------------------------------------------
(* summarize, by the worker that has processed a task.                     *)

Complete(j) == j.left = 1

\* The submission goes on to its next task, or is over.
Continue(j) ==
  jobs' = (jobs \ {j}) \cup
            { IF Complete(j) THEN [j EXCEPT !.pc = "done"]
              ELSE [j EXCEPT !.left = @ - 1, !.pc = "judge"] }

ThenAck(j) == jobs' = (jobs \ {j}) \cup { [j EXCEPT !.pc = "ack"] }

Store(j) == stored' = [stored EXCEPT ![j.msg] = IF Complete(j) THEN "final" ELSE "partial"]

\* Mutation: the acknowledgement follows the first report.
ReportMcourseEarly(j) ==
  /\ server = "mcourse" /\ "database" \in services /\ alive
  /\ j.pc = "judge"
  /\ Store(j)
  /\ ThenAck(j)
  /\ UNCHANGED <<server, kind, broker, gone, alive, hung, services, ended, faults>>

\* report_to_server of mcourse updates the report every time; the acknowledgement
\* follows the complete one if no statement failed.
ReportMcourse(j) ==
  /\ server = "mcourse" /\ alive
  /\ j.pc = "judge"
  /\ IF "database" \in services
     THEN Store(j) /\ (IF Complete(j) THEN ThenAck(j) ELSE Continue(j))
     ELSE Continue(j) /\ UNCHANGED stored
  /\ UNCHANGED <<server, kind, broker, gone, alive, hung, services, ended, faults>>

\* moj updates its database only when the report is complete, and redis afterwards
\* in any case: when redis fails, the update is made and not acknowledged.
ReportMoj(j) ==
  /\ server = "moj" /\ alive
  /\ j.pc = "judge"
  /\ IF Complete(j) /\ "database" \in services THEN Store(j) ELSE UNCHANGED stored
  /\ IF Complete(j) /\ { "database", "redis" } \subseteq services THEN ThenAck(j) ELSE Continue(j)
  /\ UNCHANGED <<server, kind, broker, gone, alive, hung, services, ended, faults>>

\* The process ends: by an exception that leaves a worker thread, or from outside.
\* The submissions in flight are forgotten, their messages go back to the queue.
Die ==
  /\ alive' = FALSE /\ hung' = FALSE /\ ended' = TRUE
  /\ open' = FALSE
  /\ jobs' = {}
  /\ ready' = ready \cup Range(unacked)
  /\ unacked' = << >>

\* forth publishes the results and acknowledges every time it summarizes.  The
\* connection of the reports is never opened again: the exception ends the process.
ReportForth(j) ==
  /\ server = "forth" /\ alive
  /\ j.pc = "judge"
  /\ IF "reports" \in services
     THEN Store(j) /\ ThenAck(j) /\ UNCHANGED <<ready, open, unacked, alive, hung, ended>>
     ELSE Die /\ UNCHANGED stored
  /\ UNCHANGED <<server, kind, channel, tags, gone, services, faults>>

\* BasicAck takes the tag of the envelope to the present channel, whichever channel
\* the envelope came from: it may hit another message, or no message, at which the
\* broker closes the channel.  Without a connection it throws.
Ack(j) ==
  /\ alive
  /\ j.pc = "ack"
  /\ IF ~ open
     THEN Die /\ UNCHANGED <<tags, channel, gone>>
     ELSE IF j.tag \in DOMAIN unacked
     THEN /\ unacked' = Restrict(unacked, DOMAIN unacked \ {j.tag})
          /\ gone' = [gone EXCEPT ![unacked[j.tag]] =
                        IF unacked[j.tag] = j.msg THEN "own" ELSE "stray"]
          /\ Continue(j)
          /\ UNCHANGED <<alive, hung, ended, ready, channel, open, tags>>
     ELSE /\ open' = FALSE
          /\ ready' = ready \cup Range(unacked)
          /\ unacked' = << >>
          /\ Continue(j)
          /\ UNCHANGED <<alive, hung, ended, channel, tags, gone>>
  /\ UNCHANGED <<server, kind, stored, services, faults>>

\* Mutation: finish_submission does not take server_mutex.
FinishUnlocked(j) ==
  /\ alive
  /\ j.pc = "done"
  /\ jobs' = jobs \ {j}
  /\ UNCHANGED <<server, kind, broker, stored, gone, alive, hung, services, ended, faults>>

\* finish_submission needs server_mutex; the directory lock goes with the submission.
Finish(j) ==
  /\ alive /\ ~ hung
  /\ j.pc = "done"
  /\ jobs' = jobs \ {j}
  /\ UNCHANGED <<server, kind, broker, stored, gone, alive, hung, services, ended, faults>>

-----------------------------------------------------------------------------
(* Faults.                                                                 *)

Break ==
  /\ open /\ breaks < MaxBreaks
  /\ breaks' = breaks + 1
  /\ open' = FALSE
  /\ ready' = ready \cup Range(unacked)
  /\ unacked' = << >>
  /\ UNCHANGED <<server, kind, channel, tags, jobs, stored, gone, alive, hung, services, ended, crashes, outages>>

Crash ==
  /\ alive /\ crashes < MaxCrashes
  /\ crashes' = crashes + 1
  /\ Die
  /\ UNCHANGED <<server, kind, channel, tags, stored, gone, services, breaks, outages>>

\* The process is started again and opens its channels.
Restart ==
  /\ ~ alive
  /\ channel < MaxChannels
  /\ alive' = TRUE /\ open' = TRUE
  /\ channel' = channel + 1
  /\ tags' = 0
  /\ services' = services \cup { "reports" }
  /\ UNCHANGED <<server, kind, ready, unacked, jobs, stored, gone, hung, ended, faults>>

Lose(service) ==
  /\ service \in services /\ outages < MaxOutages
  /\ services' = services \ {service}
  /\ outages' = outages + 1
  /\ UNCHANGED <<server, kind, broker, jobs, stored, gone, alive, hung, ended, breaks, crashes>>

\* Connections that the program or its libraries open again: MYSQL_OPT_RECONNECT,
\* redis_conn::reconnect.
Restore(service) ==
  /\ service \in { "database", "redis" } \ services
  /\ services' = services \cup {service}
  /\ UNCHANGED <<server, kind, broker, jobs, stored, gone, alive, hung, ended, faults>>

Fetch == \E m \in Messages : FetchMcourse(m) \/ FetchMoj(m) \/ FetchForth(m)
Summarize == \E j \in jobs : ReportMcourse(j) \/ ReportMoj(j) \/ ReportForth(j) \/ Ack(j) \/ Finish(j)

Next ==
  \/ Fetch \/ Reconnect \/ Summarize
  \/ Break \/ Crash \/ Restart
  \/ \E service \in Services : Lose(service) \/ Restore(service)

\* Workers poll the queue, judge what they have taken (judging ends, see above), and the
\* process is started again when it has ended.
Fairness ==
  /\ \A m \in Messages : WF_vars(FetchMcourse(m) \/ FetchMoj(m) \/ FetchForth(m))
  /\ WF_vars(Summarize) /\ WF_vars(Reconnect) /\ WF_vars(Restart)

Spec == Init /\ [][Next]_vars /\ Fairness

-----------------------------------------------------------------------------
(* Properties.                                                             *)

\* Type invariant: each message is in the queue, in one delivery of the channel, or
\* has left the broker, and it has one submission in flight at most.
TypeOK ==
  /\ server \in Servers
  /\ ready \subseteq Messages
  /\ Range(unacked) \subseteq Messages /\ DOMAIN unacked \subseteq 1 .. tags
  /\ \A s, t \in DOMAIN unacked : unacked[s] = unacked[t] => s = t
  /\ LET left == { m \in Messages : gone[m] # "no" }
     IN  /\ ready \cup Range(unacked) \cup left = Messages
         /\ ready \cap Range(unacked) = {} /\ (ready \cup Range(unacked)) \cap left = {}
  /\ \A j, k \in jobs : j.msg = k.msg => j = k
  /\ \A j \in jobs : j.channel \in 1 .. channel /\ j.left \in 1 .. Tests
  /\ stored \in [ Messages -> { "none", "partial", "final" } ]
  /\ open => alive
  /\ services \subseteq Services

\* A valid submission of mcourse or moj that has left the broker is reported in full
\* or still being judged.  The exceptions are an outage of mcourse's database, and
\* the one case in which a redelivery can lose a submission: its message was
\* acknowledged with the tag of another one before its own report failed, or the
\* process ended.
NotLost ==
  \A m \in Messages :
    server # "forth" /\ kind[m] = "valid" /\ gone[m] # "no" =>
      \/ stored[m] = "final"
      \/ \E j \in jobs : j.msg = m /\ j.pc # "done"
      \/ server = "mcourse" /\ outages > 0
      \/ gone[m] = "stray" /\ (ended \/ outages > 0)

\* Fetching hangs only after a channel was lost, and then because of a submission
\* in flight whose envelope came over an earlier channel.
HungByRedelivery ==
  hung => \E j \in jobs : j.channel < channel

\* If no connection breaks, every statement of the database succeeds and verify
\* refuses nothing, then every valid submission of mcourse and moj is reported in
\* full in the end, whenever the process crashes - those whose judging ends and whose
\* report can be dumped, which are all that this module has.
Served ==
  server # "forth" /\ (\A m \in Messages : kind[m] # "refused") =>
    \A m \in Messages :
      <>( breaks > 0 \/ outages > 0 \/ kind[m] # "valid" \/ stored[m] = "final" )
=============================================================================
