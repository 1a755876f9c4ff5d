# Judger: a TLA+ verification project

Judger is the judging daemon of an online judge. It fetches submissions from
judge servers (mcourse, moj, forth over RabbitMQ; sicily over MySQL), runs
each submission's tests on a pool of worker threads under `runguard`, and sends
the results back. This directory holds TLA+ models of its core, the TLC runs
that check them and TLAPS proofs about them.

## 1. The system

### Components

| Component | State | Operations | What makes it correct |
|---|---|---|---|
| **Task graph** (`judge/programming.cpp`, `.hpp`) | `judge_tasks`: parent, condition, script | `verify`'s checks; the recursion of `process` over dependents | every task of an accepted graph is judged or skipped, and never both |
| **Programming judger** (`judge/programming.cpp`) | `results`, `finished`, `mut` of a submission | `verify`, `distribute`, `judge`, `process`, `summarize` | each task once, only after its parent; one final summary, at the end |
| **Worker pool** (`worker.cpp`) | `submissions`, `finished_submissions`, `server_mutex`, the task queue, `stop` | `worker_loop`, `fetch_submission`, `finish_submission`, `stop_workers` | no dangling pointer, nothing left behind at shutdown, all memory reclaimed |
| **Core requests** (`worker.cpp`, `messages.hpp`) | the core queue, a latch, a list of CPUs and a condition variable on the master's stack | ask, grant, wait | the right number of cores; lent cores come back |
| **Directory locks** (`io_utils.cpp`) | `.lock` files and `flock`s | `lock_directory`, release | exclusion per working directory; no deadlock with `server_mutex` |
| **Problem cache** (`verify_timeliness`, `judge_impl`) | `.time`, the cached data of a problem | check, clean, download | no submission sees data that is older than its problem, half cleaned or half downloaded |
| **Random data** (`judge_impl`, `random_generator.sh`) | numbered directories, `.error` | generate, reuse | only complete data are reused, a failed group is reported |
| **Executables and programs** (`program.cpp`) | `.deployed`, `.compiled`, the checksum file | fetch, compile | what runs is what was asked for, completely deployed |
| **Judge servers** (`server/*`) | the message and its acknowledgement, scores | `fetch_submission`, `summarize`, `summarize_invalid` | no submission lost or reported wrongly |
| **Choice, program output** (`choice.cpp`, `program_output.cpp`) | none | grading functions | the grade the question's definition says |
| **Check scripts, runguard** (`exec/`, `runguard/`) | a run's metadata; the supervised process | order of verdicts; signals and limits | the verdict matches what happened to the program |
| **Redis client** (`redis.cpp`) | a connection | execute with reconnection | a report is told to redis or the message stays unacknowledged |
| **Monitors, configuration** | none that judging depends on | reporting, options | (output only) |

### How they interact

A worker (`worker_loop`) answers a core request if there is one, then pops a
`client_task` from the shared queue. If the queue is empty it stops when the
flag is set, and otherwise runs a *round of fetching* under `server_mutex`:
each judge server is asked for a submission, the judger's `verify` checks it and
takes its directory locks, and `distribute` pushes the tasks that depend on
nothing. A popped task is judged; under `submission::mut`, `process` records
the verdict, pushes or skips the dependents, and counts. Who counts the last
task makes the final summary, removes the working directory and, through the
callback `finish_submission`, moves the submission to `finished_submissions`,
which *any* worker clears at the end of its own loop. Tasks, core requests and
callbacks carry plain pointers; nobody counts references.

Judging a task (`judge_impl`) takes the locks of the problem's cache one after
the other, fills what is missing in it, and calls a check script, which calls
`runguard` on the contestant's program, reads its meta file, and exits with a code
that becomes the verdict. After *every* task that is counted, also in the middle of the
recursion over skipped dependents, the judge server summarizes the results so far;
when they are complete it acknowledges the message the submission came in.

### What is hard here

* several workers on one submission and several submissions on one queue, with
  a submission that may be finished while it is still being distributed;
* life times: who may still touch a submission or the stack of a master when
  its owner destroys it;
* programs that never end: most runs are limited in CPU time only, and the daemon waits for
  the scripts without a timeout;
* three kinds of locks nested in different orders (`server_mutex`,
  `submission::mut`, `flock`s that other submissions hold);
* shutdown: an empty queue and the stop flag are read in two steps;
* files: a lock file that its holder's clean-up deletes; caches that a crash or a
  failed download leaves half written, or that a newer version of the problem
  cleans while they are used;
* reports that are made again and again from the same results, which they change, and
  whose texts may be what no JSON can hold;
* the broker: deliveries that come again, tags that mean something else on the next
  channel, failures between a report and its acknowledgement;
* the supervised program against its supervisor: signals, limits, processes that
  outlive it, a meta file that ends in the middle.

`PROJECT.json` lists these hazards at their lines with the properties that
cover them.

## 2. The modules

```
TaskGraph            the graph, verify's checks, process's recursion (pure)
 |- SubmissionVerdict      what is promised for one submission (abstract)
 |- ProgrammingJudger      one submission, any workers   --implements--> SubmissionVerdict
 |- WorkerPool             all submissions, the real queue and locks
 |                                        --implements, per submission--> ProgrammingJudger
CoreRequest          tasks of several cores
SubmissionLock       the directory lock inside the worker loop
ProblemCache         the cached files of a problem and the locks on them
ExecutableCache      the daemon's own scripts: deployed under a lock, run without
CourseTasks          what mcourse and moj share (extends TaskGraph; pure)
 |- Mcourse, Moj           the tasks each builds, its questionnaires, the report
 |                         each makes (pure)
 |- AnswerGrading          choices and outputs (pure)
 |- CourseGrading          a submission from its config to its report:
 |                         process as a stack of calls, INSTANCEs of the three
Delivery             messages, reports, acknowledgements of three servers
Runguard             one supervised run
 |- CheckScript            what the scripts make of it (pure)
 |- Supervision            both, from the fork to the verdict
<module>Proofs       the theorems: ProgrammingJudger, WorkerPool, CoreRequest, SubmissionLock
                     (with those of ExecutableCache), ProblemCache, CourseGrading,
                     Delivery, Supervision
MC*                  instances for TLC
```

**TaskGraph.** `judge_tasks` is a function on `0 .. n-1`; of a task only
`depends_on`, `depends_cond` and `check_script` matter to control. `Verified` is
the conjunction of `verify`'s early returns. The recursion of `process` is given
by its result: `Refused` is one level of it, `Skipped` the least set closed under
`Refused`, `Released` the tasks pushed on the way. All statuses of `status.hpp`
are there; `Outcome` are those a compile task (`compile`) or another one
(`judge_impl`) can end with, an exception (`SYSTEM_ERROR`) included.

**ProgrammingJudger.** One submission from `fetched` on. `Refuse` is the failed
verify, `Accept` a successful one with the first loop of `distribute`,
`Distribute` one push of its second loop, `Pop(w)` a worker taking a task,
`Process(w, i, status)` the whole of `process` with its recursion. `process` is
one step because it runs under `submit->mut` from end to end, and the only
shared thing it touches besides the submission is the queue: pushes one by one or
at once look the same to workers that can only pop them. The queue is kept as
a number of copies per task: what one submission sees of a shared FIFO.

**SubmissionVerdict.** The promise: a submission is rejected or accepted by
`Verified`; statuses are given once and never revised; a dependent is refused if
and only if its parent's status does not satisfy its condition; the submission
is finished when no task is undecided.

**WorkerPool.** The loop of `worker.cpp` as labels (`pc`): `loop` (try_pop),
`empty` (reading the flag), `locking`, `fetching` and `distributing` (a round over
the judge servers), `judging` (until `process` is done), `finishing` (in
`finish_submission`, still holding `mut`), `unlocking`, `ending` (the deferred
`end_judge_task`), `reaping`, `stopped`. The queue is the real FIFO. A submission
may be dropped while it is fetched (an unknown type, an exception of `verify`, an
exception of `summarize_invalid`).

**CoreRequest.** The master's block (`worker.cpp:192-206`) and the answer
(`150-162`). A request is known by its master, since all its pointers point to
the master's stack; `inScope` says whether that block is still there. An answer is
five steps: `PopRequest`, `LockList` (the scoped lock on `write_lock`), `Grant` (the core is added, the
latch counted down), `Unlock` (the end of the scoped lock) and `Wait`. The last two may come
when the latch is open and the master has left the block. What is undefined then the model
takes in every outcome a build can produce: the process ends (`Crash`); nobody notices; the lock of
the master's *next* block, at the same address, is released under its holder, so that two workers may be
at one list, whereupon a core is lost or the process ends (`Grant`); a worker that locks and waits on a
destroyed condition variable blocks or falls through (`Wait`); the destructor of a
condition variable with waiters returns, or blocks for ever as glibc's may (`PassLatch`).
`reused` is a history variable: the masters that began a block while an unlock of the one before was
still to come. Damage to the *text* of the list (`execcpuset`) is abstracted to entries that are there or
not. Waiting has no predicate, so that `WakeSpuriously` may end it.

**SubmissionLock.** Lock files are inodes: `lockFile[d]` is what the path names,
`fd[s]` what a submission has opened, `holders` who has the `flock`.
`lock_directory` is three steps (create the directory, open, `flock`), the
removal of a directory two (its entries, then itself). Submissions have one task,
so that nothing but the locks is left to go wrong.

**ProblemCache.** The paths that are locked one by one: the standard program, the
standard data, each random case. Of a path's content `cache[p]` keeps whether it is there,
complete (`whole`), marked `.error`, and the versions of the problem it was made of.
`VerifyRecent` and `VerifyOutdated` are the two ways through `verify_timeliness`;
`Clean` removes one entry at a time, in any order, with the locks in it (a
new `.lock` file is a new inode, so `holder` is forgotten). There is no action for `problem_lock`:
`open` with `O_RDWR` fails on a directory, and `flock` of -1 as well. Filling a path is two steps,
so that cleaning, a crash or a failure can come in between; what a writer
finishes after a cleaning goes into what others have begun there since. `Crash` ends
the process: its locks go, its files stay, and the broker delivers its submissions
again. (The children of the process inherit the descriptors of its locks; a compiler or generator that outlives
it and keeps its lock is in `ExecutableCache` only.) `suspect` is a history variable that only the properties read: the paths whose
content one of the known disturbances has touched.

**ExecutableCache.** `executable::fetch` for the scripts a task needs (check, run, compare,
compile), one after the other. A worker locks the script's directory, looks for
`.deployed`, and otherwise cleans, copies and builds; it marks and unlocks (`Mark`), and only when it
has all of them does it run them, without any lock. `Crash` keeps the directories and the
marks; a build that is running goes on and keeps the lock, whose descriptor it has inherited
(`Orphan`). All managers leave `md5sum` empty, so that a checksum never makes a worker clean a
script that is marked.

**CourseTasks, Mcourse, Moj, AnswerGrading.** Pure. `Tasks(config)` is `judge_tasks` as
`from_json_programming` builds it, concatenated in the order of the code because
dependencies are indices; `Sections(...)` is the report, one operator for each
`summarize_*_check`. The loops that return early are given by the first task that stops
them (`CaseSection`). A score is a number of `Unit`-ths of a point, with `Unit` such that the divisions of
the instance are exact, as those of `boost::rational` are; `Round` is `round()`. mcourse and moj are two
copies of the same code; what differs between them (moj's memory checks exist
without a grade, a config may lack programs, gtest reports are read differently) is
in their own modules, and so are their questionnaires: the lists that `from_json_choice` and
`from_json_program_output` match up and what `summarize` makes of the grades. `Distance` is the table of `calc_edit_distance`, filled by `<<row, column>>`;
`LeastEdits` (the least cost of all alignments of two texts) and `ChoiceDefined` are the definitions
that the grades are compared with. That the table lies on the stack (`program_output.cpp:23`, up to 200 MB for 5000
characters) and may not fit is not modelled.

**CourseGrading.** `process` once more, here as its recursion: `calls` is the stack, `Judge`
enters it, `Depend` looks at one dependent, `Return` counts the task and makes the
server report; a questionnaire has neither tasks nor calls. So the reports in the middle of the recursion are seen. `Settled` says that
what it leaves is the least set of `TaskGraph`. `summarize` changes the results that it reads: a static check whose
report is not JSON becomes a `SYSTEM_ERROR` (`Reread`), and *each* report appends to its error log, which the section shows
(`errorLog` counts that, `shownLog` is what the latest report shows of it). `ReportToServer` dumps the report to JSON. That
throws if a text that is quoted as it is (`QuotedRaw`: the cases that are listed, the error of a check that
broke, moj's compiler messages) is not UTF-8 (`utf8` of a result). In mcourse it throws inside the try, and the report is not stored; in
moj outside of it (`moj.cpp:539`), and the exception ends the process (`thrown`). A result has one `utf8` for all its
texts, and the texts of a case, which each report reads from the test's files anew, are not part of a section.

**Delivery.** The broker is modelled by what the code relies on: tags are per channel, what is
unacknowledged comes back when the channel closes, at most `Prefetch` deliveries are out, an
unknown tag closes the channel. Judging ends here, and reports can be dumped. Per server there is one action for fetching
(`FetchMcourse`, ...) and one for `summarize` (`ReportMcourse`, ...), with their failures;
`Ack` sends the tag of the envelope to the channel of today. `hung` is a worker that
waits in `verify` for the directory lock of the same submission, with `server_mutex`
held: fetching and finishing are over. `Die` is an exception that leaves a
worker thread.

**Runguard, CheckScript, Supervision.** Runguard's own steps (`pc`), its signal handler
(`handler`, which suspends `pc`), the program with its main process and others in its group or in a
session of their own, and the kernel (`OomKill`, `CpuLimit`, `Tick`) interleave. The meta
file is a record that fills line by line. CheckScript has the scripts as lists of rules, the first of
which applies; `JudgeStatus` and `CompileStatus` map their codes to statuses. The
comparator's run is not followed again but may have every outcome.

## 3. Runs

| Run | Question | States |
|---|---|---|
| `judger` | Is one submission judged as promised, for every small graph? | 51 000 |
| `worker_pool` | Do workers, fetching, releasing and stopping work together, and is it still `ProgrammingJudger` seen from each submission? | 17 000 |
| `worker_pool_release` | Is a released submission no longer used? *(no: finding)* | |
| `core_request` | Are requests answered while they are alive, and counted right? | 28 000 |
| `core_request_return` | Do lent cores come back? *(no: finding)* | |
| `submission_lock` | Does the directory lock keep rejudges apart, and does everybody finish without rejudges? | 13 000 |
| `submission_lock_block` | Is it safe to block in `verify`? *(no: finding)* | |
| `course_grading` | Do the servers build graphs that verify accepts, and reports that say what the verdicts and the answers earn? | 52 000 |
| `delivery` | Which submissions are reported, redelivered, lost? | 232 000 |
| `problem_cache` | Do tests run with complete and recent data? | 415 000 |
| `executable_cache` | Do the scripts that run stay whole, and are they fetched in the end? | 15 000 |
| `supervision` | Is the verdict true of the run, and does nothing of it survive? | 696 000 |

**judger** checks `TypeOK`, `JudgedOnce`, `NotStranded`, `FinalSummary`
(one summary for each counted task, one final one, at the end), the refinement `Implements` and the liveness property
`Disposed` (the submission gets to its end unless a worker judges one of its tasks for ever). Instance: *every* graph of up to three tasks, malformed ones included
(self and forward dependencies, no entry), every forest of four tasks with the
two extreme conditions, every placement of compile tasks among three, with and
without the contestant's program; two workers; a verdict from each class the three
conditions tell apart. Four tasks give chains of three dependencies and any
branching of two levels, which is all the recursion distinguishes; for larger
graphs there are the proofs.

**worker_pool** checks `TypeOK`, `PointersLive`, `Drained`, `ImplementsJudger`,
`Reclaimed` and `Stops`. Instance: two workers, two judge servers, a submission
with a compile task and two dependents, one with a single task, one that verify
refuses, and SIGINT at any moment. Two workers suffice for one to finish, reap or
stop while the other one distributes, judges or unlocks. `Reclaimed` and `Stops` say what a program that
never ends costs: its own submission and the worker that waits for it. Every other submission is
released and every other worker obeys a stop, unless such programs hold all the workers that have not stopped.

**core_request** checks `TypeOK`, `RequestAlive`, `CountedCores` with four workers
and five workloads: masters whose requests mix in the core queue, a master that
needs everybody, masters that ask for more cores than there are together. Four workers are a master in its
second block, one that has still to unlock the first, and two that answer the second; workers are symmetric, as
nothing is said of liveness. `RequestAlive` goes up to the `count_down`, and cannot go further: afterwards
the block may be gone, see the second finding. `CountedCores` excepts the blocks that a late unlock may have reached (`reused`).

**submission_lock** checks `TypeOK`, `JudgedApart`, `Completes` with three workers
and: a rejudge right behind its submission, one with another submission in
between, three unrelated submissions. `JudgedApart` is about *one* rejudge of a
submission (`OneRejudge`): with a third submission of the same directory it is false, since
`remove_all` of the first may take the lock file that the second holds, and the
third locks a new one. And it does not count the removal: a rejudge may lock and be
judged while its submission, whose lock file is gone, still deletes the directory. `Completes` is about the behaviours in which no rejudge has
arrived, and about submissions whose own program ends while some worker is free of programs that do not; with rejudges it is
false even if all programs end, and that is the finding.

The violating runs have the constants of their passing sisters, except that three workers suffice for that of
`CoreRequest`. `CoresReturned` and `BlockingIsSafe` have as a premise that every program that is judged ends.

**course_grading** checks `TypeOK`, `BuiltVerified`, `Settled`, `FinalComplete`, `FailureCosts`,
`AnswersAsDefined`
(totals, choices, outputs) and the action property `SectionsStable`. Instance: six configs on both servers (every check at once;
more cases than points, so that rounding matters; no case at all; no program; no standard
program), every order of judging and every combination of two to four verdicts per check,
chosen so that each branch of a `summarize_*_check` is taken; every answer of up to three characters, one that is
too long to be compared, and sets of choices with 31 in them. What the properties except:
an empty answer to a choice (it earns the half grade, `choice.cpp:16`, while
`choice.hpp:31` promises it for a part of the right answers), outputs of which both sides are
empty (0/0) and outputs too long to be compared, and, in `FailureCosts`, failures that cost less than a
point, which rounding can give away. `FinalComplete` names what can go wrong with the report at the end: a text in it that is not UTF-8.
Then mcourse stores none (its earlier one, if any, stays), and moj's process ends; nothing else leaves `summarize`. That is
about the verdicts that the scripts of these checks can give (`MCJudgement`): diff-all never says "partially correct", which is what keeps
`status_string.at` from throwing. `SectionsStable` is about cases and grades; the text of a static check whose report is
not JSON does change from report to report, and the property says that nothing else does and that it only grows.

**delivery** checks `TypeOK`, `NotLost`, `HungByRedelivery`, `Served`. Instance: two messages (a valid one beside a valid,
malformed or refused one), a prefetch of 1, two summaries per submission, two broken connections, a
crash, an outage. Two messages and two breaks are what a stale tag needs in order to
hit somebody else's message; four channels are enough for all faults in one behaviour. What the
exceptions of `NotLost` say is what can happen: mcourse *acknowledges and drops* valid
submissions while its database is away (`mcourse.cpp:570-595`); a message whose tag was acknowledged in
place of another's is gone before its own report is stored. forth is excepted from `NotLost` and
`Served` since it acknowledges with its first report. `Served` also excepts refused messages, which stay
unacknowledged and with a prefetch of 1 block the consumer, and broken
connections, after which fetching may hang (`HungByRedelivery`: only then). Its submissions are those whose judging ends and
whose report can be dumped: a program that sleeps for ever keeps its message, and a text that is not UTF-8 keeps
mcourse's message unacknowledged and ends moj's process after each delivery (`course_grading` has the dump).

**problem_cache** checks `TypeOK`, `Fresh`, `WritersApart`, `Finishes`. Instance: submissions of versions 1, 1 and 2 in every order of arrival,
each with a standard or a random test, one crash, one failure of a compiler, a
download or a generator. Three submissions are a cleaner, a user and a third one that
begins anew what was cleaned. `Fresh` names what it cannot promise: see `suspect` in the
module. Everything else (a failed compilation, a failed generation, a crash while
compiling, an older submission that comes alone, two submissions that race to
fill a path or to clean) leaves good data.

**executable_cache** checks `TypeOK`, `RunsWhole`, `Fetched`. Instance: three workers, one script that is copied
and one that is built, tasks that need both or one of them, one crash, one failure. Three
workers are one that runs a script, one that fetches it and one that waits; a crash
while a script is built and a failure before or after it are the histories that leave a
directory half filled. Failures of one worker may be retried by another.

**supervision** checks `TypeOK`, `Justified`, `Contained`, `Ends`. Instance: the four scripts, wall and CPU limits of two ticks
with a soft limit of one or two, one SIGTERM, and any behaviour of the program. A tick
past the hard limit is counted and no more: nothing looks further. What `Justified` has to
except is worth knowing: a runguard killed while it writes the meta file may give ACCEPTED (no exit code:
`[ "" -ne 0 ]` is false); a program that ended in time is judged over the limit when runguard is slow to
disarm its timer; a SIGTERM from outside becomes the contestant's runtime error; a program that kills itself with SIGKILL is
given MEMORY_LIMIT_EXCEEDED without a memory kill (`standard/run:198-201`, `standard-trusted/run:152-155`; the history variable
`suicide`), and one that raises SIGXCPU a time limit that it did not reach. `Ends` holds
from the moment the program runs in its own session with the timer armed: a SIGALRM before `setsid` finds no
group to kill. Nothing of the sort is claimed under a limit of CPU time alone, which a sleeping
program never uses up.

**Deadlock.** All configurations say `CHECK_DEADLOCK FALSE`: in `judger` and
`worker_pool` the system ends (a finished submission; stopped workers), and
`Disposed`, `Drained` and `Stops` say how; in `core_request` masters that want more
cores than there are wait for ever, which the TODO at `worker.cpp:192` knows, and the process may crash; in
`submission_lock` the deadlock is the subject of `BlockingIsSafe`. In `course_grading`, `delivery`, `problem_cache` and
`supervision` the system ends: the report is stored, the queue is empty (or fetching hangs, which
`HungByRedelivery` is about), the submissions are judged, the run has its verdict; `FinalComplete`,
`Served`, `Finishes` and `Ends` say that it ends well. In `executable_cache` a worker
need not begin another task; `Fetched` says that the one it has begun goes on.

### Fairness

* A thread is scheduled (`WF` on the steps of each worker): they are ordinary
  threads of one process.
* **Judging need not end**: no fairness on `Judged`, nor on a worker whose label is `judging`. A run is limited in CPU time
  (`check_helper.sh:57`, `standard-trusted/run:74`, `compile.sh:140`) and in wall time only if it has several cores
  (`programming.cpp:180-182`), and `exec_program` waits without a timeout (`utils.cpp:21`): a program that sleeps
  is judged for ever. So `Disposed`, `Reclaimed`, `Stops` and `Completes` say what happens
  to everything that such a program does not hold itself, and the violated liveness properties assume the programs to end.
* A judge server answers or throws (`WF` on `FetchStep`): the timeouts of `fetch` are 0.
* A mutex that becomes free again and again is got in the end (`SF` on the steps
  that lock, and on `flock`). A mutex of C++ promises no such thing, but a
  worker that fetched nothing sleeps for 10 ms (`worker.cpp:176-177`, whose comment
  gives exactly this reason) before it asks for `server_mutex` again, so that the
  others do get it.
* Nothing is assumed of spurious wake-ups, and nothing of SIGINT.
* `Delivery`: each message that can be had is fetched in the end (workers poll every
  server; the broker delivers in order, and a message that comes back goes to the front),
  reports are made, `rabbitmq::fetch` reconnects in a loop, and the daemon is started again
  after it has ended. Services that are away need not come back. That judging ends and that reports can be
  dumped is assumed: the submissions of which it is not true are left out of the module.
* `ProblemCache`: each submission in flight goes on (`WF` on all its steps). That compilers, generators, tests and
  downloads end is assumed: `Finishes` is about waiting for locks. The limits of the former are CPU time, and
  `remote_asset::fetch` sets no timeout, so that a file server which stops sending holds
  the lock of the standard data, and with it the problem's tests, for ever.
* `ExecutableCache`: a worker that has the lock goes on (`WF`), a lock that is free again and again is got
  (`SF`), and a build that has outlived the daemon ends (`WF`). That builds and scripts end is
  assumed here as well: `Fetched` is about locks that are given back on every path.
* `Supervision`: runguard, the child before it executes the program, the script, and time.
  Nothing of the program, of the out-of-memory killer or of SIGTERM.

### Findings

1. **Use after release** (`ReleasedUnused`). `finish_submission` is called from
   within `process`, with `mut` locked and `end_judge_task` still to come; another
   worker's `finished_submissions.clear()` may destroy the submission in between.
   The other properties of `WorkerPool` take this access to be harmless.
2. **Lent cores never return** (`CoresReturned`). Nobody notifies the condition
   variable. A worker that answered a request is gone, save for a spurious wake-up. The condition variable and both
   mutexes are gone as well by the time the master judges: the answer that opens the latch still unlocks `*write_lock` and
   locks `*mut` (`worker.cpp:157-160`), on the stack of a master that may have left the block (`worker.cpp:205-206`) or be
   in its next one. `CoreRequest` has these late steps with every outcome; what `CountedCores` excepts is what they spoil.
3. **Blocking is not safe** (`BlockingIsSafe`). A rejudge that is fetched while its
   submission is judged waits for the directory lock inside `server_mutex`; the
   submission needs `server_mutex` to finish. All workers stop for good.

The counterexample TLC prints for each of these runs is the history to read.

## 4. Proofs

The theorems are checked by TLAPS, for every value of the constants. Assumed is only what
the modules that declare them assume; TLC evaluates all of it in the runs:

| Module | Assumptions | Says |
|---|---|---|
| ProgrammingJudger | `SubmissionsAssumption`, `VerdictAssumption`, `WorkerAssumption` | finitely many tasks, numbered from 0; verdicts that the code can return; some worker |
| WorkerPool | `PoolAssumption`, `GraphAssumption`, `InboxAssumption` | finite graphs as above; each submission that is handed over is a new object |
| CoreRequest | `WorkloadAssumption` | finitely many threads; a task asks for one core at least |
| SubmissionLock | `LockAssumption`, `InboxAssumption` | types; new objects |
| ExecutableCache | `ScriptAssumption` | types; the hypothesis `ScriptsGiven` of the theorems says it again, since they are about an instance |
| ProblemCache | `CacheAssumption` | types; no version is later than now |
| CourseGrading | `LengthAssumption` | the length up to which outputs are compared is a number |
| CourseGrading | `SubmissionAssumption` | types of a config and finitely many grades in it; types of a questionnaire, whose choices are bits 0 to 31 and whose output questions ask for some output |
| CourseGrading | `JudgementAssumption` | types of a verdict; diff-all, which compares random and standard tests, gives no partial score |
| Delivery | `DeliveryAssumption` | types; a submission is summarized at least once |
| Supervision | `LimitAssumption` | a hard limit of at least one tick |

Each proof module begins with its inductive invariant, `IInv`, in named parts, has one lemma for
each action or group of actions, and ends with `Invariance` (`Spec => []IInv`) and one theorem per
property. TLC checked each `IInv` on the instance of the run before it was proved.

### One submission

*The recursion.* `Skipped` is a least closed set. `SkippedLeast` and
`SkippedClosed` are its two halves; `SkippedSupported`, that each skipped task has
a reason, follows from leastness by removing a task from the set. In a graph
that runs forward (what `Verified` guarantees) the skipped tasks come after the
one that was judged (`SkippedForward`) and were undecided (`SkippedUndecided`). So
`ProcessConsistent`: if the results were `Consistent` with the graph, they are after
the whole recursion. This replaces an induction on the recursion. (These lemmas are a section of
`ProgrammingJudgerProofs` and another of `WorkerPoolProofs`: a theorem does not pass through `INSTANCE`, and
the two modules cannot be extended together.)

*The invariant.* `JudgedOnce` alone is not inductive: that a released task has no
other copy needs that its parent was undecided and so itself had exactly one
copy; that counting stays right needs that the skipped tasks were undecided,
which needs `Consistent`. `IInv` therefore is: types; and once the submission is
accepted, `Verified`, `Consistent`, `OneCopy` (an undecided task whose parent lets it
run is in exactly one place: the loop of `distribute`, the queue, or one worker;
every other task is nowhere) and `Counted` (`finished` is the number of decided
tasks, the final summary was made if and only if there is no undecided one).
There is one lemma per action; `ProcessInv` is the long one.

*Theorems.* `TypeCorrect`, `EveryTaskJudgedOnce`, `NeverStranded` (the least undecided
task is ready and so has a copy: this is where "forest" is used), `OneFinalSummary`,
and `ImplementsVerdict`: every step of `ProgrammingJudger` is a step of
`SubmissionVerdict` or leaves its variables alone.

### The worker pool

`PointersLive` is hard to keep because nothing counts the pointers, and a submission dies by the hand
of any worker. The invariant of `WorkerPoolProofs` counts them. `OneCopy`: no task is in two places
among the loops of `distribute`, the queue and the workers. `Accounted`: a task of a
registered submission is in one of them *if and only if* it is undecided and may be judged
(`Due`), and a submission is finished exactly when nothing is undecided. So a finished submission has
no copy anywhere. That alone does not do: a worker that distributes holds a pointer without
a copy, hence `Life`: a submission with unsent tasks has a worker at it, one that is
distributed is not given up yet (an undecided task is left), and one that is finished has either been
given up or has a worker in `finish_submission`. `Locks` ties the labels to the two mutexes.

`Drained` speaks of the moment when all have stopped. `Attended` says who is responsible:
where the queue is not empty some worker still looks at it (whoever pushes is not at
the point between the empty queue and the flag), where submissions are to be released a worker is on
its way to `clear()`. When all have stopped the queue and the loops are empty, so no task is `Due`; but in
a forest the least undecided task always is (`LeastElement`, by well-founded induction), so nothing is
undecided.

`ImplementsJudgerOf` is the refinement, for any number of submissions, workers and servers: seen
from one submission `Watched`, whichever it is, the pool behaves as `ProgrammingJudger`, whose queue is the
copies the submission has in the FIFO. (`ImplementsJudger`, which TLC checks, says it of all submissions at once,
with an `INSTANCE` that has a parameter; tlapm does not expand the definitions of such an instance, so the theorem
takes `Watched` as a constant about which nothing is assumed but that it is a submission.) Each step of the pool
is one of the judger or a stutter: pushing is `Distribute`, popping `Pop`, judging `Process`, accepting
or dropping a fetched submission `Accept` or `Refuse`; the steps of the loop, of the locks and of releasing change nothing that
one submission sees. `IInv` is needed for what a submission does *not* see: that nobody else pushes or judges its tasks.

### Core requests

Both properties are counts, which must survive all that a late unlock does. `Outstanding`: the latch of a master stands at the number of answers to
come, that is of requests not pushed, of its positions in the core queue and of workers about to
add their core. `Scoped`: the block exists while the master asks or waits, and a latch above 0 keeps it
there. So a request in the queue, or a worker that answers one and has not counted the latch down, has a live
block (`RequestAlive`), whoever holds `write_lock`. After the count_down nothing of the sort is true.
`Held`: unless a late unlock has reached the block (`reused`), whoever adds to a list holds its lock, so no two add at once.
`Collected`: then the CPUs a task has and those its latch waits for add up to its cores, so when the
latch opens there are as many as were asked for (`CountedCores`). The queue may hold equal requests, so it
is counted by positions; the lemmas say what `Append` and `Tail` make of such a count. A request of a dead
block would break the sum, and the undefined steps after the count_down touch neither side of it.

### The directory lock

The lock file is removed with the directory by a submission that is *over* (`Over`), with its lock still
held, and by nobody else. `Kept`: as long as no other submission with the directory is over,
a submission that waits for the lock has opened the file that the path names, and one that is judged holds
the lock of that file. So the other one cannot get it. When one of the two is over, it is not
judged any more (`InTurn`): nothing is to be shown. This is where `OneRejudge` is needed:
with a third one, someone over may have taken away the file that the second one holds. That a submission is in one
place (`Places`) needs `InboxAssumption`.

### The scripts

The theorems on `ExecutableCache` are in `SubmissionLockProofs` as well, about `Scripts`, an instance of it
in which `stage` is its `pc`. `ScriptsRunWhole`: no worker runs a script that is incomplete, for any number of workers,
scripts, crashes and failures, and any order of fetching. A script is run without a lock, so the
invariant (`ScriptsInvariance`) follows the directory: a mark means that it is whole, only a worker or an orphaned
build that holds the lock may be changing it, nobody changes one that is marked, and what a worker has fetched stays marked.

### The cache

`ProblemCacheProofs` covers any set of submissions, any versions, any number of
random cases, crashes and failures. `Fresh` speaks of tests that run, but whether
they run with good data is decided when `verify_timeliness` lets a submission in. The
invariant `IInv` therefore says what holds until then. `Cleaning`: a cleaning that began with
nobody in flight has the cache for itself, and any other one has made every path suspect.
`Recent`: as long as something is not suspect, all that is judged has the version in `.time`,
and nothing there is older; so a submission with another version can only come in
when nobody is in flight, or makes everything suspect. `Locks`: a writer may have lost its lock
only at a suspect path, whence `Apart`. `Complete`: what is there, unlocked and not marked as
failed is complete, and whoever waits for a case waits for one that is there. `Numbered`: the cases
that are there are 0 to n-1; the count of the directories is a free number only
because of this (`CaseCount`). A crash keeps all this because it makes the paths of
interrupted downloads and generators suspect, and every path if it interrupts a cleaning.
`suspect` is a history variable: no action reads it but to extend it, and only a
cleaning that disturbs nobody empties it.
There is one lemma per action; `Onward` does what the steps of a submission under
judgement have in common. `TypeCorrect`, `Apart` and `DataFresh` follow from `IInv`.

### Tasks and reports

`CourseGradingProofs` is about any config and any verdicts, of any number of tasks.

*The tasks.* Whatever is configured, `Tasks(config)` has one shape (`Shape`, lemma `TasksShape`): task 0
compiles, each test depends on it, each memory check on a standard test that comes before it. The tasks are
lists that are joined, and a list whose tasks depend on those of a list before it can be added to
that (`ListedMore`), whatever the config makes of the two. `TasksVerified` reads `Verified` off this shape.

*The recursion.* `CallInv` is the invariant of `process` as a stack. `Stack`: the calls are for different tasks, which have
verdicts; the dependents that a call has still to come to are undecided and not in the queue. `Placed`: an
undecided task is in the queue, or a call will come to it, or its parent is undecided; a verdict agrees with the parent's.
`Tally`: what is counted and what is on the stack add up to the decided tasks. With an empty stack
nothing is left to come to, and this is the least set of `TaskGraph`: `QueueSettled`. It is the link between the two
accounts of `process`, the operator in `ProgrammingJudger` and the recursion here.

*The reports.* A report is made at *every* return, in the middle of the recursion. `ReportInv`: its sections are what the results
would give now. So `ReportsOnlyGrow` is a matter of what a section reads: `SectionsKept` says that a check with a section has no
undecided case, that a step decides undecided cases only, and that rereading a report (`Reread`) changes nothing that a section looks at.
`LogInv` is the rest of it: the error log grows only if a static check that was judged has a report that is not JSON, and
at most once per counted task. Not every report is stored: `ReportInv` says what a report that *can* be dumped has left, and that whether one can be
dumped depends on the sections and the results they read (`SectionsKnown`, `DumpsKnown`). After moj's exception neither invariant
holds, since the calls are gone; `Left` is what is known then. `CompleteInTheEnd`: the complete report is the last one and has a
section for each check that ran, unless the last one could not be dumped, and nothing but that has left `summarize`;
`JudgementAssumption` is needed for the latter only, since `status_string.at` knows no
name for "partially correct".

*The sums.* A total is a fold over a set, and a section adds what its cases earn until one stops it. There is no
induction over such a definition here: that the recursive function exists is `Iteration` (of all lengths to which it
does not exist there would be a least one), and what it computes follows the same way, by the least counterexample:
`SumStep` (a sum loses one term with one element of its set, whichever is taken), `SumAny`, `TotalsBounded`. So the grade
of every report is a number (`TypeCorrect`), and mcourse's `int` total, to which fractions are added, loses less than a point per
question (`TotalsAsAdded`).

*What a failure costs.* `FailuresCost` compares a report's grade with the full marks. The checks part the tasks (`FullParts`, by
`SumParts`), so the full marks are the sum of what each check could give, and a check gives all of it if its cases
are accepted, and at least a point less if not (`Costs`, `SectionCosts`): a check that stops at a failure gives what came before it
or nothing. What is a point less is less after rounding as well (`RoundCosts`), per section and in total. An
invariant is needed for the order of things in `summarize` (`Final`): the complete report added up results that the same call
then rewrote, but rereading changes no score (`ScoresKnown`), and rereading twice is rereading once
(`KnownTwice`). A check without a section adds nothing to the total
(`SectionsPlain`), so google tests that mcourse does not grade, for lack of `info`, always miss their points.

*The questionnaires.* `QuestionInv`: the results are the grades of the paired questions, and the report their total.
`OutputsGraded` rests on `DistanceIsLeast`: the table of `calc_edit_distance` ends in the least cost of an
alignment. `LastStep` splits an alignment at the last characters, which gives the recurrence both ways (`LeastStep`), and
`CellLeast` carries it through the table, again by a least cell that would be wrong. `SameText` (no edits if and only if the texts are
equal) makes the full grade a matter of equality. `ChoicesGraded` is about bits: masks are sets here, of which bit 31
takes 32 others along (`MaskBit`), and inclusion of the masks is inclusion of the choices (`MaskIncluded`).

### Delivery

A message and its submission live apart: the broker has the first back when the channel is
lost, the workers go on with the second. `Channels`: a submission of the channel of today
has a message that is not ready again (so a redelivery that meets its own submission is one from a channel
that was lost: `HungByRedelivery`). `Reported`, for mcourse and moj: who is about to
acknowledge has stored the final report; who is done has stored it or seen an outage; and a valid
message that is delivered has a submission, or its report, or there was an outage. `NotLost` is about
*gone* messages, and a message goes by its own acknowledgement or by a stale tag; the invariant keeps the two
apart (`gone`), because after the second its own submission may still be under judgement, and is lost for
good if the daemon ends or a report fails. `Broker`
(a message is in exactly one of the queue, the channel and gone) is what makes a tag name one message.

### Supervision

A verdict is read from a file that was written in five steps about a run that may still
change. `Filled` follows each entry back to what it was made of, `Reaping` says what may not change
any more by then (a reaped program keeps its status, an emptied control group its processes),
`Clock` relates the timer, the hard limit, the time read at the end and the time the main process has
used, and `Causes` names who is to blame for a signal: the hard limit, a SIGTERM from outside, the kernel's memory killer, or the
program itself (`suicide` for its own SIGKILL).
`Ended` links a verdict to the end of runguard. `Justified` then is a matter of the scripts' rules: a
lemma on `FirstOf` says that the rule that applied holds and that none before it does. `Contained` follows from
`Reaping`.

### Only model-checked

* Liveness (`Disposed`, `Reclaimed`, `Stops`, `Completes`, `Served`, `Finishes`, `Fetched`, `Ends`): out of the
  prover's reach, as is everything with ENABLED.
* `ImplementsJudger` as TLC checks it, for all submissions at once; see `ImplementsJudgerOf`.

## 5. What is left out, and why

* *sicily.* `fetch_queue` never removes its rows before `popup_queue`, and the first
  `summarize` throws: `submit.config = {}` leaves an empty `std::any`, which `sicily.cpp:327` casts to a
  result. There is no longer behaviour to model; its comment at line 343 would be contradicted
  by the reports for skipped dependents.
* *Checksums of executables and `remote_executable_asset`.* All managers make executables with an empty
  `md5sum` and from local directories. (The file `md5path`, which a checksum would be compared with, is
  written nowhere, so that an executable with one would be fetched each time, also while it is run.)
* *runguard --ptrace* and the table of system calls: no script passes the option.
* *`WorkerPool`* has tasks of one core only and no directory locks: `CoreRequest`,
  `SubmissionLock` and `ProblemCache` put each of them into the picture alone. The 10 ms sleep is
  the strong fairness above.
* *Threads inside a library.* Several workers use one AMQP channel or one MySQL handle at a time; each
  report is one step here.
* *Tests with the data of a random parent* (`programming.cpp:78-82`): no server builds them, since
  `is_random` of a memory check is computed from an empty `judge_tasks` (against the comments
  `mcourse.cpp:792-793` and `moj.cpp:787-788`).
* *A random test without a generator* (`run_times` but no `random_source`): `submit.random` is null when
  `programming.cpp:103` uses it. The configs of the instance have a generator.
* *Monitors, configuration, option parsing, JSON layout, URLs, logging:* input and output
  without a state of their own.

## 6. Plan

Done: the core (`TaskGraph` to `SubmissionLock`), files (`ProblemCache`, `ExecutableCache`), servers
(`CourseGrading`, `Delivery`), the sandbox (`Supervision`), the proofs of all their safety properties, and both
refinements. What would come next: `Delivery` on top of `WorkerPool`, with a real queue of tasks instead of `left`.
