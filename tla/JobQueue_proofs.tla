----------------------------- MODULE JobQueue_proofs -----------------------------
(* Proofs about JobQueue, for any sets of jobs, workers and slots, any bound on  *)
(* faults and any retry limits: the variables keep their types, no interleaving  *)
(* of commands retries a job too often, and none makes a job disappear; and what *)
(* holds of the jobs whose commands did not overlap.                             *)
EXTENDS JobQueue, TLAPS

-------------------------------------------------------------------------------
(* Facts about the ways commands change.                                         *)

(* A free slot is not a command: it handles no job.                              *)
LEMMA FreeIsNoCommand == Free \notin Command /\ \A j \in Jobs : Free.job # j
  BY NamesAssumption DEF Free, Command, Kinds

(* Starting a command changes its slot and possibly raced.                       *)
LEMMA StartTyped ==
  ASSUME TypeOK, NEW i \in Slots, NEW kind \in Kinds, NEW j \in Jobs,
         NEW w \in Workers \cup {NoWorker}, Start(i, kind, j, w)
  PROVE  /\ command' \in [Slots -> Command \cup {Free}]
         /\ raced' \in SUBSET Jobs
         /\ command'[i] = [kind |-> kind, job |-> j, worker |-> w, at |-> "getPending",
                           from |-> "pending", count |-> 0]
         /\ \A k \in Slots \ {i} : command'[k] = command[k]
         /\ command[i] = Free
<1> DEFINE new == [kind |-> kind, job |-> j, worker |-> w, at |-> "getPending",
                   from |-> "pending", count |-> 0]
<1>1. new \in Command
  BY DEF Command, Busy
<1>2. command' = [command EXCEPT ![i] = new] /\ command[i] = Free
  BY DEF Start
<1>3. raced' \in SUBSET Jobs
  BY DEF TypeOK, Start
<1> HIDE DEF new
<1>4. QED
  BY <1>1, <1>2, <1>3 DEF TypeOK, new

(* A command that goes on keeps its kind, job and worker.                        *)
LEMMA ProceedTyped ==
  ASSUME TypeOK, NEW i \in Slots, NEW at \in Busy, NEW from \in {"pending", "running"},
         NEW count \in Nat, command[i] # Free, Proceed(i, at, from, count)
  PROVE  /\ command' \in [Slots -> Command \cup {Free}]
         /\ command'[i] = [command[i] EXCEPT !.at = at, !.from = from, !.count = count]
         /\ command'[i] \in Command
         /\ \A k \in Slots \ {i} : command'[k] = command[k]
<1>1. command[i] \in Command
  BY DEF TypeOK
<1> DEFINE new == [command[i] EXCEPT !.at = at, !.from = from, !.count = count]
<1>2. new \in Command
  BY <1>1 DEF Command
<1>3. command' = [command EXCEPT ![i] = new]
  BY DEF Proceed
<1> HIDE DEF new
<1>4. QED
  BY <1>2, <1>3 DEF TypeOK, new

(* Ending a command frees its slot.                                              *)
LEMMA EndTyped ==
  ASSUME TypeOK, NEW i \in Slots, command' = [command EXCEPT ![i] = Free]
  PROVE  /\ command' \in [Slots -> Command \cup {Free}]
         /\ command'[i] = Free
         /\ \A k \in Slots \ {i} : command'[k] = command[k]
  BY DEF TypeOK

(* Giving a claim up changes nothing of it but who waits for it.                 *)
LEMMA AbandonTyped ==
  ASSUME TypeOK, NEW w \in Workers, command' = Abandon(w)
  PROVE  /\ command' \in [Slots -> Command \cup {Free}]
         /\ \A i \in Slots : /\ command'[i].kind = command[i].kind
                             /\ command'[i].job = command[i].job
                             /\ command'[i].at = command[i].at
                             /\ command'[i].from = command[i].from
                             /\ command'[i].count = command[i].count
                             /\ command[i] = Free <=> command'[i] = Free
<1> SUFFICES ASSUME NEW i \in Slots
             PROVE  /\ command'[i] \in Command \cup {Free}
                    /\ command'[i].kind = command[i].kind
                    /\ command'[i].job = command[i].job
                    /\ command'[i].at = command[i].at
                    /\ command'[i].from = command[i].from
                    /\ command'[i].count = command[i].count
                    /\ command[i] = Free <=> command'[i] = Free
  BY DEF Abandon
<1>1. CASE command[i].kind = "claim" /\ command[i].worker = w
  <2>1. command'[i] = [command[i] EXCEPT !.worker = NoWorker]
    BY <1>1 DEF Abandon
  <2>2. command[i] # Free /\ command[i] \in Command
    BY <1>1 DEF TypeOK, Free
  <2>3. command'[i] \in Command
    BY <2>1, <2>2 DEF Command
  <2>4. QED
    BY <2>1, <2>2, <2>3, FreeIsNoCommand DEF Command
<1>2. CASE ~(command[i].kind = "claim" /\ command[i].worker = w)
  <2>1. command'[i] = command[i]
    BY <1>2 DEF Abandon
  <2>2. QED
    BY <2>1 DEF TypeOK
<1>3. QED
  BY <1>1, <1>2

(* A slot that is somewhere in a command is not free.                            *)
LEMMA BusyIsCommand ==
  ASSUME TypeOK, NEW i \in Slots, command[i].at # "done"
  PROVE  command[i] # Free /\ command[i] \in Command /\ command[i].job \in Jobs
  BY DEF TypeOK, Free, Command

-------------------------------------------------------------------------------
(* The commands' own steps.                                                      *)

LEMMA GetPendingTyped ==
  ASSUME TypeOK, NEW i \in Slots, GetPending(i)
  PROVE  TypeOK'
<1> DEFINE j == command[i].job
<1>1. command[i] # Free /\ command[i] \in Command /\ j \in Jobs
  BY BusyIsCommand DEF GetPending
<1>2. copy[j]["pending"] \in Nat \cup {Absent, Torn}
  BY <1>1 DEF TypeOK, Status, Terminal
<1>3. command' \in [Slots -> Command \cup {Free}]
  <2>1. CASE Readable(j, "pending") /\ Proceed(i, "unlink", "pending", copy[j]["pending"])
    <3>1. copy[j]["pending"] \in Nat
      BY <1>2, <2>1 DEF Readable, Absent, Torn
    <3>2. QED
      BY <1>1, <2>1, <3>1, ProceedTyped DEF Busy
  <2>2. CASE Decline(i)
    BY <2>2, EndTyped DEF Decline
  <2>3. CASE Proceed(i, "getRunning", "pending", 0)
    BY <1>1, <2>3, ProceedTyped DEF Busy
  <2>4. QED
    BY <2>1, <2>2, <2>3 DEF GetPending
<1>4. QED
  BY <1>3 DEF TypeOK, GetPending, workerVars, historyVars

LEMMA GetRunningTyped ==
  ASSUME TypeOK, NEW i \in Slots, GetRunning(i)
  PROVE  TypeOK'
<1> DEFINE j == command[i].job
<1>1. command[i] # Free /\ command[i] \in Command /\ j \in Jobs
  BY BusyIsCommand DEF GetRunning
<1>2. copy[j]["running"] \in Nat \cup {Absent, Torn}
  BY <1>1 DEF TypeOK, Status, Terminal
<1>3. command' \in [Slots -> Command \cup {Free}]
  <2>1. CASE /\ Readable(j, "running")
             /\ \E at \in {"unlink", "open"} : Proceed(i, at, "running", copy[j]["running"])
    <3>1. copy[j]["running"] \in Nat
      BY <1>2, <2>1 DEF Readable, Absent, Torn
    <3>2. PICK at \in {"unlink", "open"} : Proceed(i, at, "running", copy[j]["running"])
      BY <2>1
    <3>3. QED
      BY <1>1, <3>1, <3>2, ProceedTyped DEF Busy
  <2>2. CASE Decline(i)
    BY <2>2, EndTyped DEF Decline
  <2>3. QED
    BY <2>1, <2>2 DEF GetRunning
<1>4. QED
  BY <1>3 DEF TypeOK, GetRunning, workerVars, historyVars

LEMMA UnlinkTyped ==
  ASSUME TypeOK, NEW i \in Slots, Unlink(i)
  PROVE  TypeOK'
<1> DEFINE j == command[i].job
<1>1. command[i] # Free /\ command[i] \in Command /\ j \in Jobs
  BY BusyIsCommand DEF Unlink
<1>2. command[i].from \in {"pending", "running"} /\ command[i].count \in Nat
  BY <1>1 DEF Command
<1>3. command' \in [Slots -> Command \cup {Free}]
  BY <1>1, <1>2, ProceedTyped DEF Unlink, Busy
<1>4. copy' \in [Jobs -> [Status -> Nat \cup {Absent, Torn}]]
  BY <1>1, <1>2 DEF TypeOK, Unlink
<1>5. QED
  BY <1>3, <1>4 DEF TypeOK, Unlink, workerVars, historyVars

(* Where a command's job is written is one of the directories.                   *)
LEMMA DestinationTyped ==
  ASSUME TypeOK, NEW i \in Slots, command[i] \in Command
  PROVE  Destination(i) \in Status /\ NewCount(i) \in Nat
<1>1. command[i].count \in Nat
  BY DEF Command
<1>2. NewCount(i) \in Nat
  BY <1>1 DEF NewCount
<1>3. Destination(i) \in {"running", "complete", "cancelled", "pending", "failed"}
  BY DEF Destination
<1>4. QED
  BY <1>2, <1>3 DEF Status, Terminal

LEMMA WriteTyped ==
  ASSUME TypeOK, NEW i \in Slots, Write(i)
  PROVE  TypeOK'
<1> DEFINE j == command[i].job
<1>1. command[i] # Free /\ command[i] \in Command /\ j \in Jobs
  BY BusyIsCommand DEF Write
<1>2. copy' \in [Jobs -> [Status -> Nat \cup {Absent, Torn}]]
  BY <1>1, DestinationTyped DEF TypeOK, Write
<1>3. command' \in [Slots -> Command \cup {Free}]
  BY EndTyped DEF Write
<1>4. worker' \in [Workers -> [at : Waiting \cup Holding, job : Jobs] \cup {Idle}]
  <2>1. [at |-> "granted", job |-> j] \in [at : Waiting \cup Holding, job : Jobs]
    BY <1>1 DEF Waiting
  <2> DEFINE record == [at |-> "granted", job |-> j]
  <2>2. worker' = [w \in Workers |->
          IF command[i].kind = "claim" /\ w = command[i].worker THEN record ELSE worker[w]]
    BY DEF Write
  <2> HIDE DEF record
  <2>3. QED
    BY <2>1, <2>2 DEF TypeOK, record
<1>5. quiet' \in SUBSET Jobs
  BY DEF TypeOK, Write
<1>6. grants' \in [Jobs -> Nat]
  <2>1. CASE grants' = grants
    BY <2>1 DEF TypeOK
  <2>2. CASE grants' = [grants EXCEPT ![j] = @ + 1]
    BY <1>1, <2>2 DEF TypeOK
  <2>3. QED
    BY <2>1, <2>2 DEF Write
<1>7. QED
  BY <1>2, <1>3, <1>4, <1>5, <1>6 DEF TypeOK, Write

LEMMA ProgressTyped ==
  ASSUME TypeOK, NEW i \in Slots, OpenProgress(i) \/ WriteProgress(i) \/ WriteFails(i)
  PROVE  TypeOK'
<1> DEFINE j == command[i].job
<1>1. command[i] # Free /\ command[i] \in Command /\ j \in Jobs
  BY BusyIsCommand DEF OpenProgress, WriteProgress, WriteFails
<1>2. command[i].count \in Nat
  BY <1>1 DEF Command
<1>3. CASE OpenProgress(i)
  <2>1. command' \in [Slots -> Command \cup {Free}]
    BY <1>1, <1>2, <1>3, ProceedTyped DEF OpenProgress, Busy
  <2>2. copy' \in [Jobs -> [Status -> Nat \cup {Absent, Torn}]]
    BY <1>1, <1>3 DEF TypeOK, OpenProgress
  <2>3. QED
    BY <1>3, <2>1, <2>2 DEF TypeOK, OpenProgress, workerVars, historyVars
<1>4. CASE WriteProgress(i)
  <2>1. command' \in [Slots -> Command \cup {Free}]
    BY <1>4, EndTyped DEF WriteProgress
  <2>2. copy' \in [Jobs -> [Status -> Nat \cup {Absent, Torn}]]
    BY <1>1, <1>2, <1>4 DEF TypeOK, WriteProgress
  <2>3. QED
    BY <1>4, <2>1, <2>2 DEF TypeOK, WriteProgress, workerVars, historyVars
<1>5. CASE WriteFails(i)
  <2>1. command' \in [Slots -> Command \cup {Free}]
    BY <1>5, EndTyped DEF WriteFails
  <2>2. phase' \in [Jobs -> {"new", "created", "pruned", "lost"}]
    BY <1>1, <1>5 DEF TypeOK, WriteFails
  <2>3. faults' \in 0 .. MaxFaults
    BY <1>5, FaultsAssumption DEF TypeOK, WriteFails
  <2>4. QED
    BY <1>5, <2>1, <2>2, <2>3 DEF TypeOK, WriteFails, workerVars
<1>6. QED
  BY <1>3, <1>4, <1>5

-------------------------------------------------------------------------------
(* Timers, the cancel request, crashes and workers.                              *)

LEMMA TimersTyped ==
  ASSUME TypeOK, NEW j \in Jobs,
         \/ CreateJob(j) \/ GoQuiet(j) \/ LoseFailure(j) \/ CancelRequested
         \/ \E s \in Terminal : Prune(j, s)
  PROVE  TypeOK'
<1>1. CASE CreateJob(j)
  <2>1. copy' \in [Jobs -> [Status -> Nat \cup {Absent, Torn}]]
    BY <1>1 DEF TypeOK, CreateJob
  <2>2. QED
    BY <1>1, <2>1 DEF TypeOK, CreateJob, workerVars
<1>2. CASE GoQuiet(j)
  BY <1>2 DEF TypeOK, GoQuiet, workerVars, historyVars
<1>3. CASE LoseFailure(j)
  BY <1>3 DEF TypeOK, LoseFailure, queueVars, historyVars
<1>4. CASE CancelRequested
  BY <1>4 DEF TypeOK, CancelRequested, workerVars, historyVars
<1>5. CASE \E s \in Terminal : Prune(j, s)
  <2>1. PICK s \in Terminal : Prune(j, s)
    BY <1>5
  <2>2. copy' \in [Jobs -> [Status -> Nat \cup {Absent, Torn}]]
    BY <2>1 DEF TypeOK, Prune
  <2>3. phase' \in [Jobs -> {"new", "created", "pruned", "lost"}]
    BY <2>1 DEF TypeOK, Prune
  <2>4. QED
    BY <2>1, <2>2, <2>3 DEF TypeOK, Prune, workerVars
<1>6. QED
  BY <1>1, <1>2, <1>3, <1>4, <1>5

LEMMA DeliveriesTyped ==
  ASSUME TypeOK, NEW i \in Slots, NEW j \in Jobs,
         RecoverStale(i, j) \/ CancelNext(i, j) \/ DeliverFailure(i, j)
  PROVE  TypeOK'
<1>1. \E kind \in Kinds : Start(i, kind, j, NoWorker)
  BY DEF RecoverStale, CancelNext, DeliverFailure, Kinds
<1>2. command' \in [Slots -> Command \cup {Free}] /\ raced' \in SUBSET Jobs
  BY <1>1, StartTyped
<1>3. CASE RecoverStale(i, j)
  BY <1>2, <1>3 DEF TypeOK, RecoverStale, workerVars
<1>4. CASE CancelNext(i, j)
  BY <1>2, <1>4 DEF TypeOK, CancelNext, workerVars
<1>5. CASE DeliverFailure(i, j)
  BY <1>2, <1>5 DEF TypeOK, DeliverFailure
<1>6. QED
  BY <1>3, <1>4, <1>5

LEMMA RestartTyped ==
  ASSUME TypeOK, Restart
  PROVE  TypeOK'
<1>1. command' \in [Slots -> Command \cup {Free}]
  BY DEF Restart
<1>2. phase' \in [Jobs -> {"new", "created", "pruned", "lost"}]
  BY DEF TypeOK, Restart
<1>3. faults' \in 0 .. MaxFaults
  BY FaultsAssumption DEF TypeOK, Restart
<1>4. QED
  BY <1>1, <1>2, <1>3 DEF TypeOK, Restart, workerVars

(* A worker that is not idle has a job.                                          *)
LEMMA BusyWorkerHasJob ==
  ASSUME TypeOK, NEW w \in Workers, worker[w].at # "idle"
  PROVE  worker[w].job \in Jobs
  BY DEF TypeOK, Idle

LEMMA BecomeTyped ==
  ASSUME TypeOK, NEW w \in Workers,
         \/ worker' = [worker EXCEPT ![w] = Idle]
         \/ \E at \in Waiting \cup Holding, j \in Jobs : Become(w, at, j)
  PROVE  worker' \in [Workers -> [at : Waiting \cup Holding, job : Jobs] \cup {Idle}]
<1>1. CASE worker' = [worker EXCEPT ![w] = Idle]
  BY <1>1 DEF TypeOK
<1>2. CASE \E at \in Waiting \cup Holding, j \in Jobs : Become(w, at, j)
  <2>1. PICK at \in Waiting \cup Holding, j \in Jobs : Become(w, at, j)
    BY <1>2
  <2>2. [at |-> at, job |-> j] \in [at : Waiting \cup Holding, job : Jobs]
    OBVIOUS
  <2> DEFINE record == [at |-> at, job |-> j]
  <2>3. worker' = [worker EXCEPT ![w] = record]
    BY <2>1 DEF Become
  <2> HIDE DEF record
  <2>4. QED
    BY <2>2, <2>3 DEF TypeOK, record
<1>3. QED
  BY <1>1, <1>2

(* Hearing an announcement and finishing start a command, or post in vain.       *)
LEMMA PostTyped ==
  ASSUME TypeOK, NEW kind \in Kinds, NEW j \in Jobs, NEW w \in Workers \cup {NoWorker},
         (\E i \in Slots : Start(i, kind, j, w)) \/ UNCHANGED <<command, raced>>
  PROVE  command' \in [Slots -> Command \cup {Free}] /\ raced' \in SUBSET Jobs
<1>1. CASE \E i \in Slots : Start(i, kind, j, w)
  BY <1>1, StartTyped
<1>2. CASE UNCHANGED <<command, raced>>
  BY <1>2 DEF TypeOK
<1>3. QED
  BY <1>1, <1>2

LEMMA HearTyped ==
  ASSUME TypeOK, NEW w \in Workers, NEW j \in Jobs, HearQueued(w, j)
  PROVE  TypeOK'
<1>1. worker' \in [Workers -> [at : Waiting \cup Holding, job : Jobs] \cup {Idle}]
  BY BecomeTyped DEF HearQueued, Waiting
<1>2. command' \in [Slots -> Command \cup {Free}] /\ raced' \in SUBSET Jobs
  <2>1. (\E i \in Slots : Start(i, "claim", j, w)) \/ UNCHANGED <<command, raced>>
    BY DEF HearQueued
  <2>2. QED
    BY <2>1, PostTyped DEF Kinds
<1>3. QED
  BY <1>1, <1>2 DEF TypeOK, HearQueued

LEMMA ReportTyped ==
  ASSUME TypeOK, NEW i \in Slots, NEW w \in Workers, ReportProgress(i, w)
  PROVE  TypeOK'
<1>1. worker[w].job \in Jobs
  BY BusyWorkerHasJob DEF ReportProgress
<1>2. command' \in [Slots -> Command \cup {Free}] /\ raced' \in SUBSET Jobs
  BY <1>1, StartTyped DEF ReportProgress, Kinds
<1>3. QED
  BY <1>2 DEF TypeOK, ReportProgress, workerVars

LEMMA WorkerTyped ==
  ASSUME TypeOK, NEW w \in Workers, WorkerStep(w)
  PROVE  TypeOK'
<1>1. CASE ReceiveReply(w)
  <2>1. worker' \in [Workers -> [at : Waiting \cup Holding, job : Jobs] \cup {Idle}]
    BY <1>1, BusyWorkerHasJob, BecomeTyped DEF ReceiveReply, Holding
  <2>2. QED
    BY <1>1, <2>1 DEF TypeOK, ReceiveReply, queueVars, historyVars
<1>2. CASE ClaimFails(w)
  <2>1. worker' \in [Workers -> [at : Waiting \cup Holding, job : Jobs] \cup {Idle}]
    BY <1>2, BecomeTyped DEF ClaimFails
  <2>2. command' \in [Slots -> Command \cup {Free}]
    BY <1>2, AbandonTyped DEF ClaimFails
  <2>3. QED
    BY <1>2, <2>1, <2>2 DEF TypeOK, ClaimFails, historyVars
<1>3. CASE Finish(w)
  <2>1. worker[w].job \in Jobs
    BY <1>3, BusyWorkerHasJob DEF Finish
  <2>2. worker' \in [Workers -> [at : Waiting \cup Holding, job : Jobs] \cup {Idle}]
    BY <1>3, <2>1, BecomeTyped DEF Finish, Holding
  <2>3. (\E i \in Slots : Start(i, "complete", worker[w].job, NoWorker)) \/ UNCHANGED <<command, raced>>
    BY <1>3 DEF Finish
  <2>4. command' \in [Slots -> Command \cup {Free}] /\ raced' \in SUBSET Jobs
    BY <2>1, <2>3, PostTyped DEF Kinds
  <2>5. QED
    BY <1>3, <2>2, <2>4 DEF TypeOK, Finish
<1>4. CASE FinishAcknowledged(w)
  <2>1. worker' \in [Workers -> [at : Waiting \cup Holding, job : Jobs] \cup {Idle}]
    BY <1>4, BecomeTyped DEF FinishAcknowledged
  <2>2. QED
    BY <1>4, <2>1 DEF TypeOK, FinishAcknowledged, queueVars, historyVars
<1>5. CASE JobThrows(w)
  <2>1. worker[w].job \in Jobs
    BY <1>5, BusyWorkerHasJob DEF JobThrows, Holding
  <2>2. worker' \in [Workers -> [at : Waiting \cup Holding, job : Jobs] \cup {Idle}]
    BY <1>5, BecomeTyped DEF JobThrows
  <2>3. failures' \in SUBSET Jobs
    BY <1>5, <2>1 DEF TypeOK, JobThrows
  <2>4. QED
    BY <1>5, <2>2, <2>3 DEF TypeOK, JobThrows, queueVars, historyVars
<1>6. QED
  BY <1>1, <1>2, <1>3, <1>4, <1>5 DEF WorkerStep

-------------------------------------------------------------------------------
(* Type correctness of the queue: every file, command, worker and post stays     *)
(* what the code takes it for, whatever the interleaving and the faults.         *)
THEOREM QueueTypeCorrect == Spec => []TypeOK
<1>1. Init => TypeOK
  BY FaultsAssumption DEF Init, TypeOK, Absent
<1>2. TypeOK /\ [Next]_vars => TypeOK'
  <2> SUFFICES ASSUME TypeOK, [Next]_vars
               PROVE  TypeOK'
    OBVIOUS
  <2>1. ASSUME NEW i \in Slots, HandlerStep(i) \/ WriteFails(i)
        PROVE  TypeOK'
    BY <2>1, GetPendingTyped, GetRunningTyped, UnlinkTyped, WriteTyped, ProgressTyped DEF HandlerStep
  <2>2. ASSUME NEW j \in Jobs, CreateJob(j) \/ GoQuiet(j) \/ LoseFailure(j)
        PROVE  TypeOK'
    BY <2>2, TimersTyped
  <2>3. ASSUME NEW i \in Slots, NEW j \in Jobs,
               RecoverStale(i, j) \/ CancelNext(i, j) \/ DeliverFailure(i, j)
        PROVE  TypeOK'
    BY <2>3, DeliveriesTyped
  <2>4. ASSUME NEW j \in Jobs, NEW s \in Terminal, Prune(j, s)
        PROVE  TypeOK'
    BY <2>4, TimersTyped
  <2>5. ASSUME NEW w \in Workers, WorkerStep(w)
        PROVE  TypeOK'
    BY <2>5, WorkerTyped
  <2>6. ASSUME NEW w \in Workers, NEW j \in Jobs, HearQueued(w, j)
        PROVE  TypeOK'
    BY <2>6, HearTyped
  <2>7. ASSUME NEW i \in Slots, NEW w \in Workers, ReportProgress(i, w)
        PROVE  TypeOK'
    BY <2>7, ReportTyped
  <2>8. CASE CancelRequested
    BY <2>8 DEF TypeOK, CancelRequested, workerVars, historyVars
  <2>9. CASE Restart
    BY <2>9, RestartTyped
  <2>10. CASE UNCHANGED vars
    BY <2>10 DEF TypeOK, vars, queueVars, workerVars, historyVars
  <2>11. QED
    BY <2>1, <2>2, <2>3, <2>4, <2>5, <2>6, <2>7, <2>8, <2>9, <2>10 DEF Next
<1>3. QED
  BY <1>1, <1>2, PTL DEF Spec

-------------------------------------------------------------------------------
(* What a step does to the commands, slot by slot.                               *)

(* A command in progress has not been retried more often than allowed.           *)
CountsBounded ==
  \A i \in Slots : command[i] # Free => command[i].count <= MaxRetries[command[i].job]

(* The step's commands take their count from nowhere but the job's files.        *)
CountsRead ==
  \A k \in Slots : command'[k] # Free =>
    \/ command'[k].job \in Jobs /\ command'[k].count = 0
    \/ /\ command[k] # Free
       /\ command'[k].job = command[k].job /\ command'[k].count = command[k].count
    \/ /\ command'[k].job \in Jobs
       /\ \E s \in Status : command'[k].count = copy[command'[k].job][s]

(* Counts that come from files within the bound are within the bound.            *)
LEMMA ReadCountsBounded ==
  ASSUME TypeOK, RetryBound, CountsBounded, CountsRead
  PROVE  CountsBounded'
<1> SUFFICES ASSUME NEW k \in Slots, command'[k] # Free
             PROVE  command'[k].count <= MaxRetries[command'[k].job]
  BY DEF CountsBounded
<1>1. CASE command'[k].job \in Jobs /\ command'[k].count = 0
  BY <1>1, RetriesAssumption
<1>2. CASE /\ command[k] # Free
           /\ command'[k].job = command[k].job /\ command'[k].count = command[k].count
  BY <1>2 DEF CountsBounded
<1>3. CASE /\ command'[k].job \in Jobs
           /\ \E s \in Status : command'[k].count = copy[command'[k].job][s]
  BY <1>3 DEF RetryBound
<1>4. QED
  BY <1>1, <1>2, <1>3 DEF CountsRead

(* The step leaves every command that is about to write as it is.                *)
WritersStay ==
  \A k \in Slots : command[k].at = "write" =>
    /\ command'[k].at = "write"
    /\ command'[k].kind = command[k].kind /\ command'[k].job = command[k].job

(* Only progress is written in place, everything else is moved.                  *)
KindsFit ==
  \A i \in Slots : /\ command[i].at = "unlink" => command[i].kind # "progress"
                   /\ command[i].at = "open" => command[i].kind = "progress"

(* A command that will make the job readable again.                              *)
Saves(i, j) ==
  /\ command[i].job = j /\ command[i].at = "write"
  /\ command[i].kind # "progress" \/ copy[j]["running"] = Torn

(* The inductive form of NothingVanishes: a progress report that is about to be  *)
(* written only saves the job if the file it emptied is still there.             *)
AlwaysSaved ==
  \A j \in Jobs : phase[j] = "created" =>
    (\E s \in Status : Readable(j, s)) \/ \E i \in Slots : Saves(i, j)

(* A step that leaves the files and the writers alone keeps every job.           *)
LEMMA SavedStays ==
  ASSUME AlwaysSaved, WritersStay, UNCHANGED <<copy, phase>>
  PROVE  AlwaysSaved'
<1> SUFFICES ASSUME NEW j \in Jobs, phase[j] = "created", ~ \E s \in Status : Readable(j, s)'
             PROVE  \E i \in Slots : Saves(i, j)'
  BY DEF AlwaysSaved
<1>1. ~ \E s \in Status : Readable(j, s)
  BY DEF Readable
<1>2. PICK i \in Slots : Saves(i, j)
  BY <1>1 DEF AlwaysSaved
<1>3. Saves(i, j)'
  BY <1>2 DEF Saves, WritersStay
<1>4. QED
  BY <1>3

(* What an entered command does to the others: nothing.                          *)
LEMMA StartKeeps ==
  ASSUME TypeOK, KindsFit, NEW i \in Slots, NEW kind \in Kinds, NEW j \in Jobs,
         NEW w \in Workers \cup {NoWorker}, Start(i, kind, j, w)
  PROVE  CountsRead /\ WritersStay /\ KindsFit'
<1>1. /\ command'[i] = [kind |-> kind, job |-> j, worker |-> w, at |-> "getPending",
                        from |-> "pending", count |-> 0]
      /\ \A k \in Slots \ {i} : command'[k] = command[k]
      /\ command[i] = Free
  BY StartTyped
<1>2. command'[i].at = "getPending" /\ command'[i].job = j /\ command'[i].count = 0
  BY <1>1
<1>3. command[i].at = "done"
  BY <1>1 DEF Free
<1>4. CountsRead
  BY <1>1, <1>2 DEF CountsRead
<1>5. WritersStay
  BY <1>1, <1>3 DEF WritersStay
<1>6. KindsFit'
  BY <1>1, <1>2 DEF KindsFit
<1>7. QED
  BY <1>4, <1>5, <1>6

(* A command that goes on does nothing to the others, and if it has not come to  *)
(* its write and keeps its count or takes it from a file, the facts above hold.  *)
LEMMA ProceedKeeps ==
  ASSUME TypeOK, KindsFit, NEW i \in Slots, NEW at \in Busy, NEW from \in {"pending", "running"},
         NEW count \in Nat, command[i].at \in Busy, Proceed(i, at, from, count),
         count \in {0, command[i].count} \/ (\E s \in Status : count = copy[command[i].job][s]),
         at = "unlink" => command[i].kind # "progress",
         at = "open" => command[i].kind = "progress"
  PROVE  CountsRead /\ KindsFit' /\ (command[i].at # "write" => WritersStay)
<1>1. command[i] # Free /\ command[i] \in Command /\ command[i].job \in Jobs
  BY BusyIsCommand DEF Busy
<1>2. command' = [command EXCEPT ![i] = [command[i] EXCEPT !.at = at, !.from = from, !.count = count]]
  BY DEF Proceed
<1> DEFINE new == [command[i] EXCEPT !.at = at, !.from = from, !.count = count]
<1>3. /\ new.at = at /\ new.count = count
      /\ new.job = command[i].job /\ new.kind = command[i].kind
  BY <1>1 DEF Command
<1> HIDE DEF new
<1>4. command'[i] = new /\ \A k \in Slots \ {i} : command'[k] = command[k]
  BY <1>2 DEF TypeOK, new
<1>5. CountsRead
  <2> SUFFICES ASSUME NEW k \in Slots, command'[k] # Free
               PROVE  \/ command'[k].job \in Jobs /\ command'[k].count = 0
                      \/ /\ command[k] # Free
                         /\ command'[k].job = command[k].job /\ command'[k].count = command[k].count
                      \/ /\ command'[k].job \in Jobs
                         /\ \E s \in Status : command'[k].count = copy[command'[k].job][s]
    BY DEF CountsRead
  <2>1. CASE k = i /\ count \in {0, command[i].count}
    BY <1>1, <1>3, <1>4, <2>1
  <2>2. CASE k = i /\ \E s \in Status : count = copy[command[i].job][s]
    BY <1>1, <1>3, <1>4, <2>2
  <2>3. CASE k # i
    BY <1>4, <2>3
  <2>4. QED
    BY <2>1, <2>2, <2>3
<1>6. KindsFit'
  BY <1>3, <1>4 DEF KindsFit
<1>7. command[i].at # "write" => WritersStay
  BY <1>4 DEF WritersStay
<1>8. QED
  BY <1>5, <1>6, <1>7

(* A command that ends does nothing to the others.                               *)
LEMMA EndKeeps ==
  ASSUME TypeOK, KindsFit, NEW i \in Slots, command' = [command EXCEPT ![i] = Free]
  PROVE  CountsRead /\ KindsFit' /\ (command[i].at # "write" => WritersStay)
<1>1. command'[i] = Free /\ \A k \in Slots \ {i} : command'[k] = command[k]
  BY EndTyped
<1>2. command'[i].at = "done"
  BY <1>1 DEF Free
<1>3. QED
  BY <1>1, <1>2 DEF CountsRead, KindsFit, WritersStay

-------------------------------------------------------------------------------
(* The inductive invariant, and the steps that leave the files alone.            *)
Accounted == RetryBound /\ CountsBounded /\ KindsFit /\ AlwaysSaved

LEMMA FilesLeftAlone ==
  ASSUME TypeOK, Accounted, UNCHANGED <<copy, phase>>, CountsRead, WritersStay, KindsFit'
  PROVE  Accounted'
<1>1. RetryBound'
  BY DEF Accounted, RetryBound, Readable
<1>2. CountsBounded'
  BY ReadCountsBounded DEF Accounted
<1>3. AlwaysSaved'
  BY SavedStays DEF Accounted
<1>4. QED
  BY <1>1, <1>2, <1>3 DEF Accounted

(* Commands and files both left alone.                                           *)
LEMMA CommandsLeftAlone ==
  ASSUME TypeOK, Accounted, UNCHANGED <<copy, phase, command>>
  PROVE  Accounted'
<1>1. CountsRead /\ WritersStay /\ KindsFit'
  BY DEF Accounted, CountsRead, WritersStay, KindsFit
<1>2. QED
  BY <1>1, FilesLeftAlone

(* Entering a command, or posting in vain.                                       *)
LEMMA PostAccounted ==
  ASSUME TypeOK, Accounted, UNCHANGED <<copy, phase>>,
         NEW kind \in Kinds, NEW j \in Jobs, NEW w \in Workers \cup {NoWorker},
         (\E i \in Slots : Start(i, kind, j, w)) \/ UNCHANGED command
  PROVE  Accounted'
<1>1. CASE \E i \in Slots : Start(i, kind, j, w)
  <2>1. CountsRead /\ WritersStay /\ KindsFit'
    BY <1>1, StartKeeps DEF Accounted
  <2>2. QED
    BY <2>1, FilesLeftAlone
<1>2. CASE UNCHANGED command
  BY <1>2, CommandsLeftAlone
<1>3. QED
  BY <1>1, <1>2

LEMMA GettingAccounted ==
  ASSUME TypeOK, Accounted, NEW i \in Slots, GetPending(i) \/ GetRunning(i)
  PROVE  Accounted'
<1> DEFINE j == command[i].job
<1>1. command[i].at \in Busy /\ command[i].at # "write" /\ command[i] \in Command /\ j \in Jobs
  BY BusyIsCommand DEF GetPending, GetRunning, Busy
<1>2. UNCHANGED <<copy, phase>>
  BY DEF GetPending, GetRunning, historyVars
<1>3. CASE Decline(i)
  <2>1. CountsRead /\ WritersStay /\ KindsFit'
    BY <1>1, <1>3, EndKeeps DEF Decline, Accounted
  <2>2. QED
    BY <1>2, <2>1, FilesLeftAlone
<1>4. CASE Proceed(i, "getRunning", "pending", 0)
  <2>1. CountsRead /\ WritersStay /\ KindsFit'
    BY <1>1, <1>4, ProceedKeeps DEF Accounted, Busy
  <2>2. QED
    BY <1>2, <2>1, FilesLeftAlone
<1>5. ASSUME NEW s \in {"pending", "running"}, NEW at \in {"unlink", "open"},
             Readable(j, s), Proceed(i, at, s, copy[j][s]),
             at = "unlink" => command[i].kind # "progress",
             at = "open" => command[i].kind = "progress"
      PROVE  Accounted'
  <2>1. s \in Status /\ copy[j][s] \in Nat
    BY <1>1, <1>5 DEF TypeOK, Status, Readable, Absent, Torn
  <2>2. CountsRead /\ WritersStay /\ KindsFit'
    BY <1>1, <1>5, <2>1, ProceedKeeps DEF Accounted, Busy
  <2>3. QED
    BY <1>2, <2>2, FilesLeftAlone
<1>6. CASE GetPending(i)
  <2>1. CASE /\ Readable(j, "pending") /\ command[i].kind \in {"claim", "cancel"}
             /\ Proceed(i, "unlink", "pending", copy[j]["pending"])
    BY <1>5, <2>1
  <2>2. QED
    BY <1>3, <1>4, <1>6, <2>1 DEF GetPending
<1>7. CASE GetRunning(i)
  <2>1. CASE /\ Readable(j, "running") /\ command[i].kind \in {"complete", "fail", "cancel"}
             /\ Proceed(i, "unlink", "running", copy[j]["running"])
    BY <1>5, <2>1
  <2>2. CASE /\ Readable(j, "running") /\ command[i].kind = "progress"
             /\ Proceed(i, "open", "running", copy[j]["running"])
    BY <1>5, <2>2
  <2>3. QED
    BY <1>3, <1>7, <2>1, <2>2 DEF GetRunning
<1>8. QED
  BY <1>6, <1>7

(* Giving up a claim: somebody else may be waiting, the command goes on.         *)
LEMMA ClaimFailsAccounted ==
  ASSUME TypeOK, Accounted, NEW w \in Workers, ClaimFails(w)
  PROVE  Accounted'
<1>1. \A i \in Slots : /\ command'[i].kind = command[i].kind
                       /\ command'[i].job = command[i].job
                       /\ command'[i].at = command[i].at
                       /\ command'[i].count = command[i].count
                       /\ command[i] = Free <=> command'[i] = Free
  BY AbandonTyped DEF ClaimFails
<1>2. CountsRead /\ WritersStay /\ KindsFit'
  BY <1>1 DEF Accounted, CountsRead, WritersStay, KindsFit
<1>3. UNCHANGED <<copy, phase>>
  BY DEF ClaimFails, historyVars
<1>4. QED
  BY <1>2, <1>3, FilesLeftAlone

LEMMA WorkerAccounted ==
  ASSUME TypeOK, Accounted, NEW w \in Workers, WorkerStep(w)
  PROVE  Accounted'
<1>1. CASE ReceiveReply(w) \/ FinishAcknowledged(w) \/ JobThrows(w)
  <2>1. UNCHANGED <<copy, phase, command>>
    BY <1>1 DEF ReceiveReply, FinishAcknowledged, JobThrows, queueVars, historyVars
  <2>2. QED
    BY <2>1, CommandsLeftAlone
<1>2. CASE ClaimFails(w)
  BY <1>2, ClaimFailsAccounted
<1>3. CASE Finish(w)
  <2>1. worker[w].job \in Jobs
    BY <1>3, BusyWorkerHasJob DEF Finish
  <2>2. /\ UNCHANGED <<copy, phase>>
        /\ (\E i \in Slots : Start(i, "complete", worker[w].job, NoWorker)) \/ UNCHANGED command
    BY <1>3 DEF Finish
  <2>3. QED
    BY <2>1, <2>2, PostAccounted DEF Kinds
<1>4. QED
  BY <1>1, <1>2, <1>3 DEF WorkerStep

-------------------------------------------------------------------------------
(* The steps that change one file of one job.                                    *)

OneFile(j, s, v) ==
  \A k \in Jobs, t \in Status : copy'[k][t] = IF k = j /\ t = s THEN v ELSE copy[k][t]

LEMMA OneFileBounded ==
  ASSUME TypeOK, RetryBound, NEW j \in Jobs, NEW s \in Status, NEW v \in Int,
         OneFile(j, s, v),
         v <= MaxRetries[j], s = "failed" /\ v >= 0 => v = MaxRetries[j]
  PROVE  RetryBound'
<1> SUFFICES ASSUME NEW k \in Jobs
             PROVE  /\ \A t \in Status : copy'[k][t] <= MaxRetries[k]
                    /\ copy'[k]["failed"] >= 0 => copy'[k]["failed"] = MaxRetries[k]
  BY DEF RetryBound, Readable
<1>1. "failed" \in Status
  BY DEF Status, Terminal
<1>2. /\ \A t \in Status : copy[k][t] <= MaxRetries[k]
      /\ copy[k]["failed"] >= 0 => copy[k]["failed"] = MaxRetries[k]
  BY DEF RetryBound, Readable
<1>3. \A t \in Status : copy'[k][t] = IF k = j /\ t = s THEN v ELSE copy[k][t]
  BY DEF OneFile
<1>4. QED
  BY <1>1, <1>2, <1>3

LEMMA OneFileSaved ==
  ASSUME TypeOK, AlwaysSaved, NEW j \in Jobs, NEW s \in Status, NEW v \in Int,
         OneFile(j, s, v) \/ UNCHANGED copy,
         \A k \in Slots : command[k].at = "write" /\ command[k].job # j =>
           /\ command'[k].at = "write"
           /\ command'[k].kind = command[k].kind /\ command'[k].job = command[k].job,
         \A k \in Jobs \ {j} : phase'[k] = "created" => phase[k] = "created",
         phase'[j] = "created" =>
           (\E t \in Status : copy'[j][t] >= 0) \/ \E i \in Slots : Saves(i, j)'
  PROVE  AlwaysSaved'
<1> SUFFICES ASSUME NEW k \in Jobs \ {j}, phase[k] = "created"
             PROVE  (\E t \in Status : copy'[k][t] >= 0) \/ \E i \in Slots : Saves(i, k)'
  BY DEF AlwaysSaved, Readable
<1>1. "running" \in Status /\ \A t \in Status : copy'[k][t] = copy[k][t]
  BY DEF OneFile, Status
<1>2. CASE \E t \in Status : Readable(k, t)
  BY <1>1, <1>2 DEF Readable
<1>3. CASE \E i \in Slots : Saves(i, k)
  <2>1. PICK i \in Slots : Saves(i, k)
    BY <1>3
  <2>2. Saves(i, k)'
    BY <1>1, <2>1 DEF Saves
  <2>3. QED
    BY <2>2
<1>4. QED
  BY <1>2, <1>3 DEF AlwaysSaved

LEMMA CreateAccounted ==
  ASSUME TypeOK, Accounted, NEW j \in Jobs, CreateJob(j)
  PROVE  Accounted'
<1>1. "pending" \in Status /\ UNCHANGED command
  BY DEF CreateJob, Status
<1>2. OneFile(j, "pending", 0)
  BY DEF CreateJob, TypeOK, OneFile
<1>3. RetryBound'
  BY <1>1, <1>2, OneFileBounded, RetriesAssumption DEF Accounted
<1>4. CountsBounded' /\ KindsFit'
  BY <1>1 DEF Accounted, CountsBounded, KindsFit
<1>5. copy'[j]["pending"] = 0
  BY <1>1, <1>2 DEF OneFile
<1>6. \A k \in Jobs \ {j} : phase'[k] = "created" => phase[k] = "created"
  BY DEF CreateJob, TypeOK
<1>7. AlwaysSaved'
  BY <1>1, <1>2, <1>5, <1>6, OneFileSaved DEF Accounted
<1>8. QED
  BY <1>3, <1>4, <1>7 DEF Accounted

LEMMA PruneAccounted ==
  ASSUME TypeOK, Accounted, NEW j \in Jobs, NEW s \in Terminal, Prune(j, s)
  PROVE  Accounted'
<1>1. OneFile(j, s, Absent) /\ UNCHANGED command
  BY DEF Prune, TypeOK, OneFile
<1>2. s \in Status /\ Absent \in Int /\ Absent <= MaxRetries[j] /\ ~(Absent >= 0)
  BY RetriesAssumption DEF Status, Absent
<1>3. RetryBound'
  BY <1>1, <1>2, OneFileBounded DEF Accounted
<1>4. CountsBounded' /\ KindsFit'
  BY <1>1 DEF Accounted, CountsBounded, KindsFit
<1>5. phase'[j] = "pruned" /\ \A k \in Jobs \ {j} : phase'[k] = phase[k]
  BY DEF Prune, TypeOK
<1>6. AlwaysSaved'
  BY <1>1, <1>2, <1>5, OneFileSaved DEF Accounted
<1>7. QED
  BY <1>3, <1>4, <1>6 DEF Accounted

LEMMA UnlinkAccounted ==
  ASSUME TypeOK, Accounted, NEW i \in Slots, Unlink(i)
  PROVE  Accounted'
<1>0. PICK j \in Jobs : j = command[i].job
  BY BusyIsCommand DEF Unlink
<1> DEFINE s == command[i].from
           count == command[i].count
<1>1. /\ command[i].at = "unlink" /\ command[i].job = j
      /\ command[i] \in Command /\ command[i] # Free
  BY <1>0, BusyIsCommand DEF Unlink
<1>2. s \in {"pending", "running"} /\ s \in Status /\ s # "failed" /\ count \in Nat
  BY <1>1 DEF Command, Status
<1>3. OneFile(j, s, Absent) /\ UNCHANGED phase
  BY <1>1, <1>2 DEF Unlink, historyVars, TypeOK, OneFile
<1>4. Absent \in Int /\ Absent <= MaxRetries[j]
  BY <1>1, RetriesAssumption DEF Absent
<1>5. RetryBound'
  BY <1>1, <1>2, <1>3, <1>4, OneFileBounded DEF Accounted
<1>6. Proceed(i, "write", s, count)
  BY DEF Unlink
<1>7. CountsRead /\ KindsFit' /\ WritersStay
  BY <1>1, <1>2, <1>6, ProceedKeeps DEF Accounted, Busy
<1>8. command[i].kind # "progress"
  BY <1>1 DEF Accounted, KindsFit
<1>9. /\ command'[i].at = "write" /\ command'[i].job = j /\ command'[i].kind = command[i].kind
      /\ \A k \in Slots \ {i} : command'[k] = command[k]
  <2> DEFINE new == [command[i] EXCEPT !.at = "write", !.from = s, !.count = count]
  <2>1. new.at = "write" /\ new.job = j /\ new.kind = command[i].kind
    BY <1>1 DEF Command
  <2>2. command' = [command EXCEPT ![i] = new]
    BY <1>6 DEF Proceed
  <2> HIDE DEF new
  <2>3. QED
    BY <2>1, <2>2 DEF TypeOK
<1>10. Saves(i, j)'
  BY <1>8, <1>9 DEF Saves
<1>11. AlwaysSaved'
  <2>1. \A k \in Slots : command[k].at = "write" /\ command[k].job # j =>
          /\ command'[k].at = "write"
          /\ command'[k].kind = command[k].kind /\ command'[k].job = command[k].job
    BY <1>7 DEF WritersStay
  <2>2. QED
    BY <1>1, <1>2, <1>3, <1>4, <1>10, <2>1, OneFileSaved DEF Accounted
<1>12. CountsBounded'
  BY <1>7, ReadCountsBounded DEF Accounted
<1>13. QED
  BY <1>5, <1>7, <1>11, <1>12 DEF Accounted

LEMMA WriteAccounted ==
  ASSUME TypeOK, Accounted, NEW i \in Slots, Write(i)
  PROVE  Accounted'
<1> DEFINE j == command[i].job
           s == Destination(i)
           v == NewCount(i)
<1>1. /\ command[i].at = "write" /\ command[i].kind # "progress"
      /\ command[i] \in Command /\ j \in Jobs /\ command[i] # Free
  BY BusyIsCommand DEF Write
<1>2. s \in Status /\ v \in Nat
  BY <1>1, DestinationTyped
<1>3. OneFile(j, s, v) /\ command' = [command EXCEPT ![i] = Free] /\ UNCHANGED phase
  <2> HIDE DEF s, v
  <2>1. copy' = [copy EXCEPT ![j][s] = v]
    BY DEF Write, s, v
  <2>2. OneFile(j, s, v)
    BY <1>1, <1>2, <2>1 DEF TypeOK, OneFile
  <2>3. QED
    BY <2>2 DEF Write
<1>4. command[i].count \in Nat /\ command[i].count <= MaxRetries[j] /\ MaxRetries[j] \in Nat
  BY <1>1, RetriesAssumption DEF Accounted, CountsBounded, Command
<1>5. v <= MaxRetries[j]
  BY <1>4 DEF NewCount, Retries
<1>6. s = "failed" => v = MaxRetries[j]
  <2>1. ASSUME s = "failed"
        PROVE  command[i].kind = "fail" /\ ~Retries(i)
    <3>1. command[i].kind \in Kinds
      BY <1>1 DEF Command
    <3>2. QED
      BY <1>1, <2>1, <3>1 DEF Destination, Kinds
  <2>2. QED
    BY <1>4, <2>1 DEF NewCount, Retries
<1>7. RetryBound'
  BY <1>1, <1>2, <1>3, <1>5, <1>6, OneFileBounded DEF Accounted
<1>8. CountsRead /\ KindsFit'
  BY <1>3, EndKeeps DEF Accounted
<1>9. CountsBounded'
  BY <1>8, ReadCountsBounded DEF Accounted
<1>10. copy'[j][s] = v
  BY <1>1, <1>2, <1>3 DEF OneFile
<1>11. \A k \in Slots : command[k].job # j => command'[k] = command[k]
  BY <1>3 DEF TypeOK
<1>12. AlwaysSaved'
  <2>1. \E t \in Status : copy'[j][t] >= 0
    BY <1>2, <1>10
  <2>2. QED
    BY <1>1, <1>2, <1>3, <1>11, <2>1, OneFileSaved DEF Accounted
<1>13. QED
  BY <1>7, <1>8, <1>9, <1>12 DEF Accounted

LEMMA OpenAccounted ==
  ASSUME TypeOK, Accounted, NEW i \in Slots, OpenProgress(i)
  PROVE  Accounted'
<1>0. PICK j \in Jobs : j = command[i].job
  BY BusyIsCommand DEF OpenProgress
<1> DEFINE count == command[i].count
<1>1. /\ command[i].at = "open" /\ command[i].job = j
      /\ command[i] \in Command /\ command[i] # Free
  BY <1>0, BusyIsCommand DEF OpenProgress
<1>2. "running" \in Status /\ count \in Nat
  BY <1>1 DEF Command, Status
<1>3. OneFile(j, "running", Torn) /\ UNCHANGED phase
  BY <1>1, <1>2 DEF OpenProgress, historyVars, TypeOK, OneFile
<1>4. Torn \in Int /\ Torn <= MaxRetries[j]
  BY RetriesAssumption DEF Torn
<1>5. RetryBound'
  BY <1>1, <1>2, <1>3, <1>4, OneFileBounded DEF Accounted
<1>6. Proceed(i, "write", "running", count)
  BY DEF OpenProgress
<1>7. CountsRead /\ KindsFit' /\ WritersStay
  BY <1>1, <1>2, <1>6, ProceedKeeps DEF Accounted, Busy
<1>8. command'[i].at = "write" /\ command'[i].job = j
  <2> DEFINE new == [command[i] EXCEPT !.at = "write", !.from = "running", !.count = count]
  <2>1. new.at = "write" /\ new.job = j
    BY <1>1 DEF Command
  <2>2. command' = [command EXCEPT ![i] = new]
    BY <1>6 DEF Proceed
  <2> HIDE DEF new
  <2>3. QED
    BY <2>1, <2>2 DEF TypeOK
<1>9. Saves(i, j)'
  BY <1>2, <1>3, <1>8 DEF Saves, OneFile
<1>10. AlwaysSaved'
  <2>1. \A k \in Slots : command[k].at = "write" /\ command[k].job # j =>
          /\ command'[k].at = "write"
          /\ command'[k].kind = command[k].kind /\ command'[k].job = command[k].job
    BY <1>7 DEF WritersStay
  <2>2. QED
    BY <1>1, <1>2, <1>3, <1>4, <1>9, <2>1, OneFileSaved DEF Accounted
<1>11. CountsBounded'
  BY <1>7, ReadCountsBounded DEF Accounted
<1>12. QED
  BY <1>5, <1>7, <1>10, <1>11 DEF Accounted

(* A progress report whose file was taken away was not saving the job: somebody  *)
(* else is, or the job was readable anyway.                                      *)
LEMMA WriteProgressAccounted ==
  ASSUME TypeOK, Accounted, NEW i \in Slots, WriteProgress(i)
  PROVE  Accounted'
<1>0. PICK j \in Jobs : j = command[i].job
  BY BusyIsCommand DEF WriteProgress
<1> DEFINE count == command[i].count
<1>1. /\ command[i].at = "write" /\ command[i].kind = "progress" /\ command[i].job = j
      /\ command[i] \in Command /\ command[i] # Free
  BY <1>0, BusyIsCommand DEF WriteProgress
<1>2. "running" \in Status /\ count \in Nat /\ count <= MaxRetries[j]
  BY <1>1 DEF Command, Status, Accounted, CountsBounded
<1>3. /\ command' = [command EXCEPT ![i] = Free] /\ UNCHANGED phase
      /\ \A k \in Slots \ {i} : command'[k] = command[k]
  BY DEF WriteProgress, historyVars, TypeOK
<1>4. CountsRead /\ KindsFit'
  BY <1>3, EndKeeps DEF Accounted
<1>5. CountsBounded'
  BY <1>4, ReadCountsBounded DEF Accounted
<1>6. CASE copy[j]["running"] = Torn
  <2>1. OneFile(j, "running", count)
    BY <1>1, <1>2, <1>6 DEF WriteProgress, TypeOK, OneFile
  <2>2. RetryBound'
    BY <1>2, <2>1, OneFileBounded DEF Accounted
  <2>3. copy'[j]["running"] >= 0
    BY <1>2, <2>1 DEF OneFile
  <2>4. AlwaysSaved'
    BY <1>1, <1>2, <1>3, <2>1, <2>3, OneFileSaved DEF Accounted
  <2>5. QED
    BY <1>4, <1>5, <2>2, <2>4 DEF Accounted
<1>7. CASE copy[j]["running"] # Torn
  <2>1. UNCHANGED copy
    BY <1>1, <1>7 DEF WriteProgress
  <2>2. RetryBound'
    BY <2>1 DEF Accounted, RetryBound, Readable
  <2>3. ASSUME phase[j] = "created"
        PROVE  (\E t \in Status : copy'[j][t] >= 0) \/ \E k \in Slots : Saves(k, j)'
    <3>1. CASE \E t \in Status : Readable(j, t)
      BY <2>1, <3>1 DEF Readable
    <3>2. CASE \E k \in Slots : Saves(k, j)
      <4>1. PICK k \in Slots : Saves(k, j)
        BY <3>2
      <4>2. k # i
        BY <1>1, <1>7, <4>1 DEF Saves
      <4>3. Saves(k, j)'
        BY <1>3, <2>1, <4>1, <4>2 DEF Saves
      <4>4. QED
        BY <4>3
    <3>3. QED
      BY <2>3, <3>1, <3>2 DEF Accounted, AlwaysSaved
  <2>4. AlwaysSaved'
    BY <1>1, <1>2, <1>3, <2>1, <2>3, OneFileSaved DEF Accounted
  <2>5. QED
    BY <1>4, <1>5, <2>2, <2>4 DEF Accounted
<1>8. QED
  BY <1>6, <1>7

-------------------------------------------------------------------------------
(* Faults: what they cut short is called lost.                                   *)

LEMMA WriteFailsAccounted ==
  ASSUME TypeOK, Accounted, NEW i \in Slots, WriteFails(i)
  PROVE  Accounted'
<1>0. PICK j \in Jobs : j = command[i].job
  BY BusyIsCommand DEF WriteFails
<1>1. /\ UNCHANGED copy /\ command' = [command EXCEPT ![i] = Free]
      /\ \A k \in Slots \ {i} : command'[k] = command[k]
  BY DEF WriteFails, TypeOK
<1>2. CountsRead /\ KindsFit'
  BY <1>1, EndKeeps DEF Accounted
<1>3. RetryBound' /\ CountsBounded'
  BY <1>1, <1>2, ReadCountsBounded DEF Accounted, RetryBound, Readable
<1>4. phase'[j] = "lost" /\ \A k \in Jobs \ {j} : phase'[k] = phase[k]
  BY <1>0 DEF WriteFails, TypeOK
<1>5. AlwaysSaved'
  <2>1. "running" \in Status /\ 0 \in Int
    BY DEF Status
  <2>2. QED
    BY <1>0, <1>1, <1>4, <2>1, OneFileSaved DEF Accounted
<1>6. QED
  BY <1>2, <1>3, <1>5 DEF Accounted

LEMMA RestartAccounted ==
  ASSUME TypeOK, Accounted, Restart
  PROVE  Accounted'
<1>1. UNCHANGED copy /\ \A k \in Slots : command'[k] = Free
  BY DEF Restart
<1>2. RetryBound' /\ CountsBounded' /\ KindsFit'
  BY <1>1 DEF Accounted, RetryBound, Readable, CountsBounded, KindsFit, Free
<1>3. AlwaysSaved'
  <2> SUFFICES ASSUME NEW j \in Jobs, phase'[j] = "created"
               PROVE  \E s \in Status : copy'[j][s] >= 0
    BY DEF AlwaysSaved, Readable
  <2>1. phase[j] = "created" /\ ~ \E i \in Handling(j) : command[i].at = "write"
    BY DEF Restart
  <2>2. ~ \E i \in Slots : Saves(i, j)
    BY <2>1 DEF Handling, Saves
  <2>3. QED
    BY <1>1, <2>1, <2>2 DEF Accounted, AlwaysSaved, Readable
<1>4. QED
  BY <1>2, <1>3 DEF Accounted

-------------------------------------------------------------------------------
(* Every step keeps the accounts.                                                *)
LEMMA AlwaysAccounted == Spec => []Accounted
<1>1. Init => Accounted
  BY RetriesAssumption
     DEF Init, Accounted, RetryBound, Readable, Absent, CountsBounded, KindsFit, AlwaysSaved, Free,
         Status, Terminal
<1>2. TypeOK /\ Accounted /\ [Next]_vars => Accounted'
  <2> SUFFICES ASSUME TypeOK, Accounted, [Next]_vars
               PROVE  Accounted'
    OBVIOUS
  <2>1. ASSUME NEW i \in Slots, HandlerStep(i) \/ WriteFails(i)
        PROVE  Accounted'
    BY <2>1, GettingAccounted, UnlinkAccounted, WriteAccounted, OpenAccounted,
       WriteProgressAccounted, WriteFailsAccounted DEF HandlerStep
  <2>2. ASSUME NEW j \in Jobs, CreateJob(j) \/ GoQuiet(j) \/ LoseFailure(j)
        PROVE  Accounted'
    <3>1. CASE GoQuiet(j) \/ LoseFailure(j)
      <4>1. UNCHANGED <<copy, phase, command>>
        BY <3>1 DEF GoQuiet, LoseFailure, queueVars, historyVars
      <4>2. QED
        BY <4>1, CommandsLeftAlone
    <3>2. QED
      BY <2>2, <3>1, CreateAccounted
  <2>3. ASSUME NEW i \in Slots, NEW j \in Jobs,
               RecoverStale(i, j) \/ CancelNext(i, j) \/ DeliverFailure(i, j)
        PROVE  Accounted'
    <3>1. UNCHANGED <<copy, phase>> /\ \E kind \in Kinds : Start(i, kind, j, NoWorker)
      BY <2>3 DEF RecoverStale, CancelNext, DeliverFailure, Kinds
    <3>2. QED
      BY <3>1, PostAccounted
  <2>4. ASSUME NEW j \in Jobs, NEW s \in Terminal, Prune(j, s)
        PROVE  Accounted'
    BY <2>4, PruneAccounted
  <2>5. ASSUME NEW w \in Workers, WorkerStep(w)
        PROVE  Accounted'
    BY <2>5, WorkerAccounted
  <2>6. ASSUME NEW w \in Workers, NEW j \in Jobs, HearQueued(w, j)
        PROVE  Accounted'
    <3>1. /\ UNCHANGED <<copy, phase>>
          /\ (\E i \in Slots : Start(i, "claim", j, w)) \/ UNCHANGED command
      BY <2>6 DEF HearQueued
    <3>2. QED
      BY <3>1, PostAccounted DEF Kinds
  <2>7. ASSUME NEW i \in Slots, NEW w \in Workers, ReportProgress(i, w)
        PROVE  Accounted'
    <3>1. worker[w].job \in Jobs
      BY <2>7, BusyWorkerHasJob DEF ReportProgress
    <3>2. UNCHANGED <<copy, phase>> /\ Start(i, "progress", worker[w].job, NoWorker)
      BY <2>7 DEF ReportProgress
    <3>3. QED
      BY <3>1, <3>2, PostAccounted DEF Kinds
  <2>8. CASE CancelRequested
    <3>1. UNCHANGED <<copy, phase, command>>
      BY <2>8 DEF CancelRequested, historyVars
    <3>2. QED
      BY <3>1, CommandsLeftAlone
  <2>9. CASE Restart
    BY <2>9, RestartAccounted
  <2>10. CASE UNCHANGED vars
    <3>1. UNCHANGED <<copy, phase, command>>
      BY <2>10 DEF vars, queueVars, historyVars
    <3>2. QED
      BY <3>1, CommandsLeftAlone
  <2>11. QED
    BY <2>1, <2>2, <2>3, <2>4, <2>5, <2>6, <2>7, <2>8, <2>9, <2>10 DEF Next
<1>3. QED
  BY <1>1, <1>2, QueueTypeCorrect, PTL DEF Spec

(* However the commands of a job interleave, and whatever crashes and writes     *)
(* that fail cut short, no copy of it has been retried more often than allowed,  *)
(* and it only fails for good with its retries spent.                            *)
THEOREM RetriesBounded == Spec => []RetryBound
<1>1. Accounted => RetryBound
  BY DEF Accounted
<1>2. QED
  BY <1>1, AlwaysAccounted, PTL

(* updateJob unlinks before it writes, and recordProgress empties the file it    *)
(* writes, but no interleaving of commands makes a job disappear: only a crash   *)
(* or a failed write between the two does.                                       *)
THEOREM JobsDoNotVanish == Spec => []NothingVanishes
<1>1. Accounted => NothingVanishes
  BY DEF Accounted, AlwaysSaved, NothingVanishes, Handling, Saves
<1>2. QED
  BY <1>1, AlwaysAccounted, PTL

-------------------------------------------------------------------------------
(* Jobs that no two commands handled at once: such a job is in one directory, is *)
(* given out no more often than its retries allow, stays where it ended, is      *)
(* worked on by one worker, and follows JobLifecycle.                            *)

-------------------------------------------------------------------------------
(* The inductive invariant of one job.                                           *)

OneHandler(j) ==
  \A i, k \in Slots : command[i].job = j /\ command[k].job = j => i = k

NoFile(j) == \A s \in Status : copy[j][s] = Absent

SoleFile(j) ==
  \A s, u \in Status : copy[j][s] # Absent /\ copy[j][u] # Absent => s = u

(* What the command has read of its job still holds, and between the halves of a *)
(* move the job has no file.                                                     *)
Fits(i) ==
  LET j == command[i].job
      s == command[i].from
  IN  /\ command[i].at = "unlink" => Readable(j, s) /\ copy[j][s] = command[i].count
      /\ command[i].at = "open" => Readable(j, "running") /\ copy[j]["running"] = command[i].count
      /\ command[i].at = "write" /\ command[i].kind # "progress" => NoFile(j)
      /\ command[i].at = "write" /\ command[i].kind = "progress" => copy[j]["running"] = Torn

(* A job was given out once for each retry, and once more while it is running.   *)
GrantsFit(j) ==
  /\ Readable(j, "pending") => grants[j] <= copy[j]["pending"]
  /\ Readable(j, "running") => grants[j] <= copy[j]["running"] + 1
  /\ \A i \in Slots : command[i].job = j /\ command[i].at = "write" =>
       /\ command[i].from = "pending" => grants[j] <= command[i].count
       /\ grants[j] <= command[i].count + 1
  /\ grants[j] <= MaxRetries[j] + 1

Calm(j) ==
  /\ OneHandler(j) /\ SoleFile(j) /\ GrantsFit(j)
  /\ \A i \in Slots : command[i].job = j => Fits(i)

(* Which directory a command moves its job from.                                 *)
MovesFit ==
  \A i \in Slots :
    /\ command[i].at \in {"unlink", "write"} =>
         /\ command[i].kind = "claim" => command[i].from = "pending"
         /\ command[i].kind \in {"complete", "fail"} => command[i].from = "running"
    /\ command[i].at \in {"open", "write"} /\ command[i].kind = "progress"
         => command[i].from = "running"

(* Nobody knows of a job that was not created.                                   *)
Untouched ==
  \A j \in Jobs : phase[j] = "new" =>
    /\ NoFile(j) /\ grants[j] = 0 /\ j \notin doomed \cup failures
    /\ \A i \in Slots : command[i].job # j
    /\ \A w \in Workers : worker[w].job # j

Settled == MovesFit /\ Untouched
AllCalm == \A j \in Jobs \ raced : Calm(j)

-------------------------------------------------------------------------------
(* Steps that leave a job alone.                                                 *)

SameCommand(c, d) ==
  /\ d.kind = c.kind /\ d.job = c.job /\ d.at = c.at
  /\ d.from = c.from /\ d.count = c.count

(* The job has no other commands after the step than before.                     *)
FewerCommands(j) ==
  \A i \in Slots : command'[i].job = j => SameCommand(command[i], command'[i])

LEMMA CalmKept ==
  ASSUME NEW j \in Jobs, Calm(j), copy'[j] = copy[j], grants'[j] = grants[j], FewerCommands(j)
  PROVE  Calm(j)'
<1>1. OneHandler(j)'
  BY DEF Calm, OneHandler, FewerCommands, SameCommand
<1>2. SoleFile(j)'
  BY DEF Calm, SoleFile
<1>3. GrantsFit(j)'
  BY DEF Calm, GrantsFit, FewerCommands, SameCommand, Readable
<1>4. ASSUME NEW i \in Slots, command'[i].job = j
      PROVE  Fits(i)'
  <2>1. Fits(i) /\ SameCommand(command[i], command'[i])
    BY <1>4 DEF Calm, FewerCommands, SameCommand
  <2>2. QED
    BY <1>4, <2>1 DEF Fits, SameCommand, Readable, NoFile
<1>5. QED
  BY <1>1, <1>2, <1>3, <1>4 DEF Calm

(* A command that is entered is the only one of a job that was not raced.        *)
LEMMA StartCalm ==
  ASSUME TypeOK, NEW i \in Slots, NEW kind \in Kinds, NEW x \in Jobs,
         NEW w \in Workers \cup {NoWorker}, Start(i, kind, x, w),
         NEW j \in Jobs \ raced', Calm(j), copy'[j] = copy[j], grants'[j] = grants[j]
  PROVE  Calm(j)'
<1>0. /\ command'[i] = [kind |-> kind, job |-> x, worker |-> w, at |-> "getPending",
                        from |-> "pending", count |-> 0]
      /\ \A k \in Slots \ {i} : command'[k] = command[k]
  BY StartTyped
<1>1. /\ command'[i].job = x /\ command'[i].at = "getPending"
      /\ \A k \in Slots \ {i} : command'[k] = command[k]
  BY <1>0
<1>2. CASE j = x
  <2>1. \A k \in Slots : command[k].job # j
    BY <1>2 DEF Start, Handling
  <2>2. \A k \in Slots : command'[k].job = j => k = i
    BY <1>1, <2>1
  <2>3. OneHandler(j)'
    BY <2>2 DEF OneHandler
  <2>4. SoleFile(j)' /\ GrantsFit(j)'
    BY <1>1, <2>2 DEF Calm, SoleFile, GrantsFit, Readable
  <2>5. \A k \in Slots : command'[k].job = j => Fits(k)'
    BY <1>1, <2>2 DEF Fits
  <2>6. QED
    BY <2>3, <2>4, <2>5 DEF Calm
<1>3. CASE j # x
  <2>1. FewerCommands(j)
    BY <1>1, <1>3 DEF FewerCommands, SameCommand
  <2>2. QED
    BY <2>1, CalmKept
<1>4. QED
  BY <1>2, <1>3

(* A post enters a command or is lost.                                           *)
LEMMA PostCalm ==
  ASSUME TypeOK, NEW kind \in Kinds, NEW x \in Jobs, NEW w \in Workers \cup {NoWorker},
         (\E i \in Slots : Start(i, kind, x, w)) \/ UNCHANGED <<command, raced>>,
         NEW j \in Jobs \ raced', Calm(j), copy'[j] = copy[j], grants'[j] = grants[j]
  PROVE  Calm(j)'
<1>1. CASE \E i \in Slots : Start(i, kind, x, w)
  BY <1>1, StartCalm
<1>2. CASE UNCHANGED command
  <2>1. FewerCommands(j)
    BY <1>2 DEF FewerCommands, SameCommand
  <2>2. QED
    BY <2>1, CalmKept
<1>3. QED
  BY <1>1, <1>2

-------------------------------------------------------------------------------
(* The commands' own steps.  The job of the command is the only one whose files  *)
(* and commands change.                                                          *)

(* What a command that has gone on is.                                           *)
LEMMA ProceedFields ==
  ASSUME TypeOK, NEW i \in Slots, NEW at \in Busy, NEW from \in {"pending", "running"},
         NEW count \in Nat, command[i] \in Command, Proceed(i, at, from, count)
  PROVE  /\ command'[i].at = at /\ command'[i].from = from /\ command'[i].count = count
         /\ command'[i].kind = command[i].kind /\ command'[i].job = command[i].job
         /\ \A k \in Slots \ {i} : command'[k] = command[k]
<1>1. command' = [command EXCEPT ![i] = [command[i] EXCEPT !.at = at, !.from = from, !.count = count]]
  BY DEF Proceed
<1> DEFINE new == [command[i] EXCEPT !.at = at, !.from = from, !.count = count]
<1>2. /\ new.at = at /\ new.from = from /\ new.count = count
      /\ new.kind = command[i].kind /\ new.job = command[i].job
  BY DEF Command
<1> HIDE DEF new
<1>3. command'[i] = new /\ \A k \in Slots \ {i} : command'[k] = command[k]
  BY <1>1 DEF TypeOK, new
<1>4. QED
  BY <1>2, <1>3

(* The other jobs, when the command in slot i goes on or ends.                   *)
LEMMA OthersCalm ==
  ASSUME TypeOK, NEW i \in Slots, command[i] \in Command,
         \/ command' = [command EXCEPT ![i] = Free]
         \/ \E at \in Busy, from \in {"pending", "running"}, count \in Nat : Proceed(i, at, from, count),
         NEW j \in Jobs, j # command[i].job, Calm(j), copy'[j] = copy[j], grants'[j] = grants[j]
  PROVE  Calm(j)'
<1>2. command'[i].job # j /\ \A k \in Slots \ {i} : command'[k] = command[k]
  <2>1. CASE command' = [command EXCEPT ![i] = Free]
    BY <2>1, EndTyped, FreeIsNoCommand
  <2>2. CASE \E at \in Busy, from \in {"pending", "running"}, count \in Nat : Proceed(i, at, from, count)
    <3>1. PICK at \in Busy, from \in {"pending", "running"}, count \in Nat : Proceed(i, at, from, count)
      BY <2>2
    <3>2. QED
      BY <3>1, ProceedFields
  <2>3. QED
    BY <2>1, <2>2
<1>3. FewerCommands(j)
  BY <1>2 DEF FewerCommands, SameCommand
<1>4. QED
  BY <1>3, CalmKept

(* The command's job, when the command ends and the files stay.                  *)
LEMMA EndCalm ==
  ASSUME TypeOK, NEW i \in Slots, command' = [command EXCEPT ![i] = Free],
         NEW j \in Jobs, Calm(j), copy'[j] = copy[j], grants'[j] = grants[j]
  PROVE  Calm(j)'
<1>1. /\ command'[i] = Free /\ \A k \in Slots \ {i} : command'[k] = command[k]
  BY EndTyped
<1>2. FewerCommands(j)
  BY <1>1, FreeIsNoCommand DEF FewerCommands, SameCommand
<1>3. QED
  BY <1>2, CalmKept

(* The command's job, when the command goes on: the files are as the command     *)
(* takes them to be, and there is no other command.                              *)
LEMMA ProceedCalm ==
  ASSUME TypeOK, NEW i \in Slots, NEW at \in Busy, NEW from \in {"pending", "running"},
         NEW count \in Nat, command[i] \in Command, Proceed(i, at, from, count),
         NEW j \in Jobs, j = command[i].job, OneHandler(j), SoleFile(j)',
         GrantsFit(j)', Fits(i)'
  PROVE  Calm(j)'
<1>2. command'[i].job = j /\ \A k \in Slots \ {i} : command'[k] = command[k]
  BY ProceedFields
<1>4. \A k \in Slots : command'[k].job = j => k = i
  BY <1>2 DEF OneHandler
<1>5. OneHandler(j)'
  BY <1>4 DEF OneHandler
<1>6. QED
  BY <1>4, <1>5 DEF Calm

LEMMA GettingCalm ==
  ASSUME TypeOK, NEW i \in Slots, GetPending(i) \/ GetRunning(i), NEW j \in Jobs, Calm(j)
  PROVE  Calm(j)'
<1> DEFINE x == command[i].job
<1>1. command[i] \in Command /\ x \in Jobs
  BY BusyIsCommand DEF GetPending, GetRunning
<1>2. UNCHANGED <<copy, grants>>
  BY DEF GetPending, GetRunning, historyVars
<1>3. CASE Decline(i)
  BY <1>2, <1>3, EndCalm DEF Decline
<1>4. ASSUME NEW at \in Busy, NEW from \in {"pending", "running"}, NEW count \in Nat,
             Proceed(i, at, from, count),
             \/ at = "getRunning"
             \/ at = "unlink" /\ Readable(x, from) /\ copy[x][from] = count
             \/ at = "open" /\ Readable(x, "running") /\ copy[x]["running"] = count
      PROVE  Calm(j)'
  <2>1. CASE j # x
    BY <1>1, <1>2, <1>4, <2>1, OthersCalm
  <2>2. CASE j = x
    <3>1. /\ command'[i].at = at /\ command'[i].from = from /\ command'[i].count = count
          /\ command'[i].kind = command[i].kind /\ command'[i].job = x
          /\ \A k \in Slots \ {i} : command'[k] = command[k]
      BY <1>1, <1>4, ProceedFields
    <3>2. Fits(i)'
      BY <1>2, <1>4, <3>1 DEF Fits, Readable
    <3>3. OneHandler(j) /\ SoleFile(j)'
      BY <1>2 DEF Calm, SoleFile
    <3>4. GrantsFit(j)'
      BY <1>2, <1>4, <3>1 DEF Calm, GrantsFit, Readable
    <3>5. QED
      BY <1>1, <1>4, <2>2, <3>2, <3>3, <3>4, ProceedCalm
  <2>3. QED
    BY <2>1, <2>2
<1>5. ASSUME NEW s \in {"pending", "running"}, Readable(x, s)
      PROVE  copy[x][s] \in Nat
  BY <1>1, <1>5 DEF TypeOK, Status, Readable, Absent, Torn
<1>6. CASE GetPending(i)
  BY <1>3, <1>4, <1>5, <1>6 DEF GetPending, Busy
<1>7. CASE GetRunning(i)
  BY <1>3, <1>4, <1>5, <1>7 DEF GetRunning, Busy
<1>8. QED
  BY <1>6, <1>7

LEMMA UnlinkCalm ==
  ASSUME TypeOK, Accounted, NEW i \in Slots, Unlink(i), NEW j \in Jobs, Calm(j)
  PROVE  Calm(j)'
<1> DEFINE x == command[i].job
           s == command[i].from
<1>1. command[i] \in Command /\ x \in Jobs
  BY BusyIsCommand DEF Unlink
<1>2. s \in {"pending", "running"} /\ s \in Status /\ command[i].count \in Nat
  BY <1>1 DEF Command, Status
<1>3. Proceed(i, "write", s, command[i].count) /\ "write" \in Busy
  BY DEF Unlink, Busy
<1>4. grants' = grants /\ copy' = [copy EXCEPT ![x][s] = Absent]
  BY DEF Unlink, historyVars
<1>5. CASE j # x
  <2>1. copy'[j] = copy[j]
    BY <1>4, <1>5 DEF TypeOK
  <2>2. QED
    BY <1>1, <1>2, <1>3, <1>4, <1>5, <2>1, OthersCalm
<1>6. CASE j = x
  <2>1. /\ command'[i].at = "write" /\ command'[i].from = s /\ command'[i].count = command[i].count
        /\ command'[i].kind = command[i].kind /\ command'[i].job = x
        /\ \A k \in Slots \ {i} : command'[k] = command[k]
    BY <1>1, <1>2, <1>3, ProceedFields
  <2>2. Readable(x, s) /\ copy[x][s] = command[i].count
    BY <1>6 DEF Calm, Fits, Unlink
  <2>3. NoFile(j)'
    <3>1. \A u \in Status \ {s} : copy[j][u] = Absent
      BY <1>2, <1>6, <2>2 DEF Calm, SoleFile, Readable, Absent
    <3>2. \A u \in Status : copy'[j][u] = IF u = s THEN Absent ELSE copy[j][u]
      BY <1>1, <1>4, <1>6 DEF TypeOK
    <3>3. QED
      BY <3>1, <3>2 DEF NoFile
  <2>4. OneHandler(j) /\ SoleFile(j)'
    BY <1>6, <2>3 DEF Calm, SoleFile, NoFile
  <2>5. command[i].kind # "progress"
    BY DEF Accounted, KindsFit, Unlink
  <2>6. Fits(i)'
    BY <1>6, <2>1, <2>3, <2>5 DEF Fits, NoFile
  <2>7. \A k \in Slots : command'[k].job = j => k = i
    BY <1>6, <2>1, <2>4 DEF OneHandler
  <2>8. GrantsFit(j)'
    <3>1. /\ s = "pending" => grants[j] <= command[i].count
          /\ s = "running" => grants[j] <= command[i].count + 1
          /\ grants[j] <= MaxRetries[j] + 1 /\ grants[j] \in Nat
      BY <1>6, <2>2 DEF Calm, GrantsFit, TypeOK
    <3>2. ~Readable(j, "pending")' /\ ~Readable(j, "running")'
      BY <1>6, <2>3 DEF NoFile, Readable, Absent, Status
    <3>3. QED
      BY <1>2, <1>4, <2>1, <2>7, <3>1, <3>2 DEF GrantsFit
  <2>9. QED
    BY <1>1, <1>2, <1>3, <1>6, <2>4, <2>6, <2>8, ProceedCalm
<1>7. QED
  BY <1>5, <1>6

(* The number of grants is right for the copy that is written.                   *)
LEMMA WriteCalm ==
  ASSUME TypeOK, Accounted, MovesFit, NEW i \in Slots, Write(i), NEW j \in Jobs \ raced, Calm(j)
  PROVE  Calm(j)'
<1> DEFINE x == command[i].job
           c == command[i].count
           d == Destination(i)
           n == NewCount(i)
<1>1. command[i] \in Command /\ x \in Jobs /\ c \in Nat /\ d \in Status /\ n \in Nat
  BY BusyIsCommand, DestinationTyped DEF Write, Command
<1>2. /\ copy' = [copy EXCEPT ![x][d] = n] /\ command' = [command EXCEPT ![i] = Free]
      /\ grants' = IF command[i].kind = "claim" /\ x \notin raced THEN [grants EXCEPT ![x] = @ + 1] ELSE grants
  BY DEF Write
<1>3. command'[i] = Free /\ \A k \in Slots \ {i} : command'[k] = command[k]
  BY <1>2, EndTyped
<1> HIDE DEF d, n
<1>4. CASE j # x
  <2>1. copy'[j] = copy[j] /\ grants'[j] = grants[j]
    BY <1>2, <1>4 DEF TypeOK
  <2>2. QED
    BY <1>2, <2>1, EndCalm
<1>5. CASE j = x
  <2>1. NoFile(j)
    BY <1>5 DEF Calm, Fits, Write
  <2>2. \A u \in Status : copy'[j][u] = IF u = d THEN n ELSE Absent
    BY <1>1, <1>2, <1>5, <2>1 DEF TypeOK, NoFile
  <2>3. \A k \in Slots : command'[k].job # j
    BY <1>3, <1>5, FreeIsNoCommand DEF Calm, OneHandler
  <2>4. OneHandler(j)' /\ SoleFile(j)'
    BY <2>2, <2>3 DEF OneHandler, SoleFile
  <2>5. /\ command[i].from = "pending" => grants[j] <= c
        /\ grants[j] <= c + 1 /\ grants[j] <= MaxRetries[j] + 1
        /\ grants[j] \in Nat /\ c <= MaxRetries[j] /\ MaxRetries[j] \in Nat
    BY <1>1, <1>5, FreeIsNoCommand, RetriesAssumption
       DEF Calm, GrantsFit, Write, TypeOK, Accounted, CountsBounded
  <2>6. GrantsFit(j)'
    <3>1. CASE command[i].kind = "claim"
      <4>1. command[i].from = "pending" /\ d = "running" /\ n = c
        BY <3>1 DEF MovesFit, Write, d, n, Destination, NewCount, Retries
      <4>2. grants'[j] = grants[j] + 1
        BY <1>2, <1>5, <3>1 DEF TypeOK
      <4>3. copy'[j]["pending"] = Absent /\ copy'[j]["running"] = c
        BY <2>2, <4>1 DEF Status
      <4>4. QED
        BY <1>1, <2>3, <2>5, <4>1, <4>2, <4>3 DEF GrantsFit, Readable, Absent
    <3>2. CASE command[i].kind # "claim"
      <4>1. d # "running" /\ (d = "pending" => n = c + 1)
        BY <3>2 DEF d, n, Destination, NewCount
      <4>2. grants'[j] = grants[j]
        BY <1>2, <3>2
      <4>3. /\ copy'[j]["running"] = Absent
            /\ copy'[j]["pending"] = Absent \/ copy'[j]["pending"] = c + 1
        BY <2>2, <4>1 DEF Status
      <4>4. QED
        BY <1>1, <2>3, <2>5, <4>2, <4>3 DEF GrantsFit, Readable, Absent
    <3>3. QED
      BY <3>1, <3>2
  <2>7. QED
    BY <2>3, <2>4, <2>6 DEF Calm
<1>6. QED
  BY <1>4, <1>5

LEMMA OpenCalm ==
  ASSUME TypeOK, Accounted, NEW i \in Slots, OpenProgress(i), NEW j \in Jobs, Calm(j)
  PROVE  Calm(j)'
<1> DEFINE x == command[i].job
           c == command[i].count
<1>1. command[i] \in Command /\ x \in Jobs /\ c \in Nat /\ "running" \in Status
  BY BusyIsCommand DEF OpenProgress, Command, Status
<1>2. Proceed(i, "write", "running", c) /\ "write" \in Busy
  BY DEF OpenProgress, Busy
<1>3. grants' = grants /\ copy' = [copy EXCEPT ![x]["running"] = Torn]
  BY DEF OpenProgress, historyVars
<1>4. CASE j # x
  <2>1. copy'[j] = copy[j]
    BY <1>3, <1>4 DEF TypeOK
  <2>2. QED
    BY <1>1, <1>2, <1>3, <1>4, <2>1, OthersCalm
<1>5. CASE j = x
  <2>1. /\ command'[i].at = "write" /\ command'[i].from = "running" /\ command'[i].count = c
        /\ command'[i].kind = command[i].kind /\ command'[i].job = x
        /\ \A k \in Slots \ {i} : command'[k] = command[k]
    BY <1>1, <1>2, ProceedFields
  <2>2. Readable(j, "running") /\ copy[j]["running"] = c /\ command[i].kind = "progress"
    BY <1>5 DEF Calm, Fits, OpenProgress, Accounted, KindsFit
  <2>3. \A u \in Status : copy'[j][u] = IF u = "running" THEN Torn ELSE copy[j][u]
    BY <1>1, <1>3, <1>5 DEF TypeOK
  <2>4. \A u \in Status \ {"running"} : copy[j][u] = Absent
    BY <1>1, <2>2 DEF Calm, SoleFile, Readable, Absent
  <2>5. OneHandler(j) /\ SoleFile(j)'
    BY <2>3, <2>4 DEF Calm, SoleFile
  <2>6. Fits(i)'
    BY <1>1, <1>5, <2>1, <2>2, <2>3 DEF Fits
  <2>7. \A k \in Slots : command'[k].job = j => k = i
    BY <1>5, <2>1, <2>5 DEF OneHandler
  <2>8. GrantsFit(j)'
    <3>1. grants[j] <= c + 1 /\ grants[j] <= MaxRetries[j] + 1
      BY <2>2 DEF Calm, GrantsFit
    <3>2. ~Readable(j, "pending")' /\ ~Readable(j, "running")'
      BY <2>3, <2>4 DEF Readable, Absent, Torn, Status
    <3>3. QED
      BY <1>3, <2>1, <2>7, <3>1, <3>2 DEF GrantsFit
  <2>9. QED
    BY <1>1, <1>2, <1>5, <2>5, <2>6, <2>8, ProceedCalm
<1>6. QED
  BY <1>4, <1>5

LEMMA WriteProgressCalm ==
  ASSUME TypeOK, NEW i \in Slots, WriteProgress(i), NEW j \in Jobs, Calm(j)
  PROVE  Calm(j)'
<1> DEFINE x == command[i].job
           c == command[i].count
<1>1. command[i] \in Command /\ x \in Jobs /\ c \in Nat /\ "running" \in Status
  BY BusyIsCommand DEF WriteProgress, Command, Status
<1>2. grants' = grants /\ command' = [command EXCEPT ![i] = Free]
  BY DEF WriteProgress, historyVars
<1>3. command'[i] = Free /\ \A k \in Slots \ {i} : command'[k] = command[k]
  BY <1>2, EndTyped
<1>4. CASE copy'[j] = copy[j]
  BY <1>2, <1>4, EndCalm
<1>5. CASE j = x /\ copy' = [copy EXCEPT ![x]["running"] = c]
  <2>1. copy[j]["running"] = Torn /\ grants[j] <= c + 1 /\ grants[j] <= MaxRetries[j] + 1
    BY <1>5 DEF Calm, Fits, GrantsFit, WriteProgress
  <2>2. \A u \in Status : copy'[j][u] = IF u = "running" THEN c ELSE copy[j][u]
    BY <1>1, <1>5 DEF TypeOK
  <2>3. \A u \in Status \ {"running"} : copy[j][u] = Absent
    BY <1>1, <2>1 DEF Calm, SoleFile, Absent, Torn
  <2>4. \A k \in Slots : command'[k].job # j
    BY <1>3, <1>5, FreeIsNoCommand DEF Calm, OneHandler
  <2>5. OneHandler(j)' /\ SoleFile(j)'
    BY <2>2, <2>3, <2>4 DEF OneHandler, SoleFile
  <2>6. ~Readable(j, "pending")' /\ copy'[j]["running"] = c
    BY <1>1, <2>2, <2>3 DEF Readable, Absent, Status
  <2>7. GrantsFit(j)'
    BY <1>2, <2>1, <2>4, <2>6 DEF GrantsFit
  <2>8. QED
    BY <2>4, <2>5, <2>7 DEF Calm
<1>6. copy'[j] = copy[j] \/ (j = x /\ copy' = [copy EXCEPT ![x]["running"] = c])
  BY <1>1 DEF WriteProgress, TypeOK
<1>7. QED
  BY <1>4, <1>5, <1>6

LEMMA HandlerCalm ==
  ASSUME TypeOK, Accounted, MovesFit, NEW i \in Slots, HandlerStep(i) \/ WriteFails(i),
         NEW j \in Jobs \ raced, Calm(j)
  PROVE  Calm(j)'
<1>1. CASE WriteFails(i)
  BY <1>1, EndCalm DEF WriteFails
<1>2. QED
  BY <1>1, GettingCalm, UnlinkCalm, WriteCalm, OpenCalm, WriteProgressCalm DEF HandlerStep

-------------------------------------------------------------------------------
(* The other steps.                                                              *)

LEMMA CreateCalm ==
  ASSUME TypeOK, Untouched, NEW x \in Jobs, CreateJob(x), NEW j \in Jobs, Calm(j)
  PROVE  Calm(j)'
<1>1. /\ copy' = [copy EXCEPT ![x]["pending"] = 0] /\ phase[x] = "new"
      /\ command' = command /\ grants' = grants
  BY DEF CreateJob
<1>2. FewerCommands(j)
  BY <1>1 DEF FewerCommands, SameCommand
<1>3. CASE j # x
  BY <1>1, <1>2, <1>3, CalmKept DEF TypeOK
<1>4. CASE j = x
  <2>1. NoFile(j) /\ grants[j] = 0 /\ \A k \in Slots : command'[k].job # j
    BY <1>1, <1>4 DEF Untouched
  <2>2. "pending" \in Status /\ "running" \in Status
    BY DEF Status
  <2>3. \A u \in Status : copy'[j][u] = IF u = "pending" THEN 0 ELSE Absent
    BY <1>1, <1>4, <2>1, <2>2 DEF TypeOK, NoFile
  <2>4. OneHandler(j)' /\ SoleFile(j)'
    BY <2>1, <2>3 DEF OneHandler, SoleFile
  <2>5. copy'[j]["pending"] = 0 /\ copy'[j]["running"] = Absent
    BY <2>2, <2>3
  <2>6. MaxRetries[j] \in Nat
    BY RetriesAssumption
  <2>7. GrantsFit(j)'
    BY <1>1, <2>1, <2>5, <2>6 DEF GrantsFit, Readable, Absent
  <2>8. QED
    BY <2>1, <2>4, <2>7 DEF Calm
<1>5. QED
  BY <1>3, <1>4

LEMMA PruneCalm ==
  ASSUME TypeOK, NEW x \in Jobs, NEW s \in Terminal, Prune(x, s), NEW j \in Jobs, Calm(j)
  PROVE  Calm(j)'
<1>1. /\ copy' = [copy EXCEPT ![x][s] = Absent] /\ Readable(x, s) /\ Handling(x) = {}
      /\ command' = command /\ grants' = grants
  BY DEF Prune
<1>2. FewerCommands(j)
  BY <1>1 DEF FewerCommands, SameCommand
<1>3. CASE j # x
  BY <1>1, <1>2, <1>3, CalmKept DEF TypeOK
<1>4. CASE j = x
  <2>1. \A k \in Slots : command'[k].job # j
    BY <1>1, <1>4 DEF Handling
  <2>2. s \in Status /\ s # "pending" /\ s # "running"
    BY DEF Status, Terminal
  <2>3. \A u \in Status : copy'[j][u] = IF u = s THEN Absent ELSE copy[j][u]
    BY <1>1, <1>4, <2>2 DEF TypeOK
  <2>4. OneHandler(j)' /\ SoleFile(j)'
    BY <2>1, <2>3 DEF OneHandler, SoleFile, Calm
  <2>5. copy'[j]["pending"] = copy[j]["pending"] /\ copy'[j]["running"] = copy[j]["running"]
    BY <2>2, <2>3 DEF Status
  <2>6. GrantsFit(j)'
    BY <1>1, <2>1, <2>5 DEF GrantsFit, Readable, Calm
  <2>7. QED
    BY <2>1, <2>4, <2>6 DEF Calm
<1>5. QED
  BY <1>3, <1>4

(* Steps that change no files, and no commands but by dropping them or by giving *)
(* up a claim.                                                                   *)
LEMMA QuietCalm ==
  ASSUME TypeOK, NEW j \in Jobs, Calm(j), UNCHANGED <<copy, grants>>,
         \/ UNCHANGED command \/ \A i \in Slots : command'[i] = Free
         \/ \E w \in Workers : command' = Abandon(w)
  PROVE  Calm(j)'
<1>1. CASE UNCHANGED command
  BY <1>1, CalmKept DEF FewerCommands, SameCommand
<1>2. CASE \A i \in Slots : command'[i] = Free
  BY <1>2, CalmKept, FreeIsNoCommand DEF FewerCommands
<1>3. CASE \E w \in Workers : command' = Abandon(w)
  <2>1. FewerCommands(j)
    BY <1>3, AbandonTyped DEF FewerCommands, SameCommand
  <2>2. QED
    BY <2>1, CalmKept
<1>4. QED
  BY <1>1, <1>2, <1>3

LEMMA WorkerCalm ==
  ASSUME TypeOK, NEW w \in Workers, WorkerStep(w), NEW j \in Jobs \ raced', Calm(j)
  PROVE  Calm(j)'
<1>1. CASE ReceiveReply(w) \/ FinishAcknowledged(w) \/ JobThrows(w)
  BY <1>1, QuietCalm DEF ReceiveReply, FinishAcknowledged, JobThrows, queueVars, historyVars
<1>2. CASE ClaimFails(w)
  BY <1>2, QuietCalm DEF ClaimFails, historyVars
<1>3. CASE Finish(w)
  <2>1. worker[w].job \in Jobs /\ "complete" \in Kinds
    BY <1>3, BusyWorkerHasJob DEF Finish, Kinds
  <2>2. /\ (\E i \in Slots : Start(i, "complete", worker[w].job, NoWorker)) \/ UNCHANGED <<command, raced>>
        /\ UNCHANGED <<copy, grants>>
    BY <1>3 DEF Finish
  <2>3. QED
    BY <2>1, <2>2, PostCalm
<1>4. QED
  BY <1>1, <1>2, <1>3 DEF WorkerStep

(* A race is remembered.                                                         *)
LEMMA RacedGrows ==
  ASSUME [Next]_vars
  PROVE  raced \subseteq raced'
<1>1. CASE UNCHANGED raced
  BY <1>1
<1>2. ASSUME NEW i \in Slots, NEW kind, NEW j, NEW w, Start(i, kind, j, w)
      PROVE  raced \subseteq raced'
  BY <1>2 DEF Start
<1>3. ASSUME NEW i \in Slots, HandlerStep(i) \/ WriteFails(i)
      PROVE  UNCHANGED raced
  BY <1>3 DEF HandlerStep, GetPending, GetRunning, Unlink, Write, OpenProgress, WriteProgress,
              WriteFails, historyVars
<1>4. ASSUME NEW j \in Jobs, CreateJob(j) \/ GoQuiet(j) \/ LoseFailure(j)
      PROVE  UNCHANGED raced
  BY <1>4 DEF CreateJob, GoQuiet, LoseFailure, historyVars
<1>5. ASSUME NEW i \in Slots, NEW j \in Jobs,
             RecoverStale(i, j) \/ CancelNext(i, j) \/ DeliverFailure(i, j)
      PROVE  raced \subseteq raced'
  BY <1>2, <1>5 DEF RecoverStale, CancelNext, DeliverFailure
<1>6. ASSUME NEW j \in Jobs, NEW s \in Terminal, Prune(j, s)
      PROVE  UNCHANGED raced
  BY <1>6 DEF Prune
<1>7. ASSUME NEW w \in Workers, WorkerStep(w)
      PROVE  raced \subseteq raced'
  BY <1>1, <1>2, <1>7 DEF WorkerStep, ReceiveReply, ClaimFails, Finish, FinishAcknowledged,
                          JobThrows, historyVars
<1>8. ASSUME NEW w \in Workers, NEW j \in Jobs, HearQueued(w, j)
      PROVE  raced \subseteq raced'
  BY <1>1, <1>2, <1>8 DEF HearQueued
<1>9. ASSUME NEW i \in Slots, NEW w \in Workers, ReportProgress(i, w)
      PROVE  raced \subseteq raced'
  BY <1>2, <1>9 DEF ReportProgress
<1>10. CancelRequested \/ Restart \/ UNCHANGED vars => UNCHANGED raced
  BY DEF CancelRequested, Restart, vars, historyVars
<1>11. QED
  BY <1>1, <1>3, <1>4, <1>5, <1>6, <1>7, <1>8, <1>9, <1>10 DEF Next

(* Only a job that a command is handling is raced by a step.                     *)
LEMMA OnlyHandledRace ==
  ASSUME TypeOK, [Next]_vars, NEW x \in Jobs, x \notin raced, x \in raced'
  PROVE  Handling(x) # {}
<1>1. ASSUME NEW i \in Slots, NEW kind, NEW j, NEW w, Start(i, kind, j, w)
      PROVE  Handling(x) # {}
  BY <1>1 DEF Start
<1>2. ASSUME NEW i \in Slots, HandlerStep(i) \/ WriteFails(i)
      PROVE  FALSE
  BY <1>2 DEF HandlerStep, GetPending, GetRunning, Unlink, Write, OpenProgress, WriteProgress,
              WriteFails, historyVars
<1>3. ASSUME NEW j \in Jobs, \/ CreateJob(j) \/ GoQuiet(j) \/ LoseFailure(j)
                             \/ \E s \in Terminal : Prune(j, s)
      PROVE  FALSE
  BY <1>3 DEF CreateJob, GoQuiet, LoseFailure, Prune, historyVars
<1>4. ASSUME NEW i \in Slots, NEW j \in Jobs,
             RecoverStale(i, j) \/ CancelNext(i, j) \/ DeliverFailure(i, j)
      PROVE  Handling(x) # {}
  BY <1>1, <1>4 DEF RecoverStale, CancelNext, DeliverFailure
<1>5. ASSUME NEW w \in Workers, WorkerStep(w)
      PROVE  Handling(x) # {}
  BY <1>1, <1>5 DEF WorkerStep, ReceiveReply, ClaimFails, Finish, FinishAcknowledged,
                    JobThrows, historyVars
<1>6. ASSUME NEW w \in Workers, NEW j \in Jobs, HearQueued(w, j)
      PROVE  Handling(x) # {}
  BY <1>1, <1>6 DEF HearQueued
<1>7. ASSUME NEW i \in Slots, NEW w \in Workers, ReportProgress(i, w)
      PROVE  Handling(x) # {}
  BY <1>1, <1>7 DEF ReportProgress
<1>8. ~ (CancelRequested \/ Restart \/ UNCHANGED vars)
  BY DEF CancelRequested, Restart, vars, historyVars
<1>9. QED
  BY <1>2, <1>3, <1>4, <1>5, <1>6, <1>7, <1>8 DEF Next

-------------------------------------------------------------------------------
(* Settled is inductive.                                                         *)

(* Commands that were only entered, looked on, ended or changed hands.           *)
LEMMA MovesKept ==
  ASSUME MovesFit,
         \A k \in Slots : \/ command'[k].at \in {"done", "getPending", "getRunning"}
                          \/ SameCommand(command[k], command'[k])
  PROVE  MovesFit'
BY DEF MovesFit, SameCommand

LEMMA PostMoves ==
  ASSUME TypeOK, MovesFit, NEW kind \in Kinds, NEW x \in Jobs, NEW w \in Workers \cup {NoWorker},
         (\E i \in Slots : Start(i, kind, x, w)) \/ UNCHANGED <<command, raced>>
  PROVE  MovesFit'
<1>1. CASE UNCHANGED <<command, raced>>
  BY <1>1, MovesKept DEF SameCommand
<1>2. CASE \E i \in Slots : Start(i, kind, x, w)
  <2>1. PICK i \in Slots : Start(i, kind, x, w)
    BY <1>2
  <2>2. /\ command'[i] = [kind |-> kind, job |-> x, worker |-> w, at |-> "getPending",
                          from |-> "pending", count |-> 0]
        /\ \A k \in Slots \ {i} : command'[k] = command[k]
    BY <2>1, StartTyped
  <2>3. command'[i].at = "getPending"
    BY <2>2
  <2>4. QED
    BY <2>2, <2>3, MovesKept DEF SameCommand
<1>3. QED
  BY <1>1, <1>2

LEMMA HandlerMoves ==
  ASSUME TypeOK, MovesFit, KindsFit, NEW i \in Slots, HandlerStep(i) \/ WriteFails(i)
  PROVE  MovesFit'
<1>0. command[i] \in Command /\ command[i].job \in Jobs
  BY BusyIsCommand DEF HandlerStep, GetPending, GetRunning, Unlink, Write, OpenProgress,
                       WriteProgress, WriteFails
<1>1. CASE command' = [command EXCEPT ![i] = Free]
  <2>1. command'[i].at = "done" /\ \A k \in Slots \ {i} : command'[k] = command[k]
    BY <1>1, EndTyped DEF Free
  <2>2. QED
    BY <2>1, MovesKept DEF SameCommand
<1>2. ASSUME NEW at \in Busy, NEW from \in {"pending", "running"}, NEW count \in Nat,
             Proceed(i, at, from, count),
             at \in {"unlink", "write"} =>
               /\ command[i].kind = "claim" => from = "pending"
               /\ command[i].kind \in {"complete", "fail"} => from = "running",
             at \in {"open", "write"} /\ command[i].kind = "progress" => from = "running"
      PROVE  MovesFit'
  <2>1. /\ command'[i].at = at /\ command'[i].from = from /\ command'[i].kind = command[i].kind
        /\ \A k \in Slots \ {i} : command'[k] = command[k]
    BY <1>0, <1>2, ProceedFields
  <2>2. QED
    BY <1>2, <2>1 DEF MovesFit
<1>3. ASSUME NEW s \in {"pending", "running"}, Readable(command[i].job, s)
      PROVE  copy[command[i].job][s] \in Nat
  BY <1>0, <1>3 DEF TypeOK, Status, Readable, Absent, Torn
<1>4. CASE GetPending(i)
  BY <1>1, <1>2, <1>3, <1>4 DEF GetPending, Decline, Busy
<1>5. CASE GetRunning(i)
  BY <1>1, <1>2, <1>3, <1>5 DEF GetRunning, Decline, Busy
<1>6. CASE Unlink(i)
  <2>1. /\ Proceed(i, "write", command[i].from, command[i].count) /\ command[i].at = "unlink"
        /\ command[i].from \in {"pending", "running"} /\ command[i].count \in Nat /\ "write" \in Busy
    BY <1>0, <1>6 DEF Unlink, Command, Busy
  <2>2. QED
    BY <1>2, <2>1 DEF MovesFit, KindsFit
<1>7. CASE OpenProgress(i)
  <2>1. /\ Proceed(i, "write", "running", command[i].count) /\ command[i].at = "open"
        /\ command[i].count \in Nat /\ "write" \in Busy
    BY <1>0, <1>7 DEF OpenProgress, Command, Busy
  <2>2. QED
    BY <1>2, <2>1 DEF KindsFit
<1>8. CASE Write(i) \/ WriteProgress(i) \/ WriteFails(i)
  BY <1>1, <1>8 DEF Write, WriteProgress, WriteFails
<1>9. QED
  BY <1>4, <1>5, <1>6, <1>7, <1>8 DEF HandlerStep

-------------------------------------------------------------------------------
(* Nothing refers to a job before it is created.                                 *)

Unknown(j) ==
  /\ NoFile(j) /\ grants[j] = 0 /\ j \notin doomed \cup failures
  /\ \A i \in Slots : command[i].job # j
  /\ \A w \in Workers : worker[w].job # j

LEMMA UntouchedMeans == Untouched <=> \A j \in Jobs : phase[j] = "new" => Unknown(j)
  BY DEF Untouched, Unknown

(* Only jobs that are known are heard of, claimed, worked on or cancelled.       *)
LEMMA KnownJobs ==
  ASSUME Untouched, NEW x \in Jobs
  PROVE  /\ \A s \in Status : copy[x][s] # Absent => phase[x] # "new"
         /\ x \in doomed \cup failures => phase[x] # "new"
         /\ \A i \in Slots : command[i].job = x => phase[x] # "new"
         /\ \A w \in Workers : worker[w].job = x => phase[x] # "new"
  BY DEF Untouched, NoFile

(* A post about a known job.                                                     *)
LEMMA PostUnknown ==
  ASSUME TypeOK, NEW kind \in Kinds, NEW x \in Jobs, NEW w \in Workers \cup {NoWorker},
         (\E i \in Slots : Start(i, kind, x, w)) \/ UNCHANGED <<command, raced>>,
         NEW j \in Jobs, j # x, \A i \in Slots : command[i].job # j
  PROVE  \A i \in Slots : command'[i].job # j
<1>1. CASE UNCHANGED <<command, raced>>
  BY <1>1
<1>2. CASE \E i \in Slots : Start(i, kind, x, w)
  <2>1. PICK i \in Slots : Start(i, kind, x, w)
    BY <1>2
  <2>2. /\ command'[i] = [kind |-> kind, job |-> x, worker |-> w, at |-> "getPending",
                          from |-> "pending", count |-> 0]
        /\ \A k \in Slots \ {i} : command'[k] = command[k]
    BY <2>1, StartTyped
  <2>3. command'[i].job = x
    BY <2>2
  <2>4. QED
    BY <2>2, <2>3
<1>3. QED
  BY <1>1, <1>2

LEMMA HandlerUnknown ==
  ASSUME TypeOK, NEW i \in Slots, HandlerStep(i) \/ WriteFails(i),
         NEW j \in Jobs, Unknown(j)
  PROVE  Unknown(j)'
<1> DEFINE x == command[i].job
<1>0. command[i] \in Command /\ x \in Jobs /\ x # j
  BY BusyIsCommand DEF HandlerStep, GetPending, GetRunning, Unlink, Write, OpenProgress,
                       WriteProgress, WriteFails, Unknown
<1>1. \A k \in Slots : command'[k].job # j
  <2>1. CASE command' = [command EXCEPT ![i] = Free]
    BY <2>1, EndTyped, FreeIsNoCommand DEF Unknown
  <2>2. ASSUME NEW at, NEW from, NEW count, Proceed(i, at, from, count)
        PROVE  \A k \in Slots : command'[k].job # j
    <3>1. command' = [command EXCEPT ![i] = [command[i] EXCEPT !.at = at, !.from = from, !.count = count]]
      BY <2>2 DEF Proceed
    <3> DEFINE new == [command[i] EXCEPT !.at = at, !.from = from, !.count = count]
    <3>2. new.job = x
      BY <1>0 DEF Command
    <3> HIDE DEF new
    <3>3. command'[i] = new /\ \A k \in Slots \ {i} : command'[k] = command[k]
      BY <3>1 DEF TypeOK, new
    <3>4. QED
      BY <1>0, <3>2, <3>3 DEF Unknown
  <2>3. QED
    BY <2>1, <2>2 DEF HandlerStep, GetPending, GetRunning, Unlink, Write, OpenProgress,
                      WriteProgress, WriteFails, Decline
<1>2. copy'[j] = copy[j]
  BY <1>0 DEF HandlerStep, GetPending, GetRunning, Unlink, Write, OpenProgress,
              WriteProgress, WriteFails, TypeOK
<1>3. grants'[j] = grants[j] /\ UNCHANGED <<doomed, failures>>
  BY <1>0 DEF HandlerStep, GetPending, GetRunning, Unlink, Write, OpenProgress, WriteProgress,
              WriteFails, TypeOK, historyVars, workerVars
<1>4. \A w \in Workers : worker'[w].job # j
  <2>1. CASE UNCHANGED worker
    BY <2>1 DEF Unknown
  <2>2. CASE Write(i)
    <3>1. \A w \in Workers : worker'[w] \in {worker[w], [at |-> "granted", job |-> x]}
      BY <2>2 DEF Write
    <3>2. QED
      BY <1>0, <3>1 DEF Unknown
  <2>3. QED
    BY <2>1, <2>2 DEF HandlerStep, GetPending, GetRunning, Unlink, OpenProgress,
                      WriteProgress, WriteFails, workerVars
<1>5. QED
  BY <1>1, <1>2, <1>3, <1>4 DEF Unknown, NoFile

LEMMA WorkerUnknown ==
  ASSUME TypeOK, NEW w \in Workers, WorkerStep(w), NEW j \in Jobs, Unknown(j)
  PROVE  Unknown(j)'
<1>1. worker[w].at # "idle" /\ worker[w].job \in Jobs /\ worker[w].job # j
  BY BusyWorkerHasJob DEF WorkerStep, ReceiveReply, ClaimFails, Finish, FinishAcknowledged,
                          JobThrows, Waiting, Holding, Unknown
<1>2. UNCHANGED <<copy, grants, doomed>> /\ j \notin failures'
  BY <1>1 DEF WorkerStep, ReceiveReply, ClaimFails, Finish, FinishAcknowledged, JobThrows,
              queueVars, historyVars, Unknown
<1>3. \A v \in Workers : worker'[v].job # j
  <2> DEFINE x == worker[w].job
  <2>1. \E at \in {"working", "finishing"} :
          \/ worker' = [worker EXCEPT ![w] = Idle]
          \/ worker' = [worker EXCEPT ![w] = [at |-> at, job |-> x]]
    BY DEF WorkerStep, ReceiveReply, ClaimFails, Finish, FinishAcknowledged, JobThrows, Become
  <2>2. Idle.job # j
    BY NamesAssumption DEF Idle
  <2>3. QED
    BY <1>1, <2>1, <2>2 DEF Unknown, TypeOK
<1>4. \A i \in Slots : command'[i].job # j
  <2>1. CASE UNCHANGED command
    BY <2>1 DEF Unknown
  <2>2. CASE command' = Abandon(w)
    BY <2>2, AbandonTyped DEF Unknown
  <2>3. CASE Finish(w)
    <3>1. (\E i \in Slots : Start(i, "complete", worker[w].job, NoWorker)) \/ UNCHANGED <<command, raced>>
      BY <2>3 DEF Finish
    <3>2. QED
      BY <1>1, <3>1, PostUnknown DEF Unknown, Kinds
  <2>4. QED
    BY <2>1, <2>2, <2>3 DEF WorkerStep, ReceiveReply, ClaimFails, FinishAcknowledged, JobThrows, queueVars
<1>5. QED
  BY <1>2, <1>3, <1>4 DEF Unknown, NoFile

(* Every step leaves the jobs that are still new unknown.                        *)
LEMMA StaysUntouched ==
  ASSUME TypeOK, Untouched, [Next]_vars
  PROVE  Untouched'
<1> SUFFICES ASSUME NEW j \in Jobs, phase'[j] = "new"
             PROVE  Unknown(j)'
  BY DEF Untouched, Unknown, NoFile
<1>1. ASSUME phase[j] = "new"
      PROVE  Unknown(j)
  BY <1>1, UntouchedMeans
<1>2. ASSUME NEW x \in Jobs, phase[j] = "new", phase[x] # "new", UNCHANGED <<copy, grants, worker>>,
             doomed' \subseteq doomed, failures' \subseteq failures,
             NEW kind \in Kinds, NEW w \in Workers \cup {NoWorker},
             (\E i \in Slots : Start(i, kind, x, w)) \/ UNCHANGED <<command, raced>>
      PROVE  Unknown(j)'
  <2>1. Unknown(j) /\ j # x
    BY <1>1, <1>2
  <2>2. \A i \in Slots : command'[i].job # j
    BY <1>2, <2>1, PostUnknown DEF Unknown
  <2>3. QED
    BY <1>2, <2>1, <2>2 DEF Unknown, NoFile
<1>3. ASSUME NEW i \in Slots, HandlerStep(i) \/ WriteFails(i)
      PROVE  Unknown(j)'
  <2>1. phase[j] = "new"
    BY <1>3 DEF HandlerStep, GetPending, GetRunning, Unlink, Write, OpenProgress, WriteProgress,
                WriteFails, historyVars, TypeOK
  <2>2. QED
    BY <1>1, <1>3, <2>1, HandlerUnknown
<1>4. ASSUME NEW x \in Jobs, CreateJob(x)
      PROVE  Unknown(j)'
  <2>1. phase[j] = "new" /\ copy'[j] = copy[j] /\ j # x
    BY <1>4 DEF CreateJob, TypeOK
  <2>2. UNCHANGED <<grants, doomed, failures, command, worker>>
    BY <1>4 DEF CreateJob, workerVars
  <2>3. QED
    BY <1>1, <2>1, <2>2 DEF Unknown, NoFile
<1>5. ASSUME NEW x \in Jobs, GoQuiet(x) \/ LoseFailure(x)
      PROVE  Unknown(j)'
  <2>1. /\ UNCHANGED <<copy, grants, doomed, command, worker, phase>> /\ failures' \subseteq failures
    BY <1>5 DEF GoQuiet, LoseFailure, queueVars, workerVars, historyVars
  <2>2. QED
    BY <1>1, <2>1 DEF Unknown, NoFile
<1>6. ASSUME NEW i \in Slots, NEW x \in Jobs,
             RecoverStale(i, x) \/ CancelNext(i, x) \/ DeliverFailure(i, x)
      PROVE  Unknown(j)'
  <2>1. \E kind \in Kinds : Start(i, kind, x, NoWorker)
    BY <1>6 DEF RecoverStale, CancelNext, DeliverFailure, Kinds
  <2>2. /\ UNCHANGED <<copy, grants, worker, phase>>
        /\ doomed' \subseteq doomed /\ failures' \subseteq failures
    BY <1>6 DEF RecoverStale, CancelNext, DeliverFailure, workerVars
  <2>3. phase[x] # "new"
    BY <1>6, KnownJobs DEF RecoverStale, CancelNext, DeliverFailure, Status
  <2>4. QED
    BY <1>2, <2>1, <2>2, <2>3
<1>7. ASSUME NEW x \in Jobs, NEW s \in Terminal, Prune(x, s)
      PROVE  Unknown(j)'
  <2>1. phase[j] = "new" /\ copy'[j] = copy[j]
    BY <1>7 DEF Prune, TypeOK
  <2>2. UNCHANGED <<grants, doomed, failures, command, worker>>
    BY <1>7 DEF Prune, workerVars
  <2>3. QED
    BY <1>1, <2>1, <2>2 DEF Unknown, NoFile
<1>8. ASSUME NEW w \in Workers, WorkerStep(w)
      PROVE  Unknown(j)'
  <2>1. UNCHANGED phase
    BY <1>8 DEF WorkerStep, ReceiveReply, ClaimFails, Finish, FinishAcknowledged, JobThrows, historyVars
  <2>2. QED
    BY <1>1, <1>8, <2>1, WorkerUnknown
<1>9. ASSUME NEW w \in Workers, NEW x \in Jobs, HearQueued(w, x)
      PROVE  Unknown(j)'
  <2>1. phase[x] # "new"
    BY <1>9, KnownJobs DEF HearQueued, Handling, Readable, Absent, Status
  <2>2. phase[j] = "new" /\ Unknown(j) /\ j # x /\ UNCHANGED <<copy, grants, doomed, failures>>
    BY <1>1, <1>9, <2>1 DEF HearQueued
  <2>3. (\E i \in Slots : Start(i, "claim", x, w)) \/ UNCHANGED <<command, raced>>
    BY <1>9 DEF HearQueued
  <2>4. \A i \in Slots : command'[i].job # j
    BY <2>2, <2>3, PostUnknown DEF Unknown, Kinds
  <2>5. \A v \in Workers : worker'[v].job # j
    <3>1. worker' = [worker EXCEPT ![w] = [at |-> "claiming", job |-> x]]
      BY <1>9 DEF HearQueued, Become
    <3>2. QED
      BY <2>2, <3>1 DEF Unknown, TypeOK
  <2>6. QED
    BY <2>2, <2>4, <2>5 DEF Unknown, NoFile
<1>10. ASSUME NEW i \in Slots, NEW w \in Workers, ReportProgress(i, w)
       PROVE  Unknown(j)'
  <2>1. /\ UNCHANGED <<copy, grants, worker, phase, doomed, failures>>
        /\ Start(i, "progress", worker[w].job, NoWorker)
        /\ worker[w].job \in Jobs
    BY <1>10, BusyWorkerHasJob DEF ReportProgress, workerVars
  <2>2. phase[worker[w].job] # "new"
    BY <2>1, KnownJobs
  <2>3. QED
    BY <1>2, <2>1, <2>2 DEF Kinds
<1>11. CASE CancelRequested
  <2>1. UNCHANGED <<copy, grants, failures, command, worker, phase>>
    BY <1>11 DEF CancelRequested, workerVars, historyVars
  <2>2. j \notin doomed'
    BY <1>1, <1>11, <2>1 DEF CancelRequested, Unknown, NoFile, Readable, Absent, Status
  <2>3. QED
    BY <1>1, <2>1, <2>2 DEF Unknown, NoFile
<1>12. CASE Restart
  <2>1. phase[j] = "new" /\ UNCHANGED <<copy, grants, failures, worker>> /\ doomed' = {}
    BY <1>12 DEF Restart, workerVars
  <2>2. \A i \in Slots : command'[i].job # j
    BY <1>12, FreeIsNoCommand DEF Restart
  <2>3. QED
    BY <1>1, <2>1, <2>2 DEF Unknown, NoFile
<1>13. CASE UNCHANGED vars
  BY <1>1, <1>13 DEF vars, queueVars, workerVars, historyVars, Unknown, NoFile
<1>14. QED
  BY <1>3, <1>4, <1>5, <1>6, <1>7, <1>8, <1>9, <1>10, <1>11, <1>12, <1>13 DEF Next

(* The steps keep the moves right.                                               *)
LEMMA MovesStayFit ==
  ASSUME TypeOK, MovesFit, KindsFit, [Next]_vars
  PROVE  MovesFit'
<1>1. CASE UNCHANGED command
  BY <1>1, MovesKept DEF SameCommand
<1>2. ASSUME NEW kind \in Kinds, NEW x \in Jobs, NEW w \in Workers \cup {NoWorker},
             (\E i \in Slots : Start(i, kind, x, w)) \/ UNCHANGED <<command, raced>>
      PROVE  MovesFit'
  BY <1>2, PostMoves
<1>3. ASSUME NEW i \in Slots, HandlerStep(i) \/ WriteFails(i)
      PROVE  MovesFit'
  BY <1>3, HandlerMoves
<1>4. ASSUME NEW j \in Jobs, \/ CreateJob(j) \/ GoQuiet(j) \/ LoseFailure(j)
                             \/ \E s \in Terminal : Prune(j, s)
      PROVE  UNCHANGED command
  BY <1>4 DEF CreateJob, GoQuiet, LoseFailure, Prune, queueVars
<1>5. ASSUME NEW i \in Slots, NEW j \in Jobs,
             RecoverStale(i, j) \/ CancelNext(i, j) \/ DeliverFailure(i, j)
      PROVE  MovesFit'
  <2>1. \E kind \in Kinds : Start(i, kind, j, NoWorker)
    BY <1>5 DEF RecoverStale, CancelNext, DeliverFailure, Kinds
  <2>2. QED
    BY <1>2, <2>1
<1>6. ASSUME NEW w \in Workers, WorkerStep(w)
      PROVE  MovesFit'
  <2>1. CASE ReceiveReply(w) \/ FinishAcknowledged(w) \/ JobThrows(w)
    BY <1>1, <2>1 DEF ReceiveReply, FinishAcknowledged, JobThrows, queueVars
  <2>2. CASE ClaimFails(w)
    BY <2>2, AbandonTyped, MovesKept DEF ClaimFails, SameCommand
  <2>3. CASE Finish(w)
    BY <1>2, <2>3, BusyWorkerHasJob DEF Finish, Kinds
  <2>4. QED
    BY <1>6, <2>1, <2>2, <2>3 DEF WorkerStep
<1>7. ASSUME NEW w \in Workers, NEW j \in Jobs, HearQueued(w, j)
      PROVE  MovesFit'
  BY <1>2, <1>7 DEF HearQueued, Kinds
<1>8. ASSUME NEW i \in Slots, NEW w \in Workers, ReportProgress(i, w)
      PROVE  MovesFit'
  BY <1>2, <1>8, BusyWorkerHasJob DEF ReportProgress, Kinds
<1>9. CASE Restart
  <2>1. \A k \in Slots : command'[k].at = "done"
    BY <1>9 DEF Restart, Free
  <2>2. QED
    BY <2>1, MovesKept
<1>10. CancelRequested \/ UNCHANGED vars => UNCHANGED command
  BY DEF CancelRequested, vars, queueVars
<1>11. QED
  BY <1>1, <1>3, <1>4, <1>5, <1>6, <1>7, <1>8, <1>9, <1>10 DEF Next

-------------------------------------------------------------------------------
(* The jobs that were not raced stay calm.                                       *)
LEMMA StaysCalm ==
  ASSUME TypeOK, Accounted, Settled, AllCalm, [Next]_vars
  PROVE  AllCalm'
<1> SUFFICES ASSUME NEW j \in Jobs \ raced'
             PROVE  Calm(j)'
  BY DEF AllCalm
<1>1. j \in Jobs \ raced /\ Calm(j)
  BY RacedGrows DEF AllCalm
<1>2. ASSUME NEW i \in Slots, HandlerStep(i) \/ WriteFails(i)
      PROVE  Calm(j)'
  BY <1>1, <1>2, HandlerCalm DEF Settled
<1>3. ASSUME NEW x \in Jobs, \/ CreateJob(x) \/ GoQuiet(x) \/ LoseFailure(x)
                             \/ \E s \in Terminal : Prune(x, s)
      PROVE  Calm(j)'
  <2>1. CASE CreateJob(x)
    BY <1>1, <2>1, CreateCalm DEF Settled
  <2>2. CASE \E s \in Terminal : Prune(x, s)
    BY <1>1, <2>2, PruneCalm
  <2>3. CASE GoQuiet(x) \/ LoseFailure(x)
    BY <1>1, <2>3, QuietCalm DEF GoQuiet, LoseFailure, queueVars, historyVars
  <2>4. QED
    BY <1>3, <2>1, <2>2, <2>3
<1>4. ASSUME NEW i \in Slots, NEW x \in Jobs,
             RecoverStale(i, x) \/ CancelNext(i, x) \/ DeliverFailure(i, x)
      PROVE  Calm(j)'
  <2>1. UNCHANGED <<copy, grants>> /\ \E kind \in Kinds : Start(i, kind, x, NoWorker)
    BY <1>4 DEF RecoverStale, CancelNext, DeliverFailure, Kinds
  <2>2. QED
    BY <1>1, <2>1, StartCalm
<1>5. ASSUME NEW w \in Workers, WorkerStep(w)
      PROVE  Calm(j)'
  BY <1>1, <1>5, WorkerCalm
<1>6. ASSUME NEW w \in Workers, NEW x \in Jobs, HearQueued(w, x)
      PROVE  Calm(j)'
  <2>1. /\ UNCHANGED <<copy, grants>>
        /\ (\E i \in Slots : Start(i, "claim", x, w)) \/ UNCHANGED <<command, raced>>
    BY <1>6 DEF HearQueued
  <2>2. QED
    BY <1>1, <2>1, PostCalm DEF Kinds
<1>7. ASSUME NEW i \in Slots, NEW w \in Workers, ReportProgress(i, w)
      PROVE  Calm(j)'
  <2>1. /\ UNCHANGED <<copy, grants>> /\ Start(i, "progress", worker[w].job, NoWorker)
        /\ worker[w].job \in Jobs
    BY <1>7, BusyWorkerHasJob DEF ReportProgress
  <2>2. QED
    BY <1>1, <2>1, StartCalm DEF Kinds
<1>8. CASE CancelRequested
  BY <1>1, <1>8, QuietCalm DEF CancelRequested, historyVars
<1>9. CASE Restart
  BY <1>1, <1>9, QuietCalm DEF Restart
<1>10. CASE UNCHANGED vars
  BY <1>1, <1>10, QuietCalm DEF vars, queueVars, historyVars
<1>11. QED
  BY <1>2, <1>3, <1>4, <1>5, <1>6, <1>7, <1>8, <1>9, <1>10 DEF Next

LEMMA AlwaysCalm == Spec => [](Settled /\ AllCalm)
<1>1. Init => Settled /\ AllCalm
  <2> SUFFICES ASSUME Init
               PROVE  Settled /\ AllCalm
    OBVIOUS
  <2>1. \A i \in Slots : command[i] = Free
    BY DEF Init
  <2>2. MovesFit
    BY <2>1 DEF MovesFit, Free
  <2>3. Untouched
    BY <2>1, FreeIsNoCommand, NamesAssumption DEF Init, Untouched, NoFile, Idle
  <2>4. AllCalm
    BY <2>1, FreeIsNoCommand, RetriesAssumption
       DEF Init, AllCalm, Calm, OneHandler, SoleFile, GrantsFit, Readable, Absent, Status
  <2>5. QED
    BY <2>2, <2>3, <2>4 DEF Settled
<1>2. TypeOK /\ Accounted /\ Settled /\ AllCalm /\ [Next]_vars => (Settled /\ AllCalm)'
  BY StaysUntouched, MovesStayFit, StaysCalm DEF Settled, Accounted
<1>3. QED
  BY <1>1, <1>2, QueueTypeCorrect, AlwaysAccounted, PTL DEF Spec


(* fs-job-queue keeps a job in the directory named after its status.  As long as *)
(* no two commands handle the job at once, no crash, refused write or torn       *)
(* progress report ever leaves it in two of them.                                *)
THEOREM OneCopyEach == Spec => []OneCopy
<1>1. AllCalm => OneCopy
  BY DEF AllCalm, Calm, SoleFile, OneCopy
<1>2. QED
  BY <1>1, AlwaysCalm, PTL

(* The claims that are answered for such a job are at most one more than its     *)
(* retries, however often it is announced, recovered or its failure reported.    *)
THEOREM AttemptsAreBounded == Spec => []AttemptsBounded
<1>1. AllCalm => AttemptsBounded
  BY DEF AllCalm, Calm, GrantsFit, AttemptsBounded
<1>2. QED
  BY <1>1, AlwaysCalm, PTL

-------------------------------------------------------------------------------
(* What has ended.                                                               *)

(* A command cannot have read a job in pending or in running that has ended.     *)
LEMMA HandlerKeepsEnded ==
  ASSUME TypeOK, Accounted, NEW i \in Slots, HandlerStep(i) \/ WriteFails(i),
         NEW j \in Jobs, Calm(j), NEW s \in Terminal, Readable(j, s)
  PROVE  copy'[j] = copy[j]
<1> DEFINE x == command[i].job
<1>1. \A u \in {"pending", "running"} : copy[j][u] = Absent
  BY DEF Calm, SoleFile, Readable, Absent, Status, Terminal
<1>2. ~ NoFile(j)
  <2>1. s \in Status /\ copy[j][s] # Absent
    BY DEF Status, Readable, Absent
  <2>2. QED
    BY <2>1 DEF NoFile
<1>3. command[i] \in Command /\ x \in Jobs
  BY BusyIsCommand DEF HandlerStep, GetPending, GetRunning, Unlink, Write, OpenProgress,
                       WriteProgress, WriteFails
<1>4. CASE x # j
  BY <1>3, <1>4 DEF HandlerStep, GetPending, GetRunning, Unlink, Write, OpenProgress,
                    WriteProgress, WriteFails, TypeOK
<1>5. CASE x = j
  <2>1. ~ Unlink(i) /\ ~ OpenProgress(i) /\ ~ Write(i)
    BY <1>1, <1>2, <1>3, <1>5
       DEF Calm, Fits, Unlink, OpenProgress, Write, Command, Readable, Absent
  <2>2. copy[j]["running"] # Torn
    BY <1>1 DEF Absent, Torn
  <2>3. QED
    BY <1>5, <2>1, <2>2 DEF HandlerStep, GetPending, GetRunning, WriteProgress, WriteFails
<1>6. QED
  BY <1>4, <1>5

(* A job that has ended stays as it is, with its retries, until it is pruned: a  *)
(* late answer, a second failure report or a cancel request finds it in a        *)
(* terminal directory and leaves it there.                                       *)
THEOREM EndedStays == Spec => TerminalStays
<1>1. ASSUME TypeOK, Accounted, Settled, AllCalm, [Next]_vars,
             NEW j \in Jobs \ raced', NEW s \in Terminal, Readable(j, s), phase'[j] # "pruned"
      PROVE  copy'[j] = copy[j]
  <2>1. j \in Jobs \ raced /\ Calm(j)
    BY <1>1, RacedGrows DEF AllCalm
  <2>2. phase[j] # "new"
    <3>1. s \in Status /\ copy[j][s] # Absent
      BY <1>1 DEF Status, Readable, Absent
    <3>2. QED
      BY <1>1, <3>1, KnownJobs DEF Settled
  <2>3. ASSUME NEW i \in Slots, HandlerStep(i) \/ WriteFails(i)
        PROVE  copy'[j] = copy[j]
    BY <1>1, <2>1, <2>3, HandlerKeepsEnded
  <2>4. ASSUME NEW x \in Jobs, CreateJob(x)
        PROVE  copy'[j] = copy[j]
    BY <1>1, <2>2, <2>4 DEF CreateJob, TypeOK
  <2>5. ASSUME NEW x \in Jobs, NEW u \in Terminal, Prune(x, u)
        PROVE  copy'[j] = copy[j]
    BY <1>1, <2>5 DEF Prune, TypeOK
  <2>6. ASSUME NEW x \in Jobs, GoQuiet(x) \/ LoseFailure(x)
        PROVE  UNCHANGED copy
    BY <2>6 DEF GoQuiet, LoseFailure, queueVars
  <2>7. ASSUME NEW i \in Slots, NEW x \in Jobs,
               RecoverStale(i, x) \/ CancelNext(i, x) \/ DeliverFailure(i, x)
        PROVE  UNCHANGED copy
    BY <2>7 DEF RecoverStale, CancelNext, DeliverFailure
  <2>8. ASSUME NEW w \in Workers, \/ WorkerStep(w) \/ \E x \in Jobs : HearQueued(w, x)
                                  \/ \E i \in Slots : ReportProgress(i, w)
        PROVE  UNCHANGED copy
    BY <2>8 DEF WorkerStep, ReceiveReply, ClaimFails, Finish, FinishAcknowledged, JobThrows,
                HearQueued, ReportProgress, queueVars
  <2>9. CancelRequested \/ Restart \/ UNCHANGED vars => UNCHANGED copy
    BY DEF CancelRequested, Restart, vars, queueVars
  <2>10. QED
    BY <1>1, <2>3, <2>4, <2>5, <2>6, <2>7, <2>8, <2>9 DEF Next
<1>2. TypeOK /\ Accounted /\ Settled /\ AllCalm /\ [Next]_vars =>
        [\A j \in Jobs \ raced' : \A s \in Terminal :
           Readable(j, s) /\ phase'[j] # "pruned" => copy'[j] = copy[j]]_vars
  BY <1>1
<1>3. QED
  BY <1>2, QueueTypeCorrect, AlwaysAccounted, AlwaysCalm, PTL DEF Spec, TerminalStays


-------------------------------------------------------------------------------
(* Who has a job.                                                                *)

(* The worker was given the job and has not put it down.                         *)
Has(w, j) == worker[w].job = j /\ worker[w].at # "claiming"
Unheld(j) == \A w \in Workers : ~ Has(w, j)

(* The job is free to be claimed, was not given out yet, or the one worker that  *)
(* got it in its only attempt so far has reported its failure.                   *)
Reserved(j) ==
  \/ grants[j] = 0
  \/ Readable(j, "pending")
  \/ \E i \in Slots : command[i].job = j /\ command[i].at = "write" /\ command[i].from = "pending"
  \/ grants[j] <= 1 /\ j \in failures
  \/ grants[j] <= 1 /\ \E i \in Slots : command[i].job = j /\ command[i].kind = "fail"

Held(j) ==
  /\ \A v, w \in Workers : Has(v, j) /\ Has(w, j) => v = w
  /\ Reserved(j) => Unheld(j)
  /\ grants[j] = 0 => j \notin failures

AllHeld == \A j \in Jobs \ (raced \cup doubted) : Held(j)

(* A file that can be read holds a count.                                        *)
LEMMA ReadableCount ==
  ASSUME TypeOK, NEW j \in Jobs, NEW s \in Status, Readable(j, s)
  PROVE  copy[j][s] \in Nat
<1>1. copy[j][s] \in Nat \cup {Absent, Torn}
  BY DEF TypeOK
<1>2. QED
  BY <1>1 DEF Readable, Absent, Torn

(* Nobody gets the job, and it is not freed.                                     *)
LEMMA HeldKept ==
  ASSUME NEW j \in Jobs, Held(j), \A w \in Workers : Has(w, j)' => Has(w, j),
         grants'[j] = grants[j], j \in failures' => j \in failures, Reserved(j)' => Reserved(j)
  PROVE  Held(j)'
BY DEF Held, Unheld

LEMMA HeldByNobody ==
  ASSUME NEW j \in Jobs, Unheld(j)', grants'[j] = 0 => j \notin failures'
  PROVE  Held(j)'
BY DEF Held, Unheld

(* A post only frees a job if it reports its failure.                            *)
LEMMA PostReserves ==
  ASSUME TypeOK, NEW kind \in Kinds, NEW x \in Jobs, NEW w \in Workers \cup {NoWorker},
         (\E i \in Slots : Start(i, kind, x, w)) \/ UNCHANGED <<command, raced>>,
         NEW j \in Jobs, copy'[j] = copy[j], grants'[j] = grants[j],
         j \in failures' => j \in failures, Reserved(j)'
  PROVE  Reserved(j) \/ (kind = "fail" /\ x = j /\ grants[j] <= 1)
<1>1. CASE UNCHANGED <<command, raced>>
  BY <1>1 DEF Reserved, Readable
<1>2. CASE \E i \in Slots : Start(i, kind, x, w)
  <2>1. PICK i \in Slots : Start(i, kind, x, w)
    BY <1>2
  <2>2. /\ command'[i] = [kind |-> kind, job |-> x, worker |-> w, at |-> "getPending",
                          from |-> "pending", count |-> 0]
        /\ \A k \in Slots \ {i} : command'[k] = command[k]
    BY <2>1, StartTyped
  <2>3. command'[i].job = x /\ command'[i].kind = kind /\ command'[i].at = "getPending"
    BY <2>2
  <2>4. QED
    BY <2>2, <2>3 DEF Reserved, Readable
<1>3. QED
  BY <1>1, <1>2

(* Commands that end or change hands free nothing.                               *)
LEMMA FewerReserved ==
  ASSUME NEW j \in Jobs, FewerCommands(j), grants'[j] = grants[j],
         Readable(j, "pending")' => Readable(j, "pending"),
         j \in failures' => j \in failures, Reserved(j)'
  PROVE  Reserved(j)
BY DEF Reserved, FewerCommands, SameCommand

-------------------------------------------------------------------------------
(* The steps of a command.                                                       *)

(* The command reads, unlinks or reports progress: whether the job can be        *)
(* claimed, or is about to be, is as before.                                     *)
LEMMA ReadingHeld ==
  ASSUME TypeOK, Accounted, NEW i \in Slots,
         \/ GetPending(i) \/ GetRunning(i) \/ Unlink(i) \/ OpenProgress(i)
         \/ WriteProgress(i) \/ WriteFails(i),
         NEW j \in Jobs, Calm(j), Held(j)
  PROVE  Held(j)'
<1> DEFINE x == command[i].job
<1>0. command[i] \in Command /\ x \in Jobs
  BY BusyIsCommand DEF GetPending, GetRunning, Unlink, OpenProgress, WriteProgress, WriteFails
<1>1. UNCHANGED <<grants, failures, worker>>
  BY DEF GetPending, GetRunning, Unlink, OpenProgress, WriteProgress, WriteFails,
         historyVars, workerVars
<1>2. Readable(j, "pending")' => Readable(j, "pending")
  BY <1>0 DEF GetPending, GetRunning, Unlink, OpenProgress, WriteProgress, WriteFails, TypeOK,
              Readable, Absent, Torn, Status, Command
<1>3. CASE command' = [command EXCEPT ![i] = Free]
  <2>1. FewerCommands(j)
    BY <1>3, EndTyped, FreeIsNoCommand DEF FewerCommands, SameCommand
  <2>2. QED
    BY <1>1, <1>2, <2>1, FewerReserved, HeldKept DEF Has
<1>4. ASSUME NEW at \in Busy, NEW from \in {"pending", "running"}, NEW count \in Nat,
             Proceed(i, at, from, count),
             at = "write" /\ from = "pending" /\ x = j => Readable(j, "pending")
      PROVE  Held(j)'
  <2>1. /\ command'[i].at = at /\ command'[i].from = from
        /\ command'[i].kind = command[i].kind /\ command'[i].job = x
        /\ \A k \in Slots \ {i} : command'[k] = command[k]
    BY <1>0, <1>4, ProceedFields
  <2>2. Reserved(j)' => Reserved(j)
    BY <1>1, <1>2, <1>4, <2>1 DEF Reserved
  <2>3. QED
    BY <1>1, <2>2, HeldKept DEF Has
<1>5. ASSUME NEW s \in {"pending", "running"}, Readable(x, s)
      PROVE  copy[x][s] \in Nat
  BY <1>0, <1>5, ReadableCount DEF Status
<1>6. CASE GetPending(i)
  BY <1>3, <1>4, <1>5, <1>6 DEF GetPending, Decline, Busy
<1>7. CASE GetRunning(i)
  BY <1>3, <1>4, <1>5, <1>7 DEF GetRunning, Decline, Busy
<1>8. CASE Unlink(i)
  <2>1. /\ Proceed(i, "write", command[i].from, command[i].count) /\ "write" \in Busy
        /\ command[i].from \in {"pending", "running"} /\ command[i].count \in Nat
    BY <1>0, <1>8 DEF Unlink, Command, Busy
  <2>2. command[i].from = "pending" /\ x = j => Readable(j, "pending")
    BY <1>8 DEF Calm, Fits, Unlink
  <2>3. QED
    BY <1>4, <2>1, <2>2
<1>9. CASE OpenProgress(i)
  <2>1. /\ Proceed(i, "write", "running", command[i].count) /\ "write" \in Busy
        /\ command[i].count \in Nat
    BY <1>0, <1>9 DEF OpenProgress, Command, Busy
  <2>2. QED
    BY <1>4, <2>1
<1>10. CASE WriteProgress(i) \/ WriteFails(i)
  BY <1>3, <1>10 DEF WriteProgress, WriteFails
<1>11. QED
  BY <1>6, <1>7, <1>8, <1>9, <1>10

(* A claim gives a job to one worker, that nobody had; with one retry at most,   *)
(* the job goes back to pending only when its first worker has put it down.      *)
LEMMA WriteHeld ==
  ASSUME \A x \in Jobs : MaxRetries[x] <= 1,
         TypeOK, Accounted, MovesFit, NEW i \in Slots, Write(i),
         NEW j \in Jobs \ raced, Calm(j), Held(j)
  PROVE  Held(j)'
<1> DEFINE x == command[i].job
           claimed == command[i].kind = "claim"
<1>1. command[i] \in Command /\ x \in Jobs /\ command[i].at = "write"
  BY BusyIsCommand DEF Write
<1>2. /\ copy' = [copy EXCEPT ![x][Destination(i)] = NewCount(i)]
      /\ command' = [command EXCEPT ![i] = Free] /\ UNCHANGED failures
      /\ grants' = IF claimed /\ x \notin raced THEN [grants EXCEPT ![x] = @ + 1] ELSE grants
  BY DEF Write
<1>3. command'[i] = Free /\ \A k \in Slots \ {i} : command'[k] = command[k]
  BY <1>2, EndTyped
<1>4. FewerCommands(j)
  BY <1>3, FreeIsNoCommand DEF FewerCommands, SameCommand
<1>5. \A w \in Workers : worker'[w] = IF claimed /\ w = command[i].worker
                                        THEN [at |-> "granted", job |-> x] ELSE worker[w]
  BY DEF Write
<1>6. CASE x # j
  <2>1. copy'[j] = copy[j] /\ grants'[j] = grants[j]
    BY <1>2, <1>6 DEF TypeOK
  <2>2. \A w \in Workers : Has(w, j)' => Has(w, j)
    BY <1>5, <1>6 DEF Has
  <2>3. QED
    BY <1>2, <1>4, <2>1, <2>2, FewerReserved, HeldKept DEF Readable
<1>7. CASE x = j
  <2>1. NoFile(j) /\ Destination(i) \in Status /\ NewCount(i) \in Nat
    BY <1>1, <1>7, DestinationTyped DEF Calm, Fits, Write
  <2>2. copy'[j]["pending"] = IF Destination(i) = "pending" THEN NewCount(i) ELSE Absent
    BY <1>1, <1>2, <1>7, <2>1 DEF TypeOK, NoFile, Status
  <2>3. \A k \in Slots : command'[k].job # j
    BY <1>3, <1>7, FreeIsNoCommand DEF Calm, OneHandler
  <2>4. CASE claimed
    <3>1. command[i].from = "pending" /\ Destination(i) = "running"
      BY <1>1, <2>4 DEF MovesFit, Destination
    <3>2. Unheld(j)
      BY <1>1, <1>7, <3>1 DEF Held, Reserved
    <3>3. \A v \in Workers : Has(v, j)' => v = command[i].worker
      BY <1>5, <2>4, <3>2 DEF Unheld, Has
    <3>4. grants'[j] = grants[j] + 1 /\ grants[j] \in Nat
      BY <1>2, <1>7, <2>4 DEF TypeOK
    <3>5. ~ Reserved(j)'
      BY <1>2, <2>2, <2>3, <3>1, <3>4 DEF Reserved, Readable, Absent, Held
    <3>6. QED
      BY <3>3, <3>4, <3>5 DEF Held
  <2>5. CASE ~ claimed
    <3>1. UNCHANGED <<worker, grants>>
      <4>1. worker' = worker
        BY <2>5 DEF Write, TypeOK
      <4>2. QED
        BY <1>2, <2>5, <4>1
    <3>2. Destination(i) = "pending" => Reserved(j)
      <4>1. ASSUME Destination(i) = "pending"
            PROVE  Reserved(j)
        <5>1. command[i].kind = "fail" /\ command[i].count < MaxRetries[j]
          BY <1>7, <4>1 DEF Destination, Retries
        <5>2. grants[j] <= command[i].count + 1
          BY <1>1, <1>7 DEF Calm, GrantsFit
        <5>3. grants[j] \in Nat /\ command[i].count \in Nat /\ MaxRetries[j] \in Nat
          BY <1>1, RetriesAssumption DEF TypeOK, Command
        <5>4. grants[j] <= 1
          BY <5>1, <5>2, <5>3
        <5>5. QED
          BY <1>7, <5>1, <5>4 DEF Reserved
      <4>2. QED
        BY <4>1
    <3>3. Reserved(j)' => Reserved(j)
      BY <1>2, <2>2, <2>3, <3>1, <3>2 DEF Reserved, Readable, Absent
    <3>4. QED
      BY <1>2, <3>1, <3>3, HeldKept DEF Has
  <2>6. QED
    BY <2>4, <2>5
<1>8. QED
  BY <1>6, <1>7


-------------------------------------------------------------------------------
(* The steps of the workers, and what reports a failure.                         *)

LEMMA WorkerHeld ==
  ASSUME TypeOK, NEW w \in Workers, WorkerStep(w), NEW j \in Jobs, Held(j)
  PROVE  Held(j)'
<1> DEFINE x == worker[w].job
<1>0. x \in Jobs
  BY BusyWorkerHasJob DEF WorkerStep, ReceiveReply, ClaimFails, Finish, FinishAcknowledged,
                          JobThrows, Waiting, Holding
<1>1. UNCHANGED <<copy, grants>>
  BY DEF WorkerStep, ReceiveReply, ClaimFails, Finish, FinishAcknowledged, JobThrows,
         queueVars, historyVars
<1>2. \A v \in Workers : Has(v, j)' => Has(v, j)
  <2>1. Idle.job # j
    BY NamesAssumption DEF Idle
  <2>2. CASE worker' = [worker EXCEPT ![w] = Idle]
    BY <2>1, <2>2 DEF Has, TypeOK
  <2>3. CASE \E at \in {"working", "finishing"} : Become(w, at, x) /\ worker[w].at # "claiming"
    BY <2>3 DEF Has, TypeOK, Become
  <2>4. QED
    BY <2>2, <2>3 DEF WorkerStep, ReceiveReply, ClaimFails, Finish, FinishAcknowledged, JobThrows
<1>3. CASE ReceiveReply(w) \/ FinishAcknowledged(w)
  <2>1. UNCHANGED <<command, failures>>
    BY <1>3 DEF ReceiveReply, FinishAcknowledged, queueVars
  <2>2. QED
    BY <1>1, <1>2, <2>1, FewerReserved, HeldKept DEF FewerCommands, SameCommand, Readable
<1>4. CASE ClaimFails(w)
  <2>1. FewerCommands(j) /\ UNCHANGED failures
    BY <1>4, AbandonTyped DEF ClaimFails, FewerCommands, SameCommand
  <2>2. QED
    BY <1>1, <1>2, <2>1, FewerReserved, HeldKept DEF Readable
<1>5. CASE Finish(w)
  <2>1. /\ (\E i \in Slots : Start(i, "complete", x, NoWorker)) \/ UNCHANGED <<command, raced>>
        /\ UNCHANGED failures
    BY <1>5 DEF Finish
  <2>2. Reserved(j)' => Reserved(j)
    BY <1>0, <1>1, <2>1, PostReserves DEF Kinds
  <2>3. QED
    BY <1>1, <1>2, <2>1, <2>2, HeldKept
<1>6. CASE JobThrows(w)
  <2>1. worker' = [worker EXCEPT ![w] = Idle] /\ UNCHANGED command
    BY <1>6 DEF JobThrows, queueVars
  <2>2. CASE x = j
    <3>1. Has(w, j)
      BY <1>6, <2>2 DEF JobThrows, Has, Holding
    <3>2. \A v \in Workers : ~ Has(v, j)'
      BY <1>2, <2>1, <3>1, NamesAssumption DEF Held, Has, Idle, TypeOK
    <3>3. grants'[j] # 0
      BY <1>1, <3>1 DEF Held, Reserved, Unheld
    <3>4. QED
      BY <3>2, <3>3, HeldByNobody DEF Unheld
  <2>3. CASE x # j
    <3>1. j \in failures' => j \in failures
      BY <1>6, <2>3 DEF JobThrows
    <3>2. QED
      BY <1>1, <1>2, <2>1, <3>1, FewerReserved, HeldKept DEF FewerCommands, SameCommand, Readable
  <2>4. QED
    BY <2>2, <2>3
<1>7. QED
  BY <1>3, <1>4, <1>5, <1>6 DEF WorkerStep

(* Nobody has a job that is taken for stale, or it is doubted.                   *)
LEMMA ReportHeld ==
  ASSUME TypeOK, NEW i \in Slots, NEW x \in Jobs,
         RecoverStale(i, x) \/ CancelNext(i, x) \/ DeliverFailure(i, x),
         NEW j \in Jobs \ (raced' \cup doubted'), Held(j)
  PROVE  Held(j)'
<1>1. UNCHANGED <<copy, grants, worker>> /\ failures' \subseteq failures
  BY DEF RecoverStale, CancelNext, DeliverFailure, workerVars
<1>2. CASE RecoverStale(i, x) /\ x = j
  <2>1. \A w \in Workers : worker[w].job # j
    BY <1>2 DEF RecoverStale
  <2>2. Unheld(j)'
    BY <1>1, <2>1 DEF Unheld, Has
  <2>3. QED
    BY <1>1, <2>2, HeldByNobody DEF Held
<1>3. ASSUME NEW kind \in Kinds, Start(i, kind, x, NoWorker),
             kind = "fail" /\ x = j => j \in failures
      PROVE  Held(j)'
  <2>1. Reserved(j)' => Reserved(j) \/ (kind = "fail" /\ x = j /\ grants[j] <= 1)
    BY <1>1, <1>3, PostReserves
  <2>2. Reserved(j)' => Reserved(j)
    BY <1>3, <2>1 DEF Reserved
  <2>3. QED
    BY <1>1, <2>2, HeldKept DEF Has
<1>4. CASE RecoverStale(i, x) /\ x # j
  BY <1>3, <1>4 DEF RecoverStale, Kinds
<1>5. CASE CancelNext(i, x)
  BY <1>3, <1>5 DEF CancelNext, Kinds
<1>6. CASE DeliverFailure(i, x)
  BY <1>3, <1>6 DEF DeliverFailure, Kinds
<1>7. QED
  BY <1>2, <1>4, <1>5, <1>6

(* The other steps give nobody a job.                                            *)
LEMMA OtherHeld ==
  ASSUME TypeOK, Untouched, NEW j \in Jobs, Held(j),
         \/ \E x \in Jobs : CreateJob(x) \/ GoQuiet(x) \/ LoseFailure(x)
         \/ \E x \in Jobs, s \in Terminal : Prune(x, s)
         \/ \E w \in Workers, x \in Jobs : HearQueued(w, x)
         \/ \E i \in Slots, w \in Workers : ReportProgress(i, w)
         \/ CancelRequested \/ Restart \/ UNCHANGED vars
  PROVE  Held(j)'
<1>1. CASE CreateJob(j)
  <2>1. Unheld(j)' /\ j \notin failures'
    BY <1>1 DEF CreateJob, Untouched, Unheld, Has, workerVars
  <2>2. QED
    BY <2>1, HeldByNobody
<1>2. ASSUME UNCHANGED <<grants, worker, command>>, failures' \subseteq failures,
             Readable(j, "pending")' => Readable(j, "pending")
      PROVE  Held(j)'
  BY <1>2, FewerReserved, HeldKept DEF FewerCommands, SameCommand, Has
<1>3. ASSUME NEW x \in Jobs, x # j, CreateJob(x)
      PROVE  Held(j)'
  BY <1>2, <1>3 DEF CreateJob, workerVars, Readable, TypeOK
<1>4. ASSUME NEW x \in Jobs, GoQuiet(x) \/ LoseFailure(x)
      PROVE  Held(j)'
  BY <1>2, <1>4 DEF GoQuiet, LoseFailure, queueVars, workerVars, historyVars, Readable
<1>5. ASSUME NEW x \in Jobs, NEW s \in Terminal, Prune(x, s)
      PROVE  Held(j)'
  <2>1. Readable(j, "pending")' => Readable(j, "pending")
    BY <1>5 DEF Prune, TypeOK, Readable, Absent, Status
  <2>2. QED
    BY <1>2, <1>5, <2>1 DEF Prune, workerVars
<1>6. ASSUME NEW w \in Workers, NEW x \in Jobs, HearQueued(w, x)
      PROVE  Held(j)'
  <2>1. /\ UNCHANGED <<copy, grants, failures>> /\ Become(w, "claiming", x)
        /\ (\E i \in Slots : Start(i, "claim", x, w)) \/ UNCHANGED <<command, raced>>
    BY <1>6 DEF HearQueued
  <2>2. \A v \in Workers : Has(v, j)' => Has(v, j)
    BY <2>1 DEF Has, Become, TypeOK
  <2>3. Reserved(j)' => Reserved(j)
    BY <2>1, PostReserves DEF Kinds
  <2>4. QED
    BY <2>1, <2>2, <2>3, HeldKept
<1>7. ASSUME NEW i \in Slots, NEW w \in Workers, ReportProgress(i, w)
      PROVE  Held(j)'
  <2>1. /\ UNCHANGED <<copy, grants, failures, worker>>
        /\ Start(i, "progress", worker[w].job, NoWorker) /\ worker[w].job \in Jobs
    BY <1>7, BusyWorkerHasJob DEF ReportProgress, workerVars
  <2>2. Reserved(j)' => Reserved(j)
    BY <2>1, PostReserves DEF Kinds
  <2>3. QED
    BY <2>1, <2>2, HeldKept DEF Has
<1>8. CASE CancelRequested \/ UNCHANGED vars
  BY <1>2, <1>8 DEF CancelRequested, vars, queueVars, workerVars, historyVars, Readable
<1>9. CASE Restart
  <2>1. UNCHANGED <<copy, grants, failures, worker>> /\ FewerCommands(j)
    BY <1>9, FreeIsNoCommand DEF Restart, workerVars, FewerCommands
  <2>2. QED
    BY <2>1, FewerReserved, HeldKept DEF Has, Readable
<1>10. QED
  BY <1>1, <1>3, <1>4, <1>5, <1>6, <1>7, <1>8, <1>9

LEMMA DoubtedGrows ==
  ASSUME [Next]_vars
  PROVE  doubted \subseteq doubted'
<1>1. ASSUME NEW i \in Slots, HandlerStep(i) \/ WriteFails(i)
      PROVE  UNCHANGED doubted
  BY <1>1 DEF HandlerStep, GetPending, GetRunning, Unlink, Write, OpenProgress, WriteProgress,
              WriteFails, historyVars
<1>2. ASSUME NEW j \in Jobs, CreateJob(j) \/ GoQuiet(j) \/ LoseFailure(j) \/ \E s \in Terminal : Prune(j, s)
      PROVE  UNCHANGED doubted
  BY <1>2 DEF CreateJob, GoQuiet, LoseFailure, Prune, historyVars
<1>3. ASSUME NEW i \in Slots, NEW j \in Jobs,
             RecoverStale(i, j) \/ CancelNext(i, j) \/ DeliverFailure(i, j)
      PROVE  doubted \subseteq doubted'
  BY <1>3 DEF RecoverStale, CancelNext, DeliverFailure
<1>4. ASSUME NEW w \in Workers, \/ WorkerStep(w) \/ \E j \in Jobs : HearQueued(w, j)
                                \/ \E i \in Slots : ReportProgress(i, w)
      PROVE  UNCHANGED doubted
  BY <1>4 DEF WorkerStep, ReceiveReply, ClaimFails, Finish, FinishAcknowledged, JobThrows,
              HearQueued, ReportProgress, historyVars
<1>5. CancelRequested \/ Restart \/ UNCHANGED vars => UNCHANGED doubted
  BY DEF CancelRequested, Restart, vars, historyVars
<1>6. QED
  BY <1>1, <1>2, <1>3, <1>4, <1>5 DEF Next

(* However announcements repeat, answers get lost, claims and jobs are given up  *)
(* and failures reported late, a job that may be retried once at most is worked  *)
(* on by one worker at a time, unless its commands raced or it was taken from a  *)
(* worker that had it.  createJob allows no job more than one retry; with two,   *)
(* the late report of a first failure could take the job from a second worker.   *)
THEOREM OneWorkerEach ==
  ASSUME \A j \in Jobs : MaxRetries[j] <= 1
  PROVE  Spec => []OneWorker
<1>1. Init => AllHeld
  <2> SUFFICES ASSUME Init, NEW j \in Jobs
               PROVE  Held(j)
    BY DEF AllHeld
  <2>1. Unheld(j) /\ j \notin failures
    BY NamesAssumption DEF Init, Unheld, Has, Idle
  <2>2. QED
    BY <2>1 DEF Held, Unheld
<1>2. ASSUME TypeOK, Accounted, Settled, AllCalm, AllHeld, [Next]_vars
      PROVE  AllHeld'
  <2> SUFFICES ASSUME NEW j \in Jobs \ (raced' \cup doubted')
               PROVE  Held(j)'
    BY DEF AllHeld
  <2>1. j \in Jobs \ raced /\ Calm(j) /\ Held(j)
    BY <1>2, RacedGrows, DoubtedGrows DEF AllCalm, AllHeld
  <2>2. ASSUME NEW i \in Slots, HandlerStep(i) \/ WriteFails(i)
        PROVE  Held(j)'
    BY <1>2, <2>1, <2>2, ReadingHeld, WriteHeld DEF HandlerStep, Settled
  <2>3. ASSUME NEW i \in Slots, NEW x \in Jobs,
               RecoverStale(i, x) \/ CancelNext(i, x) \/ DeliverFailure(i, x)
        PROVE  Held(j)'
    BY <1>2, <2>1, <2>3, ReportHeld
  <2>4. ASSUME NEW w \in Workers, WorkerStep(w)
        PROVE  Held(j)'
    BY <1>2, <2>1, <2>4, WorkerHeld
  <2>5. CASE \/ \E x \in Jobs : CreateJob(x) \/ GoQuiet(x) \/ LoseFailure(x)
             \/ \E x \in Jobs, s \in Terminal : Prune(x, s)
             \/ \E w \in Workers, x \in Jobs : HearQueued(w, x)
             \/ \E i \in Slots, w \in Workers : ReportProgress(i, w)
             \/ CancelRequested \/ Restart \/ UNCHANGED vars
    BY <1>2, <2>1, <2>5, OtherHeld DEF Settled
  <2>6. QED
    BY <1>2, <2>2, <2>3, <2>4, <2>5 DEF Next
<1>3. AllHeld => OneWorker
  BY DEF AllHeld, Held, Has, OneWorker, Holding
<1>4. QED
  BY <1>1, <1>2, <1>3, QueueTypeCorrect, AlwaysAccounted, AlwaysCalm, PTL DEF Spec


-------------------------------------------------------------------------------
(* The refinement of JobLifecycle: for any sets of jobs and workers, any number  *)
(* of commands in progress, any retry limits and any bound on faults.  A job     *)
(* follows its lifecycle until two commands handle it at once.                   *)

Writes(i, j) == command[i].job = j /\ command[i].at = "write"

(* What the lifecycle sees of a job.                                             *)
Reads(j, s, n) == StatusOf(j) = s /\ RetriesOf(j) = n

Seen(j) ==
  /\ phase[j] = "new" => Reads(j, "none", 0)
  /\ phase[j] # "new" =>
       /\ \A i \in Slots : Writes(i, j) => Reads(j, command[i].from, command[i].count)
       /\ (\A i \in Slots : ~ Writes(i, j)) =>
            /\ \A s \in Status : Readable(j, s) => Reads(j, s, copy[j][s])
            /\ (\A s \in Status : ~ Readable(j, s)) => Reads(j, "gone", 0)

(* A calm job is seen where its one file is, or where its one command took it.   *)
SeenWhenCalm == \A j \in Jobs \ raced : Untouched /\ Calm(j) => Seen(j)

LEMMA CalmIsSeen == SeenWhenCalm
<1> SUFFICES ASSUME NEW j \in Jobs \ raced, Untouched, Calm(j)
             PROVE  Seen(j)
  BY DEF SeenWhenCalm
<1>1. Mover(j) = {i \in Slots : Writes(i, j)}
  BY DEF Mover, Handling, Writes
<1>2. ASSUME phase[j] = "new"
      PROVE  Reads(j, "none", 0)
  <2>1. NoFile(j) /\ \A i \in Slots : ~ Writes(i, j)
    BY <1>2 DEF Untouched, Writes
  <2>2. Mover(j) = {} /\ Where(j) = {}
    BY <1>1, <2>1 DEF Where, Readable, NoFile, Absent
  <2>3. QED
    BY <1>2, <2>2 DEF Reads, StatusOf, RetriesOf
<1>3. ASSUME phase[j] # "new", NEW i \in Slots, Writes(i, j)
      PROVE  Reads(j, command[i].from, command[i].count)
  <2>1. Mover(j) # {} /\ \A k \in Mover(j) : k = i
    BY <1>1, <1>3 DEF Calm, OneHandler, Writes
  <2>2. (CHOOSE k \in Mover(j) : TRUE) = i
    BY <2>1
  <2>3. QED
    BY <1>3, <2>1, <2>2 DEF Reads, StatusOf, RetriesOf
<1>4. ASSUME phase[j] # "new", \A i \in Slots : ~ Writes(i, j), NEW s \in Status, Readable(j, s)
      PROVE  Reads(j, s, copy[j][s])
  <2>1. Mover(j) = {}
    BY <1>1, <1>4
  <2>2. Where(j) # {} /\ \A u \in Where(j) : u = s
    BY <1>4 DEF Where, Calm, SoleFile, Readable, Absent
  <2>3. (CHOOSE u \in Where(j) : TRUE) = s
    BY <2>2
  <2>4. QED
    BY <1>4, <2>1, <2>2, <2>3 DEF Reads, StatusOf, RetriesOf
<1>5. ASSUME phase[j] # "new", \A i \in Slots : ~ Writes(i, j), \A s \in Status : ~ Readable(j, s)
      PROVE  Reads(j, "gone", 0)
  <2>1. Mover(j) = {} /\ Where(j) = {}
    BY <1>1, <1>5 DEF Where
  <2>2. QED
    BY <1>5, <2>1 DEF Reads, StatusOf, RetriesOf
<1>6. QED
  BY <1>2, <1>3, <1>4, <1>5 DEF Seen

(* The same in the state after a step.                                           *)
LEMMA CalmIsSeenNext == SeenWhenCalm'
BY CalmIsSeen, PTL

-------------------------------------------------------------------------------
(* Steps of the lifecycle.                                                       *)

Same(j) == StatusOf(j)' = StatusOf(j) /\ RetriesOf(j)' = RetriesOf(j)

(* A job that is promised its lifecycle before the step and after it.             *)
Kept(j) == j \notin raced /\ j \notin raced'

LEMMA MoveMaps ==
  ASSUME NEW x \in Jobs, NEW before, NEW after, NEW n, StatusOf(x) \in before,
         Reads(x, after, n)'
  PROVE  Life!Move(x, before, after, n)
BY DEF Life!Move, Reads

-------------------------------------------------------------------------------
(* Every job that was not raced is calm, and so is seen.                         *)

Sound == TypeOK /\ Accounted /\ Settled /\ AllCalm

LEMMA AlwaysSound == Spec => []Sound
<1>1. TypeOK /\ Accounted /\ (Settled /\ AllCalm) => Sound
  BY DEF Sound
<1>2. QED
  BY <1>1, QueueTypeCorrect, AlwaysAccounted, AlwaysCalm, PTL

LEMMA SoundIsSeen ==
  ASSUME Sound, NEW j \in Jobs \ raced
  PROVE  Seen(j)
BY CalmIsSeen DEF Sound, Settled, AllCalm, SeenWhenCalm

LEMMA SoundIsSeenNext ==
  ASSUME Sound', NEW j \in Jobs, j \notin raced'
  PROVE  Seen(j)'
BY CalmIsSeenNext DEF Sound, Settled, AllCalm, SeenWhenCalm

(* A job whose file, phase and writers stay is seen as before.                   *)
LEMMA SameKept ==
  ASSUME Sound, Sound', NEW j \in Jobs, Kept(j), copy'[j] = copy[j], phase'[j] = phase[j],
         \A i \in Slots : Writes(i, j)' <=> Writes(i, j),
         \A i \in Slots : Writes(i, j) => /\ command'[i].from = command[i].from
                                          /\ command'[i].count = command[i].count
  PROVE  Same(j)
<1>1. Seen(j) /\ Seen(j)'
  BY SoundIsSeen, SoundIsSeenNext DEF Kept
<1>2. CASE phase[j] = "new"
  BY <1>1, <1>2 DEF Seen, Reads, Same
<1>3. CASE phase[j] # "new" /\ \E i \in Slots : Writes(i, j)
  BY <1>1, <1>3 DEF Seen, Reads, Same
<1>4. CASE phase[j] # "new" /\ \A i \in Slots : ~ Writes(i, j)
  <2>1. \A s \in Status : Readable(j, s)' <=> Readable(j, s)
    BY DEF Readable
  <2>2. QED
    BY <1>1, <1>4, <2>1 DEF Seen, Reads, Same
<1>5. QED
  BY <1>2, <1>3, <1>4

-------------------------------------------------------------------------------
(* The steps of a command.                                                       *)

(* The jobs of other commands are seen as before.                                *)
LEMMA OthersSame ==
  ASSUME Sound, Sound', NEW i \in Slots, HandlerStep(i) \/ WriteFails(i),
         NEW j \in Jobs, Kept(j), j # command[i].job
  PROVE  Same(j)
<1> DEFINE x == command[i].job
<1>0. command[i] \in Command /\ x \in Jobs
  BY BusyIsCommand DEF HandlerStep, GetPending, GetRunning, Unlink, Write, OpenProgress,
                       WriteProgress, WriteFails, Sound
<1>1. copy'[j] = copy[j] /\ phase'[j] = phase[j]
  BY <1>0 DEF HandlerStep, GetPending, GetRunning, Unlink, Write, OpenProgress,
              WriteProgress, WriteFails, Sound, TypeOK, historyVars
<1>2. /\ \A k \in Slots \ {i} : command'[k] = command[k]
      /\ command'[i].job # j
  <2>1. CASE command' = [command EXCEPT ![i] = Free]
    BY <2>1, EndTyped, FreeIsNoCommand DEF Sound
  <2>2. ASSUME NEW at, NEW from, NEW count, Proceed(i, at, from, count)
        PROVE  /\ \A k \in Slots \ {i} : command'[k] = command[k]
               /\ command'[i].job # j
    <3>1. command' = [command EXCEPT ![i] = [command[i] EXCEPT !.at = at, !.from = from, !.count = count]]
      BY <2>2 DEF Proceed
    <3> DEFINE new == [command[i] EXCEPT !.at = at, !.from = from, !.count = count]
    <3>2. new.job = x
      BY <1>0 DEF Command
    <3> HIDE DEF new
    <3>3. command'[i] = new /\ \A k \in Slots \ {i} : command'[k] = command[k]
      BY <3>1 DEF TypeOK, new, Sound
    <3>4. QED
      BY <3>2, <3>3
  <2>3. QED
    BY <2>1, <2>2 DEF HandlerStep, GetPending, GetRunning, Unlink, Write, OpenProgress,
                      WriteProgress, WriteFails, Decline
<1>3. QED
  BY <1>1, <1>2, SameKept DEF Writes

(* Looking for the job and unlinking or emptying its file change nothing that    *)
(* is seen.                                                                      *)
LEMMA ReadingMaps ==
  ASSUME Sound, Sound', NEW i \in Slots,
         GetPending(i) \/ GetRunning(i) \/ Unlink(i) \/ OpenProgress(i) \/ WriteProgress(i),
         NEW j \in Jobs, Kept(j)
  PROVE  Same(j)
<1> DEFINE x == command[i].job
<1>0. TypeOK /\ command[i] \in Command /\ x \in Jobs /\ command[i].count \in Nat
  BY BusyIsCommand DEF GetPending, GetRunning, Unlink, OpenProgress, WriteProgress, Sound, Command
<1>a. PICK c \in Nat : c = command[i].count
  BY <1>0
<1>1. CASE j # x
  BY <1>1, OthersSame DEF HandlerStep
<1>2. CASE j = x
  <2>1. Calm(j) /\ Seen(j) /\ Seen(j)' /\ phase[j] # "new" /\ phase'[j] = phase[j]
    <3>1. Calm(j) /\ Seen(j) /\ Seen(j)'
      BY SoundIsSeen, SoundIsSeenNext DEF Sound, AllCalm, Kept
    <3>2. phase[j] # "new"
      BY <1>2 DEF Sound, Settled, Untouched
    <3>3. phase'[j] = phase[j]
      BY DEF GetPending, GetRunning, Unlink, OpenProgress, WriteProgress, historyVars
    <3>4. QED
      BY <3>1, <3>2, <3>3
  <2>2. \A k \in Slots : command[k].job = j => k = i
    BY <1>2, <2>1 DEF Calm, OneHandler
  <2>3. CASE GetPending(i) \/ GetRunning(i)
    <3>1. UNCHANGED copy /\ ~ Writes(i, j)
      BY <2>3 DEF GetPending, GetRunning, Writes
    <3>2. /\ \A k \in Slots \ {i} : command'[k] = command[k]
          /\ command'[i].at # "write"
      <4>1. CASE Decline(i)
        BY <1>0, <4>1, EndTyped DEF Decline, Free
      <4>2. ASSUME NEW at \in Busy, at # "write", NEW from \in {"pending", "running"},
                   NEW count \in Nat, Proceed(i, at, from, count)
            PROVE  /\ \A k \in Slots \ {i} : command'[k] = command[k]
                   /\ command'[i].at # "write"
        BY <1>0, <4>2, ProceedFields
      <4>3. ASSUME NEW s \in {"pending", "running"}, Readable(x, s)
            PROVE  copy[x][s] \in Nat
        BY <1>0, <4>3, ReadableCount DEF Status
      <4>4. QED
        BY <2>3, <4>1, <4>2, <4>3 DEF GetPending, GetRunning, Busy
    <3>3. QED
      BY <2>1, <3>1, <3>2, SameKept DEF Writes
  <2>4. ASSUME NEW s \in {"pending", "running"}, Proceed(i, "write", s, c), ~ Writes(i, j),
               Readable(j, s), copy[j][s] = c
        PROVE  Same(j)
    <3>1. /\ command'[i].at = "write" /\ command'[i].from = s /\ command'[i].count = c
          /\ command'[i].job = j
      BY <1>0, <1>2, <2>4, ProceedFields DEF Busy
    <3>2. Reads(j, s, c)'
      BY <2>1, <3>1 DEF Seen, Writes
    <3>3. \A k \in Slots : ~ Writes(k, j)
      BY <2>2, <2>4 DEF Writes
    <3>4. Reads(j, s, c)
      BY <2>1, <2>4, <3>3 DEF Seen, Status
    <3>5. QED
      BY <3>2, <3>4 DEF Reads, Same
  <2>5. CASE Unlink(i)
    <3>1. /\ Proceed(i, "write", command[i].from, c) /\ command[i].from \in {"pending", "running"}
          /\ ~ Writes(i, j) /\ Readable(j, command[i].from) /\ copy[j][command[i].from] = c
      BY <1>0, <1>a, <1>2, <2>1, <2>5 DEF Unlink, Command, Writes, Calm, Fits
    <3>2. QED
      BY <2>4, <3>1
  <2>6. CASE OpenProgress(i)
    <3>1. /\ Proceed(i, "write", "running", c)
          /\ ~ Writes(i, j) /\ Readable(j, "running") /\ copy[j]["running"] = c
      BY <1>a, <1>2, <2>1, <2>6 DEF OpenProgress, Writes, Calm, Fits
    <3>2. QED
      BY <2>4, <3>1
  <2>7. CASE WriteProgress(i)
    <3>1. Writes(i, j) /\ command[i].from = "running" /\ copy[j]["running"] = Torn
      BY <1>2, <2>1, <2>7 DEF WriteProgress, Writes, Calm, Fits, Sound, Settled, MovesFit
    <3>2. Reads(j, "running", c)
      BY <1>a, <2>1, <3>1 DEF Seen
    <3>3. \A k \in Slots : ~ Writes(k, j)'
      BY <1>0, <2>2, <2>7, EndTyped, FreeIsNoCommand DEF WriteProgress, Writes
    <3>4. copy'[j]["running"] = c
      BY <1>0, <1>a, <1>2, <2>7, <3>1 DEF WriteProgress, TypeOK, Status
    <3>5. Reads(j, "running", c)'
      BY <1>0, <2>1, <3>3, <3>4 DEF Seen, Readable, Status
    <3>6. QED
      BY <3>2, <3>5 DEF Reads, Same
  <2>8. QED
    BY <2>3, <2>5, <2>6, <2>7
<1>3. QED
  BY <1>1, <1>2


(* updateJob's write is the move of the lifecycle its kind of command stands for.*)
LEMMA WriteMaps ==
  ASSUME Sound, Sound', NEW i \in Slots, Write(i), Kept(command[i].job)
  PROVE  Life!JobMoves(command[i].job)
<1>0. TypeOK /\ command[i] \in Command /\ command[i].job \in Jobs
  BY BusyIsCommand DEF Write, Sound
<1>1. PICK x \in Jobs, s \in {"pending", "running"}, c \in Nat :
         x = command[i].job /\ s = command[i].from /\ c = command[i].count
  BY <1>0 DEF Command
<1>2. PICK d \in Status, n \in Nat : d = Destination(i) /\ n = NewCount(i)
  BY <1>0, DestinationTyped
<1>3. Calm(x) /\ Seen(x) /\ Seen(x)' /\ phase[x] # "new" /\ phase'[x] = phase[x]
  <2>1. Calm(x) /\ Seen(x) /\ Seen(x)'
    BY <1>1, SoundIsSeen, SoundIsSeenNext DEF Sound, AllCalm, Kept
  <2>2. phase[x] # "new"
    BY <1>1 DEF Sound, Settled, Untouched
  <2>3. phase'[x] = phase[x]
    BY DEF Write
  <2>4. QED
    BY <2>1, <2>2, <2>3
<1>4. Reads(x, s, c)
  BY <1>1, <1>3 DEF Seen, Writes, Write
<1>5. copy'[x][d] = n
  BY <1>0, <1>1, <1>2 DEF Write, TypeOK
<1>6. \A k \in Slots : ~ Writes(k, x)'
  <2>1. \A k \in Slots : command[k].job = x => k = i
    BY <1>1, <1>3 DEF Calm, OneHandler
  <2>2. QED
    BY <1>0, <2>1, EndTyped, FreeIsNoCommand DEF Write, Writes
<1>7. Reads(x, d, n)'
  BY <1>3, <1>5, <1>6 DEF Seen, Readable
<1>9. StatusOf(x) = s /\ RetriesOf(x) = c
  BY <1>4 DEF Reads
<1>10. ASSUME NEW before, s \in before
       PROVE  Life!Move(x, before, d, n)
  BY <1>7, <1>9, <1>10, MoveMaps
<1>11. command[i].kind \in {"claim", "complete", "fail", "cancel"}
  BY <1>0 DEF Write, Command, Kinds
<1>12. CASE command[i].kind = "claim"
  <2>1. s = "pending" /\ d = "running" /\ n = c
    BY <1>1, <1>2, <1>12 DEF Sound, Settled, MovesFit, Write, Destination, NewCount, Retries
  <2>2. Life!Claim(x)
    BY <1>9, <1>10, <2>1 DEF Life!Claim
  <2>3. QED
    BY <1>1, <2>2 DEF Life!JobMoves
<1>13. CASE command[i].kind = "complete"
  <2>1. s = "running" /\ d = "complete" /\ n = c
    BY <1>1, <1>2, <1>13 DEF Sound, Settled, MovesFit, Write, Destination, NewCount, Retries
  <2>2. Life!Complete(x)
    BY <1>9, <1>10, <2>1 DEF Life!Complete
  <2>3. QED
    BY <1>1, <2>2 DEF Life!JobMoves
<1>14. CASE command[i].kind = "cancel"
  <2>1. d = "cancelled" /\ n = c
    BY <1>1, <1>2, <1>14 DEF Destination, NewCount, Retries
  <2>2. Life!Cancel(x)
    BY <1>9, <1>10, <2>1 DEF Life!Cancel
  <2>3. QED
    BY <1>1, <2>2 DEF Life!JobMoves
<1>15. CASE command[i].kind = "fail"
  <2>1. s = "running" /\ c <= MaxRetries[x] /\ MaxRetries[x] \in Nat
    BY <1>0, <1>1, <1>15, RetriesAssumption, FreeIsNoCommand
       DEF Sound, Settled, MovesFit, Write, Accounted, CountsBounded
  <2>2. CASE c < MaxRetries[x]
    <3>1. d = "pending" /\ n = c + 1
      BY <1>1, <1>2, <1>15, <2>2 DEF Destination, NewCount, Retries
    <3>2. Life!Retry(x)
      BY <1>9, <1>10, <2>1, <2>2, <3>1 DEF Life!Retry
    <3>3. QED
      BY <1>1, <3>2 DEF Life!JobMoves
  <2>3. CASE c = MaxRetries[x]
    <3>1. d = "failed" /\ n = c
      BY <1>1, <1>2, <1>15, <2>1, <2>3 DEF Destination, NewCount, Retries
    <3>2. Life!Fail(x)
      BY <1>9, <1>10, <2>1, <2>3, <3>1 DEF Life!Fail
    <3>3. QED
      BY <1>1, <3>2 DEF Life!JobMoves
  <2>4. QED
    BY <2>1, <2>2, <2>3
<1>16. QED
  BY <1>11, <1>12, <1>13, <1>14, <1>15

-------------------------------------------------------------------------------
(* Faults lose the job of the command that was about to write.                   *)
LEMMA LossMaps ==
  ASSUME Sound, Sound', faults < MaxFaults, NEW i \in Slots, command[i].at = "write",
         NEW x \in Jobs, x = command[i].job, UNCHANGED copy, phase'[x] = "lost",
         command'[i] = Free, \A k \in Slots : command'[k] \in {command[k], Free}, Kept(x)
  PROVE  Life!JobMoves(x)
<1>0. TypeOK /\ command[i] \in Command
  BY BusyIsCommand DEF Sound
<1>1. PICK s \in {"pending", "running"}, c \in Nat : s = command[i].from /\ c = command[i].count
  BY <1>0 DEF Command
<1>2. Calm(x) /\ Seen(x) /\ Seen(x)' /\ phase[x] # "new"
  <2>1. Calm(x) /\ Seen(x) /\ Seen(x)'
    BY SoundIsSeen, SoundIsSeenNext DEF Sound, AllCalm, Kept
  <2>2. phase[x] # "new"
    BY DEF Sound, Settled, Untouched
  <2>3. QED
    BY <2>1, <2>2
<1>3. StatusOf(x) = s
  BY <1>1, <1>2 DEF Seen, Writes, Reads
<1>4. \A k \in Slots : ~ Writes(k, x)'
  BY <1>2, FreeIsNoCommand DEF Calm, OneHandler, Writes
<1>5. \A u \in Status : ~ Readable(x, u)'
  <2>1. CASE command[i].kind # "progress"
    BY <1>2, <2>1 DEF Calm, Fits, NoFile, Readable, Absent
  <2>2. CASE command[i].kind = "progress"
    <3>1. copy[x]["running"] = Torn
      BY <1>2, <2>2 DEF Calm, Fits
    <3>2. \A u \in Status \ {"running"} : copy[x][u] = Absent
      BY <1>2, <3>1 DEF Calm, SoleFile, Torn, Absent, Status
    <3>3. QED
      BY <3>1, <3>2 DEF Readable, Torn, Absent
  <2>3. QED
    BY <2>1, <2>2
<1>6. Reads(x, "gone", 0)'
  BY <1>2, <1>4, <1>5 DEF Seen
<1>7. Life!Move(x, {"pending", "running"}, "gone", 0)
  BY <1>3, <1>6, MoveMaps
<1>8. MaxFaults > 0
  BY FaultsAssumption DEF Sound, TypeOK
<1>9. Life!Lose(x)
  BY <1>7, <1>8 DEF Life!Lose
<1>10. QED
  BY <1>9 DEF Life!JobMoves

LEMMA RestartMaps ==
  ASSUME Sound, Sound', Restart, NEW j \in Jobs, Kept(j)
  PROVE  Life!JobMoves(j) \/ Same(j)
<1>1. /\ UNCHANGED copy /\ faults < MaxFaults /\ \A k \in Slots : command'[k] = Free
      /\ phase'[j] = IF \E i \in Slots : Writes(i, j) THEN "lost" ELSE phase[j]
  BY DEF Restart, Handling, Writes
<1>2. CASE \A i \in Slots : ~ Writes(i, j)
  BY <1>1, <1>2, SameKept, FreeIsNoCommand DEF Writes
<1>3. ASSUME NEW i \in Slots, Writes(i, j)
      PROVE  Life!JobMoves(j)
  BY <1>1, <1>3, LossMaps DEF Writes
<1>4. QED
  BY <1>2, <1>3

-------------------------------------------------------------------------------
(* The other steps.                                                              *)

LEMMA CreateMaps ==
  ASSUME Sound, Sound', NEW x \in Jobs, CreateJob(x), Kept(x)
  PROVE  Life!JobMoves(x)
<1>1. /\ phase[x] = "new" /\ phase' = [phase EXCEPT ![x] = "created"]
      /\ copy' = [copy EXCEPT ![x]["pending"] = 0] /\ UNCHANGED command
  BY DEF CreateJob
<1>2. Seen(x) /\ Seen(x)'
  BY SoundIsSeen, SoundIsSeenNext DEF Kept
<1>3. StatusOf(x) = "none"
  BY <1>1, <1>2 DEF Seen, Reads
<1>4. \A k \in Slots : ~ Writes(k, x)'
  BY <1>1 DEF Sound, Settled, Untouched, Writes
<1>5. phase'[x] = "created" /\ copy'[x]["pending"] = 0 /\ "pending" \in Status
  BY <1>1 DEF Sound, TypeOK, Status
<1>6. Reads(x, "pending", 0)'
  BY <1>2, <1>4, <1>5 DEF Seen, Readable
<1>7. Life!Create(x)
  BY <1>3, <1>6, MoveMaps DEF Life!Create
<1>8. QED
  BY <1>7 DEF Life!JobMoves

LEMMA PruneMaps ==
  ASSUME Sound, Sound', NEW x \in Jobs, NEW s \in Terminal, Prune(x, s), Kept(x)
  PROVE  Life!JobMoves(x)
<1>1. /\ Handling(x) = {} /\ Readable(x, s) /\ phase' = [phase EXCEPT ![x] = "pruned"]
      /\ copy' = [copy EXCEPT ![x][s] = Absent] /\ UNCHANGED command
  BY DEF Prune
<1>2. Seen(x) /\ Seen(x)' /\ Calm(x)
  BY SoundIsSeen, SoundIsSeenNext DEF Sound, AllCalm, Kept
<1>3. s \in Status /\ copy[x][s] # Absent
  BY <1>1 DEF Status, Readable, Absent
<1>4. phase[x] # "new"
  BY <1>3, KnownJobs DEF Sound, Settled
<1>5. \A k \in Slots : ~ Writes(k, x) /\ ~ Writes(k, x)'
  BY <1>1 DEF Handling, Writes
<1>6. StatusOf(x) = s
  BY <1>1, <1>2, <1>3, <1>4, <1>5 DEF Seen, Reads
<1>7. phase'[x] = "pruned" /\ \A u \in Status : copy'[x][u] = Absent
  BY <1>1, <1>2, <1>3 DEF Sound, TypeOK, Calm, SoleFile
<1>8. Reads(x, "gone", 0)'
  BY <1>2, <1>5, <1>7 DEF Seen, Readable, Absent
<1>9. Life!Prune(x)
  BY <1>6, <1>8, MoveMaps DEF Life!Prune, Life!Over, Terminal
<1>10. QED
  BY <1>9 DEF Life!JobMoves

(* The other jobs, when one is created or pruned.                                *)
LEMMA OtherFilesSame ==
  ASSUME Sound, Sound', NEW x \in Jobs, CreateJob(x) \/ \E s \in Terminal : Prune(x, s),
         NEW j \in Jobs \ {x}, Kept(j)
  PROVE  Same(j)
BY SameKept DEF CreateJob, Prune, Writes, Sound, TypeOK

(* Posts, announcements, timers and what workers do on their own are not seen.   *)
LEMMA UnseenMaps ==
  ASSUME Sound, Sound', NEW j \in Jobs, Kept(j), UNCHANGED <<copy, phase>>,
         \/ UNCHANGED command
         \/ \E w \in Workers : command' = Abandon(w)
         \/ \E i \in Slots, kind \in Kinds, x \in Jobs, w \in Workers \cup {NoWorker} :
               Start(i, kind, x, w)
  PROVE  Same(j)
<1>1. CASE UNCHANGED command
  BY <1>1, SameKept DEF Writes
<1>2. CASE \E w \in Workers : command' = Abandon(w)
  <2>1. \A i \in Slots : SameCommand(command[i], command'[i])
    BY <1>2, AbandonTyped DEF Sound, SameCommand
  <2>2. QED
    BY <2>1, SameKept DEF SameCommand, Writes
<1>3. CASE \E i \in Slots, kind \in Kinds, x \in Jobs, w \in Workers \cup {NoWorker} :
              Start(i, kind, x, w)
  <2>1. PICK i \in Slots, kind \in Kinds, x \in Jobs, w \in Workers \cup {NoWorker} :
           Start(i, kind, x, w)
    BY <1>3
  <2>2. /\ command'[i] = [kind |-> kind, job |-> x, worker |-> w, at |-> "getPending",
                          from |-> "pending", count |-> 0]
        /\ \A k \in Slots \ {i} : command'[k] = command[k]
        /\ command[i] = Free
    BY <2>1, StartTyped DEF Sound
  <2>3. command'[i].at = "getPending" /\ command[i].at = "done"
    BY <2>2 DEF Free
  <2>4. QED
    BY <2>2, <2>3, SameKept DEF Writes
<1>4. QED
  BY <1>1, <1>2, <1>3


(* A second command may be entered in every status of a job that was created.    *)
LEMMA RaceMaps ==
  ASSUME Sound, [Next]_vars, NEW j \in Jobs, j \notin raced, j \in raced'
  PROVE  Life!Race(j)
<1>1. Handling(j) # {}
  BY OnlyHandledRace DEF Sound
<1>2. phase[j] # "new" /\ Seen(j)
  BY <1>1, SoundIsSeen DEF Sound, Settled, Untouched, Handling
<1>3. StatusOf(j) \in Life!Known
  <2>1. ASSUME NEW i \in Slots, Writes(i, j)
        PROVE  StatusOf(j) \in {"pending", "running"}
    <3>1. command[i] \in Command
      BY <2>1, BusyIsCommand DEF Writes, Sound
    <3>2. QED
      BY <1>2, <2>1, <3>1 DEF Seen, Reads, Command
  <2>2. CASE \A i \in Slots : ~ Writes(i, j)
    BY <1>2, <2>2 DEF Seen, Reads, Life!Known, Life!Over, Status, Terminal
  <2>3. QED
    BY <2>1, <2>2 DEF Life!Known
<1>4. Reads(j, "raced", 0)'
  BY DEF Reads, StatusOf, RetriesOf
<1>5. QED
  BY <1>3, <1>4, MoveMaps DEF Life!Race

(* Every step moves a job along its lifecycle or is not seen of it.              *)
LEMMA StepsMap ==
  ASSUME Sound, Sound', [Next]_vars, NEW j \in Jobs, Kept(j)
  PROVE  Life!JobMoves(j) \/ Same(j)
<1>1. ASSUME NEW kind \in Kinds, NEW x \in Jobs, NEW w \in Workers \cup {NoWorker},
             (\E i \in Slots : Start(i, kind, x, w)) \/ UNCHANGED <<command, raced>>,
             UNCHANGED <<copy, phase>>
      PROVE  Same(j)
  BY <1>1, UnseenMaps
<1>2. ASSUME NEW i \in Slots, HandlerStep(i)
      PROVE  Life!JobMoves(j) \/ Same(j)
  <2>1. CASE j # command[i].job
    BY <1>2, <2>1, OthersSame
  <2>2. CASE j = command[i].job
    BY <1>2, <2>2, ReadingMaps, WriteMaps DEF HandlerStep
  <2>3. QED
    BY <2>1, <2>2
<1>3. ASSUME NEW i \in Slots, WriteFails(i)
      PROVE  Life!JobMoves(j) \/ Same(j)
  <2>1. command'[i] = Free /\ \A k \in Slots : command'[k] \in {command[k], Free}
    BY <1>3, EndTyped DEF WriteFails, Sound
  <2>2. CASE j = command[i].job
    <3>1. faults < MaxFaults /\ command[i].at = "write" /\ UNCHANGED copy /\ phase'[j] = "lost"
      BY <1>3, <2>2 DEF WriteFails, Sound, TypeOK
    <3>2. QED
      BY <2>1, <2>2, <3>1, LossMaps
  <2>3. CASE j # command[i].job
    BY <1>3, <2>3, OthersSame
  <2>4. QED
    BY <2>2, <2>3
<1>4. ASSUME NEW x \in Jobs, CreateJob(x) \/ \E s \in Terminal : Prune(x, s)
      PROVE  Life!JobMoves(j) \/ Same(j)
  BY <1>4, CreateMaps, PruneMaps, OtherFilesSame
<1>5. ASSUME NEW i \in Slots, NEW x \in Jobs,
             RecoverStale(i, x) \/ CancelNext(i, x) \/ DeliverFailure(i, x)
      PROVE  Same(j)
  <2>1. UNCHANGED <<copy, phase>> /\ \E kind \in Kinds : Start(i, kind, x, NoWorker)
    BY <1>5 DEF RecoverStale, CancelNext, DeliverFailure, Kinds
  <2>2. QED
    BY <1>1, <2>1
<1>6. ASSUME NEW w \in Workers, WorkerStep(w)
      PROVE  Same(j)
  <2>1. UNCHANGED <<copy, phase>>
    BY <1>6 DEF WorkerStep, ReceiveReply, ClaimFails, Finish, FinishAcknowledged, JobThrows,
                queueVars, historyVars
  <2>2. CASE ReceiveReply(w) \/ FinishAcknowledged(w) \/ JobThrows(w) \/ ClaimFails(w)
    <3>1. UNCHANGED command \/ command' = Abandon(w)
      BY <2>2 DEF ReceiveReply, ClaimFails, FinishAcknowledged, JobThrows, queueVars
    <3>2. QED
      BY <2>1, <3>1, UnseenMaps
  <2>3. CASE Finish(w)
    <3>1. /\ worker[w].job \in Jobs /\ "complete" \in Kinds
          /\ (\E i \in Slots : Start(i, "complete", worker[w].job, NoWorker)) \/ UNCHANGED <<command, raced>>
      BY <2>3, BusyWorkerHasJob DEF Finish, Sound, Kinds
    <3>2. QED
      BY <1>1, <2>1, <3>1
  <2>4. QED
    BY <1>6, <2>2, <2>3 DEF WorkerStep
<1>7. ASSUME NEW w \in Workers, NEW x \in Jobs, HearQueued(w, x)
      PROVE  Same(j)
  <2>1. /\ (\E i \in Slots : Start(i, "claim", x, w)) \/ UNCHANGED <<command, raced>>
        /\ UNCHANGED <<copy, phase>>
    BY <1>7 DEF HearQueued
  <2>2. QED
    BY <1>1, <2>1 DEF Kinds
<1>8. ASSUME NEW i \in Slots, NEW w \in Workers, ReportProgress(i, w)
      PROVE  Same(j)
  <2>1. /\ worker[w].job \in Jobs /\ "progress" \in Kinds /\ UNCHANGED <<copy, phase>>
        /\ Start(i, "progress", worker[w].job, NoWorker)
    BY <1>8, BusyWorkerHasJob DEF ReportProgress, Sound, Kinds
  <2>2. QED
    BY <1>1, <2>1
<1>9. ASSUME \/ \E x \in Jobs : GoQuiet(x) \/ LoseFailure(x)
             \/ CancelRequested \/ UNCHANGED vars
      PROVE  Same(j)
  BY <1>9, UnseenMaps DEF GoQuiet, LoseFailure, CancelRequested, vars, queueVars, historyVars
<1>10. CASE Restart
  BY <1>10, RestartMaps
<1>11. QED
  BY <1>2, <1>3, <1>4, <1>5, <1>6, <1>7, <1>8, <1>9, <1>10 DEF Next

(* The commands of the queue, with their crashes, refused writes, lost answers   *)
(* and repeated announcements, take every job through its lifecycle: pending,    *)
(* running, back to pending while retries are left, over.  Commands of different *)
(* jobs interleave as they like; nothing in the code keeps the commands of one   *)
(* job apart, and where two meet the promise for that job, and no other, ends.   *)
THEOREM QueueImplementsLifecycle == Spec => ImplementsLifecycle
<1>1. Init => Life!LifeInit
  <2> SUFFICES ASSUME Init
               PROVE  Life!LifeInit
    OBVIOUS
  <2>1. ASSUME NEW j \in Jobs
        PROVE  StatusOf(j) = "none" /\ RetriesOf(j) = 0
    <3>1. Mover(j) = {}
      BY FreeIsNoCommand DEF Init, Mover, Handling
    <3>2. Where(j) = {} /\ phase[j] = "new" /\ j \notin raced
      BY DEF Init, Where, Readable, Absent
    <3>3. QED
      BY <3>1, <3>2 DEF StatusOf, RetriesOf
  <2>2. QED
    BY <2>1 DEF Life!LifeInit
<1>2. Sound /\ Sound' /\ [Next]_vars =>
        [Life!LifeNext]_<<[j \in Jobs |-> StatusOf(j)], [j \in Jobs |-> RetriesOf(j)]>>
  <2> SUFFICES ASSUME Sound, Sound', [Next]_vars
               PROVE  Life!LifeNext
    OBVIOUS
  <2>1. ASSUME NEW j \in Jobs
        PROVE  Life!JobMoves(j) \/ Same(j)
    <3>1. CASE j \in raced
      BY <3>1, RacedGrows DEF Same, StatusOf, RetriesOf
    <3>2. CASE j \notin raced /\ j \in raced'
      BY <3>2, RaceMaps DEF Life!JobMoves
    <3>3. CASE Kept(j)
      BY <3>3, StepsMap
    <3>4. QED
      BY <3>1, <3>2, <3>3 DEF Kept
  <2>2. QED
    BY <2>1 DEF Life!LifeNext, Same
<1>3. QED
  BY <1>1, <1>2, AlwaysSound, PTL DEF Spec, ImplementsLifecycle, Life!LifeSpec


===============================================================================
