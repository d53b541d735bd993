-------------------------------- MODULE JobQueue --------------------------------
(* The filesystem job queue and its workers:                                    *)
(* packages/jobs/src/fs-job-queue.ts, the command handlers of                   *)
(* packages/make-meaning/src/handlers/job-commands.ts, and the claiming side of *)
(* packages/jobs/src/job-claim-adapter.ts and worker-process.ts.                *)
(*                                                                              *)
(* A job is a JSON file in the directory named after its status.  A command     *)
(* reads the directories in turn for the job (getJob), decides, unlinks the     *)
(* file it found and writes the new one (updateJob).  Each of these filesystem  *)
(* calls is awaited and is an action here; nothing keeps the commands of one    *)
(* job apart.  Of a job's data only retryCount is kept.                         *)
(*                                                                              *)
(* Workers are other processes: their emits are HTTP posts that can be lost or  *)
(* refused, what they wait for comes over SSE and can be lost, and they die.    *)
EXTENDS Integers, FiniteSets

CONSTANTS
  Jobs, NoJob,
  Workers, NoWorker,
  MaxRetries,     \* metadata.maxRetries of each job: 0 or 1 in the code
  Slots,          \* bound: the commands in progress at once
  MaxFaults       \* bound: crashes of the server and writes that fail

ASSUME NamesAssumption == NoJob \notin Jobs /\ NoWorker \notin Workers
ASSUME RetriesAssumption == MaxRetries \in [Jobs -> Nat]
ASSUME FaultsAssumption == MaxFaults \in Nat

VARIABLES
  copy,      \* disk: retryCount of the job's file in each directory, or Absent, Torn
  quiet,     \* disk: jobs whose running file was not touched for STALE_RUNNING_MS
  command,   \* memory: the command in each slot, and how far it is
  doomed,    \* memory: jobs listed by a cancel request and not yet cancelled
  worker,    \* each worker: what it is doing, and for which job
  failures,  \* network: job:fail posts on their way, nobody waiting for them
  phase,     \* history: new, created, pruned, or lost in the middle of a write
  raced,     \* history: jobs two commands were handling at once
  grants,    \* history: how often each job was given out before it was raced
  doubted,   \* history: jobs recovered as stale while a worker had them
  faults     \* history: faults so far

queueVars == <<copy, quiet, command, doomed>>
workerVars == <<worker, failures>>
historyVars == <<phase, grants, raced, doubted, faults>>
vars == <<queueVars, workerVars, historyVars>>

Terminal == {"complete", "failed", "cancelled"}
Status == {"pending", "running"} \cup Terminal

Absent == -1
Torn == -2           \* opened for writing and still empty: JSON.parse throws
Readable(j, s) == copy[j][s] >= 0

Kinds == {"claim", "complete", "fail", "progress", "cancel"}
Busy == {"getPending", "getRunning", "unlink", "open", "write"}
Command == [kind : Kinds, job : Jobs, worker : Workers \cup {NoWorker}, at : Busy,
            from : {"pending", "running"}, count : Nat]
Free == [kind |-> "none", job |-> NoJob, worker |-> NoWorker, at |-> "done",
         from |-> "pending", count |-> 0]

Waiting == {"claiming", "granted"}
Holding == {"working", "finishing"}
Idle == [at |-> "idle", job |-> NoJob]

TypeOK ==
  /\ copy \in [Jobs -> [Status -> Nat \cup {Absent, Torn}]]
  /\ quiet \in SUBSET Jobs
  /\ command \in [Slots -> Command \cup {Free}]
  /\ doomed \in SUBSET Jobs
  /\ worker \in [Workers -> [at : Waiting \cup Holding, job : Jobs] \cup {Idle}]
  /\ failures \in SUBSET Jobs
  /\ phase \in [Jobs -> {"new", "created", "pruned", "lost"}]
  /\ grants \in [Jobs -> Nat]
  /\ raced \in SUBSET Jobs /\ doubted \in SUBSET Jobs
  /\ faults \in 0 .. MaxFaults

Init ==
  /\ copy = [j \in Jobs |-> [s \in Status |-> Absent]]
  /\ quiet = {} /\ doomed = {} /\ failures = {}
  /\ command = [i \in Slots |-> Free]
  /\ worker = [w \in Workers |-> Idle]
  /\ phase = [j \in Jobs |-> "new"]
  /\ grants = [j \in Jobs |-> 0]
  /\ raced = {} /\ doubted = {} /\ faults = 0

Handling(j) == {i \in Slots : command[i].job = j}

-------------------------------------------------------------------------------
(* Commands.  A handler is entered synchronously when its event arrives.        *)

Start(i, kind, j, w) ==
  /\ command[i] = Free
  /\ command' = [command EXCEPT ![i] =
       [kind |-> kind, job |-> j, worker |-> w, at |-> "getPending",
        from |-> "pending", count |-> 0]]
  /\ raced' = IF Handling(j) = {} THEN raced ELSE raced \cup {j}

(* createJob; the announcement reaches the workers by HearQueued. *)
CreateJob(j) ==
  /\ phase[j] = "new"
  /\ phase' = [phase EXCEPT ![j] = "created"]
  /\ copy' = [copy EXCEPT ![j]["pending"] = 0]
  /\ UNCHANGED <<quiet, command, doomed, workerVars, grants, raced, doubted, faults>>

Proceed(i, at, from, count) ==
  command' = [command EXCEPT ![i].at = at, ![i].from = from, ![i].count = count]

(* The job is missing or not in a status the command applies to.  A claim       *)
(* answers job:claim-failed, which the worker takes as it takes no answer.      *)
Decline(i) == command' = [command EXCEPT ![i] = Free]

(* getJob looks in pending, then in running, then in the terminal directories,  *)
(* where every command that finds the job, or does not, changes nothing.        *)
GetPending(i) ==
  LET j == command[i].job
  IN  /\ command[i].at = "getPending"
      /\ \/ /\ Readable(j, "pending") /\ command[i].kind \in {"claim", "cancel"}
            /\ Proceed(i, "unlink", "pending", copy[j]["pending"])
         \/ /\ Readable(j, "pending") /\ command[i].kind \notin {"claim", "cancel"}
            /\ Decline(i)
         \/ ~Readable(j, "pending") /\ Proceed(i, "getRunning", "pending", 0)
      /\ UNCHANGED <<copy, quiet, doomed, workerVars, historyVars>>

(* Slip for the runs: progress is recorded for a job that is not running.       *)
GetRunningOrNot(i) ==
  /\ command[i].at = "getRunning"
  /\ \/ command[i].kind = "progress" /\ Proceed(i, "open", "running", 0)
     \/ command[i].kind # "progress" /\ Proceed(i, "unlink", "running", 0)
        /\ Readable(command[i].job, "running")
     \/ command[i].kind # "progress" /\ ~Readable(command[i].job, "running") /\ Decline(i)
  /\ UNCHANGED <<copy, quiet, doomed, workerVars, historyVars>>

GetRunning(i) ==
  LET j == command[i].job
  IN  /\ command[i].at = "getRunning"
      /\ \/ /\ Readable(j, "running") /\ command[i].kind \in {"complete", "fail", "cancel"}
            /\ Proceed(i, "unlink", "running", copy[j]["running"])
         \/ /\ Readable(j, "running") /\ command[i].kind = "progress"
            /\ Proceed(i, "open", "running", copy[j]["running"])
         \/ (~Readable(j, "running") \/ command[i].kind = "claim") /\ Decline(i)
      /\ UNCHANGED <<copy, quiet, doomed, workerVars, historyVars>>

(* Slip for the runs: the old file stays when a job is cancelled.               *)
UnlinkUnlessCancelled(i) ==
  LET j == command[i].job
  IN  /\ command[i].at = "unlink"
      /\ copy' = IF command[i].kind = "cancel" THEN copy
                  ELSE [copy EXCEPT ![j][command[i].from] = Absent]
      /\ Proceed(i, "write", command[i].from, command[i].count)
      /\ UNCHANGED <<quiet, doomed, workerVars, historyVars>>

(* Slip for the runs: the pending file stays when a job is claimed.             *)
UnlinkUnlessClaimed(i) ==
  LET j == command[i].job
  IN  /\ command[i].at = "unlink"
      /\ copy' = IF command[i].kind = "claim" THEN copy
                  ELSE [copy EXCEPT ![j][command[i].from] = Absent]
      /\ Proceed(i, "write", command[i].from, command[i].count)
      /\ UNCHANGED <<quiet, doomed, workerVars, historyVars>>

(* updateJob, first half; that the file is gone already is ignored. *)
Unlink(i) ==
  LET j == command[i].job
  IN  /\ command[i].at = "unlink"
      /\ copy' = [copy EXCEPT ![j][command[i].from] = Absent]
      /\ Proceed(i, "write", command[i].from, command[i].count)
      /\ UNCHANGED <<quiet, doomed, workerVars, historyVars>>

(* Slip for the runs: one retry too many.                                       *)
RetriesOnceMore(i) == command[i].kind = "fail" /\ command[i].count <= MaxRetries[command[i].job]

(* Where updateJob writes the job, and with which retryCount. *)
Retries(i) == command[i].kind = "fail" /\ command[i].count < MaxRetries[command[i].job]

Destination(i) ==
  CASE command[i].kind = "claim"    -> "running"
    [] command[i].kind = "complete" -> "complete"
    [] command[i].kind = "cancel"   -> "cancelled"
    [] OTHER -> IF Retries(i) THEN "pending" ELSE "failed"

(* Slip for the runs: a retry is not counted.                                   *)
NewCountKept(i) == command[i].count

NewCount(i) == IF Retries(i) THEN command[i].count + 1 ELSE command[i].count

(* Slip for the runs: the directory of the cancelled jobs was never made.       *)
WriteUnlessCancelled(i) ==
  /\ command[i].at = "write" /\ command[i].kind # "progress"
  /\ copy' = IF Destination(i) = "cancelled" THEN copy
              ELSE [copy EXCEPT ![command[i].job][Destination(i)] = NewCount(i)]
  /\ command' = [command EXCEPT ![i] = Free]
  /\ UNCHANGED <<quiet, doomed, workerVars, historyVars>>

(* updateJob, second half.  A claim is then answered on the correlation id of   *)
(* the request that asked; the answer to one that was given up reaches nobody.  *)
Write(i) ==
  LET j == command[i].job
      claimed == command[i].kind = "claim"
  IN  /\ command[i].at = "write" /\ command[i].kind # "progress"
      /\ copy' = [copy EXCEPT ![j][Destination(i)] = NewCount(i)]
      /\ quiet' = IF claimed THEN quiet \ {j} ELSE quiet
      /\ grants' = IF claimed /\ j \notin raced THEN [grants EXCEPT ![j] = @ + 1] ELSE grants
      /\ command' = [command EXCEPT ![i] = Free]
      /\ worker' = [w \in Workers |->
           IF claimed /\ w = command[i].worker THEN [at |-> "granted", job |-> j] ELSE worker[w]]
      /\ UNCHANGED <<doomed, failures, phase, raced, doubted, faults>>

(* recordProgress writes over the running file in place: writeFile opens it     *)
(* with truncation (creating it if it went away), then fills it.                *)
OpenProgress(i) ==
  LET j == command[i].job
  IN  /\ command[i].at = "open"
      /\ copy' = [copy EXCEPT ![j]["running"] = Torn]
      /\ quiet' = quiet \ {j}
      /\ Proceed(i, "write", "running", command[i].count)
      /\ UNCHANGED <<doomed, workerVars, historyVars>>

(* If the file was unlinked meanwhile the data goes with it.                    *)
WriteProgress(i) ==
  LET j == command[i].job
  IN  /\ command[i].at = "write" /\ command[i].kind = "progress"
      /\ copy' = IF copy[j]["running"] = Torn
                   THEN [copy EXCEPT ![j]["running"] = command[i].count] ELSE copy
      /\ command' = [command EXCEPT ![i] = Free]
      /\ UNCHANGED <<quiet, doomed, workerVars, historyVars>>

(* The write is refused (a full disk, say) and the handler logs the error.      *)
WriteFails(i) ==
  /\ faults < MaxFaults /\ faults' = faults + 1
  /\ command[i].at = "write"
  /\ command' = [command EXCEPT ![i] = Free]
  /\ phase' = [phase EXCEPT ![command[i].job] = "lost"]
  /\ UNCHANGED <<copy, quiet, doomed, workerVars, grants, raced, doubted>>

HandlerStep(i) ==
  \/ GetPending(i) \/ GetRunning(i) \/ Unlink(i) \/ Write(i)
  \/ OpenProgress(i) \/ WriteProgress(i)

-------------------------------------------------------------------------------
(* The server's timers, the cancel signal and crashes.                          *)

(* Half an hour passes without a write to the running file: no command, *)
(* claim (10 s) or post about the job takes that long.                          *)
GoQuiet(j) ==
  /\ copy[j]["running"] # Absent /\ j \notin quiet
  /\ Handling(j) = {} /\ j \notin failures
  /\ \A w \in Workers : worker[w].job = j => worker[w].at \in Holding
  /\ quiet' = quiet \cup {j}
  /\ UNCHANGED <<copy, command, doomed, workerVars, historyVars>>

(* recoverStaleRunningJobs: the file's age is read, then failJob is entered.    *)
RecoverStale(i, j) ==
  /\ copy[j]["running"] # Absent /\ j \in quiet
  /\ Start(i, "fail", j, NoWorker)
  /\ doubted' = IF j \notin raced' /\ (\E w \in Workers : worker[w].job = j)
                  THEN doubted \cup {j} ELSE doubted
  /\ UNCHANGED <<copy, quiet, doomed, workerVars, phase, grants, faults>>

(* cancelPendingJobs lists the pending jobs of a category, then passes them to  *)
(* cancelJob one after the other.  Bound: one such request at a time.           *)
CancelRequested ==
  /\ doomed = {}
  /\ doomed' = {j \in Jobs : Readable(j, "pending")} /\ doomed' # {}
  /\ UNCHANGED <<copy, quiet, command, workerVars, historyVars>>

CancelNext(i, j) ==
  /\ j \in doomed /\ \A k \in Slots : command[k].kind # "cancel"
  /\ doomed' = doomed \ {j}
  /\ Start(i, "cancel", j, NoWorker)
  /\ UNCHANGED <<copy, quiet, workerVars, phase, grants, doubted, faults>>

(* cleanupOldJobs: a terminal file is removed after a day. *)
Prune(j, s) ==
  /\ Handling(j) = {} /\ Readable(j, s)
  /\ copy' = [copy EXCEPT ![j][s] = Absent]
  /\ phase' = [phase EXCEPT ![j] = "pruned"]
  /\ UNCHANGED <<quiet, command, doomed, workerVars, grants, raced, doubted, faults>>

(* The server dies and comes back: commands in progress are dropped, whether or *)
(* not they were between the unlink and the write.                              *)
Restart ==
  /\ faults < MaxFaults /\ faults' = faults + 1
  /\ phase' = [j \in Jobs |->
       IF \E i \in Handling(j) : command[i].at = "write" THEN "lost" ELSE phase[j]]
  /\ command' = [i \in Slots |-> Free]
  /\ doomed' = {}
  /\ UNCHANGED <<copy, quiet, workerVars, grants, raced, doubted>>

-------------------------------------------------------------------------------
(* Workers.                                                                     *)

Become(w, at, j) == worker' = [worker EXCEPT ![w] = [at |-> at, job |-> j]]
Abandon(w) == [i \in Slots |->
  IF command[i].kind = "claim" /\ command[i].worker = w
    THEN [command[i] EXCEPT !.worker = NoWorker] ELSE command[i]]

(* Slip for the runs: only new jobs are announced.                              *)
HearQueuedOnce(w, j) ==
  /\ worker[w] = Idle /\ phase[j] # "new" /\ grants[j] = 0
  /\ Become(w, "claiming", j)
  /\ \E i \in Slots : Start(i, "claim", j, w)
  /\ UNCHANGED <<copy, quiet, doomed, failures, phase, grants, doubted, faults>>

(* The announcement of a pending job (job:queued, repeated every 30 s) reaches  *)
(* an idle worker, which posts job:claim.  It may come when the job is being    *)
(* moved; later still, the claim is refused and changes nothing.                *)
HearQueued(w, j) ==
  /\ worker[w] = Idle
  /\ Readable(j, "pending") \/ \E i \in Handling(j) : command[i].at \in {"unlink", "write"}
  /\ Become(w, "claiming", j)
  /\ \/ \E i \in Slots : Start(i, "claim", j, w)
     \/ UNCHANGED <<command, raced>>                 \* the post is lost
  /\ UNCHANGED <<copy, quiet, doomed, failures, phase, grants, doubted, faults>>

ReceiveReply(w) ==
  /\ worker[w].at = "granted" /\ Become(w, "working", worker[w].job)
  /\ UNCHANGED <<queueVars, failures, historyVars>>

(* Slip for the runs: the worker keeps the job it did not get.                  *)
ClaimFailsHalfway(w) ==
  /\ worker[w].at \in Waiting
  /\ worker' = [worker EXCEPT ![w].at = "idle"]
  /\ command' = Abandon(w)
  /\ UNCHANGED <<copy, quiet, doomed, failures, historyVars>>

(* No answer for ten seconds, a refusal, or the worker dies: it is ready for    *)
(* other announcements.                                                         *)
ClaimFails(w) ==
  /\ worker[w].at \in Waiting
  /\ worker' = [worker EXCEPT ![w] = Idle]
  /\ command' = Abandon(w)
  /\ UNCHANGED <<copy, quiet, doomed, failures, historyVars>>

(* Progress is posted without waiting, so it may still be handled when the job  *)
(* is over.                                                                     *)
ReportProgress(i, w) ==
  /\ worker[w].at = "working"
  /\ Start(i, "progress", worker[w].job, NoWorker)
  /\ UNCHANGED <<copy, quiet, doomed, workerVars, phase, grants, doubted, faults>>

(* The worker posts job:complete and waits for the HTTP response only.          *)
Finish(w) ==
  /\ worker[w].at = "working"
  /\ Become(w, "finishing", worker[w].job)
  /\ \/ \E i \in Slots : Start(i, "complete", worker[w].job, NoWorker)
     \/ UNCHANGED <<command, raced>>             \* lost, or refused by the gateway
  /\ UNCHANGED <<copy, quiet, doomed, failures, phase, grants, doubted, faults>>

(* Any HTTP response, an error status too, counts as done.                      *)
FinishAcknowledged(w) ==
  /\ worker[w].at = "finishing"
  /\ worker' = [worker EXCEPT ![w] = Idle]
  /\ UNCHANGED <<queueVars, failures, historyVars>>

(* The job, or the post of its completion, throws: job:fail is posted and not   *)
(* waited for.  No post is made if the failure is one only reported inside the  *)
(* worker, or if the worker dies (the stall watchdog exits too) and faults.   *)
JobThrows(w) ==
  /\ worker[w].at \in Holding
  /\ worker' = [worker EXCEPT ![w] = Idle]
  /\ failures' \in {failures, failures \cup {worker[w].job}}
  /\ UNCHANGED <<queueVars, historyVars>>

DeliverFailure(i, j) ==
  /\ j \in failures /\ failures' = failures \ {j}
  /\ Start(i, "fail", j, NoWorker)
  /\ UNCHANGED <<copy, quiet, doomed, worker, phase, grants, doubted, faults>>

LoseFailure(j) ==
  /\ j \in failures /\ failures' = failures \ {j}
  /\ UNCHANGED <<queueVars, worker, historyVars>>

-------------------------------------------------------------------------------
WorkerStep(w) ==
  \/ ReceiveReply(w) \/ ClaimFails(w) \/ Finish(w)
  \/ FinishAcknowledged(w) \/ JobThrows(w)

Next ==
  \/ \E i \in Slots : HandlerStep(i) \/ WriteFails(i)
  \/ \E j \in Jobs : CreateJob(j) \/ GoQuiet(j) \/ LoseFailure(j)
  \/ \E i \in Slots, j \in Jobs : RecoverStale(i, j) \/ CancelNext(i, j) \/ DeliverFailure(i, j)
  \/ \E j \in Jobs, s \in Terminal : Prune(j, s)
  \/ \E w \in Workers : WorkerStep(w)
  \/ \E w \in Workers, j \in Jobs : HearQueued(w, j)
  \/ \E i \in Slots, w \in Workers : ReportProgress(i, w)
  \/ CancelRequested \/ Restart

Spec == Init /\ [][Next]_vars

(* Handlers run on; timers and announcements repeat; a worker gives every job   *)
(* up in the end (inference timeout, stall watchdog).  The bound on slots may   *)
(* hold a delivery up, never the code: deliveries are strongly fair.            *)
ClaimPosted(w, j) ==
  /\ Readable(j, "pending") /\ HearQueued(w, j) /\ command' # command

Fairness ==
  /\ \A i \in Slots : WF_vars(HandlerStep(i))
  /\ \A w \in Workers :
       /\ WF_vars(ReceiveReply(w) \/ ClaimFails(w))
       /\ WF_vars(Finish(w) \/ FinishAcknowledged(w) \/ JobThrows(w))
  /\ \A j \in Jobs :
       /\ SF_vars(\E w \in Workers : ClaimPosted(w, j))
       /\ SF_vars(GoQuiet(j))
       /\ SF_vars(\E i \in Slots : RecoverStale(i, j))
       /\ WF_vars((\E i \in Slots : DeliverFailure(i, j)) \/ LoseFailure(j))

FairSpec == Spec /\ Fairness

-------------------------------------------------------------------------------
(* No copy of a job, however its commands interleave, has been retried more     *)
(* often than allowed, and a job only fails for good with its retries spent.    *)
RetryBound ==
  \A j \in Jobs :
    /\ \A s \in Status : copy[j][s] <= MaxRetries[j]
    /\ Readable(j, "failed") => copy[j]["failed"] = MaxRetries[j]

(* No interleaving of commands makes a job disappear: until it is pruned, or a  *)
(* fault comes between an unlink and the end of the write, it can be read       *)
(* somewhere or is about to be written.                                         *)
NothingVanishes ==
  \A j \in Jobs : phase[j] = "created" =>
    \/ \E s \in Status : Readable(j, s)
    \/ \E i \in Handling(j) : command[i].at = "write"

(* As long as no two commands handle a job at once it is in one directory.      *)
OneCopy ==
  \A j \in Jobs \ raced : \A s, u \in Status :
    copy[j][s] # Absent /\ copy[j][u] # Absent => s = u

(* ... and is given out once and once more per retry, whatever is lost ...      *)
AttemptsBounded == \A j \in Jobs \ raced : grants[j] <= MaxRetries[j] + 1

(* ... and no two workers work on it, unless it was taken from one that was     *)
(* alive and silent for half an hour.                                           *)
OneWorker ==
  \A j \in Jobs \ (raced \cup doubted) : \A v, w \in Workers :
    /\ worker[v] \in [at : Holding, job : {j}]
    /\ worker[w] \in [at : Holding, job : {j}]
    => v = w

(* ... and what has ended stays ended, with its outcome, until it is pruned.    *)
TerminalStays ==
  [][\A j \in Jobs \ raced' : \A s \in Terminal :
       Readable(j, s) /\ phase'[j] # "pruned" => copy'[j] = copy[j]]_vars

(* A job ends, through retries and recovery, unless a fault cut a move in two   *)
(* or its commands raced: then a late write can lower its count, time and again.*)
Ended(j) == phase[j] \in {"pruned", "lost"} \/ \E s \in Terminal : Readable(j, s)
EveryJobEnds == \A j \in Jobs : phase[j] = "created" ~> Ended(j) \/ j \in raced

(* What the documents say without conditions.                                   *)

(* A job is claimed by exactly one worker, however often it is announced.       *)
ClaimIsExclusive ==
  \A j \in Jobs \ doubted : \A v, w \in Workers :
    worker[v] \in [at : Holding, job : {j}] /\ worker[w] \in [at : Holding, job : {j}] => v = w

-------------------------------------------------------------------------------
(* The lifecycle of a job as the commands see it: a command in the middle of a  *)
(* move has not moved the job yet, a file nobody can read is gone, and a job    *)
(* that two commands have handled at once is no more than that.                 *)
Mover(j) == {i \in Handling(j) : command[i].at = "write"}
Where(j) == {s \in Status : Readable(j, s)}

StatusOf(j) ==
  CASE j \in raced -> "raced"
    [] j \notin raced /\ phase[j] = "new" -> "none"
    [] j \notin raced /\ phase[j] # "new" /\ Mover(j) # {} -> command[CHOOSE i \in Mover(j) : TRUE].from
    [] j \notin raced /\ phase[j] # "new" /\ Mover(j) = {} /\ Where(j) # {} -> CHOOSE s \in Where(j) : TRUE
    [] OTHER -> "gone"

RetriesOf(j) ==
  CASE j \in raced -> 0
    [] j \notin raced /\ Mover(j) # {} -> command[CHOOSE i \in Mover(j) : TRUE].count
    [] j \notin raced /\ Mover(j) = {} /\ Where(j) # {} -> copy[j][CHOOSE s \in Where(j) : TRUE]
    [] OTHER -> 0

Life == INSTANCE JobLifecycle WITH
  status <- [j \in Jobs |-> StatusOf(j)], retries <- [j \in Jobs |-> RetriesOf(j)],
  MayLose <- MaxFaults > 0

(* The commands implement the lifecycle of each job, until two handle it at     *)
(* once.                                                                        *)
ImplementsLifecycle == Life!LifeSpec

================================================================================
