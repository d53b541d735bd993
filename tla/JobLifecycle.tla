------------------------------ MODULE JobLifecycle ------------------------------
(* What the job queue promises of each job: it is pending, then running, then   *)
(* over.  A failed run goes back to pending while retries are left, and each    *)
(* return costs one.  Nothing leaves a terminal status but by being pruned.     *)
(* A job is lost ("gone" before it was over) only where faults are allowed.     *)
(* Two commands that handle a job at once end the promise for that job, and for *)
(* no other.  Each job moves on its own: a step may move several.               *)
EXTENDS Integers

CONSTANTS Jobs, MaxRetries, MayLose

VARIABLES status, retries

Over == {"complete", "failed", "cancelled"}

Known == {"pending", "running", "gone"} \cup Over

Move(j, before, after, count) ==
  status[j] \in before /\ status'[j] = after /\ retries'[j] = count

LifeInit == status = [j \in Jobs |-> "none"] /\ retries = [j \in Jobs |-> 0]

Create(j) == Move(j, {"none"}, "pending", 0)
Claim(j) == Move(j, {"pending"}, "running", retries[j])
Complete(j) == Move(j, {"running"}, "complete", retries[j])
Cancel(j) == Move(j, {"pending", "running"}, "cancelled", retries[j])
Retry(j) == retries[j] < MaxRetries[j] /\ Move(j, {"running"}, "pending", retries[j] + 1)
Fail(j) == retries[j] = MaxRetries[j] /\ Move(j, {"running"}, "failed", retries[j])
Prune(j) == Move(j, Over, "gone", 0)
Lose(j) == MayLose /\ Move(j, {"pending", "running"}, "gone", 0)
Race(j) == Move(j, Known, "raced", 0)

JobMoves(j) ==
  \/ Create(j) \/ Claim(j) \/ Complete(j) \/ Cancel(j)
  \/ Retry(j) \/ Fail(j) \/ Prune(j) \/ Lose(j) \/ Race(j)

LifeNext == \A j \in Jobs : JobMoves(j) \/ UNCHANGED <<status[j], retries[j]>>

LifeSpec == LifeInit /\ [][LifeNext]_<<status, retries>>

================================================================================
