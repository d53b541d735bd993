------------------------------ MODULE EventStorage ------------------------------
(* The append path of one resource's event stream:                             *)
(* packages/event-sourcing/src/storage/event-storage.ts.                        *)
(*                                                                              *)
(* A stream is a directory of JSONL files numbered upwards.  The process keeps  *)
(* two things about it in memory: the last sequence number it gave out          *)
(* (resourceSequences) and the file it is appending to (currentFiles).  Every   *)
(* filesystem call is awaited, so any number of appendEvent calls ("tasks")     *)
(* for the same resource can be in progress at once: the Stower, the only       *)
(* writer, serialises per channel and not per resource.                         *)
(*                                                                              *)
(* One action is one filesystem operation together with the code that runs      *)
(* before the next await; where another task can tell the operation from the    *)
(* code that uses its result, the two are separate actions.                     *)
(*                                                                              *)
(* Streams of different resources share no state, so one stream is modelled.    *)
EXTENDS Integers, Sequences, FiniteSetsExt

CONSTANTS
  Tasks,              \* the appendEvent calls; a task also names its event
  NoTask,             \* no task: no entry in the currentFiles cache
  MaxEventsPerFile,   \* config.maxEventsPerFile
  MaxFiles,           \* bound: file numbers are 1 .. MaxFiles
  MaxRestarts         \* bound: crashes of the process

ASSUME NoTaskAssumption == NoTask \notin Tasks
ASSUME LimitAssumption == MaxEventsPerFile \in Nat \ {0}
ASSUME BoundAssumption == MaxFiles \in Nat \ {0, 1} /\ MaxRestarts \in Nat

VARIABLES
  dir,            \* disk: the stream's directory exists
  present,        \* disk: the numbers of the files that exist
  files,          \* disk: the lines of every file
  counter,        \* memory: resourceSequences, 0 when absent
  cached,         \* memory: currentFiles, as the task that made the entry
  entry,          \* memory: the entry [path, eventCount] each task has made
  pc,             \* where each task is
  seq,            \* the sequence number a task has taken
  found,          \* what a task's last read returned: a number or a line count
  target,         \* the file a task's last readdir led it to
  using,          \* whose entry a task appends through
  restarts,       \* crashes so far
  initOverlap,    \* history: two tasks were initialising the stream at once
  createOverlap,  \* history: two tasks were creating the same file at once
  staleTail       \* history: a restart found a last line that is not the newest

diskVars == <<dir, present, files>>
memoryVars == <<counter, cached, entry>>
localVars == <<seq, found, target, using>>
historyVars == <<restarts, initOverlap, createOverlap, staleTail>>
vars == <<diskVars, memoryVars, pc, localVars, historyVars>>

FileNo == 1 .. MaxFiles
Line == [event : Tasks, seq : Nat \ {0}]

Initializing == {"access", "mkdir", "firstFile", "listInit", "readTail", "setCounter"}
Writing == {"list", "count", "cache", "rotate", "newFile", "useNew", "append", "written"}
Active == Initializing \cup Writing
Settled == {"stored", "failed", "dead"}
Creating == {"mkdir", "firstFile", "newFile"}

(* Where a task awaits a filesystem call whose error appendEvent rethrows.      *)
FileCalls ==
  {"mkdir", "firstFile", "listInit", "readTail", "list", "count", "newFile", "append"}

(* The number of the newest file, 0 when the stream has none. *)
LastFile == IF present = {} THEN 0 ELSE Max(present)

(* What getLastEvent reports of file n, -1 for a file without lines.           *)
TailNumber(n) == IF files[n] = <<>> THEN -1 ELSE files[n][Len(files[n])].seq

(* What initializeResourceStream recovers: no file and an empty last file both  *)
(* leave the counter where a fresh process has it.                              *)
Recovered == IF present = {} \/ files[LastFile] = <<>> THEN 0 ELSE TailNumber(LastFile)

TailIsNewest == \A f \in FileNo : \A i \in DOMAIN files[f] : files[f][i].seq <= Recovered

TypeOK ==
  /\ dir \in BOOLEAN
  /\ present \in SUBSET FileNo
  /\ files \in [FileNo -> Seq(Line)]
  /\ counter \in Nat
  /\ cached \in Tasks \cup {NoTask}
  /\ entry \in [Tasks -> [path : FileNo, count : Nat]]
  /\ pc \in [Tasks -> {"idle"} \cup Active \cup Settled]
  /\ seq \in [Tasks -> Nat]
  /\ found \in [Tasks -> Nat \cup {-1}]
  /\ target \in [Tasks -> Nat]
  /\ using \in [Tasks -> Tasks \cup {NoTask}]
  /\ restarts \in 0 .. MaxRestarts
  /\ initOverlap \in BOOLEAN /\ createOverlap \in BOOLEAN /\ staleTail \in BOOLEAN

(* A brand-new resource: the process is up and nothing is on disk.  Streams     *)
(* with content are reached by appending and restarting.                        *)
Init ==
  /\ dir = FALSE /\ present = {} /\ files = [f \in FileNo |-> <<>>]
  /\ counter = 0 /\ cached = NoTask
  /\ entry = [t \in Tasks |-> [path |-> 1, count |-> 0]]
  /\ pc = [t \in Tasks |-> "idle"]
  /\ seq = [t \in Tasks |-> 0] /\ found = [t \in Tasks |-> 0]
  /\ target = [t \in Tasks |-> 0] /\ using = [t \in Tasks |-> NoTask]
  /\ restarts = 0
  /\ initOverlap = FALSE /\ createOverlap = FALSE /\ staleTail = FALSE

Goto(t, label) == pc' = [pc EXCEPT ![t] = label]

(* The locals of calls that have ended, by which the states of a call that      *)
(* returned are the same however it got there.                                  *)
Forget(ended) ==
  /\ found' = [t \in Tasks |-> IF t \in ended THEN 0 ELSE found[t]]
  /\ target' = [t \in Tasks |-> IF t \in ended THEN 0 ELSE target[t]]
  /\ using' = [t \in Tasks |-> IF t \in ended THEN NoTask ELSE using[t]]

-------------------------------------------------------------------------------
(* appendEvent: a counter of 0 sends the task to initializeResourceStream.      *)

(* From the sequence number to writeEvent's first await nothing is awaited: the *)
(* task takes c + 1 and picks its file from the cache in one go.                *)
TakeNumber(t, c) ==
  /\ counter' = c + 1
  /\ seq' = [seq EXCEPT ![t] = c + 1]
  /\ \/ cached = NoTask /\ Goto(t, "list") /\ using' = using
     \/ /\ cached # NoTask
        /\ entry[cached].count >= MaxEventsPerFile
        /\ Goto(t, "rotate") /\ using' = using
     \/ /\ cached # NoTask
        /\ entry[cached].count < MaxEventsPerFile
        /\ Goto(t, "append")
        /\ using' = [using EXCEPT ![t] = cached]

BeginUninitialized(t) ==
  /\ pc[t] = "idle" /\ counter = 0
  /\ Goto(t, "access")
  /\ initOverlap' = (initOverlap \/ \E u \in Tasks : pc[u] \in Initializing)
  /\ UNCHANGED <<diskVars, memoryVars, localVars, restarts, createOverlap, staleTail>>

BeginInitialized(t) ==
  /\ pc[t] = "idle" /\ counter > 0
  /\ TakeNumber(t, counter)
  /\ UNCHANGED <<diskVars, cached, entry, found, target, historyVars>>

-------------------------------------------------------------------------------
(* initializeResourceStream *)

(* The history variable createOverlap: n is being created by another task too.  *)
SameTarget(t, n) == \E u \in Tasks \ {t} : pc[u] \in Creating /\ target[u] = n

Access(t) ==
  /\ pc[t] = "access"
  /\ \/ dir /\ Goto(t, "listInit") /\ UNCHANGED <<target, createOverlap>>
     \/ /\ ~dir
        /\ Goto(t, "mkdir")
        /\ target' = [target EXCEPT ![t] = 1]
        /\ createOverlap' = (createOverlap \/ SameTarget(t, 1))
  /\ UNCHANGED <<diskVars, memoryVars, seq, found, using, restarts, initOverlap, staleTail>>

Mkdir(t) ==
  /\ pc[t] = "mkdir"
  /\ dir' = TRUE
  /\ Goto(t, "firstFile")
  /\ UNCHANGED <<present, files, memoryVars, localVars, historyVars>>

(* writeFile(path, '') creates the file, or empties the one that is there. *)
CreateFile(n) ==
  /\ present' = present \cup {n}
  /\ files' = [files EXCEPT ![n] = <<>>]

FirstFile(t) ==
  /\ pc[t] = "firstFile"
  /\ CreateFile(1)
  /\ found' = [found EXCEPT ![t] = 0]
  /\ Goto(t, "setCounter")
  /\ UNCHANGED <<dir, memoryVars, seq, target, using, historyVars>>

ListInit(t) ==
  /\ pc[t] = "listInit"
  /\ \/ /\ present = {}
        /\ found' = [found EXCEPT ![t] = 0]
        /\ Goto(t, "setCounter") /\ target' = target
     \/ /\ present # {}
        /\ target' = [target EXCEPT ![t] = LastFile]
        /\ Goto(t, "readTail") /\ found' = found
  /\ UNCHANGED <<diskVars, memoryVars, seq, using, historyVars>>

ReadTail(t) ==
  /\ pc[t] = "readTail"
  /\ found' = [found EXCEPT ![t] = TailNumber(target[t])]
  /\ Goto(t, "setCounter")
  /\ UNCHANGED <<diskVars, memoryVars, seq, target, using, historyVars>>

(* Slip for the runs: the -1 of an empty file is taken for a number. *)
SetCounterUnchecked(t) ==
  /\ pc[t] = "setCounter"
  /\ TakeNumber(t, found[t])
  /\ UNCHANGED <<diskVars, cached, entry, found, target, historyVars>>

(* Slip for the runs: the number of the last line is given out again. *)
SetCounterReusing(t) ==
  /\ pc[t] = "setCounter"
  /\ TakeNumber(t, IF found[t] = -1 THEN counter ELSE found[t] - 1)
  /\ UNCHANGED <<diskVars, cached, entry, found, target, historyVars>>

(* An empty last file (-1) leaves the counter alone; then the append goes on.   *)
SetCounter(t) ==
  /\ pc[t] = "setCounter"
  /\ TakeNumber(t, IF found[t] = -1 THEN counter ELSE found[t])
  /\ UNCHANGED <<diskVars, cached, entry, found, target, historyVars>>

-------------------------------------------------------------------------------
(* writeEvent *)

ListFiles(t) ==
  /\ pc[t] = "list"
  /\ \/ present = {} /\ Goto(t, "rotate") /\ target' = target
     \/ /\ present # {}
        /\ target' = [target EXCEPT ![t] = LastFile]
        /\ Goto(t, "count")
  /\ UNCHANGED <<diskVars, memoryVars, seq, found, using, historyVars>>

CountLines(t) ==
  /\ pc[t] = "count"
  /\ found' = [found EXCEPT ![t] = Len(files[target[t]])]
  /\ Goto(t, "cache")
  /\ UNCHANGED <<diskVars, memoryVars, seq, target, using, historyVars>>

(* The entry a task caches: on a cold start and on rotation. *)
CacheEntry(t, count) ==
  /\ entry' = [entry EXCEPT ![t] = [path |-> target[t], count |-> count]]
  /\ cached' = t

Cache(t) ==
  /\ pc[t] = "cache"
  /\ CacheEntry(t, found[t])
  /\ \/ found[t] >= MaxEventsPerFile /\ Goto(t, "rotate") /\ using' = using
     \/ /\ found[t] < MaxEventsPerFile
        /\ Goto(t, "append")
        /\ using' = [using EXCEPT ![t] = t]
  /\ UNCHANGED <<diskVars, counter, seq, found, target, historyVars>>

(* Slip for the runs: the newest file's own number. *)
NewFileNoReused == IF present = {} THEN 2 ELSE LastFile

(* createNewEventFile: one more than the newest file, 2 when there is none.     *)
NewFileNo == IF present = {} THEN 2 ELSE LastFile + 1

Rotate(t) ==
  /\ pc[t] = "rotate"
  /\ NewFileNo <= MaxFiles
  /\ target' = [target EXCEPT ![t] = NewFileNo]
  /\ createOverlap' = (createOverlap \/ SameTarget(t, NewFileNo))
  /\ Goto(t, "newFile")
  /\ UNCHANGED <<diskVars, memoryVars, seq, found, using, restarts, initOverlap, staleTail>>

NewFile(t) ==
  /\ pc[t] = "newFile"
  /\ CreateFile(target[t])
  /\ Goto(t, "useNew")
  /\ UNCHANGED <<dir, memoryVars, localVars, historyVars>>

UseNew(t) ==
  /\ pc[t] = "useNew"
  /\ CacheEntry(t, 0)
  /\ using' = [using EXCEPT ![t] = t]
  /\ Goto(t, "append")
  /\ UNCHANGED <<diskVars, counter, seq, found, target, historyVars>>

AppendFile(t) ==
  /\ pc[t] = "append"
  /\ LET n == entry[using[t]].path
     IN  /\ files' = [files EXCEPT ![n] = Append(@, [event |-> t, seq |-> seq[t]])]
         /\ present' = present \cup {n}
  /\ Goto(t, "written")
  /\ UNCHANGED <<dir, memoryVars, localVars, historyVars>>

(* A filesystem call is refused (a full disk, an unreadable file) and appendEvent *)
(* throws; a number already taken stays taken, and no line carries it.          *)
CallFails(t) ==
  /\ pc[t] \in FileCalls
  /\ Goto(t, "failed")
  /\ Forget({t})
  /\ UNCHANGED <<diskVars, memoryVars, seq, historyVars>>

(* With gitSync on, `git add` may throw once the directory's first file exists. *)
FirstFileUnstaged(t) ==
  /\ pc[t] = "firstFile"
  /\ CreateFile(1)
  /\ Goto(t, "failed")
  /\ Forget({t})
  /\ UNCHANGED <<dir, memoryVars, seq, historyVars>>

(* The same once the line is written: appendEvent throws, and yet the event is  *)
(* in the log and counted.                                                      *)
Unstaged(t) ==
  /\ pc[t] = "written"
  /\ entry' = [entry EXCEPT ![using[t]].count = @ + 1]
  /\ Goto(t, "failed")
  /\ Forget({t})
  /\ UNCHANGED <<diskVars, counter, cached, seq, historyVars>>

(* eventCount++ on the entry the task holds, then appendEvent returns.          *)
Stored(t) ==
  /\ pc[t] = "written"
  /\ entry' = [entry EXCEPT ![using[t]].count = @ + 1]
  /\ Goto(t, "stored")
  /\ Forget({t})
  /\ UNCHANGED <<diskVars, counter, cached, seq, historyVars>>

-------------------------------------------------------------------------------
(* The process dies and comes back: memory is empty, the disk is as it was, and *)
(* calls in progress are never answered.                                        *)
Restart ==
  /\ restarts < MaxRestarts
  /\ restarts' = restarts + 1
  /\ counter' = 0 /\ cached' = NoTask
  /\ pc' = [t \in Tasks |-> IF pc[t] \in Active THEN "dead" ELSE pc[t]]
  /\ staleTail' = (staleTail \/ ~TailIsNewest)
  /\ Forget(Tasks)
  /\ UNCHANGED <<diskVars, entry, seq, initOverlap, createOverlap>>

Begin(t) == BeginUninitialized(t) \/ BeginInitialized(t)

InitializeResourceStream(t) ==
  \/ Access(t) \/ Mkdir(t) \/ FirstFile(t) \/ ListInit(t) \/ ReadTail(t) \/ SetCounter(t)
  \/ FirstFileUnstaged(t) \/ CallFails(t)

WriteEvent(t) ==
  \/ ListFiles(t) \/ CountLines(t) \/ Cache(t)
  \/ Rotate(t) \/ NewFile(t) \/ UseNew(t)
  \/ AppendFile(t) \/ Unstaged(t)

Next ==
  \/ \E t \in Tasks : Begin(t) \/ InitializeResourceStream(t) \/ WriteEvent(t) \/ Stored(t)
  \/ Restart

Spec == Init /\ [][Next]_vars

-------------------------------------------------------------------------------
(* Sequence numbers identify events: no two lines of the stream carry the same  *)
(* number, as long as no two tasks initialised the stream at the same time and  *)
(* no restart recovered from a last line that is not the newest.                *)
UniqueNumbers ==
  \A f, g \in FileNo : \A i \in DOMAIN files[f], j \in DOMAIN files[g] :
    files[f][i].seq = files[g][j].seq => f = g /\ i = j

NumbersUnique == ~(initOverlap \/ staleTail) => UniqueNumbers

(* An event whose append returned is in the log, as long as no two tasks were   *)
(* creating the same file at the same time (the later writeFile(path, '')       *)
(* empties the file the earlier task may have appended to).                     *)
InLog(t) == \E f \in present : \E i \in DOMAIN files[f] : files[f][i].event = t

StoredIsDurable == ~createOverlap => \A t \in Tasks : pc[t] = "stored" => InLog(t)

===============================================================================
