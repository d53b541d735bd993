-------------------------- MODULE EventStorage_proofs --------------------------
(* Proofs about EventStorage for every set of tasks and every value of the      *)
(* bounds: the types, that sequence numbers identify events (NumbersUnique) and *)
(* that a stored event is in the log (StoredIsDurable).                         *)
EXTENDS EventStorage, WellFoundedInduction, TLAPS

-------------------------------------------------------------------------------
(* A nonempty set of numbers up to m has a greatest one, which is what Max      *)
(* chooses: the file getEventFiles sorts last exists.                           *)
LEMMA MaxOfSet ==
  ASSUME NEW m \in Nat, NEW S \in SUBSET (1 .. m), S # {}
  PROVE  Max(S) \in S /\ \A y \in S : y <= Max(S)
<1> DEFINE T == {m - n : n \in S}
<1>1. T \subseteq Nat /\ T # {}
  <2>1. \A n \in S : n \in Nat /\ m - n \in Nat
    OBVIOUS
  <2> QED
    BY <2>1
<1>2. PICK x \in T : \A y \in T : ~ (<<y, x>> \in OpToRel(<, Nat))
  BY <1>1, NatLessThanWellFounded, WFMin
<1>3. \A y \in T : x <= y
  <2> SUFFICES ASSUME NEW y \in T PROVE x <= y
    OBVIOUS
  <2>1. x \in Nat /\ y \in Nat
    BY <1>1
  <2>2. ~ (y < x)
    BY <1>2, <2>1 DEF OpToRel
  <2> QED
    BY <2>1, <2>2
<1>4. PICK n \in S : x = m - n
  OBVIOUS
<1>5. \A y \in S : n >= y
  <2> SUFFICES ASSUME NEW y \in S PROVE n >= y
    OBVIOUS
  <2>1. m - y \in T
    OBVIOUS
  <2> QED
    BY <2>1, <1>3, <1>4
<1> QED
  BY <1>5 DEF Max

(* The newest file is a file of the stream. *)
LEMMA LastFileIsPresent ==
  ASSUME TypeOK, present # {}
  PROVE  LastFile \in present /\ LastFile \in FileNo
BY MaxOfSet, BoundAssumption DEF LastFile, TypeOK, FileNo

(* Every line of the log is a line. *)
LEMMA LinesTyped ==
  ASSUME TypeOK
  PROVE  \A f \in FileNo : \A i \in DOMAIN files[f] : files[f][i] \in Line
<1> SUFFICES ASSUME NEW f \in FileNo, NEW i \in DOMAIN files[f] PROVE files[f][i] \in Line
  OBVIOUS
<1>1. files[f] \in Seq(Line)
  BY DEF TypeOK
<1> QED
  BY <1>1

LEMMA RecoveredTyped == ASSUME TypeOK PROVE Recovered \in Nat
<1>1. CASE present = {} \/ files[LastFile] = <<>>
  BY <1>1 DEF Recovered
<1>2. CASE ~(present = {} \/ files[LastFile] = <<>>)
  <2>1. LastFile \in FileNo
    BY <1>2, LastFileIsPresent
  <2>2. files[LastFile] \in Seq(Line) /\ files[LastFile] # <<>>
    BY <1>2, <2>1 DEF TypeOK
  <2>3. Len(files[LastFile]) \in DOMAIN files[LastFile]
    BY <2>2
  <2>4. files[LastFile][Len(files[LastFile])] \in Line
    BY <2>1, <2>3, LinesTyped
  <2> QED
    BY <1>2, <2>2, <2>4 DEF Recovered, TailNumber, Line
<1> QED
  BY <1>1, <1>2

-------------------------------------------------------------------------------
(* What a task's locals hold at the places where they are used. *)
LocalsOK ==
  \A t \in Tasks :
    /\ pc[t] \in {"readTail", "count", "cache", "newFile", "useNew"} => target[t] \in FileNo
    /\ pc[t] = "cache" => found[t] \in Nat
    /\ pc[t] \in {"append", "written"} => using[t] \in Tasks
    /\ pc[t] \in Writing => seq[t] # 0

TypeInv == TypeOK /\ LocalsOK

LEMMA TypeInit == Init => TypeInv
<1> SUFFICES ASSUME Init PROVE TypeInv
  OBVIOUS
<1>1. files \in [FileNo -> Seq(Line)]
  BY DEF Init
<1>2. TypeOK
  <2>1. entry \in [Tasks -> [path : FileNo, count : Nat]]
    BY BoundAssumption DEF Init, FileNo
  <2>2. /\ pc \in [Tasks -> {"idle"} \cup Active \cup Settled]
        /\ restarts \in 0 .. MaxRestarts
    BY BoundAssumption DEF Init
  <2> QED
    BY <1>1, <2>1, <2>2 DEF Init, TypeOK
<1>3. LocalsOK
  BY DEF Init, LocalsOK, Writing
<1> QED
  BY <1>2, <1>3 DEF TypeInv

(* The number and the file are taken together; the locals stay typed. *)
LEMMA TakeNumberTyped ==
  ASSUME TypeInv, NEW t \in Tasks, NEW c \in Nat, TakeNumber(t, c)
  PROVE  /\ counter' \in Nat
         /\ seq' \in [Tasks -> Nat]
         /\ using' \in [Tasks -> Tasks \cup {NoTask}]
         /\ pc' \in [Tasks -> {"idle"} \cup Active \cup Settled]
         /\ pc'[t] \in {"list", "rotate", "append"}
         /\ pc'[t] = "append" => using'[t] \in Tasks
         /\ seq'[t] = c + 1
         /\ \A u \in Tasks \ {t} : pc'[u] = pc[u] /\ seq'[u] = seq[u] /\ using'[u] = using[u]
<1>1. counter' \in Nat /\ seq' \in [Tasks -> Nat] /\ seq'[t] = c + 1
  BY DEF TakeNumber, TypeInv, TypeOK
<1>2. /\ pc' \in [Tasks -> {"idle"} \cup Active \cup Settled]
      /\ pc'[t] \in {"list", "rotate", "append"}
  BY DEF TakeNumber, TypeInv, TypeOK, Goto, Active, Initializing, Writing
<1>3. using' \in [Tasks -> Tasks \cup {NoTask}] /\ (pc'[t] = "append" => using'[t] \in Tasks)
  BY DEF TakeNumber, TypeInv, TypeOK, Goto
<1>4. \A u \in Tasks \ {t} : pc'[u] = pc[u] /\ seq'[u] = seq[u] /\ using'[u] = using[u]
  BY DEF TakeNumber, TypeInv, TypeOK, Goto
<1> QED
  BY <1>1, <1>2, <1>3, <1>4


(* Taking a number keeps the types: the two actions that do it. *)
LEMMA TakeNumberStepTyped ==
  ASSUME TypeInv, NEW t \in Tasks, NEW c \in Nat, TakeNumber(t, c),
         UNCHANGED <<diskVars, cached, entry, found, target, historyVars>>
  PROVE  TypeInv'
<1>1. TypeOK'
  BY TakeNumberTyped DEF TypeInv, TypeOK, diskVars, historyVars
<1>2. LocalsOK'
  <2> SUFFICES ASSUME NEW u \in Tasks
               PROVE  /\ pc'[u] \in {"readTail", "count", "cache", "newFile", "useNew"} => target'[u] \in FileNo
                      /\ pc'[u] = "cache" => found'[u] \in Nat
                      /\ pc'[u] \in {"append", "written"} => using'[u] \in Tasks
                      /\ pc'[u] \in Writing => seq'[u] # 0
    BY DEF LocalsOK
  <2>1. CASE u = t
    BY <2>1, TakeNumberTyped
  <2>2. CASE u # t
    <3>1. pc'[u] = pc[u] /\ seq'[u] = seq[u] /\ using'[u] = using[u]
      BY <2>2, TakeNumberTyped
    <3> QED
      BY <3>1 DEF TypeInv, LocalsOK
  <2> QED
    BY <2>1, <2>2
<1> QED
  BY <1>1, <1>2 DEF TypeInv

LEMMA TypeStep == TypeInv /\ [Next]_vars => TypeInv'
<1> SUFFICES ASSUME TypeInv, [Next]_vars PROVE TypeInv'
  OBVIOUS
<1> USE DEF TypeInv
<1>1. ASSUME NEW t \in Tasks, BeginUninitialized(t) PROVE TypeInv'
  BY <1>1 DEF BeginUninitialized, TypeOK, LocalsOK, Goto, Active, Initializing, Writing, Settled, diskVars, memoryVars, localVars, historyVars
<1>2. ASSUME NEW t \in Tasks, BeginInitialized(t) PROVE TypeInv'
  <2>1. counter \in Nat
    BY DEF TypeOK
  <2> QED
    BY <1>2, <2>1, TakeNumberStepTyped DEF BeginInitialized
<1>3. ASSUME NEW t \in Tasks, Access(t) PROVE TypeInv'
  <2>1. CASE dir
    BY <1>3, <2>1 DEF Access, TypeOK, LocalsOK, Goto, Active, Initializing, Writing, Settled, diskVars, memoryVars, localVars, historyVars
  <2>2. CASE ~dir
    <3>1. TypeOK'
      <4>1. /\ pc' = [pc EXCEPT ![t] = "mkdir"]
            /\ target' = [target EXCEPT ![t] = 1]
            /\ createOverlap' \in BOOLEAN
        BY <1>3, <2>2 DEF Access, Goto
      <4> QED
        BY <1>3, <4>1 DEF Access, TypeOK, Goto, Active, Initializing, Writing, Settled, diskVars, memoryVars, localVars, historyVars
    <3>2. LocalsOK'
      BY <1>3, <2>2 DEF Access, SameTarget, TypeOK, Goto, Active, Initializing, Writing, diskVars, memoryVars, localVars, historyVars, LocalsOK
    <3> QED
      BY <3>1, <3>2
  <2> QED
    BY <1>3, <2>1, <2>2 DEF Access
<1>4. ASSUME NEW t \in Tasks, Mkdir(t) PROVE TypeInv'
  BY <1>4 DEF Mkdir, TypeOK, LocalsOK, Goto, Active, Initializing, Writing, Settled, diskVars, memoryVars, localVars, historyVars
<1>5. ASSUME NEW t \in Tasks, FirstFile(t) PROVE TypeInv'
  <2>1. 1 \in FileNo
    BY BoundAssumption DEF FileNo
  <2> QED
    BY <1>5, <2>1 DEF FirstFile, CreateFile, TypeOK, LocalsOK, Goto, Active, Initializing, Writing, Settled, diskVars, memoryVars, localVars, historyVars
<1>6. ASSUME NEW t \in Tasks, ListInit(t) PROVE TypeInv'
  <2>1. CASE present = {}
    <3>1. TypeOK'
      <4>1. /\ pc' = [pc EXCEPT ![t] = "setCounter"]
            /\ found' = [found EXCEPT ![t] = 0] /\ target' = target
        BY <1>6, <2>1 DEF ListInit, Goto
      <4> QED
        BY <1>6, <4>1 DEF ListInit, TypeOK, Goto, Active, Initializing, Writing, Settled, diskVars, memoryVars, localVars, historyVars
    <3>2. LocalsOK'
      BY <1>6, <2>1 DEF ListInit, TypeOK, Goto, Active, Initializing, Writing, diskVars, memoryVars, localVars, historyVars, LocalsOK
    <3> QED
      BY <3>1, <3>2
  <2>2. CASE present # {}
    <3>1. LastFile \in FileNo /\ LastFile \in Nat
      BY <2>2, LastFileIsPresent, BoundAssumption DEF FileNo
    <3> QED
      <4>1. TypeOK'
        BY <1>6, <2>2, <3>1 DEF ListInit, TypeOK, Goto, Active, Initializing, Writing, Settled, diskVars, memoryVars, localVars, historyVars
      <4>2. LocalsOK'
        BY <1>6, <2>2, <3>1 DEF ListInit, TypeOK, Goto, Active, Initializing, Writing, diskVars, memoryVars, localVars, historyVars, LocalsOK
      <4> QED
        BY <4>1, <4>2
  <2> QED
    BY <2>1, <2>2
<1>7. ASSUME NEW t \in Tasks, ReadTail(t) PROVE TypeInv'
  <2>1. TailNumber(target[t]) \in Nat \cup {-1}
    <3>1. files[target[t]] \in Seq(Line)
      BY <1>7 DEF ReadTail, TypeOK, LocalsOK
    <3>2. files[target[t]] # <<>> => files[target[t]][Len(files[target[t]])] \in Line
      BY <3>1
    <3> QED
      BY <3>2 DEF TailNumber, Line
  <2> QED
    BY <1>7, <2>1 DEF ReadTail, TypeOK, LocalsOK, Goto, Active, Initializing, Writing, Settled, diskVars, memoryVars, localVars, historyVars
<1>8. ASSUME NEW t \in Tasks, SetCounter(t) PROVE TypeInv'
  <2>1. (IF found[t] = -1 THEN counter ELSE found[t]) \in Nat
    BY DEF TypeOK
  <2> QED
    BY <1>8, <2>1, TakeNumberStepTyped DEF SetCounter
<1>9. ASSUME NEW t \in Tasks, ListFiles(t) PROVE TypeInv'
  <2>1. CASE present = {}
    <3>1. TypeOK'
      BY <1>9, <2>1 DEF ListFiles, TypeOK, Goto, Active, Initializing, Writing, Settled, diskVars, memoryVars, localVars, historyVars
    <3>2. LocalsOK'
      BY <1>9, <2>1 DEF ListFiles, TypeOK, Goto, Active, Initializing, Writing, diskVars, memoryVars, localVars, historyVars, LocalsOK
    <3> QED
      BY <3>1, <3>2
  <2>2. CASE present # {}
    <3>1. LastFile \in FileNo /\ LastFile \in Nat
      BY <2>2, LastFileIsPresent, BoundAssumption DEF FileNo
    <3> QED
      <4>1. TypeOK'
        BY <1>9, <2>2, <3>1 DEF ListFiles, TypeOK, Goto, Active, Initializing, Writing, Settled, diskVars, memoryVars, localVars, historyVars
      <4>2. LocalsOK'
        BY <1>9, <2>2, <3>1 DEF ListFiles, TypeOK, Goto, Active, Initializing, Writing, diskVars, memoryVars, localVars, historyVars, LocalsOK
      <4> QED
        BY <4>1, <4>2
  <2> QED
    BY <2>1, <2>2
<1>10. ASSUME NEW t \in Tasks, CountLines(t) PROVE TypeInv'
  <2>1. Len(files[target[t]]) \in Nat
    BY <1>10 DEF CountLines, TypeOK, LocalsOK
  <2> QED
    BY <1>10, <2>1 DEF CountLines, TypeOK, LocalsOK, Goto, Active, Initializing, Writing, Settled, diskVars, memoryVars, localVars, historyVars
<1>11. ASSUME NEW t \in Tasks, Cache(t) PROVE TypeInv'
  <2>1. [path |-> target[t], count |-> found[t]] \in [path : FileNo, count : Nat]
    BY <1>11 DEF Cache, LocalsOK
  <2>2. CASE found[t] >= MaxEventsPerFile
    <3>1. TypeOK'
      <4>1. /\ pc' = [pc EXCEPT ![t] = "rotate"]
            /\ using' = using
            /\ cached' = t
            /\ entry' \in [Tasks -> [path : FileNo, count : Nat]]
        BY <1>11, <2>1, <2>2, LimitAssumption DEF Cache, CacheEntry, Goto, TypeOK
      <4> QED
        BY <1>11, <4>1 DEF Cache, TypeOK, Goto, Active, Initializing, Writing, Settled, diskVars, memoryVars, localVars, historyVars
    <3>2. LocalsOK'
      BY <1>11, <2>1, <2>2, LimitAssumption DEF Cache, CacheEntry, TypeOK, Goto, Active, Initializing, Writing, diskVars, memoryVars, localVars, historyVars, LocalsOK
    <3> QED
      BY <3>1, <3>2
  <2>3. CASE found[t] < MaxEventsPerFile
    <3>1. TypeOK'
      <4>1. /\ pc' = [pc EXCEPT ![t] = "append"]
            /\ using' = [using EXCEPT ![t] = t]
            /\ cached' = t
            /\ entry' \in [Tasks -> [path : FileNo, count : Nat]]
        BY <1>11, <2>1, <2>3, LimitAssumption DEF Cache, CacheEntry, Goto, TypeOK
      <4> QED
        BY <1>11, <4>1 DEF Cache, TypeOK, Goto, Active, Initializing, Writing, Settled, diskVars, memoryVars, localVars, historyVars
    <3>2. LocalsOK'
      BY <1>11, <2>1, <2>3, LimitAssumption DEF Cache, CacheEntry, TypeOK, Goto, Active, Initializing, Writing, diskVars, memoryVars, localVars, historyVars, LocalsOK
    <3> QED
      BY <3>1, <3>2
  <2> QED
    BY <1>11, <2>2, <2>3 DEF Cache
<1>12. ASSUME NEW t \in Tasks, Rotate(t) PROVE TypeInv'
  <2>1. NewFileNo \in FileNo
    BY <1>12, LastFileIsPresent, BoundAssumption DEF Rotate, NewFileNo, FileNo
  <2> QED
    BY <1>12, <2>1 DEF Rotate, FileNo, TypeOK, LocalsOK, Goto, Active, Initializing, Writing, Settled, diskVars, memoryVars, localVars, historyVars
<1>13. ASSUME NEW t \in Tasks, NewFile(t) PROVE TypeInv'
  BY <1>13 DEF NewFile, CreateFile, TypeOK, LocalsOK, Goto, Active, Initializing, Writing, Settled, diskVars, memoryVars, localVars, historyVars
<1>14. ASSUME NEW t \in Tasks, UseNew(t) PROVE TypeInv'
  <2>1. [path |-> target[t], count |-> 0] \in [path : FileNo, count : Nat]
    BY <1>14 DEF UseNew, LocalsOK
  <2> QED
    BY <1>14, <2>1 DEF UseNew, CacheEntry, TypeOK, LocalsOK, Goto, Active, Initializing, Writing, Settled, diskVars, memoryVars, localVars, historyVars
<1>15. ASSUME NEW t \in Tasks, AppendFile(t) PROVE TypeInv'
  <2> DEFINE n == entry[using[t]].path
             line == [event |-> t, seq |-> seq[t]]
  <2>1. n \in FileNo
    BY <1>15 DEF AppendFile, TypeOK, LocalsOK
  <2>2. line \in Line
    BY <1>15 DEF AppendFile, TypeOK, LocalsOK, Line, Writing
  <2>3. Append(files[n], line) \in Seq(Line)
    BY <2>1, <2>2 DEF TypeOK
  <2>4. files' \in [FileNo -> Seq(Line)] /\ present' \in SUBSET FileNo
    BY <1>15, <2>1, <2>3 DEF AppendFile, TypeOK
  <2> QED
    BY <1>15, <2>4 DEF AppendFile, TypeOK, LocalsOK, Goto, Active, Initializing, Writing, Settled, diskVars, memoryVars, localVars, historyVars
<1>16. ASSUME NEW t \in Tasks, CallFails(t) PROVE TypeInv'
  BY <1>16, NoTaskAssumption DEF CallFails, Forget, TypeOK, LocalsOK, Goto, Active, Initializing, Writing, Settled, diskVars, memoryVars, localVars, historyVars
<1>17. ASSUME NEW t \in Tasks, Stored(t) PROVE TypeInv'
  <2>1. entry' \in [Tasks -> [path : FileNo, count : Nat]]
    <3>1. using[t] \in Tasks /\ entry[using[t]] \in [path : FileNo, count : Nat]
      BY <1>17 DEF Stored, TypeOK, LocalsOK
    <3>2. [entry[using[t]] EXCEPT !.count = @ + 1] \in [path : FileNo, count : Nat]
      BY <3>1
    <3> QED
      BY <1>17, <3>1, <3>2 DEF Stored, TypeOK
  <2> QED
    BY <1>17, <2>1 DEF Stored, Forget, TypeOK, LocalsOK, Goto, Active, Initializing, Writing, Settled, diskVars, memoryVars, localVars, historyVars
<1>20. ASSUME NEW t \in Tasks, FirstFileUnstaged(t) PROVE TypeInv'
  BY <1>20, NoTaskAssumption, BoundAssumption DEF FirstFileUnstaged, CreateFile, FileNo, Forget, TypeOK, LocalsOK, Goto, Active, Initializing, Writing, Settled, diskVars, memoryVars, localVars, historyVars
<1>21. ASSUME NEW t \in Tasks, Unstaged(t) PROVE TypeInv'
  <2>1. entry' \in [Tasks -> [path : FileNo, count : Nat]]
    <3>1. using[t] \in Tasks /\ entry[using[t]] \in [path : FileNo, count : Nat]
      BY <1>21 DEF Unstaged, TypeOK, LocalsOK
    <3>2. [entry[using[t]] EXCEPT !.count = @ + 1] \in [path : FileNo, count : Nat]
      BY <3>1
    <3> QED
      BY <1>21, <3>1, <3>2 DEF Unstaged, TypeOK
  <2> QED
    BY <1>21, <2>1 DEF Unstaged, Forget, TypeOK, LocalsOK, Goto, Active, Initializing, Writing, Settled, diskVars, memoryVars, localVars, historyVars
<1>18. ASSUME Restart PROVE TypeInv'
  BY <1>18, BoundAssumption DEF Restart, Forget, TypeOK, LocalsOK, Goto, Active, Initializing, Writing, Settled, diskVars, memoryVars, localVars, historyVars
<1>19. CASE UNCHANGED vars
  BY <1>19 DEF vars, TypeOK, LocalsOK, Goto, Active, Initializing, Writing, Settled, diskVars, memoryVars, localVars, historyVars
<1> QED
  BY <1>1, <1>2, <1>3, <1>4, <1>5, <1>6, <1>7, <1>8, <1>9, <1>10, <1>11, <1>12, <1>13,
     <1>14, <1>15, <1>16, <1>17, <1>18, <1>19, <1>20, <1>21
     DEF Next, Begin, InitializeResourceStream, WriteEvent

(* Every variable keeps its type, whatever the interleaving and the crashes.    *)
THEOREM TypeCorrect == Spec => []TypeOK
<1>1. TypeInv => TypeOK
  BY DEF TypeInv
<1> QED
  BY TypeInit, TypeStep, <1>1, PTL DEF Spec

-------------------------------------------------------------------------------
(* Why numbers are unique.  While the counter is 0 only an initialising task can *)
(* be at work, and there is at most one; it recovers the greatest number of the  *)
(* log.  From then on the counter bounds every number in the log and in flight,  *)
(* and each task in flight holds one that nobody else holds or has written.      *)
LogEmpty == \A f \in FileNo : files[f] = <<>>

Numbered == Writing \ {"written"}   \* a number is taken and not yet in the log

InitAlone ==
  /\ \A t, u \in Tasks : pc[t] \in Initializing /\ pc[u] \in Initializing => t = u
  /\ \A t \in Tasks : pc[t] \in Initializing => counter = 0
  /\ counter = 0 => \A t \in Tasks : pc[t] \notin Writing

InitRecovers ==
  /\ counter = 0 => TailIsNewest
  /\ \A t \in Tasks :
       /\ pc[t] = "readTail" => present # {} /\ target[t] = LastFile
       /\ pc[t] = "setCounter" => found[t] = Recovered \/ (found[t] = -1 /\ Recovered = 0)

CounterBounds ==
  /\ counter > 0 => \A f \in FileNo : \A i \in DOMAIN files[f] : files[f][i].seq <= counter
  /\ \A t \in Tasks : pc[t] \in Writing => seq[t] <= counter

NumbersHeldOnce ==
  /\ \A t, u \in Tasks : pc[t] \in Numbered /\ pc[u] \in Numbered /\ seq[t] = seq[u] => t = u
  /\ \A t \in Tasks : pc[t] \in Numbered =>
       \A f \in FileNo : \A i \in DOMAIN files[f] : files[f][i].seq # seq[t]

(* Holds in every state: a directory that is not there holds nothing.           *)
DirectoryFirst ==
  /\ ~dir => LogEmpty /\ counter = 0
  /\ \A t \in Tasks : pc[t] \in Active \ {"access", "mkdir"} => dir

(* While the counter is 0 and the first file is about to be created, no line    *)
(* has been written.                                                            *)
FirstFileFirst == \A t \in Tasks : pc[t] \in {"mkdir", "firstFile"} => LogEmpty

Numbering ==
  /\ InitAlone
  /\ InitRecovers
  /\ FirstFileFirst
  /\ CounterBounds
  /\ NumbersHeldOnce
  /\ UniqueNumbers

NumInv ==
  /\ TypeInv
  /\ DirectoryFirst
  /\ ~(initOverlap \/ staleTail) => Numbering

LEMMA NumInit == Init => NumInv
<1> SUFFICES ASSUME Init PROVE NumInv
  OBVIOUS
<1>1. LogEmpty /\ DirectoryFirst
  BY DEF Init, LogEmpty, DirectoryFirst, Active, Initializing, Writing
<1>2. Numbering
  BY DEF Init, Numbering, InitAlone, InitRecovers, FirstFileFirst, LogEmpty, CounterBounds,
         NumbersHeldOnce, Numbered, UniqueNumbers, TailIsNewest, Initializing, Writing
<1> QED
  BY <1>1, <1>2, TypeInit DEF NumInv

LEMMA DirectoryStep == TypeInv /\ DirectoryFirst /\ [Next]_vars => DirectoryFirst'
<1> SUFFICES ASSUME TypeInv, DirectoryFirst, [Next]_vars PROVE DirectoryFirst'
  OBVIOUS
<1> USE DEF DirectoryFirst, LogEmpty, Active, Initializing, Writing
<1>1. ASSUME NEW t \in Tasks, Begin(t) PROVE DirectoryFirst'
  <2>1. CASE BeginUninitialized(t)
    BY <2>1 DEF BeginUninitialized, Goto, diskVars, memoryVars, TypeInv, TypeOK
  <2>2. CASE BeginInitialized(t)
    BY <2>2 DEF BeginInitialized, TakeNumber, Goto, diskVars, memoryVars, TypeInv, TypeOK
  <2> QED
    BY <1>1, <2>1, <2>2 DEF Begin
<1>2. ASSUME NEW t \in Tasks, InitializeResourceStream(t) PROVE DirectoryFirst'
  <2>1. CASE Access(t)
    BY <2>1 DEF Access, Goto, diskVars, memoryVars, TypeInv, TypeOK
  <2>2. CASE Mkdir(t)
    BY <2>2 DEF Mkdir, Goto, memoryVars, TypeInv, TypeOK
  <2>3. CASE FirstFile(t)
    BY <2>3 DEF FirstFile, CreateFile, Goto, memoryVars, TypeInv, TypeOK
  <2>4. CASE ListInit(t) \/ ReadTail(t)
    BY <2>4 DEF ListInit, ReadTail, Goto, diskVars, memoryVars, TypeInv, TypeOK
  <2>5. CASE SetCounter(t)
    BY <2>5 DEF SetCounter, TakeNumber, Goto, diskVars, memoryVars, TypeInv, TypeOK
  <2>6. CASE FirstFileUnstaged(t)
    BY <2>6 DEF FirstFileUnstaged, CreateFile, Goto, memoryVars, TypeInv, TypeOK
  <2>7. CASE CallFails(t)
    BY <2>7 DEF CallFails, FileCalls, Goto, diskVars, memoryVars, TypeInv, TypeOK
  <2> QED
    BY <1>2, <2>1, <2>2, <2>3, <2>4, <2>5, <2>6, <2>7 DEF InitializeResourceStream
<1>3. ASSUME NEW t \in Tasks, WriteEvent(t) PROVE DirectoryFirst'
  BY <1>3
     DEF WriteEvent, ListFiles, CountLines, Cache, Rotate, NewFile, CreateFile, UseNew,
         AppendFile, Unstaged, Goto, diskVars, memoryVars, TypeInv, TypeOK
<1>4. ASSUME NEW t \in Tasks, Stored(t) PROVE DirectoryFirst'
  BY <1>4 DEF Stored, Goto, diskVars, memoryVars, TypeInv, TypeOK
<1>5. CASE Restart
  BY <1>5 DEF Restart, diskVars, TypeInv, TypeOK
<1>6. CASE UNCHANGED vars
  BY <1>6 DEF vars, diskVars, memoryVars
<1> QED
  BY <1>1, <1>2, <1>3, <1>4, <1>5, <1>6 DEF Next

(* A step of a task that is past the counter, which touches neither the disk    *)
(* nor a number.                                                                *)
LEMMA QuietStep ==
  ASSUME TypeInv, Numbering, NEW t \in Tasks, NEW l \in Writing \cup Settled,
         pc[t] \in Writing, l \in Numbered => pc[t] \in Numbered,
         Goto(t, l), UNCHANGED <<present, files, counter, seq>>,
         \A u \in Tasks \ {t} : found'[u] = found[u] /\ target'[u] = target[u]
  PROVE  Numbering'
<1> USE DEF Numbering, Numbered, TypeInv, TypeOK
<1>1. \A u \in Tasks : pc'[u] = IF u = t THEN l ELSE pc[u]
  BY DEF Goto
<1>2. /\ l \notin Initializing
      /\ \A u \in Tasks : pc[u] \notin Initializing
  BY DEF InitAlone, Initializing, Writing, Settled
<1>3. \A u \in Tasks : pc'[u] \notin Initializing
  BY <1>1, <1>2
<1>4. counter # 0
  BY DEF InitAlone
<1>5. InitAlone' /\ InitRecovers' /\ FirstFileFirst'
  BY <1>3, <1>4 DEF InitAlone, InitRecovers, FirstFileFirst, Initializing
<1>6. CounterBounds'
  BY <1>1 DEF CounterBounds
<1>7. NumbersHeldOnce'
  BY <1>1 DEF NumbersHeldOnce
<1>8. UniqueNumbers'
  BY DEF UniqueNumbers
<1> QED
  BY <1>5, <1>6, <1>7, <1>8

(* Taking the number c + 1 when c bounds everything, and no task initialises    *)
(* or t is the one that does and nothing else is in flight.                     *)
LEMMA NumberStep ==
  ASSUME TypeInv, Numbering, NEW t \in Tasks, NEW c \in Nat, TakeNumber(t, c),
         UNCHANGED <<present, files, found, target>>, pc[t] \notin Writing,
         \A u \in Tasks : pc[u] \in Initializing => u = t,
         \A u \in Tasks : pc[u] \in Writing => seq[u] <= c,
         \A f \in FileNo : \A i \in DOMAIN files[f] : files[f][i].seq <= c
  PROVE  Numbering'
<1> USE DEF Numbering, Numbered
<1>1. /\ counter' = c + 1 /\ seq'[t] = c + 1 /\ pc'[t] \in {"list", "rotate", "append"}
      /\ \A u \in Tasks \ {t} : pc'[u] = pc[u] /\ seq'[u] = seq[u]
  BY TakeNumberTyped DEF TakeNumber
<1>2. \A u \in Tasks : pc'[u] \notin Initializing
  BY <1>1 DEF Initializing
<1>3. counter' # 0
  BY <1>1
<1>4. InitAlone' /\ InitRecovers' /\ FirstFileFirst'
  BY <1>2, <1>3 DEF InitAlone, InitRecovers, FirstFileFirst, Initializing
<1>5. \A f \in FileNo : \A i \in DOMAIN files[f] : files[f][i].seq \in Nat
  BY LinesTyped DEF TypeInv, Line
<1>6. \A u \in Tasks : seq[u] \in Nat
  BY DEF TypeInv, TypeOK
<1>7. CounterBounds'
  BY <1>1, <1>5, <1>6 DEF CounterBounds
<1>8. NumbersHeldOnce'
  BY <1>1, <1>5, <1>6 DEF NumbersHeldOnce
<1>9. UniqueNumbers'
  BY DEF UniqueNumbers
<1> QED
  BY <1>4, <1>7, <1>8, <1>9

(* A step of the initialising task that stays in initializeResourceStream.      *)
LEMMA InitStep ==
  ASSUME TypeInv, Numbering, NEW t \in Tasks, NEW l \in Initializing, pc[t] \in Initializing,
         Goto(t, l), UNCHANGED <<counter, seq>>, UNCHANGED files \/ LogEmpty'
  PROVE  /\ counter = 0 /\ pc'[t] = l
         /\ \A u \in Tasks : pc'[u] \in Initializing => u = t
         /\ InitAlone' /\ CounterBounds' /\ NumbersHeldOnce' /\ UniqueNumbers'
<1> USE DEF Numbering
<1>1. \A u \in Tasks : pc'[u] = IF u = t THEN l ELSE pc[u]
  BY DEF Goto, TypeInv, TypeOK
<1>2. counter = 0 /\ \A u \in Tasks : pc[u] \in Initializing => u = t
  BY DEF InitAlone
<1>3. \A u \in Tasks : pc'[u] \notin Writing
  BY <1>1, <1>2 DEF InitAlone, Initializing, Writing
<1>4. InitAlone'
  BY <1>1, <1>2, <1>3 DEF InitAlone
<1>5. CounterBounds' /\ NumbersHeldOnce'
  BY <1>2, <1>3 DEF CounterBounds, NumbersHeldOnce, Numbered
<1>6. UniqueNumbers'
  BY DEF UniqueNumbers, LogEmpty
<1> QED
  BY <1>1, <1>2, <1>4, <1>5, <1>6

(* A call that fails while it initialises the stream leaves the counter where a *)
(* fresh process has it, whether or not it has created the first file.          *)
LEMMA InitFails ==
  ASSUME TypeInv, Numbering, NEW t \in Tasks, pc[t] \in Initializing, Goto(t, "failed"),
         UNCHANGED <<counter, seq>>, UNCHANGED <<present, files>> \/ LogEmpty'
  PROVE  Numbering'
<1> USE DEF Numbering
<1>1. \A u \in Tasks : pc'[u] = IF u = t THEN "failed" ELSE pc[u]
  BY DEF Goto, TypeInv, TypeOK
<1>2. counter = 0 /\ \A u \in Tasks : pc[u] \in Initializing => u = t
  BY DEF InitAlone
<1>3. \A u \in Tasks : pc'[u] \notin Writing /\ pc'[u] \notin Initializing
  BY <1>1, <1>2 DEF InitAlone, Initializing, Writing
<1>4. InitAlone' /\ FirstFileFirst'
  BY <1>2, <1>3 DEF InitAlone, FirstFileFirst, Initializing
<1>5. CounterBounds' /\ NumbersHeldOnce'
  BY <1>2, <1>3 DEF CounterBounds, NumbersHeldOnce, Numbered
<1>6. UniqueNumbers'
  BY DEF UniqueNumbers, LogEmpty
<1>7. TailIsNewest'
  <2>1. CASE UNCHANGED <<present, files>>
    BY <1>2, <2>1 DEF InitRecovers, TailIsNewest, Recovered, LastFile, TailNumber
  <2>2. CASE LogEmpty'
    BY <2>2 DEF TailIsNewest, LogEmpty
  <2> QED
    BY <2>1, <2>2
<1>8. InitRecovers'
  BY <1>3, <1>7 DEF InitRecovers, Initializing
<1> QED
  BY <1>4, <1>5, <1>6, <1>8

LEMMA NumberingStep ==
  ASSUME TypeInv, DirectoryFirst, Numbering, [Next]_vars, TypeInv',
         ~(initOverlap' \/ staleTail')
  PROVE  Numbering'
<1> USE DEF Numbering
<1>1. ASSUME NEW t \in Tasks, BeginUninitialized(t) PROVE Numbering'
  <2>1. \A u \in Tasks : pc[u] \notin Initializing
    BY <1>1 DEF BeginUninitialized
  <2>2. \A u \in Tasks : pc'[u] = IF u = t THEN "access" ELSE pc[u]
    BY <1>1 DEF BeginUninitialized, Goto, TypeInv, TypeOK
  <2>3. UNCHANGED <<present, files, counter, seq, found, target>> /\ counter = 0
    BY <1>1 DEF BeginUninitialized, diskVars, memoryVars, localVars
  <2>4. InitAlone'
    BY <2>1, <2>2, <2>3 DEF InitAlone, Writing
  <2>5. InitRecovers'
    BY <2>1, <2>2, <2>3 DEF InitRecovers, TailIsNewest, Recovered, LastFile, TailNumber
  <2>6. FirstFileFirst'
    BY <2>1, <2>2, <2>3 DEF FirstFileFirst, LogEmpty, Initializing
  <2>7. CounterBounds' /\ NumbersHeldOnce' /\ UniqueNumbers'
    BY <2>2, <2>3 DEF CounterBounds, NumbersHeldOnce, UniqueNumbers, Numbered, Writing
  <2> QED
    BY <2>4, <2>5, <2>6, <2>7
<1>2. ASSUME NEW t \in Tasks, BeginInitialized(t) PROVE Numbering'
  <2>1. counter \in Nat /\ counter > 0
    BY <1>2 DEF BeginInitialized, TypeInv, TypeOK
  <2>2. \A u \in Tasks : pc[u] \notin Initializing
    BY <2>1 DEF InitAlone
  <2>3. pc[t] \notin Writing
    BY <1>2 DEF BeginInitialized, Writing
  <2> QED
    BY <1>2, <2>1, <2>2, <2>3, NumberStep DEF BeginInitialized, CounterBounds, diskVars
<1>3. ASSUME NEW t \in Tasks, Access(t) PROVE Numbering'
  <2>1. UNCHANGED <<present, files, counter, seq, found>> /\ pc[t] \in Initializing
    BY <1>3 DEF Access, diskVars, memoryVars, Initializing
  <2>2. PICK l \in {"listInit", "mkdir"} : Goto(t, l) /\ (l = "mkdir" => ~dir)
    BY <1>3 DEF Access
  <2>3. l \in Initializing
    BY DEF Initializing
  <2>4. /\ counter = 0 /\ pc'[t] = l
        /\ \A u \in Tasks : pc'[u] \in Initializing => u = t
        /\ InitAlone' /\ CounterBounds' /\ NumbersHeldOnce' /\ UniqueNumbers'
    BY <2>1, <2>2, <2>3, InitStep
  <2>5. InitRecovers'
    BY <2>1, <2>4 DEF InitRecovers, TailIsNewest, Recovered, LastFile, TailNumber, Initializing
  <2>6. FirstFileFirst'
    BY <2>1, <2>2, <2>4 DEF FirstFileFirst, LogEmpty, DirectoryFirst, Initializing
  <2> QED
    BY <2>4, <2>5, <2>6
<1>4. ASSUME NEW t \in Tasks, Mkdir(t) PROVE Numbering'
  <2>1. /\ UNCHANGED <<present, files, counter, seq, found, target>>
        /\ pc[t] = "mkdir" /\ Goto(t, "firstFile")
    BY <1>4 DEF Mkdir, memoryVars, localVars
  <2>2. pc[t] \in Initializing /\ "firstFile" \in Initializing
    BY <2>1 DEF Initializing
  <2>3. /\ counter = 0 /\ pc'[t] = "firstFile"
        /\ \A u \in Tasks : pc'[u] \in Initializing => u = t
        /\ InitAlone' /\ CounterBounds' /\ NumbersHeldOnce' /\ UniqueNumbers'
    BY <2>1, <2>2, InitStep
  <2>4. InitRecovers'
    BY <2>1, <2>3 DEF InitRecovers, TailIsNewest, Recovered, LastFile, TailNumber, Initializing
  <2>5. FirstFileFirst'
    BY <2>1, <2>3 DEF FirstFileFirst, LogEmpty, Initializing
  <2> QED
    BY <2>3, <2>4, <2>5
<1>5. ASSUME NEW t \in Tasks, FirstFile(t) PROVE Numbering'
  <2>1. /\ UNCHANGED <<counter, seq, target>>
        /\ pc[t] = "firstFile" /\ Goto(t, "setCounter")
        /\ present' = present \cup {1} /\ files' = [files EXCEPT ![1] = <<>>]
        /\ found' = [found EXCEPT ![t] = 0]
    BY <1>5 DEF FirstFile, CreateFile, memoryVars, localVars
  <2>2. pc[t] \in Initializing /\ "setCounter" \in Initializing
    BY <2>1 DEF Initializing
  <2>3. LogEmpty'
    BY <2>1 DEF FirstFileFirst, LogEmpty, TypeInv, TypeOK
  <2>4. /\ counter = 0 /\ pc'[t] = "setCounter"
        /\ \A u \in Tasks : pc'[u] \in Initializing => u = t
        /\ InitAlone' /\ CounterBounds' /\ NumbersHeldOnce' /\ UniqueNumbers'
    BY <2>1, <2>2, <2>3, InitStep
  <2>5. Recovered' = 0
    <3>1. present' \in SUBSET FileNo /\ present' # {}
      BY <2>1 DEF TypeInv, TypeOK
    <3>2. Max(present') \in FileNo
      BY <3>1, MaxOfSet, BoundAssumption DEF FileNo
    <3> QED
      BY <2>3, <3>1, <3>2 DEF Recovered, LastFile, LogEmpty
  <2>6. found'[t] = 0
    BY <2>1 DEF TypeInv, TypeOK
  <2>7. InitRecovers'
    BY <2>3, <2>4, <2>5, <2>6 DEF InitRecovers, TailIsNewest, LogEmpty, Initializing
  <2>8. FirstFileFirst'
    BY <2>3 DEF FirstFileFirst
  <2> QED
    BY <2>4, <2>7, <2>8
<1>6. ASSUME NEW t \in Tasks, ListInit(t) PROVE Numbering'
  <2>1. UNCHANGED <<present, files, counter, seq>> /\ pc[t] \in Initializing
    BY <1>6 DEF ListInit, diskVars, memoryVars, Initializing
  <2>2. PICK l \in {"setCounter", "readTail"} :
          /\ Goto(t, l)
          /\ l = "setCounter" => present = {} /\ found' = [found EXCEPT ![t] = 0]
          /\ l = "readTail" => present # {} /\ target' = [target EXCEPT ![t] = LastFile]
    BY <1>6 DEF ListInit
  <2>3. l \in Initializing
    BY DEF Initializing
  <2>4. /\ counter = 0 /\ pc'[t] = l
        /\ \A u \in Tasks : pc'[u] \in Initializing => u = t
        /\ InitAlone' /\ CounterBounds' /\ NumbersHeldOnce' /\ UniqueNumbers'
    BY <2>1, <2>2, <2>3, InitStep
  <2>5. l = "setCounter" => found'[t] = Recovered
    BY <2>2 DEF Recovered, TypeInv, TypeOK
  <2>6. l = "readTail" => target'[t] = LastFile
    BY <2>2 DEF TypeInv, TypeOK
  <2>7. UNCHANGED <<Recovered, LastFile, TailIsNewest>>
    BY <2>1 DEF Recovered, LastFile, TailNumber, TailIsNewest
  <2>8. InitRecovers'
    BY <2>1, <2>2, <2>4, <2>5, <2>6, <2>7 DEF InitRecovers, Initializing
  <2>9. FirstFileFirst'
    BY <2>1, <2>2, <2>4 DEF FirstFileFirst, Initializing
  <2> QED
    BY <2>4, <2>8, <2>9
<1>7. ASSUME NEW t \in Tasks, ReadTail(t) PROVE Numbering'
  <2>1. /\ UNCHANGED <<present, files, counter, seq>>
        /\ pc[t] = "readTail" /\ Goto(t, "setCounter")
        /\ found'[t] = TailNumber(target[t])
    BY <1>7 DEF ReadTail, diskVars, memoryVars, TypeInv, TypeOK
  <2>2. pc[t] \in Initializing /\ "setCounter" \in Initializing
    BY <2>1 DEF Initializing
  <2>3. /\ counter = 0 /\ pc'[t] = "setCounter"
        /\ \A u \in Tasks : pc'[u] \in Initializing => u = t
        /\ InitAlone' /\ CounterBounds' /\ NumbersHeldOnce' /\ UniqueNumbers'
    BY <2>1, <2>2, InitStep
  <2>4. found'[t] = Recovered \/ (found'[t] = -1 /\ Recovered = 0)
    BY <2>1 DEF InitRecovers, Recovered, TailNumber
  <2>5. UNCHANGED <<Recovered, LastFile, TailIsNewest>>
    BY <2>1 DEF Recovered, LastFile, TailNumber, TailIsNewest
  <2>6. InitRecovers'
    BY <2>3, <2>4, <2>5, <2>1 DEF InitRecovers, Initializing
  <2>7. FirstFileFirst'
    BY <2>3 DEF FirstFileFirst, Initializing
  <2> QED
    BY <2>3, <2>6, <2>7
<1>8. ASSUME NEW t \in Tasks, SetCounter(t) PROVE Numbering'
  <2> DEFINE c == IF found[t] = -1 THEN counter ELSE found[t]
  <2>1. pc[t] \in Initializing /\ pc[t] \notin Writing /\ counter = 0
    BY <1>8 DEF SetCounter, InitAlone, Initializing, Writing
  <2>2. c \in Nat /\ c = Recovered
    BY <1>8, <2>1, RecoveredTyped DEF SetCounter, InitRecovers, TypeInv
  <2>3. \A u \in Tasks : pc[u] \in Initializing => u = t
    BY <2>1 DEF InitAlone
  <2>4. \A u \in Tasks : pc[u] \notin Writing
    BY <2>1 DEF InitAlone
  <2>5. \A f \in FileNo : \A i \in DOMAIN files[f] : files[f][i].seq <= c
    BY <2>1, <2>2 DEF InitRecovers, TailIsNewest
  <2>6. TakeNumber(t, c) /\ UNCHANGED <<present, files, found, target>>
    BY <1>8 DEF SetCounter, diskVars
  <2> QED
    BY <2>1, <2>2, <2>3, <2>4, <2>5, <2>6, NumberStep
<1>9. ASSUME NEW t \in Tasks, ListFiles(t) PROVE Numbering'
  <2>1. UNCHANGED <<present, files, counter, seq>>
    BY <1>9 DEF ListFiles, diskVars, memoryVars
  <2>2. PICK l \in {"rotate", "count"} : Goto(t, l)
    BY <1>9 DEF ListFiles
  <2>3. /\ pc[t] \in Writing /\ l \in Writing \cup Settled
        /\ l \in Numbered => pc[t] \in Numbered
    BY <1>9 DEF ListFiles, Writing, Settled, Numbered
  <2>4. \A u \in Tasks \ {t} : found'[u] = found[u] /\ target'[u] = target[u]
    BY <1>9 DEF ListFiles, Forget, localVars, TypeInv, TypeOK
  <2> QED
    BY <2>1, <2>2, <2>3, <2>4, QuietStep
<1>10. ASSUME NEW t \in Tasks, CountLines(t) PROVE Numbering'
  <2>1. UNCHANGED <<present, files, counter, seq>>
    BY <1>10 DEF CountLines, diskVars, memoryVars
  <2>2. PICK l \in {"cache"} : Goto(t, l)
    BY <1>10 DEF CountLines
  <2>3. /\ pc[t] \in Writing /\ l \in Writing \cup Settled
        /\ l \in Numbered => pc[t] \in Numbered
    BY <1>10 DEF CountLines, Writing, Settled, Numbered
  <2>4. \A u \in Tasks \ {t} : found'[u] = found[u] /\ target'[u] = target[u]
    BY <1>10 DEF CountLines, Forget, localVars, TypeInv, TypeOK
  <2> QED
    BY <2>1, <2>2, <2>3, <2>4, QuietStep
<1>11. ASSUME NEW t \in Tasks, Cache(t) PROVE Numbering'
  <2>1. UNCHANGED <<present, files, counter, seq>>
    BY <1>11 DEF Cache, diskVars, memoryVars
  <2>2. PICK l \in {"rotate", "append"} : Goto(t, l)
    BY <1>11 DEF Cache
  <2>3. /\ pc[t] \in Writing /\ l \in Writing \cup Settled
        /\ l \in Numbered => pc[t] \in Numbered
    BY <1>11 DEF Cache, Writing, Settled, Numbered
  <2>4. \A u \in Tasks \ {t} : found'[u] = found[u] /\ target'[u] = target[u]
    BY <1>11 DEF Cache, Forget, localVars, TypeInv, TypeOK
  <2> QED
    BY <2>1, <2>2, <2>3, <2>4, QuietStep
<1>12. ASSUME NEW t \in Tasks, Rotate(t) PROVE Numbering'
  <2>1. UNCHANGED <<present, files, counter, seq>>
    BY <1>12 DEF Rotate, diskVars, memoryVars
  <2>2. PICK l \in {"newFile"} : Goto(t, l)
    BY <1>12 DEF Rotate
  <2>3. /\ pc[t] \in Writing /\ l \in Writing \cup Settled
        /\ l \in Numbered => pc[t] \in Numbered
    BY <1>12 DEF Rotate, Writing, Settled, Numbered
  <2>4. \A u \in Tasks \ {t} : found'[u] = found[u] /\ target'[u] = target[u]
    BY <1>12 DEF Rotate, Forget, localVars, TypeInv, TypeOK
  <2> QED
    BY <2>1, <2>2, <2>3, <2>4, QuietStep
<1>13. ASSUME NEW t \in Tasks, UseNew(t) PROVE Numbering'
  <2>1. UNCHANGED <<present, files, counter, seq>>
    BY <1>13 DEF UseNew, diskVars, memoryVars
  <2>2. PICK l \in {"append"} : Goto(t, l)
    BY <1>13 DEF UseNew
  <2>3. /\ pc[t] \in Writing /\ l \in Writing \cup Settled
        /\ l \in Numbered => pc[t] \in Numbered
    BY <1>13 DEF UseNew, Writing, Settled, Numbered
  <2>4. \A u \in Tasks \ {t} : found'[u] = found[u] /\ target'[u] = target[u]
    BY <1>13 DEF UseNew, Forget, localVars, TypeInv, TypeOK
  <2> QED
    BY <2>1, <2>2, <2>3, <2>4, QuietStep
<1>14. ASSUME NEW t \in Tasks, CallFails(t) PROVE Numbering'
  <2>1. UNCHANGED <<present, files, counter, seq>> /\ Goto(t, "failed")
    BY <1>14 DEF CallFails, diskVars, memoryVars
  <2>2. CASE pc[t] \in Initializing
    BY <2>1, <2>2, InitFails
  <2>3. CASE pc[t] \notin Initializing
    <3>1. pc[t] \in Writing /\ "failed" \in Writing \cup Settled /\ "failed" \notin Numbered
      BY <1>14, <2>3 DEF CallFails, FileCalls, Initializing, Writing, Settled, Numbered
    <3>2. \A u \in Tasks \ {t} : found'[u] = found[u] /\ target'[u] = target[u]
      BY <1>14 DEF CallFails, Forget, TypeInv, TypeOK
    <3> QED
      BY <2>1, <3>1, <3>2, QuietStep
  <2> QED
    BY <2>2, <2>3
<1>20. ASSUME NEW t \in Tasks, FirstFileUnstaged(t) PROVE Numbering'
  <2>1. /\ Goto(t, "failed") /\ UNCHANGED <<counter, seq>> /\ pc[t] \in Initializing
        /\ LogEmpty /\ files' = [files EXCEPT ![1] = <<>>]
    BY <1>20 DEF FirstFileUnstaged, CreateFile, memoryVars, FirstFileFirst, Initializing
  <2>2. LogEmpty'
    BY <2>1 DEF LogEmpty, TypeInv, TypeOK
  <2> QED
    BY <2>1, <2>2, InitFails
<1>21. ASSUME NEW t \in Tasks, Unstaged(t) PROVE Numbering'
  <2>1. UNCHANGED <<present, files, counter, seq>> /\ Goto(t, "failed")
    BY <1>21 DEF Unstaged, diskVars
  <2>2. pc[t] \in Writing /\ "failed" \in Writing \cup Settled /\ "failed" \notin Numbered
    BY <1>21 DEF Unstaged, Writing, Settled, Numbered
  <2>3. \A u \in Tasks \ {t} : found'[u] = found[u] /\ target'[u] = target[u]
    BY <1>21 DEF Unstaged, Forget, TypeInv, TypeOK
  <2> QED
    BY <2>1, <2>2, <2>3, QuietStep
<1>15. ASSUME NEW t \in Tasks, Stored(t) PROVE Numbering'
  <2>1. UNCHANGED <<present, files, counter, seq>>
    BY <1>15 DEF Stored, diskVars, memoryVars
  <2>2. PICK l \in {"stored"} : Goto(t, l)
    BY <1>15 DEF Stored
  <2>3. /\ pc[t] \in Writing /\ l \in Writing \cup Settled
        /\ l \in Numbered => pc[t] \in Numbered
    BY <1>15 DEF Stored, Writing, Settled, Numbered
  <2>4. \A u \in Tasks \ {t} : found'[u] = found[u] /\ target'[u] = target[u]
    BY <1>15 DEF Stored, Forget, localVars, TypeInv, TypeOK
  <2> QED
    BY <2>1, <2>2, <2>3, <2>4, QuietStep
<1>16. ASSUME NEW t \in Tasks, NewFile(t) PROVE Numbering'
  <2>1. /\ UNCHANGED <<counter, seq, found, target>>
        /\ pc[t] = "newFile" /\ \A u \in Tasks : pc'[u] = IF u = t THEN "useNew" ELSE pc[u]
        /\ \A f \in FileNo : files'[f] = IF f = target[t] THEN <<>> ELSE files[f]
    BY <1>16 DEF NewFile, CreateFile, Goto, memoryVars, localVars, TypeInv, TypeOK
  <2>2. counter # 0 /\ \A u \in Tasks : pc'[u] \notin Initializing
    BY <2>1 DEF InitAlone, Initializing, Writing
  <2>3. InitAlone' /\ InitRecovers' /\ FirstFileFirst'
    BY <2>1, <2>2 DEF InitAlone, InitRecovers, FirstFileFirst, Initializing
  <2>4. CounterBounds' /\ NumbersHeldOnce'
    BY <2>1 DEF CounterBounds, NumbersHeldOnce, Numbered, Writing
  <2>5. UniqueNumbers'
    BY <2>1 DEF UniqueNumbers
  <2> QED
    BY <2>3, <2>4, <2>5
<1>17. ASSUME NEW t \in Tasks, AppendFile(t) PROVE Numbering'
  <2> DEFINE n == entry[using[t]].path
             line == [event |-> t, seq |-> seq[t]]
             new == Len(files[n]) + 1
  <2>1. /\ UNCHANGED <<counter, seq, found, target>>
        /\ pc[t] = "append" /\ \A u \in Tasks : pc'[u] = IF u = t THEN "written" ELSE pc[u]
        /\ files' = [files EXCEPT ![n] = Append(@, line)]
    BY <1>17 DEF AppendFile, Goto, memoryVars, localVars, TypeInv, TypeOK
  <2>2. n \in FileNo /\ files[n] \in Seq(Line)
    BY <2>1 DEF TypeInv, TypeOK, LocalsOK
  <2>3. line \in Line
    BY <2>1 DEF TypeInv, TypeOK, LocalsOK, Line, Writing
  <2>4. \A f \in FileNo : \A i \in DOMAIN files'[f] :
          \/ f = n /\ i = new /\ files'[f][i] = line
          \/ i \in DOMAIN files[f] /\ files'[f][i] = files[f][i]
    <3>1. /\ DOMAIN Append(files[n], line) = 1 .. new
          /\ Append(files[n], line)[new] = line
          /\ \A i \in DOMAIN files[n] : Append(files[n], line)[i] = files[n][i]
          /\ DOMAIN files[n] = 1 .. (new - 1) /\ new \in Nat
      BY <2>2, <2>3
    <3>2. \A f \in FileNo : files'[f] = IF f = n THEN Append(files[n], line) ELSE files[f]
      BY <2>1, <2>2 DEF TypeInv, TypeOK
    <3>3. \A i \in 1 .. new : i = new \/ i \in 1 .. (new - 1)
      BY <3>1
    <3>4. \A i \in DOMAIN files'[n] :
            \/ i = new /\ files'[n][i] = line
            \/ i \in DOMAIN files[n] /\ files'[n][i] = files[n][i]
      BY <2>2, <3>1, <3>2, <3>3
    <3> QED
      BY <3>2, <3>4
  <2>5. counter # 0 /\ \A u \in Tasks : pc'[u] \notin Initializing
    BY <2>1 DEF InitAlone, Initializing, Writing
  <2>6. InitAlone' /\ InitRecovers' /\ FirstFileFirst'
    BY <2>1, <2>5 DEF InitAlone, InitRecovers, FirstFileFirst, Initializing
  <2>7. pc[t] \in Numbered /\ pc'[t] \notin Numbered /\ seq[t] <= counter
    BY <2>1 DEF Numbered, Writing, CounterBounds
  <2>8. counter > 0
    BY <2>5 DEF TypeInv, TypeOK
  <2>9. CounterBounds'
    <3>1. \A f \in FileNo : \A i \in DOMAIN files'[f] : files'[f][i].seq <= counter
      BY <2>4, <2>7, <2>8 DEF CounterBounds
    <3> QED
      BY <2>1, <3>1 DEF CounterBounds, Writing
  <2>10. NumbersHeldOnce'
    <3>1. \A u \in Tasks : pc'[u] \in Numbered => u # t /\ pc[u] \in Numbered /\ seq[u] # seq[t]
      BY <2>1, <2>7 DEF NumbersHeldOnce
    <3> QED
      BY <2>1, <2>4, <3>1 DEF NumbersHeldOnce
  <2>11. UniqueNumbers'
    <3>1. \A f \in FileNo : \A i \in DOMAIN files[f] : files[f][i].seq # seq[t]
      BY <2>7 DEF NumbersHeldOnce
    <3> QED
      BY <2>4, <3>1 DEF UniqueNumbers
  <2> QED
    BY <2>6, <2>9, <2>10, <2>11
<1>18. CASE Restart
  <2>1. /\ UNCHANGED <<present, files, seq>> /\ counter' = 0 /\ TailIsNewest
        /\ \A u \in Tasks : pc'[u] \notin Active
    BY <1>18 DEF Restart, diskVars, Active, Initializing, Writing, TypeInv, TypeOK
  <2>2. \A u \in Tasks : pc'[u] \notin Initializing /\ pc'[u] \notin Writing
    BY <2>1 DEF Active
  <2>3. InitAlone' /\ FirstFileFirst' /\ CounterBounds' /\ NumbersHeldOnce'
    BY <2>1, <2>2 DEF InitAlone, FirstFileFirst, CounterBounds, NumbersHeldOnce, Numbered,
                     Initializing
  <2>4. TailIsNewest'
    BY <2>1 DEF TailIsNewest, Recovered, LastFile, TailNumber
  <2>5. InitRecovers'
    BY <2>2, <2>4 DEF InitRecovers, Initializing
  <2>6. UniqueNumbers'
    BY <2>1 DEF UniqueNumbers
  <2> QED
    BY <2>3, <2>5, <2>6
<1>19. CASE UNCHANGED vars
  BY <1>19 DEF vars, diskVars, memoryVars, localVars, InitAlone, InitRecovers, FirstFileFirst,
               LogEmpty, CounterBounds, NumbersHeldOnce, UniqueNumbers, TailIsNewest, Recovered,
               LastFile, TailNumber
<1> QED
  BY <1>1, <1>2, <1>3, <1>4, <1>5, <1>6, <1>7, <1>8, <1>9, <1>10, <1>11, <1>12, <1>13, <1>14,
     <1>15, <1>16, <1>17, <1>18, <1>19, <1>20, <1>21
     DEF Next, Begin, InitializeResourceStream, WriteEvent

(* The history variables only ever become true. *)
LEMMA HistoryStep ==
  ASSUME [Next]_vars
  PROVE  (initOverlap => initOverlap') /\ (staleTail => staleTail')
<1>1. ASSUME NEW t \in Tasks, Begin(t)
      PROVE  (initOverlap => initOverlap') /\ staleTail' = staleTail
  <2>1. CASE BeginUninitialized(t)
    BY <2>1 DEF BeginUninitialized
  <2>2. CASE BeginInitialized(t)
    BY <2>2 DEF BeginInitialized, historyVars
  <2> QED
    BY <1>1, <2>1, <2>2 DEF Begin
<1>2. ASSUME NEW t \in Tasks, InitializeResourceStream(t)
      PROVE  initOverlap' = initOverlap /\ staleTail' = staleTail
  BY <1>2 DEF InitializeResourceStream, Access, Mkdir, FirstFile, ListInit, ReadTail, SetCounter,
              FirstFileUnstaged, CallFails, historyVars
<1>3. ASSUME NEW t \in Tasks, WriteEvent(t)
      PROVE  initOverlap' = initOverlap /\ staleTail' = staleTail
  BY <1>3 DEF WriteEvent, ListFiles, CountLines, Cache, Rotate, NewFile, UseNew, AppendFile,
              Unstaged, historyVars
<1>4. ASSUME NEW t \in Tasks, Stored(t)
      PROVE  initOverlap' = initOverlap /\ staleTail' = staleTail
  BY <1>4 DEF Stored, historyVars
<1>5. CASE Restart
  BY <1>5 DEF Restart
<1>6. CASE UNCHANGED vars
  BY <1>6 DEF vars, historyVars
<1> QED
  BY <1>1, <1>2, <1>3, <1>4, <1>5, <1>6 DEF Next

(* Sequence numbers identify events, for any number of concurrent appends and   *)
(* any crashes, short of an overlapping initialisation or a stale last line.    *)
THEOREM NumbersIdentifyEvents == Spec => []NumbersUnique
<1>1. NumInv /\ [Next]_vars => NumInv'
  BY TypeStep, DirectoryStep, NumberingStep, HistoryStep DEF NumInv
<1>2. NumInv => NumbersUnique
  BY DEF NumInv, Numbering, NumbersUnique
<1> QED
  BY NumInit, <1>1, <1>2, PTL DEF Spec

-------------------------------------------------------------------------------
(* Why stored events stay.  A task appends to a file that is there; a task that  *)
(* creates a file creates one that is not, unless another task creates the same. *)
PathsPresent ==
  /\ ~dir => present = {}
  /\ cached # NoTask => entry[cached].path \in present
  /\ \A t \in Tasks :
       /\ pc[t] \in {"append", "written"} => entry[using[t]].path \in present
       /\ pc[t] \in {"readTail", "count", "cache", "useNew"} => target[t] \in present
       /\ pc[t] \in {"mkdir", "firstFile"} => target[t] = 1

CreatesAreFresh ==
  /\ \A t \in Tasks : pc[t] \in Creating => target[t] \notin present
  /\ \A t, u \in Tasks : pc[t] \in Creating /\ pc[u] \in Creating /\ target[t] = target[u] => t = u

WrittenInLog == \A t \in Tasks : pc[t] \in {"written", "stored"} => InLog(t)

DurInv ==
  /\ TypeInv
  /\ DirectoryFirst
  /\ PathsPresent
  /\ ~createOverlap => CreatesAreFresh /\ WrittenInLog

LEMMA DurInit == Init => DurInv
<1> SUFFICES ASSUME Init PROVE DurInv
  OBVIOUS
<1>1. PathsPresent
  BY DEF Init, PathsPresent
<1>2. CreatesAreFresh /\ WrittenInLog
  BY DEF Init, CreatesAreFresh, WrittenInLog, Creating
<1> QED
  BY <1>1, <1>2, NumInit DEF NumInv, DurInv

LEMMA PathsStep == TypeInv /\ DirectoryFirst /\ PathsPresent /\ [Next]_vars => PathsPresent'
<1> SUFFICES ASSUME TypeInv, DirectoryFirst, PathsPresent, [Next]_vars PROVE PathsPresent'
  OBVIOUS
<1> USE DEF PathsPresent, TypeInv
<1>1. ASSUME NEW t \in Tasks, BeginUninitialized(t) PROVE PathsPresent'
  BY <1>1 DEF BeginUninitialized, Goto, diskVars, memoryVars, localVars, TypeOK
<1>2. ASSUME NEW t \in Tasks, NEW c \in Nat, TakeNumber(t, c),
             UNCHANGED <<diskVars, cached, entry, target>>
      PROVE  PathsPresent'
  <2>1. \A u \in Tasks \ {t} : pc'[u] = pc[u] /\ using'[u] = using[u]
    BY <1>2, TakeNumberTyped
  <2>2. pc'[t] \in {"list", "rotate", "append"} /\ (pc'[t] = "append" => using'[t] = cached /\ cached # NoTask)
    BY <1>2 DEF TakeNumber, Goto, TypeOK
  <2> QED
    BY <1>2, <2>1, <2>2 DEF diskVars
<1>3. ASSUME NEW t \in Tasks, BeginInitialized(t) PROVE PathsPresent'
  BY <1>2, <1>3 DEF BeginInitialized, TypeOK
<1>4. ASSUME NEW t \in Tasks, SetCounter(t) PROVE PathsPresent'
  <2>1. (IF found[t] = -1 THEN counter ELSE found[t]) \in Nat
    BY DEF TypeOK
  <2> QED
    BY <1>2, <1>4, <2>1 DEF SetCounter
<1>5. ASSUME NEW t \in Tasks, Access(t) PROVE PathsPresent'
  <2>1. PICK l \in {"listInit", "mkdir"} :
          Goto(t, l) /\ (l = "mkdir" => target' = [target EXCEPT ![t] = 1])
                     /\ (l = "listInit" => target' = target)
    BY <1>5 DEF Access
  <2>2. UNCHANGED <<dir, present, cached, entry, using>>
    BY <1>5 DEF Access, diskVars, memoryVars
  <2> QED
    BY <2>1, <2>2 DEF Goto, TypeOK
<1>6. ASSUME NEW t \in Tasks, Mkdir(t) PROVE PathsPresent'
  BY <1>6 DEF Mkdir, Goto, memoryVars, localVars, TypeOK
<1>7. ASSUME NEW t \in Tasks, FirstFile(t) PROVE PathsPresent'
  BY <1>7 DEF FirstFile, CreateFile, Goto, memoryVars, DirectoryFirst, Active, Initializing, TypeOK
<1>8. ASSUME NEW t \in Tasks, ListInit(t) PROVE PathsPresent'
  <2>1. PICK l \in {"setCounter", "readTail"} :
          Goto(t, l) /\ (l = "setCounter" => target' = target)
                     /\ (l = "readTail" => present # {} /\ target' = [target EXCEPT ![t] = LastFile])
    BY <1>8 DEF ListInit
  <2>2. UNCHANGED <<dir, present, cached, entry, using>>
    BY <1>8 DEF ListInit, diskVars, memoryVars
  <2>3. present # {} => LastFile \in present
    BY LastFileIsPresent
  <2> QED
    BY <2>1, <2>2, <2>3 DEF Goto, TypeOK
<1>9. ASSUME NEW t \in Tasks, ReadTail(t) PROVE PathsPresent'
  BY <1>9 DEF ReadTail, Goto, diskVars, memoryVars, TypeOK
<1>10. ASSUME NEW t \in Tasks, ListFiles(t) PROVE PathsPresent'
  <2>1. PICK l \in {"rotate", "count"} :
          Goto(t, l) /\ (l = "rotate" => target' = target)
                     /\ (l = "count" => present # {} /\ target' = [target EXCEPT ![t] = LastFile])
    BY <1>10 DEF ListFiles
  <2>2. UNCHANGED <<dir, present, cached, entry, using>>
    BY <1>10 DEF ListFiles, diskVars, memoryVars
  <2>3. present # {} => LastFile \in present
    BY LastFileIsPresent
  <2> QED
    BY <2>1, <2>2, <2>3 DEF Goto, TypeOK
<1>11. ASSUME NEW t \in Tasks, CountLines(t) PROVE PathsPresent'
  BY <1>11 DEF CountLines, Goto, diskVars, memoryVars, TypeOK
<1>12. ASSUME NEW t \in Tasks, NEW count \in Nat, CacheEntry(t, count),
              pc[t] \in {"cache", "useNew"}, NEW l \in {"rotate", "append"}, Goto(t, l),
              l = "append" => using' = [using EXCEPT ![t] = t],
              l = "rotate" => using' = using,
              UNCHANGED <<diskVars, target>>
       PROVE  PathsPresent'
  <2>1. target[t] \in present /\ present' = present /\ dir' = dir
    BY <1>12 DEF diskVars
  <2>2. \A u \in Tasks : entry'[u].path = IF u = t THEN target[t] ELSE entry[u].path
    BY <1>12 DEF CacheEntry, TypeOK
  <2>3. cached' = t
    BY <1>12 DEF CacheEntry
  <2>4. \A u \in Tasks : pc'[u] = IF u = t THEN l ELSE pc[u]
    BY <1>12 DEF Goto, TypeOK
  <2>5. \A u \in Tasks : pc'[u] \in {"append", "written"} =>
          using'[u] \in Tasks /\ entry'[using'[u]].path \in present
    <3> SUFFICES ASSUME NEW u \in Tasks, pc'[u] \in {"append", "written"}
                 PROVE  using'[u] \in Tasks /\ entry'[using'[u]].path \in present
      OBVIOUS
    <3>1. CASE u = t
      <4>1. using'[t] = t
        BY <1>12, <2>4, <3>1 DEF TypeOK
      <4> QED
        BY <2>1, <2>2, <3>1, <4>1
    <3>2. CASE u # t
      <4>1. using'[u] = using[u] /\ pc[u] \in {"append", "written"}
        BY <1>12, <2>4, <3>2 DEF TypeOK
      <4>2. using[u] \in Tasks /\ entry[using[u]].path \in present
        BY <4>1 DEF LocalsOK
      <4> QED
        BY <2>1, <2>2, <4>1, <4>2
    <3> QED
      BY <3>1, <3>2
  <2> QED
    BY <1>12, <2>1, <2>2, <2>3, <2>4, <2>5
<1>13. ASSUME NEW t \in Tasks, Cache(t) PROVE PathsPresent'
  <2>1. found[t] \in Nat /\ UNCHANGED <<diskVars, target>> /\ CacheEntry(t, found[t])
    BY <1>13 DEF Cache, LocalsOK
  <2>2. CASE found[t] >= MaxEventsPerFile
    BY <1>13, <2>1, <2>2, <1>12, LimitAssumption DEF Cache
  <2>3. CASE found[t] < MaxEventsPerFile
    BY <1>13, <2>1, <2>3, <1>12, LimitAssumption DEF Cache
  <2> QED
    BY <1>13, <2>2, <2>3 DEF Cache
<1>14. ASSUME NEW t \in Tasks, UseNew(t) PROVE PathsPresent'
  BY <1>14, <1>12 DEF UseNew
<1>15. ASSUME NEW t \in Tasks, Rotate(t) PROVE PathsPresent'
  BY <1>15 DEF Rotate, Goto, diskVars, memoryVars, TypeOK
<1>16. ASSUME NEW t \in Tasks, NewFile(t) PROVE PathsPresent'
  BY <1>16 DEF NewFile, CreateFile, Goto, memoryVars, localVars, DirectoryFirst, Active, Writing, TypeOK
<1>17. ASSUME NEW t \in Tasks, AppendFile(t) PROVE PathsPresent'
  <2>1. present' = present /\ UNCHANGED <<dir, memoryVars, localVars>>
    BY <1>17 DEF AppendFile
  <2> QED
    BY <1>17, <2>1 DEF AppendFile, Goto, memoryVars, localVars, TypeOK
<1>22. ASSUME NEW t \in Tasks, FirstFileUnstaged(t) PROVE PathsPresent'
  BY <1>22 DEF FirstFileUnstaged, CreateFile, Forget, Goto, memoryVars, DirectoryFirst, Active, Initializing, TypeOK
<1>23. ASSUME NEW t \in Tasks, Unstaged(t) PROVE PathsPresent'
  <2>1. \A u \in Tasks : entry'[u].path = entry[u].path
    BY <1>23 DEF Unstaged, TypeOK, LocalsOK
  <2> QED
    BY <1>23, <2>1 DEF Unstaged, Forget, Goto, diskVars, LocalsOK, TypeOK
<1>18. ASSUME NEW t \in Tasks, CallFails(t) PROVE PathsPresent'
  BY <1>18 DEF CallFails, Forget, Goto, diskVars, memoryVars, TypeOK
<1>19. ASSUME NEW t \in Tasks, Stored(t) PROVE PathsPresent'
  <2>1. \A u \in Tasks : entry'[u].path = entry[u].path
    BY <1>19 DEF Stored, TypeOK, LocalsOK
  <2> QED
    BY <1>19, <2>1 DEF Stored, Forget, Goto, diskVars, LocalsOK, TypeOK
<1>20. CASE Restart
  BY <1>20 DEF Restart, diskVars, Active, Initializing, Writing, TypeOK
<1>21. CASE UNCHANGED vars
  BY <1>21 DEF vars, diskVars, memoryVars, localVars
<1> QED
  BY <1>1, <1>3, <1>4, <1>5, <1>6, <1>7, <1>8, <1>9, <1>10, <1>11, <1>13, <1>14, <1>15, <1>16,
     <1>17, <1>18, <1>19, <1>20, <1>21, <1>22, <1>23
     DEF Next, Begin, InitializeResourceStream, WriteEvent

(* A step that creates nothing, and moves only t, out of the creating places.   *)
LEMMA NoCreation ==
  ASSUME TypeInv, CreatesAreFresh, WrittenInLog, NEW t \in Tasks,
         UNCHANGED <<present, files>>,
         \A u \in Tasks \ {t} : pc'[u] = pc[u] /\ target'[u] = target[u],
         pc'[t] \notin Creating,
         pc'[t] \in {"written", "stored"} => pc[t] \in {"written", "stored"}
  PROVE  CreatesAreFresh' /\ WrittenInLog'
<1>1. \A u \in Tasks : pc'[u] \in Creating => u # t /\ pc[u] \in Creating /\ target'[u] = target[u]
  OBVIOUS
<1>2. \A u \in Tasks : pc'[u] \in {"written", "stored"} => pc[u] \in {"written", "stored"}
  OBVIOUS
<1>3. CreatesAreFresh'
  BY <1>1 DEF CreatesAreFresh
<1>4. WrittenInLog'
  BY <1>2 DEF WrittenInLog, InLog
<1> QED
  BY <1>3, <1>4

(* Choosing a file to create: it is not there, and nobody else creates it.      *)
LEMMA ChooseTarget ==
  ASSUME TypeInv, CreatesAreFresh, WrittenInLog, NEW t \in Tasks, NEW n \in FileNo, n \notin present,
         NEW l \in Creating, Goto(t, l), target' = [target EXCEPT ![t] = n], ~SameTarget(t, n),
         UNCHANGED <<present, files>>
  PROVE  CreatesAreFresh' /\ WrittenInLog'
<1>1. \A u \in Tasks : /\ pc'[u] = IF u = t THEN l ELSE pc[u]
                       /\ target'[u] = IF u = t THEN n ELSE target[u]
  BY DEF Goto, TypeInv, TypeOK
<1>2. \A u \in Tasks \ {t} : pc[u] \in Creating => target[u] # n
  BY DEF SameTarget
<1>3. CreatesAreFresh'
  BY <1>1, <1>2 DEF CreatesAreFresh
<1>4. WrittenInLog'
  BY <1>1 DEF WrittenInLog, InLog, Creating
<1> QED
  BY <1>3, <1>4

(* Creating a file that is not there empties nothing.                           *)
LEMMA CreateFresh ==
  ASSUME TypeInv, CreatesAreFresh, WrittenInLog, NEW t \in Tasks, pc[t] \in Creating,
         CreateFile(target[t]), \A u \in Tasks \ {t} : target'[u] = target[u],
         NEW l \in {"setCounter", "useNew", "failed"}, Goto(t, l)
  PROVE  CreatesAreFresh' /\ WrittenInLog'
<1>1. \A u \in Tasks : pc'[u] = IF u = t THEN l ELSE pc[u]
  BY DEF Goto, TypeInv, TypeOK
<1>2. target[t] \notin present
  BY DEF CreatesAreFresh
<1>3. \A f \in present : f \in present' /\ files'[f] = files[f]
  BY <1>2 DEF CreateFile, TypeInv, TypeOK
<1>4. CreatesAreFresh'
  BY <1>1, <1>2 DEF CreatesAreFresh, CreateFile, Creating
<1>5. WrittenInLog'
  BY <1>1, <1>3 DEF WrittenInLog, InLog
<1> QED
  BY <1>4, <1>5

LEMMA DurableStep ==
  ASSUME TypeInv, DirectoryFirst, PathsPresent, CreatesAreFresh, WrittenInLog, [Next]_vars,
         ~createOverlap'
  PROVE  CreatesAreFresh' /\ WrittenInLog'
<1> DEFINE Goal == CreatesAreFresh' /\ WrittenInLog'
<1> USE DEF TypeInv
<1>1. ASSUME NEW t \in Tasks, BeginUninitialized(t) PROVE Goal
  BY <1>1, NoCreation DEF BeginUninitialized, Goto, diskVars, localVars, Creating, TypeOK
<1>2. ASSUME NEW t \in Tasks, NEW c \in Nat, TakeNumber(t, c), UNCHANGED <<diskVars, target>>
      PROVE  Goal
  BY <1>2, NoCreation, TakeNumberTyped DEF diskVars, Creating
<1>3. ASSUME NEW t \in Tasks, BeginInitialized(t) PROVE Goal
  BY <1>2, <1>3 DEF BeginInitialized, TypeOK
<1>4. ASSUME NEW t \in Tasks, SetCounter(t) PROVE Goal
  <2>1. (IF found[t] = -1 THEN counter ELSE found[t]) \in Nat
    BY DEF TypeOK
  <2> QED
    BY <1>2, <1>4, <2>1 DEF SetCounter
<1>5. ASSUME NEW t \in Tasks, Access(t) PROVE Goal
  <2>1. CASE dir
    BY <1>5, <2>1, NoCreation DEF Access, Goto, diskVars, Creating, TypeOK
  <2>2. CASE ~dir
    <3>1. Goto(t, "mkdir") /\ target' = [target EXCEPT ![t] = 1] /\ ~SameTarget(t, 1)
      BY <1>5, <2>2 DEF Access
    <3>2. 1 \in FileNo /\ 1 \notin present
      BY <2>2, BoundAssumption DEF FileNo, PathsPresent
    <3>3. "mkdir" \in Creating /\ UNCHANGED <<present, files>>
      BY <1>5 DEF Access, Creating, diskVars
    <3> QED
      BY <3>1, <3>2, <3>3, ChooseTarget
  <2> QED
    BY <2>1, <2>2
<1>6. ASSUME NEW t \in Tasks, Mkdir(t) PROVE Goal
  <2>1. \A u \in Tasks : /\ pc'[u] = IF u = t THEN "firstFile" ELSE pc[u]
                         /\ target'[u] = target[u]
    BY <1>6 DEF Mkdir, Goto, localVars, TypeOK
  <2>2. \A u \in Tasks : pc'[u] \in Creating => pc[u] \in Creating
    BY <1>6, <2>1 DEF Mkdir, Creating
  <2>3. UNCHANGED <<present, files>>
    BY <1>6 DEF Mkdir
  <2>4. CreatesAreFresh'
    BY <2>1, <2>2, <2>3 DEF CreatesAreFresh
  <2>5. WrittenInLog'
    BY <2>1, <2>3 DEF WrittenInLog, InLog
  <2> QED
    BY <2>4, <2>5
<1>7. ASSUME NEW t \in Tasks, FirstFile(t) PROVE Goal
  <2>1. target[t] = 1 /\ pc[t] \in Creating
    BY <1>7 DEF FirstFile, PathsPresent, Creating
  <2>2. CreateFile(target[t]) /\ Goto(t, "setCounter") /\ target' = target
    BY <1>7, <2>1 DEF FirstFile
  <2> QED
    BY <2>1, <2>2, CreateFresh
<1>16. ASSUME NEW t \in Tasks, FirstFileUnstaged(t) PROVE Goal
  <2>1. target[t] = 1 /\ pc[t] \in Creating
    BY <1>16 DEF FirstFileUnstaged, PathsPresent, Creating
  <2>2. /\ CreateFile(target[t]) /\ Goto(t, "failed")
        /\ \A u \in Tasks \ {t} : target'[u] = target[u]
    BY <1>16, <2>1 DEF FirstFileUnstaged, Forget, TypeOK
  <2> QED
    BY <2>1, <2>2, CreateFresh
<1>8. ASSUME NEW t \in Tasks, ListInit(t) \/ ReadTail(t) \/ ListFiles(t) \/ CountLines(t) PROVE Goal
  <2>1. UNCHANGED <<present, files>>
    BY <1>8 DEF ListInit, ReadTail, ListFiles, CountLines, diskVars
  <2>2. PICK l \in {"setCounter", "readTail", "rotate", "count", "cache"} : Goto(t, l)
    BY <1>8 DEF ListInit, ReadTail, ListFiles, CountLines
  <2>3. \A u \in Tasks \ {t} : target'[u] = target[u]
    BY <1>8 DEF ListInit, ReadTail, ListFiles, CountLines, TypeOK
  <2> QED
    BY <2>1, <2>2, <2>3, NoCreation DEF Goto, Creating, TypeOK
<1>9. ASSUME NEW t \in Tasks, Cache(t) \/ UseNew(t) PROVE Goal
  <2>1. UNCHANGED <<present, files, target>>
    BY <1>9 DEF Cache, UseNew, diskVars
  <2>2. PICK l \in {"rotate", "append"} : Goto(t, l)
    BY <1>9 DEF Cache, UseNew
  <2> QED
    BY <2>1, <2>2, NoCreation DEF Goto, Creating, TypeOK
<1>10. ASSUME NEW t \in Tasks, Rotate(t) PROVE Goal
  <2>1. /\ Goto(t, "newFile") /\ target' = [target EXCEPT ![t] = NewFileNo]
        /\ ~SameTarget(t, NewFileNo) /\ NewFileNo <= MaxFiles
    BY <1>10 DEF Rotate
  <2>2. NewFileNo \in FileNo /\ NewFileNo \notin present
    <3>1. CASE present = {}
      BY <3>1, BoundAssumption DEF NewFileNo, FileNo
    <3>2. CASE present # {}
      <4>1. LastFile \in FileNo /\ \A y \in present : y \in FileNo /\ y <= LastFile
        BY <3>2, MaxOfSet, LastFileIsPresent, BoundAssumption DEF LastFile, TypeOK, FileNo
      <4> QED
        BY <2>1, <3>2, <4>1, BoundAssumption DEF NewFileNo, FileNo
    <3> QED
      BY <3>1, <3>2
  <2>3. "newFile" \in Creating /\ UNCHANGED <<present, files>>
    BY <1>10 DEF Rotate, Creating, diskVars
  <2> QED
    BY <2>1, <2>2, <2>3, ChooseTarget
<1>11. ASSUME NEW t \in Tasks, NewFile(t) PROVE Goal
  <2>1. pc[t] \in Creating /\ CreateFile(target[t]) /\ Goto(t, "useNew") /\ target' = target
    BY <1>11 DEF NewFile, Creating, localVars
  <2> QED
    BY <2>1, CreateFresh
<1>12. ASSUME NEW t \in Tasks, AppendFile(t) PROVE Goal
  <2> DEFINE n == entry[using[t]].path
             line == [event |-> t, seq |-> seq[t]]
  <2>1. /\ pc[t] = "append" /\ \A u \in Tasks : pc'[u] = IF u = t THEN "written" ELSE pc[u]
        /\ files' = [files EXCEPT ![n] = Append(@, line)] /\ target' = target
    BY <1>12 DEF AppendFile, Goto, localVars, TypeOK
  <2>2. n \in present /\ n \in FileNo /\ present' = present
    BY <1>12 DEF AppendFile, PathsPresent, TypeOK
  <2>3. files[n] \in Seq(Line) /\ line \in Line
    BY <2>1, <2>2 DEF TypeOK, LocalsOK, Line, Writing
  <2>4. \A f \in FileNo : f # n => files'[f] = files[f]
    BY <2>1, <2>2 DEF TypeOK
  <2>5. /\ files'[n] = Append(files[n], line)
        /\ Len(files[n]) + 1 \in DOMAIN files'[n] /\ files'[n][Len(files[n]) + 1] = line
        /\ \A i \in DOMAIN files[n] : i \in DOMAIN files'[n] /\ files'[n][i] = files[n][i]
    <3> DEFINE old == files[n]
    <3>1. files'[n] = Append(old, line)
      BY <2>1, <2>2 DEF TypeOK
    <3>2. /\ Len(old) + 1 \in DOMAIN Append(old, line) /\ Append(old, line)[Len(old) + 1] = line
          /\ \A i \in DOMAIN old : i \in DOMAIN Append(old, line) /\ Append(old, line)[i] = old[i]
      <4>1. old \in Seq(Line) /\ line \in Line
        BY <2>3
      <4> HIDE DEF line, old
      <4>2. DOMAIN old = 1 .. Len(old) /\ DOMAIN Append(old, line) = 1 .. (Len(old) + 1) /\ Len(old) \in Nat
        BY <4>1
      <4>3. /\ Append(old, line)[Len(old) + 1] = line
            /\ \A i \in 1 .. Len(old) : Append(old, line)[i] = old[i]
        BY <4>1
      <4> QED
        BY <4>2, <4>3
    <3> QED
      BY <3>1, <3>2
  <2>6. InLog(t)'
    BY <2>2, <2>5 DEF InLog
  <2>7. \A u \in Tasks : InLog(u) => InLog(u)'
    <3> SUFFICES ASSUME NEW u \in Tasks, NEW f \in present, NEW i \in DOMAIN files[f],
                        files[f][i].event = u
                 PROVE  InLog(u)'
      BY DEF InLog
    <3>1. i \in DOMAIN files'[f] /\ files'[f][i].event = u
      <4>1. CASE f = n
        BY <4>1, <2>5
      <4>2. CASE f # n
        BY <4>2, <2>4 DEF TypeOK
      <4> QED
        BY <4>1, <4>2
    <3> QED
      BY <3>1, <2>2 DEF InLog
  <2>8. WrittenInLog'
    BY <2>1, <2>6, <2>7 DEF WrittenInLog
  <2>9. CreatesAreFresh'
    BY <2>1, <2>2 DEF CreatesAreFresh, Creating
  <2> QED
    BY <2>8, <2>9
<1>13. ASSUME NEW t \in Tasks, CallFails(t) \/ Unstaged(t) \/ Stored(t) PROVE Goal
  <2>1. UNCHANGED <<present, files>>
    BY <1>13 DEF CallFails, Unstaged, Stored, diskVars
  <2>2. \A u \in Tasks \ {t} : pc'[u] = pc[u] /\ target'[u] = target[u]
    BY <1>13 DEF CallFails, Unstaged, Stored, Goto, Forget, TypeOK
  <2>3. pc'[t] = "failed" \/ (pc'[t] = "stored" /\ pc[t] = "written")
    BY <1>13 DEF CallFails, Unstaged, Stored, Goto, TypeOK
  <2> QED
    BY <2>1, <2>2, <2>3, NoCreation DEF Creating
<1>14. CASE Restart
  <2>1. UNCHANGED <<present, files>>
    BY <1>14 DEF Restart, diskVars
  <2>2. \A u \in Tasks : pc'[u] \notin Creating /\ (pc'[u] \in {"written", "stored"} => pc[u] = "stored")
    BY <1>14 DEF Restart, Creating, Active, Initializing, Writing, TypeOK
  <2> QED
    BY <2>1, <2>2 DEF CreatesAreFresh, WrittenInLog, InLog
<1>15. CASE UNCHANGED vars
  BY <1>15 DEF vars, diskVars, localVars, CreatesAreFresh, WrittenInLog, InLog
<1> QED
  BY <1>1, <1>3, <1>4, <1>5, <1>6, <1>7, <1>8, <1>9, <1>10, <1>11, <1>12, <1>13, <1>14, <1>15, <1>16
     DEF Next, Begin, InitializeResourceStream, WriteEvent

LEMMA CreateOverlapStays == ASSUME [Next]_vars, createOverlap PROVE createOverlap'
<1>1. ASSUME NEW t \in Tasks, Begin(t) PROVE createOverlap'
  <2>1. CASE BeginUninitialized(t)
    BY <2>1 DEF BeginUninitialized
  <2>2. CASE BeginInitialized(t)
    BY <2>2 DEF BeginInitialized, historyVars
  <2> QED
    BY <1>1, <2>1, <2>2 DEF Begin
<1>2. ASSUME NEW t \in Tasks, InitializeResourceStream(t) PROVE createOverlap'
  BY <1>2 DEF InitializeResourceStream, Access, Mkdir, FirstFile, ListInit, ReadTail, SetCounter,
              FirstFileUnstaged, CallFails, historyVars
<1>3. ASSUME NEW t \in Tasks, WriteEvent(t) PROVE createOverlap'
  BY <1>3 DEF WriteEvent, ListFiles, CountLines, Cache, Rotate, NewFile, UseNew, AppendFile,
              Unstaged, historyVars
<1>4. ASSUME NEW t \in Tasks, Stored(t) PROVE createOverlap'
  BY <1>4 DEF Stored, historyVars
<1>5. CASE Restart
  BY <1>5 DEF Restart
<1>6. CASE UNCHANGED vars
  BY <1>6 DEF vars, historyVars
<1> QED
  BY <1>1, <1>2, <1>3, <1>4, <1>5, <1>6 DEF Next

(* An event whose append returned stays in the log, for any number of           *)
(* concurrent appends and any crashes, short of two tasks creating one file.    *)
THEOREM StoredEventsStay == Spec => []StoredIsDurable
<1>1. DurInv /\ [Next]_vars => DurInv'
  BY TypeStep, DirectoryStep, PathsStep, DurableStep, CreateOverlapStays DEF DurInv
<1>2. DurInv => StoredIsDurable
  BY DEF DurInv, WrittenInLog, StoredIsDurable
<1> QED
  BY DurInit, <1>1, <1>2, PTL DEF Spec

===============================================================================
