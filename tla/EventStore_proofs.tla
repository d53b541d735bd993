---------------------------- MODULE EventStore_proofs ----------------------------
(* Proofs about EventStore, for every set of tasks and every value of the bounds: *)
(* the storage below it is that of EventStorage, a rebuild folds the events of    *)
(* the log once each and in order, and the view's properties hold.                *)
EXTENDS EventStore, EventStorage_proofs, FiniteSetTheorems

-------------------------------------------------------------------------------
(* What the storage does to the log: a step leaves it, creates a file, or        *)
(* appends the line of a task that was not in it.                                *)
Logged == {"written", "stored", "failed", "dead"}   \* where a task with a line can be

LogInv ==
  /\ \A f \in FileNo \ present : files[f] = <<>>
  /\ \A f \in FileNo : \A i \in DOMAIN files[f] :
       LET line == files[f][i] IN pc[line.event] \in Logged /\ line.seq = seq[line.event]
  /\ \A f, g \in FileNo : \A i \in DOMAIN files[f], j \in DOMAIN files[g] :
       files[f][i].event = files[g][j].event => f = g /\ i = j

AppendsLine(t, n) ==
  /\ pc[t] = "append" /\ pc'[t] = "written" /\ seq'[t] = seq[t]
  /\ files' = [files EXCEPT ![n] = Append(@, [event |-> t, seq |-> seq[t]])]
  /\ present' = present \cup {n}

LogChange ==
  \/ UNCHANGED <<present, files>>
  \/ \E t \in Tasks : pc[t] \in Creating /\ target[t] \in FileNo /\ CreateFile(target[t])
  \/ \E t \in Tasks, n \in FileNo : AppendsLine(t, n)

LoggedStay ==
  \A u \in Tasks : pc[u] \in Logged =>
    /\ pc'[u] \in Logged /\ seq'[u] = seq[u]
    /\ pc[u] \in {"stored", "failed", "dead"} => pc'[u] = pc[u]

LEMMA StorageStep ==
  ASSUME DurInv, [Next]_vars
  PROVE  LogChange /\ LoggedStay
<1> DEFINE Goal == LogChange /\ LoggedStay
<1> USE DEF DurInv, TypeInv
<1>1. ASSUME NEW t \in Tasks, pc[t] \notin Logged, UNCHANGED <<present, files>>,
             \A u \in Tasks \ {t} : pc'[u] = pc[u] /\ seq'[u] = seq[u]
      PROVE  Goal
  BY <1>1 DEF LogChange, LoggedStay
<1>2. ASSUME NEW t \in Tasks, NEW c \in Nat, TakeNumber(t, c), UNCHANGED diskVars, pc[t] \notin Logged
      PROVE  Goal
  BY <1>1, <1>2, TakeNumberTyped DEF diskVars
<1>3. ASSUME NEW t \in Tasks, Begin(t) PROVE Goal
  <2>1. CASE BeginUninitialized(t)
    BY <1>1, <2>1 DEF BeginUninitialized, Goto, diskVars, localVars, TypeOK, Logged
  <2>2. CASE BeginInitialized(t)
    BY <1>2, <2>2 DEF BeginInitialized, TypeOK, Logged
  <2> QED
    BY <1>3, <2>1, <2>2 DEF Begin
<1>4. ASSUME NEW t \in Tasks, SetCounter(t) PROVE Goal
  <2>1. (IF found[t] = -1 THEN counter ELSE found[t]) \in Nat
    BY DEF TypeOK
  <2> QED
    BY <1>2, <1>4, <2>1 DEF SetCounter, Logged
<1>5. ASSUME NEW t \in Tasks,
             Access(t) \/ Mkdir(t) \/ ListInit(t) \/ ReadTail(t) \/ ListFiles(t) \/ CountLines(t)
             \/ Cache(t) \/ Rotate(t) \/ UseNew(t) \/ CallFails(t)
      PROVE  Goal
  <2>1. UNCHANGED <<present, files, seq>>
    BY <1>5 DEF Access, Mkdir, ListInit, ReadTail, ListFiles, CountLines, Cache, Rotate, UseNew,
                CallFails, diskVars, localVars
  <2>2. pc[t] \notin Logged /\ \E l \in Active \cup Settled : Goto(t, l)
    BY <1>5 DEF Access, Mkdir, ListInit, ReadTail, ListFiles, CountLines, Cache, Rotate, UseNew,
                CallFails, FileCalls, Active, Initializing, Writing, Settled, Logged
  <2> QED
    BY <1>1, <2>1, <2>2 DEF Goto, TypeOK
<1>6. ASSUME NEW t \in Tasks, FirstFile(t) \/ FirstFileUnstaged(t) \/ NewFile(t) PROVE Goal
  <2>1. pc[t] \in Creating /\ target[t] \in FileNo /\ CreateFile(target[t])
    BY <1>6, BoundAssumption DEF FirstFile, FirstFileUnstaged, NewFile, Creating, PathsPresent, LocalsOK, FileNo
  <2>2. seq' = seq /\ \A u \in Tasks \ {t} : pc'[u] = pc[u]
    BY <1>6 DEF FirstFile, FirstFileUnstaged, NewFile, Goto, localVars, TypeOK
  <2>3. LoggedStay
    BY <2>1, <2>2 DEF LoggedStay, Creating, Logged
  <2> QED
    BY <2>1, <2>3 DEF LogChange
<1>7. ASSUME NEW t \in Tasks, AppendFile(t) PROVE Goal
  <2> DEFINE n == entry[using[t]].path
  <2>1. n \in FileNo
    BY <1>7 DEF AppendFile, TypeOK, LocalsOK
  <2>2. AppendsLine(t, n)
    BY <1>7 DEF AppendFile, AppendsLine, Goto, localVars, TypeOK
  <2>3. LoggedStay
    BY <1>7 DEF AppendFile, Goto, localVars, TypeOK, LoggedStay, Logged
  <2> QED
    BY <2>1, <2>2, <2>3 DEF LogChange
<1>8. ASSUME NEW t \in Tasks, Stored(t) \/ Unstaged(t) PROVE Goal
  BY <1>8 DEF Stored, Unstaged, Goto, diskVars, LogChange, LoggedStay, Logged, TypeOK
<1>9. CASE Restart
  BY <1>9 DEF Restart, diskVars, LogChange, LoggedStay, Logged, Active, Initializing, Writing, TypeOK
<1>10. CASE UNCHANGED vars
  BY <1>10 DEF vars, diskVars, localVars, LogChange, LoggedStay
<1>11. QED
  BY <1>3, <1>4, <1>5, <1>6, <1>7, <1>8, <1>9, <1>10
     DEF Next, InitializeResourceStream, WriteEvent

(* What an append does to the file's lines.                                      *)
LEMMA AppendedLines ==
  ASSUME TypeInv, NEW t \in Tasks, NEW n \in FileNo, AppendsLine(t, n)
  PROVE  /\ \A f \in FileNo : f # n => files'[f] = files[f]
         /\ DOMAIN files'[n] = DOMAIN files[n] \cup {Len(files[n]) + 1}
         /\ Len(files[n]) + 1 \notin DOMAIN files[n]
         /\ files'[n][Len(files[n]) + 1] = [event |-> t, seq |-> seq[t]]
         /\ \A i \in DOMAIN files[n] : files'[n][i] = files[n][i]
<1> DEFINE old == files[n]
           line == [event |-> t, seq |-> seq[t]]
<1>1. files' = [files EXCEPT ![n] = Append(old, line)]
  BY DEF AppendsLine
<1>2. old \in Seq(Line) /\ line \in Line
  BY DEF TypeInv, TypeOK, LocalsOK, Line, Writing, AppendsLine
<1>3. files'[n] = Append(old, line) /\ \A f \in FileNo : f # n => files'[f] = files[f]
  BY <1>1 DEF TypeInv, TypeOK
<1>4. /\ DOMAIN Append(old, line) = DOMAIN old \cup {Len(old) + 1}
      /\ Len(old) + 1 \notin DOMAIN old
      /\ Append(old, line)[Len(old) + 1] = line
      /\ \A i \in DOMAIN old : Append(old, line)[i] = old[i]
  <2> HIDE DEF line, old
  <2>1. DOMAIN old = 1 .. Len(old) /\ DOMAIN Append(old, line) = 1 .. (Len(old) + 1) /\ Len(old) \in Nat
    BY <1>2
  <2>2. Append(old, line)[Len(old) + 1] = line /\ \A i \in 1 .. Len(old) : Append(old, line)[i] = old[i]
    BY <1>2
  <2>3. QED
    BY <2>1, <2>2
<1>5. QED
  BY <1>3, <1>4

LEMMA LogStep == DurInv /\ LogInv /\ [Next]_vars => LogInv'
<1> SUFFICES ASSUME DurInv, LogInv, [Next]_vars PROVE LogInv'
  OBVIOUS
<1>1. LogChange /\ LoggedStay
  BY StorageStep
<1>2. CASE UNCHANGED <<present, files>>
  <2>1. \A f \in FileNo : \A i \in DOMAIN files[f] : files[f][i].event \in Tasks
    BY LinesTyped DEF DurInv, TypeInv, Line
  <2>2. QED
    BY <1>1, <1>2, <2>1 DEF LogInv, LoggedStay
<1>3. ASSUME NEW n \in FileNo, CreateFile(n) PROVE LogInv'
  <2>1. \A f \in FileNo : files'[f] = IF f = n THEN <<>> ELSE files[f]
    BY <1>3 DEF CreateFile, DurInv, TypeInv, TypeOK
  <2>2. \A f \in FileNo : \A i \in DOMAIN files'[f] : i \in DOMAIN files[f] /\ files'[f][i] = files[f][i]
    BY <2>1
  <2>3. \A f \in FileNo : \A i \in DOMAIN files[f] : files[f][i].event \in Tasks
    BY LinesTyped DEF DurInv, TypeInv, Line
  <2>4. \A f \in FileNo \ present' : files'[f] = <<>>
    BY <1>3, <2>1 DEF CreateFile, LogInv
  <2>5. \A f \in FileNo : \A i \in DOMAIN files'[f] :
          pc'[files'[f][i].event] \in Logged /\ files'[f][i].seq = seq'[files'[f][i].event]
    BY <1>1, <2>2, <2>3 DEF LogInv, LoggedStay
  <2>6. \A f, g \in FileNo : \A i \in DOMAIN files'[f], j \in DOMAIN files'[g] :
          files'[f][i].event = files'[g][j].event => f = g /\ i = j
    BY <2>2 DEF LogInv
  <2>7. QED
    BY <2>4, <2>5, <2>6 DEF LogInv
<1>4. ASSUME NEW t \in Tasks, NEW n \in FileNo, AppendsLine(t, n) PROVE LogInv'
  <2> DEFINE new == Len(files[n]) + 1
  <2>1. /\ \A f \in FileNo : f # n => files'[f] = files[f]
        /\ DOMAIN files'[n] = DOMAIN files[n] \cup {new} /\ new \notin DOMAIN files[n]
        /\ files'[n][new] = [event |-> t, seq |-> seq[t]]
        /\ \A i \in DOMAIN files[n] : files'[n][i] = files[n][i]
    BY <1>4, AppendedLines DEF DurInv
  <2> HIDE DEF new
  <2>2. \A f \in FileNo : \A i \in DOMAIN files'[f] :
          \/ i \in DOMAIN files[f] /\ files'[f][i] = files[f][i]
          \/ f = n /\ i = new
    BY <2>1
  <2>3. \A f \in FileNo : \A i \in DOMAIN files[f] : files[f][i].event \in Tasks /\ files[f][i].event # t
    BY <1>4, LinesTyped DEF DurInv, TypeInv, Line, LogInv, AppendsLine, Logged
  <2>4. \A f \in FileNo \ present' : files'[f] = <<>>
    BY <1>4, <2>1 DEF AppendsLine, LogInv
  <2>5. files'[n][new].event = t /\ files'[n][new].seq = seq[t] /\ pc'[t] \in Logged /\ seq'[t] = seq[t]
    BY <1>4, <2>1 DEF AppendsLine, Logged
  <2>6. ASSUME NEW f \in FileNo, NEW i \in DOMAIN files'[f]
        PROVE  pc'[files'[f][i].event] \in Logged /\ files'[f][i].seq = seq'[files'[f][i].event]
    <3>1. CASE i \in DOMAIN files[f] /\ files'[f][i] = files[f][i]
      BY <1>1, <3>1, <2>3 DEF LogInv, LoggedStay
    <3>2. CASE f = n /\ i = new
      BY <3>2, <2>5
    <3>3. QED
      BY <2>2, <3>1, <3>2
  <2>7. \A f, g \in FileNo : \A i \in DOMAIN files'[f], j \in DOMAIN files'[g] :
          files'[f][i].event = files'[g][j].event => f = g /\ i = j
    BY <2>2, <2>3, <2>5 DEF LogInv
  <2>8. QED
    BY <2>4, <2>6, <2>7 DEF LogInv
<1>5. QED
  BY <1>1, <1>2, <1>3, <1>4 DEF LogChange

(* What is in the log stays there, short of two tasks creating one file.         *)
LEMMA InLogStays ==
  ASSUME DurInv, [Next]_vars, ~ createOverlap'
  PROVE  \A u \in Tasks : InLog(u) => InLog(u)'
<1>1. ~ createOverlap
  BY CreateOverlapStays
<1>2. CASE UNCHANGED <<present, files>>
  BY <1>2 DEF InLog
<1>3. ASSUME NEW t \in Tasks, pc[t] \in Creating, target[t] \in FileNo, CreateFile(target[t]),
             NEW u \in Tasks, InLog(u)
      PROVE  InLog(u)'
  <2>1. target[t] \notin present
    BY <1>1, <1>3 DEF DurInv, CreatesAreFresh
  <2>2. \A f \in present : f \in present' /\ files'[f] = files[f]
    BY <1>3, <2>1 DEF CreateFile, DurInv, TypeInv, TypeOK
  <2>3. QED
    BY <1>3, <2>2 DEF InLog
<1>4. ASSUME NEW t \in Tasks, NEW n \in FileNo, AppendsLine(t, n), NEW u \in Tasks, InLog(u)
      PROVE  InLog(u)'
  <2>1. PICK f \in present : \E i \in DOMAIN files[f] : files[f][i].event = u
    BY <1>4 DEF InLog
  <2>2. PICK i \in DOMAIN files[f] : files[f][i].event = u
    BY <2>1
  <2>3. f \in present' /\ f \in FileNo
    BY <1>4 DEF AppendsLine, DurInv, TypeInv, TypeOK
  <2>4. i \in DOMAIN files'[f] /\ files'[f][i] = files[f][i]
    BY <1>4, <2>3, AppendedLines DEF DurInv
  <2>5. QED
    BY <2>2, <2>3, <2>4 DEF InLog
<1>5. QED
  BY <1>2, <1>3, <1>4, StorageStep DEF LogChange

(* A task in the log has a line there, and at least its write was made.           *)
LEMMA InLogMeans ==
  ASSUME TypeOK, LogInv
  PROVE  \A u \in Tasks : InLog(u) => pc[u] \in Logged
BY DEF TypeOK, LogInv, InLog

-------------------------------------------------------------------------------
(* The order in which a rebuild folds the log.                                   *)

LEMMA PositionsMean ==
  ASSUME TypeOK
  PROVE  Positions = {p \in FileNo \X Nat : p[1] \in present /\ p[2] \in DOMAIN files[p[1]]}
<1>1. \A f \in present : f \in FileNo /\ DOMAIN files[f] \subseteq Nat
  BY DEF TypeOK
<1>2. QED
  BY <1>1 DEF Positions

(* The files are finite, and so is the log.                                      *)
LEMMA PositionsFinite ==
  ASSUME TypeOK
  PROVE  IsFiniteSet(Positions)
<1> DEFINE Of(f) == {<<f, i>> : i \in DOMAIN files[f]}
           All == {Of(f) : f \in present}
<1>1. IsFiniteSet(present)
  <2>1. IsFiniteSet(FileNo)
    BY BoundAssumption, FS_Interval DEF FileNo
  <2>2. QED
    BY <2>1, FS_Subset DEF TypeOK
<1>2. IsFiniteSet(All)
  <2> DEFINE m == [f \in present |-> Of(f)]
  <2>1. m \in Surjection(present, All)
    BY DEF Surjection
  <2>2. QED
    BY <1>1, <2>1, FS_Surjection
<1>3. ASSUME NEW f \in present
      PROVE  IsFiniteSet(Of(f))
  <2>1. files[f] \in Seq(Line)
    BY DEF TypeOK
  <2>2. Len(files[f]) \in Nat /\ DOMAIN files[f] = 1 .. Len(files[f])
    BY <2>1
  <2>3. IsFiniteSet(DOMAIN files[f])
    BY <2>2, FS_Interval
  <2> DEFINE m == [i \in DOMAIN files[f] |-> <<f, i>>]
  <2>4. m \in Surjection(DOMAIN files[f], Of(f))
    BY DEF Surjection
  <2>5. QED
    BY <2>3, <2>4, FS_Surjection
<1>4. IsFiniteSet(UNION All)
  BY <1>2, <1>3, FS_UNION
<1>5. QED
  BY <1>4 DEF Positions

(* Before orders the lines of the log totally.                                   *)
LEMMA BeforeOrders ==
  ASSUME TypeOK
  PROVE  /\ \A p \in Positions : ~ Before(p, p)
         /\ \A p, q \in Positions : Before(p, q) \/ Before(q, p) \/ p = q
         /\ \A p, q, r \in Positions : Before(p, q) /\ Before(q, r) => Before(p, r)
<1>1. \A p \in Positions : p[1] \in Nat /\ p[2] \in Nat /\ LineAt(p).seq \in Nat /\ p = <<p[1], p[2]>>
  <2>1. \A p \in Positions : p[1] \in FileNo /\ p[2] \in Nat /\ p = <<p[1], p[2]>> /\ p[2] \in DOMAIN files[p[1]]
    BY PositionsMean
  <2>2. \A p \in Positions : LineAt(p) \in Line
    BY <2>1, LinesTyped DEF LineAt
  <2>3. QED
    BY <2>1, <2>2 DEF Line, FileNo
<1>2. QED
  BY <1>1 DEF Before

(* Every place from 1 to the number of lines is taken by one line.               *)
LEMMA RankNumbers ==
  ASSUME TypeOK
  PROVE  /\ Cardinality(Positions) \in Nat
         /\ \A p \in Positions : Rank(p) \in 1 .. Cardinality(Positions)
         /\ \A p, q \in Positions : Before(p, q) => Rank(p) < Rank(q)
         /\ \A k \in 1 .. Cardinality(Positions) : \E p \in Positions : Rank(p) = k
<1> DEFINE Below(p) == {q \in Positions : Before(q, p)}
           N == Cardinality(Positions)
           rank == [p \in Positions |-> Rank(p)]
<1>1. IsFiniteSet(Positions) /\ N \in Nat
  BY PositionsFinite, FS_CardinalityType
<1>2. \A p \in Positions : IsFiniteSet(Below(p)) /\ Cardinality(Below(p)) \in Nat
  BY <1>1, FS_Subset, FS_CardinalityType
<1>3. ASSUME NEW p \in Positions, NEW S \in SUBSET Positions, IsFiniteSet(S), Below(p) \subseteq S, p \in S
      PROVE  Cardinality(Below(p)) < Cardinality(S)
  <2>1. p \notin Below(p)
    BY BeforeOrders
  <2>2. Cardinality(Below(p)) <= Cardinality(S) /\ Cardinality(Below(p)) # Cardinality(S)
    BY <1>3, <2>1, FS_Subset
  <2>3. Cardinality(S) \in Nat
    BY <1>3, FS_CardinalityType
  <2>4. QED
    BY <1>2, <2>2, <2>3
<1>4. \A p \in Positions : Rank(p) \in 1 .. N
  <2> SUFFICES ASSUME NEW p \in Positions
               PROVE  Rank(p) \in 1 .. N
    OBVIOUS
  <2>1. Cardinality(Below(p)) < N
    BY <1>1, <1>3
  <2>2. QED
    BY <1>1, <1>2, <2>1 DEF Rank
<1>5. ASSUME NEW p \in Positions, NEW q \in Positions, Before(p, q)
      PROVE  Rank(p) < Rank(q)
  <2>1. Below(p) \subseteq Below(q) /\ p \in Below(q)
    BY <1>5, BeforeOrders
  <2>2. Cardinality(Below(p)) < Cardinality(Below(q))
    BY <1>2, <1>3, <2>1
  <2>3. QED
    BY <1>2, <2>2 DEF Rank
<1>6. rank \in Injection(Positions, 1 .. N)
  <2>1. rank \in [Positions -> 1 .. N]
    BY <1>4
  <2>2. \A p, q \in Positions : rank[p] = rank[q] => p = q
    <3> SUFFICES ASSUME NEW p \in Positions, NEW q \in Positions, Rank(p) = Rank(q)
                 PROVE  p = q
      OBVIOUS
    <3>1. Rank(p) \in Int /\ Rank(q) \in Int
      BY <1>4
    <3>2. ~ Before(p, q) /\ ~ Before(q, p)
      BY <1>5, <3>1
    <3>3. QED
      BY <3>2, BeforeOrders
  <2>3. QED
    BY <2>1, <2>2 DEF Injection, IsInjective
<1>7. rank \in Surjection(Positions, 1 .. N)
  <2>1. IsFiniteSet(1 .. N) /\ Cardinality(1 .. N) = N
    BY <1>1, FS_Interval
  <2>2. QED
    BY <1>6, <2>1, FS_Injection
<1>8. \A k \in 1 .. N : \E p \in Positions : Rank(p) = k
  <2>1. \A k \in 1 .. N : \E p \in Positions : rank[p] = k
    BY <1>7 DEF Surjection
  <2>2. QED
    BY <2>1
<1>9. QED
  BY <1>1, <1>4, <1>5, <1>8

(* A sequence's elements, for the view's list of applied events.                  *)
LEMMA ElementsOf ==
  ASSUME NEW S, NEW s \in Seq(S)
  PROVE  /\ ToSet(s) \subseteq S
         /\ ToSet(s) = {} <=> s = <<>>
         /\ \A e \in S : /\ ToSet(Append(s, e)) = ToSet(s) \cup {e}
                         /\ Append(s, e) \in Seq(S) /\ Append(s, e) # <<>>
                         /\ IsInjective(s) /\ e \notin ToSet(s) => IsInjective(Append(s, e))
<1>1. Len(s) \in Nat /\ DOMAIN s = 1 .. Len(s) /\ \A i \in 1 .. Len(s) : s[i] \in S
  OBVIOUS
<1>2. ToSet(s) \subseteq S
  BY <1>1 DEF ToSet
<1>3. ASSUME s # <<>> PROVE ToSet(s) # {}
  <2>1. 1 \in DOMAIN s
    BY <1>1, <1>3
  <2>2. QED
    BY <2>1 DEF ToSet
<1>4. ASSUME s = <<>> PROVE ToSet(s) = {}
  BY <1>4 DEF ToSet
<1>5. ASSUME NEW e \in S
      PROVE  /\ ToSet(Append(s, e)) = ToSet(s) \cup {e}
             /\ Append(s, e) \in Seq(S) /\ Append(s, e) # <<>>
             /\ IsInjective(s) /\ e \notin ToSet(s) => IsInjective(Append(s, e))
  <2>1. /\ Append(s, e) \in Seq(S) /\ DOMAIN Append(s, e) = 1 .. (Len(s) + 1)
        /\ Append(s, e)[Len(s) + 1] = e /\ \A i \in 1 .. Len(s) : Append(s, e)[i] = s[i]
    BY <1>1
  <2>2. \A i \in 1 .. (Len(s) + 1) : i = Len(s) + 1 \/ i \in 1 .. Len(s)
    BY <1>1
  <2>3. 1 .. Len(s) \subseteq 1 .. (Len(s) + 1) /\ Len(s) + 1 \in 1 .. (Len(s) + 1)
    BY <1>1
  <2>4. ToSet(Append(s, e)) = ToSet(s) \cup {e}
    BY <1>1, <2>1, <2>2, <2>3 DEF ToSet
  <2>5. ASSUME IsInjective(s), e \notin ToSet(s) PROVE IsInjective(Append(s, e))
    BY <1>1, <2>1, <2>2, <2>5 DEF IsInjective, ToSet
  <2>6. Append(s, e) # <<>>
    BY <2>1, <2>3
  <2>7. QED
    BY <2>1, <2>4, <2>5, <2>6
<1>6. QED
  BY <1>2, <1>3, <1>4, <1>5

(* A rebuild folds the events of the log, each once, and stamps the view with     *)
(* the greatest of their numbers.                                                 *)
LEMMA ProjectionFacts ==
  ASSUME TypeOK, LogInv
  PROVE  /\ Projection \in View /\ Projection.exists
         /\ \A u \in Tasks : u \in ToSet(Projection.applied) <=> InLog(u)
         /\ IsInjective(Projection.applied)
         /\ \A u \in ToSet(Projection.applied) : seq[u] <= Projection.stamp
         /\ Projection.applied # <<>> =>
              \E u \in ToSet(Projection.applied) : Projection.stamp = seq[u]
         /\ Projection.applied = <<>> => Projection.stamp = 0
         /\ Positions # {} => Projection.applied # <<>>
<1> DEFINE N == Cardinality(Positions)
           ordered == [k \in 1 .. N |-> CHOOSE p \in Positions : Rank(p) = k]
           event(p) == LineAt(p).event
           applied == [k \in DOMAIN ordered |-> LineAt(ordered[k]).event]
           stamp == IF Positions = {} THEN 0 ELSE LineAt(Last(ordered)).seq
<1>1. Projection = [exists |-> TRUE, applied |-> applied, stamp |-> stamp]
  BY DEF Projection
<1>2. \A p \in Positions : /\ LineAt(p).event \in Tasks /\ LineAt(p).seq \in Nat
                           /\ LineAt(p).seq = seq[LineAt(p).event] /\ InLog(LineAt(p).event)
  <2> SUFFICES ASSUME NEW p \in Positions
               PROVE  /\ LineAt(p).event \in Tasks /\ LineAt(p).seq \in Nat
                      /\ LineAt(p).seq = seq[LineAt(p).event] /\ InLog(LineAt(p).event)
    OBVIOUS
  <2>1. p[1] \in present /\ p[1] \in FileNo /\ p[2] \in DOMAIN files[p[1]]
    BY PositionsMean
  <2>2. LineAt(p) \in Line
    BY <2>1, LinesTyped DEF LineAt
  <2>3. LineAt(p).seq = seq[LineAt(p).event]
    BY <2>1 DEF LogInv, LineAt
  <2>4. InLog(LineAt(p).event)
    BY <2>1 DEF InLog, LineAt
  <2>5. QED
    BY <2>2, <2>3, <2>4 DEF Line
<1>3. \A p, q \in Positions : LineAt(p).event = LineAt(q).event => p = q
  <2> SUFFICES ASSUME NEW p \in Positions, NEW q \in Positions, LineAt(p).event = LineAt(q).event
               PROVE  p = q
    OBVIOUS
  <2>1. /\ p[1] \in FileNo /\ p[2] \in DOMAIN files[p[1]] /\ p = <<p[1], p[2]>>
        /\ q[1] \in FileNo /\ q[2] \in DOMAIN files[q[1]] /\ q = <<q[1], q[2]>>
    BY PositionsMean
  <2>2. p[1] = q[1] /\ p[2] = q[2]
    BY <2>1 DEF LogInv, LineAt
  <2>3. QED
    BY <2>1, <2>2
<1>4. N \in Nat /\ \A k \in 1 .. N : ordered[k] \in Positions /\ Rank(ordered[k]) = k
  BY RankNumbers
<1>5. \A p \in Positions : Rank(p) \in 1 .. N /\ ordered[Rank(p)] = p
  <2> SUFFICES ASSUME NEW p \in Positions
               PROVE  Rank(p) \in 1 .. N /\ ordered[Rank(p)] = p
    OBVIOUS
  <2>1. Rank(p) \in 1 .. N
    BY RankNumbers
  <2>2. ordered[Rank(p)] \in Positions /\ Rank(ordered[Rank(p)]) = Rank(p)
    BY <1>4, <2>1
  <2>3. \A a, b \in Positions : Before(a, b) => Rank(a) < Rank(b)
    BY RankNumbers
  <2>4. Rank(p) \in Int /\ Rank(ordered[Rank(p)]) \in Int
    BY <2>1, <2>2
  <2>5. ~ Before(p, ordered[Rank(p)]) /\ ~ Before(ordered[Rank(p)], p)
    BY <2>2, <2>3, <2>4
  <2>6. ordered[Rank(p)] = p
    BY <2>2, <2>5, BeforeOrders
  <2>7. QED
    BY <2>1, <2>6
<1> HIDE DEF ordered, N
<1>6. DOMAIN ordered = 1 .. N
  BY DEF ordered, N
<1>7. /\ applied \in Seq(Tasks) /\ Len(applied) = N /\ DOMAIN applied = 1 .. N
      /\ \A k \in 1 .. N : applied[k] = LineAt(ordered[k]).event
  BY <1>2, <1>4, <1>6
<1>8. ToSet(applied) = {LineAt(p).event : p \in Positions}
  <2>1. ASSUME NEW u \in ToSet(applied) PROVE u \in {LineAt(p).event : p \in Positions}
    BY <1>4, <1>7 DEF ToSet
  <2>2. ASSUME NEW p \in Positions PROVE LineAt(p).event \in ToSet(applied)
    <3>1. Rank(p) \in DOMAIN applied /\ applied[Rank(p)] = LineAt(p).event
      BY <1>5, <1>7
    <3>2. QED
      BY <3>1 DEF ToSet
  <2>3. QED
    BY <2>1, <2>2
<1>9. \A u \in Tasks : u \in ToSet(applied) <=> InLog(u)
  <2>1. ASSUME NEW u \in Tasks, InLog(u) PROVE u \in ToSet(applied)
    <3>1. PICK f \in present : \E i \in DOMAIN files[f] : files[f][i].event = u
      BY <2>1 DEF InLog
    <3>2. PICK i \in DOMAIN files[f] : files[f][i].event = u
      BY <3>1
    <3>3. <<f, i>> \in Positions /\ LineAt(<<f, i>>).event = u
      BY <3>2 DEF Positions, LineAt
    <3>4. QED
      BY <3>3, <1>8
  <2>2. ASSUME NEW u \in ToSet(applied) PROVE InLog(u)
    BY <2>2, <1>2, <1>8
  <2>3. QED
    BY <2>1, <2>2
<1>10. IsInjective(applied)
  <2>1. ASSUME NEW a \in 1 .. N, NEW b \in 1 .. N, applied[a] = applied[b] PROVE a = b
    <3>1. ordered[a] = ordered[b]
      BY <1>3, <1>4, <1>7, <2>1
    <3>2. QED
      BY <1>4, <3>1
  <2>2. QED
    BY <1>7, <2>1 DEF IsInjective
<1>11. stamp \in Nat /\ (Positions = {} => stamp = 0)
  <2>1. CASE Positions = {}
    BY <2>1
  <2>2. CASE Positions # {}
    <3>1. N \in 1 .. N
      BY <1>4, <1>5, <2>2
    <3>2. Last(ordered) = ordered[N]
      BY <1>4, <1>6 DEF Last
    <3>3. QED
      BY <1>2, <1>4, <2>2, <3>1, <3>2
  <2>3. QED
    BY <2>1, <2>2
<1>12. ASSUME Positions # {}
       PROVE  /\ N \in 1 .. N /\ stamp = LineAt(ordered[N]).seq
              /\ \A p \in Positions : LineAt(p).seq <= stamp
  <2>1. N \in 1 .. N
    BY <1>4, <1>5, <1>12
  <2>2. Last(ordered) = ordered[N]
    BY <1>4, <1>6 DEF Last
  <2>3. stamp = LineAt(ordered[N]).seq
    BY <1>12, <2>2
  <2>4. ASSUME NEW p \in Positions PROVE LineAt(p).seq <= LineAt(ordered[N]).seq
    <3>1. Rank(p) <= N /\ Rank(p) \in Int /\ Rank(ordered[N]) = N /\ ordered[N] \in Positions
      BY <1>4, <1>5, <2>1
    <3>2. ~ Before(ordered[N], p)
      <4>1. Before(ordered[N], p) => Rank(ordered[N]) < Rank(p)
        BY <3>1, RankNumbers
      <4>2. QED
        BY <1>4, <3>1, <4>1
    <3>3. LineAt(p).seq \in Nat /\ LineAt(ordered[N]).seq \in Nat
      BY <1>2, <3>1
    <3>4. QED
      BY <3>2, <3>3 DEF Before
  <2>5. QED
    BY <2>1, <2>3, <2>4
<1> HIDE DEF applied, stamp
<1>13. \A u \in ToSet(applied) : seq[u] <= stamp
  BY <1>2, <1>8, <1>12
<1>14. applied # <<>> => \E u \in ToSet(applied) : stamp = seq[u]
  <2>1. applied # <<>> => Positions # {}
    <3>1. ASSUME Positions = {} PROVE applied = <<>>
      <4>1. ToSet(applied) = {}
        BY <3>1, <1>8
      <4>2. QED
        BY <1>7, <4>1, ElementsOf
    <3>2. QED
      BY <3>1
  <2>2. ASSUME Positions # {} PROVE \E u \in ToSet(applied) : stamp = seq[u]
    BY <2>2, <1>2, <1>4, <1>8, <1>12
  <2>3. QED
    BY <2>1, <2>2
<1>15. applied = <<>> => Positions = {}
  <2>1. applied = <<>> => ToSet(applied) = {}
    BY <1>7, ElementsOf
  <2>2. QED
    BY <1>8, <2>1
<1>16. Projection \in View /\ Projection.exists /\ Projection.applied = applied /\ Projection.stamp = stamp
  BY <1>1, <1>7, <1>11 DEF View
<1>17. QED
  BY <1>9, <1>10, <1>11, <1>13, <1>14, <1>15, <1>16


-------------------------------------------------------------------------------
(* What holds of a view, on disk or computed and not yet saved: its events are   *)
(* in the log, its stamp is the greatest of their numbers, and unless a rebuild  *)
(* overtook an append, no event is there whose turn to be folded is to come.     *)
Fresh(u) == pc[u] = "written" \/ stage[u] = "queued"

ViewFits(v) ==
  /\ \A u \in ToSet(v.applied) : pc[u] \in Logged /\ seq[u] <= v.stamp
  /\ v.applied # <<>> => \E u \in ToSet(v.applied) : v.stamp = seq[u]
  /\ v.applied = <<>> => v.stamp = 0
  /\ ~ v.exists => v.applied = <<>>

FromLog(v) == \A u \in ToSet(v.applied) : InLog(u)

Once(v) == IsInjective(v.applied) /\ \A u \in ToSet(v.applied) : ~ Fresh(u)

GoodView(v) ==
  /\ ViewFits(v)
  /\ ~ createOverlap => FromLog(v)
  /\ ~ overtaken => Once(v)

(* A task past its append has an event in the log.                               *)
StagesFit == \A t \in Tasks : pc[t] # "stored" => stage[t] \in {"none", "dead"}

(* The task that saves is the head of the chain, and what it saves extends what  *)
(* is there and holds its own event.                                             *)
SavesNext(t) ==
  /\ chain # <<>> /\ Head(chain) = t
  /\ GoodView(held[t])
  /\ ToSet(view.applied) \subseteq ToSet(held[t].applied) /\ view.stamp <= held[t].stamp
  /\ ~ createOverlap => t \in ToSet(held[t].applied)

HeldGood == \A t \in Tasks : stage[t] = "saving" => SavesNext(t)

StoreInv ==
  /\ StoreTypeOK /\ DurInv /\ LogInv /\ StagesFit
  /\ GoodView(view) /\ HeldGood /\ ReadYourWrites

StorageKept == DurInv' /\ LogInv' /\ TypeOK'

(* Every step of the store is a step of the storage, or leaves it alone.         *)
LEMMA StoreStepIsStep ==
  ASSUME [StoreNext]_allVars
  PROVE  [Next]_vars
<1>1. ASSUME NEW t \in Tasks, StoreStep(t) PROVE [Next]_vars
  <2>1. CASE AppendStep(t) \/ Persisted(t)
    BY <2>1 DEF AppendStep, Persisted, Next
  <2>2. CASE Materialize(t) \/ ViewFails(t) \/ FailsLate(t) \/ Publish(t)
    BY <2>2 DEF Materialize, ApplyToView, RebuildView, SaveView, ViewFails, FailsLate, Publish, storageVars
  <2>3. QED
    BY <1>1, <2>1, <2>2 DEF StoreStep
<1>2. CASE RestartStore
  BY <1>2 DEF RestartStore, Next
<1>3. CASE UNCHANGED allVars
  BY <1>3 DEF allVars, storageVars
<1>4. QED
  BY <1>1, <1>2, <1>3 DEF StoreNext

LEMMA StorageKeeps ==
  ASSUME DurInv, LogInv, [Next]_vars
  PROVE  StorageKept
<1>1. DurInv'
  BY TypeStep, DirectoryStep, PathsStep, DurableStep, CreateOverlapStays DEF DurInv
<1>2. LogInv'
  BY LogStep
<1>3. QED
  BY <1>1, <1>2 DEF StorageKept, DurInv, TypeInv

(* A view that stays as it is stays good, whatever the storage does, as long as  *)
(* no task takes its place in the chain that was past it.                        *)
LEMMA GoodViewStays ==
  ASSUME StoreInv, [Next]_vars, NEW v \in View, GoodView(v),
         \A u \in Tasks : stage'[u] = "queued" => stage[u] = "queued" \/ pc[u] = "written",
         overtaken' = overtaken
  PROVE  GoodView(v)'
<1>1. LoggedStay
  BY StorageStep DEF StoreInv
<1>2. ToSet(v.applied) \subseteq Tasks
  BY ElementsOf DEF View
<1>3. ViewFits(v)'
  BY <1>1, <1>2 DEF GoodView, ViewFits, LoggedStay
<1>4. ~ createOverlap' => FromLog(v)'
  BY <1>2, InLogStays, CreateOverlapStays DEF GoodView, FromLog, StoreInv
<1>5. ASSUME ~ overtaken' PROVE Once(v)'
  <2>1. IsInjective(v.applied) /\ \A u \in ToSet(v.applied) : ~ Fresh(u) /\ pc[u] \in Logged
    BY <1>5 DEF GoodView, Once, ViewFits
  <2>2. \A u \in ToSet(v.applied) : ~ Fresh(u)'
    BY <1>1, <1>2, <2>1 DEF Fresh, LoggedStay, Logged
  <2>3. QED
    BY <2>1, <2>2 DEF Once
<1>6. QED
  BY <1>3, <1>4, <1>5 DEF GoodView

(* The steps that fold nothing and save nothing.                                  *)
LEMMA QuietStore ==
  ASSUME StoreInv, [Next]_vars,
         UNCHANGED <<view, overtaken>>,
         StoreTypeOK', StagesFit',
         \A u \in Tasks : stage'[u] = "queued" => stage[u] = "queued" \/ pc[u] = "written",
         \A u \in Tasks : stage'[u] = "saving" =>
           stage[u] = "saving" /\ held'[u] = held[u] /\ chain' # <<>> /\ Head(chain') = Head(chain),
         \A u \in Tasks : stage'[u] \in {"enriching", "published"} => stage[u] \in {"enriching", "published"}
  PROVE  StoreInv'
<1>1. GoodView(view)'
  <2>1. PICK v : v = view /\ v = view'
    OBVIOUS
  <2>2. v \in View /\ GoodView(v)
    BY <2>1 DEF StoreInv, StoreTypeOK
  <2>3. GoodView(v)'
    BY <2>2, GoodViewStays
  <2>4. QED
    BY <2>1, <2>3 DEF GoodView, ViewFits, FromLog, Once
<1>2. HeldGood'
  <2> SUFFICES ASSUME NEW t \in Tasks, stage'[t] = "saving"
               PROVE  SavesNext(t)'
    BY DEF HeldGood
  <2>1. stage[t] = "saving" /\ SavesNext(t)
    BY DEF StoreInv, HeldGood
  <2>2. PICK v : v = held[t] /\ v = held'[t]
    OBVIOUS
  <2>3. v \in View /\ GoodView(v)
    BY <2>1, <2>2 DEF SavesNext, StoreInv, StoreTypeOK
  <2>4. GoodView(v)'
    BY <2>3, GoodViewStays
  <2>5. GoodView(held[t])'
    BY <2>2, <2>4 DEF GoodView, ViewFits, FromLog, Once
  <2>6. QED
    BY <2>1, <2>2, <2>5, CreateOverlapStays DEF SavesNext
<1>3. ReadYourWrites'
  BY CreateOverlapStays DEF ReadYourWrites, StoreInv
<1>4. QED
  BY <1>1, <1>2, <1>3, StorageKeeps DEF StorageKept, StoreInv


LEMMA AppendStepKeeps ==
  ASSUME StoreInv, NEW t \in Tasks, AppendStep(t)
  PROVE  StoreInv'
<1>1. [Next]_vars /\ UNCHANGED <<view, chain, held, stage, published, overtaken>>
  BY DEF AppendStep, Next, storeVars
<1>2. StorageKept /\ LoggedStay
  BY <1>1, StorageKeeps, StorageStep DEF StoreInv
<1>3. StoreTypeOK'
  BY <1>1, <1>2 DEF StorageKept, StoreTypeOK, StoreInv
<1>4. StagesFit'
  BY <1>1, <1>2 DEF StagesFit, StoreInv, LoggedStay, Logged
<1>5. QED
  BY <1>1, <1>3, <1>4, QuietStore DEF StoreInv, HeldGood, SavesNext

LEMMA PersistedKeeps ==
  ASSUME StoreInv, NEW t \in Tasks, Persisted(t)
  PROVE  StoreInv'
<1>1. /\ [Next]_vars /\ UNCHANGED <<view, held, published, overtaken>>
      /\ chain' = Append(chain, t) /\ stage' = [stage EXCEPT ![t] = "queued"]
      /\ pc[t] = "written" /\ pc'[t] = "stored"
  BY DEF Persisted, Next, Stored, Goto, Advance, StoreInv, StoreTypeOK, TypeOK
<1>2. StorageKept /\ LoggedStay
  BY <1>1, StorageKeeps, StorageStep DEF StoreInv
<1>3. chain \in Seq(Tasks) /\ chain' \in Seq(Tasks)
  BY <1>1 DEF StoreInv, StoreTypeOK
<1>4. StoreTypeOK'
  BY <1>1, <1>2, <1>3 DEF StorageKept, StoreTypeOK, StoreInv, Pending
<1>5. \A u \in Tasks : stage'[u] = IF u = t THEN "queued" ELSE stage[u]
  BY <1>1 DEF StoreInv, StoreTypeOK
<1>6. StagesFit'
  BY <1>1, <1>2, <1>5 DEF StagesFit, StoreInv, LoggedStay, Logged
<1>7. chain # <<>> => chain' # <<>> /\ Head(chain') = Head(chain)
  BY <1>1, <1>3
<1>8. \A u \in Tasks : stage[u] = "saving" => chain # <<>>
  BY DEF StoreInv, HeldGood, SavesNext
<1>9. QED
  BY <1>1, <1>4, <1>5, <1>6, <1>7, <1>8, QuietStore

(* A link of the chain that fails, and the two ends of an append.                 *)
LEMMA EndKeeps ==
  ASSUME StoreInv, NEW t \in Tasks, ViewFails(t) \/ FailsLate(t) \/ Publish(t)
  PROVE  StoreInv'
<1>1. [Next]_vars /\ UNCHANGED <<storageVars, view, overtaken>>
  BY DEF ViewFails, FailsLate, Publish, storageVars
<1>2. /\ \E l \in {"rejected", "published"} :
           /\ \A u \in Tasks : stage'[u] = IF u = t THEN l ELSE stage[u]
           /\ stage' = [stage EXCEPT ![t] = l]
           /\ l = "published" => stage[t] = "enriching"
      /\ stage[t] # "none" /\ stage[t] # "dead"
  BY DEF ViewFails, FailsLate, Publish, Advance, StoreInv, StoreTypeOK
<1>3. \A u \in Tasks : stage[u] = "saving" => chain # <<>> /\ Head(chain) = u
  BY DEF StoreInv, HeldGood, SavesNext
<1>4. ASSUME ViewFails(t)
      PROVE  chain # <<>> /\ Head(chain) = t /\ chain' = Tail(chain) /\ held' = [held EXCEPT ![t] = NoView]
  BY <1>3, <1>4 DEF ViewFails
<1>5. \A u \in Tasks : stage'[u] = "saving" =>
        stage[u] = "saving" /\ held'[u] = held[u] /\ chain' # <<>> /\ Head(chain') = Head(chain)
  <2>1. CASE ViewFails(t)
    BY <1>2, <1>3, <1>4, <2>1
  <2>2. CASE FailsLate(t) \/ Publish(t)
    BY <1>2, <1>3, <2>2 DEF FailsLate, Publish
  <2>3. QED
    BY <2>1, <2>2
<1>6. StoreTypeOK'
  <2>1. TypeOK'
    BY <1>1, StorageKeeps DEF StoreInv, StorageKept
  <2>2. chain' \in Seq(Tasks) /\ held' \in [Tasks -> View]
    <3>1. CASE ViewFails(t)
      <4>1. NoView \in View
        BY DEF NoView, View
      <4>2. chain \in Seq(Tasks) /\ chain # <<>> /\ held \in [Tasks -> View]
        BY <1>4, <3>1 DEF StoreInv, StoreTypeOK
      <4>3. QED
        BY <1>4, <3>1, <4>1, <4>2
    <3>2. CASE FailsLate(t) \/ Publish(t)
      BY <3>2 DEF FailsLate, Publish, StoreInv, StoreTypeOK
    <3>3. QED
      BY <3>1, <3>2
  <2>3. published' \in Seq(Tasks)
    <3>1. published' = published \/ published' = Append(published, t)
      BY DEF ViewFails, FailsLate, Publish
    <3>2. published \in Seq(Tasks)
      BY DEF StoreInv, StoreTypeOK
    <3>3. QED
      BY <3>1, <3>2
  <2>4. stage' \in [Tasks -> Pending \cup {"none", "published", "rejected", "dead"}]
    BY <1>2 DEF StoreInv, StoreTypeOK
  <2>5. QED
    BY <1>1, <2>1, <2>2, <2>3, <2>4 DEF StoreInv, StoreTypeOK
<1>7. StagesFit'
  BY <1>1, <1>2 DEF StagesFit, StoreInv, storageVars, vars
<1>8. QED
  BY <1>1, <1>2, <1>5, <1>6, <1>7, QuietStore

LEMMA SaveViewKeeps ==
  ASSUME StoreInv, NEW t \in Tasks, SaveView(t)
  PROVE  StoreInv'
<1>1. /\ UNCHANGED <<storageVars, published, overtaken>> /\ stage[t] = "saving"
      /\ view' = held[t] /\ held' = [held EXCEPT ![t] = NoView] /\ chain' = Tail(chain)
      /\ \A u \in Tasks : stage'[u] = IF u = t THEN "enriching" ELSE stage[u]
      /\ stage' = [stage EXCEPT ![t] = "enriching"]
  BY DEF SaveView, Advance, StoreInv, StoreTypeOK
<1>2. SavesNext(t) /\ \A u \in Tasks : stage[u] = "saving" => u = t
  BY <1>1 DEF StoreInv, HeldGood, SavesNext
<1>3. [Next]_vars /\ StorageKept
  BY <1>1, StorageKeeps DEF storageVars, StoreInv
<1>4. StoreTypeOK'
  <2>1. NoView \in View
    BY DEF NoView, View
  <2>2. chain' \in Seq(Tasks)
    BY <1>1, <1>2 DEF StoreInv, StoreTypeOK, SavesNext
  <2>3. QED
    BY <1>1, <1>3, <2>1, <2>2 DEF StoreInv, StoreTypeOK, StorageKept, Pending
<1>5. StagesFit'
  BY <1>1 DEF StagesFit, StoreInv, storageVars, vars
<1>6. GoodView(view)'
  <2>1. PICK v : v = held[t] /\ v = view'
    BY <1>1
  <2>2. v \in View /\ GoodView(v)
    BY <1>2, <2>1 DEF StoreInv, StoreTypeOK, SavesNext
  <2>3. GoodView(v)'
    BY <1>1, <1>3, <2>2, GoodViewStays
  <2>4. QED
    BY <2>1, <2>3 DEF GoodView, ViewFits, FromLog, Once
<1>7. HeldGood'
  BY <1>1, <1>2 DEF HeldGood
<1>8. ReadYourWrites'
  <2>1. createOverlap' = createOverlap
    BY <1>1 DEF storageVars, vars, historyVars
  <2>2. ASSUME ~ createOverlap, NEW u \in Tasks, stage'[u] \in {"enriching", "published"}
        PROVE  u \in ToSet(view'.applied)
    BY <1>1, <1>2, <2>2 DEF SavesNext, ReadYourWrites, StoreInv
  <2>3. QED
    BY <2>1, <2>2 DEF ReadYourWrites
<1>9. QED
  BY <1>3, <1>4, <1>5, <1>6, <1>7, <1>8 DEF StoreInv, StorageKept


LEMMA MaxOfTwo ==
  ASSUME NEW a \in Nat, NEW b \in Nat
  PROVE  /\ Max({a, b}) \in {a, b} /\ Max({a, b}) \in Nat
         /\ a <= Max({a, b}) /\ b <= Max({a, b})
<1>1. \E x \in {a, b} : \A y \in {a, b} : x >= y
  <2>1. CASE a >= b
    BY <2>1
  <2>2. CASE b >= a
    BY <2>2
  <2>3. QED
    BY <2>1, <2>2
<1>2. Max({a, b}) \in {a, b} /\ \A y \in {a, b} : Max({a, b}) >= y
  BY <1>1 DEF Max
<1>3. QED
  BY <1>2

(* The head of the chain computes the view it will save: what is the same for    *)
(* the incremental fold and for the rebuild.                                     *)
LEMMA ComputedKeeps ==
  ASSUME StoreInv, NEW t \in Tasks, NEW v \in View,
         chain # <<>>, t = Head(chain), stage[t] = "queued",
         held' = [held EXCEPT ![t] = v], Advance(t, "saving"),
         UNCHANGED <<storageVars, view, chain, published>>,
         overtaken' \in BOOLEAN, overtaken => overtaken',
         ViewFits(v), ~ createOverlap => FromLog(v) /\ t \in ToSet(v.applied),
         ~ overtaken' => IsInjective(v.applied) /\ \A u \in ToSet(v.applied) : u = t \/ ~ Fresh(u),
         ToSet(view.applied) \subseteq ToSet(v.applied), view.stamp <= v.stamp
  PROVE  StoreInv'
<1>1. \A u \in Tasks : stage'[u] = IF u = t THEN "saving" ELSE stage[u]
  BY DEF Advance, StoreInv, StoreTypeOK
<1>2. [Next]_vars /\ StorageKept /\ UNCHANGED <<pc, seq, present, files, createOverlap>>
  <2>1. [Next]_vars
    BY DEF storageVars
  <2>2. QED
    BY <2>1, StorageKeeps DEF storageVars, vars, diskVars, localVars, historyVars, StoreInv
<1>3. StoreTypeOK'
  BY <1>2 DEF StoreInv, StoreTypeOK, StorageKept, Advance, Pending
<1>4. pc[t] = "stored" /\ StagesFit'
  BY <1>1, <1>2 DEF StoreInv, StagesFit
<1>5. ~ Fresh(t)' /\ \A u \in Tasks : Fresh(u)' => Fresh(u)
  BY <1>1, <1>2, <1>4 DEF Fresh
<1>6. GoodView(view)'
  <2>1. PICK w : w = view /\ w = view'
    OBVIOUS
  <2>2. w \in View /\ GoodView(w) /\ ToSet(w.applied) \subseteq Tasks
    BY <2>1, ElementsOf DEF StoreInv, StoreTypeOK, View
  <2>3. GoodView(w)'
    BY <1>2, <1>5, <2>2 DEF GoodView, ViewFits, FromLog, InLog, Once
  <2>4. QED
    BY <2>1, <2>3 DEF GoodView, ViewFits, FromLog, Once
<1>7. HeldGood'
  <2>1. \A u \in Tasks : stage[u] # "saving"
    BY DEF StoreInv, HeldGood, SavesNext
  <2>2. held'[t] = v
    BY DEF StoreInv, StoreTypeOK
  <2>3. ToSet(v.applied) \subseteq Tasks
    BY ElementsOf DEF View
  <2>4. ViewFits(held[t])'
    BY <1>2, <2>2 DEF ViewFits
  <2>5. (~ createOverlap => FromLog(held[t]))'
    BY <1>2, <2>2 DEF FromLog, InLog
  <2>6. (~ overtaken => Once(held[t]))'
    BY <1>5, <2>2, <2>3 DEF Once
  <2>7. GoodView(held[t])'
    BY <2>4, <2>5, <2>6 DEF GoodView
  <2>8. SavesNext(t)'
    BY <1>2, <2>2, <2>7 DEF SavesNext
  <2>9. QED
    BY <1>1, <2>1, <2>8 DEF HeldGood
<1>8. ReadYourWrites'
  BY <1>1, <1>2 DEF ReadYourWrites, StoreInv
<1>9. QED
  BY <1>2, <1>3, <1>4, <1>6, <1>7, <1>8 DEF StoreInv, StorageKept

LEMMA ApplyToViewKeeps ==
  ASSUME StoreInv, NEW t \in Tasks, ApplyToView(t)
  PROVE  StoreInv'
<1>1. PICK v : v = [exists |-> TRUE, applied |-> Append(view.applied, t),
                    stamp |-> Max({view.stamp, seq[t]})]
  OBVIOUS
<1>2. view.applied \in Seq(Tasks) /\ view.stamp \in Nat /\ seq[t] \in Nat /\ pc[t] = "stored"
  BY DEF ApplyToView, StoreInv, StoreTypeOK, TypeOK, View, StagesFit
<1>3. /\ v.stamp \in {view.stamp, seq[t]} /\ v.stamp \in Nat
      /\ view.stamp <= v.stamp /\ seq[t] <= v.stamp
  BY <1>1, <1>2, MaxOfTwo
<1>4. /\ ToSet(view.applied) \subseteq Tasks
      /\ ToSet(v.applied) = ToSet(view.applied) \cup {t}
      /\ v.applied \in Seq(Tasks) /\ v.applied # <<>>
      /\ IsInjective(view.applied) /\ t \notin ToSet(view.applied) => IsInjective(v.applied)
      /\ view.applied = <<>> <=> ToSet(view.applied) = {}
  BY <1>1, <1>2, ElementsOf
<1>5. v \in View
  BY <1>1, <1>3, <1>4 DEF View
<1>6. GoodView(view)
  BY DEF StoreInv
<1>7. ViewFits(v)
  <2>1. \A u \in ToSet(v.applied) : pc[u] \in Logged /\ seq[u] <= v.stamp
    <3>1. \A u \in Tasks : seq[u] \in Nat
      BY DEF StoreInv, StoreTypeOK, TypeOK
    <3>2. \A u \in ToSet(view.applied) : pc[u] \in Logged /\ seq[u] <= view.stamp
      BY <1>6 DEF GoodView, ViewFits
    <3>3. QED
      BY <1>2, <1>3, <1>4, <3>1, <3>2 DEF Logged
  <2>2. \E u \in ToSet(v.applied) : v.stamp = seq[u]
    <3>1. CASE v.stamp = seq[t]
      BY <1>4, <3>1
    <3>2. CASE v.stamp = view.stamp /\ view.applied # <<>>
      BY <1>4, <1>6, <3>2 DEF GoodView, ViewFits
    <3>3. CASE v.stamp = view.stamp /\ view.applied = <<>>
      <4>1. view.stamp = 0
        BY <1>6, <3>3 DEF GoodView, ViewFits
      <4>2. v.stamp = seq[t]
        BY <1>2, <1>3, <3>3, <4>1
      <4>3. QED
        BY <1>4, <4>2
    <3>4. QED
      BY <1>3, <3>1, <3>2, <3>3
  <2>3. QED
    BY <1>1, <1>4, <2>1, <2>2 DEF ViewFits
<1>8. ~ createOverlap => FromLog(v) /\ t \in ToSet(v.applied)
  BY <1>2, <1>4, <1>6 DEF GoodView, FromLog, StoreInv, DurInv, WrittenInLog
<1>9. ~ overtaken => IsInjective(v.applied) /\ \A u \in ToSet(v.applied) : u = t \/ ~ Fresh(u)
  BY <1>4, <1>6 DEF GoodView, Once, Fresh, ApplyToView
<1>10. QED
  BY <1>1, <1>3, <1>4, <1>5, <1>7, <1>8, <1>9, ComputedKeeps
     DEF ApplyToView, StoreInv, StoreTypeOK

LEMMA RebuildViewKeeps ==
  ASSUME StoreInv, NEW t \in Tasks, RebuildView(t)
  PROVE  StoreInv'
<1>1. PICK v : v = Projection
  OBVIOUS
<1>2. TypeOK /\ LogInv /\ pc[t] = "stored"
  BY DEF RebuildView, StoreInv, StoreTypeOK, StagesFit
<1>3. /\ v \in View /\ v.exists /\ (\A u \in Tasks : u \in ToSet(v.applied) <=> InLog(u))
      /\ IsInjective(v.applied)
      /\ \A u \in ToSet(v.applied) : seq[u] <= v.stamp
      /\ v.applied # <<>> => \E u \in ToSet(v.applied) : v.stamp = seq[u]
      /\ v.applied = <<>> => v.stamp = 0
  BY <1>1, <1>2, ProjectionFacts
<1>4. ToSet(v.applied) \subseteq Tasks
  BY <1>3, ElementsOf DEF View
<1>5. ViewFits(v)
  BY <1>2, <1>3, <1>4, InLogMeans DEF ViewFits
<1>6. ~ createOverlap => FromLog(v) /\ t \in ToSet(v.applied)
  BY <1>2, <1>3, <1>4 DEF FromLog, StoreInv, DurInv, WrittenInLog
<1>7. ~ overtaken' => \A u \in ToSet(v.applied) : u = t \/ ~ Fresh(u)
  BY <1>4 DEF RebuildView, Fresh
<1>8. view.applied = <<>> /\ view.stamp = 0
  BY DEF RebuildView, StoreInv, GoodView, ViewFits
<1>9. ToSet(view.applied) \subseteq ToSet(v.applied) /\ view.stamp <= v.stamp
  <2>1. ToSet(view.applied) = {}
    BY <1>8 DEF ToSet
  <2>2. QED
    BY <1>3, <1>8, <2>1 DEF View
<1>10. overtaken' \in BOOLEAN /\ (overtaken => overtaken')
  BY DEF RebuildView, StoreInv, StoreTypeOK
<1>11. held' = [held EXCEPT ![t] = v]
  BY <1>1 DEF RebuildView
<1>12. QED
  BY <1>3, <1>5, <1>6, <1>7, <1>9, <1>10, <1>11, ComputedKeeps DEF RebuildView


(* A restart: what the rebuild makes of the log holds every event of the old      *)
(* view, and no task is left whose event is still to be folded.                   *)
LEMMA RestartStoreKeeps ==
  ASSUME StoreInv, RestartStore
  PROVE  /\ StoreInv'
         /\ ~ createOverlap => /\ ToSet(view.applied) \subseteq ToSet(view'.applied)
                               /\ view.stamp <= view'.stamp
<1>1. PICK p : p = Projection
  OBVIOUS
<1>2. PICK v : v = view
  OBVIOUS
<1>3. TypeOK /\ LogInv /\ v \in View /\ GoodView(v) /\ v.stamp \in Nat
  BY <1>2 DEF StoreInv, StoreTypeOK, View
<1>4. /\ p \in View /\ p.exists /\ (\A u \in Tasks : u \in ToSet(p.applied) <=> InLog(u))
      /\ IsInjective(p.applied)
      /\ \A u \in ToSet(p.applied) : seq[u] <= p.stamp
      /\ p.applied # <<>> => \E u \in ToSet(p.applied) : p.stamp = seq[u]
      /\ p.applied = <<>> => p.stamp = 0
  BY <1>1, <1>3, ProjectionFacts
<1>5. ToSet(p.applied) \subseteq Tasks /\ ToSet(v.applied) \subseteq Tasks
  BY <1>3, <1>4, ElementsOf DEF View
<1>6. /\ [Next]_vars /\ StorageKept /\ LoggedStay
      /\ UNCHANGED <<present, files, createOverlap, overtaken, published>>
      /\ view' \in {v, p} /\ chain' = <<>> /\ held' = [t \in Tasks |-> NoView]
  <2>1. [Next]_vars
    BY DEF RestartStore, Next
  <2>2. QED
    BY <1>1, <1>2, <2>1, StorageKeeps, StorageStep DEF RestartStore, Restart, diskVars, StoreInv
<1>7. \A u \in Tasks : /\ stage'[u] = IF stage[u] \in Pending THEN "dead" ELSE stage[u]
                       /\ stage'[u] \in {"none", "published", "rejected", "dead"}
                       /\ pc[u] = "stored" => pc'[u] = "stored"
                       /\ ~ Fresh(u)'
  <2>1. \A u \in Tasks : stage'[u] = IF stage[u] \in Pending THEN "dead" ELSE stage[u]
    BY DEF RestartStore
  <2>2. \A u \in Tasks : stage'[u] \in {"none", "published", "rejected", "dead"}
    BY <2>1 DEF StoreInv, StoreTypeOK
  <2>3. \A u \in Tasks : pc'[u] # "written" /\ (pc[u] = "stored" => pc'[u] = "stored")
    BY DEF RestartStore, Restart, Active, Writing, Initializing
  <2>4. QED
    BY <2>1, <2>2, <2>3 DEF Fresh
<1>8. StoreTypeOK' /\ StagesFit'
  <2>1. NoView \in View
    BY DEF NoView, View
  <2>2. stage' \in [Tasks -> {"none", "published", "rejected", "dead"}]
    BY <1>7 DEF RestartStore
  <2>3. StoreTypeOK'
    BY <1>3, <1>4, <1>6, <2>1, <2>2 DEF StoreInv, StoreTypeOK, StorageKept
  <2>4. StagesFit'
    BY <1>7 DEF StagesFit, StoreInv
  <2>5. QED
    BY <2>3, <2>4
<1>9. GoodView(p)'
  <2>1. ViewFits(p)
    BY <1>3, <1>4, <1>5, InLogMeans DEF ViewFits
  <2>2. ViewFits(p)'
    BY <1>5, <1>6, <2>1 DEF ViewFits, LoggedStay
  <2>3. FromLog(p)'
    BY <1>4, <1>5, <1>6 DEF FromLog, InLog
  <2>4. Once(p)'
    BY <1>4, <1>5, <1>7 DEF Once
  <2>5. QED
    BY <2>2, <2>3, <2>4 DEF GoodView
<1>10. GoodView(v)'
  BY <1>3, <1>6, <1>7, GoodViewStays
<1>11. GoodView(view)'
  BY <1>6, <1>9, <1>10 DEF GoodView, ViewFits, FromLog, Once
<1>12. HeldGood'
  BY <1>7 DEF HeldGood
<1>13. ASSUME ~ createOverlap
       PROVE  ToSet(view.applied) \subseteq ToSet(view'.applied) /\ view.stamp <= view'.stamp
  <2>1. \A u \in ToSet(v.applied) : u \in ToSet(p.applied)
    BY <1>3, <1>4, <1>5, <1>13 DEF GoodView, FromLog
  <2>2. v.stamp <= p.stamp
    <3>1. p.stamp \in Nat
      BY <1>4 DEF View
    <3>2. CASE v.applied = <<>>
      BY <1>3, <3>1, <3>2 DEF GoodView, ViewFits
    <3>3. CASE v.applied # <<>>
      BY <1>3, <1>4, <2>1, <3>3 DEF GoodView, ViewFits
    <3>4. QED
      BY <3>2, <3>3
  <2>3. QED
    BY <1>2, <1>3, <1>6, <2>1, <2>2
<1>14. ReadYourWrites'
  BY <1>6, <1>7, <1>13 DEF ReadYourWrites, StoreInv
<1>15. QED
  BY <1>6, <1>8, <1>11, <1>12, <1>13, <1>14 DEF StoreInv, StorageKept

LEMMA StoreStart == StoreInit => StoreInv
<1> SUFFICES ASSUME StoreInit PROVE StoreInv
  OBVIOUS
<1>1. DurInv
  BY DurInit DEF StoreInit
<1>2. LogInv
  BY DEF StoreInit, Init, LogInv
<1>3. StoreTypeOK
  <2>1. NoView \in View
    BY DEF NoView, View
  <2>2. /\ view \in View /\ held \in [Tasks -> View] /\ overtaken \in BOOLEAN
        /\ stage \in [Tasks -> Pending \cup {"none", "published", "rejected", "dead"}]
    BY <2>1 DEF StoreInit
  <2>3. chain \in Seq(Tasks) /\ published \in Seq(Tasks)
    BY DEF StoreInit
  <2>4. QED
    BY <1>1, <2>2, <2>3 DEF StoreTypeOK, DurInv, TypeInv
<1>4. ToSet(view.applied) = {} /\ view.applied = <<>> /\ view.stamp = 0
  BY DEF StoreInit, NoView, ToSet
<1>5. IsInjective(view.applied)
  BY <1>4 DEF IsInjective
<1>6. GoodView(view)
  BY <1>4, <1>5 DEF GoodView, ViewFits, FromLog, Once
<1>7. StagesFit /\ HeldGood /\ ReadYourWrites
  BY DEF StoreInit, StagesFit, HeldGood, ReadYourWrites
<1>8. QED
  BY <1>1, <1>2, <1>3, <1>6, <1>7 DEF StoreInv

LEMMA StoreInvStep == StoreInv /\ [StoreNext]_allVars => StoreInv'
<1> SUFFICES ASSUME StoreInv, [StoreNext]_allVars PROVE StoreInv'
  OBVIOUS
<1>1. ASSUME NEW t \in Tasks, StoreStep(t) PROVE StoreInv'
  BY <1>1, AppendStepKeeps, PersistedKeeps, ApplyToViewKeeps, RebuildViewKeeps, SaveViewKeeps, EndKeeps
     DEF StoreStep, Materialize
<1>2. CASE RestartStore
  BY <1>2, RestartStoreKeeps
<1>3. CASE UNCHANGED allVars
  <2>1. [Next]_vars
    BY <1>3 DEF allVars, storageVars
  <2>2. UNCHANGED <<view, chain, held, stage, published, overtaken, pc>>
    BY <1>3 DEF allVars, storageVars, storeVars, vars
  <2>3. StoreTypeOK'
    BY <2>1, <2>2, StorageKeeps DEF StorageKept, StoreTypeOK, StoreInv
  <2>4. StagesFit'
    BY <2>2 DEF StagesFit, StoreInv
  <2>5. QED
    BY <2>1, <2>2, <2>3, <2>4, QuietStore DEF StoreInv, HeldGood, SavesNext
<1>4. QED
  BY <1>1, <1>2, <1>3 DEF StoreNext

THEOREM StoreInvariant == StoreSpec => []StoreInv
BY StoreStart, StoreInvStep, PTL DEF StoreSpec

-------------------------------------------------------------------------------
(* The types of the storage below and of the store's own variables.              *)
THEOREM StoreTypes == StoreSpec => []StoreTypeOK
<1>1. StoreInv => StoreTypeOK
  BY DEF StoreInv
<1>2. QED
  BY <1>1, StoreInvariant, PTL

(* Read-your-writes, for any number of overlapping appends, failed view updates   *)
(* and crashes: the view file holds an event from before its enrichment reads it. *)
THEOREM PublishedIsReadable == StoreSpec => []ReadYourWrites
<1>1. StoreInv => ReadYourWrites
  BY DEF StoreInv
<1>2. QED
  BY <1>1, StoreInvariant, PTL

(* The log is the source of truth: the view holds no event the log does not.      *)
THEOREM ViewComesFromLog == StoreSpec => []ViewFromLog
<1>1. StoreInv => ViewFromLog
  BY DEF StoreInv, GoodView, FromLog, ViewFromLog
<1>2. QED
  BY <1>1, StoreInvariant, PTL

(* No event is folded twice, unless a rebuild ran between another event's write   *)
(* and its turn.                                                                  *)
THEOREM FoldedOnce == StoreSpec => []AppliedOnce
<1>1. StoreInv => AppliedOnce
  BY DEF StoreInv, GoodView, Once, AppliedOnce
<1>2. QED
  BY <1>1, StoreInvariant, PTL

(* The lastSequence stamp is the greatest number among the events folded in.      *)
THEOREM StampIsGreatest == StoreSpec => []StampIsNewest
<1>1. StoreInv => StampIsNewest
  <2> SUFFICES ASSUME StoreInv, view.exists, view.applied # <<>>
               PROVE  view.stamp = Max({seq[t] : t \in ToSet(view.applied)})
    BY DEF StampIsNewest
  <2> DEFINE S == {seq[t] : t \in ToSet(view.applied)}
  <2>1. ToSet(view.applied) \subseteq Tasks
    BY ElementsOf DEF StoreInv, StoreTypeOK, View
  <2>2. S \subseteq Nat
    BY <2>1 DEF StoreInv, StoreTypeOK, TypeOK
  <2>3. view.stamp \in S /\ \A y \in S : view.stamp >= y
    BY <2>2 DEF StoreInv, GoodView, ViewFits
  <2>4. Max(S) \in S /\ \A y \in S : Max(S) >= y
    BY <2>3 DEF Max
  <2> HIDE DEF S
  <2>5. view.stamp <= Max(S) /\ Max(S) <= view.stamp /\ view.stamp \in Nat /\ Max(S) \in Nat
    BY <2>2, <2>3, <2>4
  <2>6. view.stamp = Max(S)
    BY <2>5
  <2>7. QED
    BY <2>6 DEF S
<1>2. QED
  BY <1>1, StoreInvariant, PTL

(* A view never loses an event and its stamp never goes back, over appends,       *)
(* rebuilds, failures and restarts.                                               *)
THEOREM ViewOnlyGrows == StoreSpec => ViewGrows
<1> DEFINE Grows == view.exists /\ ~ createOverlap' =>
             /\ ToSet(view.applied) \subseteq ToSet(view'.applied)
             /\ view'.stamp >= view.stamp
<1>1. StoreInv /\ [StoreNext]_allVars => [Grows]_allVars
  <2> SUFFICES ASSUME StoreInv, StoreNext PROVE Grows
    OBVIOUS
  <2>1. view.stamp \in Nat /\ \A t \in Tasks : held[t].stamp \in Nat
    BY DEF StoreInv, StoreTypeOK, View
  <2>2. ASSUME NEW t \in Tasks, StoreStep(t) PROVE Grows
    <3>1. CASE SaveView(t)
      <4>1. view' = held[t] /\ SavesNext(t)
        BY <3>1 DEF SaveView, StoreInv, HeldGood
      <4>2. QED
        BY <2>1, <4>1 DEF SavesNext
    <3>2. CASE ~ SaveView(t)
      <4>1. view' = view
        BY <2>2, <3>2 DEF StoreStep, AppendStep, storeVars, Persisted, Materialize, ApplyToView,
                          RebuildView, ViewFails, FailsLate, Publish
      <4>2. QED
        BY <2>1, <4>1
    <3>3. QED
      BY <3>1, <3>2
  <2>3. CASE RestartStore
    <3>1. createOverlap' = createOverlap /\ view'.stamp \in Nat
      BY <2>3, RestartStoreKeeps DEF RestartStore, Restart, StoreInv, StoreTypeOK, View
    <3>2. QED
      BY <2>1, <2>3, <3>1, RestartStoreKeeps
  <2>4. QED
    BY <2>2, <2>3 DEF StoreNext
<1>2. QED
  BY <1>1, StoreInvariant, PTL DEF StoreSpec, ViewGrows

(* The storage below the store behaves as EventStorage says, so its theorems hold *)
(* of the store as well.                                                          *)
THEOREM StoreUsesStorage == StoreSpec => Spec
<1>1. StoreInit => Init
  BY DEF StoreInit
<1>2. [StoreNext]_allVars => [Next]_vars
  BY StoreStepIsStep
<1>3. QED
  BY <1>1, <1>2, PTL DEF StoreSpec, Spec


===============================================================================
