----------------------------- MODULE Weaver_proofs -----------------------------
(* Proofs about Weaver, for any number of events and every value of the bounds: *)
(* the types, that the mark is honest (MarkSound) and that the gate leaves the  *)
(* newest event on top (NewestAtMark).                                          *)
EXTENDS Weaver, Ascending_proofs

-------------------------------------------------------------------------------
(* The graph, the mark and the bounds.                                          *)
LEMMA EventsFinite ==
  /\ Events \subseteq Nat \ {0} /\ IsFiniteSet(Events)
  /\ \A S \in SUBSET Events : IsFiniteSet(S) /\ S \in SUBSET Int
<1>1. Events \subseteq Nat \ {0}
  BY EventsAssumption DEF Events
<1>2. IsFiniteSet(Events)
  BY EventsAssumption, FS_Interval DEF Events
<1>3. \A S \in SUBSET Events : IsFiniteSet(S)
  BY <1>2, FS_Subset
<1>4. \A S \in SUBSET Events : S \in SUBSET Int
  BY <1>1
<1>5. QED
  BY <1>1, <1>2, <1>3, <1>4

(* The greatest of some events and the mark is an event or the mark. *)
LEMMA TopOf ==
  ASSUME NEW S \in SUBSET Events, S # {}
  PROVE  Max(S) \in S /\ \A x \in S : x <= Max(S)
<1>1. QED
  BY EventsFinite, Extremes

(* Where the mark goes: not past what is applied, and below every failure. *)
LEMMA Raised ==
  ASSUME NEW m \in Events \cup {0}, NEW e \in Events \cup {0}, NEW F \in SUBSET Events
  PROVE  /\ Max({m, Capped(e, F)}) \in Events \cup {0}
         /\ m <= Max({m, Capped(e, F)})
         /\ Max({m, Capped(e, F)}) # m =>
              Max({m, Capped(e, F)}) <= e /\ \A f \in F : Max({m, Capped(e, F)}) < f
         /\ F = {} => e <= Max({m, Capped(e, F)})
<1> DEFINE c == Capped(e, F)
<1>1. m \in Nat /\ e \in Nat /\ MaxSeq \in Nat /\ Events = 1 .. MaxSeq
  BY EventsAssumption DEF Events
<1>2. c \in Nat /\ c <= e /\ (\A f \in F : c < f) /\ (F = {} => c = e)
  <2>1. CASE F = {}
    BY <1>1, <2>1 DEF Capped
  <2>2. CASE F # {}
    <3>1. Min(F) \in F /\ \A f \in F : Min(F) <= f
      BY <2>2, EventsFinite, Extremes
    <3>10. \A f \in Events : f \in Nat /\ f >= 1
      BY <1>1
    <3>11. F \subseteq Events
      OBVIOUS
    <3>2. Min(F) \in Nat /\ Min(F) >= 1 /\ \A f \in F : f \in Nat
      BY <3>1, <3>10, <3>11
    <3>3. c = Min({e, Min(F) - 1})
      BY <2>2 DEF Capped
    <3>4. c = IF e <= Min(F) - 1 THEN e ELSE Min(F) - 1
      BY <3>2, <3>3, <1>1, MinOfTwo
    <3>5. c \in Nat /\ c <= e /\ c < Min(F)
      BY <3>2, <3>4, <1>1
    <3>6. \A f \in F : c < f
      BY <3>1, <3>2, <3>5
    <3>7. QED
      BY <2>2, <3>5, <3>6
  <2>3. QED
    BY <2>1, <2>2
<1>3. Max({m, c}) = IF m <= c THEN c ELSE m
  BY <1>1, <1>2, MaxOfTwo
<1> HIDE DEF c
<1>4. c \in Events \cup {0}
  BY <1>1, <1>2
<1>5. /\ Max({m, c}) \in Events \cup {0} /\ m <= Max({m, c})
      /\ Max({m, c}) # m => Max({m, c}) = c
      /\ c <= Max({m, c})
  BY <1>1, <1>2, <1>3, <1>4
<1>6. QED
  BY <1>2, <1>5 DEF c

(* What one call to the graph does to it. *)
LEMMA FoldOfOne ==
  ASSUME NEW e \in Events, Fold(<<e>>)
  PROVE  landed' = landed \cup {e} /\ newest' = IF e \in Additions THEN newest ELSE e
<1>1. DOMAIN <<e>> = {1} /\ <<e>>[1] = e /\ ToSet(<<e>>) = {e}
  BY DEF ToSet
<1>2. Max({1}) = 1
  <2>1. IsFiniteSet({1})
    BY FS_Singleton
  <2>2. Max({1}) \in {1}
    <3>1. {1} \in SUBSET Int /\ {1} # {}
      OBVIOUS
    <3>2. QED
      BY <2>1, <3>1, Extremes
  <2>3. QED
    BY <2>2
<1>3. CASE e \in Additions
  <2>1. {i \in DOMAIN <<e>> : <<e>>[i] \notin Additions} = {}
    BY <1>1, <1>3
  <2>2. QED
    BY <1>1, <1>3, <2>1 DEF Fold
<1>4. CASE e \notin Additions
  <2>1. {i \in DOMAIN <<e>> : <<e>>[i] \notin Additions} = {1}
    BY <1>1, <1>4
  <2>2. QED
    BY <1>1, <1>2, <1>4, <2>1 DEF Fold
<1>5. QED
  BY <1>3, <1>4

LEMMA FoldOfAdditions ==
  ASSUME NEW s \in Seq(Events), \A d \in ToSet(s) : d \in Additions, Fold(s)
  PROVE  landed' = landed \cup ToSet(s) /\ newest' = newest
<1>1. {i \in DOMAIN s : s[i] \notin Additions} = {}
  BY DEF ToSet
<1>2. QED
  BY <1>1 DEF Fold

SpentOK == spent \in [DOMAIN Limit -> Nat] /\ \A what \in DOMAIN Limit : spent[what] <= Limit[what]

LEMMA Limits ==
  /\ DOMAIN Limit = {"failures", "repeats", "misses", "rebuilds", "crashes"}
  /\ \A what \in DOMAIN Limit : Limit[what] \in Nat
<1>1. {Overtaking, MaxFailures, MaxRepeats, MaxMisses, MaxRebuilds, MaxCrashes} \subseteq Nat
  BY BoundsAssumption
<1>2. QED
  BY <1>1 DEF Limit

LEMMA Spending ==
  ASSUME SpentOK, NEW what \in DOMAIN Limit, Spend(what)
  PROVE  SpentOK' /\ spent' # spent
<1>1. Limit[what] \in Nat /\ spent[what] \in Nat /\ spent[what] < Limit[what]
  BY Limits DEF SpentOK, Spend
<1>2. spent' = [spent EXCEPT ![what] = spent[what] + 1]
  BY DEF Spend
<1>3. spent' \in [DOMAIN Limit -> Nat] /\ spent'[what] = spent[what] + 1
  BY <1>1, <1>2 DEF SpentOK
<1>4. \A w \in DOMAIN Limit : spent'[w] <= Limit[w]
  <2>1. spent'[what] <= Limit[what]
    BY <1>1, <1>3
  <2>2. \A w \in DOMAIN Limit \ {what} : spent'[w] = spent[w]
    BY <1>2 DEF SpentOK
  <2>3. QED
    BY <2>1, <2>2 DEF SpentOK
<1>5. spent'[what] # spent[what]
  BY <1>1, <1>3
<1>6. QED
  BY <1>3, <1>4, <1>5 DEF SpentOK


-------------------------------------------------------------------------------
(* What is waiting or being applied has been received; what a catch-up or a     *)
(* rebuild read was in the log; a weaver that is down has nothing in memory.    *)
ToDo == ToSet(run.todo)
Waiting == ToSet(lane)

Received ==
  /\ Waiting \cup ToDo \subseteq seen
  /\ run # NoRun => run.top \in seen /\ run.todo # <<>>
  /\ \A d, e \in ToDo : SameType(d, e)

Read ==
  /\ catchup.log \subseteq stored /\ rebuild.log \subseteq stored
  /\ ToSet(rebuild.todo) \subseteq rebuild.log
  /\ rebuild.at = "apply" => rebuild.todo # <<>>

DownIsEmpty ==
  ~up => /\ lane = <<>> /\ run = NoRun /\ mark = 0 /\ failed = {} /\ seen = {}
         /\ rebuild = NoRebuild /\ catchup = NoCatchUp

Queues == TypeOK /\ Received /\ Read /\ DownIsEmpty

LEMMA NothingToDo == ToSet(NoRun.todo) = {} /\ ToSet(<<>>) = {} /\ NoRun.todo = <<>> /\ NoRun.top = 0
  BY DEF NoRun, ToSet

LEMMA InSeq ==
  ASSUME NEW T, NEW s \in Seq(T)
  PROVE  ToSet(s) \subseteq T /\ \A i \in DOMAIN s : s[i] \in ToSet(s) /\ s[i] \in T
  BY DEF ToSet

RebuildStates == [at : {"idle", "delete", "fetch", "apply"}, todo : Seq(Events),
                  log : SUBSET Events, clean : BOOLEAN]

(* No rebuild, and one that has been asked for. *)
LEMMA FreshRebuild ==
  /\ NoRebuild.at = "idle" /\ NoRebuild.todo = <<>> /\ NoRebuild.log = {} /\ ToSet(NoRebuild.todo) = {}
  /\ NoRebuild \in RebuildStates
  /\ \A new : new = [NoRebuild EXCEPT !.at = "delete"] =>
       new.at = "delete" /\ new.todo = <<>> /\ new.log = {} /\ ToSet(new.todo) = {} /\ new \in RebuildStates
<1>1. NoRebuild.at = "idle"
  BY DEF NoRebuild
<1>2. NoRebuild.todo = <<>>
  BY DEF NoRebuild
<1>3. NoRebuild.log = {}
  BY DEF NoRebuild
<1>4. NoRebuild \in RebuildStates
  BY DEF NoRebuild, RebuildStates
<1>5. ToSet(<<>>) = {}
  BY NothingToDo
<1>6. ASSUME NEW new, new = [NoRebuild EXCEPT !.at = "delete"]
      PROVE  new.at = "delete" /\ new.todo = NoRebuild.todo /\ new.log = NoRebuild.log /\ new \in RebuildStates
  BY <1>4, <1>6 DEF RebuildStates
<1>7. QED
  BY <1>1, <1>2, <1>3, <1>4, <1>5, <1>6

LEMMA QueuesInit == Init => Queues
<1> SUFFICES ASSUME Init PROVE Queues
  OBVIOUS
<1>1. /\ lane = <<>> /\ run = NoRun /\ rebuild = NoRebuild /\ catchup = NoCatchUp
      /\ ToSet(lane) = {} /\ ToSet(run.todo) = {} /\ ToSet(rebuild.todo) = {}
  BY NothingToDo DEF Init, NoRebuild, NoRun, ToSet
<1>2. spent \in [DOMAIN Limit -> Nat] /\ \A what \in DOMAIN Limit : spent[what] <= Limit[what]
  BY Limits DEF Init
<1>3. /\ NoRun \in [todo : Seq(Events), top : Events \cup {0}, alone : BOOLEAN]
      /\ NoRebuild \in [at : {"idle", "delete", "fetch", "apply"}, todo : Seq(Events),
                        log : SUBSET Events, clean : BOOLEAN]
      /\ NoCatchUp \in [at : {"no", "load", "fetch", "push", "rebuild", "drain", "done"},
                        log : SUBSET Events]
      /\ <<>> \in Seq(Events)
  BY DEF NoRun, NoRebuild, NoCatchUp
<1>4. TypeOK
  BY <1>1, <1>2, <1>3 DEF Init, TypeOK
<1>5. rebuild.log = {} /\ catchup.log = {} /\ rebuild.at = "idle"
  BY <1>1 DEF NoRebuild, NoCatchUp
<1>6. QED
  BY <1>1, <1>4, <1>5 DEF Init, Queues, Received, Read, DownIsEmpty, ToDo, Waiting

(* What starting a run takes from the lane. *)
LEMMA RunTaken ==
  ASSUME Queues, NEW n \in 1 .. Len(lane), NEW alone \in BOOLEAN,
         lane' = SubSeq(lane, n + 1, Len(lane)),
         NEW fresh, fresh = Fresh(SubSeq(lane, 1, n)),
         run' = IF fresh = <<>> THEN NoRun
                ELSE [todo |-> fresh, top |-> Max(ToSet(fresh)), alone |-> alone]
  PROVE  /\ fresh \in Seq(Events) /\ lane' \in Seq(Events)
         /\ Waiting' \subseteq Waiting /\ ToDo' \subseteq Waiting /\ ToDo' = ToSet(fresh)
         /\ \A d \in ToDo' : d > mark /\ \E i \in 1 .. n : d = lane[i]
         /\ \A i \in 1 .. n : lane[i] \in Waiting /\ (lane[i] > mark => lane[i] \in ToDo')
         /\ Waiting \subseteq {lane[i] : i \in 1 .. n} \cup Waiting'
         /\ DOMAIN lane' = 1 .. (Len(lane) - n)
         /\ \A i \in DOMAIN lane' : i + n \in DOMAIN lane /\ lane'[i] = lane[i + n]
         /\ fresh # <<>> =>
              run'.top \in ToDo' /\ (\A d \in ToDo' : d <= run'.top) /\ run' # NoRun
         /\ run' \in [todo : Seq(Events), top : Events \cup {0}, alone : BOOLEAN]
         /\ run' # NoRun => fresh # <<>> /\ run'.todo # <<>> /\ run'.top \in ToDo'
<1> DEFINE front == SubSeq(lane, 1, n)
           kept == {i \in DOMAIN front : front[i] > mark}
<1>1. lane \in Seq(Events)
  BY DEF Queues, TypeOK
<1>2. /\ front \in Seq(Events) /\ SubSeq(lane, n + 1, Len(lane)) \in Seq(Events)
      /\ DOMAIN front = 1 .. n
      /\ \A i \in 1 .. n : i \in DOMAIN lane /\ front[i] = lane[i]
      /\ DOMAIN SubSeq(lane, n + 1, Len(lane)) = 1 .. (Len(lane) - n)
      /\ \A i \in 1 .. (Len(lane) - n) : i + n \in DOMAIN lane /\ SubSeq(lane, n + 1, Len(lane))[i] = lane[i + n]
  BY <1>1, CutAt
<1>3. fresh = Those(front, kept) /\ kept \in SUBSET DOMAIN front
  BY DEF Fresh
<1> HIDE DEF front, kept
<1>4. /\ fresh \in Seq(Events)
      /\ \A k \in DOMAIN fresh : \E i \in kept : fresh[k] = front[i]
      /\ \A i \in kept : \E k \in DOMAIN fresh : fresh[k] = front[i]
      /\ fresh = <<>> <=> kept = {}
  BY <1>2, <1>3, ThoseKept
<1>5. \A i \in kept : i \in 1 .. n /\ lane[i] > mark /\ lane[i] = front[i]
  BY <1>2 DEF kept
<1>6. \A i \in 1 .. n : lane[i] > mark => i \in kept
  BY <1>2 DEF kept
<1>7. ASSUME NEW d \in ToSet(fresh) PROVE \E i \in kept : d = lane[i]
  <2>1. PICK k \in DOMAIN fresh : d = fresh[k]
    BY DEF ToSet
  <2>2. PICK i \in kept : fresh[k] = front[i]
    BY <1>4, <2>1
  <2>3. QED
    BY <2>1, <2>2, <1>5
<1>8. \A i \in kept : lane[i] \in ToSet(fresh)
  BY <1>4, <1>5 DEF ToSet
<1>9. ToDo' = ToSet(fresh)
  <2>1. CASE fresh = <<>>
    BY <2>1, NothingToDo DEF ToDo
  <2>2. CASE fresh # <<>>
    BY <2>2 DEF ToDo
  <2>3. QED
    BY <2>1, <2>2
<1>10. \A i \in 1 .. n : lane[i] \in Waiting
  BY <1>2 DEF Waiting, ToSet
<1>11. /\ DOMAIN lane' = 1 .. (Len(lane) - n) /\ lane' \in Seq(Events)
       /\ \A i \in DOMAIN lane' : i + n \in DOMAIN lane /\ lane'[i] = lane[i + n]
  BY <1>2
<1>12. Waiting' \subseteq Waiting
  BY <1>11 DEF Waiting, ToSet
<1>13. Waiting \subseteq {lane[i] : i \in 1 .. n} \cup Waiting'
  <2>1. Len(lane) \in Nat /\ DOMAIN lane = 1 .. Len(lane) /\ n \in Nat
    BY <1>1
  <2>2. ASSUME NEW i \in DOMAIN lane, i \notin 1 .. n PROVE lane[i] \in Waiting'
    <3>1. i - n \in 1 .. (Len(lane) - n) /\ (i - n) + n = i
      BY <2>1, <2>2
    <3>2. lane'[i - n] = lane[i]
      BY <3>1, <1>11
    <3>3. QED
      BY <3>1, <3>2, <1>11 DEF Waiting, ToSet
  <2>3. QED
    BY <2>2 DEF Waiting, ToSet
<1>14. ASSUME fresh # <<>>
       PROVE  /\ run'.top \in ToDo' /\ (\A d \in ToDo' : d <= run'.top) /\ run' # NoRun
              /\ run' \in [todo : Seq(Events), top : Events \cup {0}, alone : BOOLEAN]
              /\ run'.todo # <<>>
  <2>1. run' = [todo |-> fresh, top |-> Max(ToSet(fresh)), alone |-> alone]
    BY <1>14
  <2>2. ToSet(fresh) \subseteq Events /\ ToSet(fresh) # {}
    <3>1. ToSet(fresh) \subseteq Events
      BY <1>4, InSeq
    <3>2. kept # {}
      BY <1>4, <1>14
    <3>3. QED
      BY <3>1, <3>2, <1>8
  <2>3. Max(ToSet(fresh)) \in ToSet(fresh) /\ \A d \in ToSet(fresh) : d <= Max(ToSet(fresh))
    BY <2>2, TopOf
  <2>4. run'.todo = fresh /\ run'.top = Max(ToSet(fresh)) /\ run'.todo # NoRun.todo
    BY <2>1, <1>14, NothingToDo
  <2>5. run' \in [todo : Seq(Events), top : Events \cup {0}, alone : BOOLEAN]
    BY <2>1, <2>2, <2>3, <1>4
  <2>6. QED
    BY <2>3, <2>4, <2>5, <1>9, <1>14
<1>15. ASSUME fresh = <<>>
       PROVE  run' = NoRun /\ run' \in [todo : Seq(Events), top : Events \cup {0}, alone : BOOLEAN]
  BY <1>15 DEF NoRun
<1>16. \A d \in ToDo' : d \in Waiting /\ d > mark /\ \E i \in 1 .. n : d = lane[i]
  BY <1>7, <1>9, <1>5, <1>10
<1>17. \A i \in 1 .. n : lane[i] > mark => lane[i] \in ToDo'
  BY <1>6, <1>8, <1>9
<1>18. QED
  BY <1>4, <1>9, <1>10, <1>11, <1>12, <1>13, <1>14, <1>15, <1>16, <1>17


(* What is received joins the lane. *)
LEMMA Joined ==
  ASSUME Queues, NEW s \in Seq(Events), NEW S, ToSet(s) \subseteq S, Receive(s, S)
  PROVE  /\ lane' \in Seq(Events) /\ Waiting' = Waiting \cup ToSet(s) /\ seen' = seen \cup S
         /\ DOMAIN lane' = 1 .. (Len(lane) + Len(s)) /\ Len(lane) \in Nat /\ Len(s) \in Nat
         /\ DOMAIN lane = 1 .. Len(lane) /\ DOMAIN s = 1 .. Len(s)
         /\ \A i \in DOMAIN lane : lane'[i] = lane[i] /\ i \in DOMAIN lane'
         /\ \A i \in DOMAIN s : lane'[Len(lane) + i] = s[i] /\ Len(lane) + i \in DOMAIN lane'
         /\ s = <<>> => lane' = lane
         /\ Waiting' \subseteq seen' \cup Waiting
<1>1. lane \in Seq(Events) /\ lane' = lane \o s /\ seen' = seen \cup S
  BY DEF Queues, TypeOK, Receive
<1>2. /\ lane \o s \in Seq(Events)
      /\ DOMAIN (lane \o s) = 1 .. (Len(lane) + Len(s)) /\ Len(lane) \in Nat /\ Len(s) \in Nat
      /\ \A i \in 1 .. Len(lane) : (lane \o s)[i] = lane[i]
      /\ \A i \in 1 .. Len(s) : (lane \o s)[Len(lane) + i] = s[i]
      /\ ToSet(lane \o s) = ToSet(lane) \cup ToSet(s)
      /\ s = <<>> => lane \o s = lane
  BY <1>1, JoinOf
<1>3. DOMAIN lane = 1 .. Len(lane) /\ DOMAIN s = 1 .. Len(s)
  BY <1>1
<1>8. Len(lane) \in Nat /\ Len(s) \in Nat
  BY <1>2
<1>4. \A i \in 1 .. Len(lane) : i \in 1 .. (Len(lane) + Len(s))
  BY <1>8
<1>5. \A i \in 1 .. Len(s) : Len(lane) + i \in 1 .. (Len(lane) + Len(s))
  BY <1>8
<1>6. Waiting' = ToSet(lane')
  BY DEF Waiting
<1>7. QED
  BY <1>1, <1>2, <1>3, <1>4, <1>5, <1>6 DEF Waiting

LEMMA Heard ==
  ASSUME Queues, NEW s \in Seq(Events), NEW S \in SUBSET stored, ToSet(s) \subseteq S, Receive(s, S),
         UNCHANGED <<run, stored>>
  PROVE  /\ lane' \in Seq(Events) /\ seen' \subseteq stored /\ doubt' \in BOOLEAN /\ crossed' \in BOOLEAN
         /\ Received'
<1>1. /\ lane' \in Seq(Events) /\ Waiting' = Waiting \cup ToSet(s) /\ seen' = seen \cup S
  BY Joined
<1>2. doubt' \in BOOLEAN /\ crossed' \in BOOLEAN
  BY DEF Queues, TypeOK, Receive
<1>3. ToDo' = ToDo /\ run' = run
  BY DEF ToDo
<1>4. seen' \subseteq stored
  BY <1>1 DEF Queues, TypeOK
<1>5. Received'
  BY <1>1, <1>3 DEF Queues, Received
<1>6. QED
  BY <1>1, <1>2, <1>4, <1>5

LEMMA OneHeard ==
  ASSUME NEW e \in Events PROVE <<e>> \in Seq(Events) /\ ToSet(<<e>>) = {e} /\ Len(<<e>>) = 1 /\ <<e>>[1] = e /\ <<e>> # <<>>
  BY DEF ToSet

(* A set of events in order. *)
LEMMA AscendingIs ==
  ASSUME NEW S \in SUBSET Events
  PROVE  /\ Ascending(S) \in Seq(Events) /\ ToSet(Ascending(S)) = S
         /\ DOMAIN Ascending(S) = 1 .. Len(Ascending(S))
         /\ \A i, j \in DOMAIN Ascending(S) : i < j => Ascending(S)[i] < Ascending(S)[j]
         /\ Ascending(S) = <<>> <=> S = {}
<1>1. S \in SUBSET Int /\ IsFiniteSet(S)
  BY EventsFinite
<1>2. /\ Ascending(S) \in [1 .. Cardinality(S) -> S]
      /\ \A i, j \in 1 .. Cardinality(S) : i < j => Ascending(S)[i] < Ascending(S)[j]
      /\ \A x \in S : \E k \in 1 .. Cardinality(S) : Ascending(S)[k] = x
  BY <1>1, AscendingLists
<1>3. /\ Ascending(S) \in Seq(S) /\ Len(Ascending(S)) = Cardinality(S)
      /\ DOMAIN Ascending(S) = 1 .. Cardinality(S)
      /\ Ascending(S) = <<>> <=> S = {}
  BY <1>1, AscendingSeq
<1>4. Ascending(S) \in Seq(Events)
  BY <1>2, <1>3
<1>5. ToSet(Ascending(S)) = S
  BY <1>2, <1>3 DEF ToSet
<1>6. QED
  BY <1>2, <1>3, <1>4, <1>5

(* The events above the mark in the log that was read, in order. *)
LEMMA GapPushed ==
  ASSUME Queues
  PROVE  /\ Gap \subseteq Events /\ Gap \subseteq stored /\ Gap \in SUBSET Int /\ IsFiniteSet(Gap)
         /\ Ascending(Gap) \in Seq(Events) /\ ToSet(Ascending(Gap)) = Gap
         /\ DOMAIN Ascending(Gap) = 1 .. Len(Ascending(Gap))
         /\ \A i, j \in DOMAIN Ascending(Gap) : i < j => Ascending(Gap)[i] < Ascending(Gap)[j]
         /\ Ascending(Gap) = <<>> <=> Gap = {}
<1>1. Gap \subseteq Events /\ Gap \subseteq stored
  BY DEF Queues, TypeOK, Read, Gap
<1>2. Gap \in SUBSET Int /\ IsFiniteSet(Gap)
  BY <1>1, EventsFinite
<1>3. QED
  BY <1>1, <1>2, AscendingIs


(* What one step does to a graph in which e is applied, or not. *)
LEMMA OneApplied ==
  ASSUME Queues, NEW e \in stored, Outcome(e)
  PROVE  /\ landed' \subseteq stored /\ landed \subseteq landed'
         /\ newest' \in Events \cup {0} /\ failed' \subseteq stored /\ failed \ {e} \subseteq failed'
         /\ failed' \subseteq failed \cup {e}
         /\ SpentOK'
         /\ landed' = landed \/ landed' = landed \cup {e}
         /\ \/ newest' = newest /\ (landed' = landed \/ e \in Additions)
            \/ newest' = e /\ e \notin Additions /\ landed' = landed \cup {e}
         /\ \/ e \notin failed' /\ landed' = landed \cup {e}
               /\ newest' = IF e \in Additions THEN newest ELSE e
            \/ spent' # spent
            \/ e \notin failed' /\ Missing(e) /\ landed' = landed
<1>1. e \in Events /\ landed \subseteq stored /\ failed \subseteq stored /\ newest \in Events \cup {0} /\ SpentOK
  BY DEF Queues, TypeOK, SpentOK
<1>2. CASE Applies(e)
  <2>1. /\ landed' = landed \cup {e} /\ newest' = IF e \in Additions THEN newest ELSE e
        /\ failed' = failed \ {e} /\ spent' = spent
    BY <1>1, <1>2, FoldOfOne DEF Applies
  <2>2. SpentOK'
    BY <1>1, <2>1 DEF SpentOK
  <2>3. QED
    BY <1>1, <2>1, <2>2
<1>3. CASE Throws(e)
  <2>1. landed' = landed /\ newest' = newest /\ failed' = failed \cup {e} /\ Spend("failures")
    BY <1>3 DEF Throws, graphVars
  <2>2. SpentOK' /\ spent' # spent
    BY <1>1, <2>1, Spending, Limits
  <2>3. QED
    BY <1>1, <2>1, <2>2
<1>4. CASE Swallows(e)
  <2>1. /\ landed' = landed /\ newest' = newest /\ failed' = failed \ {e} /\ Spend("failures")
        /\ e \in Bodies
    BY <1>4 DEF Swallows, graphVars
  <2>2. SpentOK' /\ spent' # spent
    BY <1>1, <2>1, Spending, Limits
  <2>3. QED
    BY <1>1, <2>1, <2>2
<1>5. CASE Skips(e)
  <2>1. landed' = landed /\ newest' = newest /\ failed' = failed \ {e} /\ spent' = spent /\ Missing(e)
    BY <1>5 DEF Skips, graphVars
  <2>2. SpentOK'
    BY <1>1, <2>1 DEF SpentOK
  <2>3. QED
    BY <1>1, <2>1, <2>2
<1>6. QED
  BY <1>2, <1>3, <1>4, <1>5 DEF Outcome

(* What noting a run or a rebuild does. *)
LEMMA Noted ==
  ASSUME TypeOK, NEW e \in Events \cup {0}, NEW F \in SUBSET Events,
         NoteApplied(e, F)
  PROVE  /\ mark' \in Events \cup {0} /\ told' \in Events \cup {0}
         /\ mark <= mark' /\ told' \in {told, mark'}
         /\ mark' # mark => mark' <= e /\ \A f \in F : mark' < f
         /\ F = {} => e <= mark'
<1>1. mark \in Events \cup {0} /\ told \in Events \cup {0}
  BY DEF TypeOK
<1>2. mark' = Max({mark, Capped(e, F)})
  BY DEF NoteApplied
<1>3. /\ mark' \in Events \cup {0} /\ mark <= mark'
      /\ mark' # mark => mark' <= e /\ \A f \in F : mark' < f
      /\ F = {} => e <= mark'
  BY <1>1, <1>2, Raised
<1>4. told' \in {told, mark'}
  <2>1. told' = IF mark' > mark THEN Max({told, mark'}) ELSE told
    BY DEF NoteApplied
  <2>2. Max({told, mark'}) = IF told <= mark' THEN mark' ELSE told
    BY <1>1, <1>3, MaxOfTwo, EventsFinite
  <2>3. QED
    BY <2>1, <2>2
<1>5. QED
  BY <1>1, <1>3, <1>4

(* A run is done with its first event. *)
LEMMA RunSteps ==
  ASSUME Queues, NEW e, e = Head(run.todo), run # NoRun,
         run' = IF Tail(run.todo) = <<>> THEN NoRun ELSE [run EXCEPT !.todo = Tail(@)]
  PROVE  /\ e \in ToDo /\ e \in stored /\ ToDo = {e} \cup ToDo' /\ run.top \in seen
         /\ run' \in [todo : Seq(Events), top : Events \cup {0}, alone : BOOLEAN]
         /\ run' # NoRun => run'.top = run.top /\ run'.todo # <<>>
         /\ Tail(run.todo) = <<>> => run' = NoRun /\ ToDo = {e} /\ ToDo' = {}
         /\ run.top \in stored
         /\ run' # NoRun => Tail(run.todo) # <<>>
<1>1. run.todo \in Seq(Events) /\ run.todo # <<>> /\ run.top \in seen /\ seen \subseteq stored
      /\ run \in [todo : Seq(Events), top : Events \cup {0}, alone : BOOLEAN]
  BY DEF Queues, TypeOK, Received
<1>2. /\ e \in ToDo /\ Tail(run.todo) \in Seq(Events)
      /\ ToDo = {e} \cup ToSet(Tail(run.todo))
      /\ Tail(run.todo) = <<>> => ToDo = {e}
  BY <1>1, FrontOf DEF ToDo
<1>3. e \in stored
  BY <1>1, <1>2 DEF Queues, Received
<1>4. CASE Tail(run.todo) = <<>>
  <2>1. run' = NoRun /\ ToDo' = {}
    BY <1>4, NothingToDo DEF ToDo
  <2>2. NoRun \in [todo : Seq(Events), top : Events \cup {0}, alone : BOOLEAN]
    BY DEF NoRun
  <2>3. QED
    BY <1>1, <1>2, <1>3, <1>4, <2>1, <2>2
<1>5. CASE Tail(run.todo) # <<>>
  <2>1. run' = [run EXCEPT !.todo = Tail(run.todo)]
    BY <1>5
  <2>2. run'.todo = Tail(run.todo) /\ run'.top = run.top
        /\ run' \in [todo : Seq(Events), top : Events \cup {0}, alone : BOOLEAN]
    BY <1>1, <1>2, <2>1
  <2>3. ToDo' = ToSet(Tail(run.todo))
    BY <2>2 DEF ToDo
  <2>4. QED
    BY <1>1, <1>2, <1>3, <1>5, <2>2, <2>3
<1>6. QED
  BY <1>4, <1>5

(* A rebuild is done with its first event. *)
LEMMA RebuildSteps ==
  ASSUME Queues, rebuild.at = "apply", NEW e, e = Head(rebuild.todo), NEW clean \in BOOLEAN,
         rebuild' = IF Tail(rebuild.todo) = <<>> THEN NoRebuild
                    ELSE [rebuild EXCEPT !.todo = Tail(@), !.clean = clean]
  PROVE  /\ e \in stored /\ e \in rebuild.log
         /\ rebuild' \in [at : {"idle", "delete", "fetch", "apply"}, todo : Seq(Events),
                          log : SUBSET Events, clean : BOOLEAN]
         /\ rebuild'.log \subseteq rebuild.log /\ ToSet(rebuild'.todo) \subseteq rebuild'.log
         /\ rebuild'.at = "apply" =>
              /\ rebuild'.todo = Tail(rebuild.todo) /\ rebuild'.todo # <<>>
              /\ rebuild'.log = rebuild.log /\ rebuild'.clean = clean
              /\ Tail(rebuild.todo) # <<>>
         /\ rebuild'.at \in {"idle", "apply"}
         /\ ToSet(rebuild.todo) = {e} \cup ToSet(Tail(rebuild.todo))
         /\ Tail(rebuild.todo) = <<>> => ToSet(rebuild.todo) = {e} /\ rebuild' = NoRebuild
         /\ Tail(rebuild.todo) # <<>> => rebuild'.at = "apply"
<1>1. /\ rebuild \in [at : {"idle", "delete", "fetch", "apply"}, todo : Seq(Events),
                      log : SUBSET Events, clean : BOOLEAN]
      /\ rebuild.todo # <<>> /\ rebuild.todo \in Seq(Events)
      /\ ToSet(rebuild.todo) \subseteq rebuild.log /\ rebuild.log \subseteq stored
  BY DEF Queues, TypeOK, Read
<1>2. /\ e \in ToSet(rebuild.todo) /\ Tail(rebuild.todo) \in Seq(Events)
      /\ ToSet(rebuild.todo) = {e} \cup ToSet(Tail(rebuild.todo))
      /\ Tail(rebuild.todo) = <<>> => ToSet(rebuild.todo) = {e}
  BY <1>1, FrontOf
<1>3. e \in rebuild.log /\ e \in stored
  BY <1>1, <1>2
<1>4. CASE Tail(rebuild.todo) = <<>>
  <2>1. rebuild' = NoRebuild
    BY <1>4
  <2>2. rebuild'.at = "idle" /\ ToSet(rebuild'.todo) = {} /\ rebuild'.log = {}
    BY <2>1, FreshRebuild
  <2>3. NoRebuild \in [at : {"idle", "delete", "fetch", "apply"}, todo : Seq(Events),
                       log : SUBSET Events, clean : BOOLEAN]
    BY DEF NoRebuild
  <2>4. QED
    BY <1>2, <1>3, <1>4, <2>1, <2>2, <2>3
<1>5. CASE Tail(rebuild.todo) # <<>>
  <2>1. rebuild' = [rebuild EXCEPT !.todo = Tail(rebuild.todo), !.clean = clean]
    BY <1>5
  <2>2. /\ rebuild'.todo = Tail(rebuild.todo) /\ rebuild'.log = rebuild.log /\ rebuild'.clean = clean
        /\ rebuild'.at = "apply"
        /\ rebuild' \in [at : {"idle", "delete", "fetch", "apply"}, todo : Seq(Events),
                         log : SUBSET Events, clean : BOOLEAN]
    BY <1>1, <1>2, <2>1
  <2>3. QED
    BY <1>1, <1>2, <1>3, <1>5, <2>2
<1>6. QED
  BY <1>4, <1>5


(* The types, and what the queues hold, are kept by every step. *)
LEMMA QueuesStep ==
  ASSUME Queues, [Next]_vars
  PROVE  Queues'
<1> USE DEF Queues
<1>1. ASSUME NEW e \in Events, Store(e) PROVE Queues'
  <2>1. TypeOK'
    BY <1>1, SMTT(30) DEF Store, TypeOK, memoryVars, graphVars
  <2>2. QED
    BY <1>1, <2>1 DEF Store, memoryVars, graphVars, Received, Read, DownIsEmpty, Waiting, ToDo, SameType
<1>2. ASSUME NEW e \in Events, Announce(e) PROVE Queues'
  <2>1. e \in stored /\ announced' = announced \cup {e}
    BY <1>2 DEF Announce, Unannounced
  <2>2. UNCHANGED <<stored, up, run, mark, failed, checkpoint, told, landed, newest, catchup, rebuild, refolded>>
    BY <1>2 DEF Announce, graphVars
  <2>3. CASE up /\ Receive(<<e>>, {e}) /\ spent' = spent
    <3>1. /\ lane' \in Seq(Events) /\ seen' \subseteq stored /\ doubt' \in BOOLEAN /\ crossed' \in BOOLEAN
          /\ Received'
      BY <2>1, <2>2, <2>3, OneHeard, Heard
    <3>2. TypeOK'
      BY <2>1, <2>2, <2>3, <3>1, SMTT(30) DEF TypeOK
    <3>3. QED
      BY <2>2, <2>3, <3>1, <3>2 DEF Read, DownIsEmpty
  <2>4. CASE up /\ Spend("misses") /\ UNCHANGED <<lane, seen, doubt, crossed>>
    <3>1. SpentOK'
      BY <2>4, Spending, Limits DEF TypeOK, SpentOK
    <3>2. TypeOK'
      BY <2>1, <2>2, <2>4, <3>1, SMTT(30) DEF TypeOK, SpentOK
    <3>3. QED
      BY <2>2, <2>4, <3>2 DEF Received, Read, DownIsEmpty, Waiting, ToDo, SameType
  <2>5. CASE ~up /\ UNCHANGED <<lane, seen, doubt, crossed, spent>>
    <3>1. TypeOK'
      BY <2>1, <2>2, <2>5, SMTT(30) DEF TypeOK
    <3>2. QED
      BY <2>2, <2>5, <3>1 DEF Received, Read, DownIsEmpty, Waiting, ToDo, SameType
  <2>6. QED
    BY <1>2, <2>3, <2>4, <2>5 DEF Announce
<1>3. ASSUME NEW e \in Events, Repeat(e) PROVE Queues'
  <2>1. e \in stored /\ up /\ Receive(<<e>>, {e}) /\ Spend("repeats")
    BY <1>3 DEF Repeat, TypeOK
  <2>2. UNCHANGED <<stored, announced, up, run, mark, failed, checkpoint, told, landed, newest, catchup, rebuild, refolded>>
    BY <1>3 DEF Repeat, graphVars, logVars
  <2>3. /\ lane' \in Seq(Events) /\ seen' \subseteq stored /\ doubt' \in BOOLEAN /\ crossed' \in BOOLEAN
        /\ Received'
    BY <2>1, <2>2, OneHeard, Heard
  <2>4. SpentOK'
    BY <2>1, Spending, Limits DEF TypeOK, SpentOK
  <2>5. TypeOK'
    BY <2>1, <2>2, <2>3, <2>4, SMTT(30) DEF TypeOK, SpentOK
  <2>6. QED
    BY <2>1, <2>2, <2>3, <2>5 DEF Read, DownIsEmpty
<1>4. CASE StartRun
  <2>1. PICK n \in 1 .. Len(lane), alone \in BOOLEAN :
          LET fresh == Fresh(SubSeq(lane, 1, n))
          IN  /\ \A d, e \in ToSet(fresh) : SameType(d, e)
              /\ alone => n = 1
              /\ lane' = SubSeq(lane, n + 1, Len(lane))
              /\ run' = IF fresh = <<>> THEN NoRun
                        ELSE [todo |-> fresh, top |-> Max(ToSet(fresh)), alone |-> alone]
    BY <1>4 DEF StartRun
  <2>2. PICK fresh : fresh = Fresh(SubSeq(lane, 1, n))
    OBVIOUS
  <2>3. /\ fresh \in Seq(Events) /\ lane' \in Seq(Events)
        /\ Waiting' \subseteq Waiting /\ ToDo' \subseteq Waiting /\ ToDo' = ToSet(fresh)
        /\ run' \in [todo : Seq(Events), top : Events \cup {0}, alone : BOOLEAN]
        /\ run' # NoRun => fresh # <<>> /\ run'.todo # <<>> /\ run'.top \in ToDo'
    BY <2>1, <2>2, RunTaken
  <2>4. up /\ UNCHANGED <<logVars, up, mark, failed, checkpoint, told, graphVars, catchup, rebuild, historyVars>>
    BY <1>4 DEF StartRun
  <2>5. \A d, e \in ToDo' : SameType(d, e)
    <3>1. \A d, e \in ToSet(fresh) : SameType(d, e)
      BY <2>1, <2>2
    <3>2. QED
      BY <2>3, <3>1
  <2>6. TypeOK'
    BY <2>3, <2>4, SMTT(30) DEF TypeOK, logVars, graphVars, historyVars
  <2>7. Received'
    BY <2>3, <2>4, <2>5 DEF Received, historyVars
  <2>8. QED
    BY <2>4, <2>6, <2>7 DEF Read, DownIsEmpty, logVars
<1>5. CASE ApplyBatch
  <2>1. run # NoRun /\ up
    <3>1. run.todo # <<>>
      BY <1>5 DEF ApplyBatch, Batched
    <3>2. QED
      BY <3>1, NothingToDo DEF DownIsEmpty
  <2>2. ToDo \subseteq stored /\ run.top \in stored /\ run.todo \in Seq(Events)
    BY <2>1 DEF TypeOK, Received
  <2>3. \A d \in ToDo : d \in Additions
    <3>1. Head(run.todo) \in ToDo
      BY <2>1, <2>2, FrontOf DEF ToDo, Received
    <3>2. Head(run.todo) \in Additions
      BY <1>5 DEF ApplyBatch, Batched
    <3>3. QED
      BY <3>1, <3>2 DEF Received, SameType
  <2>4. landed' \subseteq stored /\ newest' \in Events \cup {0} /\ failed' \subseteq stored /\ SpentOK'
    <3>1. CASE Fold(run.todo) /\ failed' = failed \ ToSet(run.todo) /\ UNCHANGED spent
      BY <2>2, <2>3, <3>1, FoldOfAdditions DEF TypeOK, ToDo, SpentOK
    <3>2. CASE Spend("failures") /\ failed' = BatchFailed /\ UNCHANGED graphVars
      BY <2>2, <3>2, Spending, Limits DEF TypeOK, ToDo, SpentOK, BatchFailed, graphVars
    <3>3. QED
      BY <1>5, <3>1, <3>2 DEF ApplyBatch
  <2>5. mark' \in Events \cup {0} /\ told' \in Events \cup {0}
    <3>1. PICK F : F = failed'
      OBVIOUS
    <3>2. NoteApplied(run.top, F)
      BY <1>5, <3>1 DEF ApplyBatch, NoteApplied
    <3>3. F \in SUBSET Events /\ run.top \in Events \cup {0}
      BY <2>2, <2>4, <3>1 DEF TypeOK
    <3>4. QED
      BY <3>2, <3>3, Noted
  <2>6. /\ run' = NoRun
        /\ UNCHANGED <<logVars, up, lane, checkpoint, catchup, rebuild, seen, refolded, doubt, crossed>>
    BY <1>5 DEF ApplyBatch
  <2>7. ToDo' = {} /\ Waiting' = Waiting
    BY <2>6, NothingToDo DEF ToDo, Waiting
  <2>8. TypeOK'
    <3>1. NoRun \in [todo : Seq(Events), top : Events \cup {0}, alone : BOOLEAN]
      BY DEF NoRun
    <3>2. QED
      BY <2>4, <2>5, <2>6, <3>1 DEF TypeOK, SpentOK, logVars
  <2>9. QED
    BY <2>1, <2>6, <2>7, <2>8 DEF Received, Read, DownIsEmpty, logVars
<1>6. CASE ApplyNext
  <2>1. PICK e : e = Head(run.todo)
    OBVIOUS
  <2>2. /\ run # NoRun
        /\ Outcome(e)
        /\ run' = IF Tail(run.todo) = <<>> THEN NoRun ELSE [run EXCEPT !.todo = Tail(@)]
        /\ IF Tail(run.todo) = <<>> /\ ~(run.alone /\ e \in failed')
             THEN NoteApplied(run.top, failed') ELSE UNCHANGED <<mark, told>>
        /\ doubt' = (doubt \/ e \notin landed' \cup failed')
        /\ refolded' = IF newest' # e THEN refolded
                       ELSE IF mark < e /\ e < newest THEN Max({refolded, newest})
                       ELSE IF e >= refolded THEN 0 ELSE refolded
        /\ UNCHANGED <<logVars, up, lane, checkpoint, catchup, rebuild, seen, crossed>>
    BY <1>6, <2>1 DEF ApplyNext
  <2>3. /\ e \in ToDo /\ e \in stored /\ ToDo = {e} \cup ToDo' /\ run.top \in stored
        /\ run' \in [todo : Seq(Events), top : Events \cup {0}, alone : BOOLEAN]
        /\ run' # NoRun => run'.top = run.top /\ run'.todo # <<>>
    BY <2>1, <2>2, RunSteps
  <2>4. landed' \subseteq stored /\ newest' \in Events \cup {0} /\ failed' \subseteq stored /\ SpentOK'
    BY <2>2, <2>3, OneApplied
  <2>5. mark' \in Events \cup {0} /\ told' \in Events \cup {0}
    <3>1. CASE NoteApplied(run.top, failed')
      <4>1. PICK F : F = failed'
        OBVIOUS
      <4>2. NoteApplied(run.top, F)
        BY <3>1, <4>1 DEF NoteApplied
      <4>3. F \in SUBSET Events /\ run.top \in Events \cup {0}
        BY <2>3, <2>4, <4>1 DEF TypeOK
      <4>4. QED
        BY <4>2, <4>3, Noted
    <3>2. CASE UNCHANGED <<mark, told>>
      BY <3>2 DEF TypeOK
    <3>3. QED
      BY <2>2, <3>1, <3>2
  <2>6. refolded' \in Events \cup {0} /\ doubt' \in BOOLEAN
    <3>0. Events \cup {0} \subseteq Nat /\ {refolded, newest} \subseteq Events \cup {0}
      BY EventsFinite DEF TypeOK
    <3>1. refolded \in Nat /\ newest \in Nat
      BY <3>0
    <3>2. Max({refolded, newest}) \in {refolded, newest}
      BY <3>1, MaxOfTwo
    <3>3. Max({refolded, newest}) \in Events \cup {0}
      BY <3>2 DEF TypeOK
    <3>4. QED
      BY <2>2, <3>3 DEF TypeOK
  <2>7. TypeOK'
    BY <2>2, <2>3, <2>4, <2>5, <2>6, SMTT(30) DEF TypeOK, SpentOK, logVars
  <2>8. Received'
    BY <2>2, <2>3 DEF Received, Waiting, SameType
  <2>9. up
    BY <2>2 DEF DownIsEmpty
  <2>10. QED
    BY <2>2, <2>7, <2>8, <2>9 DEF Read, DownIsEmpty, logVars
<1>7. CASE Flush
  <2>1. TypeOK'
    BY <1>7, SMTT(30) DEF Flush, TypeOK, logVars, memoryVars, graphVars, historyVars
  <2>2. QED
    BY <1>7, <2>1 DEF Flush, logVars, memoryVars, graphVars, historyVars, Received, Read, DownIsEmpty, Waiting, ToDo, SameType
<1>8. CASE CatchUpLoad
  <2>1. catchup' = [catchup EXCEPT !.at = "fetch"] /\ mark' = Max({mark, checkpoint}) /\ up
    BY <1>8 DEF CatchUpLoad, CatchUpStep, DownIsEmpty, NoCatchUp
  <2>2. mark' \in Events \cup {0}
    <3>0. Events \cup {0} \subseteq Nat /\ {mark, checkpoint} \subseteq Events \cup {0}
      BY EventsFinite DEF TypeOK
    <3>1. mark \in Nat /\ checkpoint \in Nat
      BY <3>0
    <3>2. mark' \in {mark, checkpoint}
      BY <2>1, <3>1, MaxOfTwo
    <3>3. QED
      BY <3>2 DEF TypeOK
  <2>3. TypeOK'
    BY <1>8, <2>1, <2>2, ZenonT(30) DEF CatchUpLoad, TypeOK, logVars, graphVars, historyVars
  <2>4. catchup'.log = catchup.log
    BY <2>1 DEF TypeOK
  <2>5. QED
    BY <1>8, <2>1, <2>3, <2>4 DEF CatchUpLoad, logVars, graphVars, historyVars, Received, Read, DownIsEmpty, Waiting, ToDo, SameType
<1>9. CASE CatchUpFetch
  <2>1. up
    BY <1>9 DEF CatchUpFetch, DownIsEmpty, NoCatchUp
  <2>2. catchup' = [at |-> "push", log |-> stored]
    BY <1>9 DEF CatchUpFetch
  <2>3. TypeOK'
    BY <1>9, <2>2, SMTT(30) DEF CatchUpFetch, TypeOK, logVars, memoryVars, graphVars, historyVars
  <2>4. QED
    BY <1>9, <2>1, <2>2, <2>3 DEF CatchUpFetch, logVars, memoryVars, graphVars, historyVars, Received, Read, DownIsEmpty, Waiting, ToDo, SameType
<1>10. CASE CatchUpPush
  <2>1. up /\ catchup' = [catchup EXCEPT !.at = "drain"] /\ Receive(Ascending(Gap), Gap)
    BY <1>10 DEF CatchUpPush, CatchUpStep, DownIsEmpty, NoCatchUp
  <2>2. UNCHANGED <<logVars, up, run, mark, failed, checkpoint, told, graphVars, rebuild, refolded, spent>>
    BY <1>10 DEF CatchUpPush
  <2>3. Gap \subseteq stored /\ Ascending(Gap) \in Seq(Events) /\ ToSet(Ascending(Gap)) = Gap
    BY GapPushed
  <2>4. /\ lane' \in Seq(Events) /\ seen' \subseteq stored /\ doubt' \in BOOLEAN /\ crossed' \in BOOLEAN
        /\ Received'
    <3>1. stored' = stored /\ run' = run
      BY <2>2 DEF logVars
    <3>2. PICK s, S : s = Ascending(Gap) /\ S = Gap
      OBVIOUS
    <3>3. Receive(s, S)
      BY <2>1, <3>2 DEF Receive
    <3>4. QED
      BY <2>3, <3>1, <3>2, <3>3, Heard
  <2>5. catchup'.log = catchup.log /\ catchup' \in [at : {"no", "load", "fetch", "push", "rebuild", "drain", "done"}, log : SUBSET Events]
    BY <2>1 DEF TypeOK
  <2>6. TypeOK'
    BY <2>2, <2>4, <2>5, SMTT(30) DEF TypeOK, logVars, graphVars
  <2>7. QED
    BY <2>1, <2>2, <2>4, <2>5, <2>6 DEF Read, DownIsEmpty, logVars
<1>11. CASE CatchUpAhead
  <2>1. up /\ catchup' = [catchup EXCEPT !.at = "rebuild"] /\ rebuild' = [NoRebuild EXCEPT !.at = "delete"]
    BY <1>11 DEF CatchUpAhead, CatchUpStep, DownIsEmpty, NoCatchUp
  <2>2. /\ rebuild'.log = {} /\ rebuild'.todo = <<>> /\ rebuild'.at = "delete"
        /\ rebuild' \in [at : {"idle", "delete", "fetch", "apply"}, todo : Seq(Events),
                         log : SUBSET Events, clean : BOOLEAN]
    BY <2>1, FreshRebuild DEF RebuildStates
  <2>3. catchup'.log = catchup.log /\ catchup' \in [at : {"no", "load", "fetch", "push", "rebuild", "drain", "done"}, log : SUBSET Events]
    BY <2>1 DEF TypeOK
  <2>4. TypeOK'
    BY <1>11, <2>2, <2>3, ZenonT(30) DEF CatchUpAhead, TypeOK, logVars, graphVars
  <2>5. ToSet(rebuild'.todo) = {}
    BY <2>2, NothingToDo
  <2>6. QED
    BY <1>11, <2>1, <2>2, <2>3, <2>4, <2>5 DEF CatchUpAhead, Received, Read, DownIsEmpty, Waiting, ToDo, SameType, logVars
<1>12. CASE CatchUpEnd
  <2>1. up /\ catchup' = [catchup EXCEPT !.at = "done"]
    BY <1>12 DEF CatchUpEnd, DownIsEmpty, NoCatchUp
  <2>2. catchup'.log = catchup.log /\ catchup' \in [at : {"no", "load", "fetch", "push", "rebuild", "drain", "done"}, log : SUBSET Events]
    BY <2>1 DEF TypeOK
  <2>3. TypeOK'
    BY <1>12, <2>2, ZenonT(30) DEF CatchUpEnd, TypeOK, logVars, memoryVars, graphVars, historyVars
  <2>4. QED
    BY <1>12, <2>1, <2>2, <2>3 DEF CatchUpEnd, logVars, memoryVars, historyVars, Received, Read, DownIsEmpty, Waiting, ToDo, SameType
<1>13. CASE RebuildCommand
  <2>1. up /\ rebuild' = [NoRebuild EXCEPT !.at = "delete"] /\ Spend("rebuilds")
    BY <1>13 DEF RebuildCommand
  <2>2. /\ rebuild'.log = {} /\ rebuild'.todo = <<>> /\ rebuild'.at = "delete"
        /\ rebuild' \in [at : {"idle", "delete", "fetch", "apply"}, todo : Seq(Events),
                         log : SUBSET Events, clean : BOOLEAN]
    BY <2>1, FreshRebuild DEF RebuildStates
  <2>3. SpentOK'
    BY <2>1, Spending, Limits DEF TypeOK, SpentOK
  <2>4. TypeOK'
    BY <1>13, <2>2, <2>3, ZenonT(30) DEF RebuildCommand, TypeOK, SpentOK, logVars, memoryVars, graphVars
  <2>5. ToSet(rebuild'.todo) = {}
    BY <2>2, NothingToDo
  <2>6. QED
    BY <1>13, <2>1, <2>2, <2>4, <2>5 DEF RebuildCommand, Received, Read, DownIsEmpty, Waiting, ToDo, SameType, logVars, memoryVars
<1>14. CASE RebuildDelete
  <2>1. /\ up /\ rebuild' = [rebuild EXCEPT !.at = "fetch"]
        /\ (landed' = {} /\ newest' = 0) \/ UNCHANGED graphVars
        /\ doubt' = TRUE /\ crossed' = (lane # <<>> \/ run # NoRun)
    BY <1>14 DEF RebuildDelete, DownIsEmpty, NoRebuild
  <2>2. /\ rebuild'.log = rebuild.log /\ rebuild'.todo = rebuild.todo /\ rebuild'.at = "fetch"
        /\ rebuild' \in [at : {"idle", "delete", "fetch", "apply"}, todo : Seq(Events),
                         log : SUBSET Events, clean : BOOLEAN]
    BY <2>1 DEF TypeOK
  <2>3. landed' \subseteq stored /\ newest' \in Events \cup {0} /\ doubt' \in BOOLEAN /\ crossed' \in BOOLEAN
    BY <2>1 DEF TypeOK, graphVars
  <2>4. TypeOK'
    BY <1>14, <2>2, <2>3, ZenonT(30) DEF RebuildDelete, TypeOK, logVars, memoryVars
  <2>5. QED
    BY <1>14, <2>1, <2>2, <2>4 DEF RebuildDelete, Received, Read, DownIsEmpty, Waiting, ToDo, SameType, logVars, memoryVars
<1>15. CASE RebuildFetch
  <2>1. /\ up
        /\ UNCHANGED <<logVars, up, memoryVars, checkpoint, told, graphVars, catchup, seen, refolded, doubt, crossed>>
    BY <1>15 DEF RebuildFetch, DownIsEmpty, NoRebuild
  <2>2. SpentOK'
    BY <1>15, Spending, Limits DEF RebuildFetch, TypeOK, SpentOK
  <2>3. /\ rebuild' \in [at : {"idle", "delete", "fetch", "apply"}, todo : Seq(Events),
                         log : SUBSET Events, clean : BOOLEAN]
        /\ rebuild'.log \subseteq stored /\ ToSet(rebuild'.todo) \subseteq rebuild'.log
        /\ rebuild'.at = "apply" => rebuild'.todo # <<>>
    <3>1. CASE stored # {} /\ rebuild' = [at |-> "apply", todo |-> Ascending(stored), log |-> stored, clean |-> TRUE]
      <4>1. stored \in SUBSET Events
        BY DEF TypeOK
      <4>2. /\ Ascending(stored) \in Seq(Events) /\ ToSet(Ascending(stored)) = stored
            /\ Ascending(stored) # <<>>
        BY <3>1, <4>1, AscendingIs
      <4>3. rebuild'.todo = Ascending(stored) /\ rebuild'.log = stored
        BY <3>1
      <4>4. rebuild' \in [at : {"idle", "delete", "fetch", "apply"}, todo : Seq(Events),
                         log : SUBSET Events, clean : BOOLEAN]
        BY <3>1, <4>1, <4>2
      <4>5. QED
        BY <4>2, <4>3, <4>4
    <3>2. CASE rebuild' = NoRebuild
      <4>1. rebuild'.at = "idle" /\ rebuild'.todo = <<>> /\ rebuild'.log = {}
        BY <3>2 DEF NoRebuild
      <4>2. ToSet(rebuild'.todo) = {}
        BY <4>1, NothingToDo
      <4>3. NoRebuild \in [at : {"idle", "delete", "fetch", "apply"}, todo : Seq(Events),
                         log : SUBSET Events, clean : BOOLEAN]
        BY DEF NoRebuild
      <4>4. QED
        BY <3>2, <4>1, <4>2, <4>3
    <3>3. QED
      BY <1>15, <3>1, <3>2 DEF RebuildFetch
  <2>4. TypeOK'
    BY <2>1, <2>2, <2>3, SMTT(30) DEF TypeOK, SpentOK, logVars, memoryVars, graphVars
  <2>5. QED
    BY <2>1, <2>3, <2>4 DEF Received, Read, DownIsEmpty, Waiting, ToDo, SameType, logVars, memoryVars
<1>16. CASE RebuildApply
  <2>1. PICK e, clean : e = Head(rebuild.todo) /\ clean = (rebuild.clean /\ e \notin failed')
    OBVIOUS
  <2>2. /\ rebuild.at = "apply"
        /\ Outcome(e)
        /\ rebuild' = IF Tail(rebuild.todo) = <<>> THEN NoRebuild
                      ELSE [rebuild EXCEPT !.todo = Tail(@), !.clean = clean]
        /\ IF Tail(rebuild.todo) = <<>> /\ clean THEN NoteApplied(Max(rebuild.log), failed') ELSE UNCHANGED <<mark, told>>
        /\ crossed' = (crossed \/ spent' # spent \/ Missing(e))
        /\ doubt' \in BOOLEAN
        /\ refolded' = refolded \/ refolded' = 0
        /\ UNCHANGED <<logVars, up, lane, run, checkpoint, catchup, seen>>
    BY <1>16, <2>1 DEF RebuildApply
  <2>3. clean \in BOOLEAN /\ up
    BY <2>1, <2>2 DEF TypeOK, DownIsEmpty, NoRebuild
  <2>4. /\ e \in stored /\ e \in rebuild.log
        /\ rebuild' \in [at : {"idle", "delete", "fetch", "apply"}, todo : Seq(Events),
                         log : SUBSET Events, clean : BOOLEAN]
        /\ rebuild'.log \subseteq rebuild.log /\ ToSet(rebuild'.todo) \subseteq rebuild'.log
        /\ rebuild'.at = "apply" => rebuild'.todo # <<>>
    BY <2>1, <2>2, <2>3, RebuildSteps
  <2>5. landed' \subseteq stored /\ newest' \in Events \cup {0} /\ failed' \subseteq stored /\ SpentOK'
    BY <2>2, <2>4, OneApplied
  <2>6. mark' \in Events \cup {0} /\ told' \in Events \cup {0}
    <3>1. CASE NoteApplied(Max(rebuild.log), failed')
      <4>1. PICK F, m : F = failed' /\ m = Max(rebuild.log)
        OBVIOUS
      <4>2. NoteApplied(m, F)
        BY <3>1, <4>1 DEF NoteApplied
      <4>3. F \in SUBSET Events
        BY <2>5, <4>1 DEF TypeOK
      <4>4. m \in Events
        BY <2>4, <4>1, TopOf DEF TypeOK
      <4>5. QED
        BY <4>2, <4>3, <4>4, Noted
    <3>2. CASE UNCHANGED <<mark, told>>
      BY <3>2 DEF TypeOK
    <3>3. QED
      BY <2>2, <3>1, <3>2
  <2>7. TypeOK'
    BY <2>2, <2>4, <2>5, <2>6, SMTT(30) DEF TypeOK, SpentOK, logVars
  <2>8. Received'
    BY <2>2 DEF Received, Waiting, ToDo, SameType
  <2>9. rebuild.log \subseteq stored
    BY DEF Read
  <2>10. QED
    BY <2>2, <2>3, <2>4, <2>7, <2>8, <2>9 DEF Read, DownIsEmpty, logVars
<1>17. CASE StartUp
  <2>1. catchup' = [NoCatchUp EXCEPT !.at = "load"] /\ up'
    BY <1>17 DEF StartUp
  <2>2. catchup'.log = {} /\ catchup' \in [at : {"no", "load", "fetch", "push", "rebuild", "drain", "done"}, log : SUBSET Events]
    BY <2>1 DEF NoCatchUp
  <2>3. TypeOK'
    BY <1>17, <2>2, ZenonT(30) DEF StartUp, TypeOK, logVars, memoryVars, graphVars, historyVars
  <2>4. QED
    BY <1>17, <2>2, <2>3 DEF StartUp, logVars, memoryVars, graphVars, historyVars, Received, Read, DownIsEmpty, Waiting, ToDo, SameType
<1>18. CASE Crash
  <2>1. SpentOK'
    BY <1>18, Spending, Limits DEF Crash, TypeOK, SpentOK
  <2>2. /\ lane' = <<>> /\ run' = NoRun /\ rebuild' = NoRebuild /\ catchup' = NoCatchUp
        /\ mark' = 0 /\ failed' = {} /\ seen' = {}
        /\ UNCHANGED <<logVars, checkpoint, told, graphVars, doubt, refolded, crossed>>
    BY <1>18 DEF Crash
  <2>3. /\ NoRun \in [todo : Seq(Events), top : Events \cup {0}, alone : BOOLEAN]
        /\ NoRebuild \in [at : {"idle", "delete", "fetch", "apply"}, todo : Seq(Events),
                          log : SUBSET Events, clean : BOOLEAN]
        /\ NoCatchUp \in [at : {"no", "load", "fetch", "push", "rebuild", "drain", "done"},
                          log : SUBSET Events]
        /\ <<>> \in Seq(Events)
    BY DEF NoRun, NoRebuild, NoCatchUp
  <2>4. up' \in BOOLEAN
    BY <1>18 DEF Crash
  <2>5. TypeOK'
    BY <2>1, <2>2, <2>3, <2>4, SMTT(30) DEF TypeOK, SpentOK, logVars, graphVars
  <2>6. Waiting' = {} /\ ToDo' = {}
    BY <2>2, NothingToDo DEF Waiting, ToDo
  <2>7. rebuild'.log = {} /\ catchup'.log = {} /\ rebuild'.at = "idle" /\ ToSet(rebuild'.todo) = {}
    <3>1. rebuild'.log = {} /\ catchup'.log = {} /\ rebuild'.at = "idle" /\ rebuild'.todo = <<>>
      BY <2>2 DEF NoRebuild, NoCatchUp
    <3>2. QED
      BY <3>1, NothingToDo
  <2>8. QED
    BY <2>2, <2>5, <2>6, <2>7 DEF Received, Read, DownIsEmpty
<1>19. CASE UNCHANGED vars
  <2>1. TypeOK'
    BY <1>19, SMTT(30) DEF TypeOK, vars, logVars, memoryVars, graphVars, historyVars
  <2>2. QED
    BY <1>19, <2>1 DEF vars, logVars, memoryVars, graphVars, historyVars, Received, Read, DownIsEmpty, Waiting, ToDo, SameType
<1>20. QED
  BY <1>1, <1>2, <1>3, <1>4, <1>5, <1>6, <1>7, <1>8, <1>9, <1>10, <1>11, <1>12, <1>13, <1>14, <1>15,
     <1>16, <1>17, <1>18, <1>19 DEF Next, LaneStep, CatchUp, Rebuild


-------------------------------------------------------------------------------
(* The invariant behind MarkSound.  While nothing has come between the log and  *)
(* the graph:                                                                   *)
(*  - what the mark, the checkpoint or the readers cover is in the graph;       *)
(*  - an event above the mark that comes before one that waits, before one that *)
(*    is being applied, or before one received, is in the graph, has failed, is *)
(*    being applied, or waits ahead of it: so the mark, which is raised to the  *)
(*    end of a run but held below every failure, passes nothing;                *)
(*  - what is being applied is above the mark, and stays so when the checkpoint *)
(*    is loaded;                                                                *)
(*  - the newest event but for the refolded ones is the one applied last.       *)
Done == landed \cup failed

Honest == \A d \in stored : d <= mark \/ d <= checkpoint \/ d <= told => d \in landed

LaneCovered ==
  \A i \in DOMAIN lane : \A d \in stored :
    mark < d /\ d < lane[i] => d \in Done \cup ToDo \/ \E j \in DOMAIN lane : j < i /\ lane[j] = d

RunCovered ==
  run # NoRun => \A d \in stored : mark < d /\ d <= run.top => d \in Done \cup ToDo

SeenCovered == \A d \in seen : mark < d => d \in Done \cup ToDo \cup Waiting

Above ==
  /\ \A d \in ToDo : mark < d
  /\ catchup.at = "load" => checkpoint <= mark \/ \A d \in ToDo \cup Waiting : checkpoint < d

NewestFits == \A d \in landed \ Additions : d <= newest \/ d <= refolded

Fits == ~doubt => Honest /\ LaneCovered /\ RunCovered /\ SeenCovered /\ Above /\ NewestFits

(* A rebuild goes through the log in order.  As long as nothing else arrives,   *)
(* what it has applied is in the graph, the rest of the log is ahead, and what  *)
(* is not in the log that it read is above everything claimed: at its end the   *)
(* parts above hold again.                                                      *)
Past == rebuild.log \ ToSet(rebuild.todo)

Undisturbed ==
  /\ seen \cup landed \subseteq rebuild.log
  /\ \A e \in stored \ rebuild.log :
       mark < e /\ checkpoint < e /\ told < e /\ \A d \in rebuild.log : d < e
  /\ \A i, j \in DOMAIN rebuild.todo : i < j => rebuild.todo[i] < rebuild.todo[j]
  /\ \A d \in Past, e \in ToSet(rebuild.todo) : d < e
  /\ rebuild.clean => Past \subseteq landed /\ \A d \in Past \ Additions : d <= newest

RebuildFits ==
  /\ rebuild.at \in {"fetch", "apply"} => doubt /\ (~crossed => lane = <<>> /\ run = NoRun)
  /\ rebuild.at = "apply" /\ ~crossed => Undisturbed

Inv == Queues /\ RebuildFits /\ Fits

Numbered ==
  /\ \A d \in stored \cup seen \cup Done \cup Waiting \cup ToDo \cup rebuild.log \cup catchup.log :
       d \in Nat /\ d > 0
  /\ mark \in Nat /\ checkpoint \in Nat /\ told \in Nat /\ newest \in Nat /\ refolded \in Nat /\ run.top \in Nat
  /\ DOMAIN lane = 1 .. Len(lane) /\ Len(lane) \in Nat
  /\ \A i \in DOMAIN lane : lane[i] \in Waiting /\ i \in Nat
  /\ Waiting \cup ToDo \subseteq seen /\ seen \cup Done \cup rebuild.log \cup catchup.log \subseteq stored
  /\ \A d \in Waiting : \E i \in DOMAIN lane : lane[i] = d

LEMMA Numbers == Queues => Numbered
<1> SUFFICES ASSUME Queues PROVE Numbered
  OBVIOUS
<1>1. \A d \in Events : d \in Nat /\ d > 0
  BY EventsFinite
<1>2. Waiting \cup ToDo \subseteq seen /\ seen \cup Done \cup rebuild.log \cup catchup.log \subseteq stored
  BY DEF Queues, TypeOK, Received, Read, Done
<1>3. stored \subseteq Events
  BY DEF Queues, TypeOK
<1>4. {mark, checkpoint, told, newest, refolded, run.top} \subseteq Events \cup {0}
  BY DEF Queues, TypeOK
<1>5. mark \in Nat /\ checkpoint \in Nat /\ told \in Nat /\ newest \in Nat /\ refolded \in Nat /\ run.top \in Nat
  BY <1>1, <1>4
<1>6. lane \in Seq(Events)
  BY DEF Queues, TypeOK
<1>7. DOMAIN lane = 1 .. Len(lane) /\ Len(lane) \in Nat
  BY <1>6
<1>8. \A i \in DOMAIN lane : lane[i] \in Waiting /\ i \in Nat
  BY <1>7 DEF Waiting, ToSet
<1>9. \A d \in Waiting : \E i \in DOMAIN lane : lane[i] = d
  BY DEF Waiting, ToSet
<1>10. \A d \in stored \cup seen \cup Done \cup Waiting \cup ToDo \cup rebuild.log \cup catchup.log :
         d \in Nat /\ d > 0
  BY <1>1, <1>2, <1>3
<1>11. QED
  BY <1>2, <1>5, <1>7, <1>8, <1>9, <1>10 DEF Numbered

LEMMA NumbersNext == Queues' => Numbered'
  BY Numbers, PTL

(* Nothing that the invariant is about changes. *)
LEMMA StillFits ==
  ASSUME Inv,
         UNCHANGED <<stored, lane, run, mark, failed, checkpoint, told, landed, newest, catchup, rebuild,
                     seen, doubt, refolded, crossed>>
  PROVE  RebuildFits' /\ Fits'
  BY DEF Inv, RebuildFits, Fits, Undisturbed, Past, Honest, LaneCovered, RunCovered, SeenCovered, Above,
         NewestFits, Done, ToDo, Waiting

(* An event comes into the log. *)
LEMMA StoreFits ==
  ASSUME Inv, NEW e \in Events, Store(e)
  PROVE  RebuildFits' /\ Fits'
<1>1. Numbered /\ e \in Nat
  BY Numbers, EventsFinite DEF Inv
<1>2. /\ stored' = stored \cup {e}
      /\ doubt' = (doubt \/ Late(e)) /\ crossed' = (crossed \/ Late(e))
      /\ UNCHANGED <<lane, run, mark, failed, checkpoint, told, landed, newest, catchup, rebuild, seen, refolded>>
  BY DEF Store, memoryVars, graphVars
<1>3. UNCHANGED <<Done, ToDo, Waiting, Past>>
  BY <1>2 DEF Done, ToDo, Waiting, Past
<1>4. ASSUME ~Late(e)
      PROVE  /\ mark < e /\ checkpoint < e /\ told < e
             /\ \A d \in seen \cup landed \cup catchup.log \cup rebuild.log : d < e
  <2>1. \A d \in seen \cup landed \cup catchup.log \cup rebuild.log \cup {mark, checkpoint, told} : ~(d >= e)
    BY <1>4 DEF Late
  <2>2. \A d \in seen \cup landed \cup catchup.log \cup rebuild.log : d \in Nat
    BY <1>1 DEF Numbered, Done
  <2>3. e \in Nat /\ mark \in Nat /\ checkpoint \in Nat /\ told \in Nat
    BY <1>1 DEF Numbered
  <2>4. mark < e /\ checkpoint < e /\ told < e
    BY <2>1, <2>3
  <2>5. \A d \in seen \cup landed \cup catchup.log \cup rebuild.log : d < e
    BY <2>1, <2>2, <2>3
  <2>6. QED
    BY <2>4, <2>5
<1>5. RebuildFits'
  <2>1. ASSUME rebuild.at = "apply", ~crossed' PROVE Undisturbed'
    <3>1. Undisturbed /\ ~Late(e)
      BY <2>1, <1>2 DEF Inv, RebuildFits
    <3>2. QED
      BY <1>2, <1>3, <1>4, <3>1 DEF Undisturbed
  <2>2. QED
    BY <1>2, <2>1 DEF Inv, RebuildFits
<1>6. Fits'
  <2> SUFFICES ASSUME ~doubt'
               PROVE  Honest' /\ LaneCovered' /\ RunCovered' /\ SeenCovered' /\ Above' /\ NewestFits'
    BY DEF Fits
  <2>1. /\ Honest /\ LaneCovered /\ RunCovered /\ SeenCovered /\ Above /\ NewestFits
        /\ ~Late(e)
    BY <1>2 DEF Inv, Fits
  <2>2. Honest'
    BY <1>1, <1>2, <1>4, <2>1 DEF Honest, Numbered
  <2>3. LaneCovered'
    <3>1. \A i \in DOMAIN lane : lane[i] < e /\ lane[i] \in Nat
      BY <1>1, <1>4, <2>1 DEF Numbered
    <3>2. QED
      BY <1>1, <1>2, <1>3, <2>1, <3>1 DEF LaneCovered
  <2>4. RunCovered'
    <3>1. run # NoRun => run.top < e
      BY <1>4, <2>1 DEF Inv, Queues, Received
    <3>2. run.top \in Nat
      BY <1>1 DEF Numbered
    <3>3. QED
      BY <1>1, <1>2, <1>3, <2>1, <3>1, <3>2 DEF RunCovered
  <2>5. SeenCovered' /\ Above' /\ NewestFits'
    BY <1>2, <1>3, <2>1 DEF SeenCovered, Above, NewestFits
  <2>6. QED
    BY <2>2, <2>3, <2>4, <2>5
<1>7. QED
  BY <1>5, <1>6


(* What is received in order joins what waits. *)
LEMMA HeardFits ==
  ASSUME Inv, NEW s \in Seq(Events), NEW S, ToSet(s) = S, S \subseteq stored, Receive(s, S),
         \A i, j \in DOMAIN s : i < j => s[i] < s[j],
         UNCHANGED <<stored, run, mark, failed, checkpoint, told, landed, newest, rebuild, refolded>>,
         catchup'.at = "load" => catchup.at = "load"
  PROVE  RebuildFits' /\ Fits'
<1>1. Numbered
  BY Numbers DEF Inv
<1>2. /\ Waiting' = Waiting \cup S /\ seen' = seen \cup S
      /\ DOMAIN lane' = 1 .. (Len(lane) + Len(s)) /\ Len(lane) \in Nat /\ Len(s) \in Nat
      /\ DOMAIN lane = 1 .. Len(lane) /\ DOMAIN s = 1 .. Len(s)
      /\ \A i \in DOMAIN lane : lane'[i] = lane[i] /\ i \in DOMAIN lane'
      /\ \A i \in DOMAIN s : lane'[Len(lane) + i] = s[i] /\ Len(lane) + i \in DOMAIN lane'
      /\ s = <<>> => lane' = lane
  BY Joined DEF Inv
<1>3. doubt' = (doubt \/ OutOfOrder(S)) /\ crossed' = (crossed \/ s # <<>>)
  BY DEF Receive
<1>4. UNCHANGED <<ToDo, Done, Past>>
  BY DEF ToDo, Done, Past
<1>5. RebuildFits'
  <2>1. ASSUME ~crossed' PROVE ~crossed /\ lane' = lane /\ seen' = seen
    <3>1. s = <<>> /\ ~crossed
      BY <1>3, <2>1
    <3>2. S = {}
      BY <3>1, NothingToDo
    <3>3. QED
      BY <1>2, <3>1, <3>2
  <2>2. ASSUME rebuild.at = "apply", ~crossed' PROVE Undisturbed'
    <3>1. Undisturbed /\ seen' = seen
      BY <2>1, <2>2 DEF Inv, RebuildFits
    <3>2. QED
      BY <1>4, <3>1 DEF Undisturbed
  <2>3. QED
    BY <1>3, <2>1, <2>2 DEF Inv, RebuildFits
<1>6. Fits'
  <2> SUFFICES ASSUME ~doubt'
               PROVE  Honest' /\ LaneCovered' /\ RunCovered' /\ SeenCovered' /\ Above' /\ NewestFits'
    BY DEF Fits
  <2>1. /\ Honest /\ LaneCovered /\ RunCovered /\ SeenCovered /\ Above /\ NewestFits
        /\ ~OutOfOrder(S)
    BY <1>3 DEF Inv, Fits
  <2>2. Honest' /\ RunCovered' /\ NewestFits'
    BY <1>4, <2>1 DEF Honest, RunCovered, NewestFits
  <2>3. LaneCovered'
    <3> SUFFICES ASSUME NEW i \in DOMAIN lane', NEW d \in stored, mark < d, d < lane'[i]
                 PROVE  d \in Done \cup ToDo \/ \E j \in DOMAIN lane' : j < i /\ lane'[j] = d
      BY <1>4 DEF LaneCovered
    <3>1. CASE i \in DOMAIN lane
      <4>1. d \in Done \cup ToDo \/ \E j \in DOMAIN lane : j < i /\ lane[j] = d
        BY <1>2, <2>1, <3>1 DEF LaneCovered
      <4>2. QED
        BY <1>2, <4>1
    <3>2. CASE i \notin DOMAIN lane
      <4>1. i \in Nat /\ Len(lane) < i /\ i - Len(lane) \in 1 .. Len(s) /\ Len(lane) + (i - Len(lane)) = i
        BY <1>2, <3>2
      <4>2. PICK k : k = i - Len(lane)
        OBVIOUS
      <4>3. k \in DOMAIN s /\ Len(lane) + k = i /\ lane'[i] = s[k] /\ s[k] \in S /\ k \in Nat
        BY <1>2, <4>1, <4>2 DEF ToSet
      <4>4. d \in seen \cup S
        BY <2>1, <4>3 DEF OutOfOrder
      <4>5. CASE d \in S
        <5>1. PICK j \in DOMAIN s : d = s[j]
          BY <4>5 DEF ToSet
        <5>2. j < k
          <6>1. s[j] \in Nat /\ s[k] \in Nat /\ j \in Nat
            BY <1>1, <1>2, <4>3, <4>5, <5>1 DEF Numbered
          <6>2. ~(k < j) /\ k # j
            BY <4>3, <5>1, <6>1
          <6>3. QED
            BY <4>3, <6>1, <6>2
        <5>3. Len(lane) + j \in DOMAIN lane' /\ lane'[Len(lane) + j] = d
          BY <1>2, <5>1
        <5>4. Len(lane) + j < i
          BY <1>2, <4>3, <5>1, <5>2
        <5>5. QED
          BY <5>3, <5>4
      <4>6. CASE d \in seen /\ d \notin Done \cup ToDo
        <5>1. d \in Waiting
          BY <2>1, <4>6 DEF SeenCovered
        <5>2. PICK j \in DOMAIN lane : lane[j] = d
          BY <1>1, <5>1 DEF Numbered
        <5>3. j < i
          BY <1>2, <4>1
        <5>4. QED
          BY <1>2, <5>2, <5>3
      <4>7. QED
        BY <4>4, <4>5, <4>6
    <3>3. QED
      BY <3>1, <3>2
  <2>4. SeenCovered'
    BY <1>2, <1>4, <2>1 DEF SeenCovered
  <2>5. Above'
    <3>1. \A d \in ToDo : mark < d
      BY <2>1 DEF Above
    <3>2. ASSUME catchup'.at = "load" PROVE checkpoint <= mark \/ \A d \in ToDo \cup Waiting' : checkpoint < d
      <4>1. checkpoint <= mark \/ \A d \in ToDo \cup Waiting : checkpoint < d
        BY <2>1, <3>2 DEF Above
      <4>2. \A d \in S : ~(d <= checkpoint)
        BY <2>1, <3>2 DEF OutOfOrder
      <4>3. \A d \in S : checkpoint < d
        BY <1>1, <4>2 DEF Numbered
      <4>4. QED
        BY <1>2, <4>1, <4>3
    <3>3. QED
      BY <1>4, <3>1, <3>2 DEF Above
  <2>6. QED
    BY <2>2, <2>3, <2>4, <2>5
<1>7. QED
  BY <1>5, <1>6

(* A run is taken from the lane. *)
LEMMA StartRunFits ==
  ASSUME Inv, StartRun
  PROVE  RebuildFits' /\ Fits'
<1>1. Numbered
  BY Numbers DEF Inv
<1>2. PICK n \in 1 .. Len(lane), alone \in BOOLEAN :
        LET fresh == Fresh(SubSeq(lane, 1, n))
        IN  /\ lane' = SubSeq(lane, n + 1, Len(lane))
            /\ run' = IF fresh = <<>> THEN NoRun
                      ELSE [todo |-> fresh, top |-> Max(ToSet(fresh)), alone |-> alone]
  BY DEF StartRun
<1>3. PICK fresh : fresh = Fresh(SubSeq(lane, 1, n))
  OBVIOUS
<1>4. /\ Waiting' \subseteq Waiting /\ ToDo' \subseteq Waiting
      /\ \A d \in ToDo' : d > mark /\ \E i \in 1 .. n : d = lane[i]
      /\ \A i \in 1 .. n : lane[i] \in Waiting /\ (lane[i] > mark => lane[i] \in ToDo')
      /\ Waiting \subseteq {lane[i] : i \in 1 .. n} \cup Waiting'
      /\ DOMAIN lane' = 1 .. (Len(lane) - n)
      /\ \A i \in DOMAIN lane' : i + n \in DOMAIN lane /\ lane'[i] = lane[i + n]
      /\ run' # NoRun => run'.top \in ToDo' /\ (\A d \in ToDo' : d <= run'.top)
  BY <1>2, <1>3, RunTaken DEF Inv
<1>5. /\ run = NoRun /\ lane # <<>>
      /\ UNCHANGED <<stored, mark, failed, checkpoint, told, landed, newest, catchup, rebuild,
                     seen, doubt, refolded, crossed>>
  BY DEF StartRun, logVars, graphVars, historyVars
<1>6. ToDo = {} /\ Done' = Done
  BY <1>5, NothingToDo DEF ToDo, Done
<1>7. RebuildFits'
  BY <1>5 DEF Inv, RebuildFits
<1>8. n \in Nat /\ n >= 1 /\ DOMAIN lane = 1 .. Len(lane) /\ Len(lane) \in Nat /\ n <= Len(lane) /\ mark \in Nat
  BY <1>1 DEF Numbered
<1>9. Fits'
  <2> SUFFICES ASSUME ~doubt'
               PROVE  Honest' /\ LaneCovered' /\ RunCovered' /\ SeenCovered' /\ Above' /\ NewestFits'
    BY DEF Fits
  <2>1. Honest /\ LaneCovered /\ RunCovered /\ SeenCovered /\ Above /\ NewestFits
    BY <1>5 DEF Inv, Fits
  <2>2. Honest' /\ NewestFits'
    BY <1>5, <2>1 DEF Honest, NewestFits
  <2>3. ASSUME NEW i \in 1 .. n, NEW d \in stored, mark < d, d < lane[i]
        PROVE  d \in Done \cup ToDo'
    <3>1. i \in DOMAIN lane
      BY <1>8
    <3>2. d \in Done \/ \E j \in DOMAIN lane : j < i /\ lane[j] = d
      BY <1>6, <2>1, <2>3, <3>1 DEF LaneCovered
    <3>3. ASSUME NEW j \in DOMAIN lane, j < i, lane[j] = d PROVE d \in ToDo'
      <4>1. j \in 1 .. n
        BY <1>8, <3>3
      <4>2. d > mark
        BY <2>3, <1>1 DEF Numbered
      <4>3. QED
        BY <1>4, <3>3, <4>1, <4>2
    <3>4. QED
      BY <3>2, <3>3
  <2>4. LaneCovered'
    <3> SUFFICES ASSUME NEW i \in DOMAIN lane', NEW d \in stored, mark < d, d < lane'[i]
                 PROVE  d \in Done \cup ToDo' \/ \E j \in DOMAIN lane' : j < i /\ lane'[j] = d
      BY <1>5, <1>6 DEF LaneCovered
    <3>1. i + n \in DOMAIN lane /\ lane'[i] = lane[i + n] /\ i \in Nat
      BY <1>4, <1>8
    <3>2. d \in Done \/ \E j \in DOMAIN lane : j < i + n /\ lane[j] = d
      BY <1>6, <2>1, <3>1 DEF LaneCovered
    <3>3. ASSUME NEW j \in DOMAIN lane, j < i + n, lane[j] = d
          PROVE  d \in ToDo' \/ \E k \in DOMAIN lane' : k < i /\ lane'[k] = d
      <4>1. CASE j \in 1 .. n
        <5>1. d > mark
          BY <1>1 DEF Numbered
        <5>2. QED
          BY <1>4, <3>3, <4>1, <5>1
      <4>2. CASE j \notin 1 .. n
        <5>1. j - n \in 1 .. (Len(lane) - n) /\ (j - n) + n = j /\ j - n < i
          BY <1>8, <3>1, <3>3, <4>2
        <5>2. QED
          BY <1>4, <3>3, <5>1
      <4>3. QED
        BY <4>1, <4>2
    <3>4. QED
      BY <3>2, <3>3
  <2>5. RunCovered'
    <3> SUFFICES ASSUME run' # NoRun, NEW d \in stored, mark < d, d <= run'.top
                 PROVE  d \in Done \cup ToDo'
      BY <1>5, <1>6 DEF RunCovered
    <3>1. PICK i \in 1 .. n : run'.top = lane[i]
      BY <1>4
    <3>2. run'.top \in ToDo'
      BY <1>4
    <3>3. lane[i] \in Nat /\ d \in Nat
      BY <1>1, <1>8, <3>1 DEF Numbered
    <3>4. CASE d = lane[i]
      BY <3>1, <3>2, <3>4
    <3>5. CASE d < lane[i]
      BY <2>3, <3>5
    <3>6. QED
      BY <3>1, <3>3, <3>4, <3>5
  <2>6. SeenCovered'
    <3> SUFFICES ASSUME NEW d \in seen, mark < d PROVE d \in Done \cup ToDo' \cup Waiting'
      BY <1>5, <1>6 DEF SeenCovered
    <3>1. d \in Done \cup Waiting
      BY <1>6, <2>1 DEF SeenCovered
    <3>2. d > mark
      BY <1>1 DEF Numbered
    <3>3. QED
      BY <1>4, <3>1, <3>2
  <2>7. Above'
    <3>1. \A d \in ToDo' : mark < d
      BY <1>4, <1>1 DEF Numbered
    <3>2. QED
      BY <1>4, <1>5, <2>1, <3>1 DEF Above
  <2>8. QED
    BY <2>2, <2>4, <2>5, <2>6, <2>7
<1>10. QED
  BY <1>7, <1>9


(* What is noted is in the graph. *)
LEMMA NotedHonest ==
  ASSUME Inv, Honest, NEW top \in stored, failed' \subseteq stored, NoteApplied(top, failed'),
         \A d \in stored : mark < d /\ d <= top => d \in landed' \cup failed',
         landed \subseteq landed', UNCHANGED <<stored, checkpoint>>
  PROVE  Honest' /\ mark <= mark' /\ mark' \in Nat
<1>1. Numbered /\ TypeOK
  BY Numbers DEF Inv, Queues
<1>2. PICK F : F = failed'
  OBVIOUS
<1>3. NoteApplied(top, F)
  BY <1>2 DEF NoteApplied
<1>4. F \in SUBSET Events /\ top \in Events \cup {0}
  BY <1>1, <1>2 DEF TypeOK
<1>5. /\ mark' \in Events \cup {0} /\ mark <= mark' /\ told' \in {told, mark'}
      /\ mark' # mark => mark' <= top /\ \A f \in F : mark' < f
  BY <1>1, <1>3, <1>4, Noted
<1>6. mark' \in Nat /\ mark \in Nat /\ top \in Nat
  BY <1>1, <1>5, EventsFinite DEF Numbered
<1>7. ASSUME NEW d \in stored, d <= mark' \/ d <= checkpoint \/ d <= told
      PROVE  d \in landed'
  <2>1. d \in Nat
    BY <1>1 DEF Numbered
  <2>2. CASE d <= mark \/ d <= checkpoint \/ d <= told
    BY <2>2 DEF Honest
  <2>3. CASE mark < d /\ d <= mark'
    <3>1. mark' # mark
      BY <1>6, <2>1, <2>3
    <3>2. d <= top /\ d \notin failed'
      BY <1>2, <1>5, <1>6, <2>1, <2>3, <3>1
    <3>3. QED
      BY <2>3, <3>2
  <2>4. QED
    BY <1>6, <1>7, <2>1, <2>2, <2>3
<1>8. Honest'
  BY <1>5, <1>7 DEF Honest
<1>9. QED
  BY <1>5, <1>6, <1>8

(* A step of a run. *)
LEMMA AppliedFits ==
  ASSUME Inv, Queues', run # NoRun,
         Done \cup ToDo \subseteq landed' \cup failed' \cup ToDo' \/ doubt',
         ToDo' \subseteq ToDo,
         \/ UNCHANGED <<mark, told>>
         \/ NoteApplied(run.top, failed') /\ ToDo' = {},
         run' # NoRun => run'.top = run.top,
         doubt => doubt', ~doubt' => NewestFits',
         landed \subseteq landed',
         UNCHANGED <<stored, lane, checkpoint, catchup, rebuild, seen, crossed>>
  PROVE  RebuildFits' /\ Fits'
<1>1. Numbered /\ run.top \in stored /\ failed' \subseteq stored
  BY Numbers DEF Inv, Queues, Received, TypeOK, Numbered
<1>2. RebuildFits'
  <2>1. rebuild.at \in {"fetch", "apply"} => doubt /\ crossed
    BY DEF Inv, RebuildFits
  <2>2. rebuild.at \in {"fetch", "apply"} => doubt'
    BY <2>1
  <2>3. QED
    BY <2>1, <2>2 DEF RebuildFits
<1>3. Fits'
  <2> SUFFICES ASSUME ~doubt'
               PROVE  Honest' /\ LaneCovered' /\ RunCovered' /\ SeenCovered' /\ Above' /\ NewestFits'
    BY DEF Fits
  <2>1. /\ Honest /\ LaneCovered /\ RunCovered /\ SeenCovered /\ Above /\ NewestFits'
        /\ Done \cup ToDo \subseteq Done' \cup ToDo'
    BY DEF Inv, Fits, Done
  <2>2. Honest' /\ mark <= mark' /\ mark' \in Nat
    <3>1. CASE UNCHANGED <<mark, told>>
      BY <1>1, <2>1, <3>1 DEF Honest, Numbered
    <3>2. CASE NoteApplied(run.top, failed') /\ ToDo' = {}
      <4>1. \A d \in stored : mark < d /\ d <= run.top => d \in landed' \cup failed'
        BY <2>1, <3>2 DEF RunCovered, Done
      <4>2. PICK top \in stored : top = run.top
        BY <1>1
      <4>3. NoteApplied(top, failed')
        BY <3>2, <4>2 DEF NoteApplied
      <4>4. QED
        BY <1>1, <2>1, <4>1, <4>2, <4>3, NotedHonest
    <3>3. QED
      BY <3>1, <3>2
  <2>3. \A d \in stored : mark' < d => mark < d
    BY <1>1, <2>2 DEF Numbered
  <2>4. Waiting' = Waiting
    BY DEF Waiting
  <2>5. LaneCovered'
    <3>1. ASSUME NEW i \in DOMAIN lane, NEW d \in stored, mark' < d, d < lane[i]
          PROVE  d \in Done' \cup ToDo' \/ \E j \in DOMAIN lane : j < i /\ lane[j] = d
      BY <2>1, <2>3, <3>1 DEF LaneCovered
    <3>2. QED
      BY <3>1 DEF LaneCovered
  <2>6. RunCovered'
    <3>1. ASSUME NEW d \in stored, mark' < d, d <= run.top, run' # NoRun
          PROVE  d \in Done' \cup ToDo'
      BY <2>1, <2>3, <3>1 DEF RunCovered
    <3>2. QED
      BY <3>1 DEF RunCovered
  <2>7. SeenCovered'
    <3>1. ASSUME NEW d \in seen, mark' < d
          PROVE  d \in Done' \cup ToDo' \cup Waiting
      BY <1>1, <2>1, <2>3, <3>1 DEF SeenCovered, Numbered
    <3>2. QED
      BY <2>4, <3>1 DEF SeenCovered
  <2>8. Above'
    <3>1. \A d \in ToDo' : mark' < d
      <4>1. mark' = mark \/ ToDo' = {}
        OBVIOUS
      <4>2. QED
        BY <2>1, <4>1 DEF Above
    <3>2. catchup.at = "load" => checkpoint <= mark' \/ \A d \in ToDo' \cup Waiting : checkpoint < d
      BY <1>1, <2>1, <2>2 DEF Above, Numbered
    <3>3. QED
      BY <2>4, <3>1, <3>2 DEF Above
  <2>9. QED
    BY <2>1, <2>2, <2>5, <2>6, <2>7, <2>8
<1>4. QED
  BY <1>2, <1>3

LEMMA ApplyBatchFits ==
  ASSUME Inv, Queues', ApplyBatch
  PROVE  RebuildFits' /\ Fits'
<1>1. run.todo # <<>> /\ run # NoRun
  BY NothingToDo DEF ApplyBatch, Batched
<1>2. run.todo \in Seq(Events) /\ Head(run.todo) \in ToDo
  BY <1>1, FrontOf DEF Inv, Queues, TypeOK, ToDo
<1>3. \A d \in ToDo : d \in Additions
  <2>1. Head(run.todo) \in Additions
    BY DEF ApplyBatch, Batched
  <2>2. QED
    BY <1>2, <2>1 DEF Inv, Queues, Received, SameType
<1>4. /\ run' = NoRun /\ NoteApplied(run.top, failed')
      /\ UNCHANGED <<stored, lane, checkpoint, catchup, rebuild, seen, refolded, doubt, crossed>>
  BY DEF ApplyBatch, logVars
<1>5. ToDo' = {}
  BY <1>4, NothingToDo DEF ToDo
<1>6. /\ landed \subseteq landed' /\ newest' = newest /\ landed' \subseteq landed \cup ToDo
      /\ Done \cup ToDo \subseteq landed' \cup failed'
  <2>1. CASE Fold(run.todo) /\ failed' = failed \ ToSet(run.todo)
    <3>1. landed' = landed \cup ToDo /\ newest' = newest
      BY <1>2, <1>3, <2>1, FoldOfAdditions DEF ToDo
    <3>2. QED
      BY <2>1, <3>1 DEF ToDo, Done
  <2>2. CASE failed' = BatchFailed /\ UNCHANGED graphVars
    BY <2>2 DEF BatchFailed, graphVars, ToDo, Done
  <2>3. QED
    BY <2>1, <2>2 DEF ApplyBatch
<1>7. ~doubt' => ~doubt /\ NewestFits'
  <2>1. ~doubt => NewestFits
    BY DEF Inv, Fits
  <2>2. QED
    BY <1>3, <1>4, <1>6, <2>1 DEF NewestFits
<1>8. QED
  BY <1>1, <1>4, <1>5, <1>6, <1>7, AppliedFits

LEMMA ApplyNextFits ==
  ASSUME Inv, Queues', ApplyNext
  PROVE  RebuildFits' /\ Fits'
<1>1. PICK e : e = Head(run.todo)
  OBVIOUS
<1>2. /\ run # NoRun
      /\ Outcome(e)
      /\ run' = IF Tail(run.todo) = <<>> THEN NoRun ELSE [run EXCEPT !.todo = Tail(@)]
      /\ IF Tail(run.todo) = <<>> /\ ~(run.alone /\ e \in failed')
           THEN NoteApplied(run.top, failed') ELSE UNCHANGED <<mark, told>>
      /\ doubt' = (doubt \/ e \notin landed' \cup failed')
      /\ refolded' = IF newest' # e THEN refolded
                     ELSE IF mark < e /\ e < newest THEN Max({refolded, newest})
                     ELSE IF e >= refolded THEN 0 ELSE refolded
      /\ UNCHANGED <<stored, lane, checkpoint, catchup, rebuild, seen, crossed>>
  BY <1>1 DEF ApplyNext, logVars
<1>3. /\ e \in ToDo /\ e \in stored /\ ToDo = {e} \cup ToDo'
      /\ run' # NoRun => run'.top = run.top
      /\ Tail(run.todo) = <<>> => ToDo' = {}
  BY <1>1, <1>2, RunSteps DEF Inv
<1>4. /\ landed \subseteq landed' /\ failed \ {e} \subseteq failed'
      /\ \/ newest' = newest /\ (landed' = landed \/ e \in Additions)
         \/ newest' = e /\ e \notin Additions /\ landed' = landed \cup {e}
      /\ landed' \subseteq landed \cup {e}
  BY <1>2, <1>3, OneApplied DEF Inv
<1>5. Done \cup ToDo \subseteq landed' \cup failed' \cup ToDo' \/ doubt'
  BY <1>2, <1>3, <1>4 DEF Done
<1>6. ASSUME ~doubt' PROVE ~doubt /\ NewestFits'
  <2>1. ~doubt /\ NewestFits /\ Above
    BY <1>2, <1>6 DEF Inv, Fits
  <2>2. Numbered
    BY Numbers DEF Inv
  <2>3. mark < e /\ mark \in Nat /\ e \in Nat /\ newest \in Nat /\ refolded \in Nat
    BY <1>3, <2>1, <2>2 DEF Above, Numbered
  <2>4. \A d \in landed : d \in Nat
    BY <2>2 DEF Numbered, Done
  <2>5. CASE newest' # e
    BY <1>2, <1>4, <2>1, <2>5 DEF NewestFits
  <2>6. CASE newest' = e /\ e < newest
    <3>1. refolded' = Max({refolded, newest})
      BY <1>2, <2>3, <2>6
    <3>2. refolded' = IF refolded <= newest THEN newest ELSE refolded
      BY <2>3, <3>1, MaxOfTwo
    <3>3. refolded' \in Nat /\ newest <= refolded' /\ refolded <= refolded'
      BY <2>3, <3>2
    <3>4. ASSUME NEW d \in landed \ Additions PROVE d <= refolded'
      <4>1. d <= newest \/ d <= refolded
        BY <2>1 DEF NewestFits
      <4>2. QED
        BY <2>3, <2>4, <3>3, <4>1
    <3>5. e <= newest'
      BY <2>3, <2>6
    <3>6. QED
      BY <1>4, <2>1, <3>4, <3>5 DEF NewestFits
  <2>7. CASE newest' = e /\ ~(e < newest)
    <3>1. refolded' = IF e >= refolded THEN 0 ELSE refolded
      BY <1>2, <2>3, <2>7
    <3>2. ASSUME NEW d \in landed \ Additions PROVE d <= newest' \/ d <= refolded'
      <4>1. d <= newest \/ d <= refolded
        BY <2>1 DEF NewestFits
      <4>2. QED
        BY <2>3, <2>4, <2>7, <3>1, <4>1
    <3>3. e <= newest'
      BY <2>3, <2>7
    <3>4. QED
      BY <1>4, <2>1, <3>2, <3>3 DEF NewestFits
  <2>8. QED
    BY <2>1, <2>5, <2>6, <2>7
<1>7. ToDo' \subseteq ToDo
  BY <1>3
<1>8. \/ UNCHANGED <<mark, told>>
      \/ NoteApplied(run.top, failed') /\ ToDo' = {}
  BY <1>2, <1>3
<1>9. QED
  BY <1>2, <1>3, <1>4, <1>5, <1>6, <1>7, <1>8, AppliedFits


(* The checkpoint is saved or loaded. *)
LEMMA CheckpointFits ==
  ASSUME Inv,
         \/ checkpoint' = mark /\ mark' = mark /\ catchup'.at \in {"done", catchup.at}
         \/ checkpoint' = checkpoint /\ mark' = Max({mark, checkpoint}) /\ catchup'.at = "fetch" /\ catchup.at = "load",
         UNCHANGED <<stored, lane, run, failed, told, landed, newest, rebuild, seen, doubt, refolded, crossed>>
  PROVE  RebuildFits' /\ Fits'
<1>1. Numbered
  BY Numbers DEF Inv
<1>2. UNCHANGED <<Done, ToDo, Waiting, Past>>
  BY DEF Done, ToDo, Waiting, Past
<1>3. mark \in Nat /\ checkpoint \in Nat
  BY <1>1 DEF Numbered
<1>4. Max({mark, checkpoint}) = IF mark <= checkpoint THEN checkpoint ELSE mark
  BY <1>3, MaxOfTwo
<1>5. mark <= mark' /\ mark' \in {mark, checkpoint} /\ checkpoint' \in {mark, checkpoint} /\ mark' \in Nat
  BY <1>3, <1>4
<1>6. RebuildFits'
  <2>1. ASSUME Undisturbed PROVE Undisturbed'
    BY <1>2, <1>5, <2>1 DEF Undisturbed
  <2>2. QED
    BY <2>1 DEF Inv, RebuildFits
<1>7. Fits'
  <2> SUFFICES ASSUME ~doubt'
               PROVE  Honest' /\ LaneCovered' /\ RunCovered' /\ SeenCovered' /\ Above' /\ NewestFits'
    BY DEF Fits
  <2>1. Honest /\ LaneCovered /\ RunCovered /\ SeenCovered /\ Above /\ NewestFits
    BY DEF Inv, Fits
  <2>2. Honest' /\ NewestFits'
    BY <1>5, <2>1 DEF Honest, NewestFits
  <2>3. \A d \in stored : mark' < d => mark < d
    BY <1>1, <1>3, <1>5 DEF Numbered
  <2>4. LaneCovered'
    BY <1>2, <2>1, <2>3 DEF LaneCovered
  <2>5. RunCovered'
    BY <1>2, <2>1, <2>3 DEF RunCovered
  <2>6. SeenCovered'
    BY <1>1, <1>2, <2>1, <2>3 DEF SeenCovered, Numbered
  <2>7. Above'
    <3>1. CASE checkpoint' = mark /\ mark' = mark
      BY <1>2, <1>3, <2>1, <3>1 DEF Above
    <3>2. CASE mark' = Max({mark, checkpoint}) /\ catchup'.at = "fetch" /\ catchup.at = "load"
      <4>1. ASSUME NEW d \in ToDo PROVE mark' < d
        <5>1. mark < d /\ (checkpoint <= mark \/ checkpoint < d)
          BY <2>1, <3>2 DEF Above
        <5>2. QED
          BY <1>3, <1>4, <3>2, <5>1
      <4>2. QED
        BY <1>2, <3>2, <4>1 DEF Above
    <3>3. QED
      BY <3>1, <3>2
  <2>8. QED
    BY <2>2, <2>4, <2>5, <2>6, <2>7
<1>8. QED
  BY <1>6, <1>7

(* A rebuild that is asked for, and one that reads the log. *)
LEMMA RebuildStartsFits ==
  ASSUME Inv, Queues', RebuildCommand \/ RebuildDelete \/ RebuildFetch \/ CatchUpAhead
  PROVE  RebuildFits' /\ Fits'
<1>1. Numbered
  BY Numbers DEF Inv
<1>2. ASSUME RebuildCommand \/ CatchUpAhead PROVE rebuild'.at = "delete"
  <2>1. rebuild' = [NoRebuild EXCEPT !.at = "delete"]
    BY <1>2 DEF RebuildCommand, CatchUpAhead
  <2>2. QED
    BY <2>1, FreshRebuild
<1>3. CASE RebuildCommand
  <2>1. UNCHANGED <<stored, lane, run, mark, failed, checkpoint, told, landed, newest, catchup, seen, doubt, refolded, crossed>>
    BY <1>3 DEF RebuildCommand, logVars, memoryVars, graphVars
  <2>2. Fits'
    BY <2>1 DEF Inv, Fits, Honest, LaneCovered, RunCovered, SeenCovered, Above, NewestFits, Done, ToDo, Waiting
  <2>3. QED
    BY <1>2, <1>3, <2>2 DEF RebuildFits
<1>4. CASE CatchUpAhead
  <2>1. doubt'
    BY <1>4 DEF CatchUpAhead
  <2>2. QED
    BY <1>2, <1>4, <2>1 DEF RebuildFits, Fits
<1>5. CASE RebuildDelete
  <2>1. doubt' /\ crossed' = (lane # <<>> \/ run # NoRun) /\ UNCHANGED <<lane, run>>
    BY <1>5 DEF RebuildDelete, memoryVars
  <2>2. rebuild'.at = "fetch"
    BY <1>5 DEF RebuildDelete, Inv, Queues, TypeOK
  <2>3. QED
    BY <2>1, <2>2 DEF RebuildFits, Fits
<1>6. CASE RebuildFetch
  <2>1. /\ rebuild.at = "fetch"
        /\ UNCHANGED <<stored, lane, run, mark, failed, checkpoint, told, landed, newest, catchup, seen, doubt, refolded, crossed>>
    BY <1>6 DEF RebuildFetch, logVars, memoryVars, graphVars
  <2>2. doubt /\ (~crossed => lane = <<>> /\ run = NoRun)
    BY <2>1 DEF Inv, RebuildFits
  <2>3. Fits'
    BY <2>1, <2>2 DEF Fits
  <2>4. CASE rebuild' = NoRebuild
    <3>1. rebuild'.at = "idle"
      BY <2>4, FreshRebuild
    <3>2. QED
      BY <2>3, <3>1 DEF RebuildFits
  <2>5. CASE rebuild' = [at |-> "apply", todo |-> Ascending(stored), log |-> stored, clean |-> TRUE]
    <3>1. rebuild'.at = "apply" /\ rebuild'.todo = Ascending(stored) /\ rebuild'.log = stored
      BY <2>5
    <3>2. stored \in SUBSET Events
      BY DEF Inv, Queues, TypeOK
    <3>3. /\ ToSet(Ascending(stored)) = stored
          /\ \A i, j \in DOMAIN Ascending(stored) : i < j => Ascending(stored)[i] < Ascending(stored)[j]
      BY <3>2, AscendingIs
    <3>4. Past' = {}
      BY <2>1, <3>1, <3>3 DEF Past
    <3>5. Undisturbed'
      BY <1>1, <2>1, <3>1, <3>3, <3>4 DEF Undisturbed, Numbered, Done
    <3>6. QED
      BY <2>1, <2>2, <2>3, <3>5 DEF RebuildFits
  <2>6. QED
    BY <1>6, <2>4, <2>5 DEF RebuildFetch
<1>7. QED
  BY <1>3, <1>4, <1>5, <1>6

(* A rebuild goes on, or ends. *)
LEMMA RebuildApplyFits ==
  ASSUME Inv, Queues', RebuildApply
  PROVE  RebuildFits' /\ Fits'
<1>1. PICK e, clean : e = Head(rebuild.todo) /\ clean = (rebuild.clean /\ e \notin failed')
  OBVIOUS
<1>2. PICK last \in BOOLEAN : last = (Tail(rebuild.todo) = <<>>)
  OBVIOUS
<1>3. /\ rebuild.at = "apply"
      /\ Outcome(e)
      /\ rebuild' = IF Tail(rebuild.todo) = <<>> THEN NoRebuild
                    ELSE [rebuild EXCEPT !.todo = Tail(@), !.clean = clean]
      /\ IF last /\ clean THEN NoteApplied(Max(rebuild.log), failed') ELSE UNCHANGED <<mark, told>>
      /\ crossed' = (crossed \/ spent' # spent \/ Missing(e))
      /\ doubt' = (doubt /\ ~(last /\ clean /\ ~crossed'))
      /\ UNCHANGED <<stored, lane, run, checkpoint, catchup, seen>>
  BY <1>1, <1>2 DEF RebuildApply, logVars
<1>4. clean \in BOOLEAN /\ rebuild.log \subseteq stored /\ rebuild.todo \in Seq(Events) /\ rebuild.todo # <<>>
  BY <1>1, <1>3 DEF Inv, Queues, TypeOK, Read
<1>5. /\ e \in stored /\ e \in rebuild.log
      /\ rebuild'.at = "apply" =>
           /\ rebuild'.todo = Tail(rebuild.todo) /\ rebuild'.log = rebuild.log /\ rebuild'.clean = clean
           /\ Tail(rebuild.todo) # <<>>
      /\ rebuild'.at \in {"idle", "apply"}
      /\ ToSet(rebuild.todo) = {e} \cup ToSet(Tail(rebuild.todo))
      /\ Tail(rebuild.todo) = <<>> => ToSet(rebuild.todo) = {e} /\ rebuild' = NoRebuild
  BY <1>1, <1>3, <1>4, RebuildSteps DEF Inv
<1>6. /\ \/ landed' = landed \cup {e} /\ newest' = IF e \in Additions THEN newest ELSE e
         \/ spent' # spent
         \/ Missing(e) /\ landed' = landed
      /\ failed' \subseteq stored
  BY <1>3, <1>5, OneApplied DEF Inv
<1>7. doubt /\ (~crossed => lane = <<>> /\ run = NoRun /\ Undisturbed)
  BY <1>3 DEF Inv, RebuildFits
<1>8. Numbered
  BY Numbers DEF Inv
(* What is applied when nothing has disturbed the rebuild. *)
<1>9. ASSUME ~crossed'
      PROVE  /\ Undisturbed /\ lane = <<>> /\ run = NoRun
             /\ landed' = landed \cup {e} /\ newest' = IF e \in Additions THEN newest ELSE e
             /\ e \in Nat /\ \A d \in Past : d \in Nat /\ d < e
             /\ \A d \in rebuild.log : d \in Past \/ d \in ToSet(rebuild.todo)
             /\ clean => \A d \in Past \cup {e} : d \in landed' /\ (d \notin Additions => d <= newest')
  <2>1. ~crossed /\ spent' = spent /\ ~Missing(e)
    BY <1>3, <1>9
  <2>2. /\ Undisturbed /\ lane = <<>> /\ run = NoRun
        /\ landed' = landed \cup {e} /\ newest' = IF e \in Additions THEN newest ELSE e
    BY <1>6, <1>7, <2>1
  <2>3. e \in Nat /\ e \in ToSet(rebuild.todo) /\ \A d \in Past : d \in Nat /\ d < e
    BY <1>5, <1>8, <2>2 DEF Numbered, Undisturbed, Past
  <2>4. ASSUME clean, NEW d \in Past \cup {e} PROVE d \in landed' /\ (d \notin Additions => d <= newest')
    <3>1. Past \subseteq landed /\ \A c \in Past \ Additions : c <= newest
      BY <1>1, <2>2, <2>4 DEF Undisturbed
    <3>2. CASE d = e
      BY <2>2, <2>3, <3>2
    <3>3. CASE d \in Past
      BY <2>2, <2>3, <3>1, <3>3
    <3>4. QED
      BY <3>2, <3>3
  <2>5. QED
    BY <2>2, <2>3, <2>4 DEF Past
<1>10. RebuildFits'
  <2>1. CASE rebuild'.at = "idle"
    BY <2>1 DEF RebuildFits
  <2>2. CASE rebuild'.at = "apply"
    <3>1. /\ rebuild'.todo = Tail(rebuild.todo) /\ rebuild'.log = rebuild.log /\ rebuild'.clean = clean
          /\ ~last /\ doubt'
      BY <1>2, <1>3, <1>5, <1>7, <2>2
    <3>2. mark' = mark /\ told' = told
      BY <1>3, <3>1
    <3>3. ASSUME ~crossed' PROVE Undisturbed'
      <4>1. seen' \cup landed' \subseteq rebuild.log
        BY <1>3, <1>5, <1>9, <3>3 DEF Undisturbed
      <4>2. \A d \in stored' \ rebuild.log :
              mark' < d /\ checkpoint' < d /\ told' < d /\ \A c \in rebuild.log : c < d
        BY <1>3, <1>9, <3>2, <3>3 DEF Undisturbed
      <4>3. \A i, j \in DOMAIN rebuild.todo : i < j => rebuild.todo[i] < rebuild.todo[j]
        BY <1>9, <3>3 DEF Undisturbed
      <4>4. /\ \A i \in DOMAIN Tail(rebuild.todo) :
                 i \in Nat /\ i + 1 \in DOMAIN rebuild.todo /\ i + 1 > 1 /\ Tail(rebuild.todo)[i] = rebuild.todo[i + 1]
            /\ 1 \in DOMAIN rebuild.todo /\ e = rebuild.todo[1]
        <5>1. Len(rebuild.todo) \in Nat /\ DOMAIN rebuild.todo = 1 .. Len(rebuild.todo) /\ Len(rebuild.todo) # 0
          BY <1>4
        <5>2. DOMAIN Tail(rebuild.todo) = 1 .. (Len(rebuild.todo) - 1) /\ Head(rebuild.todo) = rebuild.todo[1]
          BY <1>4
        <5>3. \A i \in DOMAIN Tail(rebuild.todo) :
                i + 1 \in DOMAIN rebuild.todo /\ i + 1 > 1 /\ Tail(rebuild.todo)[i] = rebuild.todo[i + 1]
          BY <1>4, FrontOf
        <5>4. 1 \in DOMAIN rebuild.todo
          BY <5>1
        <5>5. \A i \in DOMAIN Tail(rebuild.todo) : i \in Nat
          BY <5>1, <5>2
        <5>6. QED
          BY <1>1, <5>2, <5>3, <5>4, <5>5
      <4>5. \A i, j \in DOMAIN Tail(rebuild.todo) : i < j => Tail(rebuild.todo)[i] < Tail(rebuild.todo)[j]
        <5>1. ASSUME NEW i \in DOMAIN Tail(rebuild.todo), NEW j \in DOMAIN Tail(rebuild.todo), i < j
              PROVE  Tail(rebuild.todo)[i] < Tail(rebuild.todo)[j]
          <6>1. i + 1 \in DOMAIN rebuild.todo /\ j + 1 \in DOMAIN rebuild.todo /\ i + 1 < j + 1
            BY <4>4, <5>1
          <6>2. QED
            BY <4>3, <4>4, <6>1
        <5>2. QED
          BY <5>1
      <4>6. \A d \in ToSet(Tail(rebuild.todo)) : e < d
        BY <4>3, <4>4 DEF ToSet
      <4>7. Past' = Past \cup {e}
        <5>1. e \notin ToSet(Tail(rebuild.todo))
          BY <1>9, <3>3, <4>6
        <5>2. QED
          BY <1>5, <3>1, <5>1 DEF Past
      <4>8. \A c \in Past', d \in ToSet(Tail(rebuild.todo)) : c < d
        <5>1. \A d \in ToSet(Tail(rebuild.todo)) : \A c \in Past : c < d
          BY <1>5, <1>9, <3>3 DEF Undisturbed
        <5>2. QED
          BY <4>6, <4>7, <5>1
      <4>9. clean => Past' \subseteq landed' /\ \A d \in Past' \ Additions : d <= newest'
        BY <1>9, <3>3, <4>7
      <4>10. QED
        BY <1>3, <3>1, <4>1, <4>2, <4>5, <4>8, <4>9 DEF Undisturbed
    <3>4. QED
      BY <1>3, <1>7, <3>1, <3>3 DEF RebuildFits
  <2>3. QED
    BY <1>5, <2>1, <2>2
<1>11. Fits'
  <2> SUFFICES ASSUME ~doubt'
               PROVE  Honest' /\ LaneCovered' /\ RunCovered' /\ SeenCovered' /\ Above' /\ NewestFits'
    BY DEF Fits
  <2>1. last /\ clean /\ ~crossed'
    BY <1>3, <1>7
  <2>2. /\ Undisturbed /\ lane = <<>> /\ run = NoRun
        /\ landed' = landed \cup {e} /\ ToSet(rebuild.todo) = {e}
        /\ \A d \in Past \cup {e} : d \in landed' /\ (d \notin Additions => d <= newest')
        /\ \A d \in rebuild.log : d \in Past \/ d = e
    BY <1>2, <1>5, <1>9, <2>1
  <2>3. rebuild.log \subseteq landed' /\ landed' \subseteq rebuild.log /\ seen \subseteq rebuild.log
    BY <1>5, <2>2 DEF Undisturbed
  <2>4. NewestFits'
    BY <2>2, <2>3 DEF NewestFits
  <2>5. PICK top, F : top = Max(rebuild.log) /\ F = failed'
    OBVIOUS
  <2>6. top \in rebuild.log /\ \A d \in rebuild.log : d <= top
    BY <1>5, <2>5, TopOf DEF Inv, Queues, TypeOK
  <2>7. NoteApplied(top, F)
    BY <1>3, <2>1, <2>5 DEF NoteApplied
  <2>8. top \in Events \cup {0} /\ F \in SUBSET Events /\ TypeOK
    BY <1>4, <1>6, <2>5, <2>6 DEF Inv, Queues, TypeOK
  <2>9. /\ mark' \in Events \cup {0} /\ told' \in {told, mark'}
        /\ mark' # mark => mark' <= top
    BY <2>7, <2>8, Noted
  <2>10. Honest'
    <3>1. ASSUME NEW d \in stored, d <= mark' \/ d <= checkpoint \/ d <= told'
          PROVE  d \in landed'
      <4>1. SUFFICES ASSUME d \notin rebuild.log PROVE FALSE
        BY <2>3
      <4>2. mark < d /\ checkpoint < d /\ told < d /\ top < d
        BY <2>2, <2>6, <4>1 DEF Undisturbed
      <4>3. mark' \in Nat /\ d \in Nat /\ mark \in Nat /\ checkpoint \in Nat /\ told \in Nat /\ top \in Nat
        <5>1. mark' \in Nat
          BY <2>9, EventsFinite
        <5>2. d \in Nat /\ mark \in Nat /\ checkpoint \in Nat /\ told \in Nat /\ top \in Nat
          BY <1>8, <2>6 DEF Numbered
        <5>3. QED
          BY <5>1, <5>2
      <4>4. mark' < d
        BY <2>9, <4>2, <4>3
      <4>5. QED
        BY <2>9, <3>1, <4>2, <4>3, <4>4
    <3>2. QED
      BY <1>3, <3>1 DEF Honest
  <2>11. Waiting' = {} /\ ToDo' = {} /\ DOMAIN lane' = {} /\ run' = NoRun
    BY <1>3, <2>2, NothingToDo DEF Waiting, ToDo
  <2>12. LaneCovered' /\ RunCovered' /\ Above'
    BY <2>11 DEF LaneCovered, RunCovered, Above
  <2>13. SeenCovered'
    BY <1>3, <2>3 DEF SeenCovered, Done
  <2>14. QED
    BY <2>4, <2>10, <2>12, <2>13
<1>12. QED
  BY <1>10, <1>11


(* A weaver starts with nothing in memory, and dies with what it had. *)
LEMMA StartUpFits ==
  ASSUME Inv, StartUp
  PROVE  RebuildFits' /\ Fits'
<1>1. lane = <<>> /\ run = NoRun /\ ~up
  BY DEF StartUp, Inv, Queues, DownIsEmpty
<1>2. UNCHANGED <<stored, lane, run, mark, failed, checkpoint, told, landed, newest, rebuild, seen, doubt,
                  refolded, crossed>>
  BY DEF StartUp, logVars, memoryVars, graphVars, historyVars
<1>3. ToDo' = {} /\ Waiting' = {}
  BY <1>1, <1>2, NothingToDo DEF ToDo, Waiting
<1>4. UNCHANGED <<Done, ToDo, Waiting, Past>>
  BY <1>2 DEF Done, ToDo, Waiting, Past
<1>5. RebuildFits'
  BY <1>2, <1>4 DEF Inv, RebuildFits, Undisturbed
<1>6. Fits'
  <2>1. Above'
    BY <1>3 DEF Above
  <2>2. QED
    BY <1>2, <1>4, <2>1 DEF Inv, Fits, Honest, LaneCovered, RunCovered, SeenCovered, NewestFits
<1>7. QED
  BY <1>5, <1>6

LEMMA CrashFits ==
  ASSUME Inv, Crash
  PROVE  RebuildFits' /\ Fits'
<1>1. /\ lane' = <<>> /\ run' = NoRun /\ mark' = 0 /\ rebuild' = NoRebuild /\ seen' = {}
      /\ UNCHANGED <<stored, checkpoint, told, landed, newest, doubt, refolded>>
  BY DEF Crash, logVars, graphVars
<1>2. ToDo' = {} /\ Waiting' = {} /\ DOMAIN lane' = {}
  BY <1>1, NothingToDo DEF ToDo, Waiting
<1>3. RebuildFits'
  BY <1>1, FreshRebuild DEF RebuildFits
<1>4. Fits'
  <2>1. LaneCovered' /\ RunCovered' /\ SeenCovered' /\ Above'
    BY <1>1, <1>2 DEF LaneCovered, RunCovered, SeenCovered, Above
  <2>2. \A d \in stored : ~(d <= 0)
    BY Numbers DEF Inv, Numbered
  <2>3. Honest => Honest'
    BY <1>1, <2>2 DEF Honest
  <2>4. NewestFits => NewestFits'
    BY <1>1 DEF NewestFits
  <2>5. QED
    BY <1>1, <2>1, <2>3, <2>4 DEF Inv, Fits
<1>5. QED
  BY <1>3, <1>4

LEMMA InvInit == Init => Inv
<1> SUFFICES ASSUME Init PROVE Inv
  OBVIOUS
<1>1. Queues
  BY QueuesInit
<1>2. lane = <<>> /\ run = NoRun /\ rebuild = NoRebuild /\ catchup = NoCatchUp /\ stored = {} /\ landed = {} /\ seen = {}
  BY DEF Init
<1>3. ToDo = {} /\ Waiting = {} /\ DOMAIN lane = {}
  BY <1>2, NothingToDo DEF ToDo, Waiting
<1>4. RebuildFits
  BY <1>2, FreshRebuild DEF RebuildFits
<1>5. Fits
  BY <1>2, <1>3 DEF Fits, Honest, LaneCovered, RunCovered, SeenCovered, Above, NewestFits
<1>6. QED
  BY <1>1, <1>4, <1>5 DEF Inv

LEMMA InvStep ==
  ASSUME Inv, [Next]_vars
  PROVE  Inv'
<1>1. Queues'
  BY QueuesStep DEF Inv
<1> SUFFICES RebuildFits' /\ Fits'
  BY <1>1 DEF Inv
<1>2. ASSUME NEW e \in Events, Store(e) PROVE RebuildFits' /\ Fits'
  BY <1>2, StoreFits
<1>3. ASSUME NEW e \in Events, Announce(e) \/ Repeat(e) PROVE RebuildFits' /\ Fits'
  <2>1. /\ e \in stored
        /\ UNCHANGED <<stored, run, mark, failed, checkpoint, told, landed, newest, catchup, rebuild, refolded>>
        /\ Receive(<<e>>, {e}) \/ UNCHANGED <<lane, seen, doubt, crossed>>
    BY <1>3 DEF Announce, Unannounced, Repeat, logVars, graphVars, Inv, Queues, TypeOK
  <2>2. CASE Receive(<<e>>, {e})
    <3>1. /\ <<e>> \in Seq(Events) /\ ToSet(<<e>>) = {e}
          /\ \A i, j \in DOMAIN <<e>> : i < j => <<e>>[i] < <<e>>[j]
      BY OneHeard
    <3>2. QED
      BY <2>1, <2>2, <3>1, HeardFits
  <2>3. CASE UNCHANGED <<lane, seen, doubt, crossed>>
    BY <2>1, <2>3, StillFits
  <2>4. QED
    BY <2>1, <2>2, <2>3
<1>4. CASE StartRun
  BY <1>4, StartRunFits
<1>5. CASE ApplyBatch
  BY <1>1, <1>5, ApplyBatchFits
<1>6. CASE ApplyNext
  BY <1>1, <1>6, ApplyNextFits
<1>7. CASE Flush
  <2>1. /\ checkpoint' = mark /\ mark' = mark /\ catchup'.at \in {"done", catchup.at}
        /\ UNCHANGED <<stored, lane, run, failed, told, landed, newest, rebuild, seen, doubt, refolded, crossed>>
    BY <1>7 DEF Flush, logVars, memoryVars, graphVars, historyVars
  <2>2. QED
    BY <2>1, CheckpointFits
<1>8. CASE CatchUpLoad
  <2>1. /\ checkpoint' = checkpoint /\ mark' = Max({mark, checkpoint}) /\ catchup'.at = "fetch" /\ catchup.at = "load"
        /\ UNCHANGED <<stored, lane, run, failed, told, landed, newest, rebuild, seen, doubt, refolded, crossed>>
    BY <1>8 DEF CatchUpLoad, CatchUpStep, logVars, graphVars, historyVars, Inv, Queues, TypeOK
  <2>2. QED
    BY <2>1, CheckpointFits
<1>9. CASE CatchUpFetch
  <2>1. /\ catchup'.at = "push"
        /\ UNCHANGED <<stored, lane, run, mark, failed, checkpoint, told, landed, newest, rebuild, seen, doubt, refolded, crossed>>
    BY <1>9 DEF CatchUpFetch, logVars, memoryVars, graphVars, historyVars
  <2>2. Fits'
    BY <2>1 DEF Inv, Fits, Honest, LaneCovered, RunCovered, SeenCovered, Above, NewestFits, Done, ToDo, Waiting
  <2>3. RebuildFits'
    BY <2>1 DEF Inv, RebuildFits, Undisturbed, Past
  <2>4. QED
    BY <2>2, <2>3
<1>10. CASE CatchUpPush
  <2>1. /\ catchup'.at = "drain" /\ Receive(Ascending(Gap), Gap)
        /\ UNCHANGED <<stored, run, mark, failed, checkpoint, told, landed, newest, rebuild, refolded>>
    BY <1>10 DEF CatchUpPush, CatchUpStep, logVars, graphVars, Inv, Queues, TypeOK
  <2>2. PICK s, S : s = Ascending(Gap) /\ S = Gap
    OBVIOUS
  <2>3. Receive(s, S)
    BY <2>1, <2>2 DEF Receive
  <2>4. /\ s \in Seq(Events) /\ ToSet(s) = S /\ S \subseteq stored
        /\ \A i, j \in DOMAIN s : i < j => s[i] < s[j]
    BY <2>2, GapPushed DEF Inv
  <2>5. QED
    BY <2>1, <2>3, <2>4, HeardFits
<1>11. CASE CatchUpAhead
  BY <1>1, <1>11, RebuildStartsFits
<1>12. CASE CatchUpEnd
  <2>1. /\ checkpoint' = mark /\ mark' = mark /\ catchup'.at \in {"done", catchup.at}
        /\ UNCHANGED <<stored, lane, run, failed, told, landed, newest, rebuild, seen, doubt, refolded, crossed>>
    BY <1>12 DEF CatchUpEnd, logVars, memoryVars, graphVars, historyVars, Inv, Queues, TypeOK
  <2>2. QED
    BY <2>1, CheckpointFits
<1>13. CASE RebuildCommand \/ RebuildDelete \/ RebuildFetch
  BY <1>1, <1>13, RebuildStartsFits
<1>14. CASE RebuildApply
  BY <1>1, <1>14, RebuildApplyFits
<1>15. CASE StartUp
  BY <1>15, StartUpFits
<1>16. CASE Crash
  BY <1>16, CrashFits
<1>17. CASE UNCHANGED vars
  <2>1. UNCHANGED <<stored, lane, run, mark, failed, checkpoint, told, landed, newest, catchup, rebuild,
                    seen, doubt, refolded, crossed>>
    BY <1>17 DEF vars, logVars, memoryVars, graphVars, historyVars
  <2>2. QED
    BY <2>1, StillFits
<1>18. QED
  BY <1>2, <1>3, <1>4, <1>5, <1>6, <1>7, <1>8, <1>9, <1>10, <1>11, <1>12, <1>13, <1>14, <1>15, <1>16, <1>17
     DEF Next, LaneStep, CatchUp, Rebuild

(* The invariant holds in every reachable state. *)
THEOREM WeaverInvariant == Spec => []Inv
<1>1. Init => Inv
  BY InvInit
<1>2. Inv /\ [Next]_vars => Inv'
  BY InvStep
<1>3. QED
  BY <1>1, <1>2, PTL DEF Spec

-------------------------------------------------------------------------------
(* Every variable of the weaver keeps its type: in particular only events of    *)
(* the log are ever in the graph, noted as failed, or received, and no bound is *)
(* overspent.                                                                   *)
THEOREM WeaverTypes == Spec => []TypeOK
<1>1. Inv => TypeOK
  BY DEF Inv, Queues
<1>2. QED
  BY <1>1, WeaverInvariant, PTL

(* What the mark, the checkpoint or a progress signal covers is in the graph    *)
(* (noteApplied, flushCheckpoint, catchUp, rebuildResource), whatever fails, is *)
(* delivered again or crashes, as long as nothing came between the log and the  *)
(* graph; and after an undisturbed rebuild again.                               *)
THEOREM MarkIsSound == Spec => []MarkSound
<1>1. Inv => MarkSound
  <2> SUFFICES ASSUME Inv, ~doubt, NEW e \in stored, e <= Claimed PROVE e \in landed
    BY DEF MarkSound
  <2>1. Honest /\ Numbered
    BY Numbers DEF Inv, Fits
  <2>2. mark \in Int /\ checkpoint \in Int /\ told \in Int
    BY <2>1 DEF Numbered
  <2>3. Claimed \in {mark, checkpoint, told}
    BY <2>2, MaxOfThree DEF Claimed
  <2>4. QED
    BY <2>1, <2>3 DEF Honest
<1>2. QED
  BY <1>1, WeaverInvariant, PTL

(* The gate at the mark (lastProcessed) leaves the newest event on top: nothing *)
(* older has been applied over what the mark covers, but for events that a      *)
(* failure had held above the mark.                                             *)
THEOREM NewestStaysOnTop == Spec => []NewestAtMark
<1>1. Inv => NewestAtMark
  <2> SUFFICES ASSUME Inv, ~doubt, refolded = 0, NEW e \in stored \ Additions, e <= mark PROVE newest >= e
    BY DEF NewestAtMark
  <2>1. Honest /\ NewestFits /\ Numbered
    BY Numbers DEF Inv, Fits
  <2>2. e \in landed
    BY <2>1 DEF Honest
  <2>3. e <= newest \/ e <= 0
    BY <2>1, <2>2 DEF NewestFits
  <2>4. e \in Nat /\ e > 0 /\ newest \in Nat
    BY <2>1 DEF Numbered
  <2>5. QED
    BY <2>3, <2>4
<1>2. QED
  BY <1>1, WeaverInvariant, PTL

================================================================================
