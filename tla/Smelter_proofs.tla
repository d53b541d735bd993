----------------------------- MODULE Smelter_proofs -----------------------------
(* Proofs about Smelter, for every value of the bounds and of WaveSize: the      *)
(* types, that a wave is over when its items are done and not before             *)
(* (WavesComplete), that a rebuild answers for its own items (RebuildHonest),    *)
(* and that at rest the stores agree with the catalog (StoresAgree).             *)
EXTENDS Smelter, Ascending_proofs

-------------------------------------------------------------------------------
(* The planned items of a lane, and their number.                                *)

Planned(s) == {i \in DOMAIN s : s[i].by # Live}

PlannedIn(L) == Cardinality(Planned(L["resource"])) + Cardinality(Planned(L["annotation"]))

Remaining == PlannedIn(lane)

LEMMA PlannedCounts ==
  ASSUME NEW s \in Seq(Items)
  PROVE  /\ Planned(s) \in SUBSET Nat /\ IsFiniteSet(Planned(s))
         /\ Cardinality(Planned(s)) \in Nat
         /\ Cardinality(Planned(s)) = 0 <=> Planned(s) = {}
<1>1. DOMAIN s = 1 .. Len(s) /\ Len(s) \in Nat
  OBVIOUS
<1>2. IsFiniteSet(1 .. Len(s))
  BY <1>1, FS_Interval
<1>3. Planned(s) \in SUBSET (1 .. Len(s))
  BY <1>1 DEF Planned
<1>4. IsFiniteSet(Planned(s))
  BY <1>2, <1>3, FS_Subset
<1>5. Cardinality(Planned(s)) \in Nat
  BY <1>4, FS_CardinalityType
<1>6. Cardinality(Planned(s)) = 0 <=> Planned(s) = {}
  BY <1>4, FS_EmptySet
<1>7. QED
  BY <1>1, <1>3, <1>4, <1>5, <1>6

(* A live event adds none.                                                       *)
LEMMA PlannedAfterLive ==
  ASSUME NEW s \in Seq(Items), NEW item \in Items, item.by = Live
  PROVE  /\ Append(s, item) \in Seq(Items) /\ Append(s, item) # <<>>
         /\ Planned(Append(s, item)) = Planned(s)
         /\ \A i \in Planned(s) : Append(s, item)[i] = s[i]
<1>1. /\ DOMAIN s = 1 .. Len(s) /\ Len(s) \in Nat
      /\ Append(s, item) \in Seq(Items) /\ DOMAIN Append(s, item) = 1 .. (Len(s) + 1)
      /\ Append(s, item)[Len(s) + 1] = item
      /\ \A i \in 1 .. Len(s) : Append(s, item)[i] = s[i]
      /\ Append(s, item) # <<>>
  OBVIOUS
<1>2. \A i \in 1 .. (Len(s) + 1) : i \in 1 .. Len(s) \/ i = Len(s) + 1
  BY <1>1
<1>3. \A i \in 1 .. Len(s) : i \in 1 .. (Len(s) + 1)
  BY <1>1
<1>4. QED
  BY <1>1, <1>2, <1>3 DEF Planned

(* The end of the first item takes it away, if it is a planned one.              *)
LEMMA PlannedAfterFirst ==
  ASSUME NEW s \in Seq(Items), s # <<>>
  PROVE  /\ Tail(s) \in Seq(Items)
         /\ Head(s) \in Items
         /\ \A i \in Planned(Tail(s)) : i + 1 \in Planned(s) /\ Tail(s)[i] = s[i + 1]
         /\ Head(s).by = Live =>
              Cardinality(Planned(Tail(s))) = Cardinality(Planned(s))
         /\ Head(s).by # Live =>
              /\ 1 \in Planned(s) /\ s[1] = Head(s)
              /\ Cardinality(Planned(Tail(s))) = Cardinality(Planned(s)) - 1
<1> DEFINE rest == Planned(s) \ {1}
           move == [i \in rest |-> i - 1]
<1>1. /\ Len(s) \in Nat /\ Len(s) # 0 /\ DOMAIN s = 1 .. Len(s)
      /\ \A i \in 1 .. Len(s) : s[i] \in Items
      /\ Head(s) = s[1] /\ Tail(s) \in Seq(Items)
      /\ DOMAIN Tail(s) = 1 .. (Len(s) - 1)
      /\ \A i \in 1 .. (Len(s) - 1) : Tail(s)[i] = s[i + 1]
  OBVIOUS
<1>2. \A i \in 1 .. (Len(s) - 1) : i + 1 \in 1 .. Len(s) /\ i + 1 # 1
  BY <1>1
<1>3. \A i \in 1 .. Len(s) : i # 1 => i - 1 \in 1 .. (Len(s) - 1) /\ (i - 1) + 1 = i
  BY <1>1
<1>4. \A i \in Planned(Tail(s)) : i + 1 \in rest /\ Tail(s)[i] = s[i + 1]
  BY <1>1, <1>2 DEF Planned
<1>5. \A i \in rest : i - 1 \in Planned(Tail(s)) /\ i \in Int
  BY <1>1, <1>3 DEF Planned
<1>6. move \in Bijection(rest, Planned(Tail(s)))
  <2>1. move \in [rest -> Planned(Tail(s))]
    BY <1>5
  <2>2. \A i, j \in rest : move[i] = move[j] => i = j
    BY <1>5
  <2>3. \A i \in Planned(Tail(s)) : i \in Int
    BY <1>1 DEF Planned
  <2>4. \A i \in Planned(Tail(s)) : \E j \in rest : move[j] = i
    <3>1. ASSUME NEW i \in Planned(Tail(s)) PROVE i + 1 \in rest /\ move[i + 1] = i
      <4>1. i + 1 \in rest /\ i \in Int
        BY <1>4, <2>3
      <4>2. move[i + 1] = (i + 1) - 1
        BY <4>1
      <4>3. QED
        BY <4>1, <4>2
    <3>2. QED
      BY <3>1
  <2>5. QED
    BY <2>1, <2>2, <2>4 DEF Bijection, Injection, Surjection, IsInjective
<1>7. ExistsBijection(rest, Planned(Tail(s)))
  BY <1>6 DEF ExistsBijection
<1>8. IsFiniteSet(Planned(s))
  BY PlannedCounts
<1>9. /\ IsFiniteSet(rest)
      /\ Cardinality(rest) = IF 1 \in Planned(s) THEN Cardinality(Planned(s)) - 1 ELSE Cardinality(Planned(s))
  BY <1>8, FS_RemoveElement
<1>10. Cardinality(Planned(Tail(s))) = Cardinality(rest)
  BY <1>7, <1>9, FS_Bijection
<1>11. 1 \in Planned(s) <=> Head(s).by # Live
  BY <1>1 DEF Planned
<1>12. Head(s) \in Items
  BY <1>1
<1>13. \A i \in Planned(Tail(s)) : i + 1 \in Planned(s) /\ Tail(s)[i] = s[i + 1]
  BY <1>4
<1> HIDE DEF rest
<1>14. QED
  BY <1>1, <1>9, <1>10, <1>11, <1>12, <1>13

(* A wave comes behind what is in the lane.                                      *)
LEMMA PlannedAfterWave ==
  ASSUME NEW s \in Seq(Items), NEW r \in Seq(Items), Planned(s) = {}, NEW w \in Planners,
         \A i \in DOMAIN r : r[i].by = w
  PROVE  /\ s \o r \in Seq(Items)
         /\ s # <<>> => s \o r # <<>>
         /\ \A i \in Planned(s \o r) : (s \o r)[i].by = w
         /\ Cardinality(Planned(s \o r)) = Len(r)
<1>1. /\ s \o r \in Seq(Items) /\ Len(s) \in Nat /\ Len(r) \in Nat
      /\ DOMAIN s = 1 .. Len(s) /\ DOMAIN r = 1 .. Len(r)
      /\ DOMAIN (s \o r) = 1 .. (Len(s) + Len(r))
      /\ \A i \in 1 .. Len(s) : (s \o r)[i] = s[i]
      /\ \A i \in 1 .. Len(r) : (s \o r)[Len(s) + i] = r[i]
  BY JoinOf
<1>2. s # <<>> => s \o r # <<>>
  BY <1>1
<1>3. ASSUME NEW i \in DOMAIN (s \o r)
      PROVE  /\ i \in Planned(s \o r) <=> i \in (Len(s) + 1) .. (Len(s) + Len(r))
             /\ i \in Planned(s \o r) => (s \o r)[i].by = w
  <2>1. CASE i \in 1 .. Len(s)
    <3>1. (s \o r)[i].by = Live
      BY <1>1, <2>1 DEF Planned
    <3>2. i \notin (Len(s) + 1) .. (Len(s) + Len(r))
      BY <1>1, <2>1
    <3>3. QED
      BY <3>1, <3>2 DEF Planned
  <2>2. CASE i \notin 1 .. Len(s)
    <3>1. i - Len(s) \in 1 .. Len(r) /\ i = Len(s) + (i - Len(s))
      BY <1>1, <2>2
    <3>2. (s \o r)[i].by = w
      BY <1>1, <3>1
    <3>3. i \in (Len(s) + 1) .. (Len(s) + Len(r))
      BY <1>1, <2>2
    <3>4. QED
      BY <3>2, <3>3 DEF Planned, Planners, Live
  <2>3. QED
    BY <2>1, <2>2
<1>4. \A i \in (Len(s) + 1) .. (Len(s) + Len(r)) : i \in DOMAIN (s \o r)
  BY <1>1
<1>5. Planned(s \o r) = (Len(s) + 1) .. (Len(s) + Len(r))
  BY <1>3, <1>4 DEF Planned
<1>6. Cardinality(Planned(s \o r)) = Len(r)
  <2>1. Len(s) + 1 \in Int /\ Len(s) + Len(r) \in Int
    BY <1>1
  <2>2. Cardinality((Len(s) + 1) .. (Len(s) + Len(r)))
          = IF Len(s) + 1 > Len(s) + Len(r) THEN 0 ELSE (Len(s) + Len(r)) - (Len(s) + 1) + 1
    BY <2>1, FS_Interval
  <2>3. QED
    BY <1>1, <1>5, <2>2
<1>7. QED
  BY <1>1, <1>2, <1>3, <1>6 DEF Planned

-------------------------------------------------------------------------------
(* The inductive invariant.                                                      *)

(* What the bounds and the steps of the items leave in the data.                 *)
Data ==
  /\ spent \in [DOMAIN Limit -> Nat]
  /\ \A what \in DOMAIN Limit : spent[what] <= Limit[what]
  /\ catalog.bytes <= spent["changes"] + 1 /\ catalog.tags <= spent["changes"] + 1
  /\ \A l \in Lanes : doing[l].step = "publish" => doing[l].bytes \in Generations

(* While the smelter is down nothing of a planner is left, and reconcile has not *)
(* drained before it has planned.                                                *)
Idle(w) == drain[w].at = "idle"

Begins ==
  /\ stream = "down" => /\ plan.phase = "no"
                        /\ \A w \in Planners : Idle(w)
                        /\ \A l \in Lanes : lane[l] = <<>>
  /\ plan.phase \in {"no", "snapshot", "annotations"} => Idle("reconcile")
  /\ stream = "detached" => Idle("rebuild")

(* drainChain: the planners that drain, in their order; the first one is served. *)
Busy(w) == drain[w].at \in {"queued", "active", "waiting"}

Turns ==
  /\ \A i, j \in DOMAIN chain : chain[i] = chain[j] => i = j
  /\ \A w \in Planners : Busy(w) <=> \E i \in DOMAIN chain : chain[i] = w
  /\ \A w \in Planners : drain[w].at \in {"active", "waiting"} => chain # <<>> /\ Head(chain) = w

(* What a planner still has to enqueue is its own.                               *)
OwnWork == \A w \in Planners : \A i \in DOMAIN drain[w].todo : drain[w].todo[i].by = w

(* All planned items in the lanes are the waiter's, and the counter reaches the  *)
(* target with the last of them.                                                 *)
Waited ==
  /\ \A l \in Lanes : \A i \in Planned(lane[l]) : lane[l][i].by = workWaiter.for
  /\ \A w \in Planners : drain[w].at = "waiting" <=> workWaiter.for = w
  /\ workWaiter = NoWaiter => \A l \in Lanes : Planned(lane[l]) = {}
  /\ workWaiter # NoWaiter => workDone + Remaining = workWaiter.target

(* The failures counted since a rebuild's turn began are those of its items.     *)
Answers ==
  /\ \A w \in Planners : drain[w].before <= workFailed
  /\ drain["rebuild"].at \notin {"idle", "sorry"} => reply = "none"
  /\ drain["rebuild"].at \in {"idle", "sorry"} => RebuildHonest
  /\ drain["rebuild"].at = "sorry" => interrupted
  /\ drain["rebuild"].at \in {"list", "queued"} => ~hurt
  /\ drain["rebuild"].at \in {"active", "waiting"} => (hurt <=> workFailed > drain["rebuild"].before)
  /\ drain["rebuild"].at = "over" => (hurt <=> drain["rebuild"].failures > 0)

Inv == SmelterTypeOK /\ Data /\ Begins /\ Turns /\ OwnWork /\ Waited /\ Answers

-------------------------------------------------------------------------------
(* The types of the variables.                                                   *)

DoingType == [step : {"start", "decline", "tags", "upsert", "stamp", "publish",
                      "unannotate", "list", "annotate"},
              bytes : Generations \cup {0}, tags : Generations \cup {0}]

PlanType == [phase : {"no", "snapshot", "annotations", "drain", "done"},
             unread : SUBSET {"vectors", "annotations", "anchors"},
             vector : Stamps, annotated : BOOLEAN, anchored : SUBSET Generations,
             archived : BOOLEAN, bytes : Generations \cup {0}, tags : Generations \cup {0}]

DrainType == [at : {"idle", "list", "queued", "active", "waiting", "over", "sorry"},
              todo : Seq(Items), before : Nat, failures : Nat]

WaiterType == [target : Nat \ {0}, for : Planners] \cup {NoWaiter}

LanesTyped ==
  /\ lane \in [Lanes -> Seq(Items)]
  /\ doing \in [Lanes -> DoingType]
  /\ \A l \in Lanes : doing[l] # NotStarted => lane[l] # <<>>

CounterTyped ==
  /\ workFailed \in Nat /\ workDone \in Nat /\ workFailed <= workDone
  /\ workWaiter \in WaiterType

BackendTyped ==
  /\ catalog \in [archived : BOOLEAN, bytes : Generations, tags : Generations,
                  annotation : {"none", "there", "removed"}]
  /\ news \in Seq([kind : EventKinds, archived : BOOLEAN])

StoresTyped == vector \in Stamps /\ annotated \in BOOLEAN /\ anchored \subseteq Generations

LEMMA TypesAre ==
  SmelterTypeOK <=>
    /\ BackendTyped /\ stream \in {"down", "detached", "attached", "broken"} /\ LanesTyped /\ plan \in PlanType
    /\ drain \in [Planners -> DrainType] /\ chain \in Seq(Planners)
    /\ CounterTyped /\ reply \in {"none", "ok", "failed"} /\ StoresTyped
    /\ drift \in BOOLEAN /\ hurt \in BOOLEAN /\ interrupted \in BOOLEAN
  BY DEF SmelterTypeOK, BackendTyped, LanesTyped, PlanType, DrainType, CounterTyped,
         StoresTyped, DoingType, WaiterType

LEMMA TypesAreNext ==
  SmelterTypeOK' <=>
    /\ BackendTyped' /\ stream' \in {"down", "detached", "attached", "broken"} /\ LanesTyped' /\ plan' \in PlanType
    /\ drain' \in [Planners -> DrainType] /\ chain' \in Seq(Planners)
    /\ CounterTyped' /\ reply' \in {"none", "ok", "failed"} /\ StoresTyped'
    /\ drift' \in BOOLEAN /\ hurt' \in BOOLEAN /\ interrupted' \in BOOLEAN
  BY DEF SmelterTypeOK, BackendTyped, LanesTyped, PlanType, DrainType, CounterTyped,
         StoresTyped, DoingType, WaiterType

(* The waiter is nobody's or a planner's.                                        *)
LEMMA WaiterIs ==
  ASSUME CounterTyped
  PROVE  /\ workWaiter # NoWaiter => workWaiter.for \in Planners /\ workWaiter.target \in Nat
         /\ workWaiter = NoWaiter <=> workWaiter.for \notin Planners
         /\ NoWaiter.for \notin Planners /\ Live \notin Planners
  BY DEF CounterTyped, WaiterType, NoWaiter, Planners, Live

LEMMA ItemIs ==
  ASSUME NEW item \in Items
  PROVE  /\ item.by \in Planners \cup {Live}
         /\ item.by # Live => item.by \in Planners
  BY DEF Items

LEMMA PlannedInCounts ==
  ASSUME NEW L \in [Lanes -> Seq(Items)]
  PROVE  /\ PlannedIn(L) \in Nat
         /\ PlannedIn(L) = 0 <=> \A l \in Lanes : Planned(L[l]) = {}
<1>1. L["resource"] \in Seq(Items) /\ L["annotation"] \in Seq(Items)
  BY DEF Lanes
<1> DEFINE a == Cardinality(Planned(L["resource"]))
           b == Cardinality(Planned(L["annotation"]))
<1>2. /\ a \in Nat /\ (a = 0 <=> Planned(L["resource"]) = {})
      /\ b \in Nat /\ (b = 0 <=> Planned(L["annotation"]) = {})
  BY <1>1, PlannedCounts
<1>3. PlannedIn(L) = a + b
  BY DEF PlannedIn
<1>4. (\A l \in Lanes : Planned(L[l]) = {})
        <=> Planned(L["resource"]) = {} /\ Planned(L["annotation"]) = {}
  BY DEF Lanes
<1> HIDE DEF a, b
<1>5. QED
  BY <1>2, <1>3, <1>4

LEMMA RemainingCounts ==
  ASSUME LanesTyped
  PROVE  /\ Remaining \in Nat
         /\ Remaining = 0 <=> \A l \in Lanes : Planned(lane[l]) = {}
  BY PlannedInCounts DEF LanesTyped, Remaining

-------------------------------------------------------------------------------
(* The end of an item.                                                           *)

(* The waiting planner goes on, or the drains stay.                              *)
LEMMA DrainAfterItem ==
  ASSUME CounterTyped, drain \in [Planners -> DrainType], Waited,
         drain' = drain
         \/ (workWaiter # NoWaiter /\ drain' = [drain EXCEPT ![workWaiter.for].at = "active"])
  PROVE  /\ drain' \in [Planners -> DrainType]
         /\ \A w \in Planners :
              /\ drain'[w].todo = drain[w].todo /\ drain'[w].before = drain[w].before
              /\ drain'[w].failures = drain[w].failures
              /\ drain'[w].at = drain[w].at \/ (drain[w].at = "waiting" /\ drain'[w].at = "active")
<1>1. CASE drain' = drain
  BY <1>1
<1>2. CASE workWaiter # NoWaiter /\ drain' = [drain EXCEPT ![workWaiter.for].at = "active"]
  <2>1. workWaiter.for \in Planners
    BY <1>2, WaiterIs
  <2>2. drain[workWaiter.for].at = "waiting"
    BY <2>1 DEF Waited
  <2>3. drain' \in [Planners -> DrainType]
    BY <1>2, <2>1 DEF DrainType
  <2>4. QED
    BY <1>2, <2>1, <2>2, <2>3 DEF DrainType
<1>3. QED
  BY <1>1, <1>2

(* The counter, the waiter and the planned items stay in step.                   *)
LEMMA ItemEnds ==
  ASSUME SmelterTypeOK, Waited, NEW l \in Lanes, lane[l] # <<>>, NEW f \in {0, 1}, Ended(l, f)
  PROVE  /\ LanesTyped' /\ CounterTyped' /\ Waited'
         /\ drain' = drain
            \/ (workWaiter # NoWaiter /\ drain' = [drain EXCEPT ![workWaiter.for].at = "active"])
         /\ Item(l).by = Live => workFailed' = workFailed
         /\ Item(l).by # Live => /\ workFailed' = workFailed + f
                                 /\ workWaiter # NoWaiter /\ Item(l).by = workWaiter.for
<1> DEFINE other == IF l = "resource" THEN "annotation" ELSE "resource"
           Count(s) == Cardinality(Planned(s))
<1>1. /\ LanesTyped /\ CounterTyped /\ drain \in [Planners -> DrainType]
  BY TypesAre
<1>2. lane[l] \in Seq(Items) /\ \A k \in Lanes : lane[k] \in Seq(Items)
  BY <1>1 DEF LanesTyped
<1>3. /\ Tail(lane[l]) \in Seq(Items) /\ Item(l) \in Items
      /\ \A i \in Planned(Tail(lane[l])) : i + 1 \in Planned(lane[l]) /\ Tail(lane[l])[i] = lane[l][i + 1]
      /\ Item(l).by = Live => Count(Tail(lane[l])) = Count(lane[l])
      /\ Item(l).by # Live => /\ 1 \in Planned(lane[l]) /\ lane[l][1] = Item(l)
                              /\ Count(Tail(lane[l])) = Count(lane[l]) - 1
  BY <1>2, PlannedAfterFirst DEF Item
<1>4. lane' = [lane EXCEPT ![l] = Tail(@)] /\ doing' = [doing EXCEPT ![l] = NotStarted]
  BY DEF Ended
<1>5. /\ lane'[l] = Tail(lane[l]) /\ \A k \in Lanes \ {l} : lane'[k] = lane[k]
      /\ lane' \in [Lanes -> Seq(Items)]
  BY <1>1, <1>3, <1>4 DEF LanesTyped
<1>6. LanesTyped'
  <2>1. NotStarted \in DoingType
    BY DEF NotStarted, DoingType
  <2>2. doing' \in [Lanes -> DoingType]
    BY <1>1, <1>4, <2>1 DEF LanesTyped
  <2>3. doing'[l] = NotStarted /\ \A k \in Lanes \ {l} : doing'[k] = doing[k]
    BY <1>1, <1>4 DEF LanesTyped
  <2>4. QED
    BY <1>1, <1>5, <2>2, <2>3 DEF LanesTyped
<1>7. /\ other \in Lanes /\ other # l /\ Lanes = {l, other}
  BY DEF Lanes
<1>8. /\ Count(lane[l]) \in Nat /\ Count(lane[other]) \in Nat
      /\ Remaining = Count(lane[l]) + Count(lane[other])
      /\ Remaining' = Count(Tail(lane[l])) + Count(lane[other])
  <2>1. Count(lane[l]) \in Nat /\ Count(lane[other]) \in Nat
    BY <1>2, <1>7, PlannedCounts
  <2>2. Remaining = Count(lane[l]) + Count(lane[other])
    BY <2>1 DEF Remaining, PlannedIn, Lanes
  <2>3. lane'[l] = Tail(lane[l]) /\ lane'[other] = lane[other]
    BY <1>5, <1>7
  <2>4. Count(Tail(lane[l])) \in Nat
    BY <1>3, PlannedCounts
  <2>5. Remaining' = Count(Tail(lane[l])) + Count(lane[other])
    BY <2>1, <2>3, <2>4 DEF Remaining, PlannedIn, Lanes
  <2>6. QED
    BY <2>1, <2>2, <2>5
<1>9. \A k \in Lanes : \A i \in Planned(lane'[k]) : lane'[k][i].by = workWaiter.for
  <2>1. ASSUME NEW k \in Lanes, NEW i \in Planned(lane'[k]) PROVE lane'[k][i].by = workWaiter.for
    <3>1. CASE k = l
      <4>1. lane'[k] = Tail(lane[l]) /\ i \in Planned(Tail(lane[l]))
        BY <1>5, <2>1, <3>1
      <4>2. i + 1 \in Planned(lane[l]) /\ lane'[k][i] = lane[l][i + 1]
        BY <1>3, <4>1
      <4>3. QED
        BY <4>2 DEF Waited
    <3>2. CASE k # l
      BY <1>5, <2>1, <3>2 DEF Waited
    <3>3. QED
      BY <3>1, <3>2
  <2>2. QED
    BY <2>1
<1>10. Remaining' \in Nat /\ (Remaining' = 0 <=> \A k \in Lanes : Planned(lane'[k]) = {})
  BY <1>5, PlannedInCounts DEF Remaining
<1>11. CASE Item(l).by = Live
  <2>1. UNCHANGED <<drain, workDone, workFailed, workWaiter>>
    BY <1>11 DEF Ended, NoteWorkDone
  <2>2. Remaining' = Remaining
    BY <1>3, <1>8, <1>11
  <2>3. workWaiter = NoWaiter => \A k \in Lanes : Planned(lane'[k]) = {}
    <3>1. LanesTyped /\ Remaining \in Nat
      BY <1>1, RemainingCounts
    <3>2. workWaiter = NoWaiter => Remaining = 0
      BY <1>1, RemainingCounts DEF Waited
    <3>3. QED
      BY <1>10, <2>2, <3>2
  <2>4. Waited'
    BY <1>9, <2>1, <2>2, <2>3 DEF Waited
  <2>5. CounterTyped'
    BY <1>1, <2>1 DEF CounterTyped
  <2>6. QED
    BY <1>6, <1>11, <2>1, <2>4, <2>5
<1>12. CASE Item(l).by # Live
  <2>1. Item(l).by = workWaiter.for
    BY <1>3, <1>12 DEF Waited
  <2>2. workWaiter # NoWaiter /\ workWaiter.for \in Planners /\ workWaiter.target \in Nat
    <3>1. Item(l).by \in Planners
      BY <1>3, <1>12, ItemIs
    <3>2. QED
      BY <1>1, <2>1, <3>1, WaiterIs
  <2>3. /\ workDone \in Nat /\ workFailed \in Nat /\ workFailed <= workDone
        /\ workDone + Remaining = workWaiter.target
    BY <1>1, <2>2 DEF CounterTyped, Waited
  <2>4. /\ workDone' = workDone + 1 /\ workFailed' = workFailed + f
        /\ IF workDone' >= workWaiter.target
           THEN drain' = [drain EXCEPT ![workWaiter.for].at = "active"] /\ workWaiter' = NoWaiter
           ELSE UNCHANGED <<drain, workWaiter>>
    BY <1>12, <2>2 DEF Ended, NoteWorkDone
  <2>5. Remaining' = Remaining - 1
    BY <1>3, <1>8, <1>12
  <2>6. workDone' + Remaining' = workWaiter.target
    BY <1>8, <1>10, <2>3, <2>4, <2>5
  <2>7. workFailed' \in Nat /\ workDone' \in Nat /\ workFailed' <= workDone'
    BY <2>3, <2>4
  <2>8. CASE workDone' >= workWaiter.target
    <3>1. Remaining' = 0
      BY <1>10, <2>2, <2>6, <2>7, <2>8
    <3>2. \A k \in Lanes : Planned(lane'[k]) = {}
      BY <1>10, <3>1
    <3>3. drain' = [drain EXCEPT ![workWaiter.for].at = "active"] /\ workWaiter' = NoWaiter
      BY <2>4, <2>8
    <3>4. \A w \in Planners : drain'[w].at # "waiting"
      BY <1>1, <2>2, <3>3 DEF Waited, DrainType
    <3>5. NoWaiter.for \notin Planners
      BY <1>1, WaiterIs
    <3>6. Waited'
      BY <3>2, <3>3, <3>4, <3>5 DEF Waited
    <3>7. CounterTyped'
      BY <2>7, <3>3 DEF CounterTyped, WaiterType
    <3>8. QED
      BY <1>6, <1>12, <2>1, <2>2, <2>4, <3>3, <3>6, <3>7
  <2>9. CASE ~(workDone' >= workWaiter.target)
    <3>1. UNCHANGED <<drain, workWaiter>>
      BY <2>4, <2>9
    <3>2. Waited'
      BY <1>9, <2>2, <2>6, <3>1 DEF Waited
    <3>3. CounterTyped'
      BY <1>1, <2>7, <3>1 DEF CounterTyped
    <3>4. QED
      BY <1>6, <1>12, <2>1, <2>2, <2>4, <3>1, <3>2, <3>3
  <2>10. QED
    BY <2>8, <2>9
<1>13. QED
  BY <1>11, <1>12

-------------------------------------------------------------------------------
(* The steps of an item.                                                         *)

SpentTyped ==
  /\ spent \in [DOMAIN Limit -> Nat]
  /\ \A what \in DOMAIN Limit : spent[what] <= Limit[what]

(* Each use of a bound spends one.                                               *)
LEMMA Spending ==
  ASSUME SpentTyped, NEW what \in {"changes", "troubles", "rebuilds"}, Spend(what)
  PROVE  /\ SpentTyped'
         /\ spent'["changes"] = spent["changes"] + (IF what = "changes" THEN 1 ELSE 0)
         /\ spent["changes"] < MaxChanges \/ what # "changes"
<1>1. DOMAIN Limit = {"changes", "troubles", "rebuilds"} /\ Limit["changes"] = MaxChanges
  BY DEF Limit
<1>2. \A x \in DOMAIN Limit : Limit[x] \in Nat
  BY SmelterAssumption DEF Limit
<1>3. spent' = [spent EXCEPT ![what] = @ + 1] /\ spent[what] < Limit[what]
  BY DEF Spend
<1> HIDE DEF Limit
<1>4. /\ spent' \in [DOMAIN Limit -> Nat] /\ spent'[what] = spent[what] + 1
      /\ \A x \in DOMAIN Limit \ {what} : spent'[x] = spent[x]
  BY <1>1, <1>3 DEF SpentTyped
<1>5. \A x \in DOMAIN Limit : spent'[x] <= Limit[x]
  BY <1>1, <1>2, <1>3, <1>4 DEF SpentTyped
<1>6. SpentTyped'
  BY <1>4, <1>5 DEF SpentTyped, Limit
<1>7. spent'["changes"] = spent["changes"] + (IF what = "changes" THEN 1 ELSE 0)
  BY <1>1, <1>4 DEF SpentTyped
<1>8. QED
  BY <1>1, <1>3, <1>6, <1>7

(* The item goes on to its next call. *)
Moves(l) ==
  /\ UNCHANGED <<lane, drainVars, hurt>>
  /\ \E d \in DoingType : /\ d.step = "publish" => d.bytes \in Generations
                          /\ doing' = [doing EXCEPT ![l] = d]

LEMMA GotoMoves ==
  ASSUME LanesTyped, NEW l \in Lanes,
         NEW step \in {"upsert", "list", "annotate", "stamp", "unannotate"}, Goto(l, step)
  PROVE  Moves(l)
<1> DEFINE d == [doing[l] EXCEPT !.step = step]
<1>1. d \in DoingType /\ d.step = step
  BY DEF LanesTyped, DoingType
<1>2. doing' = [doing EXCEPT ![l] = d]
  BY DEF Goto
<1>3. QED
  BY <1>1, <1>2 DEF Moves, Goto

LEMMA GotoWithMoves ==
  ASSUME NEW l \in Lanes, NEW bytes \in Generations \cup {0}, NEW tags \in Generations \cup {0},
         NEW step \in {"decline", "tags", "upsert", "stamp", "publish"},
         step = "publish" => bytes \in Generations,
         GotoWith(l, step, bytes, tags)
  PROVE  Moves(l)
<1> DEFINE d == [step |-> step, bytes |-> bytes, tags |-> tags]
<1>1. d \in DoingType /\ d.step = step /\ d.bytes = bytes
  BY DEF DoingType
<1>2. doing' = [doing EXCEPT ![l] = d]
  BY DEF GotoWith
<1>3. QED
  BY <1>1, <1>2 DEF Moves, GotoWith

LEMMA LaneSteps ==
  ASSUME SmelterTypeOK, Data, NEW l \in Lanes, LaneStep(l) \/ FetchUnavailable(l) \/ Throws(l)
  PROVE  /\ lane[l] # <<>> /\ UNCHANGED outsideVars
         /\ StoresTyped' /\ drift' \in BOOLEAN
         /\ SpentTyped' /\ spent'["changes"] = spent["changes"]
         /\ Moves(l) \/ Ended(l, 0) \/ Ended(l, 1)
<1>1. /\ BackendTyped /\ LanesTyped /\ StoresTyped /\ drift \in BOOLEAN /\ SpentTyped
      /\ drift' = TRUE => drift' \in BOOLEAN
  BY TypesAre DEF Data, SpentTyped
<1>2. /\ catalog.bytes \in Generations /\ catalog.tags \in Generations
      /\ doing[l].bytes \in Generations \cup {0} /\ doing[l].tags \in Generations \cup {0}
      /\ NoVector \in Stamps /\ vector \in Stamps /\ annotated \in BOOLEAN
      /\ anchored \subseteq Generations
      /\ [bytes |-> doing[l].bytes, tags |-> doing[l].tags] \in Stamps
      /\ [vector EXCEPT !.tags = doing[l].tags] \in Stamps
  BY <1>1 DEF BackendTyped, LanesTyped, DoingType, StoresTyped, NoVector, Stamps
<1>3. ASSUME UNCHANGED spent PROVE SpentTyped' /\ spent'["changes"] = spent["changes"]
  BY <1>1, <1>3 DEF SpentTyped, Limit
<1>4. ASSUME Spend("troubles") PROVE SpentTyped' /\ spent'["changes"] = spent["changes"]
  <2>1. SpentTyped /\ "changes" \in DOMAIN Limit
    BY <1>1 DEF Limit
  <2>2. spent'["changes"] = spent["changes"] + 0 /\ SpentTyped'
    BY <1>4, <2>1, Spending
  <2>3. spent["changes"] \in Nat
    BY <2>1 DEF SpentTyped
  <2>4. QED
    BY <2>2, <2>3
<1>5. ASSUME Embedded(l) PROVE Moves(l) \/ Ended(l, 0)
  BY <1>1, <1>5, GotoMoves DEF Embedded, Done
<1>6. CASE FetchText(l)
  <2>1. /\ lane[l] # <<>> /\ UNCHANGED <<outsideVars, vector, annotated>>
        /\ GotoWith(l, IF catalog.bytes \in Declined THEN "decline" ELSE "tags", catalog.bytes, 0)
        /\ \/ anchored' = anchored \cup {catalog.bytes} /\ UNCHANGED <<drift, spent>>
           \/ Spend("troubles") /\ drift' = TRUE /\ UNCHANGED anchored
    BY <1>6 DEF FetchText, At
  <2>2. Moves(l)
    <3>1. CASE catalog.bytes \in Declined
      BY <1>2, <2>1, <3>1, GotoWithMoves
    <3>2. CASE catalog.bytes \notin Declined
      BY <1>2, <2>1, <3>2, GotoWithMoves
    <3>3. QED
      BY <3>1, <3>2
  <2>3. SpentTyped' /\ spent'["changes"] = spent["changes"]
    BY <1>3, <1>4, <2>1
  <2>4. StoresTyped' /\ drift' \in BOOLEAN
    BY <1>1, <1>2, <2>1 DEF StoresTyped
  <2>5. QED
    BY <2>1, <2>2, <2>3, <2>4
<1>7. CASE FetchUnavailable(l)
  <2>1. /\ lane[l] # <<>> /\ UNCHANGED outsideVars /\ UNCHANGED storeVars /\ drift' = TRUE
        /\ Spend("troubles") /\ Embedded(l)
    BY <1>7 DEF FetchUnavailable, At
  <2>2. StoresTyped'
    BY <1>1, <2>1 DEF StoresTyped, storeVars
  <2>3. QED
    BY <1>4, <1>5, <2>1, <2>2
<1>8. CASE Throws(l)
  <2>1. /\ lane[l] # <<>> /\ UNCHANGED outsideVars /\ UNCHANGED storeVars /\ drift' = TRUE
        /\ Spend("troubles") /\ Ended(l, 1)
    BY <1>8 DEF Throws
  <2>2. StoresTyped'
    BY <1>1, <2>1 DEF StoresTyped, storeVars
  <2>3. QED
    BY <1>4, <2>1, <2>2
<1>9. CASE Decline(l)
  <2>1. /\ lane[l] # <<>> /\ vector' = NoVector /\ Embedded(l)
        /\ UNCHANGED <<outsideVars, annotated, anchored, drift, spent>>
    BY <1>9 DEF Decline, At
  <2>2. StoresTyped'
    BY <1>2, <2>1 DEF StoresTyped
  <2>3. QED
    BY <1>1, <1>3, <1>5, <2>1, <2>2
<1>10. CASE ResolveEntityTypes(l)
  <2>1. /\ lane[l] # <<>> /\ GotoWith(l, "upsert", doing[l].bytes, catalog.tags)
        /\ UNCHANGED <<outsideVars, storeVars, drift, spent>>
    BY <1>10 DEF ResolveEntityTypes, At
  <2>2. StoresTyped'
    BY <1>1, <2>1 DEF StoresTyped, storeVars
  <2>3. Moves(l)
    BY <1>2, <2>1, GotoWithMoves
  <2>4. QED
    BY <1>1, <1>3, <2>1, <2>2, <2>3
<1>11. CASE Upsert(l)
  <2>1. /\ lane[l] # <<>> /\ vector' = [bytes |-> doing[l].bytes, tags |-> doing[l].tags] /\ Embedded(l)
        /\ UNCHANGED <<outsideVars, annotated, anchored, drift, spent>>
    BY <1>11 DEF Upsert, At
  <2>2. StoresTyped'
    BY <1>2, <2>1 DEF StoresTyped
  <2>3. QED
    BY <1>1, <1>3, <1>5, <2>1, <2>2
<1>12. CASE ListAnnotations(l)
  <2>1. /\ lane[l] # <<>> /\ UNCHANGED <<outsideVars, storeVars, drift, spent>>
        /\ Goto(l, "annotate") \/ Done(l)
    BY <1>12 DEF ListAnnotations, At
  <2>2. StoresTyped'
    BY <1>1, <2>1 DEF StoresTyped, storeVars
  <2>3. Moves(l) \/ Ended(l, 0)
    BY <1>1, <2>1, GotoMoves DEF Done
  <2>4. QED
    BY <1>1, <1>3, <2>1, <2>2, <2>3
<1>13. CASE IndexAnnotation(l)
  <2>1. /\ lane[l] # <<>> /\ annotated' = TRUE /\ Ended(l, 0)
        /\ UNCHANGED <<outsideVars, vector, anchored, drift, spent>>
    BY <1>13 DEF IndexAnnotation, At, Done
  <2>2. StoresTyped'
    BY <1>2, <2>1 DEF StoresTyped
  <2>3. QED
    BY <1>1, <1>3, <2>1, <2>2
<1>14. CASE RemoveAnnotation(l)
  <2>1. /\ lane[l] # <<>> /\ annotated' = FALSE /\ Ended(l, 0)
        /\ UNCHANGED <<outsideVars, vector, anchored, spent>>
        /\ drift' = (drift \/ PurgesRestored(l))
    BY <1>14 DEF RemoveAnnotation, At, Done
  <2>2. StoresTyped'
    BY <1>2, <2>1 DEF StoresTyped
  <2>3. drift' \in BOOLEAN
    BY <2>1
  <2>4. QED
    BY <1>3, <2>1, <2>2, <2>3
<1>15. CASE Archive(l)
  <2>1. /\ lane[l] # <<>> /\ vector' = NoVector /\ Goto(l, "unannotate")
        /\ UNCHANGED <<outsideVars, annotated, anchored, drift, spent>>
    BY <1>15 DEF Archive, At
  <2>2. StoresTyped'
    BY <1>2, <2>1 DEF StoresTyped
  <2>3. Moves(l)
    BY <1>1, <2>1, GotoMoves
  <2>4. QED
    BY <1>1, <1>3, <2>1, <2>2, <2>3
<1>16. CASE DeleteAnnotations(l)
  <2>1. /\ lane[l] # <<>> /\ annotated' = FALSE /\ Ended(l, 0)
        /\ UNCHANGED <<outsideVars, vector, anchored, drift, spent>>
    BY <1>16 DEF DeleteAnnotations, At, Done
  <2>2. StoresTyped'
    BY <1>2, <2>1 DEF StoresTyped
  <2>3. QED
    BY <1>1, <1>3, <2>1, <2>2
<1>17. CASE Purge(l)
  <2>1. /\ lane[l] # <<>> /\ vector' = NoVector /\ Ended(l, 0)
        /\ UNCHANGED <<outsideVars, annotated, anchored, drift, spent>>
    BY <1>17 DEF Purge, At, Done
  <2>2. StoresTyped'
    BY <1>2, <2>1 DEF StoresTyped
  <2>3. QED
    BY <1>1, <1>3, <2>1, <2>2
<1>18. CASE ReadTags(l)
  <2>1. /\ lane[l] # <<>> /\ GotoWith(l, "stamp", 0, catalog.tags)
        /\ UNCHANGED <<outsideVars, storeVars, drift, spent>>
    BY <1>18 DEF ReadTags, At
  <2>2. StoresTyped'
    BY <1>1, <2>1 DEF StoresTyped, storeVars
  <2>3. Moves(l)
    BY <1>2, <2>1, GotoWithMoves
  <2>4. QED
    BY <1>1, <1>3, <2>1, <2>2, <2>3
<1>19. CASE Restamp(l)
  <2>1. /\ lane[l] # <<>> /\ Ended(l, 0)
        /\ vector' = (IF vector = NoVector THEN NoVector ELSE [vector EXCEPT !.tags = doing[l].tags])
        /\ UNCHANGED <<outsideVars, annotated, anchored, drift, spent>>
    BY <1>19 DEF Restamp, At, Done
  <2>2. StoresTyped'
    BY <1>2, <2>1 DEF StoresTyped
  <2>3. QED
    BY <1>1, <1>3, <2>1, <2>2
<1>20. CASE ReadBytes(l)
  <2>1. /\ lane[l] # <<>>
        /\ Ended(l, 0) \/ GotoWith(l, "publish", catalog.bytes, 0)
        /\ UNCHANGED <<outsideVars, storeVars, drift, spent>>
    BY <1>20 DEF ReadBytes, At, Done
  <2>2. StoresTyped'
    BY <1>1, <2>1 DEF StoresTyped, storeVars
  <2>3. Moves(l) \/ Ended(l, 0)
    BY <1>2, <2>1, GotoWithMoves
  <2>4. QED
    BY <1>1, <1>3, <2>1, <2>2, <2>3
<1>21. CASE PutAnchoredText(l)
  <2>1. /\ lane[l] # <<>> /\ doing[l].step = "publish" /\ Ended(l, 0)
        /\ anchored' = anchored \cup {doing[l].bytes}
        /\ UNCHANGED <<outsideVars, vector, annotated, drift, spent>>
    BY <1>21 DEF PutAnchoredText, At, Done
  <2>2. doing[l].bytes \in Generations
    BY <2>1 DEF Data
  <2>3. StoresTyped'
    BY <1>2, <2>1, <2>2 DEF StoresTyped
  <2>4. QED
    BY <1>1, <1>3, <2>1, <2>3
<1>22. QED
  BY <1>6, <1>7, <1>8, <1>9, <1>10, <1>11, <1>12, <1>13, <1>14, <1>15, <1>16, <1>17, <1>18,
     <1>19, <1>20, <1>21 DEF LaneStep

-------------------------------------------------------------------------------
(* The chain of the planners.                                                    *)

Chains == {c \in Seq(Planners) : \A i, j \in DOMAIN c : c[i] = c[j] => i = j}

InChain(c, w) == \E i \in DOMAIN c : c[i] = w

LEMMA ChainGrows ==
  ASSUME NEW c \in Chains, NEW w \in Planners, ~InChain(c, w)
  PROVE  /\ Append(c, w) \in Chains /\ Append(c, w) # <<>>
         /\ \A v \in Planners : InChain(Append(c, w), v) <=> InChain(c, v) \/ v = w
         /\ c # <<>> => Head(Append(c, w)) = Head(c)
<1> DEFINE d == Append(c, w)
<1>1. c \in Seq(Planners) /\ \A i, j \in DOMAIN c : c[i] = c[j] => i = j
  BY DEF Chains
<1>2. /\ Len(c) \in Nat /\ DOMAIN c = 1 .. Len(c)
      /\ d \in Seq(Planners) /\ DOMAIN d = 1 .. (Len(c) + 1) /\ d # <<>>
      /\ d[Len(c) + 1] = w
      /\ \A i \in 1 .. Len(c) : d[i] = c[i]
  BY <1>1
<1>3. c # <<>> => Head(d) = Head(c)
  BY <1>1
<1> HIDE DEF d
<1>4. \A i \in DOMAIN d : i \in DOMAIN c \/ i = Len(c) + 1
  BY <1>2
<1>5. \A i \in DOMAIN c : d[i] = c[i] /\ i \in DOMAIN d /\ c[i] # w
  BY <1>2 DEF InChain
<1>6. \A i, j \in DOMAIN d : d[i] = d[j] => i = j
  BY <1>1, <1>2, <1>4, <1>5
<1>7. \A v \in Planners : InChain(d, v) <=> InChain(c, v) \/ v = w
  BY <1>2, <1>4, <1>5 DEF InChain
<1>8. QED
  BY <1>2, <1>3, <1>6, <1>7 DEF Chains, d

LEMMA ChainShrinks ==
  ASSUME NEW c \in Chains, c # <<>>
  PROVE  /\ Tail(c) \in Chains /\ Head(c) \in Planners
         /\ \A v \in Planners : InChain(Tail(c), v) <=> InChain(c, v) /\ v # Head(c)
<1> DEFINE d == Tail(c)
<1>1. c \in Seq(Planners) /\ \A i, j \in DOMAIN c : c[i] = c[j] => i = j
  BY DEF Chains
<1>2. /\ Len(c) \in Nat /\ Len(c) # 0 /\ DOMAIN c = 1 .. Len(c)
      /\ d \in Seq(Planners) /\ DOMAIN d = 1 .. (Len(c) - 1)
      /\ Head(c) = c[1] /\ Head(c) \in Planners
      /\ \A i \in 1 .. (Len(c) - 1) : d[i] = c[i + 1]
  BY <1>1
<1> HIDE DEF d
<1>3. \A i \in DOMAIN d : i + 1 \in DOMAIN c /\ i + 1 # 1 /\ d[i] = c[i + 1] /\ i \in Int
  BY <1>2
<1>4. \A i \in DOMAIN c : i = 1 \/ (i - 1 \in DOMAIN d /\ (i - 1) + 1 = i)
  BY <1>2
<1>5. 1 \in DOMAIN c
  BY <1>2
<1>6. ASSUME NEW i \in DOMAIN d, NEW j \in DOMAIN d, d[i] = d[j] PROVE i = j
  <2>1. i + 1 = j + 1
    BY <1>1, <1>3, <1>6
  <2>2. QED
    BY <1>3, <2>1
<1>7. ASSUME NEW v \in Planners PROVE InChain(d, v) <=> InChain(c, v) /\ v # Head(c)
  <2>1. ASSUME NEW i \in DOMAIN d, d[i] = v PROVE InChain(c, v) /\ v # Head(c)
    <3>1. c[i + 1] = v /\ i + 1 \in DOMAIN c /\ i + 1 # 1
      BY <1>3, <2>1
    <3>2. v # c[1]
      BY <1>1, <1>5, <3>1
    <3>3. QED
      BY <1>2, <3>1, <3>2 DEF InChain
  <2>2. ASSUME NEW i \in DOMAIN c, c[i] = v, v # Head(c) PROVE InChain(d, v)
    <3>1. i # 1
      BY <1>2, <2>2
    <3>2. i - 1 \in DOMAIN d /\ d[i - 1] = c[(i - 1) + 1] /\ (i - 1) + 1 = i
      BY <1>3, <1>4, <3>1
    <3>3. QED
      BY <2>2, <3>2 DEF InChain
  <2>3. QED
    BY <2>1, <2>2 DEF InChain
<1>8. QED
  BY <1>2, <1>6, <1>7 DEF Chains, d

LEMMA TurnsAre ==
  ASSUME chain \in Seq(Planners)
  PROVE
  Turns <=> /\ chain \in Chains
            /\ \A w \in Planners : Busy(w) <=> InChain(chain, w)
            /\ \A w \in Planners : drain[w].at \in {"active", "waiting"} => chain # <<>> /\ Head(chain) = w
  BY DEF Turns, Chains, InChain

LEMMA TurnsAreNext ==
  ASSUME chain' \in Seq(Planners)
  PROVE
  Turns' <=> /\ chain' \in Chains
             /\ \A w \in Planners : Busy(w)' <=> InChain(chain', w)
             /\ \A w \in Planners : drain'[w].at \in {"active", "waiting"} => chain' # <<>> /\ Head(chain') = w
  BY DEF Turns, Chains, InChain

-------------------------------------------------------------------------------
(* The steps preserve the invariant.                                             *)

LEMMA DataAfterSpending ==
  ASSUME Data, SpentTyped', spent'["changes"] = spent["changes"], UNCHANGED catalog,
         \A l \in Lanes : doing'[l].step = "publish" => doing'[l].bytes \in Generations
  PROVE  Data'
  BY DEF Data, SpentTyped

LEMMA SpentKept ==
  ASSUME Data, UNCHANGED spent
  PROVE  SpentTyped' /\ spent'["changes"] = spent["changes"]
  BY DEF Data, SpentTyped

LEMMA SpentOther ==
  ASSUME Data, NEW what \in {"troubles", "rebuilds"}, Spend(what)
  PROVE  SpentTyped' /\ spent'["changes"] = spent["changes"]
<1>1. SpentTyped
  BY DEF Data, SpentTyped
<1>2. SpentTyped' /\ spent'["changes"] = spent["changes"] + 0
  BY <1>1, Spending
<1>3. spent["changes"] \in Nat
  BY <1>1 DEF SpentTyped, Limit
<1>4. QED
  BY <1>2, <1>3

(* An item that moves on. *)
LEMMA MovesKeep ==
  ASSUME Inv, NEW l \in Lanes, lane[l] # <<>>, UNCHANGED outsideVars, StoresTyped',
         drift' \in BOOLEAN, SpentTyped', spent'["changes"] = spent["changes"], Moves(l)
  PROVE  Inv'
<1>1. PICK d \in DoingType : (d.step = "publish" => d.bytes \in Generations) /\ doing' = [doing EXCEPT ![l] = d]
  BY DEF Moves
<1>2. LanesTyped /\ UNCHANGED lane
  BY TypesAre DEF Inv, Moves
<1>3. doing' \in [Lanes -> DoingType] /\ doing'[l] = d /\ \A k \in Lanes \ {l} : doing'[k] = doing[k]
  BY <1>1, <1>2 DEF LanesTyped
<1>4. LanesTyped'
  BY <1>2, <1>3 DEF LanesTyped
<1>5. UNCHANGED <<catalog, news, stream, plan, reply, lane, drain, chain, workDone, workFailed, workWaiter, hurt, interrupted>>
  BY DEF Moves, outsideVars, backendVars, drainVars
<1>6. SmelterTypeOK'
  BY <1>4, <1>5, TypesAre, TypesAreNext DEF Inv, BackendTyped, CounterTyped
<1>7. Data'
  BY <1>1, <1>3, <1>5, DataAfterSpending DEF Inv, Data
<1>8. Begins' /\ Answers'
  BY <1>5 DEF Inv, Begins, Idle, Answers, RebuildHonest
<1>9. Turns' /\ OwnWork'
  BY <1>5 DEF Inv, Turns, Busy, OwnWork
<1>10. Waited'
  BY <1>5 DEF Inv, Waited, Remaining
<1>11. QED
  BY <1>6, <1>7, <1>8, <1>9, <1>10 DEF Inv

(* An item that ends. *)
LEMMA EndedKeeps ==
  ASSUME Inv, NEW l \in Lanes, lane[l] # <<>>, UNCHANGED outsideVars, StoresTyped',
         drift' \in BOOLEAN, SpentTyped', spent'["changes"] = spent["changes"],
         NEW f \in {0, 1}, Ended(l, f)
  PROVE  Inv'
<1>1. /\ LanesTyped' /\ CounterTyped' /\ Waited'
      /\ drain' = drain
         \/ (workWaiter # NoWaiter /\ drain' = [drain EXCEPT ![workWaiter.for].at = "active"])
      /\ Item(l).by = Live => workFailed' = workFailed
      /\ Item(l).by # Live => /\ workFailed' = workFailed + f
                              /\ workWaiter # NoWaiter /\ Item(l).by = workWaiter.for
  BY ItemEnds DEF Inv
<1>2. CounterTyped /\ LanesTyped /\ drain \in [Planners -> DrainType] /\ Waited /\ hurt \in BOOLEAN
  BY TypesAre DEF Inv
<1>3. /\ drain' \in [Planners -> DrainType]
      /\ \A w \in Planners :
           /\ drain'[w].todo = drain[w].todo /\ drain'[w].before = drain[w].before
           /\ drain'[w].failures = drain[w].failures
           /\ drain'[w].at = drain[w].at \/ (drain[w].at = "waiting" /\ drain'[w].at = "active")
  BY <1>1, <1>2, DrainAfterItem
<1>4. /\ UNCHANGED <<catalog, news, stream, plan, reply, interrupted, chain>>
      /\ hurt' = (hurt \/ (f = 1 /\ Item(l).by = "rebuild"))
      /\ lane' = [lane EXCEPT ![l] = Tail(@)] /\ doing' = [doing EXCEPT ![l] = NotStarted]
  BY DEF Ended, outsideVars, backendVars
<1>5. SmelterTypeOK'
  <2>1. BackendTyped' /\ hurt' \in BOOLEAN
    BY <1>4, <1>2, TypesAre DEF Inv, BackendTyped
  <2>2. QED
    BY <1>1, <1>3, <1>4, <2>1, TypesAre, TypesAreNext DEF Inv
<1>6. Data'
  <2>1. NotStarted.step # "publish"
    BY DEF NotStarted
  <2>2. \A k \in Lanes : doing'[k] = doing[k] \/ doing'[k] = NotStarted
    BY <1>2, <1>4 DEF LanesTyped
  <2>3. \A k \in Lanes : doing'[k].step = "publish" => doing'[k].bytes \in Generations
    BY <2>1, <2>2 DEF Inv, Data
  <2>4. QED
    BY <1>4, <2>3, DataAfterSpending DEF Inv
<1>7. Begins'
  <2>1. stream # "down"
    <3>1. ASSUME stream = "down" PROVE lane[l] = <<>>
      BY <3>1 DEF Inv, Begins
    <3>2. QED
      BY <3>1
  <2>2. \A w \in Planners : Idle(w) => Idle(w)'
    BY <1>3 DEF Idle
  <2>3. QED
    BY <1>4, <2>1, <2>2 DEF Inv, Begins, Planners
<1>8. Turns'
  <2>1. \A w \in Planners : Busy(w)' <=> Busy(w)
    BY <1>3 DEF Busy
  <2>2. \A w \in Planners : drain'[w].at \in {"active", "waiting"} => drain[w].at \in {"active", "waiting"}
    BY <1>3
  <2>3. QED
    BY <1>4, <2>1, <2>2 DEF Inv, Turns
<1>9. OwnWork'
  BY <1>3 DEF Inv, OwnWork
<1>10. Answers'
  <2>1. /\ workFailed \in Nat /\ workFailed' \in Nat /\ workFailed <= workFailed'
    BY <1>1, <1>2 DEF CounterTyped
  <2>2. "rebuild" \in Planners /\ \A w \in Planners : drain[w].before \in Nat
    BY <1>2 DEF Planners, DrainType
  <2>3. \A w \in Planners : drain'[w].before <= workFailed'
    BY <1>3, <2>1, <2>2 DEF Inv, Answers
  <2>4. CASE drain["rebuild"].at # "waiting"
    <3>1. Item(l).by # "rebuild"
      BY <1>1, <2>2, <2>4 DEF Inv, Waited, Live
    <3>2. hurt' = hurt
      BY <1>2, <1>4, <3>1
    <3>3. drain'["rebuild"].at = drain["rebuild"].at
      BY <1>3, <2>2, <2>4
    <3>4. drain["rebuild"].at = "active" => workFailed' = workFailed
      <4>1. SUFFICES ASSUME drain["rebuild"].at = "active", Item(l).by # Live PROVE FALSE
        BY <1>1
      <4>2. workWaiter.for \in Planners
        BY <1>1, <1>2, <4>1, WaiterIs
      <4>3. drain[workWaiter.for].at = "waiting"
        BY <4>2 DEF Inv, Waited
      <4>4. Head(chain) = workWaiter.for /\ Head(chain) = "rebuild"
        BY <2>2, <4>1, <4>2, <4>3 DEF Inv, Turns
      <4>5. QED
        BY <2>4, <4>3, <4>4
    <3>5. QED
      BY <1>3, <1>4, <2>2, <2>3, <2>4, <3>2, <3>3, <3>4 DEF Inv, Answers, Idle, RebuildHonest
  <2>5. CASE drain["rebuild"].at = "waiting"
    <3>1. workWaiter.for = "rebuild"
      BY <2>2, <2>5 DEF Inv, Waited
    <3>2. drain'["rebuild"].at \in {"waiting", "active"}
      BY <1>3, <2>2, <2>5
    <3>3. hurt <=> workFailed > drain["rebuild"].before
      BY <2>5 DEF Inv, Answers
    <3>4. hurt' <=> workFailed' > drain'["rebuild"].before
      <4>1. drain'["rebuild"].before = drain["rebuild"].before /\ drain["rebuild"].before \in Nat
            /\ drain["rebuild"].before <= workFailed
        BY <1>3, <2>2 DEF Inv, Answers
      <4>2. CASE Item(l).by = Live
        BY <1>1, <1>4, <3>3, <4>1, <4>2 DEF Live
      <4>3. CASE Item(l).by # Live
        <5>1. workFailed' = workFailed + f /\ Item(l).by = "rebuild"
          BY <1>1, <3>1, <4>3
        <5>2. CASE f = 1
          <6>1. hurt' = TRUE
            BY <1>2, <1>4, <5>1, <5>2
          <6>2. workFailed' > drain["rebuild"].before
            BY <2>1, <4>1, <5>1, <5>2
          <6>3. QED
            BY <4>1, <6>1, <6>2
        <5>3. CASE f = 0
          BY <1>2, <1>4, <2>1, <3>3, <4>1, <5>1, <5>3
        <5>4. QED
          BY <5>2, <5>3
      <4>4. QED
        BY <4>2, <4>3
    <3>5. reply' = "none"
      BY <1>4, <2>5 DEF Inv, Answers, Idle
    <3>6. QED
      BY <2>3, <3>2, <3>4, <3>5 DEF Answers, Idle
  <2>6. QED
    BY <2>4, <2>5
<1>11. QED
  BY <1>1, <1>5, <1>6, <1>7, <1>8, <1>9, <1>10 DEF Inv

LEMMA LaneStepKeeps ==
  ASSUME Inv, NEW l \in Lanes, LaneStep(l) \/ FetchUnavailable(l) \/ Throws(l)
  PROVE  Inv'
<1>1. SmelterTypeOK /\ Data
  BY DEF Inv
<1>2. /\ lane[l] # <<>> /\ UNCHANGED outsideVars
      /\ StoresTyped' /\ drift' \in BOOLEAN
      /\ SpentTyped' /\ spent'["changes"] = spent["changes"]
      /\ Moves(l) \/ Ended(l, 0) \/ Ended(l, 1)
  BY <1>1, LaneSteps
<1>3. CASE Moves(l)
  BY <1>2, <1>3, MovesKeep
<1>4. CASE Ended(l, 0)
  BY <1>2, <1>4, EndedKeeps
<1>5. CASE Ended(l, 1)
  BY <1>2, <1>5, EndedKeeps
<1>6. QED
  BY <1>2, <1>3, <1>4, <1>5

-------------------------------------------------------------------------------
(* The drains.                                                                   *)

(* What an action that leaves the items and the backend alone needs not say.     *)
LEMMA DataLeftAlone ==
  ASSUME Data, UNCHANGED <<spent, catalog, doing>>
  PROVE  Data'
  BY DEF Data

(* A planner enters the chain with its own items. *)
LEMMA EnqueueKeeps ==
  ASSUME SmelterTypeOK, Turns, OwnWork, Waited, NEW w \in Planners, ~Busy(w),
         NEW work \in Seq(Items), \A i \in DOMAIN work : work[i].by = w,
         Enqueue(w, work), UNCHANGED lane
  PROVE  /\ drain' \in [Planners -> DrainType] /\ chain' \in Seq(Planners)
         /\ Turns' /\ OwnWork' /\ Waited'
         /\ drain'[w].at = "queued" /\ drain'[w].before = 0
         /\ \A v \in Planners \ {w} : drain'[v] = drain[v]
         /\ UNCHANGED <<workDone, workFailed, workWaiter>>
<1> DEFINE new == [NoDrain EXCEPT !.at = "queued", !.todo = work]
<1>1. drain \in [Planners -> DrainType] /\ chain \in Seq(Planners)
  BY TypesAre
<1>2. new \in DrainType /\ new.at = "queued" /\ new.todo = work /\ new.before = 0
  BY DEF NoDrain, DrainType
<1>3. /\ drain' = [drain EXCEPT ![w] = new] /\ chain' = Append(chain, w)
      /\ UNCHANGED <<workDone, workFailed, workWaiter>>
  BY DEF Enqueue
<1> HIDE DEF new
<1>4. /\ drain' \in [Planners -> DrainType] /\ drain'[w] = new
      /\ \A v \in Planners \ {w} : drain'[v] = drain[v]
  BY <1>1, <1>2, <1>3
<1>5. chain \in Chains /\ ~InChain(chain, w)
  BY <1>1, TurnsAre
<1>6. /\ chain' \in Chains /\ chain' # <<>>
      /\ \A v \in Planners : InChain(chain', v) <=> InChain(chain, v) \/ v = w
      /\ chain # <<>> => Head(chain') = Head(chain)
  BY <1>3, <1>5, ChainGrows
<1>7. chain' \in Seq(Planners)
  BY <1>6 DEF Chains
<1>8. Turns'
  <2>1. \A v \in Planners : Busy(v)' <=> InChain(chain', v)
    <3>1. \A v \in Planners \ {w} : Busy(v)' <=> Busy(v)
      BY <1>4 DEF Busy
    <3>2. Busy(w)'
      BY <1>2, <1>4 DEF Busy
    <3>3. QED
      BY <1>1, <1>6, <3>1, <3>2, TurnsAre
  <2>2. \A v \in Planners : drain'[v].at \in {"active", "waiting"} => chain' # <<>> /\ Head(chain') = v
    <3>1. ASSUME NEW v \in Planners, drain'[v].at \in {"active", "waiting"}
          PROVE  chain' # <<>> /\ Head(chain') = v
      <4>1. v # w /\ drain[v].at \in {"active", "waiting"}
        BY <1>2, <1>4, <3>1
      <4>2. QED
        BY <1>6, <4>1 DEF Turns
    <3>2. QED
      BY <3>1
  <2>3. QED
    BY <1>6, <1>7, <2>1, <2>2, TurnsAreNext
<1>9. OwnWork'
  BY <1>2, <1>4 DEF OwnWork
<1>10. Waited'
  <2>1. drain[w].at # "waiting"
    BY DEF Busy
  <2>2. \A v \in Planners : drain'[v].at = "waiting" <=> drain[v].at = "waiting"
    BY <1>2, <1>4, <2>1
  <2>3. QED
    BY <1>3, <2>2 DEF Waited, Remaining
<1>11. QED
  BY <1>2, <1>3, <1>4, <1>7, <1>8, <1>9, <1>10

(* A planner's turn begins: the failures before it are not its own. *)
LEMMA DrainStartKeeps ==
  ASSUME Inv, NEW w \in Planners, DrainStart(w)
  PROVE  Inv'
<1>1. /\ drain[w].at = "queued" /\ Head(chain) = w
      /\ drain' = [drain EXCEPT ![w].at = "active", ![w].before = workFailed]
      /\ UNCHANGED <<catalog, news, stream, vector, annotated, anchored, spent, lane, doing, plan, chain,
                     workDone, workFailed, workWaiter, reply, drift, hurt, interrupted>>
  BY DEF DrainStart, processVars, backendVars, storeVars, laneVars
<1>2. drain \in [Planners -> DrainType] /\ workFailed \in Nat
  BY TypesAre DEF Inv, CounterTyped
<1>3. /\ drain' \in [Planners -> DrainType]
      /\ drain'[w].at = "active" /\ drain'[w].before = workFailed /\ drain'[w].todo = drain[w].todo
      /\ \A v \in Planners \ {w} : drain'[v] = drain[v]
  BY <1>1, <1>2 DEF DrainType
<1>4. SmelterTypeOK'
  BY <1>1, <1>3, TypesAre, TypesAreNext DEF Inv, BackendTyped, LanesTyped, CounterTyped, StoresTyped
<1>5. Data'
  BY <1>1, DataLeftAlone DEF Inv
<1>6. Begins'
  <2>1. \A v \in Planners : Idle(v)' <=> Idle(v)
    BY <1>1, <1>3 DEF Idle
  <2>2. QED
    BY <1>1, <2>1 DEF Inv, Begins, Planners
<1>7. Turns'
  <2>1. \A v \in Planners : Busy(v)' <=> Busy(v)
    BY <1>1, <1>3 DEF Busy
  <2>2. chain # <<>>
    <3>1. \E i \in DOMAIN chain : chain[i] = w
      BY <1>1 DEF Inv, Turns, Busy
    <3>2. QED
      BY <3>1
  <2>3. QED
    BY <1>1, <1>3, <2>1, <2>2 DEF Inv, Turns
<1>8. OwnWork'
  BY <1>3 DEF Inv, OwnWork
<1>9. Waited'
  <2>1. \A v \in Planners : drain'[v].at = "waiting" <=> drain[v].at = "waiting"
    BY <1>1, <1>3
  <2>2. QED
    BY <1>1, <2>1 DEF Inv, Waited, Remaining
<1>10. Answers'
  <2>1. "rebuild" \in Planners
    BY DEF Planners
  <2>2. \A v \in Planners : drain'[v].before <= workFailed'
    BY <1>1, <1>2, <1>3 DEF Inv, Answers
  <2>3. CASE w = "rebuild"
    <3>1. ~hurt /\ reply = "none"
      BY <1>1, <2>3 DEF Inv, Answers, Idle
    <3>2. ~(workFailed > workFailed)
      BY <1>2
    <3>3. QED
      BY <1>1, <1>3, <2>2, <2>3, <3>1, <3>2 DEF Answers, Idle
  <2>4. CASE w # "rebuild"
    <3>1. drain'["rebuild"] = drain["rebuild"]
      BY <1>3, <2>1, <2>4
    <3>2. QED
      BY <1>1, <2>2, <3>1 DEF Inv, Answers, Idle, RebuildHonest
  <2>5. QED
    BY <2>3, <2>4
<1>11. QED
  BY <1>4, <1>5, <1>6, <1>7, <1>8, <1>9, <1>10 DEF Inv

(* A drain is over. *)
LEMMA DrainEndKeeps ==
  ASSUME Inv, NEW w \in Planners, DrainEnd(w)
  PROVE  Inv'
<1>1. /\ drain[w].at = "active" /\ chain' = Tail(chain)
      /\ drain' = [drain EXCEPT ![w].at = "over", ![w].failures = workFailed - drain[w].before]
      /\ UNCHANGED <<catalog, news, stream, vector, annotated, anchored, spent, lane, doing, plan,
                     workDone, workFailed, workWaiter, reply, drift, hurt, interrupted>>
  BY DEF DrainEnd, processVars, backendVars, storeVars, laneVars
<1>2. drain \in [Planners -> DrainType] /\ workFailed \in Nat /\ chain \in Seq(Planners)
  BY TypesAre DEF Inv, CounterTyped
<1>3. drain[w].before \in Nat /\ drain[w].before <= workFailed
  BY <1>2 DEF DrainType, Inv, Answers
<1>4. workFailed - drain[w].before \in Nat
  BY <1>2, <1>3
<1>5. /\ drain' \in [Planners -> DrainType]
      /\ drain'[w].at = "over" /\ drain'[w].before = drain[w].before /\ drain'[w].todo = drain[w].todo
      /\ drain'[w].failures = workFailed - drain[w].before
      /\ \A v \in Planners \ {w} : drain'[v] = drain[v]
  BY <1>1, <1>2, <1>4 DEF DrainType
<1>6. chain # <<>> /\ Head(chain) = w
  BY <1>1 DEF Inv, Turns
<1>7. chain \in Chains /\ \A v \in Planners : Busy(v) <=> InChain(chain, v)
  BY <1>2, TurnsAre DEF Inv
<1>8. /\ chain' \in Chains
      /\ \A v \in Planners : InChain(chain', v) <=> InChain(chain, v) /\ v # w
  BY <1>1, <1>6, <1>7, ChainShrinks
<1>9. chain' \in Seq(Planners)
  BY <1>8 DEF Chains
<1>10. SmelterTypeOK'
  BY <1>1, <1>5, <1>9, TypesAre, TypesAreNext DEF Inv, BackendTyped, LanesTyped, CounterTyped, StoresTyped
<1>11. Data'
  BY <1>1, DataLeftAlone DEF Inv
<1>12. Begins'
  <2>1. \A v \in Planners : Idle(v)' <=> Idle(v)
    BY <1>1, <1>5 DEF Idle
  <2>2. QED
    BY <1>1, <2>1 DEF Inv, Begins, Planners
<1>13. Turns'
  <2>1. \A v \in Planners : Busy(v)' <=> InChain(chain', v)
    <3>1. ~Busy(w)'
      BY <1>5 DEF Busy
    <3>2. \A v \in Planners \ {w} : Busy(v)' <=> Busy(v)
      BY <1>5 DEF Busy
    <3>3. QED
      BY <1>7, <1>8, <3>1, <3>2
  <2>2. \A v \in Planners : drain'[v].at \notin {"active", "waiting"}
    <3>1. ASSUME NEW v \in Planners, v # w PROVE drain[v].at \notin {"active", "waiting"}
      BY <1>6, <3>1 DEF Inv, Turns
    <3>2. QED
      BY <1>5, <3>1
  <2>3. QED
    BY <1>8, <1>9, <2>1, <2>2, TurnsAreNext
<1>14. OwnWork'
  BY <1>5 DEF Inv, OwnWork
<1>15. Waited'
  <2>1. \A v \in Planners : drain'[v].at = "waiting" <=> drain[v].at = "waiting"
    BY <1>1, <1>5
  <2>2. QED
    BY <1>1, <2>1 DEF Inv, Waited, Remaining
<1>16. Answers'
  <2>1. "rebuild" \in Planners
    BY DEF Planners
  <2>2. \A v \in Planners : drain'[v].before <= workFailed'
    BY <1>1, <1>2, <1>5 DEF Inv, Answers
  <2>3. CASE w = "rebuild"
    <3>1. (hurt <=> workFailed > drain["rebuild"].before) /\ reply = "none"
      BY <1>1, <2>3 DEF Inv, Answers, Idle
    <3>2. workFailed > drain["rebuild"].before <=> workFailed - drain["rebuild"].before > 0
      BY <1>2, <1>3, <2>3
    <3>3. QED
      BY <1>1, <1>5, <2>2, <2>3, <3>1, <3>2 DEF Answers, Idle
  <2>4. CASE w # "rebuild"
    <3>1. drain'["rebuild"] = drain["rebuild"]
      BY <1>5, <2>1, <2>4
    <3>2. QED
      BY <1>1, <2>2, <3>1 DEF Inv, Answers, Idle, RebuildHonest
  <2>5. QED
    BY <2>3, <2>4
<1>17. QED
  BY <1>10, <1>11, <1>12, <1>13, <1>14, <1>15, <1>16 DEF Inv

(* The items of a wave are divided among the lanes. *)
LEMMA WaveDivided ==
  ASSUME NEW wave \in Seq(Items)
  PROVE  LET Part(l) == Those(wave, {i \in 1 .. Len(wave) : LaneOf(wave[i]) = l}) IN
         /\ \A l \in Lanes : /\ Part(l) \in Seq(Items)
                             /\ \A k \in DOMAIN Part(l) : \E i \in DOMAIN wave : Part(l)[k] = wave[i]
         /\ Len(Part("resource")) + Len(Part("annotation")) = Len(wave)
<1> DEFINE S(l) == {i \in 1 .. Len(wave) : LaneOf(wave[i]) = l}
           Part(l) == Those(wave, S(l))
<1>1. Len(wave) \in Nat /\ DOMAIN wave = 1 .. Len(wave)
  OBVIOUS
<1>2. \A l \in Lanes : S(l) \in SUBSET DOMAIN wave
  BY <1>1
<1>3. ASSUME NEW l \in Lanes
      PROVE  /\ Part(l) \in Seq(Items)
             /\ \A k \in DOMAIN Part(l) : \E i \in DOMAIN wave : Part(l)[k] = wave[i]
  <2>1. S(l) \in SUBSET DOMAIN wave
    BY <1>2
  <2> HIDE DEF S
  <2>2. /\ Those(wave, S(l)) \in Seq(Items)
        /\ \A k \in DOMAIN Those(wave, S(l)) : \E i \in S(l) : Those(wave, S(l))[k] = wave[i]
    BY <2>1, ThoseKept
  <2>3. QED
    BY <2>1, <2>2
<1>4. IsFiniteSet(1 .. Len(wave)) /\ Cardinality(1 .. Len(wave)) = Len(wave)
  BY <1>1, FS_Interval
<1>5. \A l \in Lanes : IsFiniteSet(S(l)) /\ Cardinality(S(l)) \in Nat
  <2>1. ASSUME NEW l \in Lanes PROVE IsFiniteSet(S(l)) /\ Cardinality(S(l)) \in Nat
    <3>1. S(l) \in SUBSET (1 .. Len(wave))
      OBVIOUS
    <3> HIDE DEF S
    <3>2. IsFiniteSet(S(l))
      BY <1>4, <3>1, FS_Subset
    <3>3. QED
      BY <3>2, FS_CardinalityType
  <2>2. QED
    BY <2>1
<1>6. S("resource") \cup S("annotation") = 1 .. Len(wave)
  <2>1. \A i \in 1 .. Len(wave) : LaneOf(wave[i]) \in Lanes
    BY DEF LaneOf, Lanes
  <2>2. QED
    BY <2>1 DEF Lanes
<1>7. S("resource") \cap S("annotation") = {}
  OBVIOUS
<1>8. "resource" \in Lanes /\ "annotation" \in Lanes
  BY DEF Lanes
<1>9. \A l \in Lanes : Len(Part(l)) = Cardinality(S(l))
  BY <1>5 DEF Those
<1> HIDE DEF S, Part
<1>10. Cardinality(S("resource")) + Cardinality(S("annotation")) = Len(wave)
  <2>1. Cardinality(S("resource") \cup S("annotation"))
          = Cardinality(S("resource")) + Cardinality(S("annotation"))
            - Cardinality(S("resource") \cap S("annotation"))
    BY <1>5, <1>8, FS_Union
  <2>2. Cardinality(S("resource") \cap S("annotation")) = 0
    BY <1>7, FS_EmptySet
  <2>3. Cardinality(S("resource")) \in Nat /\ Cardinality(S("annotation")) \in Nat
    BY <1>5, <1>8
  <2>4. Cardinality(S("resource") \cup S("annotation")) = Len(wave)
    BY <1>4, <1>6
  <2>5. QED
    BY <2>1, <2>2, <2>3, <2>4
<1>11. Len(Part("resource")) + Len(Part("annotation")) = Len(wave)
  BY <1>8, <1>9, <1>10
<1>12. QED
  BY <1>3, <1>11 DEF Part, S

(* Without a waiter no planned item is left, so the new waiter counts the wave.  *)
LEMMA DrainWaveKeeps ==
  ASSUME Inv, NEW w \in Planners, DrainWave(w)
  PROVE  Inv'
<1> DEFINE todo == drain[w].todo
           n == IF Len(todo) < WaveSize THEN Len(todo) ELSE WaveSize
           wave == SubSeq(todo, 1, n)
           rest == SubSeq(todo, n + 1, Len(todo))
           Part(l) == Those(wave, {i \in 1 .. Len(wave) : LaneOf(wave[i]) = l})
<1>1. /\ LanesTyped /\ CounterTyped /\ drain \in [Planners -> DrainType] /\ chain \in Seq(Planners)
      /\ drift \in BOOLEAN
  BY TypesAre DEF Inv
<1>2. todo \in Seq(Items) /\ Len(todo) \in Nat
  <2>1. drain[w] \in DrainType
    BY <1>1
  <2>2. QED
    BY <2>1 DEF DrainType
<1>3. /\ drain[w].at = "active" /\ todo # <<>>
      /\ workWaiter' = [target |-> workDone + n, for |-> w]
      /\ drain' = [drain EXCEPT ![w].at = "waiting", ![w].todo = rest]
      /\ lane' = [l \in Lanes |-> lane[l] \o Those(wave, {i \in 1 .. n : LaneOf(wave[i]) = l})]
      /\ drift' = (drift \/ \E i \in 1 .. n : Overtaken(wave[i]))
      /\ UNCHANGED <<catalog, news, stream, vector, annotated, anchored, spent, doing, plan, chain,
                     workDone, workFailed, reply, hurt, interrupted>>
  BY DEF DrainWave, processVars, backendVars, storeVars
<1> HIDE DEF todo
<1>4. n \in 1 .. Len(todo) /\ n \in Nat /\ n # 0
  <2>1. Len(todo) # 0
    BY <1>2, <1>3
  <2>2. QED
    BY <1>2, <2>1, SmelterAssumption
<1> HIDE DEF n
<1>5. /\ wave \in Seq(Items) /\ rest \in Seq(Items)
      /\ DOMAIN wave = 1 .. n
      /\ \A i \in 1 .. n : i \in DOMAIN todo /\ wave[i] = todo[i]
      /\ DOMAIN rest = 1 .. (Len(todo) - n)
      /\ \A i \in 1 .. (Len(todo) - n) : i + n \in DOMAIN todo /\ rest[i] = todo[i + n]
  BY <1>2, <1>4, CutAt
<1>6. \A i \in DOMAIN todo : todo[i].by = w
  BY DEF Inv, OwnWork, todo
<1>7. (\A i \in DOMAIN wave : wave[i].by = w) /\ (\A i \in DOMAIN rest : rest[i].by = w)
  BY <1>5, <1>6
<1>8. Len(wave) = n
  BY <1>4
<1> HIDE DEF wave, rest
<1>9. /\ \A l \in Lanes : /\ Part(l) \in Seq(Items)
                          /\ \A k \in DOMAIN Part(l) : \E i \in DOMAIN wave : Part(l)[k] = wave[i]
      /\ Len(Part("resource")) + Len(Part("annotation")) = n
  BY <1>5, <1>8, WaveDivided
<1>10. \A l \in Lanes : lane'[l] = lane[l] \o Part(l)
  BY <1>3, <1>8
<1>11. lane' = [l \in Lanes |-> lane[l] \o Part(l)]
  BY <1>3, <1>8
<1> HIDE DEF Part
<1>12. /\ drain' \in [Planners -> DrainType]
       /\ drain'[w].at = "waiting" /\ drain'[w].todo = rest
       /\ drain'[w].before = drain[w].before
       /\ \A v \in Planners \ {w} : drain'[v] = drain[v]
  BY <1>1, <1>3, <1>5 DEF DrainType
<1>13. workWaiter = NoWaiter
  <2>1. SUFFICES ASSUME workWaiter # NoWaiter PROVE FALSE
    OBVIOUS
  <2>2. workWaiter.for \in Planners
    BY <1>1, <2>1, WaiterIs
  <2>3. drain[workWaiter.for].at = "waiting"
    BY <2>2 DEF Inv, Waited
  <2>4. Head(chain) = workWaiter.for /\ Head(chain) = w
    BY <1>3, <2>2, <2>3 DEF Inv, Turns
  <2>5. QED
    BY <1>3, <2>3, <2>4
<1>14. \A l \in Lanes : Planned(lane[l]) = {} /\ lane[l] \in Seq(Items)
  BY <1>1, <1>13 DEF Inv, Waited, LanesTyped
<1>15. ASSUME NEW l \in Lanes
       PROVE  /\ lane'[l] \in Seq(Items) /\ (lane[l] # <<>> => lane'[l] # <<>>)
              /\ \A i \in Planned(lane'[l]) : lane'[l][i].by = w
              /\ Cardinality(Planned(lane'[l])) = Len(Part(l))
  <2>1. Part(l) \in Seq(Items) /\ \A k \in DOMAIN Part(l) : Part(l)[k].by = w
    BY <1>7, <1>9
  <2>2. /\ lane[l] \o Part(l) \in Seq(Items)
        /\ lane[l] # <<>> => lane[l] \o Part(l) # <<>>
        /\ \A i \in Planned(lane[l] \o Part(l)) : (lane[l] \o Part(l))[i].by = w
        /\ Cardinality(Planned(lane[l] \o Part(l))) = Len(Part(l))
    BY <1>14, <2>1, PlannedAfterWave
  <2>3. lane'[l] = lane[l] \o Part(l)
    BY <1>10
  <2>4. QED
    BY <2>2, <2>3
<1>16. LanesTyped'
  <2>1. lane' \in [Lanes -> Seq(Items)]
    BY <1>11, <1>15
  <2>2. QED
    BY <1>1, <1>3, <1>15, <2>1 DEF LanesTyped
<1>17. CounterTyped'
  <2>1. workDone \in Nat /\ workDone + n \in Nat \ {0}
    BY <1>1, <1>4 DEF CounterTyped
  <2>2. workWaiter' \in WaiterType
    BY <1>3, <2>1 DEF WaiterType
  <2>3. QED
    BY <1>1, <1>3, <2>2 DEF CounterTyped
<1>18. SmelterTypeOK'
  <2>1. drift' \in BOOLEAN
    BY <1>3
  <2>2. QED
    BY <1>3, <1>12, <1>16, <1>17, <2>1, TypesAre, TypesAreNext DEF Inv, BackendTyped, StoresTyped
<1>19. Data'
  BY <1>3, DataLeftAlone DEF Inv
<1>20. Begins'
  <2>1. \A v \in Planners : Idle(v)' <=> Idle(v)
    BY <1>3, <1>12 DEF Idle
  <2>2. ~Idle(w)
    BY <1>3 DEF Idle
  <2>3. stream # "down"
    BY <2>2 DEF Inv, Begins
  <2>4. QED
    BY <1>3, <2>1, <2>3 DEF Inv, Begins, Planners
<1>21. Turns'
  <2>1. \A v \in Planners : Busy(v)' <=> Busy(v)
    BY <1>3, <1>12 DEF Busy
  <2>2. \A v \in Planners : drain'[v].at \in {"active", "waiting"} => drain[v].at \in {"active", "waiting"}
    BY <1>3, <1>12
  <2>3. QED
    BY <1>3, <2>1, <2>2 DEF Inv, Turns
<1>22. OwnWork'
  BY <1>7, <1>12 DEF Inv, OwnWork
<1>23. Waited'
  <2>1. workWaiter' # NoWaiter /\ workWaiter'.for = w /\ workWaiter'.target = workDone + n
    BY <1>3 DEF NoWaiter, Planners
  <2>2. \A l \in Lanes : \A i \in Planned(lane'[l]) : lane'[l][i].by = workWaiter'.for
    BY <1>15, <2>1
  <2>3. \A v \in Planners : drain'[v].at = "waiting" <=> v = w
    <3>1. \A v \in Planners \ {w} : drain[v].at # "waiting"
      BY <1>13 DEF Inv, Waited, NoWaiter, Planners
    <3>2. QED
      BY <1>12, <3>1
  <2>4. Remaining' = n
    <3>1. "resource" \in Lanes /\ "annotation" \in Lanes
      BY DEF Lanes
    <3>2. Remaining' = Len(Part("resource")) + Len(Part("annotation"))
      BY <1>15, <3>1 DEF Remaining, PlannedIn
    <3>3. QED
      BY <1>9, <3>2
  <2>5. workDone' + Remaining' = workWaiter'.target
    BY <1>3, <2>1, <2>4
  <2>6. QED
    BY <2>1, <2>2, <2>3, <2>5 DEF Waited
<1>24. Answers'
  <2>1. "rebuild" \in Planners
    BY DEF Planners
  <2>2. \A v \in Planners : drain'[v].before <= workFailed'
    BY <1>3, <1>12 DEF Inv, Answers
  <2>3. CASE w = "rebuild"
    BY <1>3, <1>12, <2>2, <2>3 DEF Inv, Answers, Idle
  <2>4. CASE w # "rebuild"
    <3>1. drain'["rebuild"] = drain["rebuild"]
      BY <1>12, <2>1, <2>4
    <3>2. QED
      BY <1>3, <2>2, <3>1 DEF Inv, Answers, Idle, RebuildHonest
  <2>5. QED
    BY <2>3, <2>4
<1>25. QED
  BY <1>18, <1>19, <1>20, <1>21, <1>22, <1>23, <1>24 DEF Inv

-------------------------------------------------------------------------------
(* Reconcile and the rebuild.                                                    *)

(* Steps that leave the lanes, the drains and the backend alone. *)
LEMMA PlanKeeps ==
  ASSUME Inv,
         UNCHANGED <<catalog, news, stream, vector, annotated, anchored, spent, lane, doing, drain, chain,
                     workDone, workFailed, workWaiter, reply, drift, hurt, interrupted>>,
         plan' \in PlanType,
         plan'.phase \in {"no", "snapshot", "annotations"} => plan.phase \in {"no", "snapshot", "annotations"},
         stream # "down"
  PROVE  Inv'
<1>1. SmelterTypeOK'
  BY TypesAre, TypesAreNext DEF Inv, BackendTyped, LanesTyped, CounterTyped, StoresTyped
<1>2. Data'
  BY DataLeftAlone DEF Inv
<1>3. Begins'
  BY DEF Inv, Begins, Idle
<1>4. Turns' /\ OwnWork'
  BY DEF Inv, Turns, Busy, OwnWork
<1>5. Waited'
  BY DEF Inv, Waited, Remaining
<1>6. Answers'
  BY DEF Inv, Answers, Idle, RebuildHonest
<1>7. QED
  BY <1>1, <1>2, <1>3, <1>4, <1>5, <1>6 DEF Inv

LEMMA SnapshotKeeps ==
  ASSUME Inv, NEW what \in plan.unread, Snapshot(what)
  PROVE  Inv'
<1>1. plan \in PlanType /\ StoresTyped
  BY TypesAre DEF Inv
<1>2. what \in {"vectors", "annotations", "anchors"}
  BY <1>1 DEF PlanType
<1>3. plan' \in PlanType /\ plan'.phase = plan.phase
  BY <1>1, <1>2 DEF Snapshot, PlanType, StoresTyped
<1>4. stream # "down"
  BY DEF Inv, Begins, Snapshot
<1>5. QED
  BY <1>3, <1>4, PlanKeeps DEF Snapshot, processVars, backendVars, storeVars, laneVars, drainVars

LEMMA ListResourcesKeeps ==
  ASSUME Inv, ListResources
  PROVE  Inv'
<1>1. plan \in PlanType /\ BackendTyped
  BY TypesAre DEF Inv
<1>2. plan' \in PlanType
  BY <1>1 DEF ListResources, PlanType, BackendTyped
<1>3. stream # "down"
  BY DEF Inv, Begins, ListResources
<1>4. plan.phase = "snapshot"
  BY DEF ListResources
<1>5. QED
  BY <1>2, <1>3, <1>4, PlanKeeps DEF ListResources, processVars, backendVars, storeVars, laneVars, drainVars

LEMMA ReconcileOverKeeps ==
  ASSUME Inv, ReconcileOver
  PROVE  Inv'
<1>1. plan' \in PlanType /\ plan'.phase = "done"
  BY DEF ReconcileOver, PlanType, NoPlan, NoVector, Stamps
<1>2. stream # "down"
  BY DEF Inv, Begins, ReconcileOver
<1>3. QED
  BY <1>1, <1>2, PlanKeeps DEF ReconcileOver, processVars, backendVars, storeVars, laneVars, drainVars

LEMMA WhenGives ==
  ASSUME NEW condition \in BOOLEAN, NEW kind \in WorkKinds
  PROVE  /\ When(condition, kind) \in Seq(Items)
         /\ \A i \in DOMAIN When(condition, kind) : When(condition, kind)[i].by = "reconcile"
<1>1. [kind |-> kind, by |-> "reconcile"] \in Items
  BY DEF Items, Planners
<1>2. CASE condition
  BY <1>1, <1>2 DEF When
<1>3. CASE ~condition
  BY <1>3 DEF When
<1>4. QED
  BY <1>2, <1>3

(* Sequences of reconcile's items. *)
Planning == {s \in Seq(Items) : \A i \in DOMAIN s : s[i].by = "reconcile"}

LEMMA PlanningJoined ==
  ASSUME NEW s \in Planning, NEW r \in Planning
  PROVE  s \o r \in Planning
<1>1. s \in Seq(Items) /\ r \in Seq(Items)
  BY DEF Planning
<1>2. /\ s \o r \in Seq(Items) /\ Len(s) \in Nat /\ Len(r) \in Nat
      /\ DOMAIN s = 1 .. Len(s) /\ DOMAIN r = 1 .. Len(r)
      /\ DOMAIN (s \o r) = 1 .. (Len(s) + Len(r))
      /\ \A i \in 1 .. Len(s) : (s \o r)[i] = s[i]
      /\ \A i \in 1 .. Len(r) : (s \o r)[Len(s) + i] = r[i]
  BY <1>1, JoinOf
<1>3. ASSUME NEW i \in DOMAIN (s \o r) PROVE (s \o r)[i].by = "reconcile"
  <2>1. CASE i \in 1 .. Len(s)
    BY <1>2, <2>1 DEF Planning
  <2>2. CASE i \notin 1 .. Len(s)
    <3>1. i - Len(s) \in 1 .. Len(r) /\ i = Len(s) + (i - Len(s))
      BY <1>2, <2>2
    <3>2. QED
      BY <1>2, <3>1 DEF Planning
  <2>3. QED
    BY <2>1, <2>2
<1>4. QED
  BY <1>2, <1>3 DEF Planning

LEMMA WorkPlanned ==
  ASSUME plan \in PlanType, NEW annotation \in BOOLEAN
  PROVE  Work(annotation) \in Planning
<1> DEFINE indexed == plan.vector.bytes # 0
           current == plan.vector.bytes = plan.bytes
           p1 == When(plan.archived /\ indexed, "purge")
           p2 == When(~plan.archived /\ ~current, "embed")
           p3 == When(~plan.archived /\ current /\ plan.vector.tags # plan.tags, "restamp")
           p4 == When(~plan.archived /\ current /\ plan.bytes \notin plan.anchored, "reanchor")
           p5 == When(annotation /\ ~plan.annotated, "embedAnnotation")
           p6 == When(plan.annotated /\ ~annotation, "purgeAnnotation")
<1>1. plan.archived \in BOOLEAN /\ plan.annotated \in BOOLEAN
  BY DEF PlanType
<1>2. \A condition \in BOOLEAN : \A kind \in WorkKinds : When(condition, kind) \in Planning
  BY WhenGives DEF Planning
<1>3. {"purge", "embed", "restamp", "reanchor", "embedAnnotation", "purgeAnnotation"} \subseteq WorkKinds
  BY DEF WorkKinds
<1>4. /\ p1 \in Planning /\ p2 \in Planning /\ p3 \in Planning
      /\ p4 \in Planning /\ p5 \in Planning /\ p6 \in Planning
  BY <1>1, <1>2, <1>3
<1>5. Work(annotation) = p1 \o p2 \o p3 \o p4 \o p5 \o p6
  BY DEF Work
<1> HIDE DEF p1, p2, p3, p4, p5, p6
<1>6. p1 \o p2 \in Planning
  BY <1>4, PlanningJoined
<1>7. p1 \o p2 \o p3 \in Planning
  BY <1>4, <1>6, PlanningJoined
<1>8. p1 \o p2 \o p3 \o p4 \in Planning
  BY <1>4, <1>7, PlanningJoined
<1>9. p1 \o p2 \o p3 \o p4 \o p5 \in Planning
  BY <1>4, <1>8, PlanningJoined
<1>10. p1 \o p2 \o p3 \o p4 \o p5 \o p6 \in Planning
  BY <1>4, <1>9, PlanningJoined
<1>11. QED
  BY <1>5, <1>10

LEMMA ListAndPlanKeeps ==
  ASSUME Inv, ListAndPlan
  PROVE  Inv'
<1> DEFINE annotation == ~plan.archived /\ catalog.annotation = "there"
           work == Work(annotation)
<1>1. /\ plan.phase = "annotations" /\ Enqueue("reconcile", work)
      /\ plan' = [NoPlan EXCEPT !.phase = "drain", !.archived = plan.archived]
      /\ UNCHANGED <<catalog, news, stream, vector, annotated, anchored, spent, lane, doing, reply, drift, hurt, interrupted>>
  BY DEF ListAndPlan, processVars, backendVars, storeVars, laneVars
<1>2. plan \in PlanType /\ annotation \in BOOLEAN
  BY TypesAre DEF Inv
<1>3. work \in Seq(Items) /\ \A i \in DOMAIN work : work[i].by = "reconcile"
  BY <1>2, WorkPlanned DEF Planning
<1> HIDE DEF work
<1>4. "reconcile" \in Planners /\ "rebuild" \in Planners /\ "rebuild" # "reconcile"
  BY DEF Planners
<1>5. Idle("reconcile") /\ ~Busy("reconcile")
  BY <1>1 DEF Inv, Begins, Idle, Busy
<1>6. /\ drain' \in [Planners -> DrainType] /\ chain' \in Seq(Planners)
      /\ Turns' /\ OwnWork' /\ Waited'
      /\ drain'["reconcile"].at = "queued" /\ drain'["reconcile"].before = 0
      /\ \A v \in Planners \ {"reconcile"} : drain'[v] = drain[v]
      /\ UNCHANGED <<workDone, workFailed, workWaiter>>
  BY <1>1, <1>3, <1>4, <1>5, EnqueueKeeps DEF Inv
<1>7. plan' \in PlanType /\ plan'.phase = "drain"
  BY <1>1, <1>2 DEF PlanType, NoPlan, NoVector, Stamps
<1>8. SmelterTypeOK'
  BY <1>1, <1>6, <1>7, TypesAre, TypesAreNext DEF Inv, BackendTyped, LanesTyped, CounterTyped, StoresTyped
<1>9. Data'
  BY <1>1, DataLeftAlone DEF Inv
<1>10. Begins'
  <2>1. drain'["rebuild"] = drain["rebuild"]
    BY <1>4, <1>6
  <2>2. stream # "down"
    BY <1>1 DEF Inv, Begins
  <2>3. QED
    BY <1>1, <1>7, <2>1, <2>2 DEF Inv, Begins, Idle
<1>11. Answers'
  <2>1. workFailed \in Nat
    BY TypesAre DEF Inv, CounterTyped
  <2>2. \A v \in Planners : drain'[v].before <= workFailed'
    BY <1>6, <2>1 DEF Inv, Answers
  <2>3. drain'["rebuild"] = drain["rebuild"]
    BY <1>4, <1>6
  <2>4. QED
    BY <1>1, <1>6, <2>2, <2>3 DEF Inv, Answers, Idle, RebuildHonest
<1>12. QED
  BY <1>6, <1>8, <1>9, <1>10, <1>11 DEF Inv

LEMMA ReanchorIs ==
  /\ Reanchor \in Seq(Items) /\ \A i \in DOMAIN Reanchor : Reanchor[i].by = "rebuild"
  /\ <<>> \in Seq(Items) /\ \A i \in DOMAIN <<>> : <<>>[i].by = "rebuild"
<1>1. [kind |-> "reanchor", by |-> "rebuild"] \in Items
  BY DEF Items, WorkKinds, Planners
<1>2. QED
  BY <1>1 DEF Reanchor

(* The rebuild enters the chain: nothing of it has failed. *)
LEMMA RebuildEnqueued ==
  ASSUME Inv, drain["rebuild"].at \in {"idle", "list"}, stream \notin {"down", "detached"}, ~hurt', reply' = "none",
         NEW work \in Seq(Items), \A i \in DOMAIN work : work[i].by = "rebuild",
         Enqueue("rebuild", work), hurt' \in BOOLEAN, interrupted' \in BOOLEAN,
         UNCHANGED <<catalog, news, stream, lane, doing, plan, vector, annotated, anchored, drift>>,
         SpentTyped', spent'["changes"] = spent["changes"]
  PROVE  Inv'
<1>1. "reconcile" \in Planners /\ "rebuild" \in Planners /\ "rebuild" # "reconcile"
  BY DEF Planners
<1>2. ~Busy("rebuild")
  BY DEF Busy
<1>3. /\ drain' \in [Planners -> DrainType] /\ chain' \in Seq(Planners)
      /\ Turns' /\ OwnWork' /\ Waited'
      /\ drain'["rebuild"].at = "queued" /\ drain'["rebuild"].before = 0
      /\ \A v \in Planners \ {"rebuild"} : drain'[v] = drain[v]
      /\ UNCHANGED <<workDone, workFailed, workWaiter>>
  BY <1>1, <1>2, EnqueueKeeps DEF Inv
<1>4. SmelterTypeOK'
  BY <1>3, TypesAre, TypesAreNext DEF Inv, BackendTyped, LanesTyped, CounterTyped, StoresTyped
<1>5. Data'
  BY DataAfterSpending DEF Inv, Data
<1>6. Begins'
  BY <1>1, <1>3 DEF Inv, Begins, Idle
<1>7. Answers'
  <2>1. workFailed \in Nat
    BY TypesAre DEF Inv, CounterTyped
  <2>2. \A v \in Planners : drain'[v].before <= workFailed'
    BY <1>3, <2>1 DEF Inv, Answers
  <2>3. QED
    BY <1>3, <2>2 DEF Answers, Idle
<1>8. QED
  BY <1>3, <1>4, <1>5, <1>6, <1>7 DEF Inv

(* The drain of the rebuild is set without entering or leaving the chain. *)
LEMMA RebuildSet ==
  ASSUME Inv, stream \notin {"down", "detached"}, NEW d \in DrainType, d.before <= workFailed,
         \A i \in DOMAIN d.todo : d.todo[i].by = "rebuild",
         drain["rebuild"].at \in {"idle", "list", "over", "sorry"}, d.at \in {"idle", "list", "sorry"},
         drain' = [drain EXCEPT !["rebuild"] = d],
         UNCHANGED <<catalog, news, stream, lane, doing, plan, vector, annotated, anchored, drift,
                     chain, workDone, workFailed, workWaiter>>,
         SpentTyped', spent'["changes"] = spent["changes"],
         hurt' \in BOOLEAN, reply' \in {"none", "ok", "failed"},
         interrupted' \in BOOLEAN, d.at = "sorry" => interrupted',
         (reply' = "ok" => ~hurt') /\ (reply' = "failed" => hurt' \/ interrupted'),
         d.at = "idle" /\ hurt' /\ ~interrupted' => reply' = "failed",
         d.at = "list" => reply' = "none" /\ ~hurt'
  PROVE  Inv'
<1>1. "reconcile" \in Planners /\ "rebuild" \in Planners /\ "rebuild" # "reconcile"
  BY DEF Planners
<1>2. drain \in [Planners -> DrainType] /\ workFailed \in Nat
  BY TypesAre DEF Inv, CounterTyped
<1>3. /\ drain' \in [Planners -> DrainType] /\ drain'["rebuild"] = d
      /\ \A v \in Planners \ {"rebuild"} : drain'[v] = drain[v]
  BY <1>1, <1>2
<1>4. SmelterTypeOK'
  BY <1>3, TypesAre, TypesAreNext DEF Inv, BackendTyped, LanesTyped, CounterTyped, StoresTyped
<1>5. Data'
  BY DataAfterSpending DEF Inv, Data
<1>6. Begins'
  BY <1>1, <1>3 DEF Inv, Begins, Idle
<1>7. Turns'
  <2>1. \A v \in Planners : Busy(v)' <=> Busy(v)
    <3>1. ~Busy("rebuild") /\ ~Busy("rebuild")'
      BY <1>3 DEF Busy
    <3>2. \A v \in Planners \ {"rebuild"} : Busy(v)' <=> Busy(v)
      BY <1>3 DEF Busy
    <3>3. QED
      BY <3>1, <3>2
  <2>2. \A v \in Planners : drain'[v].at \in {"active", "waiting"} => drain[v].at \in {"active", "waiting"}
    BY <1>3
  <2>3. QED
    BY <2>1, <2>2 DEF Inv, Turns
<1>8. OwnWork'
  BY <1>3 DEF Inv, OwnWork
<1>9. Waited'
  <2>1. \A v \in Planners : drain'[v].at = "waiting" <=> drain[v].at = "waiting"
    BY <1>3
  <2>2. QED
    BY <2>1 DEF Inv, Waited, Remaining
<1>10. Answers'
  <2>1. \A v \in Planners : drain'[v].before <= workFailed'
    BY <1>2, <1>3 DEF Inv, Answers
  <2>2. QED
    BY <1>3, <2>1 DEF Answers, Idle, RebuildHonest
<1>11. QED
  BY <1>4, <1>5, <1>6, <1>7, <1>8, <1>9, <1>10 DEF Inv

LEMMA RebuildSteps ==
  ASSUME Inv, RebuildCommand \/ RebuildList \/ RebuildListFails
              \/ RebuildOver \/ RebuildUnanswered \/ Apologise
  PROVE  Inv'
<1>1. drain \in [Planners -> DrainType] /\ hurt \in BOOLEAN /\ "rebuild" \in Planners
  BY TypesAre DEF Inv, Planners
<1>2. ASSUME drain["rebuild"].at # "idle" PROVE stream \notin {"down", "detached"}
  BY <1>1, <1>2 DEF Inv, Begins, Idle
<1>3. /\ NoDrain \in DrainType /\ NoDrain.at = "idle" /\ NoDrain.before <= workFailed
      /\ \A i \in DOMAIN NoDrain.todo : NoDrain.todo[i].by = "rebuild"
  <2>1. workFailed \in Nat
    BY TypesAre DEF Inv, CounterTyped
  <2>2. QED
    BY <2>1 DEF NoDrain, DrainType
<1>4. CASE RebuildCommand
  <2>1. /\ stream = "attached" /\ drain["rebuild"].at = "idle" /\ Spend("rebuilds") /\ reply' = "none" /\ hurt' = FALSE
        /\ interrupted' = FALSE
        /\ UNCHANGED <<catalog, news, stream, lane, doing, plan, vector, annotated, anchored, drift>>
        /\ \/ Enqueue("rebuild", Reanchor)
           \/ /\ drain' = [drain EXCEPT !["rebuild"].at = "list"]
              /\ UNCHANGED <<chain, workDone, workFailed, workWaiter>>
    BY <1>4 DEF RebuildCommand, backendVars, laneVars, storeVars
  <2>2. SpentTyped' /\ spent'["changes"] = spent["changes"]
    BY <2>1, SpentOther DEF Inv
  <2>3. CASE Enqueue("rebuild", Reanchor)
    BY <2>1, <2>2, <2>3, ReanchorIs, RebuildEnqueued
  <2>4. CASE /\ drain' = [drain EXCEPT !["rebuild"].at = "list"]
             /\ UNCHANGED <<chain, workDone, workFailed, workWaiter>>
    <3> DEFINE d == [drain["rebuild"] EXCEPT !.at = "list"]
    <3>1. d \in DrainType /\ d.at = "list" /\ drain' = [drain EXCEPT !["rebuild"] = d]
      BY <1>1, <2>4 DEF DrainType
    <3>2. d.todo = drain["rebuild"].todo /\ d.before = drain["rebuild"].before
      BY <1>1 DEF DrainType
    <3>3. /\ \A i \in DOMAIN drain["rebuild"].todo : drain["rebuild"].todo[i].by = "rebuild"
          /\ drain["rebuild"].before <= workFailed
      BY <1>1 DEF Inv, OwnWork, Answers
    <3>4. QED
      BY <2>1, <2>2, <2>4, <3>1, <3>2, <3>3, RebuildSet
  <2>5. QED
    BY <2>1, <2>3, <2>4
<1>5. CASE RebuildList
  <2> DEFINE work == IF catalog.archived THEN <<>> ELSE Reanchor
  <2>1. /\ drain["rebuild"].at = "list" /\ Enqueue("rebuild", work)
        /\ UNCHANGED <<catalog, news, stream, lane, doing, plan, vector, annotated, anchored, drift, spent, reply, hurt, interrupted>>
    BY <1>5 DEF RebuildList, processVars, backendVars, laneVars, storeVars
  <2>2. work \in Seq(Items) /\ \A i \in DOMAIN work : work[i].by = "rebuild"
    BY ReanchorIs
  <2>3. SpentTyped' /\ spent'["changes"] = spent["changes"]
    BY <2>1, SpentKept DEF Inv
  <2>4. ~hurt /\ reply = "none"
    BY <2>1 DEF Inv, Answers, Idle
  <2>5. hurt' \in BOOLEAN /\ interrupted' \in BOOLEAN
    BY <2>1, TypesAre DEF Inv
  <2> HIDE DEF work
  <2>6. QED
    BY <1>1, <1>2, <2>1, <2>2, <2>3, <2>4, <2>5, RebuildEnqueued
<1>6. ASSUME NEW next \in {"idle", "sorry"}, Leaves(next),
             SpentTyped', spent'["changes"] = spent["changes"],
             drain["rebuild"].at \in {"list", "over", "sorry"},
             interrupted' \in BOOLEAN, next = "sorry" => interrupted',
             reply' \in {"none", "ok", "failed"},
             (reply' = "ok" => ~hurt) /\ (reply' = "failed" => hurt \/ interrupted'),
             next = "idle" /\ hurt /\ ~interrupted' => reply' = "failed"
      PROVE  Inv'
  <2> DEFINE d == [NoDrain EXCEPT !.at = next]
  <2>1. d \in DrainType /\ d.at = next /\ d.before = NoDrain.before /\ d.todo = NoDrain.todo
    <3>1. d = [at |-> next, todo |-> <<>>, before |-> 0, failures |-> 0] /\ <<>> \in Seq(Items)
      BY DEF NoDrain
    <3>2. next \in {"idle", "list", "queued", "active", "waiting", "over", "sorry"}
      BY <1>6
    <3>3. QED
      BY <3>1, <3>2 DEF NoDrain, DrainType
  <2>2. /\ drain' = [drain EXCEPT !["rebuild"] = d]
        /\ UNCHANGED <<catalog, news, stream, lane, doing, plan, vector, annotated, anchored, drift,
                       chain, workDone, workFailed, workWaiter, hurt>>
    BY <1>6 DEF Leaves, backendVars, laneVars, storeVars
  <2> HIDE DEF d
  <2>3. QED
    BY <1>1, <1>2, <1>3, <1>6, <2>1, <2>2, RebuildSet
<1>7. reply \in {"none", "ok", "failed"} /\ interrupted \in BOOLEAN
  BY TypesAre DEF Inv
<1>8. CASE RebuildListFails
  <2>1. /\ drain["rebuild"].at = "list" /\ Spend("troubles") /\ Leaves("sorry")
        /\ interrupted' = TRUE /\ reply' = reply
    BY <1>8 DEF RebuildListFails
  <2>2. SpentTyped' /\ spent'["changes"] = spent["changes"]
    BY <2>1, SpentOther DEF Inv
  <2>3. reply = "none"
    BY <2>1 DEF Inv, Answers
  <2>4. QED
    BY <1>6, <2>1, <2>2, <2>3
<1>9. ASSUME drain["rebuild"].at = "over"
      PROVE  /\ reply = "none" /\ Answered(Verdict) = Verdict /\ Verdict \in {"ok", "failed"}
             /\ Verdict = "ok" => ~hurt
             /\ Verdict = "failed" <=> hurt
  BY <1>1, <1>9 DEF Inv, Answers, Answered, Verdict
<1>10. CASE RebuildOver
  <2>1. /\ drain["rebuild"].at = "over" /\ Leaves("idle") /\ reply' = Answered(Verdict)
        /\ UNCHANGED <<interrupted, spent>>
    BY <1>10 DEF RebuildOver
  <2>2. SpentTyped' /\ spent'["changes"] = spent["changes"]
    BY <2>1, SpentKept DEF Inv
  <2>3. QED
    BY <1>6, <1>7, <1>9, <2>1, <2>2
<1>11. CASE RebuildUnanswered
  <2>1. /\ drain["rebuild"].at = "over" /\ Spend("troubles") /\ interrupted' = TRUE
        /\ \/ Leaves("idle") /\ reply' = reply
           \/ Leaves("sorry") /\ reply' \in {reply, Answered(Verdict)}
    BY <1>11 DEF RebuildUnanswered
  <2>2. SpentTyped' /\ spent'["changes"] = spent["changes"]
    BY <2>1, SpentOther DEF Inv
  <2>3. reply' \in {"none", Verdict}
    BY <1>9, <2>1
  <2>4. QED
    BY <1>6, <1>9, <2>1, <2>2, <2>3
<1>12. CASE Apologise
  <2>1. /\ drain["rebuild"].at = "sorry" /\ Leaves("idle")
        /\ reply' \in {reply, Answered("failed")} /\ UNCHANGED <<interrupted, spent>>
    BY <1>12 DEF Apologise
  <2>2. SpentTyped' /\ spent'["changes"] = spent["changes"]
    BY <2>1, SpentKept DEF Inv
  <2>3. interrupted /\ (reply = "ok" => ~hurt)
    BY <2>1 DEF Inv, Answers, RebuildHonest
  <2>4. reply' \in {reply, "failed"}
    BY <2>1 DEF Answered
  <2>5. QED
    BY <1>6, <1>7, <2>1, <2>2, <2>3, <2>4
<1>13. QED
  BY <1>4, <1>5, <1>8, <1>10, <1>11, <1>12

-------------------------------------------------------------------------------
(* The backend, the start and the end of the process.                            *)

LEMMA ChangeKeeps ==
  ASSUME Inv, NEW kind \in EventKinds, Change(kind)
  PROVE  Inv'
<1>1. BackendTyped /\ SpentTyped
  BY TypesAre DEF Inv, Data, SpentTyped
<1>2. /\ catalog' = Changed(kind) /\ Spend("changes")
      /\ news' = Append(news, [kind |-> kind, archived |-> catalog.archived])
      /\ UNCHANGED <<stream, lane, doing, plan, drain, chain, workDone, workFailed, workWaiter, reply,
                     vector, annotated, anchored, drift, hurt, interrupted>>
  BY DEF Change, laneVars, drainVars, storeVars
<1>3. /\ SpentTyped' /\ spent'["changes"] = spent["changes"] + 1 /\ spent["changes"] < MaxChanges
      /\ spent["changes"] \in Nat
  <2>1. SpentTyped' /\ spent'["changes"] = spent["changes"] + 1 /\ spent["changes"] < MaxChanges
    BY <1>1, <1>2, Spending
  <2>2. QED
    BY <1>1, <2>1 DEF SpentTyped, Limit
<1>4. /\ catalog.bytes \in Nat \ {0} /\ catalog.tags \in Nat \ {0} /\ MaxChanges \in Nat
      /\ catalog.bytes <= spent["changes"] + 1 /\ catalog.tags <= spent["changes"] + 1
  BY <1>1, SmelterAssumption DEF Inv, Data, BackendTyped, Generations
<1>5. catalog.bytes + 1 \in Generations /\ catalog.tags + 1 \in Generations
  BY <1>3, <1>4 DEF Generations
<1>6. /\ catalog' \in [archived : BOOLEAN, bytes : Generations, tags : Generations,
                       annotation : {"none", "there", "removed"}]
      /\ catalog'.bytes \in {catalog.bytes, catalog.bytes + 1}
      /\ catalog'.tags \in {catalog.tags, catalog.tags + 1}
  BY <1>1, <1>2, <1>5 DEF Changed, BackendTyped, EventKinds
<1>7. BackendTyped'
  BY <1>1, <1>2, <1>6 DEF BackendTyped
<1>8. SmelterTypeOK'
  BY <1>2, <1>7, TypesAre, TypesAreNext DEF Inv, LanesTyped, CounterTyped, StoresTyped
<1>9. Data'
  <2>1. catalog'.bytes <= spent'["changes"] + 1 /\ catalog'.tags <= spent'["changes"] + 1
    BY <1>3, <1>4, <1>6
  <2>2. QED
    BY <1>2, <1>3, <2>1 DEF Inv, Data, SpentTyped
<1>10. Begins' /\ Turns' /\ OwnWork' /\ Answers'
  BY <1>2 DEF Inv, Begins, Idle, Turns, Busy, OwnWork, Answers, RebuildHonest
<1>11. Waited'
  BY <1>2 DEF Inv, Waited, Remaining
<1>12. QED
  BY <1>8, <1>9, <1>10, <1>11 DEF Inv

LEMMA PublishKeeps ==
  ASSUME Inv, Publish
  PROVE  Inv'
<1> DEFINE event == Head(news)
           item == [kind |-> event.kind, by |-> Live]
<1>1. BackendTyped /\ LanesTyped /\ drift \in BOOLEAN
  BY TypesAre DEF Inv
<1>2. /\ news # <<>> /\ news' = Tail(news)
      /\ UNCHANGED <<catalog, stream, doing, plan, drain, chain, workDone, workFailed, workWaiter, reply,
                     vector, annotated, anchored, hurt, interrupted, spent>>
      /\ \/ UNCHANGED lane /\ drift' \in BOOLEAN
         \/ /\ stream = "attached" /\ lane' = [lane EXCEPT !["resource"] = Append(@, item)]
            /\ drift' = (drift \/ (event.archived /\ event.kind \in {"updated", "added"}))
  BY <1>1 DEF Publish, drainVars, storeVars
<1>3. event \in [kind : EventKinds, archived : BOOLEAN] /\ news' \in Seq([kind : EventKinds, archived : BOOLEAN])
  <2> DEFINE T == [kind : EventKinds, archived : BOOLEAN]
  <2>1. news \in Seq(T)
    BY <1>1 DEF BackendTyped
  <2> HIDE DEF T
  <2>2. Head(news) \in T /\ Tail(news) \in Seq(T)
    BY <1>2, <2>1, FrontOf
  <2>3. QED
    BY <1>2, <2>2 DEF T
<1>4. item \in Items /\ item.by = Live
  BY <1>3 DEF Items
<1>5. BackendTyped'
  BY <1>1, <1>2, <1>3 DEF BackendTyped
<1> HIDE DEF item
<1>6. /\ LanesTyped' /\ drift' \in BOOLEAN /\ Waited'
      /\ stream = "down" => \A l \in Lanes : lane'[l] = lane[l]
  <2>1. CASE UNCHANGED lane /\ drift' \in BOOLEAN
    BY <1>1, <1>2, <2>1 DEF Inv, Waited, Remaining, LanesTyped
  <2>2. CASE /\ stream = "attached" /\ lane' = [lane EXCEPT !["resource"] = Append(@, item)]
             /\ drift' = (drift \/ (event.archived /\ event.kind \in {"updated", "added"}))
    <3>1. lane["resource"] \in Seq(Items) /\ "resource" \in Lanes
      BY <1>1 DEF LanesTyped, Lanes
    <3>2. /\ lane'["resource"] = Append(lane["resource"], item)
          /\ \A l \in Lanes \ {"resource"} : lane'[l] = lane[l]
      BY <1>1, <2>2, <3>1 DEF LanesTyped
    <3>3. /\ Append(lane["resource"], item) \in Seq(Items) /\ Append(lane["resource"], item) # <<>>
          /\ Planned(Append(lane["resource"], item)) = Planned(lane["resource"])
          /\ \A i \in Planned(lane["resource"]) : Append(lane["resource"], item)[i] = lane["resource"][i]
      BY <1>4, <3>1, PlannedAfterLive
    <3>4. LanesTyped'
      BY <1>1, <1>2, <2>2, <3>2, <3>3 DEF LanesTyped
    <3>5. \A l \in Lanes : /\ Planned(lane'[l]) = Planned(lane[l])
                           /\ \A i \in Planned(lane[l]) : lane'[l][i] = lane[l][i]
      BY <3>2, <3>3
    <3>6. Remaining' = Remaining
      BY <3>5 DEF Remaining, PlannedIn, Lanes
    <3>7. Waited'
      <4>1. \A l \in Lanes : \A i \in Planned(lane'[l]) : lane'[l][i].by = workWaiter.for
        <5>1. ASSUME NEW l \in Lanes, NEW i \in Planned(lane'[l]) PROVE lane'[l][i].by = workWaiter.for
          <6>1. i \in Planned(lane[l]) /\ lane'[l][i] = lane[l][i]
            BY <3>5, <5>1
          <6>2. QED
            BY <6>1 DEF Inv, Waited
        <5>2. QED
          BY <5>1
      <4>2. workWaiter = NoWaiter => \A l \in Lanes : Planned(lane'[l]) = {}
        BY <3>5 DEF Inv, Waited
      <4>3. QED
        BY <1>2, <3>6, <4>1, <4>2 DEF Inv, Waited
    <3>8. drift' \in BOOLEAN
      BY <2>2
    <3>9. QED
      BY <2>2, <3>4, <3>7, <3>8
  <2>3. QED
    BY <1>2, <2>1, <2>2
<1>7. SmelterTypeOK'
  BY <1>2, <1>5, <1>6, TypesAre, TypesAreNext DEF Inv, CounterTyped, StoresTyped
<1>8. Data'
  BY <1>2, DataLeftAlone DEF Inv
<1>9. Begins'
  BY <1>2, <1>6 DEF Inv, Begins, Idle
<1>10. Turns' /\ OwnWork' /\ Answers'
  BY <1>2 DEF Inv, Idle, Turns, Busy, OwnWork, Answers, RebuildHonest
<1>11. QED
  BY <1>6, <1>7, <1>8, <1>9, <1>10 DEF Inv

LEMMA StartUpKeeps ==
  ASSUME Inv, StartUp
  PROVE  Inv'
<1>1. /\ stream = "down" /\ stream' = "detached" /\ drift' = FALSE
      /\ plan' = [NoPlan EXCEPT !.phase = "snapshot", !.unread = {"vectors", "annotations", "anchors"}]
      /\ UNCHANGED <<catalog, news, lane, doing, drain, chain, workDone, workFailed, workWaiter, reply,
                     vector, annotated, anchored, hurt, interrupted, spent>>
  BY DEF StartUp, backendVars, laneVars, drainVars, storeVars
<1>2. plan' \in PlanType
  BY <1>1 DEF PlanType, NoPlan, NoVector, Stamps
<1>3. SmelterTypeOK'
  BY <1>1, <1>2, TypesAre, TypesAreNext DEF Inv, BackendTyped, LanesTyped, CounterTyped, StoresTyped
<1>4. Data'
  BY <1>1, DataLeftAlone DEF Inv
<1>5. Begins'
  BY <1>1 DEF Inv, Begins, Idle, Planners
<1>6. Turns' /\ OwnWork' /\ Answers'
  BY <1>1 DEF Inv, Idle, Turns, Busy, OwnWork, Answers, RebuildHonest
<1>7. Waited'
  BY <1>1 DEF Inv, Waited, Remaining
<1>8. QED
  BY <1>3, <1>4, <1>5, <1>6, <1>7 DEF Inv

LEMMA StreamKeeps ==
  ASSUME Inv, Attach \/ Break
  PROVE  Inv'
<1>1. /\ stream \in {"detached", "attached", "broken"} /\ stream' \in {"attached", "broken"}
      /\ UNCHANGED <<catalog, news, lane, doing, plan, drain, chain, workDone, workFailed, workWaiter,
                     reply, vector, annotated, anchored, drift, hurt, interrupted>>
      /\ spent' = spent \/ Spend("troubles")
  BY DEF Attach, Break, backendVars, laneVars, drainVars, storeVars
<1>2. SmelterTypeOK'
  BY <1>1, TypesAre, TypesAreNext DEF Inv, BackendTyped, LanesTyped, CounterTyped, StoresTyped
<1>3. SpentTyped' /\ spent'["changes"] = spent["changes"]
  BY <1>1, SpentKept, SpentOther DEF Inv
<1>4. Data'
  BY <1>1, <1>3, DataAfterSpending DEF Inv, Data
<1>5. Begins' /\ Turns' /\ OwnWork' /\ Answers'
  BY <1>1 DEF Inv, Begins, Idle, Turns, Busy, OwnWork, Answers, RebuildHonest
<1>6. Waited'
  BY <1>1 DEF Inv, Waited, Remaining
<1>7. QED
  BY <1>2, <1>4, <1>5, <1>6 DEF Inv

(* A process that begins has nothing to do and nothing to wait for. *)
LEMMA NothingWaits ==
  ASSUME lane = [l \in Lanes |-> <<>>], doing = [l \in Lanes |-> NotStarted],
         drain = [w \in Planners |-> NoDrain], chain = <<>>,
         workDone = 0, workFailed = 0, workWaiter = NoWaiter, plan = NoPlan,
         RebuildHonest
  PROVE  /\ LanesTyped /\ CounterTyped /\ drain \in [Planners -> DrainType]
         /\ chain \in Seq(Planners) /\ plan \in PlanType
         /\ \A l \in Lanes : doing[l].step # "publish"
         /\ Begins /\ Turns /\ OwnWork /\ Waited /\ Answers
<1>1. NotStarted \in DoingType /\ NotStarted.step # "publish"
  BY DEF NotStarted, DoingType
<1>2. LanesTyped /\ \A l \in Lanes : doing[l].step # "publish"
  BY <1>1 DEF LanesTyped
<1>3. CounterTyped
  BY DEF CounterTyped, WaiterType
<1>4. /\ NoDrain \in DrainType /\ NoDrain.at = "idle" /\ NoDrain.before = 0 /\ NoDrain.todo = <<>>
  BY DEF NoDrain, DrainType
<1>5. drain \in [Planners -> DrainType] /\ \A w \in Planners : drain[w] = NoDrain
  BY <1>4
<1>6. plan \in PlanType /\ plan.phase = "no"
  BY DEF PlanType, NoPlan, NoVector, Stamps
<1>7. chain \in Seq(Planners) /\ DOMAIN chain = {}
  OBVIOUS
<1>8. "rebuild" \in Planners /\ "reconcile" \in Planners
  BY DEF Planners
<1>9. Begins
  BY <1>4, <1>5, <1>6, <1>8 DEF Begins, Idle
<1>10. Turns
  BY <1>4, <1>5, <1>7 DEF Turns, Busy
<1>11. OwnWork
  BY <1>4, <1>5 DEF OwnWork
<1>12. \A l \in Lanes : Planned(lane[l]) = {}
  BY DEF Planned
<1>13. Waited
  BY <1>3, <1>4, <1>5, <1>12, WaiterIs DEF Waited
<1>14. Answers
  BY <1>4, <1>5, <1>8 DEF Answers, Idle
<1>15. QED
  BY <1>2, <1>3, <1>5, <1>6, <1>7, <1>9, <1>10, <1>11, <1>13, <1>14

LEMMA NothingWaitsNext ==
  ASSUME lane' = [l \in Lanes |-> <<>>], doing' = [l \in Lanes |-> NotStarted],
         drain' = [w \in Planners |-> NoDrain], chain' = <<>>,
         workDone' = 0, workFailed' = 0, workWaiter' = NoWaiter, plan' = NoPlan,
         RebuildHonest'
  PROVE  /\ LanesTyped' /\ CounterTyped' /\ drain' \in [Planners -> DrainType]
         /\ chain' \in Seq(Planners) /\ plan' \in PlanType
         /\ \A l \in Lanes : doing'[l].step # "publish"
         /\ Begins' /\ Turns' /\ OwnWork' /\ Waited' /\ Answers'
<1>1. NotStarted \in DoingType /\ NotStarted.step # "publish"
  BY DEF NotStarted, DoingType
<1>2. LanesTyped' /\ \A l \in Lanes : doing'[l].step # "publish"
  BY <1>1 DEF LanesTyped
<1>3. CounterTyped'
  BY DEF CounterTyped, WaiterType
<1>4. /\ NoDrain \in DrainType /\ NoDrain.at = "idle" /\ NoDrain.before = 0 /\ NoDrain.todo = <<>>
  BY DEF NoDrain, DrainType
<1>5. drain' \in [Planners -> DrainType] /\ \A w \in Planners : drain'[w] = NoDrain
  BY <1>4
<1>6. plan' \in PlanType /\ plan'.phase = "no"
  BY DEF PlanType, NoPlan, NoVector, Stamps
<1>7. chain' \in Seq(Planners) /\ DOMAIN chain' = {}
  OBVIOUS
<1>8. "rebuild" \in Planners /\ "reconcile" \in Planners
  BY DEF Planners
<1>9. Begins'
  BY <1>4, <1>5, <1>6, <1>8 DEF Begins, Idle
<1>10. Turns'
  BY <1>4, <1>5, <1>7 DEF Turns, Busy
<1>11. OwnWork'
  BY <1>4, <1>5 DEF OwnWork
<1>12. \A l \in Lanes : Planned(lane'[l]) = {}
  BY DEF Planned
<1>13. NoWaiter.for \notin Planners
  BY DEF NoWaiter, Planners
<1>14. Waited'
  BY <1>4, <1>5, <1>12, <1>13 DEF Waited
<1>15. Answers'
  BY <1>4, <1>5, <1>8 DEF Answers, Idle
<1>16. QED
  BY <1>2, <1>3, <1>5, <1>6, <1>7, <1>9, <1>10, <1>11, <1>14, <1>15

(* A rebuild the process dies in is not answered. *)
LEMMA CrashKeeps ==
  ASSUME Inv, Crash
  PROVE  Inv'
<1>1. /\ stream' = "down" /\ Spend("troubles") /\ anchored' \in {anchored, {}}
      /\ lane' = [l \in Lanes |-> <<>>] /\ doing' = [l \in Lanes |-> NotStarted]
      /\ plan' = NoPlan /\ drain' = [w \in Planners |-> NoDrain] /\ chain' = <<>>
      /\ workDone' = 0 /\ workFailed' = 0 /\ workWaiter' = NoWaiter
      /\ UNCHANGED <<catalog, news, reply, vector, annotated, drift, hurt>>
      /\ interrupted' = (interrupted \/ drain["rebuild"].at # "idle")
  BY DEF Crash, backendVars
<1>2. RebuildHonest
  BY DEF Inv, Answers, RebuildHonest
<1>3. RebuildHonest'
  BY <1>1, <1>2 DEF RebuildHonest
<1>4. /\ LanesTyped' /\ CounterTyped' /\ drain' \in [Planners -> DrainType]
      /\ chain' \in Seq(Planners) /\ plan' \in PlanType
      /\ \A l \in Lanes : doing'[l].step # "publish"
      /\ Begins' /\ Turns' /\ OwnWork' /\ Waited' /\ Answers'
  BY <1>1, <1>3, NothingWaitsNext
<1>5. StoresTyped'
  BY <1>1, TypesAre DEF Inv, StoresTyped
<1>6. SmelterTypeOK'
  BY <1>1, <1>4, <1>5, TypesAre, TypesAreNext DEF Inv, BackendTyped
<1>7. SpentTyped' /\ spent'["changes"] = spent["changes"]
  BY <1>1, SpentOther DEF Inv
<1>8. Data'
  BY <1>1, <1>4, <1>7, DataAfterSpending DEF Inv
<1>9. QED
  BY <1>4, <1>6, <1>8 DEF Inv

LEMMA InitGood == Init => Inv
<1>1. SUFFICES ASSUME Init PROVE Inv
  OBVIOUS
<1>2. RebuildHonest
  BY <1>1 DEF Init, RebuildHonest
<1>3. /\ LanesTyped /\ CounterTyped /\ drain \in [Planners -> DrainType]
      /\ chain \in Seq(Planners) /\ plan \in PlanType
      /\ \A l \in Lanes : doing[l].step # "publish"
      /\ Begins /\ Turns /\ OwnWork /\ Waited /\ Answers
  BY <1>1, <1>2, NothingWaits DEF Init
<1>4. 1 \in Generations
  BY SmelterAssumption DEF Generations
<1>5. BackendTyped /\ StoresTyped
  <2>1. news \in Seq([kind : EventKinds, archived : BOOLEAN])
    BY <1>1 DEF Init
  <2>2. BackendTyped
    BY <1>1, <1>4, <2>1 DEF Init, BackendTyped
  <2>3. StoresTyped
    BY <1>1 DEF Init, StoresTyped, NoVector, Stamps
  <2>4. QED
    BY <2>2, <2>3
<1>6. SmelterTypeOK
  BY <1>1, <1>3, <1>5, TypesAre DEF Init
<1>7. Data
  BY <1>1, <1>3, SmelterAssumption DEF Init, Data, Limit
<1>8. QED
  BY <1>3, <1>6, <1>7 DEF Inv

LEMMA StutterKeeps ==
  ASSUME Inv, UNCHANGED vars
  PROVE  Inv'
<1>1. UNCHANGED <<catalog, news, stream, lane, doing, plan, drain, chain, workDone, workFailed, workWaiter,
                  reply, vector, annotated, anchored, drift, hurt, interrupted, spent>>
  BY DEF vars, backendVars, laneVars, drainVars, storeVars
<1>2. SmelterTypeOK'
  BY <1>1, TypesAre, TypesAreNext DEF Inv, BackendTyped, LanesTyped, CounterTyped, StoresTyped
<1>3. Data'
  BY <1>1, DataLeftAlone DEF Inv
<1>4. Begins' /\ Turns' /\ OwnWork' /\ Answers'
  BY <1>1 DEF Inv, Begins, Idle, Turns, Busy, OwnWork, Answers, RebuildHonest
<1>5. Waited'
  BY <1>1 DEF Inv, Waited, Remaining
<1>6. QED
  BY <1>2, <1>3, <1>4, <1>5 DEF Inv

-------------------------------------------------------------------------------
(* What the resource's lane, the planner and the events to come still ask for.   *)

Line == lane["resource"]
Now == doing["resource"]
What == Kind("resource")

Kinds(s) == {s[i].kind : i \in DOMAIN s}

ToDo == Kinds(drain["reconcile"].todo)

(* The kinds of what comes behind the i-th item of a lane. *)
Behind(s, come, i) == {s[j].kind : j \in {k \in DOMAIN s : k > i}} \cup come

Rest == Behind(Line, ToCome, 1)
First == IF At("resource", "start") THEN {What} ELSE {}
Soon == Rest \cup ToDo \cup First

Wanted == ~catalog.archived /\ catalog.annotation = "there"

(* The events to come lead to the catalog as it is. *)
After(event) == CASE event.kind = "archived" -> TRUE [] event.kind = "unarchived" -> FALSE [] OTHER -> event.archived
Turn == IF catalog.archived THEN "archived" ELSE "unarchived"

NewsFit ==
  \A i \in DOMAIN news :
    /\ After(news[i]) = catalog.archived \/ \E j \in DOMAIN news : j > i /\ news[j].kind = Turn
    /\ news[i].kind = "added" => catalog.annotation # "none"
    /\ news[i].kind = "added" /\ catalog.annotation = "removed"
         => \E j \in DOMAIN news : j > i /\ news[j].kind = "removed"
    /\ news[i].kind = "removed" => catalog.annotation = "removed"

StoresFit ==
  /\ vector.bytes = 0 => vector = NoVector
  /\ vector.bytes \notin Declined
  /\ annotated => catalog.annotation # "none"

(* What the first item has read is of its kind, and current unless an event      *)
(* behind it says otherwise, or was lost.                                        *)
StepsFit ==
  /\ Now.step \in {"decline", "tags", "upsert"} => What \in Embeds
  /\ Now.step \in {"list", "annotate"} => What = "unarchived"
  /\ Now.step = "unannotate" => What = "archived"
  /\ Now.step = "stamp" => What \in {"retagged", "restamp"}
  /\ Now.step = "publish" => What = "reanchor"
  /\ Now.step = "decline" => Now.bytes \in Declined
  /\ Now.step \in {"tags", "upsert"} => Now.bytes \notin Declined \cup {0}
  /\ Now.step \in {"decline", "tags", "upsert"} => drift \/ Now.bytes = catalog.bytes \/ "updated" \in Rest
  /\ Now.step \in {"upsert", "stamp"} => drift \/ Now.tags = catalog.tags \/ "retagged" \in Rest
  /\ Now.step = "annotate" => catalog.annotation # "none"
  /\ Now.step = "annotate" /\ catalog.annotation = "removed" => drift \/ "removed" \in Rest

LanesFit ==
  /\ \A i \in DOMAIN lane["annotation"] : lane["annotation"][i] = [kind |-> "purgeAnnotation", by |-> "reconcile"]
  /\ doing["annotation"] = NotStarted
  /\ "purgeAnnotation" \notin Kinds(Line)
  /\ Kinds(Line) \cap {"added", "embedAnnotation"} # {} => catalog.annotation # "none"
  /\ "removed" \in Kinds(Line) => catalog.annotation = "removed"

PlanFits ==
  /\ Kinds(drain["rebuild"].todo) \subseteq {"reanchor"}
  /\ plan.phase # "drain" => ToDo = {} /\ lane["annotation"] = <<>>
  /\ drain["reconcile"].at \in {"idle", "over"} => ToDo = {}
  /\ plan.phase = "done" => drain["reconcile"].at = "over"
  /\ plan.phase \in {"snapshot", "annotations"} /\ plan.annotated => catalog.annotation # "none"
  /\ "purge" \in ToDo => plan.archived
  /\ "embed" \in ToDo => ~plan.archived
  /\ "embedAnnotation" \in ToDo => ~plan.archived /\ catalog.annotation # "none"
  /\ "purgeAnnotation" \in ToDo \/ lane["annotation"] # <<>>
       => plan.archived \/ catalog.annotation = "removed"
  /\ plan.phase = "snapshot" /\ "vectors" \notin plan.unread => plan.vector.bytes \notin Declined
  /\ plan.phase = "annotations" => plan.vector.bytes \notin Declined

Fitting == NewsFit /\ StoresFit /\ StepsFit /\ LanesFit /\ PlanFits

(* An item that leads away from the catalog has behind it what leads back.       *)
Undone(kind, F, c) ==
  /\ kind \in {"unarchived", "updated", "added", "embed"} /\ c.archived => "archived" \in F
  /\ kind = "archived" /\ ~c.archived => "unarchived" \in F
  /\ kind = "purge" /\ ~c.archived => "unarchived" \in F \/ "updated" \in F
  /\ kind = "added" /\ c.annotation = "removed" => "removed" \in F
  /\ kind = "embedAnnotation" /\ (c.archived \/ c.annotation # "there")
       => "archived" \in F \/ "removed" \in F

Order == \A i \in DOMAIN Line : Undone(Line[i].kind, Behind(Line, ToCome, i), catalog)

(* Reconcile has not read, or has read and will see.                             *)
Snapped(what, condition) == plan.phase = "snapshot" /\ (what \in plan.unread \/ condition)
Listed(condition) == plan.phase = "annotations" /\ condition

(* What a store lacks of the catalog is being done or asked for.                 *)
Cleared ==
  catalog.archived =>
    \/ vector = NoVector
    \/ "archived" \in Soon \/ "purge" \in Soon
    \/ Snapped("vectors", plan.vector.bytes # 0) \/ Listed(plan.archived /\ plan.vector.bytes # 0)

EmbedsSoon == "updated" \in Soon \/ "unarchived" \in Soon \/ "embed" \in Soon

Current ==
  ~catalog.archived =>
    \/ vector.bytes = IF catalog.bytes \in Declined THEN 0 ELSE catalog.bytes
    \/ EmbedsSoon
    \/ Now.step \in {"decline", "tags", "upsert"} /\ Now.bytes = catalog.bytes
    \/ Snapped("vectors", plan.vector.bytes # catalog.bytes)
    \/ Listed(~plan.archived /\ plan.vector.bytes # plan.bytes)

Stamped ==
  ~catalog.archived =>
    \/ vector = NoVector \/ vector.tags = catalog.tags
    \/ EmbedsSoon \/ "retagged" \in Soon \/ "restamp" \in Soon
    \/ Now.step \in {"decline", "tags"} \/ (Now.step \in {"upsert", "stamp"} /\ Now.tags = catalog.tags)
    \/ Snapped("vectors", plan.vector.bytes # catalog.bytes \/ plan.vector.tags # catalog.tags)
    \/ Listed(~plan.archived /\ (plan.vector.bytes # plan.bytes \/ plan.vector.tags # plan.tags))

Anchored ==
  ~catalog.archived /\ catalog.bytes \notin Declined =>
    \/ catalog.bytes \in anchored
    \/ EmbedsSoon \/ "reanchor" \in Soon
    \/ Now.step = "publish" /\ Now.bytes = catalog.bytes
    \/ Snapped("anchors", catalog.bytes \notin plan.anchored)
    \/ Listed(~plan.archived /\ (plan.vector.bytes # plan.bytes \/ plan.bytes \notin plan.anchored))

Noted ==
  Wanted =>
    \/ annotated
    \/ "added" \in Soon \/ "embedAnnotation" \in Soon \/ "unarchived" \in Soon
    \/ Now.step # "start" /\ What = "unarchived"
    \/ Snapped("annotations", ~plan.annotated) \/ Listed(~plan.archived /\ ~plan.annotated)

Unnoted ==
  ~Wanted =>
    \/ ~annotated
    \/ "archived" \in Soon \/ "removed" \in Soon \/ Now.step = "unannotate"
    \/ "purgeAnnotation" \in ToDo \/ lane["annotation"] # <<>>
    \/ Snapped("annotations", plan.annotated)
    \/ Listed(plan.annotated /\ (plan.archived \/ catalog.annotation # "there"))

Asked == Cleared /\ Current /\ Stamped /\ Anchored /\ Noted /\ Unnoted

(* Until the stream is first attached nothing changes the stores, so what        *)
(* reconcile has read of them is what they are.                                  *)
Fresh ==
  stream = "detached" /\ plan.phase = "snapshot" =>
    /\ Line = <<>>
    /\ "vectors" \in plan.unread \/ plan.vector = vector
    /\ "annotations" \in plan.unread \/ plan.annotated = annotated
    /\ "anchors" \in plan.unread \/ plan.anchored = anchored

AgreeInv == Fitting /\ (stream # "down" /\ ~drift => Order /\ Asked)

-------------------------------------------------------------------------------
(* The kinds in a lane when an item ends, and when items come behind.            *)

LEMMA KindsOfFirst ==
  ASSUME NEW s \in Seq(Items), s # <<>>, NEW come
  PROVE  /\ Kinds(s) \cup come = {Head(s).kind} \cup Behind(s, come, 1)
         /\ Head(s).kind \in Kinds(s)
<1>1. /\ Len(s) \in Nat /\ Len(s) # 0 /\ DOMAIN s = 1 .. Len(s) /\ Head(s) = s[1]
  OBVIOUS
<1>2. \A i \in 1 .. Len(s) : i = 1 \/ i > 1
  BY <1>1
<1>3. 1 \in DOMAIN s
  BY <1>1
<1>4. QED
  BY <1>1, <1>2, <1>3 DEF Kinds, Behind

LEMMA KindsOfRest ==
  ASSUME NEW s \in Seq(Items), s # <<>>, NEW come
  PROVE  /\ Kinds(Tail(s)) \cup come = Behind(s, come, 1)
         /\ Kinds(Tail(s)) \subseteq Kinds(s)
         /\ \A i \in DOMAIN Tail(s) :
              /\ i + 1 \in DOMAIN s /\ Tail(s)[i] = s[i + 1]
              /\ Behind(Tail(s), come, i) = Behind(s, come, i + 1)
<1>1. /\ Len(s) \in Nat /\ Len(s) # 0 /\ DOMAIN s = 1 .. Len(s)
      /\ DOMAIN Tail(s) = 1 .. (Len(s) - 1)
      /\ \A i \in 1 .. (Len(s) - 1) : Tail(s)[i] = s[i + 1]
  OBVIOUS
<1>2. \A i \in DOMAIN Tail(s) : i + 1 \in DOMAIN s /\ i + 1 > 1 /\ Tail(s)[i] = s[i + 1]
  BY <1>1
<1>3. \A j \in DOMAIN s : j > 1 => j - 1 \in DOMAIN Tail(s) /\ Tail(s)[j - 1] = s[j]
  <2>1. \A j \in DOMAIN s : j > 1 => j - 1 \in DOMAIN Tail(s) /\ (j - 1) + 1 = j
    BY <1>1
  <2>2. QED
    BY <1>2, <2>1
<1>4. Kinds(Tail(s)) = {s[j].kind : j \in {k \in DOMAIN s : k > 1}}
  <2>1. \A x \in Kinds(Tail(s)) : \E j \in DOMAIN s : j > 1 /\ x = s[j].kind
    BY <1>2 DEF Kinds
  <2>2. \A j \in DOMAIN s : j > 1 => s[j].kind \in Kinds(Tail(s))
    BY <1>3 DEF Kinds
  <2>3. QED
    BY <2>1, <2>2
<1>5. ASSUME NEW i \in DOMAIN Tail(s) PROVE Behind(Tail(s), come, i) = Behind(s, come, i + 1)
  <2>1. \A j \in DOMAIN Tail(s) : j > i => j + 1 \in DOMAIN s /\ j + 1 > i + 1 /\ Tail(s)[j] = s[j + 1]
    BY <1>1, <1>2, <1>5
  <2>2. \A j \in DOMAIN s : j > i + 1 => j - 1 \in DOMAIN Tail(s) /\ j - 1 > i /\ Tail(s)[j - 1] = s[j]
    BY <1>1, <1>3, <1>5
  <2>3. QED
    BY <2>1, <2>2 DEF Behind
<1>6. QED
  BY <1>2, <1>4, <1>5 DEF Behind, Kinds

(* Items that come behind those of a lane.                                       *)
LEMMA JoinPlaces ==
  ASSUME NEW s \in Seq(Items), NEW r \in Seq(Items)
  PROVE  /\ s \o r \in Seq(Items) /\ Len(s) \in Nat /\ Len(r) \in Nat
         /\ DOMAIN s = 1 .. Len(s) /\ DOMAIN r = 1 .. Len(r)
         /\ DOMAIN (s \o r) = 1 .. (Len(s) + Len(r))
         /\ \A i \in DOMAIN s : i \in DOMAIN (s \o r) /\ (s \o r)[i] = s[i]
         /\ \A i \in DOMAIN r : Len(s) + i \in DOMAIN (s \o r) /\ (s \o r)[Len(s) + i] = r[i] /\ Len(s) + i \notin DOMAIN s
         /\ \A i \in DOMAIN (s \o r) : i \in DOMAIN s \/ \E k \in DOMAIN r : i = Len(s) + k
<1>1. /\ s \o r \in Seq(Items) /\ Len(s) \in Nat /\ Len(r) \in Nat
      /\ DOMAIN s = 1 .. Len(s) /\ DOMAIN r = 1 .. Len(r)
      /\ DOMAIN (s \o r) = 1 .. (Len(s) + Len(r))
      /\ \A i \in 1 .. Len(s) : (s \o r)[i] = s[i]
      /\ \A i \in 1 .. Len(r) : (s \o r)[Len(s) + i] = r[i]
  BY JoinOf
<1>2. \A i \in DOMAIN s : i \in DOMAIN (s \o r) /\ (s \o r)[i] = s[i]
  BY <1>1
<1>3. \A i \in DOMAIN r : Len(s) + i \in DOMAIN (s \o r) /\ (s \o r)[Len(s) + i] = r[i] /\ Len(s) + i \notin DOMAIN s
  BY <1>1
<1>4. \A i \in DOMAIN (s \o r) : i \in DOMAIN s \/ \E k \in DOMAIN r : i = Len(s) + k
  <2>1. ASSUME NEW i \in DOMAIN (s \o r), i \notin DOMAIN s PROVE i - Len(s) \in DOMAIN r /\ i = Len(s) + (i - Len(s))
    BY <1>1, <2>1
  <2>2. QED
    BY <2>1
<1>5. QED
  BY <1>1, <1>2, <1>3, <1>4

LEMMA JoinEnds ==
  ASSUME NEW s \in Seq(Items), NEW r \in Seq(Items),
         NEW i \in DOMAIN (s \o r), i \notin DOMAIN s
  PROVE  \E k \in DOMAIN r : (s \o r)[i] = r[k]
<1>1. PICK k \in DOMAIN r : i = Len(s) + k
  BY JoinPlaces
<1>2. (s \o r)[Len(s) + k] = r[k]
  BY JoinPlaces
<1>3. QED
  BY <1>1, <1>2

LEMMA KindsOfJoin ==
  ASSUME NEW s \in Seq(Items), NEW r \in Seq(Items)
  PROVE  /\ s \o r \in Seq(Items)
         /\ Kinds(s \o r) = Kinds(s) \cup Kinds(r)
         /\ s # <<>> => s \o r # <<>> /\ Head(s \o r) = Head(s)
         /\ s = <<>> => s \o r = r
<1>1. /\ s \o r \in Seq(Items) /\ Len(s) \in Nat /\ Len(r) \in Nat
      /\ DOMAIN s = 1 .. Len(s) /\ DOMAIN r = 1 .. Len(r)
      /\ DOMAIN (s \o r) = 1 .. (Len(s) + Len(r))
  BY JoinPlaces
<1>2. \A i \in DOMAIN s : i \in DOMAIN (s \o r) /\ (s \o r)[i] = s[i]
  BY JoinPlaces
<1>3. \A i \in DOMAIN r : Len(s) + i \in DOMAIN (s \o r) /\ (s \o r)[Len(s) + i] = r[i] /\ Len(s) + i \notin DOMAIN s
  BY JoinPlaces
<1>4. \A i \in DOMAIN (s \o r) : i \in DOMAIN s \/ \E k \in DOMAIN r : i = Len(s) + k
  BY JoinPlaces
<1>5. Kinds(s \o r) = Kinds(s) \cup Kinds(r)
  <2>1. \A i \in DOMAIN (s \o r) : (s \o r)[i].kind \in Kinds(s) \cup Kinds(r)
    BY <1>2, <1>3, <1>4 DEF Kinds
  <2>2. \A i \in DOMAIN s : s[i].kind \in Kinds(s \o r)
    BY <1>2 DEF Kinds
  <2>3. ASSUME NEW k \in DOMAIN r PROVE r[k].kind \in Kinds(s \o r)
    <3>1. Len(s) + k \in DOMAIN (s \o r) /\ (s \o r)[Len(s) + k] = r[k]
      BY <1>3
    <3>2. QED
      BY <3>1 DEF Kinds
  <2>4. Kinds(s) \subseteq Kinds(s \o r) /\ Kinds(r) \subseteq Kinds(s \o r)
    BY <2>2, <2>3 DEF Kinds
  <2>5. Kinds(s \o r) \subseteq Kinds(s) \cup Kinds(r)
    BY <2>1 DEF Kinds
  <2>6. QED
    BY <2>4, <2>5
<1>6. s # <<>> => s \o r # <<>> /\ Head(s \o r) = Head(s)
  <2>1. SUFFICES ASSUME s # <<>> PROVE s \o r # <<>> /\ Head(s \o r) = Head(s)
    OBVIOUS
  <2>2. Len(s) # 0 /\ Len(s) + Len(r) # 0 /\ 1 \in 1 .. Len(s)
    BY <1>1, <2>1
  <2>3. s \o r # <<>>
    BY <1>1, <2>2
  <2>4. Head(s \o r) = (s \o r)[1] /\ Head(s) = s[1]
    BY <1>1, <2>1, <2>3
  <2>5. QED
    BY <1>1, <2>2, <2>3, <2>4
<1>7. s = <<>> => s \o r = r
  OBVIOUS
<1>8. QED
  BY <1>1, <1>5, <1>6, <1>7

LEMMA BehindJoin ==
  ASSUME NEW s \in Seq(Items), NEW r \in Seq(Items), NEW come, NEW i \in DOMAIN s
  PROVE  /\ i \in DOMAIN (s \o r) /\ (s \o r)[i] = s[i]
         /\ Behind(s \o r, come, i) = Behind(s, come, i) \cup Kinds(r)
<1>1. /\ s \o r \in Seq(Items) /\ Len(s) \in Nat /\ Len(r) \in Nat
      /\ DOMAIN s = 1 .. Len(s) /\ DOMAIN r = 1 .. Len(r)
      /\ DOMAIN (s \o r) = 1 .. (Len(s) + Len(r))
  BY JoinPlaces
<1>2. \A j \in DOMAIN s : j \in DOMAIN (s \o r) /\ (s \o r)[j] = s[j]
  BY JoinPlaces
<1>3. \A j \in DOMAIN r : Len(s) + j \in DOMAIN (s \o r) /\ (s \o r)[Len(s) + j] = r[j] /\ Len(s) + j \notin DOMAIN s
  BY JoinPlaces
<1>4. \A j \in DOMAIN (s \o r) : j \in DOMAIN s \/ \E k \in DOMAIN r : j = Len(s) + k
  BY JoinPlaces
<1>5. Behind(s \o r, come, i) = Behind(s, come, i) \cup Kinds(r)
  <2>1. \A k \in DOMAIN r : Len(s) + k > i
    BY <1>1
  <2>2. ASSUME NEW j \in DOMAIN (s \o r), j > i PROVE (s \o r)[j].kind \in Behind(s, come, i) \cup Kinds(r)
    BY <1>2, <1>3, <1>4, <2>2 DEF Behind, Kinds
  <2>3. ASSUME NEW j \in DOMAIN s, j > i PROVE s[j].kind \in Behind(s \o r, come, i)
    BY <1>2, <2>3 DEF Behind
  <2>4. ASSUME NEW k \in DOMAIN r PROVE r[k].kind \in Behind(s \o r, come, i)
    <3>1. Len(s) + k \in DOMAIN (s \o r) /\ (s \o r)[Len(s) + k] = r[k] /\ Len(s) + k > i
      BY <1>3, <2>1
    <3>2. QED
      BY <3>1 DEF Behind
  <2>5. Behind(s, come, i) \subseteq Behind(s \o r, come, i)
    BY <2>3 DEF Behind
  <2>6. Behind(s \o r, come, i) \subseteq Behind(s, come, i) \cup Kinds(r)
    BY <2>2 DEF Behind
  <2>7. Kinds(r) \subseteq Behind(s \o r, come, i)
    BY <2>4 DEF Kinds
  <2>8. QED
    BY <2>5, <2>6, <2>7
<1>6. QED
  BY <1>2, <1>5

(* The items that have come.                                                     *)
LEMMA BehindLast ==
  ASSUME NEW s \in Seq(Items), NEW r \in Seq(Items), NEW come, NEW i \in DOMAIN (s \o r), i \notin DOMAIN s
  PROVE  /\ (s \o r)[i].kind \in Kinds(r) /\ come \subseteq Behind(s \o r, come, i)
         /\ Len(r) = 1 => (s \o r)[i] = r[1] /\ Behind(s \o r, come, i) = come
<1>1. /\ s \o r \in Seq(Items) /\ Len(s) \in Nat /\ Len(r) \in Nat
      /\ DOMAIN s = 1 .. Len(s) /\ DOMAIN r = 1 .. Len(r)
      /\ DOMAIN (s \o r) = 1 .. (Len(s) + Len(r))
  BY JoinPlaces
<1>2. \A j \in DOMAIN s : j \in DOMAIN (s \o r) /\ (s \o r)[j] = s[j]
  BY JoinPlaces
<1>3. \A j \in DOMAIN r : Len(s) + j \in DOMAIN (s \o r) /\ (s \o r)[Len(s) + j] = r[j] /\ Len(s) + j \notin DOMAIN s
  BY JoinPlaces
<1>4. \A j \in DOMAIN (s \o r) : j \in DOMAIN s \/ \E k \in DOMAIN r : j = Len(s) + k
  BY JoinPlaces
<1>5. PICK k \in DOMAIN r : i = Len(s) + k
  BY <1>4
<1>6. (s \o r)[i] = r[k]
  BY <1>3, <1>5
<1>7. ASSUME Len(r) = 1 PROVE k = 1 /\ \A j \in DOMAIN (s \o r) : ~(j > i)
  BY <1>1, <1>5, <1>7
<1>8. QED
  BY <1>6, <1>7 DEF Kinds, Behind

LEMMA KindsOfOne ==
  ASSUME NEW item \in Items
  PROVE  /\ <<item>> \in Seq(Items) /\ Len(<<item>>) = 1 /\ <<item>>[1] = item /\ <<item>> # <<>> /\ Head(<<item>>) = item
         /\ Kinds(<<item>>) = {item.kind}
         /\ \A s \in Seq(Items) : Append(s, item) = s \o <<item>>
<1>1. /\ <<item>> \in Seq(Items) /\ Len(<<item>>) = 1 /\ <<item>>[1] = item /\ <<item>> # <<>> /\ Head(<<item>>) = item
      /\ DOMAIN <<item>> = {1}
  OBVIOUS
<1>2. Kinds(<<item>>) = {item.kind}
  BY <1>1 DEF Kinds
<1>3. \A s \in Seq(Items) : Append(s, item) = s \o <<item>>
  OBVIOUS
<1>4. QED
  BY <1>1, <1>2, <1>3

LEMMA KindsOfNone ==
  /\ Kinds(<<>>) = {}
  /\ \A come : Behind(<<>>, come, 1) = come
  /\ \A s : Kinds(s) = {} /\ s \in Seq(Items) => s = <<>>
<1>1. DOMAIN <<>> = {}
  OBVIOUS
<1>2. ASSUME NEW s, Kinds(s) = {}, s \in Seq(Items) PROVE s = <<>>
  <2>1. DOMAIN s = {}
    BY <1>2 DEF Kinds
  <2>2. QED
    BY <1>2, <2>1
<1>3. QED
  BY <1>1, <1>2 DEF Kinds, Behind

-------------------------------------------------------------------------------
(* The steps of the resource's first item, seen from what is asked for.          *)

(* A step of the first item leaves what is behind it, and all else, as it was. *)
GoesOn ==
  /\ UNCHANGED <<catalog, news, stream, plan>>
  /\ ToDo' = ToDo /\ Kinds(drain["rebuild"].todo)' = Kinds(drain["rebuild"].todo)
  /\ lane'["annotation"] = lane["annotation"] /\ doing'["annotation"] = doing["annotation"]
  /\ Rest \cup ToDo \subseteq Soon'
  /\ \/ drain'["reconcile"].at = drain["reconcile"].at
     \/ drain["reconcile"].at = "waiting" /\ drain'["reconcile"].at = "active"
  /\ Kinds(Line') \subseteq Kinds(Line)
  /\ Order => Order'

LEMMA UndoneMore ==
  ASSUME NEW kind, NEW c, NEW F, NEW G, F \subseteq G, Undone(kind, F, c)
  PROVE  Undone(kind, G, c)
  BY DEF Undone

LEMMA LineTyped ==
  ASSUME LanesTyped
  PROVE  /\ Line \in Seq(Items) /\ lane["annotation"] \in Seq(Items)
         /\ Line = <<>> => Now = NotStarted
         /\ Now = NotStarted => Now.step = "start"
         /\ Now \in DoingType
<1>1. "resource" \in Lanes /\ "annotation" \in Lanes
  BY DEF Lanes
<1>2. QED
  BY <1>1 DEF LanesTyped, Line, Now, NotStarted

(* What is asked for when the lane is empty, and what the first item makes of it. *)
LEMMA SoonIs ==
  ASSUME LanesTyped
  PROVE  /\ Line = <<>> => Rest = ToCome /\ Soon = ToCome \cup ToDo /\ Kinds(Line) = {}
         /\ Line # <<>> => /\ Kinds(Line) \cup ToCome = {What} \cup Rest
                           /\ What \in Kinds(Line)
                           /\ Order => Undone(What, Rest, catalog)
                           /\ Soon = Rest \cup ToDo \cup (IF Now.step = "start" THEN {What} ELSE {})
         /\ Now.step # "start" => Line # <<>> /\ Soon = Rest \cup ToDo
         /\ Kinds(Line) \cup ToCome \cup ToDo = IF Line = <<>> THEN Rest \cup ToDo ELSE {What} \cup Rest \cup ToDo
<1>1. Line \in Seq(Items) /\ (Line = <<>> => Now.step = "start")
  BY LineTyped
<1>2. First = IF Line # <<>> /\ Now.step = "start" THEN {What} ELSE {}
  BY DEF First, At, Line, Now
<1>3. ASSUME Line = <<>> PROVE Rest = ToCome /\ Kinds(Line) = {}
  BY <1>3, KindsOfNone DEF Rest
<1>4. ASSUME Line # <<>> PROVE What = Head(Line).kind /\ Kinds(Line) \cup ToCome = {What} \cup Rest /\ What \in Kinds(Line)
  <2>1. What = Head(Line).kind
    BY DEF What, Kind, Item, Line
  <2>2. QED
    BY <1>1, <1>4, <2>1, KindsOfFirst DEF Rest
<1>5. ASSUME Line # <<>>, Order PROVE Undone(What, Rest, catalog)
  <2>1. 1 \in DOMAIN Line /\ Head(Line) = Line[1]
    BY <1>1, <1>5
  <2>2. QED
    BY <1>4, <1>5, <2>1 DEF Order, Rest
<1>6. QED
  BY <1>1, <1>2, <1>3, <1>4, <1>5 DEF Soon

LEMMA MovesOn ==
  ASSUME LanesTyped, Line # <<>>, UNCHANGED <<catalog, news, stream, plan, lane, drain>>,
         NEW d, d.step # "start", doing' = [doing EXCEPT !["resource"] = d]
  PROVE  GoesOn /\ Now' = d /\ What' = What /\ Rest' = Rest
<1>1. Line' = Line /\ ToDo' = ToDo /\ ToCome' = ToCome /\ What' = What
  BY DEF Line, ToDo, ToCome, What, Kind, Item
<1>2. Rest' = Rest
  BY <1>1 DEF Rest
<1>3. Now' = d /\ doing'["annotation"] = doing["annotation"]
  BY DEF LanesTyped, Lanes, Now
<1>4. Order => Order'
  BY <1>1 DEF Order
<1>5. Kinds(drain["rebuild"].todo)' = Kinds(drain["rebuild"].todo)
  OBVIOUS
<1>6. Rest \cup ToDo \subseteq Soon'
  BY <1>1, <1>2 DEF Soon
<1>7. QED
  BY <1>1, <1>2, <1>3, <1>4, <1>5, <1>6 DEF GoesOn

(* The end of an item is counted, and no drain goes on but one that waits.       *)
LEMMA EndedCounts ==
  ASSUME Inv, NEW l \in Lanes, lane[l] # <<>>, NEW f \in {0, 1}, Ended(l, f)
  PROVE  \A w \in Planners :
           /\ drain'[w].todo = drain[w].todo
           /\ drain'[w].at = drain[w].at \/ (drain[w].at = "waiting" /\ drain'[w].at = "active")
<1>1. /\ drain \in [Planners -> DrainType] /\ CounterTyped
      /\ \A w \in Planners : drain[w] \in DrainType
  BY TypesAre DEF Inv
<1>2. \/ drain' = drain
      \/ workWaiter # NoWaiter /\ drain' = [drain EXCEPT ![workWaiter.for].at = "active"]
  BY ItemEnds DEF Inv
<1>3. workWaiter # NoWaiter => workWaiter.for \in Planners /\ drain[workWaiter.for].at = "waiting"
  BY <1>1, WaiterIs DEF Inv, Waited
<1>4. CASE drain' = drain
  BY <1>4
<1>5. CASE workWaiter # NoWaiter /\ drain' = [drain EXCEPT ![workWaiter.for].at = "active"]
  <2> DEFINE v == workWaiter.for
  <2>1. v \in Planners /\ drain[v].at = "waiting" /\ drain' = [drain EXCEPT ![v].at = "active"]
    BY <1>3, <1>5
  <2> HIDE DEF v
  <2>2. \A w \in Planners \ {v} : drain'[w] = drain[w]
    BY <1>1, <2>1
  <2>3. drain'[v] = [drain[v] EXCEPT !.at = "active"]
    BY <1>1, <2>1
  <2>4. drain'[v].todo = drain[v].todo /\ drain'[v].at = "active"
    BY <1>1, <2>1, <2>3 DEF DrainType
  <2>5. QED
    BY <2>1, <2>2, <2>4
<1>6. QED
  BY <1>2, <1>4, <1>5

LEMMA EndsHere ==
  ASSUME Inv, Line # <<>>, UNCHANGED <<catalog, news, stream, plan>>, NEW f \in {0, 1}, Ended("resource", f)
  PROVE  GoesOn /\ Now' = NotStarted
<1>1. LanesTyped /\ Line \in Seq(Items) /\ "resource" \in Lanes /\ "annotation" \in Lanes
  BY TypesAre, LineTyped DEF Inv, Lanes
<1>2. \A w \in Planners :
        /\ drain'[w].todo = drain[w].todo
        /\ drain'[w].at = drain[w].at \/ (drain[w].at = "waiting" /\ drain'[w].at = "active")
  BY <1>1, EndedCounts DEF Line
<1>3. ToDo' = ToDo /\ Kinds(drain["rebuild"].todo)' = Kinds(drain["rebuild"].todo)
  BY <1>2 DEF ToDo, Planners
<1>4. /\ Line' = Tail(Line) /\ Now' = NotStarted
      /\ lane'["annotation"] = lane["annotation"] /\ doing'["annotation"] = doing["annotation"]
  BY <1>1 DEF Ended, LanesTyped, Line, Now
<1>5. ToCome' = ToCome
  BY DEF ToCome
<1>6. /\ Kinds(Tail(Line)) \cup ToCome = Rest
      /\ Kinds(Tail(Line)) \subseteq Kinds(Line)
      /\ \A i \in DOMAIN Tail(Line) :
           /\ i + 1 \in DOMAIN Line /\ Tail(Line)[i] = Line[i + 1]
           /\ Behind(Tail(Line), ToCome, i) = Behind(Line, ToCome, i + 1)
  BY <1>1, KindsOfRest DEF Rest
<1>7. Order => Order'
  BY <1>4, <1>5, <1>6 DEF Order
<1>8. Rest \cup ToDo \subseteq Soon'
  <2>1. Tail(Line) \in Seq(Items)
    BY <1>1
  <2>2. CASE Tail(Line) = <<>>
    <3>1. Rest' = ToCome /\ Kinds(Tail(Line)) = {}
      BY <1>4, <1>5, <2>2, KindsOfNone DEF Rest
    <3>2. QED
      BY <1>3, <1>6, <3>1 DEF Soon
  <2>3. CASE Tail(Line) # <<>>
    <3>1. Kinds(Line') \cup ToCome = {Head(Line').kind} \cup Rest'
      BY <1>4, <1>5, <2>1, <2>3, KindsOfFirst DEF Rest
    <3>2. First' = {Head(Line').kind}
      BY <1>4, <2>3 DEF First, At, Line, Now, NotStarted, What, Kind, Item
    <3>3. QED
      BY <1>3, <1>4, <1>6, <3>1, <3>2 DEF Soon
  <2>4. QED
    BY <2>2, <2>3
<1>9. QED
  BY <1>2, <1>3, <1>4, <1>6, <1>7, <1>8 DEF GoesOn, Planners

LEMMA GotoOn ==
  ASSUME LanesTyped, Line # <<>>, UNCHANGED <<catalog, news, stream, plan>>,
         NEW step, step # "start", Goto("resource", step)
  PROVE  GoesOn /\ Now' = [Now EXCEPT !.step = step] /\ What' = What /\ Rest' = Rest
<1> DEFINE d == [Now EXCEPT !.step = step]
<1>1. Now \in DoingType
  BY LineTyped
<1>2. d.step = step
  BY <1>1 DEF DoingType
<1>3. doing' = [doing EXCEPT !["resource"] = d] /\ UNCHANGED <<lane, drain>>
  BY DEF Goto, drainVars, Now
<1> HIDE DEF d
<1>4. QED
  BY <1>2, <1>3, MovesOn DEF d

LEMMA GotoWithOn ==
  ASSUME LanesTyped, Line # <<>>, UNCHANGED <<catalog, news, stream, plan>>,
         NEW step, step # "start", NEW bytes, NEW tags, GotoWith("resource", step, bytes, tags)
  PROVE  GoesOn /\ Now' = [step |-> step, bytes |-> bytes, tags |-> tags] /\ What' = What /\ Rest' = Rest
<1> DEFINE d == [step |-> step, bytes |-> bytes, tags |-> tags]
<1>1. d.step = step /\ doing' = [doing EXCEPT !["resource"] = d] /\ UNCHANGED <<lane, drain>>
  BY DEF GotoWith, drainVars
<1> HIDE DEF d
<1>2. QED
  BY <1>1, MovesOn DEF d

(* embedResource is the end of an item, but for an unarchive. *)
LEMMA EmbeddedOn ==
  ASSUME Inv, Line # <<>>, UNCHANGED <<catalog, news, stream, plan>>, Embedded("resource")
  PROVE  /\ GoesOn
         /\ \/ Now' = NotStarted /\ What # "unarchived"
            \/ Now'.step = "list" /\ What = "unarchived" /\ What' = What /\ Rest' = Rest
<1>1. LanesTyped /\ Now \in DoingType
  BY TypesAre, LineTyped DEF Inv
<1>2. CASE What = "unarchived"
  <2>1. Goto("resource", "list")
    BY <1>2 DEF Embedded, What
  <2>2. GoesOn /\ Now' = [Now EXCEPT !.step = "list"] /\ What' = What /\ Rest' = Rest
    BY <1>1, <2>1, GotoOn
  <2>3. QED
    BY <1>1, <1>2, <2>2 DEF DoingType
<1>3. CASE What # "unarchived"
  <2>1. Ended("resource", 0)
    BY <1>3 DEF Embedded, Done, What
  <2>2. QED
    BY <1>3, <2>1, EndsHere
<1>4. QED
  BY <1>2, <1>3

(* The news, the lanes and the plan still fit.                                   *)
LEMMA GoesOnFits ==
  ASSUME Fitting, GoesOn
  PROVE  NewsFit' /\ LanesFit' /\ PlanFits'
<1>1. NewsFit'
  BY DEF Fitting, GoesOn, NewsFit, Turn, After
<1>2. LanesFit'
  BY DEF Fitting, GoesOn, LanesFit
<1>3. PlanFits'
  BY DEF Fitting, GoesOn, PlanFits
<1>4. QED
  BY <1>1, <1>2, <1>3

LEMMA UpsertAsks ==
  ASSUME Inv, Fitting, Upsert("resource")
  PROVE  Fitting' /\ (Order /\ Asked /\ ~drift' => Order' /\ Asked')
<1>1. /\ Line # <<>> /\ Now.step = "upsert" /\ LanesTyped
      /\ UNCHANGED <<catalog, news, stream, plan, reply, annotated, anchored, drift, spent>>
      /\ vector' = [bytes |-> Now.bytes, tags |-> Now.tags]
      /\ Embedded("resource")
  BY TypesAre DEF Inv, Upsert, At, Line, Now, outsideVars, backendVars
<1>2. StepsFit /\ StoresFit
  BY DEF Fitting
<1>3. /\ GoesOn
      /\ \/ Now' = NotStarted /\ What # "unarchived"
         \/ Now'.step = "list" /\ What = "unarchived" /\ What' = What /\ Rest' = Rest
  BY <1>1, EmbeddedOn
<1>4. /\ What \in Embeds /\ Now.bytes \notin Declined \cup {0}
      /\ drift \/ Now.bytes = catalog.bytes \/ "updated" \in Rest
      /\ drift \/ Now.tags = catalog.tags \/ "retagged" \in Rest
  BY <1>1, <1>2 DEF StepsFit
<1>5. StoresFit'
  BY <1>1, <1>2, <1>4 DEF StoresFit
<1>6. StepsFit'
  BY <1>3 DEF StepsFit, NotStarted
<1>7. Fitting'
  BY <1>3, <1>5, <1>6, GoesOnFits DEF Fitting
<1>8. ASSUME Order, Asked, ~drift' PROVE Order' /\ Asked'
  <2>1. /\ Order' /\ Soon \subseteq Soon' /\ Rest \subseteq Soon' /\ ToDo' = ToDo
        /\ lane'["annotation"] = lane["annotation"]
        /\ catalog.archived => "archived" \in Rest
    BY <1>1, <1>3, <1>4, <1>8, SoonIs DEF GoesOn, Undone, Embeds
  <2>2. Cleared'
    BY <1>1, <2>1 DEF Cleared
  <2>3. Current'
    BY <1>1, <1>3, <1>4, <1>8, <2>1 DEF Asked, Current, EmbedsSoon, Snapped, Listed
  <2>4. Stamped'
    BY <1>1, <1>3, <1>4, <1>8, <2>1 DEF Asked, Stamped, EmbedsSoon, Snapped, Listed
  <2>5. Anchored'
    BY <1>1, <1>3, <1>4, <1>8, <2>1 DEF Asked, Anchored, EmbedsSoon, Snapped, Listed
  <2>6. Noted'
    BY <1>1, <1>3, <1>8, <2>1 DEF Asked, Noted, Wanted, Snapped, Listed
  <2>7. Unnoted'
    BY <1>1, <1>3, <1>4, <1>8, <2>1 DEF Asked, Unnoted, Wanted, Snapped, Listed
  <2>8. QED
    BY <2>1, <2>2, <2>3, <2>4, <2>5, <2>6, <2>7 DEF Asked
<1>9. QED
  BY <1>7, <1>8
LEMMA FetchTextAsks ==
  ASSUME Inv, Fitting, FetchText("resource")
  PROVE  Fitting' /\ (Order /\ Asked /\ ~drift' => Order' /\ Asked')
<1>1. /\ Line # <<>> /\ LanesTyped
      /\ Now.step = "start" /\ What \in Embeds
      /\ UNCHANGED <<catalog, news, stream, plan, reply, vector, annotated>>
      /\ GotoWith("resource", IF catalog.bytes \in Declined THEN "decline" ELSE "tags", catalog.bytes, 0)
      /\ anchored' = anchored \cup {catalog.bytes} \/ drift' = TRUE
  BY TypesAre DEF Inv, FetchText, At, Line, Now, What, outsideVars, backendVars
<1>2. StepsFit /\ StoresFit /\ LanesFit
  BY DEF Fitting
<1>3. /\ GoesOn /\ What' = What /\ Rest' = Rest
      /\ Now' = [step |-> IF catalog.bytes \in Declined THEN "decline" ELSE "tags", bytes |-> catalog.bytes, tags |-> 0]
  BY <1>1, GotoWithOn
<1>4. catalog.bytes # 0
  BY TypesAre DEF Inv, BackendTyped, Generations
<1>5. StoresFit'
  BY <1>1, <1>2, <1>4 DEF StoresFit
<1>6. StepsFit'
  BY <1>1, <1>2, <1>3, <1>4 DEF StepsFit
<1>7. Fitting'
  BY <1>3, <1>5, <1>6, GoesOnFits DEF Fitting
<1>8. ASSUME Order, Asked, ~drift' PROVE Order' /\ Asked'
  <2>1. /\ Order' /\ Rest \cup ToDo \subseteq Soon' /\ ToDo' = ToDo
        /\ lane'["annotation"] = lane["annotation"]
        /\ Soon = Rest \cup ToDo \cup {What}
    BY <1>1, <1>3, <1>8, SoonIs DEF GoesOn
  <2>2. Cleared'
    BY <1>1, <1>3, <1>4, <1>8, <2>1 DEF Asked, Cleared, Snapped, Listed, Embeds
  <2>3. Current'
    BY <1>1, <1>3, <1>4, <1>8, <2>1 DEF Asked, Current, EmbedsSoon, Snapped, Listed
  <2>4. Stamped'
    BY <1>1, <1>3, <1>4, <1>8, <2>1 DEF Asked, Stamped, EmbedsSoon, Snapped, Listed
  <2>5. Anchored'
    BY <1>1, <1>3, <1>4, <1>8, <2>1 DEF Asked, Anchored, EmbedsSoon, Snapped, Listed
  <2>6. Noted'
    BY <1>1, <1>3, <1>4, <1>8, <2>1 DEF Asked, Noted, Wanted, Snapped, Listed, Embeds
  <2>7. Unnoted'
    BY <1>1, <1>3, <1>4, <1>8, <2>1 DEF Asked, Unnoted, Wanted, Snapped, Listed, Embeds
  <2>8. QED
    BY <2>1, <2>2, <2>3, <2>4, <2>5, <2>6, <2>7 DEF Asked
<1>9. QED
  BY <1>7, <1>8

LEMMA ResolveEntityTypesAsks ==
  ASSUME Inv, Fitting, ResolveEntityTypes("resource")
  PROVE  Fitting' /\ (Order /\ Asked /\ ~drift' => Order' /\ Asked')
<1>1. /\ Line # <<>> /\ LanesTyped
      /\ Now.step = "tags"
      /\ UNCHANGED <<catalog, news, stream, plan, reply, vector, annotated, anchored, drift>>
      /\ GotoWith("resource", "upsert", Now.bytes, catalog.tags)
  BY TypesAre DEF Inv, ResolveEntityTypes, At, Line, Now, What, outsideVars, backendVars, storeVars
<1>2. StepsFit /\ StoresFit /\ LanesFit
  BY DEF Fitting
<1>3. /\ GoesOn /\ What' = What /\ Rest' = Rest
      /\ Now' = [step |-> "upsert", bytes |-> Now.bytes, tags |-> catalog.tags]
  BY <1>1, GotoWithOn
<1>4. drift \/ Now.bytes = catalog.bytes \/ "updated" \in Rest
  BY <1>1, <1>2 DEF StepsFit
<1>5. StoresFit'
  BY <1>1, <1>2, <1>4 DEF StoresFit
<1>6. StepsFit'
  BY <1>1, <1>2, <1>3, <1>4 DEF StepsFit
<1>7. Fitting'
  BY <1>3, <1>5, <1>6, GoesOnFits DEF Fitting
<1>8. ASSUME Order, Asked, ~drift' PROVE Order' /\ Asked'
  <2>1. /\ Order' /\ Rest \cup ToDo \subseteq Soon' /\ ToDo' = ToDo
        /\ lane'["annotation"] = lane["annotation"]
        /\ Soon \subseteq Soon'
    BY <1>1, <1>3, <1>8, SoonIs DEF GoesOn
  <2>2. Cleared'
    BY <1>1, <1>3, <1>4, <1>8, <2>1 DEF Asked, Cleared, Snapped, Listed
  <2>3. Current'
    BY <1>1, <1>3, <1>4, <1>8, <2>1 DEF Asked, Current, EmbedsSoon, Snapped, Listed
  <2>4. Stamped'
    BY <1>1, <1>3, <1>4, <1>8, <2>1 DEF Asked, Stamped, EmbedsSoon, Snapped, Listed
  <2>5. Anchored'
    BY <1>1, <1>3, <1>4, <1>8, <2>1 DEF Asked, Anchored, EmbedsSoon, Snapped, Listed
  <2>6. Noted'
    BY <1>1, <1>3, <1>4, <1>8, <2>1 DEF Asked, Noted, Wanted, Snapped, Listed
  <2>7. Unnoted'
    BY <1>1, <1>3, <1>4, <1>8, <2>1 DEF Asked, Unnoted, Wanted, Snapped, Listed
  <2>8. QED
    BY <2>1, <2>2, <2>3, <2>4, <2>5, <2>6, <2>7 DEF Asked
<1>9. QED
  BY <1>7, <1>8

LEMMA DeclineAsks ==
  ASSUME Inv, Fitting, Decline("resource")
  PROVE  Fitting' /\ (Order /\ Asked /\ ~drift' => Order' /\ Asked')
<1>1. /\ Line # <<>> /\ LanesTyped
      /\ Now.step = "decline"
      /\ UNCHANGED <<catalog, news, stream, plan, reply, annotated, anchored, drift, spent>>
      /\ vector' = NoVector
      /\ Embedded("resource")
  BY TypesAre DEF Inv, Decline, At, Line, Now, What, outsideVars, backendVars
<1>2. StepsFit /\ StoresFit /\ LanesFit
  BY DEF Fitting
<1>3. /\ GoesOn
      /\ \/ Now' = NotStarted /\ What # "unarchived"
         \/ Now'.step = "list" /\ What = "unarchived" /\ What' = What /\ Rest' = Rest
  BY <1>1, EmbeddedOn
<1>4. /\ What \in Embeds /\ Now.bytes \in Declined /\ NoVector.bytes = 0 /\ 0 \notin Declined
      /\ drift \/ Now.bytes = catalog.bytes \/ "updated" \in Rest
  BY <1>1, <1>2, SmelterAssumption DEF StepsFit, NoVector
<1>5. StoresFit'
  BY <1>1, <1>2, <1>4 DEF StoresFit
<1>6. StepsFit'
  BY <1>3 DEF StepsFit, NotStarted
<1>7. Fitting'
  BY <1>3, <1>5, <1>6, GoesOnFits DEF Fitting
<1>8. ASSUME Order, Asked, ~drift' PROVE Order' /\ Asked'
  <2>1. /\ Order' /\ Rest \cup ToDo \subseteq Soon' /\ ToDo' = ToDo
        /\ lane'["annotation"] = lane["annotation"]
        /\ Soon \subseteq Soon'
    BY <1>1, <1>3, <1>8, SoonIs DEF GoesOn
  <2>2. Cleared'
    BY <1>1, <1>3, <1>4, <1>8, <2>1 DEF Asked, Cleared, Snapped, Listed
  <2>3. Current'
    BY <1>1, <1>3, <1>4, <1>8, <2>1 DEF Asked, Current, EmbedsSoon, Snapped, Listed
  <2>4. Stamped'
    BY <1>1, <1>3, <1>4, <1>8, <2>1 DEF Asked, Stamped, EmbedsSoon, Snapped, Listed
  <2>5. Anchored'
    BY <1>1, <1>3, <1>4, <1>8, <2>1 DEF Asked, Anchored, EmbedsSoon, Snapped, Listed
  <2>6. Noted'
    BY <1>1, <1>3, <1>4, <1>8, <2>1 DEF Asked, Noted, Wanted, Snapped, Listed
  <2>7. Unnoted'
    BY <1>1, <1>3, <1>4, <1>8, <2>1 DEF Asked, Unnoted, Wanted, Snapped, Listed
  <2>8. QED
    BY <2>1, <2>2, <2>3, <2>4, <2>5, <2>6, <2>7 DEF Asked
<1>9. QED
  BY <1>7, <1>8

LEMMA ListAnnotationsAsks ==
  ASSUME Inv, Fitting, ListAnnotations("resource")
  PROVE  Fitting' /\ (Order /\ Asked /\ ~drift' => Order' /\ Asked')
<1>1. /\ Line # <<>> /\ LanesTyped
      /\ Now.step = "list"
      /\ UNCHANGED <<catalog, news, stream, plan, reply, vector, annotated, anchored, drift, spent>>
      /\ IF catalog.annotation = "there" THEN Goto("resource", "annotate") ELSE Done("resource")
  BY TypesAre DEF Inv, ListAnnotations, At, Line, Now, What, outsideVars, backendVars, storeVars
<1>2. StepsFit /\ StoresFit /\ LanesFit
  BY DEF Fitting
<1>3. /\ GoesOn
      /\ \/ Now' = NotStarted /\ catalog.annotation # "there"
         \/ /\ Now'.step = "annotate" /\ What' = What /\ Rest' = Rest
            /\ catalog.annotation = "there"
  BY <1>1, GotoOn, EndsHere, LineTyped DEF Done, DoingType
<1>4. What = "unarchived"
  BY <1>1, <1>2 DEF StepsFit
<1>5. StoresFit'
  BY <1>1, <1>2, <1>4 DEF StoresFit
<1>6. StepsFit'
  BY <1>1, <1>3, <1>4 DEF StepsFit, NotStarted, GoesOn
<1>7. Fitting'
  BY <1>3, <1>5, <1>6, GoesOnFits DEF Fitting
<1>8. ASSUME Order, Asked, ~drift' PROVE Order' /\ Asked'
  <2>1. /\ Order' /\ Rest \cup ToDo \subseteq Soon' /\ ToDo' = ToDo
        /\ lane'["annotation"] = lane["annotation"]
        /\ Soon \subseteq Soon'
    BY <1>1, <1>3, <1>8, SoonIs DEF GoesOn
  <2>2. Cleared'
    BY <1>1, <1>3, <1>4, <1>8, <2>1 DEF Asked, Cleared, Snapped, Listed
  <2>3. Current'
    BY <1>1, <1>3, <1>4, <1>8, <2>1 DEF Asked, Current, EmbedsSoon, Snapped, Listed
  <2>4. Stamped'
    BY <1>1, <1>3, <1>4, <1>8, <2>1 DEF Asked, Stamped, EmbedsSoon, Snapped, Listed
  <2>5. Anchored'
    BY <1>1, <1>3, <1>4, <1>8, <2>1 DEF Asked, Anchored, EmbedsSoon, Snapped, Listed
  <2>6. Noted'
    BY <1>1, <1>3, <1>4, <1>8, <2>1 DEF Asked, Noted, Wanted, Snapped, Listed
  <2>7. Unnoted'
    BY <1>1, <1>3, <1>4, <1>8, <2>1 DEF Asked, Unnoted, Wanted, Snapped, Listed
  <2>8. QED
    BY <2>1, <2>2, <2>3, <2>4, <2>5, <2>6, <2>7 DEF Asked
<1>9. QED
  BY <1>7, <1>8

LEMMA IndexAnnotationAsks ==
  ASSUME Inv, Fitting, IndexAnnotation("resource")
  PROVE  Fitting' /\ (Order /\ Asked /\ ~drift' => Order' /\ Asked')
<1>1. /\ Line # <<>> /\ LanesTyped
      /\ Now.step = "annotate" \/ (Now.step = "start" /\ What \in {"added", "embedAnnotation"})
      /\ UNCHANGED <<catalog, news, stream, plan, reply, vector, anchored, drift, spent>>
      /\ annotated' = TRUE
      /\ Done("resource")
  BY TypesAre DEF Inv, IndexAnnotation, At, Line, Now, What, outsideVars, backendVars
<1>2. StepsFit /\ StoresFit /\ LanesFit
  BY DEF Fitting
<1>3. GoesOn /\ Now' = NotStarted
  BY <1>1, EndsHere DEF Done
<1>4. /\ Now.step = "annotate" => What = "unarchived"
      /\ catalog.annotation \in {"there", "removed"}
      /\ Now.step = "annotate" /\ catalog.annotation = "removed" => drift \/ "removed" \in Rest
  BY <1>1, <1>2, SoonIs, TypesAre DEF StepsFit, LanesFit, Inv, BackendTyped
<1>5. StoresFit'
  BY <1>1, <1>2, <1>4 DEF StoresFit
<1>6. StepsFit'
  BY <1>3 DEF StepsFit, NotStarted
<1>7. Fitting'
  BY <1>3, <1>5, <1>6, GoesOnFits DEF Fitting
<1>8. ASSUME Order, Asked, ~drift' PROVE Order' /\ Asked'
  <2>1. /\ Order' /\ Rest \cup ToDo \subseteq Soon' /\ ToDo' = ToDo
        /\ lane'["annotation"] = lane["annotation"]
        /\ \A kind \in Soon \ {"added", "embedAnnotation"} : kind \in Soon'
        /\ catalog.archived \/ catalog.annotation # "there" => "archived" \in Rest \/ "removed" \in Rest
    BY <1>1, <1>3, <1>4, <1>8, SoonIs DEF GoesOn, Undone
  <2>2. Cleared'
    BY <1>1, <1>3, <1>4, <1>8, <2>1 DEF Asked, Cleared, Snapped, Listed
  <2>3. Current'
    BY <1>1, <1>3, <1>4, <1>8, <2>1 DEF Asked, Current, EmbedsSoon, Snapped, Listed
  <2>4. Stamped'
    BY <1>1, <1>3, <1>4, <1>8, <2>1 DEF Asked, Stamped, EmbedsSoon, Snapped, Listed
  <2>5. Anchored'
    BY <1>1, <1>3, <1>4, <1>8, <2>1 DEF Asked, Anchored, EmbedsSoon, Snapped, Listed
  <2>6. Noted'
    BY <1>1, <1>3, <1>4, <1>8, <2>1 DEF Asked, Noted, Wanted, Snapped, Listed
  <2>7. Unnoted'
    BY <1>1, <1>3, <1>4, <1>8, <2>1 DEF Asked, Unnoted, Wanted, Snapped, Listed
  <2>8. QED
    BY <2>1, <2>2, <2>3, <2>4, <2>5, <2>6, <2>7 DEF Asked
<1>9. QED
  BY <1>7, <1>8

LEMMA RemoveAnnotationAsks ==
  ASSUME Inv, Fitting, RemoveAnnotation("resource")
  PROVE  Fitting' /\ (Order /\ Asked /\ ~drift' => Order' /\ Asked')
<1>1. /\ Line # <<>> /\ LanesTyped
      /\ Now.step = "start" /\ What \in {"removed", "purgeAnnotation"}
      /\ UNCHANGED <<catalog, news, stream, plan, reply, vector, anchored, spent>>
      /\ annotated' = FALSE
      /\ Done("resource")
  BY TypesAre DEF Inv, RemoveAnnotation, At, Line, Now, What, outsideVars, backendVars
<1>2. StepsFit /\ StoresFit /\ LanesFit
  BY DEF Fitting
<1>3. GoesOn /\ Now' = NotStarted
  BY <1>1, EndsHere DEF Done
<1>4. What = "removed" /\ catalog.annotation = "removed"
  BY <1>1, <1>2, SoonIs DEF LanesFit
<1>5. StoresFit'
  BY <1>1, <1>2, <1>4 DEF StoresFit
<1>6. StepsFit'
  BY <1>3 DEF StepsFit, NotStarted
<1>7. Fitting'
  BY <1>3, <1>5, <1>6, GoesOnFits DEF Fitting
<1>8. ASSUME Order, Asked, ~drift' PROVE Order' /\ Asked'
  <2>1. /\ Order' /\ Rest \cup ToDo \subseteq Soon' /\ ToDo' = ToDo
        /\ lane'["annotation"] = lane["annotation"]
        /\ Soon = Rest \cup ToDo \cup {What}
    BY <1>1, <1>3, <1>4, <1>8, SoonIs DEF GoesOn, Undone
  <2>2. Cleared'
    BY <1>1, <1>3, <1>4, <1>8, <2>1 DEF Asked, Cleared, Snapped, Listed
  <2>3. Current'
    BY <1>1, <1>3, <1>4, <1>8, <2>1 DEF Asked, Current, EmbedsSoon, Snapped, Listed
  <2>4. Stamped'
    BY <1>1, <1>3, <1>4, <1>8, <2>1 DEF Asked, Stamped, EmbedsSoon, Snapped, Listed
  <2>5. Anchored'
    BY <1>1, <1>3, <1>4, <1>8, <2>1 DEF Asked, Anchored, EmbedsSoon, Snapped, Listed
  <2>6. Noted'
    BY <1>1, <1>3, <1>4, <1>8, <2>1 DEF Asked, Noted, Wanted, Snapped, Listed
  <2>7. Unnoted'
    BY <1>1, <1>3, <1>4, <1>8, <2>1 DEF Asked, Unnoted, Wanted, Snapped, Listed
  <2>8. QED
    BY <2>1, <2>2, <2>3, <2>4, <2>5, <2>6, <2>7 DEF Asked
<1>9. QED
  BY <1>7, <1>8

LEMMA ArchiveAsks ==
  ASSUME Inv, Fitting, Archive("resource")
  PROVE  Fitting' /\ (Order /\ Asked /\ ~drift' => Order' /\ Asked')
<1>1. /\ Line # <<>> /\ LanesTyped
      /\ Now.step = "start" /\ What = "archived"
      /\ UNCHANGED <<catalog, news, stream, plan, reply, annotated, anchored, drift, spent>>
      /\ vector' = NoVector
      /\ Goto("resource", "unannotate")
  BY TypesAre DEF Inv, Archive, At, Line, Now, What, outsideVars, backendVars
<1>2. StepsFit /\ StoresFit /\ LanesFit
  BY DEF Fitting
<1>3. /\ GoesOn /\ What' = What /\ Rest' = Rest
      /\ Now' = [Now EXCEPT !.step = "unannotate"]
  BY <1>1, GotoOn
<1>4. Now'.step = "unannotate" /\ NoVector.bytes = 0 /\ 0 \notin Declined
  BY <1>3, <1>1, LineTyped, SmelterAssumption DEF DoingType, NoVector
<1>5. StoresFit'
  BY <1>1, <1>2, <1>4 DEF StoresFit
<1>6. StepsFit'
  BY <1>1, <1>3, <1>4 DEF StepsFit
<1>7. Fitting'
  BY <1>3, <1>5, <1>6, GoesOnFits DEF Fitting
<1>8. ASSUME Order, Asked, ~drift' PROVE Order' /\ Asked'
  <2>1. /\ Order' /\ Rest \cup ToDo \subseteq Soon' /\ ToDo' = ToDo
        /\ lane'["annotation"] = lane["annotation"]
        /\ Soon = Rest \cup ToDo \cup {What}
        /\ ~catalog.archived => "unarchived" \in Rest
    BY <1>1, <1>3, <1>8, SoonIs DEF GoesOn, Undone
  <2>2. Cleared'
    BY <1>1, <1>3, <1>4, <1>8, <2>1 DEF Asked, Cleared, Snapped, Listed
  <2>3. Current'
    BY <1>1, <1>3, <1>4, <1>8, <2>1 DEF Asked, Current, EmbedsSoon, Snapped, Listed
  <2>4. Stamped'
    BY <1>1, <1>3, <1>4, <1>8, <2>1 DEF Asked, Stamped, EmbedsSoon, Snapped, Listed
  <2>5. Anchored'
    BY <1>1, <1>3, <1>4, <1>8, <2>1 DEF Asked, Anchored, EmbedsSoon, Snapped, Listed
  <2>6. Noted'
    BY <1>1, <1>3, <1>4, <1>8, <2>1 DEF Asked, Noted, Wanted, Snapped, Listed
  <2>7. Unnoted'
    BY <1>1, <1>3, <1>4, <1>8, <2>1 DEF Asked, Unnoted, Wanted, Snapped, Listed
  <2>8. QED
    BY <2>1, <2>2, <2>3, <2>4, <2>5, <2>6, <2>7 DEF Asked
<1>9. QED
  BY <1>7, <1>8

LEMMA DeleteAnnotationsAsks ==
  ASSUME Inv, Fitting, DeleteAnnotations("resource")
  PROVE  Fitting' /\ (Order /\ Asked /\ ~drift' => Order' /\ Asked')
<1>1. /\ Line # <<>> /\ LanesTyped
      /\ Now.step = "unannotate"
      /\ UNCHANGED <<catalog, news, stream, plan, reply, vector, anchored, drift, spent>>
      /\ annotated' = FALSE
      /\ Done("resource")
  BY TypesAre DEF Inv, DeleteAnnotations, At, Line, Now, What, outsideVars, backendVars
<1>2. StepsFit /\ StoresFit /\ LanesFit
  BY DEF Fitting
<1>3. GoesOn /\ Now' = NotStarted
  BY <1>1, EndsHere DEF Done
<1>4. What = "archived"
  BY <1>1, <1>2 DEF StepsFit
<1>5. StoresFit'
  BY <1>1, <1>2, <1>4 DEF StoresFit
<1>6. StepsFit'
  BY <1>3 DEF StepsFit, NotStarted
<1>7. Fitting'
  BY <1>3, <1>5, <1>6, GoesOnFits DEF Fitting
<1>8. ASSUME Order, Asked, ~drift' PROVE Order' /\ Asked'
  <2>1. /\ Order' /\ Rest \cup ToDo \subseteq Soon' /\ ToDo' = ToDo
        /\ lane'["annotation"] = lane["annotation"]
        /\ Soon \subseteq Soon'
        /\ ~catalog.archived => "unarchived" \in Rest
    BY <1>1, <1>3, <1>4, <1>8, SoonIs DEF GoesOn, Undone
  <2>2. Cleared'
    BY <1>1, <1>3, <1>4, <1>8, <2>1 DEF Asked, Cleared, Snapped, Listed
  <2>3. Current'
    BY <1>1, <1>3, <1>4, <1>8, <2>1 DEF Asked, Current, EmbedsSoon, Snapped, Listed
  <2>4. Stamped'
    BY <1>1, <1>3, <1>4, <1>8, <2>1 DEF Asked, Stamped, EmbedsSoon, Snapped, Listed
  <2>5. Anchored'
    BY <1>1, <1>3, <1>4, <1>8, <2>1 DEF Asked, Anchored, EmbedsSoon, Snapped, Listed
  <2>6. Noted'
    BY <1>1, <1>3, <1>4, <1>8, <2>1 DEF Asked, Noted, Wanted, Snapped, Listed
  <2>7. Unnoted'
    BY <1>1, <1>3, <1>4, <1>8, <2>1 DEF Asked, Unnoted, Wanted, Snapped, Listed
  <2>8. QED
    BY <2>1, <2>2, <2>3, <2>4, <2>5, <2>6, <2>7 DEF Asked
<1>9. QED
  BY <1>7, <1>8

LEMMA PurgeAsks ==
  ASSUME Inv, Fitting, Purge("resource")
  PROVE  Fitting' /\ (Order /\ Asked /\ ~drift' => Order' /\ Asked')
<1>1. /\ Line # <<>> /\ LanesTyped
      /\ Now.step = "start" /\ What = "purge"
      /\ UNCHANGED <<catalog, news, stream, plan, reply, annotated, anchored, drift, spent>>
      /\ vector' = NoVector
      /\ Done("resource")
  BY TypesAre DEF Inv, Purge, At, Line, Now, What, outsideVars, backendVars
<1>2. StepsFit /\ StoresFit /\ LanesFit
  BY DEF Fitting
<1>3. GoesOn /\ Now' = NotStarted
  BY <1>1, EndsHere DEF Done
<1>4. NoVector.bytes = 0 /\ 0 \notin Declined
  BY SmelterAssumption DEF NoVector
<1>5. StoresFit'
  BY <1>1, <1>2, <1>4 DEF StoresFit
<1>6. StepsFit'
  BY <1>3 DEF StepsFit, NotStarted
<1>7. Fitting'
  BY <1>3, <1>5, <1>6, GoesOnFits DEF Fitting
<1>8. ASSUME Order, Asked, ~drift' PROVE Order' /\ Asked'
  <2>1. /\ Order' /\ Rest \cup ToDo \subseteq Soon' /\ ToDo' = ToDo
        /\ lane'["annotation"] = lane["annotation"]
        /\ Soon = Rest \cup ToDo \cup {What}
        /\ ~catalog.archived => "unarchived" \in Rest \/ "updated" \in Rest
    BY <1>1, <1>3, <1>4, <1>8, SoonIs DEF GoesOn, Undone
  <2>2. Cleared'
    BY <1>1, <1>3, <1>4, <1>8, <2>1 DEF Asked, Cleared, Snapped, Listed
  <2>3. Current'
    BY <1>1, <1>3, <1>4, <1>8, <2>1 DEF Asked, Current, EmbedsSoon, Snapped, Listed
  <2>4. Stamped'
    BY <1>1, <1>3, <1>4, <1>8, <2>1 DEF Asked, Stamped, EmbedsSoon, Snapped, Listed
  <2>5. Anchored'
    BY <1>1, <1>3, <1>4, <1>8, <2>1 DEF Asked, Anchored, EmbedsSoon, Snapped, Listed
  <2>6. Noted'
    BY <1>1, <1>3, <1>4, <1>8, <2>1 DEF Asked, Noted, Wanted, Snapped, Listed
  <2>7. Unnoted'
    BY <1>1, <1>3, <1>4, <1>8, <2>1 DEF Asked, Unnoted, Wanted, Snapped, Listed
  <2>8. QED
    BY <2>1, <2>2, <2>3, <2>4, <2>5, <2>6, <2>7 DEF Asked
<1>9. QED
  BY <1>7, <1>8

LEMMA ReadTagsAsks ==
  ASSUME Inv, Fitting, ReadTags("resource")
  PROVE  Fitting' /\ (Order /\ Asked /\ ~drift' => Order' /\ Asked')
<1>1. /\ Line # <<>> /\ LanesTyped
      /\ Now.step = "start" /\ What \in {"retagged", "restamp"}
      /\ UNCHANGED <<catalog, news, stream, plan, reply, vector, annotated, anchored, drift, spent>>
      /\ GotoWith("resource", "stamp", 0, catalog.tags)
  BY TypesAre DEF Inv, ReadTags, At, Line, Now, What, outsideVars, backendVars, storeVars
<1>2. StepsFit /\ StoresFit /\ LanesFit
  BY DEF Fitting
<1>3. /\ GoesOn /\ What' = What /\ Rest' = Rest
      /\ Now' = [step |-> "stamp", bytes |-> 0, tags |-> catalog.tags]
  BY <1>1, GotoWithOn
<1>4. StoresFit'
  BY <1>1, <1>2 DEF StoresFit
<1>5. StepsFit'
  BY <1>1, <1>3 DEF StepsFit
<1>6. Fitting'
  BY <1>3, <1>4, <1>5, GoesOnFits DEF Fitting
<1>7. ASSUME Order, Asked, ~drift' PROVE Order' /\ Asked'
  <2>1. /\ Order' /\ Rest \cup ToDo \subseteq Soon' /\ ToDo' = ToDo
        /\ lane'["annotation"] = lane["annotation"]
        /\ Soon = Rest \cup ToDo \cup {What}
    BY <1>1, <1>3, <1>7, SoonIs DEF GoesOn
  <2>2. Cleared'
    BY <1>1, <1>3, <1>7, <2>1 DEF Asked, Cleared, Snapped, Listed
  <2>3. Current'
    BY <1>1, <1>3, <1>7, <2>1 DEF Asked, Current, EmbedsSoon, Snapped, Listed
  <2>4. Stamped'
    BY <1>1, <1>3, <1>7, <2>1 DEF Asked, Stamped, EmbedsSoon, Snapped, Listed
  <2>5. Anchored'
    BY <1>1, <1>3, <1>7, <2>1 DEF Asked, Anchored, EmbedsSoon, Snapped, Listed
  <2>6. Noted'
    BY <1>1, <1>3, <1>7, <2>1 DEF Asked, Noted, Wanted, Snapped, Listed
  <2>7. Unnoted'
    BY <1>1, <1>3, <1>7, <2>1 DEF Asked, Unnoted, Wanted, Snapped, Listed
  <2>8. QED
    BY <2>1, <2>2, <2>3, <2>4, <2>5, <2>6, <2>7 DEF Asked
<1>8. QED
  BY <1>6, <1>7

LEMMA RestampAsks ==
  ASSUME Inv, Fitting, Restamp("resource")
  PROVE  Fitting' /\ (Order /\ Asked /\ ~drift' => Order' /\ Asked')
<1>1. /\ Line # <<>> /\ LanesTyped
      /\ Now.step = "stamp"
      /\ UNCHANGED <<catalog, news, stream, plan, reply, annotated, anchored, drift, spent>>
      /\ vector' = (IF vector = NoVector THEN NoVector ELSE [vector EXCEPT !.tags = Now.tags])
      /\ Done("resource")
  BY TypesAre DEF Inv, Restamp, At, Line, Now, What, outsideVars, backendVars
<1>2. StepsFit /\ StoresFit /\ LanesFit
  BY DEF Fitting
<1>3. GoesOn /\ Now' = NotStarted
  BY <1>1, EndsHere DEF Done
<1>4. /\ What \in {"retagged", "restamp"}
      /\ drift \/ Now.tags = catalog.tags \/ "retagged" \in Rest
      /\ vector = NoVector \/ (vector'.bytes = vector.bytes /\ vector'.tags = Now.tags)
      /\ vector = NoVector <=> vector' = NoVector
  BY <1>1, <1>2, TypesAre DEF StepsFit, StoresFit, Inv, StoresTyped, Stamps, NoVector
<1>5. StoresFit'
  BY <1>1, <1>2, <1>4 DEF StoresFit
<1>6. StepsFit'
  BY <1>3 DEF StepsFit, NotStarted
<1>7. Fitting'
  BY <1>3, <1>5, <1>6, GoesOnFits DEF Fitting
<1>8. ASSUME Order, Asked, ~drift' PROVE Order' /\ Asked'
  <2>1. /\ Order' /\ Rest \cup ToDo \subseteq Soon' /\ ToDo' = ToDo
        /\ lane'["annotation"] = lane["annotation"]
        /\ Soon \subseteq Soon'
    BY <1>1, <1>3, <1>4, <1>8, SoonIs DEF GoesOn, Undone
  <2>2. Cleared'
    BY <1>1, <1>3, <1>4, <1>8, <2>1 DEF Asked, Cleared, Snapped, Listed
  <2>3. Current'
    BY <1>1, <1>3, <1>4, <1>8, <2>1 DEF Asked, Current, EmbedsSoon, Snapped, Listed
  <2>4. Stamped'
    BY <1>1, <1>3, <1>4, <1>8, <2>1 DEF Asked, Stamped, EmbedsSoon, Snapped, Listed
  <2>5. Anchored'
    BY <1>1, <1>3, <1>4, <1>8, <2>1 DEF Asked, Anchored, EmbedsSoon, Snapped, Listed
  <2>6. Noted'
    BY <1>1, <1>3, <1>4, <1>8, <2>1 DEF Asked, Noted, Wanted, Snapped, Listed
  <2>7. Unnoted'
    BY <1>1, <1>3, <1>4, <1>8, <2>1 DEF Asked, Unnoted, Wanted, Snapped, Listed
  <2>8. QED
    BY <2>1, <2>2, <2>3, <2>4, <2>5, <2>6, <2>7 DEF Asked
<1>9. QED
  BY <1>7, <1>8

LEMMA ReadBytesAsks ==
  ASSUME Inv, Fitting, ReadBytes("resource")
  PROVE  Fitting' /\ (Order /\ Asked /\ ~drift' => Order' /\ Asked')
<1>1. /\ Line # <<>> /\ LanesTyped
      /\ Now.step = "start" /\ What = "reanchor"
      /\ UNCHANGED <<catalog, news, stream, plan, reply, vector, annotated, anchored, drift, spent>>
      /\ IF catalog.bytes \in Declined THEN Done("resource") ELSE GotoWith("resource", "publish", catalog.bytes, 0)
  BY TypesAre DEF Inv, ReadBytes, At, Line, Now, What, outsideVars, backendVars, storeVars
<1>2. StepsFit /\ StoresFit /\ LanesFit
  BY DEF Fitting
<1>3. /\ GoesOn
      /\ \/ Now' = NotStarted /\ catalog.bytes \in Declined
         \/ /\ Now' = [step |-> "publish", bytes |-> catalog.bytes, tags |-> 0] /\ What' = What /\ Rest' = Rest
  BY <1>1, GotoWithOn, EndsHere DEF Done
<1>4. StoresFit'
  BY <1>1, <1>2 DEF StoresFit
<1>5. StepsFit'
  BY <1>1, <1>3 DEF StepsFit, NotStarted
<1>6. Fitting'
  BY <1>3, <1>4, <1>5, GoesOnFits DEF Fitting
<1>7. ASSUME Order, Asked, ~drift' PROVE Order' /\ Asked'
  <2>1. /\ Order' /\ Rest \cup ToDo \subseteq Soon' /\ ToDo' = ToDo
        /\ lane'["annotation"] = lane["annotation"]
        /\ Soon = Rest \cup ToDo \cup {What}
    BY <1>1, <1>3, <1>7, SoonIs DEF GoesOn
  <2>2. Cleared'
    BY <1>1, <1>3, <1>7, <2>1 DEF Asked, Cleared, Snapped, Listed
  <2>3. Current'
    BY <1>1, <1>3, <1>7, <2>1 DEF Asked, Current, EmbedsSoon, Snapped, Listed
  <2>4. Stamped'
    BY <1>1, <1>3, <1>7, <2>1 DEF Asked, Stamped, EmbedsSoon, Snapped, Listed
  <2>5. Anchored'
    BY <1>1, <1>3, <1>7, <2>1 DEF Asked, Anchored, EmbedsSoon, Snapped, Listed
  <2>6. Noted'
    BY <1>1, <1>3, <1>7, <2>1 DEF Asked, Noted, Wanted, Snapped, Listed
  <2>7. Unnoted'
    BY <1>1, <1>3, <1>7, <2>1 DEF Asked, Unnoted, Wanted, Snapped, Listed
  <2>8. QED
    BY <2>1, <2>2, <2>3, <2>4, <2>5, <2>6, <2>7 DEF Asked
<1>8. QED
  BY <1>6, <1>7

LEMMA PutAnchoredTextAsks ==
  ASSUME Inv, Fitting, PutAnchoredText("resource")
  PROVE  Fitting' /\ (Order /\ Asked /\ ~drift' => Order' /\ Asked')
<1>1. /\ Line # <<>> /\ LanesTyped
      /\ Now.step = "publish"
      /\ UNCHANGED <<catalog, news, stream, plan, reply, vector, annotated, drift, spent>>
      /\ anchored' = anchored \cup {Now.bytes}
      /\ Done("resource")
  BY TypesAre DEF Inv, PutAnchoredText, At, Line, Now, What, outsideVars, backendVars
<1>2. StepsFit /\ StoresFit /\ LanesFit
  BY DEF Fitting
<1>3. GoesOn /\ Now' = NotStarted
  BY <1>1, EndsHere DEF Done
<1>4. What = "reanchor"
  BY <1>1, <1>2 DEF StepsFit
<1>5. StoresFit'
  BY <1>1, <1>2, <1>4 DEF StoresFit
<1>6. StepsFit'
  BY <1>3 DEF StepsFit, NotStarted
<1>7. Fitting'
  BY <1>3, <1>5, <1>6, GoesOnFits DEF Fitting
<1>8. ASSUME Order, Asked, ~drift' PROVE Order' /\ Asked'
  <2>1. /\ Order' /\ Rest \cup ToDo \subseteq Soon' /\ ToDo' = ToDo
        /\ lane'["annotation"] = lane["annotation"]
        /\ Soon \subseteq Soon'
    BY <1>1, <1>3, <1>4, <1>8, SoonIs DEF GoesOn, Undone
  <2>2. Cleared'
    BY <1>1, <1>3, <1>4, <1>8, <2>1 DEF Asked, Cleared, Snapped, Listed
  <2>3. Current'
    BY <1>1, <1>3, <1>4, <1>8, <2>1 DEF Asked, Current, EmbedsSoon, Snapped, Listed
  <2>4. Stamped'
    BY <1>1, <1>3, <1>4, <1>8, <2>1 DEF Asked, Stamped, EmbedsSoon, Snapped, Listed
  <2>5. Anchored'
    BY <1>1, <1>3, <1>4, <1>8, <2>1 DEF Asked, Anchored, EmbedsSoon, Snapped, Listed
  <2>6. Noted'
    BY <1>1, <1>3, <1>4, <1>8, <2>1 DEF Asked, Noted, Wanted, Snapped, Listed
  <2>7. Unnoted'
    BY <1>1, <1>3, <1>4, <1>8, <2>1 DEF Asked, Unnoted, Wanted, Snapped, Listed
  <2>8. QED
    BY <2>1, <2>2, <2>3, <2>4, <2>5, <2>6, <2>7 DEF Asked
<1>9. QED
  BY <1>7, <1>8

(* An item that fails, or whose content is not there, is left to the next        *)
(* reconcile.                                                                    *)
LEMMA FailureAsks ==
  ASSUME Inv, Fitting, FetchUnavailable("resource") \/ Throws("resource")
  PROVE  Fitting' /\ drift' = TRUE
<1>1. /\ Line # <<>> /\ LanesTyped /\ drift' = TRUE
      /\ UNCHANGED <<catalog, news, stream, plan, vector, annotated, anchored>>
      /\ Embedded("resource") \/ Ended("resource", 1)
  BY TypesAre DEF Inv, FetchUnavailable, Throws, At, Line, outsideVars, backendVars, storeVars
<1>2. /\ GoesOn
      /\ \/ Now' = NotStarted
         \/ Now'.step = "list" /\ What = "unarchived" /\ What' = What /\ Rest' = Rest
  BY <1>1, EmbeddedOn, EndsHere
<1>3. StoresFit'
  BY <1>1 DEF Fitting, StoresFit
<1>4. StepsFit'
  BY <1>2 DEF StepsFit, NotStarted
<1>5. QED
  BY <1>1, <1>2, <1>3, <1>4, GoesOnFits DEF Fitting

(* The lane of the annotation has only items of reconcile that purge it.         *)
LEMMA AnnotationLane ==
  ASSUME Inv, Fitting,
         LaneStep("annotation") \/ FetchUnavailable("annotation") \/ Throws("annotation")
  PROVE  /\ Kind("annotation") = "purgeAnnotation" /\ lane["annotation"] # <<>>
         /\ RemoveAnnotation("annotation") \/ Throws("annotation")
<1>1. lane["annotation"] # <<>>
  BY LaneSteps DEF Inv, Lanes
<1>2. lane["annotation"] \in Seq(Items)
  BY TypesAre, LineTyped DEF Inv
<1>3. Kind("annotation") = "purgeAnnotation"
  <2>1. 1 \in DOMAIN lane["annotation"] /\ Head(lane["annotation"]) = lane["annotation"][1]
    BY <1>1, <1>2
  <2>2. QED
    BY <2>1 DEF Kind, Item, Fitting, LanesFit
<1>4. doing["annotation"].step = "start"
  BY DEF Fitting, LanesFit, NotStarted
<1>5. QED
  BY <1>1, <1>3, <1>4
     DEF LaneStep, FetchUnavailable, FetchText, Decline, ResolveEntityTypes, Upsert, ListAnnotations,
         IndexAnnotation, Archive, DeleteAnnotations, Purge, ReadTags, Restamp, ReadBytes,
         PutAnchoredText, At, Embeds

(* Its end changes nothing for the resource.                                     *)
LEMMA AnnotationAsks ==
  ASSUME Inv, Fitting,
         LaneStep("annotation") \/ FetchUnavailable("annotation") \/ Throws("annotation")
  PROVE  Fitting' /\ (Order /\ Asked /\ ~drift' => Order' /\ Asked')
<1> DEFINE L == lane["annotation"]
<1>1. /\ Kind("annotation") = "purgeAnnotation" /\ L # <<>>
      /\ RemoveAnnotation("annotation") \/ Throws("annotation")
      /\ "resource" \in Lanes /\ "annotation" \in Lanes
  BY AnnotationLane DEF Lanes
<1>2. /\ UNCHANGED <<catalog, news, stream, plan, vector, anchored>>
      /\ annotated' = annotated \/ annotated' = FALSE
      /\ ~drift' => annotated' = FALSE /\ ~PurgesRestored("annotation")
      /\ drift => drift'
      /\ Ended("annotation", 0) \/ Ended("annotation", 1)
  BY <1>1 DEF RemoveAnnotation, Throws, Done, outsideVars, backendVars, storeVars
<1>3. \A w \in Planners :
        /\ drain'[w].todo = drain[w].todo
        /\ drain'[w].at = drain[w].at \/ (drain[w].at = "waiting" /\ drain'[w].at = "active")
  BY <1>1, <1>2, EndedCounts
<1>4. ToDo' = ToDo /\ Kinds(drain["rebuild"].todo)' = Kinds(drain["rebuild"].todo)
  BY <1>3 DEF ToDo, Planners
<1>5. LanesTyped /\ L \in Seq(Items)
  BY TypesAre, LineTyped DEF Inv
<1>6. /\ Line' = Line /\ Now' = Now /\ L' = Tail(L) /\ doing'["annotation"] = NotStarted
  BY <1>1, <1>2, <1>5 DEF Ended, LanesTyped, Line, Now
<1>7. ToCome' = ToCome /\ What' = What
  BY <1>2, <1>6 DEF ToCome, What, Kind, Item, Line
<1>8. Rest' = Rest /\ Soon' = Soon
  <2>1. Rest' = Rest
    BY <1>6, <1>7 DEF Rest
  <2>2. First' = First
    BY <1>6, <1>7 DEF First, At, Line, Now
  <2>3. QED
    BY <1>4, <2>1, <2>2 DEF Soon
<1>9. \A i \in DOMAIN Tail(L) : i + 1 \in DOMAIN L /\ Tail(L)[i] = L[i + 1]
  BY <1>1, <1>5, KindsOfRest
<1>10. Fitting'
  <2>1. NewsFit'
    BY <1>2 DEF Fitting, NewsFit, Turn, After
  <2>2. StoresFit'
    BY <1>2 DEF Fitting, StoresFit
  <2>3. StepsFit'
    BY <1>2, <1>6, <1>7, <1>8 DEF Fitting, StepsFit
  <2>4. LanesFit'
    BY <1>2, <1>6, <1>9 DEF Fitting, LanesFit
  <2>5. PlanFits'
    BY <1>1, <1>2, <1>3, <1>4 DEF Fitting, PlanFits, Planners
  <2>6. QED
    BY <2>1, <2>2, <2>3, <2>4, <2>5 DEF Fitting
<1>11. ASSUME Order, Asked, ~drift' PROVE Order' /\ Asked'
  <2>1. Order'
    BY <1>2, <1>6, <1>7, <1>11 DEF Order
  <2>2. Cleared' /\ Current'
    BY <1>2, <1>6, <1>8, <1>11 DEF Asked, Cleared, Current, EmbedsSoon, Snapped, Listed
  <2>3. Stamped' /\ Anchored'
    BY <1>2, <1>6, <1>8, <1>11 DEF Asked, Stamped, Anchored, EmbedsSoon, Snapped, Listed
  <2>4. Unnoted'
    BY <1>2, <1>11 DEF Unnoted
  <2>5. Noted'
    <3>1. SUFFICES ASSUME Wanted PROVE "unarchived" \in Soon \/ (Now.step # "start" /\ What = "unarchived")
      BY <1>2, <1>6, <1>7, <1>8 DEF Noted, Wanted
    <3>2. plan.archived
      BY <1>1, <3>1 DEF Fitting, PlanFits, Wanted
    <3>3. "unarchived" \in ToCome \/ "unarchived" \in Kinds(Line)
      BY <1>1, <1>2, <1>11, <3>1, <3>2 DEF PurgesRestored, Wanted, Line, Kinds
    <3>4. QED
      BY <1>5, <3>3, SoonIs
  <2>6. QED
    BY <2>1, <2>2, <2>3, <2>4, <2>5 DEF Asked
<1>12. QED
  BY <1>10, <1>11

(* The steps of the items, together.                                             *)
LEMMA LaneStepAgrees ==
  ASSUME Inv, AgreeInv, NEW l \in Lanes, LaneStep(l) \/ FetchUnavailable(l) \/ Throws(l)
  PROVE  AgreeInv'
<1>1. Fitting
  BY DEF AgreeInv
<1>2. stream' = stream
  BY LaneSteps DEF Inv, outsideVars
<1>3. drift => drift'
  BY DEF LaneStep, FetchUnavailable, FetchText, Decline, ResolveEntityTypes, Upsert, ListAnnotations,
         IndexAnnotation, RemoveAnnotation, Archive, DeleteAnnotations, Purge, ReadTags, Restamp,
         ReadBytes, PutAnchoredText, Throws
<1>4. Fitting' /\ (Order /\ Asked /\ ~drift' => Order' /\ Asked')
  <2>1. CASE l = "annotation"
    BY <1>1, <2>1, AnnotationAsks
  <2>2. CASE l = "resource"
    <3>1. CASE FetchUnavailable("resource") \/ Throws("resource")
      BY <1>1, <3>1, FailureAsks
    <3>2. CASE LaneStep("resource")
      BY <1>1, <3>2, UpsertAsks, FetchTextAsks, ResolveEntityTypesAsks, DeclineAsks, ListAnnotationsAsks,
         IndexAnnotationAsks, RemoveAnnotationAsks, ArchiveAsks, DeleteAnnotationsAsks, PurgeAsks,
         ReadTagsAsks, RestampAsks, ReadBytesAsks, PutAnchoredTextAsks DEF LaneStep
    <3>3. QED
      BY <2>2, <3>1, <3>2
  <2>3. QED
    BY <2>1, <2>2 DEF Lanes
<1>5. QED
  BY <1>2, <1>3, <1>4 DEF AgreeInv

-------------------------------------------------------------------------------
(* The planners' steps.                                                          *)

(* While the items, the backend and the stores stay as they are, only what is    *)
(* planned matters.                                                              *)
Stays ==
  /\ UNCHANGED <<catalog, news, lane, doing, vector, annotated, anchored>>
  /\ (stream' # "down" => stream # "down") /\ (drift => drift')

LEMMA StaysFit ==
  ASSUME Fitting, Stays
  PROVE  /\ NewsFit' /\ StoresFit' /\ StepsFit' /\ LanesFit' /\ (Order => Order')
         /\ Line' = Line /\ Now' = Now /\ What' = What /\ Rest' = Rest
         /\ ToDo' = ToDo => Soon' = Soon
         /\ ToDo \subseteq ToDo' => Soon \subseteq Soon'
<1>1. /\ UNCHANGED <<catalog, news, lane, doing, vector, annotated, anchored>>
      /\ (stream' # "down" => stream # "down") /\ (drift => drift')
      /\ Line' = Line /\ Now' = Now /\ What' = What /\ ToCome' = ToCome
  BY DEF Stays, Line, Now, What, Kind, Item, ToCome
<1>2. Rest' = Rest
  BY <1>1 DEF Rest
<1>3. First' = First
  BY <1>1 DEF First, At, Line, Now
<1>4. NewsFit' /\ StoresFit'
  BY <1>1 DEF Fitting, NewsFit, StoresFit, Turn, After
<1>5. StepsFit'
  BY <1>1, <1>2 DEF Fitting, StepsFit
<1>6. LanesFit'
  BY <1>1 DEF Fitting, LanesFit
<1>7. Order => Order'
  BY <1>1 DEF Order
<1>8. QED
  BY <1>1, <1>2, <1>3, <1>4, <1>5, <1>6, <1>7 DEF Soon

(* A step of a drain that plans nothing and puts nothing in a lane.              *)
LEMMA StillAgrees ==
  ASSUME AgreeInv, Stays, UNCHANGED plan, ToDo' = ToDo,
         Kinds(drain["rebuild"].todo)' \subseteq {"reanchor"},
         drain'["reconcile"].at \in {"idle", "over"} => ToDo = {},
         drain["reconcile"].at = "over" => drain'["reconcile"].at = "over"
  PROVE  AgreeInv'
<1>1. /\ NewsFit' /\ StoresFit' /\ StepsFit' /\ LanesFit' /\ (Order => Order')
      /\ Line' = Line /\ Now' = Now /\ What' = What /\ Rest' = Rest /\ Soon' = Soon
      /\ UNCHANGED <<catalog, news, lane, doing, vector, annotated, anchored>>
      /\ (stream' # "down" => stream # "down") /\ (drift => drift')
  BY StaysFit DEF AgreeInv, Stays
<1>2. PlanFits'
  BY <1>1 DEF AgreeInv, Fitting, PlanFits
<1>3. Asked => Asked'
  BY <1>1 DEF Asked, Cleared, Current, Stamped, Anchored, Noted, Unnoted, EmbedsSoon, Wanted, Snapped, Listed
<1>4. QED
  BY <1>1, <1>2, <1>3 DEF AgreeInv, Fitting

LEMMA SnapshotAgrees ==
  ASSUME Inv, AgreeInv, NEW what \in plan.unread, Snapshot(what)
  PROVE  AgreeInv'
<1>1. /\ plan.phase = "snapshot" /\ UNCHANGED <<drain, drift>> /\ Stays
      /\ plan' = CASE what = "vectors" -> [plan EXCEPT !.unread = @ \ {what}, !.vector = vector]
                   [] what = "annotations" -> [plan EXCEPT !.unread = @ \ {what}, !.annotated = annotated]
                   [] what = "anchors" -> [plan EXCEPT !.unread = @ \ {what}, !.anchored = anchored]
  BY DEF Snapshot, Stays, processVars, backendVars, storeVars, laneVars, drainVars
<1>2. plan \in PlanType /\ what \in {"vectors", "annotations", "anchors"} /\ StoresFit
  BY TypesAre DEF Inv, PlanType, AgreeInv, Fitting
<1>3. /\ plan'.phase = "snapshot" /\ plan'.archived = plan.archived
      /\ plan'.unread = plan.unread \ {what}
      /\ plan'.vector = IF what = "vectors" THEN vector ELSE plan.vector
      /\ plan'.annotated = IF what = "annotations" THEN annotated ELSE plan.annotated
      /\ plan'.anchored = IF what = "anchors" THEN anchored ELSE plan.anchored
  BY <1>1, <1>2 DEF PlanType
<1>4. ToDo' = ToDo
  BY <1>1 DEF ToDo
<1>5. /\ NewsFit' /\ StoresFit' /\ StepsFit' /\ LanesFit' /\ (Order => Order')
      /\ Line' = Line /\ Now' = Now /\ What' = What /\ Rest' = Rest /\ Soon' = Soon
      /\ UNCHANGED <<catalog, news, lane, doing, vector, annotated, anchored>>
      /\ (stream' # "down" => stream # "down") /\ (drift => drift')
  BY <1>1, <1>4, StaysFit DEF AgreeInv, Stays
<1>6. PlanFits'
  BY <1>1, <1>2, <1>3, <1>4, <1>5 DEF AgreeInv, Fitting, PlanFits, StoresFit
<1>7. ASSUME Asked PROVE Asked'
  <2>1. Cleared'
    BY <1>1, <1>2, <1>3, <1>5, <1>7 DEF Asked, Cleared, Snapped, Listed, StoresFit
  <2>2. Current'
    BY <1>1, <1>2, <1>3, <1>5, <1>7 DEF Asked, Current, EmbedsSoon, Snapped, Listed, StoresFit
  <2>3. Stamped'
    BY <1>1, <1>2, <1>3, <1>5, <1>7 DEF Asked, Stamped, EmbedsSoon, Snapped, Listed
  <2>4. Anchored'
    BY <1>1, <1>2, <1>3, <1>5, <1>7 DEF Asked, Anchored, EmbedsSoon, Snapped, Listed
  <2>5. Noted'
    BY <1>1, <1>2, <1>3, <1>5, <1>7 DEF Asked, Noted, Wanted, Snapped, Listed
  <2>6. Unnoted'
    BY <1>1, <1>2, <1>3, <1>4, <1>5, <1>7 DEF Asked, Unnoted, Wanted, Snapped, Listed
  <2>7. QED
    BY <2>1, <2>2, <2>3, <2>4, <2>5, <2>6 DEF Asked
<1>8. QED
  BY <1>1, <1>5, <1>6, <1>7 DEF AgreeInv, Fitting

LEMMA ListResourcesAgrees ==
  ASSUME Inv, AgreeInv, ListResources
  PROVE  AgreeInv'
<1>1. /\ plan.phase = "snapshot" /\ plan.unread = {} /\ UNCHANGED <<drain, drift>> /\ Stays
      /\ plan' = [plan EXCEPT !.phase = "annotations", !.archived = catalog.archived,
                              !.bytes = catalog.bytes, !.tags = catalog.tags]
  BY DEF ListResources, Stays, processVars, backendVars, storeVars, laneVars, drainVars
<1>2. plan \in PlanType
  BY TypesAre DEF Inv
<1>3. /\ plan'.phase = "annotations" /\ plan'.archived = catalog.archived /\ plan'.unread = {}
      /\ plan'.bytes = catalog.bytes /\ plan'.tags = catalog.tags
      /\ plan'.vector = plan.vector /\ plan'.annotated = plan.annotated /\ plan'.anchored = plan.anchored
  BY <1>1, <1>2 DEF PlanType
<1>4. ToDo' = ToDo
  BY <1>1 DEF ToDo
<1>5. /\ NewsFit' /\ StoresFit' /\ StepsFit' /\ LanesFit' /\ (Order => Order')
      /\ Line' = Line /\ Now' = Now /\ What' = What /\ Rest' = Rest /\ Soon' = Soon
      /\ UNCHANGED <<catalog, news, lane, doing, vector, annotated, anchored>>
      /\ (stream' # "down" => stream # "down") /\ (drift => drift')
  BY <1>1, <1>4, StaysFit DEF AgreeInv, Stays
<1>6. PlanFits'
  BY <1>1, <1>3, <1>4, <1>5 DEF AgreeInv, Fitting, PlanFits
<1>7. ASSUME Asked PROVE Asked'
  <2>1. Cleared' /\ Current'
    BY <1>1, <1>3, <1>5, <1>7 DEF Asked, Cleared, Current, EmbedsSoon, Snapped, Listed
  <2>2. Stamped' /\ Anchored'
    BY <1>1, <1>3, <1>5, <1>7 DEF Asked, Stamped, Anchored, EmbedsSoon, Snapped, Listed
  <2>3. Noted' /\ Unnoted'
    BY <1>1, <1>3, <1>4, <1>5, <1>7 DEF Asked, Noted, Unnoted, Wanted, Snapped, Listed
  <2>4. QED
    BY <2>1, <2>2, <2>3 DEF Asked
<1>8. QED
  BY <1>1, <1>5, <1>6, <1>7 DEF AgreeInv, Fitting

(* Reconcile is over when its last wave is done. *)
LEMMA ReconcileOverAgrees ==
  ASSUME Inv, AgreeInv, ReconcileOver
  PROVE  AgreeInv'
<1>1. /\ plan.phase = "drain" /\ drain["reconcile"].at = "over" /\ UNCHANGED <<drain, drift>> /\ Stays
      /\ plan' = [NoPlan EXCEPT !.phase = "done"]
  BY DEF ReconcileOver, Stays, processVars, backendVars, storeVars, laneVars, drainVars
<1>2. plan'.phase = "done" /\ plan'.unread = {}
  BY <1>1 DEF NoPlan
<1>3. ToDo' = ToDo /\ ToDo = {}
  BY <1>1 DEF ToDo, AgreeInv, Fitting, PlanFits
<1>4. lane["annotation"] = <<>>
  <2>1. workWaiter.for # "reconcile"
    BY <1>1 DEF Inv, Waited, Planners
  <2>2. \A i \in DOMAIN lane["annotation"] : FALSE
    BY <2>1 DEF AgreeInv, Fitting, LanesFit, Inv, Waited, Planned, Lanes, Live
  <2>3. lane["annotation"] \in Seq(Items)
    BY TypesAre, LineTyped DEF Inv
  <2>4. Kinds(lane["annotation"]) = {}
    BY <2>2 DEF Kinds
  <2>5. QED
    BY <2>3, <2>4, KindsOfNone
<1>5. /\ NewsFit' /\ StoresFit' /\ StepsFit' /\ LanesFit' /\ (Order => Order')
      /\ Line' = Line /\ Now' = Now /\ What' = What /\ Rest' = Rest /\ Soon' = Soon
      /\ UNCHANGED <<catalog, news, lane, doing, vector, annotated, anchored>>
      /\ (stream' # "down" => stream # "down") /\ (drift => drift')
  BY <1>1, <1>3, StaysFit DEF AgreeInv, Stays
<1>6. PlanFits'
  BY <1>1, <1>2, <1>3, <1>4, <1>5 DEF AgreeInv, Fitting, PlanFits
<1>7. ASSUME Asked PROVE Asked'
  BY <1>1, <1>3, <1>5, <1>7 DEF Asked, Cleared, Current, Stamped, Anchored, Noted, Unnoted, EmbedsSoon, Wanted,
                                 Snapped, Listed
<1>8. QED
  BY <1>1, <1>5, <1>6, <1>7 DEF AgreeInv, Fitting

(* What reconcile plans, by kind.                                                *)
LEMMA WhenKinds ==
  ASSUME NEW condition \in BOOLEAN, NEW kind \in WorkKinds
  PROVE  /\ When(condition, kind) \in Seq(Items)
         /\ Kinds(When(condition, kind)) = IF condition THEN {kind} ELSE {}
<1>1. [kind |-> kind, by |-> "reconcile"] \in Items
  BY DEF Items, Planners
<1>2. CASE condition
  BY <1>1, <1>2, KindsOfOne DEF When
<1>3. CASE ~condition
  BY <1>3, KindsOfNone DEF When
<1>4. QED
  BY <1>2, <1>3

LEMMA WorkKindsAre ==
  ASSUME plan \in PlanType, NEW annotation \in BOOLEAN
  PROVE  LET indexed == plan.vector.bytes # 0
             current == plan.vector.bytes = plan.bytes
             K == Kinds(Work(annotation))
         IN
         /\ K \subseteq WorkKinds
         /\ "purge" \in K <=> plan.archived /\ indexed
         /\ "embed" \in K <=> ~plan.archived /\ ~current
         /\ "restamp" \in K <=> ~plan.archived /\ current /\ plan.vector.tags # plan.tags
         /\ "reanchor" \in K <=> ~plan.archived /\ current /\ plan.bytes \notin plan.anchored
         /\ "embedAnnotation" \in K <=> annotation /\ ~plan.annotated
         /\ "purgeAnnotation" \in K <=> plan.annotated /\ ~annotation
<1> DEFINE indexed == plan.vector.bytes # 0
           current == plan.vector.bytes = plan.bytes
           c1 == plan.archived /\ indexed
           c2 == ~plan.archived /\ ~current
           c3 == ~plan.archived /\ current /\ plan.vector.tags # plan.tags
           c4 == ~plan.archived /\ current /\ plan.bytes \notin plan.anchored
           c5 == annotation /\ ~plan.annotated
           c6 == plan.annotated /\ ~annotation
           p1 == When(c1, "purge")
           p2 == When(c2, "embed")
           p3 == When(c3, "restamp")
           p4 == When(c4, "reanchor")
           p5 == When(c5, "embedAnnotation")
           p6 == When(c6, "purgeAnnotation")
           K(c, k) == IF c THEN {k} ELSE {}
<1>1. /\ c1 \in BOOLEAN /\ c2 \in BOOLEAN /\ c3 \in BOOLEAN /\ c4 \in BOOLEAN
      /\ c5 \in BOOLEAN /\ c6 \in BOOLEAN
  BY DEF PlanType
<1>2. Work(annotation) = p1 \o p2 \o p3 \o p4 \o p5 \o p6
  BY DEF Work
<1>3. {"purge", "embed", "restamp", "reanchor", "embedAnnotation", "purgeAnnotation"} = WorkKinds
  BY DEF WorkKinds
<1> HIDE DEF c1, c2, c3, c4, c5, c6
<1>4. /\ p1 \in Seq(Items) /\ Kinds(p1) = K(c1, "purge")
      /\ p2 \in Seq(Items) /\ Kinds(p2) = K(c2, "embed")
      /\ p3 \in Seq(Items) /\ Kinds(p3) = K(c3, "restamp")
      /\ p4 \in Seq(Items) /\ Kinds(p4) = K(c4, "reanchor")
      /\ p5 \in Seq(Items) /\ Kinds(p5) = K(c5, "embedAnnotation")
      /\ p6 \in Seq(Items) /\ Kinds(p6) = K(c6, "purgeAnnotation")
  BY <1>1, <1>3, WhenKinds
<1> HIDE DEF p1, p2, p3, p4, p5, p6
<1>5. p1 \o p2 \in Seq(Items) /\ Kinds(p1 \o p2) = Kinds(p1) \cup Kinds(p2)
  BY <1>4, KindsOfJoin
<1>6. p1 \o p2 \o p3 \in Seq(Items) /\ Kinds(p1 \o p2 \o p3) = Kinds(p1 \o p2) \cup Kinds(p3)
  BY <1>4, <1>5, KindsOfJoin
<1>7. p1 \o p2 \o p3 \o p4 \in Seq(Items) /\ Kinds(p1 \o p2 \o p3 \o p4) = Kinds(p1 \o p2 \o p3) \cup Kinds(p4)
  BY <1>4, <1>6, KindsOfJoin
<1>8. /\ p1 \o p2 \o p3 \o p4 \o p5 \in Seq(Items)
      /\ Kinds(p1 \o p2 \o p3 \o p4 \o p5) = Kinds(p1 \o p2 \o p3 \o p4) \cup Kinds(p5)
  BY <1>4, <1>7, KindsOfJoin
<1>9. Kinds(p1 \o p2 \o p3 \o p4 \o p5 \o p6) = Kinds(p1 \o p2 \o p3 \o p4 \o p5) \cup Kinds(p6)
  BY <1>4, <1>8, KindsOfJoin
<1>10. Kinds(Work(annotation)) = K(c1, "purge") \cup K(c2, "embed") \cup K(c3, "restamp")
         \cup K(c4, "reanchor") \cup K(c5, "embedAnnotation") \cup K(c6, "purgeAnnotation")
  BY <1>2, <1>4, <1>5, <1>6, <1>7, <1>8, <1>9
<1>11. QED
  BY <1>3, <1>10 DEF c1, c2, c3, c4, c5, c6

LEMMA ListAndPlanAgrees ==
  ASSUME Inv, AgreeInv, ListAndPlan
  PROVE  AgreeInv'
<1> DEFINE annotation == ~plan.archived /\ catalog.annotation = "there"
           K == Kinds(Work(annotation))
<1>1. /\ plan.phase = "annotations" /\ UNCHANGED drift /\ Stays
      /\ plan' = [NoPlan EXCEPT !.phase = "drain", !.archived = plan.archived]
      /\ drain' = [drain EXCEPT !["reconcile"] = [NoDrain EXCEPT !.at = "queued", !.todo = Work(annotation)]]
  BY DEF ListAndPlan, Enqueue, Stays, processVars, backendVars, storeVars, laneVars, drainVars
<1>2. plan \in PlanType /\ annotation \in BOOLEAN /\ drain \in [Planners -> DrainType]
      /\ "reconcile" \in Planners /\ "rebuild" \in Planners /\ "rebuild" # "reconcile"
  BY TypesAre DEF Inv, Planners
<1>3. /\ plan'.phase = "drain" /\ plan'.archived = plan.archived /\ plan'.unread = {}
  BY <1>1 DEF NoPlan
<1>4. /\ ToDo' = K /\ drain'["reconcile"].at = "queued" /\ drain'["rebuild"] = drain["rebuild"]
  BY <1>1, <1>2 DEF ToDo, NoDrain
<1>5. ToDo = {} /\ lane["annotation"] = <<>> /\ (plan.annotated => catalog.annotation # "none")
  BY <1>1 DEF AgreeInv, Fitting, PlanFits
<1>6. /\ "purge" \in K <=> plan.archived /\ plan.vector.bytes # 0
      /\ "embed" \in K <=> ~plan.archived /\ plan.vector.bytes # plan.bytes
      /\ "restamp" \in K <=> ~plan.archived /\ plan.vector.bytes = plan.bytes /\ plan.vector.tags # plan.tags
      /\ "reanchor" \in K <=> ~plan.archived /\ plan.vector.bytes = plan.bytes /\ plan.bytes \notin plan.anchored
      /\ "embedAnnotation" \in K <=> annotation /\ ~plan.annotated
      /\ "purgeAnnotation" \in K <=> plan.annotated /\ ~annotation
  <2> HIDE DEF annotation
  <2>1. QED
    BY <1>2, WorkKindsAre
<1> HIDE DEF K
<1>7. /\ NewsFit' /\ StoresFit' /\ StepsFit' /\ LanesFit' /\ (Order => Order')
      /\ Line' = Line /\ Now' = Now /\ What' = What /\ Rest' = Rest /\ Soon \subseteq Soon' /\ K \subseteq Soon'
      /\ UNCHANGED <<catalog, news, lane, doing, vector, annotated, anchored>>
      /\ (stream' # "down" => stream # "down") /\ (drift => drift')
  BY <1>1, <1>4, <1>5, StaysFit DEF AgreeInv, Stays, Soon
<1>8. catalog.annotation \in {"none", "there", "removed"}
  BY TypesAre DEF Inv, BackendTyped
<1>9. PlanFits'
  <2>1. Kinds(drain["rebuild"].todo)' = Kinds(drain["rebuild"].todo)
    BY <1>4
  <2>2. QED
    BY <1>3, <1>4, <1>5, <1>6, <1>7, <1>8, <2>1 DEF AgreeInv, Fitting, PlanFits
<1>10. ASSUME Asked PROVE Asked'
  <2>1. Cleared' /\ Current'
    BY <1>1, <1>6, <1>7, <1>10 DEF Asked, Cleared, Current, EmbedsSoon, Snapped, Listed
  <2>2. Stamped'
    BY <1>1, <1>6, <1>7, <1>10 DEF Asked, Stamped, EmbedsSoon, Snapped, Listed
  <2>3. Anchored'
    BY <1>1, <1>6, <1>7, <1>10 DEF Asked, Anchored, EmbedsSoon, Snapped, Listed
  <2>4. Noted'
    BY <1>1, <1>6, <1>7, <1>10 DEF Asked, Noted, Wanted, Snapped, Listed
  <2>5. Unnoted'
    BY <1>1, <1>4, <1>5, <1>6, <1>7, <1>10 DEF Asked, Unnoted, Wanted, Snapped, Listed
  <2>6. QED
    BY <2>1, <2>2, <2>3, <2>4, <2>5 DEF Asked
<1>11. QED
  BY <1>1, <1>7, <1>9, <1>10 DEF AgreeInv, Fitting

LEMMA DrainTurns ==
  ASSUME Inv, AgreeInv, NEW w \in Planners, DrainStart(w) \/ DrainEnd(w)
  PROVE  AgreeInv'
<1>1. drain \in [Planners -> DrainType] /\ \A v \in Planners : drain[v] \in DrainType
  BY TypesAre DEF Inv
<1>2. /\ Stays /\ UNCHANGED <<plan, drift>>
      /\ \/ drain[w].at = "queued" /\ drain' = [drain EXCEPT ![w].at = "active", ![w].before = workFailed]
         \/ /\ drain[w].at = "active" /\ drain[w].todo = <<>>
            /\ drain' = [drain EXCEPT ![w].at = "over", ![w].failures = workFailed - drain[w].before]
  BY DEF DrainStart, DrainEnd, Stays, processVars, backendVars, storeVars, laneVars
<1>3. /\ \A v \in Planners \ {w} : drain'[v] = drain[v]
      /\ drain'[w].todo = drain[w].todo
      /\ \/ drain[w].at = "queued" /\ drain'[w].at = "active"
         \/ drain[w].at = "active" /\ drain[w].todo = <<>> /\ drain'[w].at = "over"
  BY <1>1, <1>2 DEF DrainType
<1>4. \A v \in Planners : drain'[v].todo = drain[v].todo
  BY <1>3
<1>5. ToDo' = ToDo /\ Kinds(drain["rebuild"].todo)' = Kinds(drain["rebuild"].todo)
  BY <1>4 DEF ToDo, Planners
<1>6. /\ drain'["reconcile"].at \in {"idle", "over"} => ToDo = {}
      /\ drain["reconcile"].at = "over" => drain'["reconcile"].at = "over"
  <2>1. CASE w = "reconcile"
    BY <1>3, <2>1, KindsOfNone DEF ToDo
  <2>2. CASE w # "reconcile"
    BY <1>3, <2>2 DEF Planners, AgreeInv, Fitting, PlanFits
  <2>3. QED
    BY <2>1, <2>2
<1>7. QED
  BY <1>2, <1>5, <1>6, StillAgrees DEF AgreeInv, Fitting, PlanFits

LEMMA RebuildAgrees ==
  ASSUME Inv, AgreeInv, RebuildCommand \/ RebuildList \/ RebuildListFails
                        \/ RebuildOver \/ RebuildUnanswered \/ Apologise
  PROVE  AgreeInv'
<1>1. /\ drain \in [Planners -> DrainType]
      /\ "reconcile" \in Planners /\ "rebuild" \in Planners /\ "rebuild" # "reconcile"
  BY TypesAre DEF Inv, Planners
<1>2. /\ Stays /\ UNCHANGED <<plan, drift>>
      /\ \/ \E work \in {<<>>, Reanchor} :
              drain' = [drain EXCEPT !["rebuild"] = [NoDrain EXCEPT !.at = "queued", !.todo = work]]
         \/ drain' = [drain EXCEPT !["rebuild"].at = "list"]
         \/ \E next \in {"idle", "sorry"} : drain' = [drain EXCEPT !["rebuild"] = [NoDrain EXCEPT !.at = next]]
  <2>1. CASE RebuildCommand
    <3>1. UNCHANGED <<plan, drift>> /\ Stays
      BY <2>1 DEF RebuildCommand, Stays, backendVars, laneVars, storeVars
    <3>2. \/ drain' = [drain EXCEPT !["rebuild"] = [NoDrain EXCEPT !.at = "queued", !.todo = Reanchor]]
          \/ drain' = [drain EXCEPT !["rebuild"].at = "list"]
      BY <2>1 DEF RebuildCommand, Enqueue
    <3>3. QED
      BY <3>1, <3>2
  <2>2. CASE RebuildList
    <3> DEFINE work == IF catalog.archived THEN <<>> ELSE Reanchor
    <3>1. UNCHANGED <<plan, drift>> /\ Stays
      BY <2>2 DEF RebuildList, Stays, processVars, backendVars, laneVars, storeVars
    <3>2. drain' = [drain EXCEPT !["rebuild"] = [NoDrain EXCEPT !.at = "queued", !.todo = work]]
      BY <2>2 DEF RebuildList, Enqueue
    <3>3. work \in {<<>>, Reanchor}
      OBVIOUS
    <3>4. QED
      BY <3>1, <3>2, <3>3
  <2>3. ASSUME NEW next \in {"idle", "sorry"}, Leaves(next)
        PROVE  /\ Stays /\ UNCHANGED <<plan, drift>>
               /\ drain' = [drain EXCEPT !["rebuild"] = [NoDrain EXCEPT !.at = next]]
    BY <2>3 DEF Leaves, Stays, backendVars, laneVars, storeVars
  <2>4. CASE RebuildListFails \/ RebuildOver \/ RebuildUnanswered \/ Apologise
    <3>1. Leaves("idle") \/ Leaves("sorry")
      BY <2>4 DEF RebuildListFails, RebuildOver, RebuildUnanswered, Apologise
    <3>2. QED
      BY <2>3, <3>1
  <2>5. QED
    BY <2>1, <2>2, <2>4
<1>3. drain'["reconcile"] = drain["reconcile"]
  BY <1>1, <1>2
<1>4. Kinds(Reanchor) = {"reanchor"}
  <2>1. [kind |-> "reanchor", by |-> "rebuild"] \in Items
    BY DEF Items, WorkKinds, Planners
  <2>2. QED
    BY <2>1, KindsOfOne DEF Reanchor
<1>5. drain'["rebuild"].todo \in {<<>>, Reanchor, drain["rebuild"].todo}
  <2>1. CASE \E work \in {<<>>, Reanchor} :
               drain' = [drain EXCEPT !["rebuild"] = [NoDrain EXCEPT !.at = "queued", !.todo = work]]
    <3>1. PICK work \in {<<>>, Reanchor} :
            drain' = [drain EXCEPT !["rebuild"] = [NoDrain EXCEPT !.at = "queued", !.todo = work]]
      BY <2>1
    <3>2. drain'["rebuild"] = [NoDrain EXCEPT !.at = "queued", !.todo = work]
      BY <1>1, <3>1
    <3>3. drain'["rebuild"].todo = work
      BY <3>2 DEF NoDrain
    <3>4. QED
      BY <3>3
  <2>2. CASE drain' = [drain EXCEPT !["rebuild"].at = "list"]
    <3>1. drain'["rebuild"] = [drain["rebuild"] EXCEPT !.at = "list"] /\ drain["rebuild"] \in DrainType
      BY <1>1, <2>2
    <3>2. drain'["rebuild"].todo = drain["rebuild"].todo
      BY <3>1 DEF DrainType
    <3>3. QED
      BY <3>2
  <2>3. ASSUME NEW next \in {"idle", "sorry"}, drain' = [drain EXCEPT !["rebuild"] = [NoDrain EXCEPT !.at = next]]
        PROVE  drain'["rebuild"].todo = <<>>
    BY <1>1, <2>3 DEF NoDrain
  <2>4. QED
    BY <1>2, <2>1, <2>2, <2>3
<1>6. Kinds(drain["rebuild"].todo)' \subseteq {"reanchor"}
  BY <1>4, <1>5, KindsOfNone DEF AgreeInv, Fitting, PlanFits
<1>7. ToDo' = ToDo
  BY <1>3 DEF ToDo
<1>8. QED
  BY <1>2, <1>3, <1>6, <1>7, StillAgrees DEF AgreeInv, Fitting, PlanFits

-------------------------------------------------------------------------------
(* What comes into the lanes.                                                    *)

(* Items behind those of the resource's lane. *)
LEMMA JoinAsks ==
  ASSUME LanesTyped, NEW P \in Seq(Items), Line' = Line \o P, Now' = Now
  PROVE  /\ Kinds(Line') = Kinds(Line) \cup Kinds(P)
         /\ Line # <<>> => /\ What' = What /\ First' = First
                           /\ Rest' = Behind(Line, ToCome', 1) \cup Kinds(P)
         /\ Line = <<>> => First = {} /\ Kinds(P) \cup ToCome' = Rest' \cup First'
<1>1. Line \in Seq(Items) /\ (Line = <<>> => Now.step = "start")
  BY LineTyped
<1>2. /\ Kinds(Line') = Kinds(Line) \cup Kinds(P)
      /\ \A i \in DOMAIN Line : Behind(Line', ToCome', i) = Behind(Line, ToCome', i) \cup Kinds(P)
      /\ Line # <<>> => Line' # <<>> /\ Head(Line') = Head(Line)
      /\ Line = <<>> => Line' = P
  <2>1. ASSUME NEW come
        PROVE  /\ Kinds(Line \o P) = Kinds(Line) \cup Kinds(P)
               /\ \A i \in DOMAIN Line : Behind(Line \o P, come, i) = Behind(Line, come, i) \cup Kinds(P)
               /\ Line # <<>> => Line \o P # <<>> /\ Head(Line \o P) = Head(Line)
               /\ Line = <<>> => Line \o P = P
    <3>1. Line \in Seq(Items)
      BY <1>1
    <3>2. Kinds(Line \o P) = Kinds(Line) \cup Kinds(P)
      BY <3>1, KindsOfJoin
    <3>3. \A i \in DOMAIN Line : Behind(Line \o P, come, i) = Behind(Line, come, i) \cup Kinds(P)
      <4>1. ASSUME NEW i \in DOMAIN Line PROVE Behind(Line \o P, come, i) = Behind(Line, come, i) \cup Kinds(P)
        BY <3>1, BehindJoin
      <4>2. QED
        BY <4>1
    <3>4. Line # <<>> => Line \o P # <<>> /\ Head(Line \o P) = Head(Line)
      BY <3>1, KindsOfJoin
    <3>5. Line = <<>> => Line \o P = P
      BY <3>1, KindsOfJoin
    <3>6. QED
      BY <3>2, <3>3, <3>4, <3>5
  <2>2. QED
    BY <2>1
<1>3. ASSUME Line # <<>>
      PROVE  What' = What /\ First' = First /\ Rest' = Behind(Line, ToCome', 1) \cup Kinds(P)
  <2>1. 1 \in DOMAIN Line
    BY <1>1, <1>3
  <2>2. What' = What
    BY <1>2, <1>3 DEF What, Kind, Item, Line
  <2>3. First' = First
    BY <1>2, <1>3, <2>2 DEF First, At, Line, Now
  <2>4. QED
    BY <1>2, <2>1, <2>2, <2>3 DEF Rest
<1>4. ASSUME Line = <<>>
      PROVE  First = {} /\ Kinds(P) \cup ToCome' = Rest' \cup First'
  <2>1. First = {}
    BY <1>4 DEF First, At, Line
  <2>2. CASE P = <<>>
    <3>1. Rest' = ToCome' /\ Kinds(P) = {}
      BY <1>2, <1>4, <2>2, KindsOfNone DEF Rest
    <3>2. First' = {}
      BY <1>2, <1>4, <2>2 DEF First, At, Line
    <3>3. QED
      BY <2>1, <3>1, <3>2
  <2>3. CASE P # <<>>
    <3>1. Kinds(P) \cup ToCome' = {Head(P).kind} \cup Rest'
      BY <1>2, <1>4, <2>3, KindsOfFirst DEF Rest
    <3>2. First' = {Head(P).kind}
      BY <1>1, <1>2, <1>4, <2>3 DEF First, At, Line, Now, What, Kind, Item
    <3>3. QED
      BY <2>1, <3>1, <3>2
  <2>4. QED
    BY <2>2, <2>3
<1>5. QED
  BY <1>2, <1>3, <1>4

(* The backend: the event will come.                                             *)
LEMMA ChangeAgrees ==
  ASSUME Inv, AgreeInv, NEW kind \in EventKinds, Change(kind)
  PROVE  AgreeInv'
<1> DEFINE event == [kind |-> kind, archived |-> catalog.archived]
<1>1. /\ BackendTyped /\ LanesTyped /\ StoresTyped /\ plan \in PlanType
      /\ Fitting /\ NewsFit /\ StoresFit /\ StepsFit /\ LanesFit /\ PlanFits
  BY TypesAre DEF Inv, AgreeInv, Fitting
<1>2. /\ UNCHANGED <<stream, lane, doing, plan, drain, vector, annotated, anchored, drift>>
      /\ catalog' = Changed(kind) /\ news' = Append(news, event)
      /\ kind = "archived" => ~catalog.archived
      /\ kind = "unarchived" => catalog.archived
      /\ kind = "added" => catalog.annotation = "none"
      /\ kind = "removed" => catalog.annotation = "there"
  BY DEF Change, laneVars, drainVars, storeVars
<1>3. /\ catalog'.archived = CASE kind = "archived" -> TRUE [] kind = "unarchived" -> FALSE [] OTHER -> catalog.archived
      /\ kind # "updated" => catalog'.bytes = catalog.bytes
      /\ kind # "retagged" => catalog'.tags = catalog.tags
      /\ catalog'.annotation = CASE kind = "added" -> "there" [] kind = "removed" -> "removed" [] OTHER -> catalog.annotation
  BY <1>1, <1>2 DEF Changed, BackendTyped
<1>4. /\ Len(news) \in Nat /\ DOMAIN news = 1 .. Len(news) /\ DOMAIN news' = 1 .. (Len(news) + 1)
      /\ \A i \in DOMAIN news : news'[i] = news[i] /\ i \in DOMAIN news' /\ Len(news) + 1 > i
      /\ news'[Len(news) + 1].kind = kind /\ news'[Len(news) + 1].archived = catalog.archived
      /\ Len(news) + 1 \in DOMAIN news'
      /\ \A i \in DOMAIN news' : i \in DOMAIN news \/ i = Len(news) + 1
  <2>1. event \in [kind : EventKinds, archived : BOOLEAN]
    BY <1>1 DEF BackendTyped
  <2>2. news \in Seq([kind : EventKinds, archived : BOOLEAN])
    BY <1>1 DEF BackendTyped
  <2>3. event.kind = kind /\ event.archived = catalog.archived
    OBVIOUS
  <2> HIDE DEF event
  <2>4. QED
    BY <1>2, <2>1, <2>2, <2>3
<1> HIDE DEF event
<1>5. ToCome' = ToCome \cup {kind}
  BY <1>4 DEF ToCome
<1>6. /\ Line' = Line /\ Now' = Now /\ What' = What /\ ToDo' = ToDo
      /\ Kinds(drain["rebuild"].todo)' = Kinds(drain["rebuild"].todo)
  BY <1>2 DEF Line, Now, What, Kind, Item, ToDo
<1>7. \A i : Behind(Line, ToCome', i) = Behind(Line, ToCome, i) \cup {kind}
  BY <1>5 DEF Behind
<1>8. Rest' = Rest \cup {kind} /\ Soon' = Soon \cup {kind}
  <2>1. Rest' = Rest \cup {kind}
    BY <1>6, <1>7 DEF Rest
  <2>2. First' = First
    BY <1>2, <1>6 DEF First, At, Line, Now
  <2>3. QED
    BY <1>6, <2>1, <2>2 DEF Soon
<1>9. NewsFit'
  <2>1. ASSUME NEW i \in DOMAIN news'
        PROVE  /\ After(news'[i]) = catalog'.archived \/ \E j \in DOMAIN news' : j > i /\ news'[j].kind = Turn'
               /\ news'[i].kind = "added" => catalog'.annotation # "none"
               /\ news'[i].kind = "added" /\ catalog'.annotation = "removed"
                    => \E j \in DOMAIN news' : j > i /\ news'[j].kind = "removed"
               /\ news'[i].kind = "removed" => catalog'.annotation = "removed"
    <3>1. CASE i = Len(news) + 1
      <4>1. After(news'[i]) = catalog'.archived
        BY <1>1, <1>3, <1>4, <3>1 DEF After, BackendTyped
      <4>2. QED
        BY <1>3, <1>4, <3>1, <4>1
    <3>2. CASE i \in DOMAIN news
      <4>1. /\ After(news[i]) = catalog.archived \/ \E j \in DOMAIN news : j > i /\ news[j].kind = Turn
            /\ news[i].kind = "added" => catalog.annotation # "none"
            /\ news[i].kind = "added" /\ catalog.annotation = "removed"
                 => \E j \in DOMAIN news : j > i /\ news[j].kind = "removed"
            /\ news[i].kind = "removed" => catalog.annotation = "removed"
        BY <1>1, <3>2 DEF NewsFit
      <4>2. CASE kind \in {"archived", "unarchived"}
        <5>1. news'[Len(news) + 1].kind = Turn'
          BY <1>3, <1>4, <4>2 DEF Turn
        <5>2. QED
          BY <1>3, <1>4, <3>2, <4>1, <4>2, <5>1
      <4>3. CASE kind \notin {"archived", "unarchived"}
        <5>1. catalog'.archived = catalog.archived /\ Turn' = Turn
          BY <1>3, <4>3 DEF Turn
        <5>2. After(news'[i]) = catalog'.archived \/ \E j \in DOMAIN news' : j > i /\ news'[j].kind = Turn'
          BY <1>4, <3>2, <4>1, <5>1
        <5>3. news'[i].kind = "added" /\ catalog'.annotation = "removed"
                => \E j \in DOMAIN news' : j > i /\ news'[j].kind = "removed"
          BY <1>2, <1>3, <1>4, <3>2, <4>1
        <5>4. QED
          BY <1>2, <1>3, <1>4, <3>2, <4>1, <5>2, <5>3
      <4>4. QED
        BY <4>2, <4>3
    <3>3. QED
      BY <1>4, <3>1, <3>2
  <2>2. QED
    BY <2>1 DEF NewsFit
<1>10. StoresFit'
  BY <1>1, <1>2, <1>3 DEF StoresFit
<1>11. StepsFit'
  BY <1>1, <1>2, <1>3, <1>6, <1>8 DEF StepsFit
<1>12. LanesFit'
  BY <1>1, <1>2, <1>3, <1>6 DEF LanesFit
<1>13. PlanFits'
  BY <1>1, <1>2, <1>3, <1>6 DEF PlanFits
<1>14. ASSUME Order PROVE Order'
  <2>1. ASSUME NEW i \in DOMAIN Line PROVE Undone(Line[i].kind, Behind(Line, ToCome', i), catalog')
    <3>1. Undone(Line[i].kind, Behind(Line, ToCome, i), catalog)
      BY <1>14 DEF Order
    <3>2. Behind(Line, ToCome', i) = Behind(Line, ToCome, i) \cup {kind}
      BY <1>7
    <3>3. QED
      BY <1>2, <1>3, <3>1, <3>2 DEF Undone
  <2>2. QED
    BY <1>6, <2>1 DEF Order
<1>15. ASSUME Asked PROVE Asked'
  <2>1. Cleared'
    BY <1>2, <1>3, <1>8, <1>15 DEF Asked, Cleared, Snapped, Listed
  <2>2. Current'
    BY <1>2, <1>3, <1>6, <1>8, <1>15 DEF Asked, Current, EmbedsSoon, Snapped, Listed
  <2>3. Stamped'
    BY <1>2, <1>3, <1>6, <1>8, <1>15 DEF Asked, Stamped, EmbedsSoon, Snapped, Listed
  <2>4. Anchored'
    BY <1>2, <1>3, <1>6, <1>8, <1>15 DEF Asked, Anchored, EmbedsSoon, Snapped, Listed
  <2>5. Noted'
    BY <1>2, <1>3, <1>6, <1>8, <1>15 DEF Asked, Noted, Wanted, Snapped, Listed
  <2>6. Unnoted'
    BY <1>1, <1>2, <1>3, <1>6, <1>8, <1>15 DEF Asked, Unnoted, Wanted, Snapped, Listed, StoresFit
  <2>7. QED
    BY <2>1, <2>2, <2>3, <2>4, <2>5, <2>6 DEF Asked
<1>16. QED
  BY <1>2, <1>9, <1>10, <1>11, <1>12, <1>13, <1>14, <1>15 DEF AgreeInv, Fitting

(* The first of the events to come is in the lane, or lost with the process.     *)
LEMMA NewsNext ==
  ASSUME BackendTyped, NewsFit, news # <<>>, news' = Tail(news), catalog' = catalog
  PROVE  /\ NewsFit' /\ Head(news) \in [kind : EventKinds, archived : BOOLEAN]
         /\ ToCome = {Head(news).kind} \cup ToCome'
         /\ After(Head(news)) = catalog.archived \/ Turn \in ToCome'
         /\ Head(news).kind = "added" => catalog.annotation # "none"
         /\ Head(news).kind = "added" /\ catalog.annotation = "removed" => "removed" \in ToCome'
         /\ Head(news).kind = "removed" => catalog.annotation = "removed"
<1> DEFINE T == [kind : EventKinds, archived : BOOLEAN]
<1>1. news \in Seq(T)
  BY DEF BackendTyped
<1> HIDE DEF T
<1>2. /\ Len(news) \in Nat /\ DOMAIN news = 1 .. Len(news) /\ Head(news) = news[1] /\ 1 \in DOMAIN news
      /\ Head(news) \in T
      /\ DOMAIN news' = 1 .. (Len(news) - 1)
      /\ \A i \in 1 .. (Len(news) - 1) : news'[i] = news[i + 1]
  BY <1>1
<1>3. \A i \in DOMAIN news' : i + 1 \in DOMAIN news /\ i + 1 > 1 /\ news'[i] = news[i + 1] /\ i \in Nat
  BY <1>2
<1>4. \A j \in DOMAIN news : j > 1 => /\ j - 1 \in DOMAIN news' /\ news'[j - 1] = news[j]
                                     /\ \A i \in DOMAIN news' : j > i + 1 => j - 1 > i
  <2>1. ASSUME NEW j \in DOMAIN news, j > 1
        PROVE  /\ j - 1 \in DOMAIN news' /\ (j - 1) + 1 = j
               /\ \A i \in DOMAIN news' : j > i + 1 => j - 1 > i
    BY <1>2, <1>3, <2>1
  <2>2. QED
    BY <1>3, <2>1
<1>5. ToCome = {Head(news).kind} \cup ToCome'
  <2>1. \A j \in DOMAIN news : j = 1 \/ j > 1
    BY <1>2
  <2>2. \A j \in DOMAIN news : news[j].kind \in {Head(news).kind} \cup ToCome'
    BY <1>2, <1>4, <2>1 DEF ToCome
  <2>3. \A i \in DOMAIN news' : news'[i].kind \in ToCome
    BY <1>3 DEF ToCome
  <2>4. Head(news).kind \in ToCome
    BY <1>2 DEF ToCome
  <2>5. ToCome \subseteq {Head(news).kind} \cup ToCome'
    BY <2>2 DEF ToCome
  <2>6. ToCome' \subseteq ToCome
    BY <2>3 DEF ToCome
  <2>7. QED
    BY <2>4, <2>5, <2>6
<1>6. \A k : (\E j \in DOMAIN news : j > 1 /\ news[j].kind = k) => k \in ToCome'
  BY <1>4 DEF ToCome
<1>7. NewsFit'
  <2>1. Turn' = Turn
    BY DEF Turn
  <2>2. ASSUME NEW i \in DOMAIN news', NEW k, \E j \in DOMAIN news : j > i + 1 /\ news[j].kind = k
        PROVE  \E j \in DOMAIN news' : j > i /\ news'[j].kind = k
    <3>1. PICK j \in DOMAIN news : j > i + 1 /\ news[j].kind = k
      BY <2>2
    <3>2. j > 1
      BY <1>2, <1>3, <3>1
    <3>3. j - 1 \in DOMAIN news' /\ j - 1 > i /\ news'[j - 1].kind = k
      BY <1>4, <3>1, <3>2
    <3>4. QED
      BY <3>3
  <2>3. ASSUME NEW i \in DOMAIN news'
        PROVE  /\ After(news'[i]) = catalog'.archived \/ \E j \in DOMAIN news' : j > i /\ news'[j].kind = Turn'
               /\ news'[i].kind = "added" => catalog'.annotation # "none"
               /\ news'[i].kind = "added" /\ catalog'.annotation = "removed"
                    => \E j \in DOMAIN news' : j > i /\ news'[j].kind = "removed"
               /\ news'[i].kind = "removed" => catalog'.annotation = "removed"
    <3>1. i + 1 \in DOMAIN news /\ news'[i] = news[i + 1]
      BY <1>3
    <3>2. /\ After(news[i + 1]) = catalog.archived \/ \E j \in DOMAIN news : j > i + 1 /\ news[j].kind = Turn
          /\ news[i + 1].kind = "added" => catalog.annotation # "none"
          /\ news[i + 1].kind = "added" /\ catalog.annotation = "removed"
               => \E j \in DOMAIN news : j > i + 1 /\ news[j].kind = "removed"
          /\ news[i + 1].kind = "removed" => catalog.annotation = "removed"
      BY <3>1 DEF NewsFit
    <3>3. QED
      BY <2>1, <2>2, <3>1, <3>2
  <2>4. QED
    BY <2>3 DEF NewsFit
<1>8. /\ After(news[1]) = catalog.archived \/ \E j \in DOMAIN news : j > 1 /\ news[j].kind = Turn
      /\ news[1].kind = "added" => catalog.annotation # "none"
      /\ news[1].kind = "added" /\ catalog.annotation = "removed"
           => \E j \in DOMAIN news : j > 1 /\ news[j].kind = "removed"
      /\ news[1].kind = "removed" => catalog.annotation = "removed"
  BY <1>2 DEF NewsFit
<1>9. QED
  BY <1>2, <1>5, <1>6, <1>7, <1>8 DEF T

(* An event that is published while the stream is attached comes last in the lane.    *)
LEMMA PublishAgrees ==
  ASSUME Inv, AgreeInv, Fresh, Publish
  PROVE  AgreeInv'
<1> DEFINE event == Head(news)
           item == [kind |-> event.kind, by |-> Live]
           P == <<item>>
<1>1. /\ BackendTyped /\ LanesTyped
      /\ Fitting /\ NewsFit /\ StoresFit /\ StepsFit /\ LanesFit /\ PlanFits
  BY TypesAre DEF Inv, AgreeInv, Fitting
<1>2. /\ news # <<>> /\ news' = Tail(news)
      /\ UNCHANGED <<catalog, stream, doing, plan, drain, vector, annotated, anchored>>
      /\ \/ /\ stream # "attached" /\ lane' = lane
            /\ drift' = (drift \/ stream = "broken" \/ (stream = "detached" /\ plan.phase # "snapshot"))
         \/ /\ stream = "attached" /\ lane' = [lane EXCEPT !["resource"] = Append(@, item)]
            /\ drift' = (drift \/ (event.archived /\ event.kind \in {"updated", "added"}))
      /\ stream \in {"down", "detached", "attached", "broken"}
  BY TypesAre DEF Inv, Publish, drainVars, storeVars
<1>3. /\ NewsFit' /\ event \in [kind : EventKinds, archived : BOOLEAN]
      /\ ToCome = {event.kind} \cup ToCome'
      /\ After(event) = catalog.archived \/ Turn \in ToCome'
      /\ event.kind = "added" => catalog.annotation # "none"
      /\ event.kind = "added" /\ catalog.annotation = "removed" => "removed" \in ToCome'
      /\ event.kind = "removed" => catalog.annotation = "removed"
  BY <1>1, <1>2, NewsNext
<1> HIDE DEF event
<1>4. Now' = Now /\ ToDo' = ToDo /\ Kinds(drain["rebuild"].todo)' = Kinds(drain["rebuild"].todo)
  BY <1>2 DEF Now, ToDo
<1>5. StoresFit'
  BY <1>1, <1>2 DEF StoresFit
<1>6. CASE stream # "attached"
  <2>1. Line' = Line /\ lane' = lane /\ What' = What
    BY <1>2, <1>6 DEF Line, What, Kind, Item
  <2>2. drift' \/ Now = NotStarted
    <3>1. CASE stream = "down"
      <4>1. \A l \in Lanes : lane[l] = <<>>
        BY <3>1 DEF Inv, Begins
      <4>2. Line = <<>>
        BY <4>1 DEF Lanes, Line
      <4>3. QED
        BY <1>1, <4>2, LineTyped
    <3>2. CASE stream = "detached" /\ plan.phase = "snapshot"
      BY <1>1, <3>2, LineTyped DEF Fresh
    <3>3. QED
      BY <1>2, <1>6, <3>1, <3>2
  <2>3. StepsFit'
    <3>1. CASE drift'
      BY <1>1, <1>2, <1>4, <2>1, <3>1 DEF StepsFit
    <3>2. CASE Now = NotStarted
      BY <1>4, <3>2 DEF StepsFit, NotStarted
    <3>3. QED
      BY <2>2, <3>1, <3>2
  <2>4. LanesFit'
    BY <1>1, <1>2, <2>1 DEF LanesFit
  <2>5. PlanFits'
    BY <1>1, <1>2, <1>4, <2>1 DEF PlanFits, Publish
  <2>6. ASSUME stream # "down", ~drift' PROVE Order' /\ Asked'
    <3>1. /\ stream = "detached" /\ plan.phase = "snapshot" /\ Line = <<>>
          /\ plan' = plan /\ catalog' = catalog
          /\ vector' = vector /\ annotated' = annotated /\ anchored' = anchored
      BY <1>2, <1>6, <2>6 DEF Fresh, Publish
    <3>2. Order'
      BY <2>1, <3>1 DEF Order
    <3>3. catalog.bytes # 0 /\ vector \in Stamps /\ vector.bytes \notin Declined
          /\ (vector.bytes = 0 => vector = NoVector)
      BY <1>1, TypesAre DEF Inv, BackendTyped, Generations, StoresTyped, StoresFit
    <3>4. "vectors" \in plan.unread \/ plan.vector = vector
      BY <3>1 DEF Fresh
    <3>5. Cleared' /\ Current' /\ Stamped'
      BY <3>1, <3>3, <3>4 DEF Cleared, Current, Stamped, Snapped
    <3>6. Anchored'
      BY <3>1 DEF Anchored, Snapped, Fresh
    <3>7. Noted' /\ Unnoted'
      BY <3>1 DEF Noted, Unnoted, Snapped, Fresh
    <3>8. QED
      BY <3>2, <3>5, <3>6, <3>7 DEF Asked
  <2>7. QED
    BY <1>2, <1>3, <1>5, <2>3, <2>4, <2>5, <2>6 DEF AgreeInv, Fitting
<1>7. CASE stream = "attached"
  <2>1. item \in Items /\ item.kind = event.kind
    BY <1>3 DEF Items
  <2>2. /\ Line \in Seq(Items) /\ Line' = Append(Line, item)
        /\ lane'["annotation"] = lane["annotation"]
    BY <1>1, <1>2, <1>7, LineTyped DEF LanesTyped, Lanes, Line
  <2> HIDE DEF item
  <2>3. P \in Seq(Items) /\ Len(P) = 1 /\ P[1] = item /\ Kinds(P) = {event.kind} /\ Line' = Line \o P
    BY <2>1, <2>2, KindsOfOne
  <2> HIDE DEF P
  <2>4. /\ Kinds(Line') = Kinds(Line) \cup {event.kind}
        /\ Line # <<>> => /\ What' = What /\ First' = First
                          /\ Rest' = Behind(Line, ToCome', 1) \cup {event.kind}
        /\ Line = <<>> => First = {} /\ {event.kind} \cup ToCome' = Rest' \cup First'
    BY <1>1, <1>4, <2>3, JoinAsks
  <2>5. \A i : Behind(Line, ToCome, i) = Behind(Line, ToCome', i) \cup {event.kind}
    BY <1>3 DEF Behind
  <2>6. Line # <<>> => What' = What /\ Rest' = Rest
    BY <2>4, <2>5 DEF Rest
  <2>7. Soon' = Soon
    <3>1. CASE Line # <<>>
      BY <1>4, <2>4, <2>6, <3>1 DEF Soon
    <3>2. CASE Line = <<>>
      BY <1>1, <1>3, <1>4, <2>4, <3>2, SoonIs DEF Soon
    <3>3. QED
      BY <3>1, <3>2
  <2>8. StepsFit'
    <3>1. CASE Line # <<>>
      BY <1>1, <1>2, <1>4, <2>6, <3>1 DEF StepsFit
    <3>2. CASE Line = <<>>
      BY <1>1, <1>4, <3>2, LineTyped DEF StepsFit, NotStarted
    <3>3. QED
      BY <3>1, <3>2
  <2>9. LanesFit'
    BY <1>1, <1>2, <1>3, <2>2, <2>4 DEF LanesFit, EventKinds
  <2>10. PlanFits'
    BY <1>1, <1>2, <1>4, <2>2 DEF PlanFits
  <2>11. ASSUME Order, ~drift' PROVE Order'
    <3>1. Undone(event.kind, ToCome', catalog)
      <4>1. ~(event.archived /\ event.kind \in {"updated", "added"})
        BY <1>2, <1>7, <2>11
      <4>2. QED
        BY <1>1, <1>3, <4>1 DEF Undone, After, Turn, EventKinds, BackendTyped
    <3>2. ASSUME NEW i \in DOMAIN (Line \o P)
          PROVE  Undone((Line \o P)[i].kind, Behind(Line \o P, ToCome', i), catalog)
      <4>1. CASE i \in DOMAIN Line
        <5>1. (Line \o P)[i] = Line[i] /\ Behind(Line \o P, ToCome', i) = Behind(Line, ToCome', i) \cup Kinds(P)
          BY <2>2, <2>3, <4>1, BehindJoin
        <5>2. Behind(Line \o P, ToCome', i) = Behind(Line, ToCome, i)
          BY <2>3, <2>5, <5>1
        <5>3. QED
          BY <2>11, <4>1, <5>1, <5>2 DEF Order
      <4>2. CASE i \notin DOMAIN Line
        <5>1. (Line \o P)[i] = P[1] /\ Behind(Line \o P, ToCome', i) = ToCome'
          BY <2>2, <2>3, <3>2, <4>2, BehindLast
        <5>2. QED
          BY <2>1, <2>3, <3>1, <5>1
      <4>3. QED
        BY <4>1, <4>2
    <3>3. QED
      BY <1>2, <2>3, <3>2 DEF Order
  <2>12. ASSUME Asked PROVE Asked'
    <3>1. Now.step # "start" => What' = What
      BY <1>1, <2>6, SoonIs
    <3>2. Cleared' /\ Current'
      BY <1>2, <1>4, <2>7, <2>12 DEF Asked, Cleared, Current, EmbedsSoon, Snapped, Listed
    <3>3. Stamped' /\ Anchored'
      BY <1>2, <1>4, <2>7, <2>12 DEF Asked, Stamped, Anchored, EmbedsSoon, Snapped, Listed
    <3>4. Noted' /\ Unnoted'
      BY <1>2, <1>4, <2>2, <2>7, <2>12, <3>1 DEF Asked, Noted, Unnoted, Wanted, Snapped, Listed
    <3>5. QED
      BY <3>2, <3>3, <3>4 DEF Asked
  <2>13. QED
    BY <1>2, <1>3, <1>5, <1>7, <2>8, <2>9, <2>10, <2>11, <2>12 DEF AgreeInv, Fitting
<1>8. QED
  BY <1>2, <1>6, <1>7

(* The items of a wave, by lane and kind.                                        *)
LEMMA WaveKinds ==
  ASSUME NEW wave \in Seq(Items)
  PROVE  LET Part(l) == Those(wave, {i \in 1 .. Len(wave) : LaneOf(wave[i]) = l}) IN
         /\ \A l \in Lanes : /\ Part(l) \in Seq(Items)
                             /\ \A k \in DOMAIN Part(l) : \E i \in DOMAIN wave : Part(l)[k] = wave[i] /\ LaneOf(wave[i]) = l
         /\ Kinds(Part("resource")) = Kinds(wave) \ {"purgeAnnotation"}
         /\ Part("annotation") = <<>> <=> "purgeAnnotation" \notin Kinds(wave)
<1> DEFINE S(l) == {i \in 1 .. Len(wave) : LaneOf(wave[i]) = l}
           Part(l) == Those(wave, S(l))
<1>1. Len(wave) \in Nat /\ DOMAIN wave = 1 .. Len(wave)
  OBVIOUS
<1>2. /\ \A l \in Lanes : \A i \in S(l) : i \in DOMAIN wave /\ LaneOf(wave[i]) = l
      /\ \A i \in DOMAIN wave : i \in S(LaneOf(wave[i]))
  BY <1>1
<1>3. \A l \in Lanes : S(l) \in SUBSET DOMAIN wave
  BY <1>1
<1> HIDE DEF S
<1>4. ASSUME NEW l \in Lanes
      PROVE  /\ Part(l) \in Seq(Items)
             /\ \A k \in DOMAIN Part(l) : \E i \in S(l) : Part(l)[k] = wave[i]
             /\ \A i \in S(l) : \E k \in DOMAIN Part(l) : Part(l)[k] = wave[i]
             /\ Part(l) = <<>> <=> S(l) = {}
  BY <1>3, ThoseKept
<1> HIDE DEF Part
<1>5. "resource" \in Lanes /\ "annotation" \in Lanes
  BY DEF Lanes
<1>6. \A i \in DOMAIN wave : i \in S("annotation") <=> wave[i].kind = "purgeAnnotation"
  BY <1>2, <1>5 DEF LaneOf
<1>7. \A i \in DOMAIN wave : i \in S("resource") <=> wave[i].kind # "purgeAnnotation"
  BY <1>2, <1>5 DEF LaneOf
<1>8. Kinds(Part("resource")) = Kinds(wave) \ {"purgeAnnotation"}
  <2>1. \A k \in DOMAIN Part("resource") : Part("resource")[k].kind \in Kinds(wave) \ {"purgeAnnotation"}
    BY <1>2, <1>4, <1>5, <1>7 DEF Kinds
  <2>2. \A i \in DOMAIN wave : wave[i].kind # "purgeAnnotation" => wave[i].kind \in Kinds(Part("resource"))
    BY <1>4, <1>5, <1>7 DEF Kinds
  <2>3. Kinds(Part("resource")) \subseteq Kinds(wave) \ {"purgeAnnotation"}
    BY <2>1 DEF Kinds
  <2>4. Kinds(wave) \ {"purgeAnnotation"} \subseteq Kinds(Part("resource"))
    BY <2>2 DEF Kinds
  <2>5. QED
    BY <2>3, <2>4
<1>9. Part("annotation") = <<>> <=> "purgeAnnotation" \notin Kinds(wave)
  <2>1. Part("annotation") = <<>> <=> S("annotation") = {}
    BY <1>4, <1>5
  <2>2. S("annotation") \in SUBSET DOMAIN wave
    BY <1>3, <1>5
  <2>3. S("annotation") = {} <=> \A i \in DOMAIN wave : wave[i].kind # "purgeAnnotation"
    BY <1>6, <2>2
  <2>4. QED
    BY <2>1, <2>3 DEF Kinds
<1>10. QED
  BY <1>2, <1>4, <1>8, <1>9 DEF Part, S

(* A wave is put behind what is in the lanes.  What events have overtaken of it  *)
(* is left to the next reconcile.                                                *)
LEMMA DrainWaveAgrees ==
  ASSUME Inv, AgreeInv, NEW w \in Planners, DrainWave(w)
  PROVE  AgreeInv'
<1> DEFINE todo == drain[w].todo
           n == IF Len(todo) < WaveSize THEN Len(todo) ELSE WaveSize
           wave == SubSeq(todo, 1, n)
           rest == SubSeq(todo, n + 1, Len(todo))
           Part(l) == Those(wave, {i \in 1 .. Len(wave) : LaneOf(wave[i]) = l})
           P == Part("resource")
           L == lane["annotation"]
<1>1. /\ BackendTyped /\ LanesTyped /\ drain \in [Planners -> DrainType] /\ drain[w] \in DrainType
      /\ Fitting /\ NewsFit /\ StoresFit /\ StepsFit /\ LanesFit /\ PlanFits
  BY TypesAre DEF Inv, AgreeInv, Fitting
<1>2. todo \in Seq(Items) /\ Len(todo) \in Nat
  BY <1>1 DEF DrainType
<1>3. /\ drain[w].at = "active" /\ todo # <<>>
      /\ drain' = [drain EXCEPT ![w].at = "waiting", ![w].todo = rest]
      /\ lane' = [l \in Lanes |-> lane[l] \o Those(wave, {i \in 1 .. n : LaneOf(wave[i]) = l})]
      /\ drift' = (drift \/ \E i \in 1 .. n : Overtaken(wave[i]))
      /\ UNCHANGED <<catalog, news, stream, vector, annotated, anchored, doing, plan>>
  BY DEF DrainWave, processVars, backendVars, storeVars
<1>4. \A i \in DOMAIN todo : todo[i].by = w
  BY DEF Inv, OwnWork
<1> HIDE DEF todo
<1>5. n \in 1 .. Len(todo) /\ n \in Nat /\ n # 0
  <2>1. Len(todo) # 0
    BY <1>2, <1>3
  <2>2. QED
    BY <1>2, <2>1, SmelterAssumption
<1> HIDE DEF n
<1>6. /\ wave \in Seq(Items) /\ rest \in Seq(Items) /\ DOMAIN todo = 1 .. Len(todo)
      /\ DOMAIN wave = 1 .. n /\ Len(wave) = n
      /\ \A i \in 1 .. n : i \in DOMAIN todo /\ wave[i] = todo[i]
      /\ DOMAIN rest = 1 .. (Len(todo) - n)
      /\ \A i \in 1 .. (Len(todo) - n) : i + n \in DOMAIN todo /\ rest[i] = todo[i + n]
  BY <1>2, <1>5, CutAt
<1> HIDE DEF wave, rest
<1>7. Kinds(todo) = Kinds(wave) \cup Kinds(rest)
  <2>1. \A i \in DOMAIN todo : i \in 1 .. n \/ (i - n \in 1 .. (Len(todo) - n) /\ (i - n) + n = i)
    BY <1>2, <1>5, <1>6
  <2>2. \A i \in DOMAIN todo : todo[i].kind \in Kinds(wave) \cup Kinds(rest)
    BY <1>6, <2>1 DEF Kinds
  <2>3. \A i \in DOMAIN wave : wave[i].kind \in Kinds(todo)
    BY <1>6 DEF Kinds
  <2>4. \A i \in DOMAIN rest : rest[i].kind \in Kinds(todo)
    BY <1>6 DEF Kinds
  <2>5. Kinds(wave) \subseteq Kinds(todo) /\ Kinds(rest) \subseteq Kinds(todo)
    BY <2>3, <2>4 DEF Kinds
  <2>6. Kinds(todo) \subseteq Kinds(wave) \cup Kinds(rest)
    BY <2>2 DEF Kinds
  <2>7. QED
    BY <2>5, <2>6
<1>8. /\ \A l \in Lanes : /\ Part(l) \in Seq(Items)
                          /\ \A k \in DOMAIN Part(l) : \E i \in DOMAIN wave : Part(l)[k] = wave[i] /\ LaneOf(wave[i]) = l
      /\ Kinds(P) = Kinds(wave) \ {"purgeAnnotation"}
      /\ Part("annotation") = <<>> <=> "purgeAnnotation" \notin Kinds(wave)
  BY <1>6, WaveKinds
<1>9. /\ "resource" \in Lanes /\ "annotation" \in Lanes
      /\ \A l \in Lanes : lane'[l] = lane[l] \o Part(l)
  BY <1>3, <1>6 DEF Lanes
<1> HIDE DEF Part
<1>10. Line' = Line \o P /\ L' = L \o Part("annotation") /\ Now' = Now /\ ToCome' = ToCome
  BY <1>3, <1>9 DEF Line, Now, ToCome
<1>11. P \in Seq(Items) /\ Part("annotation") \in Seq(Items) /\ Line \in Seq(Items) /\ L \in Seq(Items)
  BY <1>1, <1>8, <1>9, LineTyped
<1>12. /\ drain'[w].at = "waiting" /\ drain'[w].todo = rest
       /\ \A v \in Planners \ {w} : drain'[v] = drain[v]
  BY <1>1, <1>3 DEF DrainType
(* What is planned is reconcile's, or anchored text.                             *)
<1>13. Kinds(todo) \subseteq WorkKinds
  <2>1. ASSUME NEW i \in DOMAIN todo PROVE todo[i].kind \in WorkKinds
    BY <1>2, <1>4, <1>6, <2>1 DEF Items, Planners, Live
  <2>2. QED
    BY <2>1 DEF Kinds
<1>14. \/ /\ w = "reconcile" /\ ToDo = Kinds(todo) /\ ToDo' = Kinds(rest)
          /\ Kinds(drain["rebuild"].todo)' = Kinds(drain["rebuild"].todo)
       \/ /\ w = "rebuild" /\ ToDo' = ToDo /\ Kinds(todo) \subseteq {"reanchor"}
          /\ Kinds(drain["rebuild"].todo)' = Kinds(rest)
  <2>1. CASE w = "reconcile"
    BY <1>12, <2>1 DEF ToDo, todo, Planners
  <2>2. CASE w = "rebuild"
    BY <1>1, <1>12, <2>2 DEF ToDo, todo, Planners, PlanFits
  <2>3. QED
    BY <2>1, <2>2 DEF Planners
<1>15. w = "reconcile" => plan.phase = "drain"
  <2>1. Kinds(todo) # {}
    BY <1>2, <1>3, KindsOfNone
  <2>2. QED
    BY <1>1, <1>14, <2>1 DEF PlanFits
<1>16. ToDo' \subseteq ToDo /\ ToDo \subseteq ToDo' \cup Kinds(wave)
  BY <1>7, <1>14
<1>17. "purgeAnnotation" \in Kinds(wave) => w = "reconcile" /\ "purgeAnnotation" \in ToDo
  BY <1>7, <1>14
<1>18. /\ Kinds(Line') = Kinds(Line) \cup Kinds(P)
       /\ Line # <<>> => What' = What /\ First' = First /\ Rest' = Rest \cup Kinds(P)
       /\ Line = <<>> => First = {} /\ Kinds(P) \cup ToCome = Rest' \cup First'
  <2>1. /\ Kinds(Line') = Kinds(Line) \cup Kinds(P)
        /\ Line # <<>> => What' = What /\ First' = First /\ Rest' = Behind(Line, ToCome', 1) \cup Kinds(P)
        /\ Line = <<>> => First = {} /\ Kinds(P) \cup ToCome' = Rest' \cup First'
    BY <1>1, <1>10, <1>11, JoinAsks
  <2>2. QED
    BY <1>10, <2>1 DEF Rest
<1>19. Soon \ {"purgeAnnotation"} \subseteq Soon'
  <2>1. CASE Line # <<>>
    BY <1>8, <1>16, <1>18, <2>1 DEF Soon
  <2>2. CASE Line = <<>>
    BY <1>1, <1>8, <1>16, <1>18, <2>2, SoonIs DEF Soon
  <2>3. QED
    BY <2>1, <2>2
<1>20. "purgeAnnotation" \in ToDo \/ L # <<>> => "purgeAnnotation" \in ToDo' \/ L' # <<>>
  <2>1. L # <<>> => L' # <<>>
    BY <1>10, <1>11, KindsOfJoin
  <2>2. CASE "purgeAnnotation" \in Kinds(wave)
    <3>1. Part("annotation") # <<>>
      BY <1>8, <2>2
    <3>2. Kinds(Part("annotation")) # {}
      BY <1>11, <3>1, KindsOfNone
    <3>3. Kinds(L \o Part("annotation")) = Kinds(L) \cup Kinds(Part("annotation"))
      BY <1>11, KindsOfJoin
    <3>4. Kinds(L') = Kinds(L) \cup Kinds(Part("annotation"))
      BY <1>10, <3>3
    <3>5. Kinds(L') # {}
      BY <3>2, <3>4
    <3>6. QED
      BY <3>5 DEF Kinds
  <2>3. CASE "purgeAnnotation" \notin Kinds(wave)
    BY <1>16, <2>1, <2>3
  <2>4. QED
    BY <2>2, <2>3
<1>21. L' # <<>> => L # <<>> \/ (w = "reconcile" /\ "purgeAnnotation" \in ToDo)
  <2>1. SUFFICES ASSUME L = <<>>, "purgeAnnotation" \notin Kinds(wave) PROVE L' = <<>>
    BY <1>17
  <2>2. Part("annotation") = <<>>
    BY <1>8, <2>1
  <2>3. QED
    BY <1>10, <1>11, <2>1, <2>2, KindsOfJoin
<1>22. NewsFit' /\ StoresFit'
  BY <1>1, <1>3 DEF NewsFit, StoresFit, Turn, After
<1>23. StepsFit'
  <2>1. CASE Line # <<>>
    BY <1>1, <1>3, <1>10, <1>18, <2>1 DEF StepsFit
  <2>2. CASE Line = <<>>
    BY <1>1, <1>10, <2>2, LineTyped DEF StepsFit, NotStarted
  <2>3. QED
    BY <2>1, <2>2
<1>24. LanesFit'
  <2>1. ASSUME NEW i \in DOMAIN L' PROVE L'[i] = [kind |-> "purgeAnnotation", by |-> "reconcile"]
    <3>1. L' = L \o Part("annotation")
      BY <1>10
    <3>2. CASE i \in DOMAIN L
      <4>1. L'[i] = L[i]
        BY <1>11, <3>1, <3>2, JoinPlaces
      <4>2. QED
        BY <1>1, <3>2, <4>1 DEF LanesFit
    <3>3. CASE i \notin DOMAIN L
      <4>1. PICK k \in DOMAIN Part("annotation") : L'[i] = Part("annotation")[k]
        BY <1>11, <2>1, <3>1, <3>3, JoinEnds
      <4>2. PICK j \in DOMAIN wave : L'[i] = wave[j] /\ LaneOf(wave[j]) = "annotation"
        BY <1>8, <1>9, <4>1
      <4>3. wave[j].kind = "purgeAnnotation" /\ wave[j] \in Items /\ wave[j].by = w
        BY <1>4, <1>6, <4>2 DEF LaneOf
      <4>4. w = "reconcile"
        BY <1>17, <4>3 DEF Kinds
      <4>5. wave[j] = [kind |-> "purgeAnnotation", by |-> "reconcile"]
        BY <4>3, <4>4 DEF Items
      <4>6. QED
        BY <4>2, <4>5
    <3>4. QED
      BY <3>2, <3>3
  <2>2. doing'["annotation"] = NotStarted
    BY <1>1, <1>3 DEF LanesFit
  <2>3. "embedAnnotation" \in Kinds(P) => catalog.annotation # "none"
    BY <1>1, <1>7, <1>8, <1>14 DEF PlanFits
  <2>4. "added" \notin Kinds(P) /\ "removed" \notin Kinds(P) /\ "purgeAnnotation" \notin Kinds(P)
    BY <1>7, <1>8, <1>13 DEF WorkKinds
  <2>5. QED
    BY <1>1, <1>3, <1>18, <2>1, <2>2, <2>3, <2>4 DEF LanesFit
<1>25. PlanFits'
  <2>1. Kinds(drain["rebuild"].todo)' \subseteq {"reanchor"}
    BY <1>1, <1>7, <1>14 DEF PlanFits
  <2>2. plan.phase # "drain" => ToDo' = {} /\ L' = <<>>
    BY <1>1, <1>15, <1>16, <1>21 DEF PlanFits
  <2>3. /\ drain'["reconcile"].at \in {"idle", "over"} => ToDo' = {}
        /\ plan.phase = "done" => drain'["reconcile"].at = "over"
    <3>1. CASE w = "reconcile"
      BY <1>12, <1>15, <3>1
    <3>2. CASE w = "rebuild"
      <4>1. drain'["reconcile"] = drain["reconcile"]
        BY <1>12, <3>2 DEF Planners
      <4>2. QED
        BY <1>1, <1>16, <4>1 DEF PlanFits
    <3>3. QED
      BY <3>1, <3>2 DEF Planners
  <2>4. QED
    BY <1>1, <1>3, <1>16, <1>21, <2>1, <2>2, <2>3 DEF PlanFits
<1>26. ASSUME Order, ~drift' PROVE Order'
  <2>1. ASSUME NEW kind \in Kinds(P) PROVE Undone(kind, ToCome, catalog)
    <3>1. PICK i \in 1 .. n : wave[i].kind = kind
      BY <1>6, <1>8, <2>1 DEF Kinds
    <3>2. ~Overtaken(wave[i]) /\ wave[i].by = w /\ kind \in Kinds(todo)
      BY <1>3, <1>4, <1>6, <2>1, <1>7, <1>8, <2>1, <1>26
    <3>3. CASE w = "rebuild"
      BY <1>14, <3>2, <3>3 DEF Undone
    <3>4. CASE w = "reconcile"
      <4>1. /\ kind \in WorkKinds
            /\ kind = "purge" => plan.archived
            /\ kind = "embed" => ~plan.archived
            /\ kind = "embedAnnotation" => ~plan.archived /\ catalog.annotation # "none"
        BY <1>1, <1>13, <1>14, <3>2, <3>4 DEF PlanFits
      <4>2. /\ kind = "purge" => plan.archived = catalog.archived \/ {"unarchived", "updated"} \cap ToCome # {}
            /\ kind = "embed" => plan.archived = catalog.archived \/ "archived" \in ToCome
            /\ kind = "embedAnnotation" =>
                 \/ plan.archived = catalog.archived /\ catalog.annotation # "removed"
                 \/ {"archived", "removed"} \cap ToCome # {}
        BY <3>1, <3>2, <3>4 DEF Overtaken
      <4>3. catalog.annotation \in {"none", "there", "removed"}
        BY <1>1 DEF BackendTyped
      <4>4. QED
        BY <4>1, <4>2, <4>3 DEF Undone, WorkKinds
    <3>5. QED
      BY <3>3, <3>4 DEF Planners
  <2>2. ASSUME NEW i \in DOMAIN (Line \o P)
        PROVE  Undone((Line \o P)[i].kind, Behind(Line \o P, ToCome, i), catalog)
    <3>1. CASE i \in DOMAIN Line
      <4>1. (Line \o P)[i] = Line[i] /\ Behind(Line \o P, ToCome, i) = Behind(Line, ToCome, i) \cup Kinds(P)
        BY <1>11, <3>1, BehindJoin
      <4>2. Undone(Line[i].kind, Behind(Line, ToCome, i), catalog)
        BY <1>26, <3>1 DEF Order
      <4>3. QED
        BY <4>1, <4>2 DEF Undone
    <3>2. CASE i \notin DOMAIN Line
      <4>1. (Line \o P)[i].kind \in Kinds(P) /\ ToCome \subseteq Behind(Line \o P, ToCome, i)
        BY <1>11, <2>2, <3>2, BehindLast
      <4>2. QED
        BY <2>1, <4>1, UndoneMore
    <3>3. QED
      BY <3>1, <3>2
  <2>3. QED
    BY <1>3, <1>10, <2>2 DEF Order
<1>27. ASSUME Asked PROVE Asked'
  <2>1. Now.step # "start" => What' = What
    BY <1>1, <1>18, SoonIs
  <2>2. Cleared' /\ Current'
    BY <1>3, <1>10, <1>19, <1>27 DEF Asked, Cleared, Current, EmbedsSoon, Snapped, Listed
  <2>3. Stamped' /\ Anchored'
    BY <1>3, <1>10, <1>19, <1>27 DEF Asked, Stamped, Anchored, EmbedsSoon, Snapped, Listed
  <2>4. Noted'
    BY <1>3, <1>10, <1>19, <1>27, <2>1 DEF Asked, Noted, Wanted, Snapped, Listed
  <2>5. Unnoted'
    BY <1>3, <1>10, <1>19, <1>20, <1>27 DEF Asked, Unnoted, Wanted, Snapped, Listed
  <2>6. QED
    BY <2>2, <2>3, <2>4, <2>5 DEF Asked
<1>28. QED
  BY <1>3, <1>22, <1>23, <1>24, <1>25, <1>26, <1>27 DEF AgreeInv, Fitting

-------------------------------------------------------------------------------
(* The process, and what it begins with.                                        *)

(* A process that starts reads all the stores: what they lack will be seen.      *)
LEMMA StartUpAgrees ==
  ASSUME Inv, AgreeInv, StartUp
  PROVE  AgreeInv'
<1>1. /\ stream = "down" /\ stream' = "detached"
      /\ plan' = [NoPlan EXCEPT !.phase = "snapshot", !.unread = {"vectors", "annotations", "anchors"}]
      /\ UNCHANGED <<catalog, news, lane, doing, drain, vector, annotated, anchored>>
  BY DEF StartUp, backendVars, laneVars, drainVars, storeVars
<1>2. /\ plan'.phase = "snapshot" /\ plan'.unread = {"vectors", "annotations", "anchors"}
      /\ plan'.vector = NoVector /\ plan'.annotated = FALSE
  BY <1>1 DEF NoPlan
<1>3. /\ Fitting /\ LanesTyped /\ Line = <<>> /\ lane["annotation"] = <<>>
      /\ drain["reconcile"].at = "idle"
  BY <1>1, TypesAre DEF Inv, AgreeInv, Begins, Idle, Lanes, Line, Planners
<1>4. /\ Line' = Line /\ Now' = Now /\ ToCome' = ToCome /\ ToDo' = ToDo /\ ToDo = {}
      /\ Now = NotStarted
  BY <1>1, <1>3, LineTyped DEF Line, Now, ToCome, ToDo, Fitting, PlanFits
<1>5. NewsFit' /\ StoresFit' /\ LanesFit'
  BY <1>1, <1>3, <1>4 DEF Fitting, NewsFit, StoresFit, LanesFit, Turn, After
<1>6. StepsFit'
  BY <1>4 DEF StepsFit, NotStarted
<1>7. PlanFits'
  BY <1>1, <1>2, <1>3, <1>4 DEF Fitting, PlanFits
<1>8. Order'
  BY <1>3, <1>4 DEF Order
<1>9. Asked'
  BY <1>2 DEF Asked, Cleared, Current, Stamped, Anchored, Noted, Unnoted, Snapped
<1>10. QED
  BY <1>5, <1>6, <1>7, <1>8, <1>9 DEF AgreeInv, Fitting

(* A crash leaves the backend and the stores.                                    *)
LEMMA CrashAgrees ==
  ASSUME Inv, AgreeInv, Crash
  PROVE  AgreeInv'
<1>1. /\ stream' = "down"
      /\ lane' = [l \in Lanes |-> <<>>] /\ doing' = [l \in Lanes |-> NotStarted]
      /\ plan' = NoPlan /\ drain' = [w \in Planners |-> NoDrain]
      /\ UNCHANGED <<catalog, news, vector, annotated>>
  BY DEF Crash, backendVars
<1>2. /\ Line' = <<>> /\ lane'["annotation"] = <<>> /\ Now' = NotStarted /\ doing'["annotation"] = NotStarted
  BY <1>1 DEF Lanes, Line, Now
<1>3. /\ drain'["reconcile"] = NoDrain /\ drain'["rebuild"] = NoDrain /\ NoDrain.todo = <<>>
      /\ plan'.phase = "no"
  BY <1>1 DEF Planners, NoDrain, NoPlan
<1>4. ToDo' = {} /\ Kinds(drain["rebuild"].todo)' = {}
  BY <1>3, KindsOfNone DEF ToDo
<1>5. NewsFit' /\ StoresFit'
  BY <1>1 DEF AgreeInv, Fitting, NewsFit, StoresFit, Turn, After
<1>6. StepsFit'
  BY <1>2 DEF StepsFit, NotStarted
<1>7. LanesFit'
  BY <1>2, KindsOfNone DEF LanesFit
<1>8. PlanFits'
  BY <1>2, <1>3, <1>4 DEF PlanFits
<1>9. QED
  BY <1>1, <1>5, <1>6, <1>7, <1>8 DEF AgreeInv, Fitting

LEMMA InitAgrees == Init => AgreeInv
<1>1. SUFFICES ASSUME Init PROVE AgreeInv
  OBVIOUS
<1>2. /\ stream = "down" /\ news = <<>> /\ vector = NoVector /\ annotated = FALSE /\ plan = NoPlan
      /\ lane = [l \in Lanes |-> <<>>] /\ doing = [l \in Lanes |-> NotStarted]
      /\ drain = [w \in Planners |-> NoDrain]
  BY <1>1 DEF Init
<1>3. /\ Line = <<>> /\ lane["annotation"] = <<>> /\ Now = NotStarted /\ doing["annotation"] = NotStarted
      /\ drain["reconcile"] = NoDrain /\ drain["rebuild"] = NoDrain /\ NoDrain.todo = <<>>
      /\ plan.phase = "no" /\ DOMAIN news = {} /\ NoVector.bytes = 0
  BY <1>2 DEF Lanes, Planners, Line, Now, NoDrain, NoPlan, NoVector
<1>4. ToDo = {} /\ Kinds(drain["rebuild"].todo) = {}
  BY <1>3, KindsOfNone DEF ToDo
<1>5. NewsFit /\ StoresFit
  BY <1>2, <1>3, SmelterAssumption DEF NewsFit, StoresFit
<1>6. StepsFit
  BY <1>3 DEF StepsFit, NotStarted
<1>7. LanesFit
  BY <1>3, KindsOfNone DEF LanesFit
<1>8. PlanFits
  BY <1>3, <1>4 DEF PlanFits
<1>9. QED
  BY <1>2, <1>5, <1>6, <1>7, <1>8 DEF AgreeInv, Fitting

LEMMA StutterAgrees ==
  ASSUME AgreeInv, UNCHANGED vars
  PROVE  AgreeInv'
<1>1. Stays /\ UNCHANGED <<plan, drift, drain>>
  BY DEF vars, Stays, backendVars, laneVars, drainVars, storeVars
<1>2. ToDo' = ToDo
  BY <1>1 DEF ToDo
<1>3. QED
  BY <1>1, <1>2, StillAgrees DEF AgreeInv, Fitting, PlanFits

LEMMA StreamAgrees ==
  ASSUME AgreeInv, Attach \/ Break
  PROVE  AgreeInv'
<1>1. Stays /\ UNCHANGED <<plan, drain>>
  BY DEF Attach, Break, Stays, backendVars, laneVars, drainVars, storeVars
<1>2. ToDo' = ToDo
  BY <1>1 DEF ToDo
<1>3. QED
  BY <1>1, <1>2, StillAgrees DEF AgreeInv, Fitting, PlanFits

(* An item being done is one of a lane, and a drain that is not idle is one of   *)
(* reconcile's, that has listed, or of a rebuild, that has been commanded.       *)
LEMMA FreshKept ==
  ASSUME Inv, Fitting, Fresh, Next
  PROVE  Fresh'
<1>1. SUFFICES ASSUME stream' = "detached", plan'.phase = "snapshot"
               PROVE  /\ Line' = <<>>
                      /\ "vectors" \in plan'.unread \/ plan'.vector = vector'
                      /\ "annotations" \in plan'.unread \/ plan'.annotated = annotated'
                      /\ "anchors" \in plan'.unread \/ plan'.anchored = anchored'
  BY DEF Fresh
<1>2. ASSUME stream = "detached", plan.phase = "snapshot", UNCHANGED <<lane, plan, vector, annotated, anchored>>
      PROVE  /\ Line' = <<>>
             /\ "vectors" \in plan'.unread \/ plan'.vector = vector'
             /\ "annotations" \in plan'.unread \/ plan'.annotated = annotated'
             /\ "anchors" \in plan'.unread \/ plan'.anchored = anchored'
  BY <1>2 DEF Fresh, Line
<1>3. CASE \E kind \in EventKinds : Change(kind)
  BY <1>1, <1>2, <1>3 DEF Change, laneVars, storeVars
<1>4. CASE Publish
  BY <1>1, <1>2, <1>4 DEF Publish, storeVars
<1>5. CASE \E l \in Lanes : LaneStep(l) \/ FetchUnavailable(l) \/ Throws(l)
  <2>1. PICK l \in Lanes : LaneStep(l) \/ FetchUnavailable(l) \/ Throws(l)
    BY <1>5
  <2>2. lane[l] # <<>> /\ stream = "detached" /\ plan.phase = "snapshot"
    <3>1. lane[l] # <<>> /\ UNCHANGED outsideVars
      BY <2>1, LaneSteps DEF Inv
    <3>2. QED
      BY <1>1, <3>1 DEF outsideVars
  <2>3. lane["annotation"] = <<>> /\ lane["resource"] = <<>>
    BY <2>2 DEF Fresh, Line, Fitting, PlanFits
  <2>4. QED
    BY <2>2, <2>3 DEF Lanes
<1>6. CASE Drain
  <2>1. PICK w \in Planners : DrainStart(w) \/ DrainWave(w) \/ DrainEnd(w)
    BY <1>6 DEF Drain
  <2>2. stream = "detached" /\ plan.phase = "snapshot"
    BY <1>1, <2>1 DEF DrainStart, DrainWave, DrainEnd, processVars
  <2>3. drain[w].at = "idle"
    BY <2>2 DEF Inv, Begins, Idle, Planners
  <2>4. QED
    BY <2>1, <2>3 DEF DrainStart, DrainWave, DrainEnd
<1>7. CASE \E what \in plan.unread : Snapshot(what)
  <2>1. PICK what \in plan.unread : Snapshot(what)
    BY <1>7
  <2>2. /\ stream = "detached" /\ plan.phase = "snapshot"
        /\ UNCHANGED <<lane, vector, annotated, anchored>>
        /\ plan' = CASE what = "vectors" -> [plan EXCEPT !.unread = @ \ {what}, !.vector = vector]
                     [] what = "annotations" -> [plan EXCEPT !.unread = @ \ {what}, !.annotated = annotated]
                     [] what = "anchors" -> [plan EXCEPT !.unread = @ \ {what}, !.anchored = anchored]
    BY <1>1, <2>1 DEF Snapshot, processVars, laneVars, storeVars
  <2>3. plan \in PlanType /\ what \in {"vectors", "annotations", "anchors"}
    BY TypesAre DEF Inv, PlanType
  <2>4. /\ plan'.unread = plan.unread \ {what}
        /\ plan'.vector = IF what = "vectors" THEN vector ELSE plan.vector
        /\ plan'.annotated = IF what = "annotations" THEN annotated ELSE plan.annotated
        /\ plan'.anchored = IF what = "anchors" THEN anchored ELSE plan.anchored
    BY <2>2, <2>3 DEF PlanType
  <2>5. QED
    BY <2>2, <2>3, <2>4 DEF Fresh, Line
<1>8. CASE ListResources \/ ListAndPlan \/ ReconcileOver
  <2>1. plan'.phase # "snapshot"
    <3>1. plan \in PlanType
      BY TypesAre DEF Inv
    <3>2. QED
      BY <1>8, <3>1 DEF ListResources, ListAndPlan, ReconcileOver, PlanType, NoPlan
  <2>2. QED
    BY <1>1, <2>1
<1>9. CASE RebuildCommand \/ Rebuild \/ RebuildListFails \/ RebuildUnanswered
  BY <1>1, <1>2, <1>9 DEF RebuildCommand, Rebuild, RebuildList, RebuildListFails, RebuildOver, RebuildUnanswered,
                          Apologise, Leaves, processVars, laneVars, storeVars
<1>10. CASE StartUp
  <2>1. /\ stream = "down" /\ UNCHANGED lane
        /\ plan' = [NoPlan EXCEPT !.phase = "snapshot", !.unread = {"vectors", "annotations", "anchors"}]
    BY <1>10 DEF StartUp, laneVars
  <2>2. plan'.unread = {"vectors", "annotations", "anchors"}
    BY <2>1 DEF NoPlan
  <2>3. \A l \in Lanes : lane[l] = <<>>
    BY <2>1 DEF Inv, Begins
  <2>4. Line' = <<>>
    BY <2>1, <2>3 DEF Lanes, Line
  <2>5. QED
    BY <2>2, <2>4
<1>11. CASE Attach \/ Break \/ Crash
  BY <1>1, <1>11 DEF Attach, Break, Crash
<1>12. QED
  BY <1>3, <1>4, <1>5, <1>6, <1>7, <1>8, <1>9, <1>10, <1>11 DEF Next, Reconcile

-------------------------------------------------------------------------------
(* The theorems.                                                                 *)

(* Events, items that succeed, are not available or throw, the two planners, the *)
(* stream, crashes and starts of smelter.ts keep the invariant in any order.     *)
THEOREM SmelterInvariant == Spec => []Inv
<1>1. Init => Inv
  BY InitGood
<1>2. Inv /\ [Next]_vars => Inv'
  <2>1. SUFFICES ASSUME Inv, [Next]_vars PROVE Inv'
    OBVIOUS
  <2>2. CASE \E kind \in EventKinds : Change(kind)
    BY <2>1, <2>2, ChangeKeeps
  <2>3. CASE Publish
    BY <2>1, <2>3, PublishKeeps
  <2>4. CASE \E l \in Lanes : LaneStep(l) \/ FetchUnavailable(l) \/ Throws(l)
    BY <2>1, <2>4, LaneStepKeeps
  <2>5. CASE Drain
    BY <2>1, <2>5, DrainStartKeeps, DrainWaveKeeps, DrainEndKeeps DEF Drain
  <2>6. CASE Reconcile
    BY <2>1, <2>6, SnapshotKeeps, ListResourcesKeeps, ListAndPlanKeeps, ReconcileOverKeeps DEF Reconcile
  <2>7. CASE RebuildCommand \/ Rebuild \/ RebuildListFails \/ RebuildUnanswered
    BY <2>1, <2>7, RebuildSteps DEF Rebuild
  <2>8. CASE StartUp
    BY <2>1, <2>8, StartUpKeeps
  <2>9. CASE Crash
    BY <2>1, <2>9, CrashKeeps
  <2>10. CASE Attach \/ Break
    BY <2>1, <2>10, StreamKeeps
  <2>11. CASE UNCHANGED vars
    BY <2>1, <2>11, StutterKeeps
  <2>12. QED
    BY <2>1, <2>2, <2>3, <2>4, <2>5, <2>6, <2>7, <2>8, <2>9, <2>10, <2>11 DEF Next
<1>3. QED
  BY <1>1, <1>2, PTL DEF Spec

(* The variables of the smelter keep their types; among them, that there are     *)
(* never more failures than items done, and that only items in a lane are        *)
(* being done.                                                                   *)
THEOREM SmelterTypes == Spec => []SmelterTypeOK
<1>1. Inv => SmelterTypeOK
  BY DEF Inv
<1>2. QED
  BY <1>1, SmelterInvariant, PTL

(* drain of smelter.ts: a planner goes on only when all the items of its wave    *)
(* have been done, although noteWorkDone counts those of two planners, successes *)
(* and failures, with one counter and one waiter.                                *)
THEOREM WavesAreComplete == Spec => []WavesComplete
<1>1. Inv => WavesComplete
  <2>1. SUFFICES ASSUME Inv, NEW w \in Planners, drain[w].at # "waiting",
                        NEW l \in Lanes, NEW i \in DOMAIN lane[l], lane[l][i].by = w
                 PROVE  FALSE
    BY DEF WavesComplete
  <2>2. i \in Planned(lane[l])
    BY <2>1 DEF Planned, Planners, Live
  <2>3. workWaiter.for = w
    BY <2>1, <2>2 DEF Inv, Waited
  <2>4. QED
    BY <2>1, <2>3 DEF Inv, Waited
<1>2. QED
  BY <1>1, SmelterInvariant, PTL

(* rebuildAnchors of smelter.ts: ok means that no item of the rebuild failed,    *)
(* failed that one did or that a call of the rebuild itself did, and a rebuild   *)
(* that skipped something and met no such error has said so, whatever of         *)
(* reconcile's failed before or after its turn.                                  *)
THEOREM RebuildIsHonest == Spec => []RebuildHonest
<1>1. Inv => RebuildHonest
  BY DEF Inv, Answers, RebuildHonest
<1>2. QED
  BY <1>1, SmelterInvariant, PTL

(* Events, the steps of the items, the planners, the stream, crashes and starts  *)
(* of smelter.ts keep what a store lacks asked for, unless drift says otherwise. *)
THEOREM SmelterAgrees == Spec => []AgreeInv
<1>1. Init => AgreeInv /\ Fresh
  BY InitAgrees DEF Init, Fresh
<1>2. Inv /\ AgreeInv /\ Fresh /\ [Next]_vars => AgreeInv'
  <2>1. SUFFICES ASSUME Inv, AgreeInv, Fresh, [Next]_vars PROVE AgreeInv'
    OBVIOUS
  <2>2. CASE \E kind \in EventKinds : Change(kind)
    BY <2>1, <2>2, ChangeAgrees
  <2>3. CASE Publish
    BY <2>1, <2>3, PublishAgrees
  <2>4. CASE \E l \in Lanes : LaneStep(l) \/ FetchUnavailable(l) \/ Throws(l)
    BY <2>1, <2>4, LaneStepAgrees
  <2>5. CASE Drain
    BY <2>1, <2>5, DrainTurns, DrainWaveAgrees DEF Drain
  <2>6. CASE Reconcile
    BY <2>1, <2>6, SnapshotAgrees, ListResourcesAgrees, ListAndPlanAgrees, ReconcileOverAgrees DEF Reconcile
  <2>7. CASE RebuildCommand \/ Rebuild \/ RebuildListFails \/ RebuildUnanswered
    BY <2>1, <2>7, RebuildAgrees DEF Rebuild
  <2>8. CASE StartUp
    BY <2>1, <2>8, StartUpAgrees
  <2>9. CASE Crash
    BY <2>1, <2>9, CrashAgrees
  <2>10. CASE Attach \/ Break
    BY <2>1, <2>10, StreamAgrees
  <2>11. CASE UNCHANGED vars
    BY <2>1, <2>11, StutterAgrees
  <2>12. QED
    BY <2>1, <2>2, <2>3, <2>4, <2>5, <2>6, <2>7, <2>8, <2>9, <2>10, <2>11 DEF Next
<1>3. Inv /\ AgreeInv /\ Fresh /\ [Next]_vars => Fresh'
  <2>1. SUFFICES ASSUME Inv, AgreeInv, Fresh, [Next]_vars PROVE Fresh'
    OBVIOUS
  <2>2. CASE Next
    BY <2>1, <2>2, FreshKept DEF AgreeInv
  <2>3. CASE UNCHANGED vars
    BY <2>1, <2>3 DEF Fresh, Line, vars, laneVars, storeVars
  <2>4. QED
    BY <2>1, <2>2, <2>3
<1>4. QED
  BY <1>1, <1>2, <1>3, SmelterInvariant, PTL DEF Spec

(* What smelter.ts:26-36 promises: when reconcile is over and nothing waits, the *)
(* vectors, the annotation and the anchored text are those of the catalog,       *)
(* however live events, the two planners, crashes and starts interleave, and     *)
(* although events are lost until the stream is attached; except where drift     *)
(* says that the code leaves it to the next reconcile: a failure, a plan that    *)
(* events overtook, an event lost after the listing or by a broken stream.       *)
THEOREM StoresComeToAgree == Spec => []StoresAgree
<1>1. Inv /\ AgreeInv => StoresAgree
  <2> DEFINE searchable == ~catalog.archived /\ catalog.bytes \notin Declined
  <2>1. SUFFICES ASSUME Inv, AgreeInv, AtRest, ~drift
                 PROVE  /\ vector = IF searchable THEN [bytes |-> catalog.bytes, tags |-> catalog.tags] ELSE NoVector
                        /\ annotated <=> ~catalog.archived /\ catalog.annotation = "there"
                        /\ searchable => catalog.bytes \in anchored
    BY DEF StoresAgree
  <2>2. /\ BackendTyped /\ LanesTyped /\ StoresTyped /\ Asked /\ StoresFit /\ PlanFits
    BY <2>1, TypesAre DEF AtRest, Inv, AgreeInv, Fitting
  <2>3. Line = <<>> /\ lane["annotation"] = <<>> /\ Now.step = "start"
    BY <2>1, <2>2, LineTyped DEF AtRest, Lanes, Line
  <2>4. plan.phase = "done" /\ ToDo = {} /\ ToCome = {}
    BY <2>1, <2>2 DEF AtRest, PlanFits, ToCome
  <2>5. Soon = {}
    BY <2>3, <2>4, KindsOfNone DEF Soon, Rest, First, At, Line
  <2>6. catalog.bytes # 0 /\ vector \in Stamps
    BY <2>2 DEF BackendTyped, Generations, StoresTyped
  <2>7. /\ catalog.archived => vector = NoVector
        /\ ~catalog.archived => vector.bytes = IF catalog.bytes \in Declined THEN 0 ELSE catalog.bytes
        /\ ~catalog.archived => vector = NoVector \/ vector.tags = catalog.tags
    BY <2>2, <2>3, <2>4, <2>5 DEF Asked, Cleared, Current, Stamped, EmbedsSoon, Snapped, Listed
  <2>8. /\ searchable => catalog.bytes \in anchored
        /\ annotated <=> ~catalog.archived /\ catalog.annotation = "there"
    BY <2>2, <2>3, <2>4, <2>5 DEF Asked, Anchored, Noted, Unnoted, Wanted, EmbedsSoon, Snapped, Listed, StoresTyped
  <2>9. vector = IF searchable THEN [bytes |-> catalog.bytes, tags |-> catalog.tags] ELSE NoVector
    <3>1. CASE searchable
      <4>1. vector.bytes = catalog.bytes /\ vector # NoVector
        BY <2>6, <2>7, <3>1 DEF NoVector
      <4>2. vector.tags = catalog.tags
        BY <2>7, <3>1, <4>1
      <4>3. QED
        BY <2>6, <3>1, <4>1, <4>2 DEF Stamps
    <3>2. CASE ~searchable
      BY <2>2, <2>7, <3>2 DEF StoresFit
    <3>3. QED
      BY <3>1, <3>2
  <2>10. QED
    BY <2>8, <2>9
<1>2. QED
  BY <1>1, SmelterInvariant, SmelterAgrees, PTL

================================================================================
