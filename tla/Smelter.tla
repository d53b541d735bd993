-------------------------------- MODULE Smelter --------------------------------
(* The projection of one resource into the vector store:                        *)
(* packages/make-meaning/src/smelter.ts.                                        *)
(*                                                                              *)
(* A resource has bytes, tags and one annotation.  What the smelter does is     *)
(* asked for by live events, by reconcile, which compares the store with the    *)
(* catalog at startup, and by the command that rebuilds anchored text.  All of  *)
(* it waits in lanes: one per resource, and one per annotation that reconcile   *)
(* takes for an orphan, since its resource is not known.  Reconcile and rebuild *)
(* feed the lanes in waves and wait for each, with one counter and one waiter   *)
(* between them.  The items of a lane are done one after the other; a batch     *)
(* differs only in the number of calls to the embedding provider.               *)
EXTENDS Ascending, SequencesExt

CONSTANTS
  Declined,        \* the generations of bytes that yield no text
  WaveSize,        \* RECONCILE_WAVE
  MaxChanges,      \* bound: events of the resource
  MaxTroubles,     \* bound: calls that fail, and crashes of the smelter
  MaxRebuilds      \* bound: rebuild commands

ASSUME SmelterAssumption ==
  Declined \subseteq Nat \ {0} /\ WaveSize \in Nat \ {0}
  /\ {MaxChanges, MaxTroubles, MaxRebuilds} \subseteq Nat

VARIABLES
  catalog,         \* backend: the resource as its view has it
  news,            \* backend: the events that are not published yet
  stream,          \* the smelter: "down", or how far its stream of events is
  lane,            \* memory: the items that wait, the first is being done
  doing,           \* memory: how far the first item of a lane is, and what it has read
  plan,            \* memory: how far reconcile is, and what it has read
  drain,           \* memory: how far each planner's drain is
  chain,           \* memory: drainChain
  workDone,        \* memory: planned items done, successfully or not
  workFailed,      \* memory: planned items failed
  workWaiter,      \* memory: the one waiter
  reply,           \* the answer to the rebuild command
  vector,          \* vector store: the stamp of the resource's vectors
  annotated,       \* vector store: the annotation's vector is there
  anchored,        \* content store: the generations with anchored text
  drift,           \* history: something the code leaves to the next reconcile
  hurt,            \* history: an item of the rebuild failed
  interrupted,     \* history: the rebuild met an error that is none of its items'
  spent            \* history: the bounded things that have happened

backendVars == <<catalog, news>>
laneVars == <<lane, doing>>
drainVars == <<drain, chain, workDone, workFailed, workWaiter>>
storeVars == <<vector, annotated, anchored>>
vars == <<backendVars, stream, laneVars, plan, drainVars, reply, storeVars, drift, hurt, interrupted, spent>>

Live == "live"
Planners == {"reconcile", "rebuild"}
Lanes == {"resource", "annotation"}

EventKinds == {"updated", "retagged", "archived", "unarchived", "added", "removed"}
WorkKinds == {"embed", "restamp", "reanchor", "purge", "embedAnnotation", "purgeAnnotation"}
Items == [kind : EventKinds, by : {Live}] \cup [kind : WorkKinds, by : Planners]

Generations == 1 .. MaxChanges + 1
Stamps == [bytes : Generations \cup {0}, tags : Generations \cup {0}]
NoVector == [bytes |-> 0, tags |-> 0]

NotStarted == [step |-> "start", bytes |-> 0, tags |-> 0]
NoPlan == [phase |-> "no", unread |-> {}, vector |-> NoVector, annotated |-> FALSE, anchored |-> {},
           archived |-> FALSE, bytes |-> 0, tags |-> 0]
NoDrain == [at |-> "idle", todo |-> <<>>, before |-> 0, failures |-> 0]
NoWaiter == [target |-> 0, for |-> "nobody"]

Limit == [changes |-> MaxChanges, troubles |-> MaxTroubles, rebuilds |-> MaxRebuilds]
Spend(what) == spent[what] < Limit[what] /\ spent' = [spent EXCEPT ![what] = @ + 1]

SmelterTypeOK ==
  /\ catalog \in [archived : BOOLEAN, bytes : Generations, tags : Generations,
                  annotation : {"none", "there", "removed"}]
  /\ news \in Seq([kind : EventKinds, archived : BOOLEAN])
  /\ stream \in {"down", "detached", "attached", "broken"}
  /\ lane \in [Lanes -> Seq(Items)]
  /\ doing \in [Lanes -> [step : {"start", "decline", "tags", "upsert", "stamp", "publish",
                                  "unannotate", "list", "annotate"},
                          bytes : Generations \cup {0}, tags : Generations \cup {0}]]
  /\ \A l \in Lanes : doing[l] # NotStarted => lane[l] # <<>>
  /\ plan \in [phase : {"no", "snapshot", "annotations", "drain", "done"},
               unread : SUBSET {"vectors", "annotations", "anchors"},
               vector : Stamps, annotated : BOOLEAN, anchored : SUBSET Generations,
               archived : BOOLEAN, bytes : Generations \cup {0}, tags : Generations \cup {0}]
  /\ drain \in [Planners -> [at : {"idle", "list", "queued", "active", "waiting", "over", "sorry"},
                             todo : Seq(Items), before : Nat, failures : Nat]]
  /\ chain \in Seq(Planners)
  /\ workFailed \in Nat /\ workDone \in Nat /\ workFailed <= workDone
  /\ workWaiter \in [target : Nat \ {0}, for : Planners] \cup {NoWaiter}
  /\ reply \in {"none", "ok", "failed"}
  /\ vector \in Stamps /\ annotated \in BOOLEAN /\ anchored \subseteq Generations
  /\ drift \in BOOLEAN /\ hurt \in BOOLEAN /\ interrupted \in BOOLEAN

Init ==
  /\ catalog = [archived |-> FALSE, bytes |-> 1, tags |-> 1, annotation |-> "none"]
  /\ news = <<>>
  /\ stream = "down"
  /\ lane = [l \in Lanes |-> <<>>] /\ doing = [l \in Lanes |-> NotStarted]
  /\ plan = NoPlan
  /\ drain = [w \in Planners |-> NoDrain] /\ chain = <<>>
  /\ workDone = 0 /\ workFailed = 0 /\ workWaiter = NoWaiter
  /\ reply = "none"
  /\ vector = NoVector /\ annotated = FALSE /\ anchored = {}
  /\ drift = FALSE /\ hurt = FALSE /\ interrupted = FALSE
  /\ spent = [what \in DOMAIN Limit |-> 0]

-------------------------------------------------------------------------------
(* The backend.  An event is published after its view, and in order.            *)

Changed(kind) ==
  [catalog EXCEPT !.archived = CASE kind = "archived" -> TRUE [] kind = "unarchived" -> FALSE [] OTHER -> @,
                  !.bytes = IF kind = "updated" THEN @ + 1 ELSE @,
                  !.tags = IF kind = "retagged" THEN @ + 1 ELSE @,
                  !.annotation = CASE kind = "added" -> "there" [] kind = "removed" -> "removed" [] OTHER -> @]

(* Left out: an archive of an archived resource, an unarchive of another. *)
Change(kind) ==
  /\ Spend("changes")
  /\ kind = "archived" => ~catalog.archived
  /\ kind = "unarchived" => catalog.archived
  /\ kind = "added" => catalog.annotation = "none"
  /\ kind = "removed" => catalog.annotation = "there"
  /\ catalog' = Changed(kind)
  /\ news' = Append(news, [kind |-> kind, archived |-> catalog.archived])
  /\ UNCHANGED <<stream, laneVars, plan, drainVars, reply, storeVars, drift, hurt, interrupted>>

(* The stream is that of the global bus, without a memory: what is published    *)
(* while it is not attached is lost.  History: what is lost before the first    *)
(* attach is in reconcile's listing of resources, if that is still to come; an  *)
(* update or an annotation of an archived resource is indexed like any other.   *)
Publish ==
  LET event == Head(news) IN
  /\ news # <<>> /\ news' = Tail(news)
  /\ IF stream = "attached"
     THEN /\ lane' = [lane EXCEPT !["resource"] = Append(@, [kind |-> event.kind, by |-> Live])]
          /\ drift' = (drift \/ (event.archived /\ event.kind \in {"updated", "added"}))
     ELSE /\ drift' = (drift \/ stream = "broken" \/ (stream = "detached" /\ plan.phase # "snapshot"))
          /\ UNCHANGED lane
  /\ UNCHANGED <<catalog, stream, doing, plan, drainVars, reply, storeVars, hurt, interrupted, spent>>

(* The stream opens with the smelter's channels: addChannels has only asked for  *)
(* it; or it opens again after a drop.                                          *)
Attach ==
  /\ stream \in {"detached", "broken"} /\ stream' = "attached"
  /\ UNCHANGED <<backendVars, laneVars, plan, drainVars, reply, storeVars, drift, hurt, interrupted, spent>>

Break ==
  /\ stream = "attached" /\ stream' = "broken" /\ Spend("troubles")
  /\ UNCHANGED <<backendVars, laneVars, plan, drainVars, reply, storeVars, drift, hurt, interrupted>>

ToCome == {news[i].kind : i \in DOMAIN news}

-------------------------------------------------------------------------------
(* Doing the items.                                                             *)

Item(l) == Head(lane[l])
Kind(l) == Item(l).kind
Embeds == {"updated", "unarchived", "embed"}
At(l, step) == lane[l] # <<>> /\ doing[l].step = step

Goto(l, step) == doing' = [doing EXCEPT ![l].step = step] /\ UNCHANGED <<lane, drainVars, hurt>>

GotoWith(l, step, bytes, tags) ==
  doing' = [doing EXCEPT ![l] = [step |-> step, bytes |-> bytes, tags |-> tags]] /\ UNCHANGED <<lane, drainVars, hurt>>

(* Slip for the runs: live events are counted as well. *)
NoteWorkDoneOfAll(by, failed) ==
  /\ workDone' = workDone + 1 /\ workFailed' = workFailed + failed
  /\ IF workWaiter # NoWaiter /\ workDone' >= workWaiter.target
     THEN drain' = [drain EXCEPT ![workWaiter.for].at = "active"] /\ workWaiter' = NoWaiter
     ELSE UNCHANGED <<drain, workWaiter>>

(* Slip for the runs: an item that failed is not done. *)
NoteWorkDoneWell(by, failed) ==
  IF by = Live \/ failed = 1 THEN workFailed' = workFailed + failed /\ UNCHANGED <<drain, workDone, workWaiter>>
  ELSE NoteWorkDoneOfAll(by, failed)

(* noteWorkDone, for planned items *)
NoteWorkDone(by, failed) ==
  IF by = Live THEN UNCHANGED <<drain, workDone, workFailed, workWaiter>>
  ELSE
  /\ workDone' = workDone + 1 /\ workFailed' = workFailed + failed
  /\ IF workWaiter # NoWaiter /\ workDone' >= workWaiter.target
     THEN drain' = [drain EXCEPT ![workWaiter.for].at = "active"] /\ workWaiter' = NoWaiter
     ELSE UNCHANGED <<drain, workWaiter>>

Ended(l, failed) ==
  /\ lane' = [lane EXCEPT ![l] = Tail(@)] /\ doing' = [doing EXCEPT ![l] = NotStarted]
  /\ NoteWorkDone(Item(l).by, failed)
  /\ hurt' = (hurt \/ (failed = 1 /\ Item(l).by = "rebuild"))
  /\ UNCHANGED chain

Done(l) == Ended(l, 0)

outsideVars == <<backendVars, stream, plan, reply, interrupted>>

(* safeProcessEvent: whatever is called throws, and that is the end of the item; *)
(* fetchEmbeddableText does not throw.                                          *)
Throws(l) ==
  /\ lane[l] # <<>> /\ ~(At(l, "start") /\ Kind(l) \in Embeds) /\ Spend("troubles")
  /\ Ended(l, 1) /\ drift' = TRUE
  /\ UNCHANGED <<outsideVars, storeVars>>

(* fetchEmbeddableText.  The extractor stores the anchored text of what it has  *)
(* read; that it could not is not told.                                         *)
FetchText(l) ==
  /\ At(l, "start") /\ Kind(l) \in Embeds
  /\ GotoWith(l, IF catalog.bytes \in Declined THEN "decline" ELSE "tags", catalog.bytes, 0)
  /\ \/ anchored' = anchored \cup {catalog.bytes} /\ UNCHANGED <<drift, spent>>
     \/ Spend("troubles") /\ drift' = TRUE /\ UNCHANGED anchored
  /\ UNCHANGED <<outsideVars, vector, annotated>>

(* After embedResource: what an unarchive goes on with. *)
Embedded(l) == IF Kind(l) = "unarchived" THEN Goto(l, "list") ELSE Done(l)

(* Content that is not available is no failure. *)
FetchUnavailable(l) ==
  /\ At(l, "start") /\ Kind(l) \in Embeds /\ Spend("troubles")
  /\ Embedded(l) /\ drift' = TRUE
  /\ UNCHANGED <<outsideVars, storeVars>>

Decline(l) ==
  /\ At(l, "decline")
  /\ vector' = NoVector /\ Embedded(l)
  /\ UNCHANGED <<outsideVars, annotated, anchored, drift, spent>>

ResolveEntityTypes(l) ==
  /\ At(l, "tags")
  /\ GotoWith(l, "upsert", doing[l].bytes, catalog.tags)
  /\ UNCHANGED <<outsideVars, storeVars, drift, spent>>

Upsert(l) ==
  /\ At(l, "upsert")
  /\ vector' = [bytes |-> doing[l].bytes, tags |-> doing[l].tags] /\ Embedded(l)
  /\ UNCHANGED <<outsideVars, annotated, anchored, drift, spent>>

(* handleResourceUnarchived goes on with the annotations. *)
ListAnnotations(l) ==
  /\ At(l, "list")
  /\ IF catalog.annotation = "there" THEN Goto(l, "annotate") ELSE Done(l)
  /\ UNCHANGED <<outsideVars, storeVars, drift, spent>>

(* indexAnnotation *)
IndexAnnotation(l) ==
  /\ At(l, "annotate") \/ (At(l, "start") /\ Kind(l) \in {"added", "embedAnnotation"})
  /\ annotated' = TRUE /\ Done(l)
  /\ UNCHANGED <<outsideVars, vector, anchored, drift, spent>>

(* History: an annotation purged because the listing lacked it, which has come  *)
(* back by an unarchive that is over.                                           *)
PurgesRestored(l) ==
  /\ Kind(l) = "purgeAnnotation" /\ plan.archived
  /\ catalog.annotation = "there" /\ ~catalog.archived /\ "unarchived" \notin ToCome
  /\ \A i \in DOMAIN lane["resource"] : lane["resource"][i].kind # "unarchived"

(* handleAnnotationRemoved *)
RemoveAnnotation(l) ==
  /\ At(l, "start") /\ Kind(l) \in {"removed", "purgeAnnotation"}
  /\ annotated' = FALSE /\ Done(l)
  /\ drift' = (drift \/ PurgesRestored(l))
  /\ UNCHANGED <<outsideVars, vector, anchored, spent>>

(* handleResourceArchived, in two calls *)
Archive(l) ==
  /\ At(l, "start") /\ Kind(l) = "archived"
  /\ vector' = NoVector /\ Goto(l, "unannotate")
  /\ UNCHANGED <<outsideVars, annotated, anchored, drift, spent>>

DeleteAnnotations(l) ==
  /\ At(l, "unannotate")
  /\ annotated' = FALSE /\ Done(l)
  /\ UNCHANGED <<outsideVars, vector, anchored, drift, spent>>

(* handleResourcePurge *)
Purge(l) ==
  /\ At(l, "start") /\ Kind(l) = "purge"
  /\ vector' = NoVector /\ Done(l)
  /\ UNCHANGED <<outsideVars, annotated, anchored, drift, spent>>

(* restampResource *)
ReadTags(l) ==
  /\ At(l, "start") /\ Kind(l) \in {"retagged", "restamp"}
  /\ GotoWith(l, "stamp", 0, catalog.tags)
  /\ UNCHANGED <<outsideVars, storeVars, drift, spent>>

Restamp(l) ==
  /\ At(l, "stamp")
  /\ vector' = (IF vector = NoVector THEN NoVector ELSE [vector EXCEPT !.tags = doing[l].tags]) /\ Done(l)
  /\ UNCHANGED <<outsideVars, annotated, anchored, drift, spent>>

(* reanchorResource: the second put of the anchored text is the strict one.     *)
ReadBytes(l) ==
  /\ At(l, "start") /\ Kind(l) = "reanchor"
  /\ IF catalog.bytes \in Declined THEN Done(l) ELSE GotoWith(l, "publish", catalog.bytes, 0)
  /\ UNCHANGED <<outsideVars, storeVars, drift, spent>>

PutAnchoredText(l) ==
  /\ At(l, "publish")
  /\ anchored' = anchored \cup {doing[l].bytes} /\ Done(l)
  /\ UNCHANGED <<outsideVars, vector, annotated, drift, spent>>

LaneStep(l) ==
  \/ FetchText(l) \/ Decline(l) \/ ResolveEntityTypes(l) \/ Upsert(l)
  \/ ListAnnotations(l) \/ IndexAnnotation(l) \/ RemoveAnnotation(l)
  \/ Archive(l) \/ DeleteAnnotations(l) \/ Purge(l)
  \/ ReadTags(l) \/ Restamp(l) \/ ReadBytes(l) \/ PutAnchoredText(l)

-------------------------------------------------------------------------------
(* drain: the items of a planner, wave by wave.                                 *)

processVars == <<backendVars, stream, storeVars, spent>>

Enqueue(w, work) ==
  /\ drain' = [drain EXCEPT ![w] = [NoDrain EXCEPT !.at = "queued", !.todo = work]]
  /\ chain' = Append(chain, w)
  /\ UNCHANGED <<workDone, workFailed, workWaiter>>

DrainStart(w) ==
  /\ drain[w].at = "queued" /\ Head(chain) = w
  /\ drain' = [drain EXCEPT ![w].at = "active", ![w].before = workFailed]
  /\ UNCHANGED <<processVars, laneVars, plan, chain, workDone, workFailed, workWaiter, reply, drift, hurt, interrupted>>

(* History: an item planned from a listing that events have overtaken; they are *)
(* in the lane before it, and no event to come undoes it.                       *)
Overtaken(item) ==
  LET turned == plan.archived # catalog.archived IN
  /\ item.by = "reconcile"
  /\ CASE item.kind = "purge" -> turned /\ {"unarchived", "updated"} \cap ToCome = {}
       [] item.kind = "embed" -> turned /\ "archived" \notin ToCome
       [] item.kind = "embedAnnotation" ->
            (turned \/ catalog.annotation = "removed") /\ {"archived", "removed"} \cap ToCome = {}
       [] OTHER -> FALSE

LaneOf(item) == IF item.kind = "purgeAnnotation" THEN "annotation" ELSE "resource"

DrainWave(w) ==
  LET todo == drain[w].todo
      n == IF Len(todo) < WaveSize THEN Len(todo) ELSE WaveSize
      wave == SubSeq(todo, 1, n)
  IN
  /\ drain[w].at = "active" /\ todo # <<>>
  /\ workWaiter' = [target |-> workDone + n, for |-> w]
  /\ lane' = [l \in Lanes |-> lane[l] \o Those(wave, {i \in 1 .. n : LaneOf(wave[i]) = l})]
  /\ drain' = [drain EXCEPT ![w].at = "waiting", ![w].todo = SubSeq(todo, n + 1, Len(todo))]
  /\ drift' = (drift \/ \E i \in 1 .. n : Overtaken(wave[i]))
  /\ UNCHANGED <<processVars, doing, plan, chain, workDone, workFailed, reply, hurt, interrupted>>

(* Slip for the runs: the failures of every drain so far. *)
DrainEndOfAll(w) ==
  /\ drain[w].at = "active" /\ drain[w].todo = <<>>
  /\ drain' = [drain EXCEPT ![w].at = "over", ![w].failures = workFailed]
  /\ chain' = Tail(chain)
  /\ UNCHANGED <<processVars, laneVars, plan, workDone, workFailed, workWaiter, reply, drift, hurt, interrupted>>

DrainEnd(w) ==
  /\ drain[w].at = "active" /\ drain[w].todo = <<>>
  /\ drain' = [drain EXCEPT ![w].at = "over", ![w].failures = workFailed - drain[w].before]
  /\ chain' = Tail(chain)
  /\ UNCHANGED <<processVars, laneVars, plan, workDone, workFailed, workWaiter, reply, drift, hurt, interrupted>>

-------------------------------------------------------------------------------
(* reconcile                                                                    *)

(* The three reads of the stores are made at once. *)
Snapshot(what) ==
  /\ plan.phase = "snapshot" /\ what \in plan.unread
  /\ plan' = CASE what = "vectors" -> [plan EXCEPT !.unread = @ \ {what}, !.vector = vector]
               [] what = "annotations" -> [plan EXCEPT !.unread = @ \ {what}, !.annotated = annotated]
               [] what = "anchors" -> [plan EXCEPT !.unread = @ \ {what}, !.anchored = anchored]
  /\ UNCHANGED <<processVars, laneVars, drainVars, reply, drift, hurt, interrupted>>

ListResources ==
  /\ plan.phase = "snapshot" /\ plan.unread = {}
  /\ plan' = [plan EXCEPT !.phase = "annotations", !.archived = catalog.archived,
                          !.bytes = catalog.bytes, !.tags = catalog.tags]
  /\ UNCHANGED <<processVars, laneVars, drainVars, reply, drift, hurt, interrupted>>

When(condition, kind) == IF condition THEN <<[kind |-> kind, by |-> "reconcile"]>> ELSE <<>>

(* Slip for the runs: vectors that are there are taken for current. *)
WorkForMissing(annotation) ==
  LET indexed == plan.vector.bytes # 0 IN
  When(plan.archived /\ indexed, "purge") \o When(~plan.archived /\ ~indexed, "embed")
  \o When(annotation /\ ~plan.annotated, "embedAnnotation")
  \o When(plan.annotated /\ ~annotation, "purgeAnnotation")

(* The difference of what is indexed and what should be. *)
Work(annotation) ==
  LET indexed == plan.vector.bytes # 0
      current == plan.vector.bytes = plan.bytes
  IN
  When(plan.archived /\ indexed, "purge")
  \o When(~plan.archived /\ ~current, "embed")
  \o When(~plan.archived /\ current /\ plan.vector.tags # plan.tags, "restamp")
  \o When(~plan.archived /\ current /\ plan.bytes \notin plan.anchored, "reanchor")
  \o When(annotation /\ ~plan.annotated, "embedAnnotation")
  \o When(plan.annotated /\ ~annotation, "purgeAnnotation")

ListAndPlan ==
  /\ plan.phase = "annotations"
  /\ plan' = [NoPlan EXCEPT !.phase = "drain", !.archived = plan.archived]
  /\ Enqueue("reconcile", Work(~plan.archived /\ catalog.annotation = "there"))
  /\ UNCHANGED <<processVars, laneVars, reply, drift, hurt, interrupted>>

ReconcileOver ==
  /\ plan.phase = "drain" /\ drain["reconcile"].at = "over"
  /\ plan' = [NoPlan EXCEPT !.phase = "done"]
  /\ UNCHANGED <<processVars, laneVars, drainVars, reply, drift, hurt, interrupted>>

Reconcile == (\E what \in plan.unread : Snapshot(what)) \/ ListResources \/ ListAndPlan \/ ReconcileOver

-------------------------------------------------------------------------------
(* rebuildAnchors.  The commands are taken one at a time.                       *)

Reanchor == <<[kind |-> "reanchor", by |-> "rebuild"]>>

RebuildCommand ==
  /\ stream = "attached" /\ drain["rebuild"].at = "idle" /\ Spend("rebuilds")
  /\ reply' = "none" /\ hurt' = FALSE /\ interrupted' = FALSE
  /\ \/ Enqueue("rebuild", Reanchor)
     \/ drain' = [drain EXCEPT !["rebuild"].at = "list"] /\ UNCHANGED <<chain, workDone, workFailed, workWaiter>>
  /\ UNCHANGED <<backendVars, stream, laneVars, plan, storeVars, drift>>

RebuildList ==
  /\ drain["rebuild"].at = "list"
  /\ Enqueue("rebuild", IF catalog.archived THEN <<>> ELSE Reanchor)
  /\ UNCHANGED <<processVars, laneVars, plan, reply, drift, hurt, interrupted>>

(* How the handler goes on: with its end, or with the catch.                    *)
Leaves(next) ==
  /\ drain' = [drain EXCEPT !["rebuild"] = [NoDrain EXCEPT !.at = next]]
  /\ UNCHANGED <<backendVars, stream, storeVars, laneVars, plan, chain, workDone, workFailed, workWaiter, drift, hurt>>

(* Who has asked takes the first answer. *)
Answered(answer) == IF reply = "none" THEN answer ELSE reply

RebuildListFails ==
  /\ drain["rebuild"].at = "list" /\ Spend("troubles")
  /\ interrupted' = TRUE /\ Leaves("sorry") /\ UNCHANGED reply

Verdict == IF drain["rebuild"].failures > 0 THEN "failed" ELSE "ok"

RebuildOver ==
  /\ drain["rebuild"].at = "over"
  /\ reply' = Answered(Verdict) /\ Leaves("idle")
  /\ UNCHANGED <<interrupted, spent>>

(* The emit of the answer is refused, which it does not tell, or it rejects,    *)
(* with the answer under way or not: it is inside the try.                      *)
RebuildUnanswered ==
  /\ drain["rebuild"].at = "over" /\ Spend("troubles")
  /\ interrupted' = TRUE
  /\ \/ Leaves("idle") /\ UNCHANGED reply
     \/ Leaves("sorry") /\ reply' \in {reply, Answered(Verdict)}

(* The catch emits -failed; that this fails as well is only logged.             *)
Apologise ==
  /\ drain["rebuild"].at = "sorry"
  /\ Leaves("idle") /\ reply' \in {reply, Answered("failed")}
  /\ UNCHANGED <<interrupted, spent>>

-------------------------------------------------------------------------------
(* start() asks for the stream, and reconcile begins at once.                   *)
StartUp ==
  /\ stream = "down" /\ stream' = "detached"
  /\ plan' = [NoPlan EXCEPT !.phase = "snapshot", !.unread = {"vectors", "annotations", "anchors"}]
  /\ drift' = FALSE
  /\ UNCHANGED <<backendVars, laneVars, drainVars, reply, storeVars, hurt, interrupted, spent>>

(* Also the end of a reconcile that could not read something.  The anchored     *)
(* text does not survive its container.                                         *)
Crash ==
  /\ stream # "down" /\ stream' = "down" /\ Spend("troubles")
  /\ lane' = [l \in Lanes |-> <<>>] /\ doing' = [l \in Lanes |-> NotStarted]
  /\ plan' = NoPlan /\ drain' = [w \in Planners |-> NoDrain] /\ chain' = <<>>
  /\ workDone' = 0 /\ workFailed' = 0 /\ workWaiter' = NoWaiter
  /\ anchored' \in {anchored, {}}
  /\ interrupted' = (interrupted \/ drain["rebuild"].at # "idle")
  /\ UNCHANGED <<backendVars, reply, vector, annotated, drift, hurt>>

Drain == \E w \in Planners : DrainStart(w) \/ DrainWave(w) \/ DrainEnd(w)
Rebuild == RebuildList \/ RebuildOver \/ Apologise

Next ==
  \/ \E kind \in EventKinds : Change(kind)
  \/ Publish
  \/ \E l \in Lanes : LaneStep(l) \/ FetchUnavailable(l) \/ Throws(l)
  \/ Drain \/ Reconcile
  \/ RebuildCommand \/ Rebuild \/ RebuildListFails \/ RebuildUnanswered
  \/ StartUp \/ Attach \/ Break \/ Crash

Spec == Init /\ [][Next]_vars

(* Calls to the stores, the provider and the bus are answered. *)
Advance == Drain \/ Reconcile \/ Rebuild \/ \E l \in Lanes : LaneStep(l)
FairSpec == Spec /\ WF_vars(Advance)

-------------------------------------------------------------------------------
AtRest ==
  /\ stream # "down" /\ plan.phase = "done" /\ news = <<>> /\ chain = <<>>
  /\ \A l \in Lanes : lane[l] = <<>>

(* When reconcile is over and nothing waits, the stores agree with the catalog, *)
(* however live events, reconcile's items, the rebuild's and crashes interleave *)
(* (smelter.ts:26-36): vectors of the current bytes and tags, nothing of an     *)
(* archived resource, and anchored text; except after a failure, an event lost  *)
(* by a stream that was down or, once the resources were listed, not yet up, an *)
(* update of an archived resource, or items planned from a listing that events  *)
(* overtook.                                                                    *)
StoresAgree ==
  AtRest /\ ~drift =>
    LET searchable == ~catalog.archived /\ catalog.bytes \notin Declined IN
    /\ vector = IF searchable THEN [bytes |-> catalog.bytes, tags |-> catalog.tags] ELSE NoVector
    /\ annotated <=> ~catalog.archived /\ catalog.annotation = "there"
    /\ searchable => catalog.bytes \in anchored

(* Each wave's waiter resolves when the wave's items have been processed, not   *)
(* before, although live events, failures and two planners share the counter    *)
(* (smelter.ts drain).                                                          *)
WavesComplete ==
  \A w \in Planners : drain[w].at # "waiting" =>
    \A l \in Lanes : \A i \in DOMAIN lane[l] : lane[l][i].by # w

(* A rebuild that skipped a resource does not say ok; it says failed, unless its *)
(* answer was lost or it died; and one whose own items all succeeded says failed *)
(* neither because of reconcile's items nor, unless a call of its own failed,   *)
(* for anything else (smelter.ts rebuildAnchors).                               *)
RebuildHonest ==
  /\ reply = "ok" => ~hurt
  /\ reply = "failed" => hurt \/ interrupted
  /\ drain["rebuild"].at = "idle" /\ hurt /\ ~interrupted => reply = "failed"

(* Reconcile and every rebuild come to an end: no waiter is left unresolved and *)
(* no planner waits for another for ever (smelter.ts workWaiter, drainChain).   *)
PlannersEnd ==
  /\ stream # "down" /\ plan.phase # "done" ~> stream = "down" \/ plan.phase = "done"
  /\ drain["rebuild"].at # "idle" ~> drain["rebuild"].at = "idle"
================================================================================
