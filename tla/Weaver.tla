--------------------------------- MODULE Weaver ---------------------------------
(* The projection of one resource's events into the graph:                      *)
(* packages/make-meaning/src/weaver.ts.                                         *)
(*                                                                              *)
(* Events arrive live, from the catch-up at startup and again by redelivery.    *)
(* They wait in the resource's lane (burst buffer and concatMap) and are        *)
(* applied in runs.  The applied mark (lastProcessed) gates what arrives late   *)
(* and is saved as the checkpoint that the next catch-up starts from.           *)
(*                                                                              *)
(* Events are their sequence numbers.  A run is a part of a batch with events   *)
(* of one type, taken when its turn comes; where the burst buffer cuts batches  *)
(* depends on timers, so a run is any such beginning of the lane.               *)
(* Resources share nothing here, so one is modelled.                            *)
EXTENDS Integers, SequencesExt, Ascending

CONSTANTS
  MaxSeq,          \* bound: the events are 1 .. MaxSeq
  Additions,       \* mark:added, which no event applied later or earlier undoes
  Bodies,          \* mark:body-updated, whose fold catches its own errors
  Base,            \* the event that puts in the graph what an event changes; 0 for one that needs none
  Overtaking,      \* bound: events stored, or announced, after a later one
  MaxFailures,     \* bound: calls to the graph that fail
  MaxRepeats,      \* bound: events delivered again
  MaxMisses,       \* bound: events announced while the stream reconnects
  MaxRebuilds,     \* bound: rebuild commands
  MaxCrashes       \* bound: crashes of the weaver

Events == 1 .. MaxSeq

ASSUME EventsAssumption ==
  MaxSeq \in Nat /\ Additions \subseteq Events /\ Bodies \subseteq Events \ Additions

ASSUME BaseAssumption ==
  Base \in [Events -> Events \cup {0}] /\ \A e \in Events : Base[e] < e /\ (e \in Additions => Base[e] = 0)

ASSUME BoundsAssumption ==
  {Overtaking, MaxFailures, MaxRepeats, MaxMisses, MaxRebuilds, MaxCrashes} \subseteq Nat

VARIABLES
  stored,          \* backend: the events in the log
  announced,       \* backend: the events published on the bus
  up,              \* the weaver is running
  lane,            \* memory: events received and not yet applied
  run,             \* memory: the run being applied
  mark,            \* memory: lastProcessed, 0 when absent
  failed,          \* memory: failedSeqs
  checkpoint,      \* disk: the saved mark
  told,            \* backend: the highest mark signalled (WeaveProgress)
  landed,          \* graph: the events that are in it
  newest,          \* graph: the event applied last, additions aside
  catchup,         \* how far catchUp is, and the log it has read
  rebuild,         \* how far a rebuild is
  seen,            \* history: the events this weaver has received
  doubt,           \* history: the log and the graph may have come apart
  refolded,        \* history: the event over which an earlier one above the mark was applied
  crossed,         \* history: other events arrived during the rebuild
  spent            \* history: the bounded things that have happened

logVars == <<stored, announced>>
memoryVars == <<lane, run, mark, failed>>
graphVars == <<landed, newest>>
historyVars == <<seen, doubt, refolded, crossed, spent>>
vars == <<logVars, up, memoryVars, checkpoint, told, graphVars, catchup, rebuild, historyVars>>

NoRun == [todo |-> <<>>, top |-> 0, alone |-> FALSE]
NoRebuild == [at |-> "idle", todo |-> <<>>, log |-> {}, clean |-> TRUE]
NoCatchUp == [at |-> "no", log |-> {}]

Limit == [failures |-> MaxFailures, repeats |-> MaxRepeats, misses |-> MaxMisses,
          rebuilds |-> MaxRebuilds, crashes |-> MaxCrashes]
Spend(what) == spent[what] < Limit[what] /\ spent' = [spent EXCEPT ![what] = @ + 1]

TypeOK ==
  /\ stored \subseteq Events /\ announced \subseteq stored
  /\ up \in BOOLEAN
  /\ lane \in Seq(Events)
  /\ run \in [todo : Seq(Events), top : Events \cup {0}, alone : BOOLEAN]
  /\ {mark, checkpoint, told, newest} \subseteq Events \cup {0}
  /\ failed \subseteq stored /\ landed \subseteq stored /\ seen \subseteq stored
  /\ catchup \in [at : {"no", "load", "fetch", "push", "rebuild", "drain", "done"}, log : SUBSET Events]
  /\ rebuild \in [at : {"idle", "delete", "fetch", "apply"}, todo : Seq(Events),
                  log : SUBSET Events, clean : BOOLEAN]
  /\ {doubt, crossed} \subseteq BOOLEAN /\ refolded \in Events \cup {0}
  /\ spent \in [DOMAIN Limit -> Nat] /\ \A what \in DOMAIN Limit : spent[what] <= Limit[what]

Init ==
  /\ stored = {} /\ announced = {}
  /\ up = FALSE /\ lane = <<>> /\ run = NoRun /\ mark = 0 /\ failed = {}
  /\ checkpoint = 0 /\ told = 0
  /\ landed = {} /\ newest = 0
  /\ catchup = NoCatchUp /\ rebuild = NoRebuild
  /\ seen = {} /\ doubt = FALSE /\ refolded = 0 /\ crossed = FALSE
  /\ spent = [what \in DOMAIN Limit |-> 0]

-------------------------------------------------------------------------------
(* The event store.  Numbers are given out in order; appends may come into the  *)
(* log, and be announced, in another, and a failed append leaves a gap.         *)

(* History: an event is late if the weaver has had, read or told of that number *)
(* or a greater one.                                                            *)
Late(e) ==
  \E d \in seen \cup landed \cup catchup.log \cup rebuild.log \cup {mark, checkpoint, told} : d >= e

Overtakes(e, done) == Cardinality((1 .. (e - 1)) \ done) <= Overtaking

Store(e) ==
  /\ e \notin stored /\ Overtakes(e, stored)
  /\ stored' = stored \cup {e}
  /\ doubt' = (doubt \/ Late(e)) /\ crossed' = (crossed \/ Late(e))
  /\ UNCHANGED <<announced, up, memoryVars, checkpoint, told, graphVars, catchup, rebuild, seen, refolded, spent>>

(* History: of the events before those received, one has not been received; or  *)
(* an event the checkpoint covers comes before the checkpoint is loaded.        *)
OutOfOrder(received) ==
  \E e \in received :
    \/ \E d \in stored \ (seen \cup received) : mark < d /\ d < e
    \/ catchup.at = "load" /\ e <= checkpoint

Receive(events, received) ==
  /\ lane' = lane \o events
  /\ seen' = seen \cup received
  /\ doubt' = (doubt \/ OutOfOrder(received))
  /\ crossed' = (crossed \/ events # <<>>)

(* Slip for the runs: an event is published before it is in the log.            *)
UnannouncedOrUnstored == Events \ announced

(* The bus is global, so the stream has no memory of what a subscriber that is  *)
(* down, or reconnecting, did not get.                                          *)
Unannounced == stored \ announced

Announce(e) ==
  /\ e \in Unannounced /\ Overtakes(e, announced)
  /\ announced' = announced \cup {e}
  /\ \/ up /\ Receive(<<e>>, {e}) /\ spent' = spent
     \/ up /\ Spend("misses") /\ UNCHANGED <<lane, seen, doubt, crossed>>
     \/ ~up /\ UNCHANGED <<lane, seen, doubt, crossed, spent>>
  /\ UNCHANGED <<stored, up, run, mark, failed, checkpoint, told, graphVars, catchup, rebuild, refolded>>

(* Delivery is at least once. *)
Repeat(e) ==
  /\ up /\ e \in seen /\ Spend("repeats")
  /\ Receive(<<e>>, {e})
  /\ UNCHANGED <<logVars, up, run, mark, failed, checkpoint, told, graphVars, catchup, rebuild, refolded>>

-------------------------------------------------------------------------------
(* Applying events.                                                             *)

(* Slip for the runs: failures do not hold the mark.                            *)
CappedByNothing(e, fails) == e

(* noteApplied: never to or past an outstanding failure, and never back.        *)
Capped(e, fails) == IF fails = {} THEN e ELSE Min({e, Min(fails) - 1})

NoteApplied(e, fails) ==
  /\ mark' = Max({mark, Capped(e, fails)})
  /\ told' = IF mark' > mark THEN Max({told, mark'}) ELSE told

Fold(events) ==
  /\ landed' = landed \cup ToSet(events)
  /\ newest' = LET ordered == {i \in DOMAIN events : events[i] \notin Additions}
               IN  IF ordered = {} THEN newest ELSE events[Max(ordered)]

(* What e changes, the annotation or the resource, is not in the graph.         *)
Missing(e) == Base[e] # 0 /\ Base[e] \notin landed

(* safeApplyEvent: the event lands; or what it changes is missing, and the fold *)
(* does nothing and does not fail; or the graph throws and the failure is       *)
(* noted; or the graph throws and the body fold only logs it.                   *)
Applies(e) ==
  /\ ~Missing(e)
  /\ Fold(<<e>>)
  /\ failed' = failed \ {e}
  /\ UNCHANGED spent

Skips(e) ==
  /\ Missing(e)
  /\ failed' = failed \ {e}
  /\ UNCHANGED <<graphVars, spent>>

Throws(e) ==
  /\ e \notin Bodies /\ Spend("failures")
  /\ failed' = failed \cup {e}
  /\ UNCHANGED graphVars

Swallows(e) ==
  /\ e \in Bodies /\ Spend("failures")
  /\ failed' = failed \ {e}
  /\ UNCHANGED graphVars

Outcome(e) == Applies(e) \/ Skips(e) \/ Throws(e) \/ Swallows(e)

SameType(d, e) ==
  /\ d \in Additions <=> e \in Additions
  /\ d \in Bodies <=> e \in Bodies

(* Slip for the runs: no gate.                                                  *)
FreshOrNot(events) == events

(* The gate drops what is at or below the mark.                                 *)
Fresh(events) == Those(events, {i \in DOMAIN events : events[i] > mark})

(* An event that came alone, and not in a batch, is noted only if it was        *)
(* applied.                                                                     *)
StartRun ==
  /\ up /\ run = NoRun /\ lane # <<>>
  /\ \E n \in 1 .. Len(lane), alone \in BOOLEAN :
       LET fresh == Fresh(SubSeq(lane, 1, n))
       IN  /\ \A d, e \in ToSet(fresh) : SameType(d, e)
           /\ alone => n = 1
           /\ lane' = SubSeq(lane, n + 1, Len(lane))
           /\ run' = IF fresh = <<>> THEN NoRun
                     ELSE [todo |-> fresh, top |-> Max(ToSet(fresh)), alone |-> alone]
  /\ UNCHANGED <<logVars, up, mark, failed, checkpoint, told, graphVars, catchup, rebuild, historyVars>>

(* Slip for the runs: one failure is noted for the batch.                       *)
BatchFailedOnce == failed \cup {run.top}

(* Several additions are one call to the graph: all land, or none does.         *)
BatchFailed == failed \cup ToSet(run.todo)

Batched == Len(run.todo) > 1 /\ Head(run.todo) \in Additions

ApplyBatch ==
  /\ Batched
  /\ \/ Fold(run.todo) /\ failed' = failed \ ToSet(run.todo) /\ UNCHANGED spent
     \/ Spend("failures") /\ failed' = BatchFailed /\ UNCHANGED graphVars
  /\ run' = NoRun
  /\ NoteApplied(run.top, failed')
  /\ UNCHANGED <<logVars, up, lane, checkpoint, catchup, rebuild, seen, refolded, doubt, crossed>>

(* History: an event that is noted though it is neither in the graph nor known  *)
(* to have failed puts the mark in doubt.                                       *)
ApplyNext ==
  /\ run # NoRun /\ ~Batched
  /\ LET e == Head(run.todo)
         last == Tail(run.todo) = <<>>
     IN  /\ Outcome(e)
         /\ doubt' = (doubt \/ e \notin landed' \cup failed')
         /\ refolded' = IF newest' # e THEN refolded
                        ELSE IF mark < e /\ e < newest THEN Max({refolded, newest})
                        ELSE IF e >= refolded THEN 0 ELSE refolded
         /\ run' = IF last THEN NoRun ELSE [run EXCEPT !.todo = Tail(@)]
         /\ IF last /\ ~(run.alone /\ e \in failed')
              THEN NoteApplied(run.top, failed') ELSE UNCHANGED <<mark, told>>
  /\ UNCHANGED <<logVars, up, lane, checkpoint, catchup, rebuild, seen, crossed>>

(* flushCheckpoint, from the timer or after a rebuild command.  It writes a new *)
(* file and renames it, so the old checkpoint or the new one is there.          *)
Flush ==
  /\ up /\ checkpoint' = mark /\ checkpoint' # checkpoint
  /\ UNCHANGED <<logVars, up, memoryVars, told, graphVars, catchup, rebuild, historyVars>>

-------------------------------------------------------------------------------
(* catchUp, once the live subscription is attached.                             *)

CatchUpStep(from, to) == catchup.at = from /\ catchup' = [catchup EXCEPT !.at = to]

CatchUpLoad ==
  /\ CatchUpStep("load", "fetch")
  /\ mark' = Max({mark, checkpoint})
  /\ UNCHANGED <<logVars, up, lane, run, failed, checkpoint, told, graphVars, rebuild, historyVars>>

CatchUpFetch ==
  /\ catchup.at = "fetch" /\ catchup' = [at |-> "push", log |-> stored]
  /\ UNCHANGED <<logVars, up, memoryVars, checkpoint, told, graphVars, rebuild, historyVars>>

(* Slip for the runs: the event after the mark is left out.                     *)
GapAfterNext == {e \in catchup.log : e > mark + 1}

(* What lies above the mark, as it is now, goes into the lane. *)
Gap == {e \in catchup.log : e > mark}

CatchUpPush ==
  /\ CatchUpStep("push", "drain")
  /\ catchup.log # {} => mark <= Max(catchup.log)
  /\ Receive(Ascending(Gap), Gap)
  /\ UNCHANGED <<logVars, up, run, mark, failed, checkpoint, told, graphVars, rebuild, refolded, spent>>

(* A mark above the log is taken for a sign that the log was restored from an   *)
(* older copy: the mark is dropped and the resource rebuilt.  Live events that  *)
(* are applied while the log is being read have the same effect.                *)
CatchUpAhead ==
  /\ CatchUpStep("push", "rebuild")
  /\ catchup.log # {} /\ mark > Max(catchup.log)
  /\ rebuild.at = "idle"                          \* bound: one rebuild at a time
  /\ mark' = 0
  /\ rebuild' = [NoRebuild EXCEPT !.at = "delete"]
  /\ doubt' = TRUE
  /\ UNCHANGED <<logVars, up, lane, run, failed, checkpoint, told, graphVars, seen, refolded, crossed, spent>>

(* awaitParity gives up after a while, whatever the mark is.                    *)
CatchUpEnd ==
  /\ catchup.at = "drain" \/ (catchup.at = "rebuild" /\ rebuild.at = "idle")
  /\ catchup' = [catchup EXCEPT !.at = "done"]
  /\ checkpoint' = mark
  /\ UNCHANGED <<logVars, up, memoryVars, told, graphVars, rebuild, historyVars>>

-------------------------------------------------------------------------------
(* rebuildResource, on command, by reconcile, or by catchUp.  It does not go    *)
(* through the lane.                                                            *)

RebuildCommand ==
  /\ up /\ rebuild.at = "idle" /\ Spend("rebuilds")
  /\ rebuild' = [NoRebuild EXCEPT !.at = "delete"]
  /\ UNCHANGED <<logVars, up, memoryVars, checkpoint, told, graphVars, catchup, seen, refolded, doubt, crossed>>

(* That the resource could not be deleted is only logged. *)
RebuildDelete ==
  /\ rebuild.at = "delete" /\ rebuild' = [rebuild EXCEPT !.at = "fetch"]
  /\ (landed' = {} /\ newest' = 0) \/ UNCHANGED graphVars
  /\ doubt' = TRUE /\ crossed' = (lane # <<>> \/ run # NoRun)
  /\ UNCHANGED <<logVars, up, memoryVars, checkpoint, told, catchup, seen, refolded, spent>>

(* The log may be empty, or not be read: if catchUp waits for it, that is the    *)
(* end of the weaver, and a Crash.                                              *)
RebuildFetch ==
  /\ rebuild.at = "fetch"
  /\ \/ /\ stored # {} /\ spent' = spent
        /\ rebuild' = [at |-> "apply", todo |-> Ascending(stored), log |-> stored, clean |-> TRUE]
     \/ /\ stored = {} /\ spent' = spent
        /\ rebuild' = NoRebuild
     \/ /\ Spend("failures") /\ catchup.at # "rebuild"
        /\ rebuild' = NoRebuild
  /\ UNCHANGED <<logVars, up, memoryVars, checkpoint, told, graphVars, catchup, seen, refolded, doubt, crossed>>

(* The mark moves after a clean rebuild, one in which no event failed.  History: *)
(* one in which every event landed, too, and nothing else was applied, ends     *)
(* every doubt.                                                                 *)
RebuildApply ==
  /\ rebuild.at = "apply"
  /\ LET e == Head(rebuild.todo)
         last == Tail(rebuild.todo) = <<>>
         clean == rebuild.clean /\ e \notin failed'
     IN  /\ Outcome(e)
         /\ rebuild' = IF last THEN NoRebuild
                       ELSE [rebuild EXCEPT !.todo = Tail(@), !.clean = clean]
         /\ IF last /\ clean THEN NoteApplied(Max(rebuild.log), failed') ELSE UNCHANGED <<mark, told>>
         /\ crossed' = (crossed \/ spent' # spent \/ Missing(e))
         /\ doubt' = (doubt /\ ~(last /\ clean /\ ~crossed'))
         /\ refolded' = IF doubt' THEN refolded ELSE 0
  /\ UNCHANGED <<logVars, up, lane, run, checkpoint, catchup, seen>>

-------------------------------------------------------------------------------
StartUp ==
  /\ ~up /\ up' = TRUE
  /\ catchup' = [NoCatchUp EXCEPT !.at = "load"]
  /\ UNCHANGED <<logVars, memoryVars, checkpoint, told, graphVars, rebuild, historyVars>>

(* A crash, an error that catchUp passes on, or, after a Flush, a stop. *)
Crash ==
  /\ up /\ up' = FALSE /\ Spend("crashes")
  /\ lane' = <<>> /\ run' = NoRun /\ mark' = 0 /\ failed' = {}
  /\ catchup' = NoCatchUp /\ rebuild' = NoRebuild /\ seen' = {}
  /\ UNCHANGED <<logVars, checkpoint, told, graphVars, doubt, refolded, crossed>>

LaneStep == StartRun \/ ApplyBatch \/ ApplyNext
CatchUp == CatchUpLoad \/ CatchUpFetch \/ CatchUpPush \/ CatchUpAhead \/ CatchUpEnd
Rebuild == RebuildDelete \/ RebuildFetch \/ RebuildApply

Next ==
  \/ \E e \in Events : Store(e) \/ Announce(e) \/ Repeat(e)
  \/ LaneStep \/ Flush \/ CatchUp \/ RebuildCommand \/ Rebuild
  \/ StartUp \/ Crash

Spec == Init /\ [][Next]_vars

(* Calls to the graph and requests over the bus are answered.  Nothing restarts *)
(* a weaver that died.                                                          *)
FairSpec ==
  /\ Spec /\ WF_vars(LaneStep) /\ WF_vars(CatchUp) /\ WF_vars(Rebuild)
  /\ \A e \in Events : WF_vars(Announce(e))

-------------------------------------------------------------------------------
(* The mark, the checkpoint and what readers were told are honest: what is at   *)
(* or below them is in the graph, through failures, redeliveries and crashes,   *)
(* as long as events arrive in the order of their numbers and none is counted   *)
(* that did nothing: a body update whose fold failed, or an event whose base is *)
(* missing.  After a rebuild that nothing disturbed they are honest again.      *)
Claimed == Max({mark, checkpoint, told})
MarkSound == ~doubt => \A e \in stored : e <= Claimed => e \in landed

(* ... and no older event has been applied over a newer one the mark claims,    *)
(* except one that a failure held above the mark: the gate lets it through when *)
(* it is delivered again, over what was applied meanwhile.                      *)
NewestAtMark ==
  ~doubt /\ refolded = 0 /\ run = NoRun =>
    \A e \in stored \ Additions : e <= mark => newest >= e

(* An event that is stored while a weaver runs, or before, is in the graph or   *)
(* known to have failed in the end.                                             *)
Handled(e) == e \in landed \cup failed \/ doubt \/ ~up
EveryEventHandled == \A e \in Events : e \in stored ~> Handled(e)

(* catchUp runs after the subscription is attached "so nothing falls in the     *)
(* gap": when it is through, what it read is in the graph.                      *)
NothingInTheGap ==
  catchup.at \in {"drain", "done"} /\ lane = <<>> /\ run = NoRun /\ rebuild.at = "idle"
    => catchup.log \subseteq landed

===============================================================================
