------------------------------- MODULE EventStore -------------------------------
(* EventStore.appendEvent of one resource: persist the event (EventStorage),    *)
(* bring the resource's view up to date, enrich the event and publish it.       *)
(*                                                                              *)
(* packages/event-sourcing/src/event-store.ts, view-manager.ts,                 *)
(* views/view-materializer.ts, storage/view-storage.ts and the chain of         *)
(* packages/core/src/serialize-per-key.ts.                                      *)
(*                                                                              *)
(* A view is the sequence of the events folded into it plus the lastSequence    *)
(* stamp: what the reducers make of an event depends on which events were       *)
(* applied before it and how often, and on nothing else in this module.         *)
EXTENDS EventStorage, SequencesExt

VARIABLES
  view,        \* disk: the resource's view file
  chain,       \* memory: resourceChains, the tasks waiting for the view, in order
  held,        \* the view a task has computed and not yet saved
  stage,       \* how far a task is after its append returned
  published,   \* the events published on the event bus, in order
  overtaken    \* history: a full rebuild ran while other appends were under way

storageVars == vars
storeVars == <<view, chain, held, stage, published, overtaken>>
allVars == <<storageVars, storeVars>>

NoView == [exists |-> FALSE, applied |-> <<>>, stamp |-> 0]
View == [exists : BOOLEAN, applied : Seq(Tasks), stamp : Nat]

Pending == {"queued", "saving", "enriching"}

StoreTypeOK ==
  /\ TypeOK
  /\ view \in View
  /\ chain \in Seq(Tasks)
  /\ held \in [Tasks -> View]
  /\ stage \in [Tasks -> Pending \cup {"none", "published", "rejected", "dead"}]
  /\ published \in Seq(Tasks)
  /\ overtaken \in BOOLEAN

StoreInit ==
  /\ Init
  /\ view = NoView /\ chain = <<>> /\ held = [t \in Tasks |-> NoView]
  /\ stage = [t \in Tasks |-> "none"]
  /\ published = <<>> /\ overtaken = FALSE

Advance(t, s) == stage' = [stage EXCEPT ![t] = s]

(* getAllEvents followed by materializeFromEvents: every line, sorted by        *)
(* sequence number; the sort is stable, so equal numbers keep the file order.   *)
(* The files are read in one step.                                              *)
Positions == UNION {{<<f, i>> : i \in DOMAIN files[f]} : f \in present}

LineAt(p) == files[p[1]][p[2]]

Before(p, q) ==
  \/ LineAt(p).seq < LineAt(q).seq
  \/ LineAt(p).seq = LineAt(q).seq /\ (p[1] < q[1] \/ (p[1] = q[1] /\ p[2] < q[2]))

(* Slip for the runs: only the newest file is read. *)
ProjectionOfLastFile ==
  LET lines == IF present = {} THEN <<>> ELSE files[LastFile]
  IN  [exists |-> TRUE,
       applied |-> [k \in DOMAIN lines |-> lines[k].event],
       stamp |-> IF lines = <<>> THEN 0 ELSE Last(lines).seq]

(* How many lines sort before p, and p itself. *)
Rank(p) == Cardinality({q \in Positions : Before(q, p)}) + 1

Projection ==
  LET ordered == [k \in 1 .. Cardinality(Positions) |-> CHOOSE p \in Positions : Rank(p) = k]
  IN  [exists |-> TRUE,
       applied |-> [k \in DOMAIN ordered |-> LineAt(ordered[k]).event],
       stamp |-> IF Positions = {} THEN 0 ELSE LineAt(Last(ordered)).seq]

-------------------------------------------------------------------------------
(* The append returns and its continuation calls materializeResource, which     *)
(* links the task to the end of the resource's chain before it awaits.          *)
Persisted(t) ==
  /\ Stored(t)
  /\ chain' = Append(chain, t)
  /\ Advance(t, "queued")
  /\ UNCHANGED <<view, held, published, overtaken>>

AppendStep(t) ==
  /\ Begin(t) \/ InitializeResourceStream(t) \/ WriteEvent(t)
  /\ UNCHANGED storeVars

(* Slip for the runs: the stamp is the event's number, not the greatest.        *)
ApplyToViewLatest(t) ==
  /\ chain # <<>> /\ t = Head(chain) /\ stage[t] = "queued" /\ view.exists
  /\ held' = [held EXCEPT ![t] = [exists |-> TRUE, stamp |-> seq[t],
                                  applied |-> Append(view.applied, t)]]
  /\ Advance(t, "saving")
  /\ UNCHANGED <<storageVars, view, chain, published, overtaken>>

(* materializeIncremental, run by the head of the chain: fold the one event     *)
(* into the existing view ...                                                   *)
ApplyToView(t) ==
  /\ chain # <<>> /\ t = Head(chain) /\ stage[t] = "queued"
  /\ view.exists
  /\ held' = [held EXCEPT ![t] = [exists |-> TRUE,
                                  applied |-> Append(view.applied, t),
                                  stamp |-> Max({view.stamp, seq[t]})]]
  /\ Advance(t, "saving")
  /\ UNCHANGED <<storageVars, view, chain, published, overtaken>>

(* Slip for the runs: the rebuild does not wait for its turn.                   *)
RebuildViewAtOnce(t) ==
  /\ stage[t] = "queued" /\ ~view.exists
  /\ held' = [held EXCEPT ![t] = Projection]
  /\ Advance(t, "saving")
  /\ UNCHANGED <<storageVars, view, chain, published, overtaken>>

(* ... or, when there is none, rebuild it from the whole log.                   *)
RebuildView(t) ==
  /\ chain # <<>> /\ t = Head(chain) /\ stage[t] = "queued"
  /\ ~view.exists
  /\ held' = [held EXCEPT ![t] = Projection]
  /\ overtaken' = (overtaken \/ \E u \in Tasks \ {t} : pc[u] = "written" \/ stage[u] = "queued")
  /\ Advance(t, "saving")
  /\ UNCHANGED <<storageVars, view, chain, published>>

(* ViewStorage.save replaces the file by a rename; the next link of the chain   *)
(* starts whether this one succeeded or not.                                    *)
SaveView(t) ==
  /\ stage[t] = "saving"
  /\ view' = held[t]
  /\ held' = [held EXCEPT ![t] = NoView]
  /\ chain' = Tail(chain)
  /\ Advance(t, "enriching")
  /\ UNCHANGED <<storageVars, published, overtaken>>

(* Slip for the runs: a failed link breaks the chain.                           *)
ViewFailsForGood(t) ==
  /\ chain # <<>> /\ t = Head(chain) /\ stage[t] = "queued"
  /\ Advance(t, "rejected")
  /\ UNCHANGED <<storageVars, view, chain, held, published, overtaken>>

(* The view cannot be read or saved: appendEvent throws, the event stays in the *)
(* log, and nothing is published.                                               *)
ViewFails(t) ==
  /\ \/ chain # <<>> /\ t = Head(chain) /\ stage[t] = "queued"
     \/ stage[t] = "saving"
  /\ chain' = Tail(chain)
  /\ held' = [held EXCEPT ![t] = NoView]
  /\ Advance(t, "rejected")
  /\ UNCHANGED <<storageVars, view, published, overtaken>>

(* The view is saved, and then the storage URI index or the enrichment fails:   *)
(* appendEvent throws and nothing is published.                                 *)
FailsLate(t) ==
  /\ stage[t] = "enriching"
  /\ Advance(t, "rejected")
  /\ UNCHANGED <<storageVars, view, chain, held, published, overtaken>>

(* Enrichment reads the view (an await of its own for annotation events), then  *)
(* the event goes to its typed channel and to the resource's scoped one.        *)
Publish(t) ==
  /\ stage[t] = "enriching"
  /\ published' = Append(published, t)
  /\ Advance(t, "published")
  /\ UNCHANGED <<storageVars, view, chain, held, overtaken>>

(* Slip for the runs: the rebuild folds the log into the view that is there.    *)
RestartStoreOnTop ==
  /\ Restart
  /\ view' = [Projection EXCEPT !.applied = view.applied \o @]
  /\ chain' = <<>> /\ held' = [t \in Tasks |-> NoView]
  /\ stage' = [t \in Tasks |-> IF stage[t] \in Pending THEN "dead" ELSE stage[t]]
  /\ UNCHANGED <<published, overtaken>>

(* A restart ends in ViewManager.rebuildAll, before any request is served; a    *)
(* resource without events is skipped, and so is one whose log cannot be read   *)
(* or whose view cannot be saved: the error is logged and the old view stays.   *)
RestartStore ==
  /\ Restart
  /\ view' \in {view, IF Positions = {} THEN view ELSE Projection}
  /\ chain' = <<>>
  /\ stage' = [t \in Tasks |-> IF stage[t] \in Pending THEN "dead" ELSE stage[t]]
  /\ held' = [t \in Tasks |-> NoView]
  /\ UNCHANGED <<published, overtaken>>

Materialize(t) == ApplyToView(t) \/ RebuildView(t) \/ SaveView(t)

StoreStep(t) ==
  \/ AppendStep(t) \/ Persisted(t) \/ Materialize(t)
  \/ ViewFails(t) \/ FailsLate(t) \/ Publish(t)

StoreNext == (\E t \in Tasks : StoreStep(t)) \/ RestartStore

(* A call that has started runs on: each await is answered, if only by an       *)
(* error.  Nothing makes a caller call.                                         *)
Continue(t) ==
  \/ (InitializeResourceStream(t) \/ WriteEvent(t)) /\ UNCHANGED storeVars
  \/ Persisted(t) \/ Materialize(t) \/ ViewFails(t) \/ FailsLate(t) \/ Publish(t)

StoreSpec == StoreInit /\ [][StoreNext]_allVars
FairStoreSpec == StoreSpec /\ \A t \in Tasks : WF_allVars(Continue(t))

-------------------------------------------------------------------------------
(* Read-your-writes: whoever sees an event published finds it in the view.      *)
(* "Published" includes the event whose enrichment is reading the view now.     *)
ReadYourWrites ==
  ~createOverlap =>
    \A t \in Tasks : stage[t] \in {"enriching", "published"} => t \in ToSet(view.applied)

(* The log is the source of truth: the view holds no event the log lost.        *)
ViewFromLog == ~createOverlap => \A t \in ToSet(view.applied) : InLog(t)

(* No event is folded into the view twice, unless a full rebuild ran while      *)
(* another append stood between the log and the view: the rebuild already       *)
(* holds that event and its own turn applies it again.                          *)
AppliedOnce == ~overtaken => IsInjective(view.applied)

(* The parity stamp is the greatest number among the applied events.            *)
StampIsNewest ==
  view.exists /\ view.applied # <<>> =>
    view.stamp = Max({seq[t] : t \in ToSet(view.applied)})

(* A view, once there, never loses an event and its stamp never goes back.      *)
ViewGrows ==
  [][view.exists /\ ~createOverlap' =>
       /\ ToSet(view.applied) \subseteq ToSet(view'.applied)
       /\ view'.stamp >= view.stamp]_allVars

(* Every append that starts is answered or cut off by a crash, also when the    *)
(* view update of an earlier event in the chain failed.                         *)
Answered(t) == pc[t] \in {"failed", "dead"} \/ stage[t] \in {"published", "rejected", "dead"}
EveryAppendAnswered == \A t \in Tasks : pc[t] \in Active ~> Answered(t)

===============================================================================
