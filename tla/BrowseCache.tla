------------------------------ MODULE BrowseCache ------------------------------
(* One entry of a persisted browse cache, the annotation list of a resource:    *)
(* packages/sdk/src/cache.ts, the handlers of packages/sdk/src/namespaces/      *)
(* browse.ts and the bookmark of packages/sdk/src/cache-persister.ts, fed by    *)
(* the resource's events (EventFeed).                                           *)
(*                                                                              *)
(* A value is the set of events it shows, with 0 for the resource itself.  A    *)
(* fetch reads the view, which has every stored event (see EventStore).         *)
EXTENDS EventFeed, FiniteSets

CONSTANTS
  Bodies,          \* mark:body-updated, applied in place; other events invalidate
  MaxFetches,      \* bound: fetches at once
  MaxFailures,     \* bound: fetches that fail
  MaxReconnects,   \* bound: interruptions of the stream
  MaxReloads       \* bound: reloads and changes of the session

ASSUME BrowseCacheAssumption ==
  Bodies \subseteq Events /\ {MaxFetches, MaxFailures, MaxReconnects, MaxReloads} \subseteq Nat

VARIABLES
  replayed,        \* stream: the events that come by replay, from the log
  value,           \* memory: what store$ has for the entry, Absent if nothing
  fetch,           \* memory: the fetches that are out
  inflight,        \* memory: the fetch others join, NoFetch if there is none
  rehydrated,      \* memory: the value is from the disk and was not revalidated
  failed,          \* memory: the marker that a chain of fetches failed
  observer,        \* memory: what the observer that came last sees
  saving,          \* memory: a debounced save is pending
  pendingId,       \* memory: the event id that waits for a document to be saved
  document,        \* disk: the saved value
  bookmark,        \* disk: the event id the next session resumes from
  forgiven,        \* history: the events the code lost, until they are saved
  spent            \* history: the bounded things that have happened

streamVars == <<feedVars, replayed>>
fetchVars == <<fetch, inflight, rehydrated, failed>>
diskVars == <<document, bookmark>>
vars == <<streamVars, value, fetchVars, observer, saving, pendingId, diskVars, forgiven, spent>>

Absent == {}
Values == {Absent} \cup {{0} \cup S : S \in SUBSET Events}
NoFetch == 0
Fetches == 1 .. MaxFetches

(* first and retry: what runFetchSWR does if the fetch fails, start another or  *)
(* give up; neither for the caller of fetch.                                    *)
NoneOut == [stage |-> "free", snapshot |-> 0, first |-> FALSE, retry |-> FALSE]

Limit == [failures |-> MaxFailures, reconnects |-> MaxReconnects, reloads |-> MaxReloads]
Spend(what) == spent[what] < Limit[what] /\ spent' = [spent EXCEPT ![what] = @ + 1]

CacheTypeOK ==
  /\ stored \in 0 .. MaxEvents /\ heard \in Seq(Events) /\ excused \subseteq 1 .. stored
  /\ replayed \subseteq 1 .. stored
  /\ value \in Values /\ document \in Values
  /\ fetch \in [Fetches -> [stage : {"free", "asked", "read"}, snapshot : 0 .. MaxEvents,
                            first : BOOLEAN, retry : BOOLEAN]]
  /\ inflight \in Fetches \cup {NoFetch}
  /\ inflight # NoFetch => fetch[inflight].stage # "free"
  /\ rehydrated => value # Absent
  /\ failed \in BOOLEAN /\ saving \in BOOLEAN
  /\ observer \in {"none", "pending", "attached", "ready", "failed"}
  /\ pendingId \in 0 .. stored /\ bookmark \in 0 .. stored
  /\ forgiven \subseteq 1 .. stored

Init ==
  /\ FeedInit /\ stored = 0 /\ replayed = {}
  /\ value = Absent /\ fetch = [f \in Fetches |-> NoneOut] /\ inflight = NoFetch
  /\ rehydrated = FALSE /\ failed = FALSE /\ observer = "none"
  /\ saving = FALSE /\ pendingId = 0
  /\ document = Absent /\ bookmark = 0
  /\ forgiven = {} /\ spent = [what \in DOMAIN Limit |-> 0]

-------------------------------------------------------------------------------
(* The cache.                                                                   *)

(* runFetch, from the fetches fs and the one that is joined, with the handlers  *)
(* of its caller.                                                               *)
RunFetch(fs, joined, first, retry) ==
  IF joined # NoFetch
  THEN /\ fetch' = [fs EXCEPT ![joined].first = @ \/ first, ![joined].retry = @ \/ retry]
       /\ inflight' = joined
  ELSE \E g \in Fetches :
         /\ fs[g] = NoneOut /\ \A h \in Fetches : fs[h] = NoneOut => g <= h
         /\ fetch' = [fs EXCEPT ![g] = [NoneOut EXCEPT !.stage = "asked", !.first = first, !.retry = retry]]
         /\ inflight' = g

RunFetchSWR == rehydrated' = FALSE /\ RunFetch(fetch, inflight, TRUE, FALSE)

(* Slip for the runs: the fetch that is out is joined. *)
InvalidateJoining == failed' = FALSE /\ RunFetchSWR

(* invalidate: the fetch that is out is not trusted. *)
Invalidate == failed' = FALSE /\ rehydrated' = FALSE /\ RunFetch(fetch, NoFetch, TRUE, FALSE)

Chained == inflight # NoFetch /\ (fetch[inflight].first \/ fetch[inflight].retry)

(* An observer is served the value that is there at once.  Without one it       *)
(* waits; if the fetch that is out is an awaited one, it is only attached to    *)
(* it: nothing retries that fetch, or tells the observer that it failed.        *)
Observed(chain) ==
  observer' = IF value # Absent THEN "ready" ELSE IF chain \/ Chained THEN "pending" ELSE "attached"

(* A subscription to observe. *)
Subscribe ==
  /\ IF failed \/ rehydrated \/ (value = Absent /\ inflight = NoFetch)
     THEN failed' = FALSE /\ RunFetchSWR /\ Observed(TRUE)
     ELSE UNCHANGED fetchVars /\ Observed(FALSE)
  /\ UNCHANGED <<streamVars, value, saving, pendingId, diskVars, forgiven, spent>>

(* fetch, for one read. *)
Fresh ==
  /\ rehydrated' = FALSE
  /\ RunFetch(fetch, inflight, FALSE, FALSE)
  /\ UNCHANGED <<streamVars, value, failed, observer, saving, pendingId, diskVars, forgiven, spent>>

(* The backend reads the view. *)
ReadView(f) ==
  /\ fetch[f].stage = "asked"
  /\ fetch' = [fetch EXCEPT ![f].stage = "read", ![f].snapshot = stored]
  /\ UNCHANGED <<streamVars, value, inflight, rehydrated, failed, observer, saving, pendingId, diskVars, forgiven, spent>>

Without(f) == [fetch EXCEPT ![f] = NoneOut]

(* Slip for the runs: a fetch that is over is still joined. *)
ClearedNever(f) == inflight

Cleared(f) == IF inflight = f THEN NoFetch ELSE inflight

(* The answer replaces the value, whatever has been written meanwhile.          *)
(* Forgiven: events that were applied in place while the fetch was out; and all *)
(* that the answer lacks when the fetch was given up before.                    *)
Arrive(f) ==
  LET lacking == (Heard \cup excused) \ (1 .. fetch[f].snapshot) IN
  /\ fetch[f].stage = "read"
  /\ value' = 0 .. fetch[f].snapshot
  /\ fetch' = Without(f) /\ inflight' = Cleared(f)
  /\ failed' = FALSE /\ saving' = TRUE
  /\ observer' = IF observer = "none" THEN "none" ELSE "ready"
  /\ forgiven' = forgiven \cup (IF inflight = f THEN lacking \cap Bodies ELSE lacking)
  /\ UNCHANGED <<streamVars, rehydrated, pendingId, diskVars, spent>>

(* Forgiven: what a value lacks that nothing is going to replace. *)
GivenUp == forgiven' = IF inflight' = NoFetch THEN forgiven \cup ((1 .. stored) \ value) ELSE forgiven

Exhausts(f) == fetch[f].retry /\ value = Absent

(* Slip for the runs: an exhausted chain goes idle. *)
TellsNobody(f) == failed' = (failed \/ Exhausts(f)) /\ UNCHANGED observer

(* A chain that is exhausted and has no value to serve tells the observers. *)
Tells(f) ==
  /\ failed' = (failed \/ Exhausts(f))
  /\ observer' = IF Exhausts(f) /\ observer # "none" THEN "failed" ELSE observer

(* The request times out or is refused. *)
Fail(f) ==
  /\ fetch[f].stage # "free" /\ Spend("failures")
  /\ IF fetch[f].first
     THEN rehydrated' = FALSE /\ RunFetch(Without(f), Cleared(f), FALSE, TRUE)
     ELSE fetch' = Without(f) /\ inflight' = Cleared(f) /\ UNCHANGED rehydrated
  /\ Tells(f) /\ GivenUp
  /\ UNCHANGED <<streamVars, value, saving, pendingId, diskVars>>

-------------------------------------------------------------------------------
(* The events.                                                                  *)

(* The annotation as it was when the event was published. *)
InPlace(e) == (value \ Bodies) \cup {b \in Bodies : b <= e}

(* Forgiven: a replayed event has no annotation and changes nothing; the value  *)
(* is taken for a current one although it was not revalidated.                  *)
UpdateInPlace(e) ==
  IF e \in replayed
  THEN /\ UNCHANGED <<value, fetchVars, saving>>
       /\ forgiven' = forgiven \cup {e}
  ELSE IF value = Absent THEN UNCHANGED <<value, fetchVars, saving, forgiven>>
  ELSE /\ value' = InPlace(e) /\ saving' = TRUE
       /\ failed' = FALSE /\ rehydrated' = FALSE
       /\ forgiven' = forgiven \cup (IF rehydrated THEN excused \ value ELSE {})
       /\ UNCHANGED <<fetch, inflight>>

(* The event's id is kept for the bookmark after the handlers. *)
Hear(e) ==
  /\ FeedDeliver(e) /\ e \notin excused
  /\ IF e \in Bodies THEN UpdateInPlace(e) ELSE Invalidate /\ UNCHANGED <<value, saving, forgiven>>
  /\ pendingId' = e
  /\ UNCHANGED <<replayed, observer, diskVars, spent>>

Store ==
  /\ FeedStore
  /\ UNCHANGED <<replayed, value, fetchVars, observer, saving, pendingId, diskVars, forgiven, spent>>

(* There is a watermark to resume from; without one nothing is replayed or told. *)
Watermark == heard # <<>> \/ bookmark # 0

(* The stream breaks and resumes: what was missed is replayed from the log. *)
Reconnect ==
  /\ Watermark /\ Spend("reconnects")
  /\ replayed' = replayed \cup ((1 .. stored) \ Heard)
  /\ UNCHANGED <<feedVars, value, fetchVars, observer, saving, pendingId, diskVars, forgiven>>

(* The last event published so far; the others that are stored will come. *)
Published(p) == p \in 0 .. stored /\ Heard \cup excused \subseteq 1 .. p

(* ... or bus:resume-gap comes instead. *)
ResumeGap(p) ==
  /\ Watermark /\ Published(p) /\ Spend("reconnects")
  /\ excused' = (1 .. p) \ (Heard \ excused) /\ FeedExcuse
  /\ Invalidate
  /\ UNCHANGED <<replayed, value, observer, saving, pendingId, diskVars, forgiven>>

-------------------------------------------------------------------------------
(* The disk.                                                                    *)

(* persistencePending, the gate of the bookmark. *)
Quiet == inflight = NoFetch /\ ~saving

(* Slip for the runs: the bookmark goes with every document. *)
FlushAlways(open) ==
  IF pendingId # 0 THEN bookmark' = pendingId /\ pendingId' = 0 ELSE UNCHANGED <<bookmark, pendingId>>

(* coupledLastEventId, after a document was written. *)
Flush(open) ==
  IF open /\ pendingId # 0 THEN bookmark' = pendingId /\ pendingId' = 0 ELSE UNCHANGED <<bookmark, pendingId>>

Save ==
  /\ saving /\ saving' = FALSE
  /\ document' = value /\ forgiven' = forgiven \ value
  /\ Flush(inflight = NoFetch)
  /\ UNCHANGED <<streamVars, value, fetchVars, observer, spent>>

(* The document of another cache is written. *)
SaveOther ==
  /\ Flush(Quiet)
  /\ UNCHANGED <<streamVars, value, fetchVars, observer, saving, document, forgiven, spent>>

(* The next session starts from the disk.  With a bookmark the events after it  *)
(* are replayed; without one only new events come.                              *)
NewSession(doc, mark, p) ==
  /\ Published(p) /\ Spend("reloads")
  /\ document' = doc /\ bookmark' = mark /\ pendingId' = 0
  /\ value' = doc /\ rehydrated' = (doc # Absent)
  /\ fetch' = [f \in Fetches |-> NoneOut] /\ inflight' = NoFetch
  /\ failed' = FALSE /\ observer' = "none" /\ saving' = FALSE
  /\ replayed' = (IF mark = 0 THEN {} ELSE (mark + 1) .. stored) /\ heard' = <<>>
  /\ excused' = IF mark = 0 THEN 1 .. p ELSE 1 .. mark
  /\ UNCHANGED stored

Reload(p) == NewSession(document, bookmark, p) /\ UNCHANGED forgiven

(* dispose writes what is pending, cache after cache; other: a cache disposed   *)
(* later has something to write.  Forgiven: by then this cache has forgotten    *)
(* its fetches.                                                                 *)
Dispose(other, p) ==
  LET doc == IF saving THEN value ELSE document
      flushed == pendingId # 0 /\ ((saving /\ inflight = NoFetch) \/ other)
      mark == IF flushed THEN pendingId ELSE bookmark
  IN
  /\ NewSession(doc, mark, p)
  /\ forgiven' = forgiven \cup (IF other /\ inflight # NoFetch THEN (1 .. mark) \ doc ELSE {})

-------------------------------------------------------------------------------
FetchStep(f) == ReadView(f) \/ Arrive(f)

Next ==
  \/ Store \/ \E e \in Events : Hear(e)
  \/ Subscribe \/ Fresh \/ \E f \in Fetches : FetchStep(f) \/ Fail(f)
  \/ Save \/ SaveOther \/ Reconnect
  \/ \E p \in 0 .. MaxEvents : ResumeGap(p) \/ Reload(p) \/ \E other \in BOOLEAN : Dispose(other, p)

Spec == Init /\ [][Next]_vars

(* busRequest settles every request, with its timeout at the latest. *)
FairSpec == Spec /\ \A f \in Fetches : WF_vars(FetchStep(f))

-------------------------------------------------------------------------------
(* Every event has come or been excused, no fetch is out, the value is saved. *)
AtRest ==
  /\ observer # "none" /\ ~saving /\ value # Absent /\ Heard \cup excused = 1 .. stored
  /\ \A f \in Fetches : fetch[f].stage = "free"

(* At rest an observer sees every event, whether it was heard, replayed,        *)
(* announced as a gap or missed between sessions, and whatever fetches raced;   *)
(* except the events the code loses at the places marked Forgiven.              *)
FreshAtRest == AtRest => 1 .. stored \subseteq value \cup forgiven

(* The persisted bookmark never leads the persisted content                     *)
(* (namespaces/browse.ts persistenceSettled), with the same exceptions.         *)
BookmarkNeverLeads == document # Absent => 1 .. bookmark \subseteq document \cup forgiven

(* An observer does not wait for ever: its chain brings a value, or the failure *)
(* (cache.ts runFetchSWR, B14 and B15); unless it is only attached to a fetch   *)
(* that somebody else awaits.                                                   *)
Served == observer = "pending" ~> observer # "pending"

(* What namespaces/browse.ts:634 says of a resume without the exceptions: the   *)
(* events missed are replayed, and that is all the caches need.                 *)
ReplayReconciles == AtRest /\ excused = {} => replayed \cap Heard \subseteq value
================================================================================
