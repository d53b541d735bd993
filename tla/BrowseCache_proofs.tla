--------------------------- MODULE BrowseCache_proofs ---------------------------
(* Proofs about BrowseCache, for any number of events, fetches, failures,        *)
(* interruptions and sessions: the variables keep their types, an observer at    *)
(* rest sees every event, and the bookmark on the disk does not lead the         *)
(* document, but for the events the model marks as forgiven.                     *)
EXTENDS BrowseCache, TLAPS

(* What the entry has been told of.                                              *)
Known == Heard \cup excused

(* The stream leaves no hole.                                                    *)
KnownIsPrefix == \E k \in 0 .. stored : Known = 1 .. k

(* The bookmark, and what waits to become it, cover only known events.           *)
BookmarkKnown == 1 .. bookmark \subseteq Known /\ 1 .. pendingId \subseteq Known

(* A value from the disk that was not revalidated: nothing has been asked for,   *)
(* nobody looks, and what was heard has changed nothing.  Without a bookmark     *)
(* nothing was heard.                                                            *)
RehydratedIdle ==
  rehydrated =>
    /\ observer = "none" /\ ~saving /\ inflight = NoFetch
    /\ \A f \in Fetches : fetch[f].stage = "free"
    /\ bookmark = 0 => heard = <<>> /\ pendingId = 0 /\ replayed = {}
    /\ bookmark # 0 => Known \subseteq value \cup forgiven

(* The fetch that is joined was asked after every event but those applied in     *)
(* place: any other gives it up.                                                 *)
JoinedIsFresh ==
  inflight # NoFetch /\ fetch[inflight].stage = "read" =>
    Known \ (1 .. fetch[inflight].snapshot) \subseteq Bodies

(* A value that no fetch is going to replace shows what is known.                *)
SettledShowsKnown ==
  value # Absent /\ inflight = NoFetch /\ ~rehydrated => Known \subseteq value \cup forgiven

(* Every value shows what the bookmark covers.                                   *)
ValueCoversBookmark == value # Absent => 1 .. bookmark \subseteq value \cup forgiven

(* What is not about to be saved is on the disk.                                 *)
SavedIsShown == ~saving => document = value

CacheInv ==
  /\ KnownIsPrefix /\ BookmarkKnown
  /\ RehydratedIdle /\ JoinedIsFresh /\ SettledShowsKnown
  /\ ValueCoversBookmark /\ SavedIsShown /\ BookmarkNeverLeads

-------------------------------------------------------------------------------
(* Facts about the feed and the fetches.                                         *)

FetchStates == [stage : {"free", "asked", "read"}, snapshot : 0 .. MaxEvents,
                first : BOOLEAN, retry : BOOLEAN]

LEMMA ConstantsTyped ==
  /\ MaxEvents \in Nat /\ Bodies \subseteq 1 .. MaxEvents
  /\ MaxFetches \in Nat /\ NoFetch \notin Fetches
  BY MaxEventsAssumption, BrowseCacheAssumption DEF Events, NoFetch, Fetches

LEMMA NoneOutTyped ==
  NoneOut \in FetchStates /\ NoneOut.stage = "free"
  BY ConstantsTyped DEF NoneOut, FetchStates

LEMMA DeliveredIsHeard ==
  ASSUME heard \in Seq(Events), NEW e \in Events, FeedDeliver(e)
  PROVE  heard' \in Seq(Events) /\ heard' # <<>> /\ Heard' = Heard \cup {e} /\ Known' = Known \cup {e}
<1>1. /\ heard' = Append(heard, e) /\ excused' = excused
  BY DEF FeedDeliver
<1>2. /\ heard' \in Seq(Events) /\ DOMAIN heard' = 1 .. (Len(heard) + 1)
      /\ DOMAIN heard = 1 .. Len(heard) /\ Len(heard) \in Nat
      /\ heard'[Len(heard) + 1] = e
      /\ \A i \in DOMAIN heard : heard'[i] = heard[i]
  BY <1>1
<1>3. Heard' = Heard \cup {e}
  <2>1. \A i \in DOMAIN heard' : heard'[i] \in Heard \cup {e}
    BY <1>2 DEF Heard
  <2>2. \A i \in DOMAIN heard : i \in DOMAIN heard' /\ heard[i] = heard'[i]
    BY <1>2
  <2>3. Len(heard) + 1 \in DOMAIN heard' /\ e = heard'[Len(heard) + 1]
    BY <1>2
  <2>4. QED
    BY <2>1, <2>2, <2>3 DEF Heard
<1>4. heard' # <<>>
  BY <1>2
<1>5. QED
  BY <1>1, <1>2, <1>3, <1>4 DEF Known

(* The fetch that is run is the joined one, as it was, or a new one.             *)
LEMMA RunFetchRuns ==
  ASSUME NEW fs \in [Fetches -> FetchStates], NEW joined \in Fetches \cup {NoFetch},
         NEW first \in BOOLEAN, NEW retry \in BOOLEAN,
         joined # NoFetch => fs[joined].stage # "free",
         RunFetch(fs, joined, first, retry)
  PROVE  /\ fetch' \in [Fetches -> FetchStates]
         /\ inflight' \in Fetches /\ inflight' # NoFetch
         /\ fetch'[inflight'].stage # "free"
         /\ joined = NoFetch => fetch'[inflight'].stage = "asked"
         /\ joined # NoFetch => /\ inflight' = joined
                                /\ fetch'[joined].stage = fs[joined].stage
                                /\ fetch'[joined].snapshot = fs[joined].snapshot
<1>1. CASE joined # NoFetch
  <2>1. joined \in Fetches
    BY <1>1
  <2>2. fetch' = [fs EXCEPT ![joined].first = @ \/ first, ![joined].retry = @ \/ retry]
        /\ inflight' = joined
    BY <1>1 DEF RunFetch
  <2> DEFINE a == fs[joined].first \/ first
             b == fs[joined].retry \/ retry
             r == [[fs[joined] EXCEPT !.first = a] EXCEPT !.retry = b]
  <2>3. fetch' = [fs EXCEPT ![joined] = r]
    BY <2>1, <2>2 DEF FetchStates
  <2>4. a \in BOOLEAN /\ b \in BOOLEAN
    OBVIOUS
  <2>5. fs[joined] \in FetchStates
    BY <2>1
  <2> HIDE DEF a, b
  <2>6. r \in FetchStates /\ r.stage = fs[joined].stage /\ r.snapshot = fs[joined].snapshot
    BY <2>4, <2>5 DEF FetchStates
  <2> HIDE DEF r
  <2>7. QED
    BY <1>1, <2>1, <2>2, <2>3, <2>6
<1>2. CASE joined = NoFetch
  <2>1. PICK g \in Fetches :
          /\ fetch' = [fs EXCEPT ![g] = [NoneOut EXCEPT !.stage = "asked", !.first = first, !.retry = retry]]
          /\ inflight' = g
    BY <1>2 DEF RunFetch
  <2> DEFINE r == [NoneOut EXCEPT !.stage = "asked", !.first = first, !.retry = retry]
  <2>2. r \in FetchStates /\ r.stage = "asked"
    BY NoneOutTyped DEF FetchStates
  <2>3. fetch' = [fs EXCEPT ![g] = r]
    BY <2>1
  <2> HIDE DEF r
  <2>4. QED
    BY <1>2, <2>1, <2>2, <2>3, ConstantsTyped
<1>3. QED
  BY <1>1, <1>2

(* What the operations of the cache leave behind.                                *)
LEMMA InvalidateAsks ==
  ASSUME CacheTypeOK, Invalidate
  PROVE  /\ fetch' \in [Fetches -> FetchStates]
         /\ inflight' \in Fetches /\ inflight' # NoFetch
         /\ fetch'[inflight'].stage = "asked"
         /\ rehydrated' = FALSE /\ failed' = FALSE
<1>1. fetch \in [Fetches -> FetchStates]
  BY DEF CacheTypeOK, FetchStates
<1>2. RunFetch(fetch, NoFetch, TRUE, FALSE) /\ rehydrated' = FALSE /\ failed' = FALSE
  BY DEF Invalidate
<1>3. QED
  BY <1>1, <1>2, RunFetchRuns

LEMMA JoinRuns ==
  ASSUME CacheTypeOK, NEW first \in BOOLEAN, RunFetch(fetch, inflight, first, FALSE)
  PROVE  /\ fetch' \in [Fetches -> FetchStates]
         /\ inflight' \in Fetches /\ inflight' # NoFetch
         /\ fetch'[inflight'].stage # "free"
         /\ inflight = NoFetch => fetch'[inflight'].stage = "asked"
         /\ inflight # NoFetch => /\ inflight' = inflight
                                  /\ fetch'[inflight].stage = fetch[inflight].stage
                                  /\ fetch'[inflight].snapshot = fetch[inflight].snapshot
<1>1. fetch \in [Fetches -> FetchStates] /\ inflight \in Fetches \cup {NoFetch}
      /\ (inflight # NoFetch => fetch[inflight].stage # "free")
  BY DEF CacheTypeOK, FetchStates
<1>2. QED
  BY <1>1, RunFetchRuns

LEMMA WithoutTyped ==
  ASSUME CacheTypeOK, NEW f \in Fetches
  PROVE  /\ Without(f) \in [Fetches -> FetchStates]
         /\ Cleared(f) \in Fetches \cup {NoFetch}
         /\ Cleared(f) # NoFetch => /\ Cleared(f) = inflight /\ inflight # f
                                    /\ Without(f)[inflight] = fetch[inflight]
                                    /\ Without(f)[inflight].stage # "free"
<1>1. fetch \in [Fetches -> FetchStates] /\ inflight \in Fetches \cup {NoFetch}
      /\ (inflight # NoFetch => fetch[inflight].stage # "free")
  BY DEF CacheTypeOK, FetchStates
<1>2. QED
  BY <1>1, NoneOutTyped DEF Without, Cleared

LEMMA ValuesAre ==
  ASSUME NEW v \in Values, v # Absent
  PROVE  /\ v = {0} \cup (v \cap Events)
         /\ \A e : (v \ Bodies) \cup {b \in Bodies : b <= e} \in Values
<1>1. PICK S \in SUBSET Events : v = {0} \cup S
  BY DEF Values
<1>2. 0 \notin Events /\ Bodies \subseteq Events
  BY ConstantsTyped DEF Events
<1>3. ASSUME NEW e PROVE (v \ Bodies) \cup {b \in Bodies : b <= e} \in Values
  <2> DEFINE T == (S \ Bodies) \cup {b \in Bodies : b <= e}
  <2>1. T \in SUBSET Events
    BY <1>2
  <2>2. (v \ Bodies) \cup {b \in Bodies : b <= e} = {0} \cup T
    BY <1>1, <1>2
  <2>3. QED
    BY <2>1, <2>2 DEF Values
<1>4. QED
  BY <1>1, <1>2, <1>3

LEMMA PrefixIsValue ==
  ASSUME NEW n \in 0 .. MaxEvents
  PROVE  0 .. n \in Values /\ 0 .. n # Absent /\ 0 .. n = {0} \cup (1 .. n)
<1>1. 0 .. n = {0} \cup (1 .. n) /\ 1 .. n \in SUBSET Events
  BY ConstantsTyped DEF Events
<1>2. QED
  BY <1>1 DEF Values, Absent

-------------------------------------------------------------------------------
(* Types.                                                                        *)

FetchTyped ==
  /\ fetch \in [Fetches -> FetchStates]
  /\ inflight \in Fetches \cup {NoFetch}
  /\ inflight # NoFetch => fetch[inflight].stage # "free"

ValueTyped ==
  /\ value \in Values /\ (rehydrated => value # Absent)
  /\ failed \in BOOLEAN /\ saving \in BOOLEAN
  /\ observer \in {"none", "pending", "attached", "ready", "failed"}

FeedTyped == stored \in 0 .. MaxEvents /\ heard \in Seq(Events) /\ excused \subseteq 1 .. stored

DiskTyped ==
  /\ replayed \subseteq 1 .. stored /\ forgiven \subseteq 1 .. stored
  /\ document \in Values /\ pendingId \in 0 .. stored /\ bookmark \in 0 .. stored

LEMMA TypeParts == CacheTypeOK <=> FeedTyped /\ DiskTyped /\ FetchTyped /\ ValueTyped
  BY DEF CacheTypeOK, FetchStates, FetchTyped, ValueTyped, FeedTyped, DiskTyped

LEMMA TypePartsNext ==
  ASSUME FeedTyped', DiskTyped', FetchTyped', ValueTyped'
  PROVE  CacheTypeOK'
  BY DEF CacheTypeOK, FetchStates, FetchTyped, ValueTyped, FeedTyped, DiskTyped

LEMMA KnownStored ==
  ASSUME KnownIsPrefix, FeedTyped
  PROVE  Known \subseteq 1 .. stored
  BY DEF KnownIsPrefix, FeedTyped

LEMMA StoreTyped ==
  ASSUME CacheTypeOK, Store
  PROVE  CacheTypeOK'
<1>1. /\ stored' = stored + 1 /\ stored < MaxEvents
      /\ UNCHANGED <<heard, excused, replayed, value, fetchVars, observer, saving, pendingId, diskVars, forgiven>>
  BY DEF Store, FeedStore
<1>2. stored' \in 0 .. MaxEvents /\ 1 .. stored \subseteq 1 .. stored' /\ 0 .. stored \subseteq 0 .. stored'
  BY <1>1, TypeParts, ConstantsTyped DEF FeedTyped
<1>3. FeedTyped' /\ DiskTyped'
  BY <1>1, <1>2, TypeParts DEF FeedTyped, DiskTyped, diskVars
<1>4. FetchTyped' /\ ValueTyped'
  BY <1>1, TypeParts DEF FetchTyped, ValueTyped, fetchVars
<1>5. QED
  BY <1>3, <1>4, TypeParts, TypePartsNext

LEMMA HearTyped ==
  ASSUME CacheTypeOK, NEW e \in Events, Hear(e)
  PROVE  CacheTypeOK'
<1>1. /\ FeedDeliver(e) /\ pendingId' = e /\ e \in 1 .. stored
      /\ UNCHANGED <<stored, excused, replayed, observer, diskVars>>
  BY DEF Hear, FeedDeliver
<1>2. FeedTyped'
  BY <1>1, TypeParts, DeliveredIsHeard DEF FeedTyped
<1>3. forgiven' \subseteq 1 .. stored => DiskTyped'
  BY <1>1, TypeParts DEF FeedTyped, DiskTyped, diskVars
<1>4. CASE e \notin Bodies
  <2>1. Invalidate /\ UNCHANGED <<value, saving, forgiven>>
    BY <1>4 DEF Hear
  <2>2. FetchTyped'
    BY <2>1, InvalidateAsks DEF FetchTyped
  <2>3. ValueTyped'
    BY <1>1, <2>1, InvalidateAsks, TypeParts DEF ValueTyped
  <2>4. QED
    BY <1>2, <1>3, <2>1, <2>2, <2>3, TypeParts, TypePartsNext DEF DiskTyped
<1>5. CASE e \in Bodies /\ (e \in replayed \/ value = Absent)
  <2>1. /\ UNCHANGED <<value, fetchVars, saving>>
        /\ forgiven' = forgiven \cup {e} \/ forgiven' = forgiven
    BY <1>5 DEF Hear, UpdateInPlace
  <2>2. FetchTyped' /\ ValueTyped'
    BY <1>1, <2>1, TypeParts DEF FetchTyped, ValueTyped, fetchVars
  <2>3. QED
    BY <1>1, <1>2, <1>3, <2>1, <2>2, TypeParts, TypePartsNext DEF DiskTyped
<1>6. CASE e \in Bodies /\ e \notin replayed /\ value # Absent
  <2>1. /\ value' = InPlace(e) /\ saving' = TRUE
        /\ failed' = FALSE /\ rehydrated' = FALSE
        /\ forgiven' = forgiven \cup (IF rehydrated THEN excused \ value ELSE {})
        /\ UNCHANGED <<fetch, inflight>>
    BY <1>6 DEF Hear, UpdateInPlace
  <2>2. value' \in Values
    BY <1>6, <2>1, ValuesAre, TypeParts DEF ValueTyped, InPlace
  <2>3. FetchTyped' /\ ValueTyped'
    BY <1>1, <2>1, <2>2, TypeParts DEF FetchTyped, ValueTyped
  <2>4. forgiven' \subseteq 1 .. stored
    BY <2>1, TypeParts DEF FeedTyped, DiskTyped
  <2>5. QED
    BY <1>2, <1>3, <2>3, <2>4, TypeParts, TypePartsNext
<1>7. QED
  BY <1>4, <1>5, <1>6

LEMMA SubscribeTyped ==
  ASSUME CacheTypeOK, Subscribe
  PROVE  CacheTypeOK'
<1>1. UNCHANGED <<streamVars, value, saving, pendingId, diskVars, forgiven>>
  BY DEF Subscribe
<1>2. observer' \in {"ready", "pending", "attached"}
  BY DEF Subscribe, Observed
<1>3. FeedTyped' /\ DiskTyped'
  BY <1>1, TypeParts DEF FeedTyped, DiskTyped, streamVars, feedVars, diskVars
<1>4. CASE failed' = FALSE /\ RunFetchSWR
  <2>1. FetchTyped'
    BY <1>4, JoinRuns DEF RunFetchSWR, FetchTyped
  <2>2. ValueTyped'
    BY <1>1, <1>2, <1>4, TypeParts DEF RunFetchSWR, ValueTyped
  <2>3. QED
    BY <1>3, <2>1, <2>2, TypeParts, TypePartsNext
<1>5. CASE UNCHANGED fetchVars
  BY <1>1, <1>2, <1>3, <1>5, TypeParts, TypePartsNext DEF FetchTyped, ValueTyped, fetchVars
<1>6. QED
  BY <1>4, <1>5 DEF Subscribe

LEMMA FreshTyped ==
  ASSUME CacheTypeOK, Fresh
  PROVE  CacheTypeOK'
<1>1. FetchTyped'
  BY JoinRuns DEF Fresh, FetchTyped
<1>2. FeedTyped' /\ DiskTyped' /\ ValueTyped'
  BY TypeParts DEF Fresh, FeedTyped, DiskTyped, ValueTyped, streamVars, feedVars, diskVars
<1>3. QED
  BY <1>1, <1>2, TypeParts, TypePartsNext

LEMMA ReadViewTyped ==
  ASSUME CacheTypeOK, NEW f \in Fetches, ReadView(f)
  PROVE  CacheTypeOK'
<1> DEFINE r == [fetch[f] EXCEPT !.stage = "read", !.snapshot = stored]
<1>1. fetch \in [Fetches -> FetchStates] /\ stored \in 0 .. MaxEvents
  BY TypeParts DEF FetchTyped, FeedTyped
<1>2. fetch' = [fetch EXCEPT ![f] = r] /\ inflight' = inflight
  BY <1>1 DEF ReadView, FetchStates
<1>3. r \in FetchStates /\ r.stage = "read"
  BY <1>1 DEF FetchStates
<1> HIDE DEF r
<1>4. FetchTyped'
  BY <1>1, <1>2, <1>3, TypeParts DEF FetchTyped
<1>5. FeedTyped' /\ DiskTyped' /\ ValueTyped'
  BY TypeParts DEF ReadView, FeedTyped, DiskTyped, ValueTyped, streamVars, feedVars, diskVars
<1>6. QED
  BY <1>4, <1>5, TypeParts, TypePartsNext

LEMMA ArriveTyped ==
  ASSUME CacheTypeOK, KnownIsPrefix, NEW f \in Fetches, Arrive(f)
  PROVE  CacheTypeOK'
<1>1. /\ value' = 0 .. fetch[f].snapshot
      /\ fetch' = Without(f) /\ inflight' = Cleared(f)
      /\ failed' = FALSE /\ saving' = TRUE
      /\ observer' \in {"none", "ready"}
      /\ UNCHANGED <<streamVars, rehydrated, pendingId, diskVars>>
  BY DEF Arrive
<1>2. fetch[f].snapshot \in 0 .. MaxEvents
  BY TypeParts DEF FetchTyped, FetchStates
<1>3. value' \in Values /\ value' # Absent
  BY <1>1, <1>2, PrefixIsValue
<1>4. FetchTyped'
  BY <1>1, WithoutTyped DEF FetchTyped
<1>5. ValueTyped'
  BY <1>1, <1>3, TypeParts DEF ValueTyped
<1>6. forgiven' \subseteq 1 .. stored
  BY TypeParts, KnownStored DEF Arrive, Known, DiskTyped
<1>7. FeedTyped' /\ DiskTyped'
  BY <1>1, <1>6, TypeParts DEF FeedTyped, DiskTyped, streamVars, feedVars, diskVars
<1>8. QED
  BY <1>4, <1>5, <1>7, TypeParts, TypePartsNext

LEMMA FailTyped ==
  ASSUME CacheTypeOK, NEW f \in Fetches, Fail(f)
  PROVE  CacheTypeOK'
<1>1. UNCHANGED <<streamVars, value, saving, pendingId, diskVars>>
  BY DEF Fail
<1>2. FetchTyped' /\ (rehydrated' => rehydrated)
  <2>1. CASE fetch[f].first
    BY <2>1, WithoutTyped, RunFetchRuns DEF Fail, FetchTyped
  <2>2. CASE ~fetch[f].first
    BY <2>2, WithoutTyped DEF Fail, FetchTyped
  <2>3. QED
    BY <2>1, <2>2
<1>3. rehydrated' => value' # Absent
  BY <1>1, <1>2, TypeParts DEF ValueTyped
<1>4. failed' \in BOOLEAN /\ observer' \in {"none", "pending", "attached", "ready", "failed"}
  BY TypeParts DEF Fail, Tells, ValueTyped
<1>5. ValueTyped'
  BY <1>1, <1>3, <1>4, TypeParts DEF ValueTyped
<1>6. forgiven' \subseteq 1 .. stored
  BY TypeParts DEF Fail, GivenUp, DiskTyped
<1>7. FeedTyped' /\ DiskTyped'
  BY <1>1, <1>6, TypeParts DEF FeedTyped, DiskTyped, streamVars, feedVars, diskVars
<1>8. QED
  BY <1>2, <1>5, <1>7, TypePartsNext

LEMMA SaveTyped ==
  ASSUME CacheTypeOK, Save \/ SaveOther
  PROVE  CacheTypeOK'
<1>1. /\ UNCHANGED <<streamVars, value, fetchVars, observer>>
      /\ saving' \in BOOLEAN
      /\ document' = value \/ document' = document
      /\ forgiven' = forgiven \ value \/ forgiven' = forgiven
  BY TypeParts DEF Save, SaveOther, ValueTyped
<1>2. \E open \in BOOLEAN : Flush(open)
  BY DEF Save, SaveOther, Quiet
<1>3. bookmark' \in {bookmark, pendingId} /\ pendingId' \in {0, pendingId}
  BY <1>2 DEF Flush
<1>4. FeedTyped' /\ FetchTyped' /\ ValueTyped'
  BY <1>1, TypeParts DEF FeedTyped, FetchTyped, ValueTyped, streamVars, feedVars, fetchVars
<1>5. DiskTyped'
  BY <1>1, <1>3, TypeParts DEF FeedTyped, DiskTyped, ValueTyped, streamVars, feedVars
<1>6. QED
  BY <1>4, <1>5, TypePartsNext

LEMMA ReconnectTyped ==
  ASSUME CacheTypeOK, Reconnect
  PROVE  CacheTypeOK'
<1>1. /\ UNCHANGED <<feedVars, value, fetchVars, observer, saving, pendingId, diskVars, forgiven>>
      /\ replayed' = replayed \cup ((1 .. stored) \ Heard)
  BY DEF Reconnect
<1>2. FeedTyped' /\ DiskTyped' /\ FetchTyped' /\ ValueTyped'
  BY <1>1, TypeParts DEF FeedTyped, DiskTyped, FetchTyped, ValueTyped, feedVars, fetchVars, diskVars
<1>3. QED
  BY <1>2, TypePartsNext

LEMMA ResumeGapTyped ==
  ASSUME CacheTypeOK, NEW p, ResumeGap(p)
  PROVE  CacheTypeOK'
<1>1. /\ stored' = stored /\ heard' = heard /\ excused' \subseteq 1 .. stored /\ Invalidate
      /\ UNCHANGED <<replayed, value, observer, saving, pendingId, diskVars, forgiven>>
  BY DEF ResumeGap, FeedExcuse
<1>2. FeedTyped' /\ DiskTyped'
  BY <1>1, TypeParts DEF FeedTyped, DiskTyped, diskVars
<1>3. FetchTyped' /\ ValueTyped'
  BY <1>1, InvalidateAsks, TypeParts DEF FetchTyped, ValueTyped
<1>4. QED
  BY <1>2, <1>3, TypePartsNext

LEMMA NewSessionTyped ==
  ASSUME CacheTypeOK, NEW doc \in Values, NEW id \in 0 .. stored, NEW p, NewSession(doc, id, p),
         forgiven' \subseteq 1 .. stored
  PROVE  CacheTypeOK'
<1>1. /\ p \in 0 .. stored /\ stored' = stored /\ heard' = <<>>
      /\ document' = doc /\ bookmark' = id /\ pendingId' = 0
      /\ value' = doc /\ rehydrated' = (doc # Absent)
      /\ fetch' = [f \in Fetches |-> NoneOut] /\ inflight' = NoFetch
      /\ failed' = FALSE /\ observer' = "none" /\ saving' = FALSE
      /\ replayed' = (IF id = 0 THEN {} ELSE (id + 1) .. stored)
      /\ excused' = IF id = 0 THEN 1 .. p ELSE 1 .. id
  BY DEF NewSession, Published
<1>2. stored \in Nat
  BY TypeParts, ConstantsTyped DEF FeedTyped
<1>3. FeedTyped'
  <2>1. excused' \subseteq 1 .. stored
    BY <1>1, <1>2
  <2>2. heard' \in Seq(Events)
    BY <1>1
  <2>3. QED
    BY <1>1, <2>1, <2>2, TypeParts DEF FeedTyped
<1>4. DiskTyped'
  <2>1. replayed' \subseteq 1 .. stored
    BY <1>1, <1>2
  <2>2. QED
    BY <1>1, <1>2, <2>1 DEF DiskTyped
<1>5. FetchTyped'
  BY <1>1, NoneOutTyped DEF FetchTyped
<1>6. ValueTyped'
  BY <1>1 DEF ValueTyped
<1>7. QED
  BY <1>3, <1>4, <1>5, <1>6, TypePartsNext

LEMMA ReloadTyped ==
  ASSUME CacheTypeOK, NEW p, Reload(p)
  PROVE  CacheTypeOK'
  BY NewSessionTyped, TypeParts DEF Reload, DiskTyped

(* What a disposed cache writes.                                                 *)
DisposedDocument == IF saving THEN value ELSE document
DisposedBookmark(other) ==
  IF pendingId # 0 /\ ((saving /\ inflight = NoFetch) \/ other) THEN pendingId ELSE bookmark

LEMMA DisposeIs ==
  ASSUME NEW other, NEW p, Dispose(other, p)
  PROVE  /\ NewSession(DisposedDocument, DisposedBookmark(other), p)
         /\ forgiven' = forgiven \cup (IF other /\ inflight # NoFetch
                                       THEN (1 .. DisposedBookmark(other)) \ DisposedDocument ELSE {})
  BY DEF Dispose, DisposedDocument, DisposedBookmark

LEMMA DisposeTyped ==
  ASSUME CacheTypeOK, NEW other, NEW p, Dispose(other, p)
  PROVE  CacheTypeOK'
<1>1. DisposedDocument \in Values /\ DisposedBookmark(other) \in 0 .. stored
  BY TypeParts DEF DisposedDocument, DisposedBookmark, DiskTyped, ValueTyped
<1>2. 1 .. DisposedBookmark(other) \subseteq 1 .. stored
  BY <1>1, TypeParts, ConstantsTyped DEF FeedTyped
<1>3. forgiven' \subseteq 1 .. stored
  BY <1>2, DisposeIs, TypeParts DEF DiskTyped
<1>4. QED
  BY <1>1, <1>3, DisposeIs, NewSessionTyped

LEMMA InitTyped ==
  ASSUME Init
  PROVE  CacheTypeOK
<1>1. /\ stored = 0 /\ heard = <<>> /\ excused = {} /\ replayed = {}
      /\ value = Absent /\ fetch = [f \in Fetches |-> NoneOut] /\ inflight = NoFetch
      /\ rehydrated = FALSE /\ failed = FALSE /\ observer = "none"
      /\ saving = FALSE /\ pendingId = 0 /\ document = Absent /\ bookmark = 0 /\ forgiven = {}
  BY DEF Init, FeedInit
<1>2. FeedTyped /\ DiskTyped
  BY <1>1, ConstantsTyped DEF FeedTyped, DiskTyped, Values
<1>3. FetchTyped /\ ValueTyped
  BY <1>1, NoneOutTyped DEF FetchTyped, ValueTyped, Values
<1>4. QED
  BY <1>2, <1>3, TypeParts

LEMMA StutterTyped ==
  ASSUME CacheTypeOK, UNCHANGED vars
  PROVE  CacheTypeOK'
<1>1. FeedTyped' /\ DiskTyped' /\ FetchTyped' /\ ValueTyped'
  BY TypeParts DEF vars, FeedTyped, DiskTyped, FetchTyped, ValueTyped,
                   streamVars, feedVars, fetchVars, diskVars
<1>2. QED
  BY <1>1, TypePartsNext

LEMMA StepTyped ==
  ASSUME CacheTypeOK, KnownIsPrefix, [Next]_vars
  PROVE  CacheTypeOK'
  BY StoreTyped, HearTyped, SubscribeTyped, FreshTyped, ReadViewTyped, ArriveTyped, FailTyped,
     SaveTyped, ReconnectTyped, ResumeGapTyped, ReloadTyped, DisposeTyped, StutterTyped
     DEF Next, FetchStep

-------------------------------------------------------------------------------
(* The invariant.                                                                *)

IInv == CacheTypeOK /\ CacheInv

LEMMA KnownSame ==
  ASSUME UNCHANGED <<heard, excused>>
  PROVE  Known' = Known
  BY DEF Known, Heard

(* What an event delivered in order makes known.                                 *)
LEMMA KnownGrows ==
  ASSUME IInv, NEW e \in Events, Hear(e)
  PROVE  Known' = 1 .. e /\ Known = 1 .. (e - 1) /\ e \in 1 .. stored /\ e \in Nat
<1>1. /\ FeedDeliver(e) /\ e \notin excused
      /\ e \in (1 .. stored) \ Heard /\ \A d \in 1 .. (e - 1) : d \in Known
  BY DEF Hear, FeedDeliver, Heard, Known
<1>2. PICK k \in 0 .. stored : Known = 1 .. k
  BY DEF IInv, CacheInv, KnownIsPrefix
<1>3. stored \in Nat /\ e \in Nat /\ k \in Nat /\ e >= 1
  BY <1>1, <1>2, TypeParts, ConstantsTyped DEF IInv, FeedTyped
<1>4. e \notin 1 .. k
  BY <1>1, <1>2 DEF Known
<1>5. k = e - 1
  BY <1>1, <1>2, <1>3, <1>4
<1>6. Known' = Known \cup {e}
  BY <1>1, DeliveredIsHeard, TypeParts DEF IInv, FeedTyped
<1>7. QED
  BY <1>1, <1>2, <1>3, <1>5, <1>6

LEMMA StoreKeeps ==
  ASSUME IInv, Store
  PROVE  CacheInv'
<1>1. /\ stored' = stored + 1
      /\ UNCHANGED <<heard, excused, replayed, value, fetchVars, observer, saving, pendingId, diskVars, forgiven>>
  BY DEF Store, FeedStore
<1>2. Known' = Known
  BY <1>1, KnownSame
<1>3. KnownIsPrefix'
  BY <1>1, <1>2, TypeParts, ConstantsTyped DEF IInv, CacheInv, KnownIsPrefix, FeedTyped
<1>4. BookmarkKnown' /\ RehydratedIdle' /\ JoinedIsFresh'
  BY <1>1, <1>2 DEF IInv, CacheInv, BookmarkKnown, RehydratedIdle, JoinedIsFresh, fetchVars, diskVars
<1>5. SettledShowsKnown' /\ ValueCoversBookmark' /\ SavedIsShown' /\ BookmarkNeverLeads'
  BY <1>1, <1>2 DEF IInv, CacheInv, SettledShowsKnown, ValueCoversBookmark, SavedIsShown,
                    BookmarkNeverLeads, fetchVars, diskVars
<1>6. QED
  BY <1>3, <1>4, <1>5 DEF CacheInv

LEMMA HearKeeps ==
  ASSUME IInv, NEW e \in Events, Hear(e)
  PROVE  CacheInv'
<1>1. /\ pendingId' = e /\ UNCHANGED <<stored, excused, replayed, observer, diskVars>>
  BY DEF Hear, FeedDeliver
<1>2. Known' = 1 .. e /\ Known = 1 .. (e - 1) /\ e \in 1 .. stored /\ e \in Nat
  BY KnownGrows
<1>3. Known' = Known \cup {e}
  BY <1>2
<1>4. KnownIsPrefix' /\ BookmarkKnown'
  BY <1>1, <1>2, <1>3 DEF IInv, CacheInv, KnownIsPrefix, BookmarkKnown, diskVars
<1>5. CASE e \notin Bodies
  <2>1. Invalidate /\ UNCHANGED <<value, saving, forgiven>>
    BY <1>5 DEF Hear
  <2>2. inflight' # NoFetch /\ fetch'[inflight'].stage = "asked" /\ rehydrated' = FALSE
    BY <2>1, InvalidateAsks DEF IInv
  <2>3. RehydratedIdle' /\ JoinedIsFresh' /\ SettledShowsKnown'
    BY <2>2 DEF RehydratedIdle, JoinedIsFresh, SettledShowsKnown
  <2>4. ValueCoversBookmark' /\ SavedIsShown' /\ BookmarkNeverLeads'
    BY <1>1, <2>1 DEF IInv, CacheInv, ValueCoversBookmark, SavedIsShown, BookmarkNeverLeads, diskVars
  <2>5. QED
    BY <1>4, <2>3, <2>4 DEF CacheInv
<1>6. CASE e \in Bodies /\ (e \in replayed \/ value = Absent)
  <2>1. /\ UNCHANGED <<value, fetchVars, saving>>
        /\ forgiven \subseteq forgiven'
        /\ e \in replayed => e \in forgiven'
    BY <1>6 DEF Hear, UpdateInPlace
  <2>2. RehydratedIdle'
    <3>1. SUFFICES ASSUME rehydrated PROVE RehydratedIdle'
      BY <2>1 DEF RehydratedIdle, fetchVars
    <3>2. e \in replayed
      BY <1>6, <3>1, TypeParts DEF IInv, ValueTyped
    <3>3. bookmark # 0
      BY <3>1, <3>2 DEF IInv, CacheInv, RehydratedIdle
    <3>4. QED
      BY <1>1, <1>3, <2>1, <3>1, <3>2, <3>3 DEF IInv, CacheInv, RehydratedIdle, fetchVars, diskVars
  <2>3. JoinedIsFresh'
    BY <1>3, <1>6, <2>1 DEF IInv, CacheInv, JoinedIsFresh, fetchVars
  <2>4. SettledShowsKnown'
    BY <1>3, <1>6, <2>1 DEF IInv, CacheInv, SettledShowsKnown, fetchVars
  <2>5. ValueCoversBookmark' /\ SavedIsShown' /\ BookmarkNeverLeads'
    BY <1>1, <2>1 DEF IInv, CacheInv, ValueCoversBookmark, SavedIsShown, BookmarkNeverLeads, diskVars
  <2>6. QED
    BY <1>4, <2>2, <2>3, <2>4, <2>5 DEF CacheInv
<1>7. CASE e \in Bodies /\ e \notin replayed /\ value # Absent
  <2>1. /\ value' = (value \ Bodies) \cup {b \in Bodies : b <= e} /\ saving' = TRUE
        /\ rehydrated' = FALSE
        /\ forgiven' = forgiven \cup (IF rehydrated THEN excused \ value ELSE {})
        /\ UNCHANGED <<fetch, inflight>>
    BY <1>7 DEF Hear, UpdateInPlace, InPlace
  <2>2. \A d \in 1 .. e : d \in value \cup forgiven' => d \in value' \cup forgiven'
    BY <1>2, <2>1
  <2>3. JoinedIsFresh' /\ RehydratedIdle' /\ SavedIsShown'
    BY <1>3, <1>7, <2>1 DEF IInv, CacheInv, JoinedIsFresh, RehydratedIdle, SavedIsShown
  <2>4. SettledShowsKnown'
    <3>1. SUFFICES ASSUME inflight = NoFetch
                   PROVE  Known' \subseteq value' \cup forgiven'
      BY <2>1 DEF SettledShowsKnown
    <3>2. Known \subseteq value \cup forgiven'
      <4>1. CASE ~rehydrated
        BY <1>7, <2>1, <3>1, <4>1 DEF IInv, CacheInv, SettledShowsKnown
      <4>2. CASE rehydrated /\ bookmark # 0
        BY <2>1, <4>2 DEF IInv, CacheInv, RehydratedIdle
      <4>3. CASE rehydrated /\ bookmark = 0
        <5>1. heard = <<>>
          BY <4>3 DEF IInv, CacheInv, RehydratedIdle
        <5>2. Heard = {}
          BY <5>1 DEF Heard
        <5>3. QED
          BY <2>1, <4>3, <5>2 DEF Known
      <4>4. QED
        BY <4>1, <4>2, <4>3
    <3>3. e \in value'
      BY <1>2, <1>7, <2>1
    <3>4. QED
      BY <1>2, <1>3, <2>2, <3>2, <3>3
  <2>5. ValueCoversBookmark'
    <3>1. bookmark' = bookmark /\ 1 .. bookmark \subseteq Known
      BY <1>1 DEF IInv, CacheInv, BookmarkKnown, diskVars
    <3>2. 1 .. bookmark \subseteq value \cup forgiven
      BY <1>7 DEF IInv, CacheInv, ValueCoversBookmark
    <3>3. QED
      BY <1>2, <1>3, <2>1, <2>2, <3>1, <3>2 DEF ValueCoversBookmark
  <2>6. BookmarkNeverLeads'
    BY <1>1, <2>1 DEF IInv, CacheInv, BookmarkNeverLeads, diskVars
  <2>7. QED
    BY <1>4, <2>3, <2>4, <2>5, <2>6 DEF CacheInv
<1>8. QED
  BY <1>5, <1>6, <1>7

(* A step that only asks for a fetch, or joins the one that is out.              *)
LEMMA AskingKeeps ==
  ASSUME IInv, NEW first \in BOOLEAN, RunFetch(fetch, inflight, first, FALSE), rehydrated' = FALSE,
         UNCHANGED <<streamVars, value, saving, pendingId, diskVars, forgiven>>
  PROVE  CacheInv'
<1>1. /\ inflight' # NoFetch
      /\ inflight = NoFetch => fetch'[inflight'].stage = "asked"
      /\ inflight # NoFetch => /\ inflight' = inflight
                               /\ fetch'[inflight].stage = fetch[inflight].stage
                               /\ fetch'[inflight].snapshot = fetch[inflight].snapshot
  BY JoinRuns DEF IInv
<1>2. Known' = Known
  BY KnownSame DEF streamVars, feedVars
<1>3. KnownIsPrefix' /\ BookmarkKnown'
  BY <1>2 DEF IInv, CacheInv, KnownIsPrefix, BookmarkKnown, streamVars, feedVars, diskVars
<1>4. RehydratedIdle' /\ SettledShowsKnown'
  BY <1>1 DEF RehydratedIdle, SettledShowsKnown
<1>5. JoinedIsFresh'
  BY <1>1, <1>2 DEF IInv, CacheInv, JoinedIsFresh
<1>6. ValueCoversBookmark' /\ SavedIsShown' /\ BookmarkNeverLeads'
  BY DEF IInv, CacheInv, ValueCoversBookmark, SavedIsShown, BookmarkNeverLeads, diskVars
<1>7. QED
  BY <1>3, <1>4, <1>5, <1>6 DEF CacheInv

LEMMA SubscribeKeeps ==
  ASSUME IInv, Subscribe
  PROVE  CacheInv'
<1>1. UNCHANGED <<streamVars, value, saving, pendingId, diskVars, forgiven>>
  BY DEF Subscribe
<1>2. CASE RunFetchSWR
  BY <1>1, <1>2, AskingKeeps DEF RunFetchSWR
<1>3. CASE ~rehydrated /\ UNCHANGED fetchVars
  <2>1. Known' = Known
    BY <1>1, KnownSame DEF streamVars, feedVars
  <2>2. KnownIsPrefix' /\ BookmarkKnown' /\ RehydratedIdle' /\ JoinedIsFresh'
    BY <1>1, <1>3, <2>1 DEF IInv, CacheInv, KnownIsPrefix, BookmarkKnown, RehydratedIdle,
                            JoinedIsFresh, streamVars, feedVars, fetchVars, diskVars
  <2>3. SettledShowsKnown' /\ ValueCoversBookmark' /\ SavedIsShown' /\ BookmarkNeverLeads'
    BY <1>1, <1>3, <2>1 DEF IInv, CacheInv, SettledShowsKnown, ValueCoversBookmark,
                            SavedIsShown, BookmarkNeverLeads, fetchVars, diskVars
  <2>4. QED
    BY <2>2, <2>3 DEF CacheInv
<1>4. QED
  BY <1>2, <1>3 DEF Subscribe

LEMMA FreshKeeps ==
  ASSUME IInv, Fresh
  PROVE  CacheInv'
  BY AskingKeeps DEF Fresh

LEMMA ReadViewKeeps ==
  ASSUME IInv, NEW f \in Fetches, ReadView(f)
  PROVE  CacheInv'
<1>1. /\ fetch[f].stage = "asked"
      /\ UNCHANGED <<streamVars, value, inflight, rehydrated, observer, saving, pendingId, diskVars, forgiven>>
  BY DEF ReadView
<1>2. Known' = Known
  BY <1>1, KnownSame DEF streamVars, feedVars
<1>3. ~rehydrated
  BY <1>1 DEF IInv, CacheInv, RehydratedIdle
<1>4. /\ fetch'[f].snapshot = stored
      /\ \A g \in Fetches \ {f} : fetch'[g] = fetch[g]
  BY TypeParts DEF ReadView, IInv, FetchTyped, FetchStates
<1>5. Known \subseteq 1 .. stored
  BY KnownStored, TypeParts DEF IInv, CacheInv
<1>6. JoinedIsFresh'
  <2>1. inflight \in Fetches \cup {NoFetch}
    BY TypeParts DEF IInv, FetchTyped
  <2>2. CASE inflight = f
    BY <1>1, <1>2, <1>4, <1>5, <2>2 DEF JoinedIsFresh
  <2>3. CASE inflight # f
    BY <1>1, <1>2, <1>4, <2>1, <2>3 DEF IInv, CacheInv, JoinedIsFresh
  <2>4. QED
    BY <2>2, <2>3
<1>7. KnownIsPrefix' /\ BookmarkKnown' /\ RehydratedIdle'
  BY <1>1, <1>2, <1>3 DEF IInv, CacheInv, KnownIsPrefix, BookmarkKnown, RehydratedIdle,
                          streamVars, feedVars, diskVars
<1>8. SettledShowsKnown' /\ ValueCoversBookmark' /\ SavedIsShown' /\ BookmarkNeverLeads'
  BY <1>1, <1>2 DEF IInv, CacheInv, SettledShowsKnown, ValueCoversBookmark,
                    SavedIsShown, BookmarkNeverLeads, diskVars
<1>9. QED
  BY <1>6, <1>7, <1>8 DEF CacheInv

LEMMA ArriveKeeps ==
  ASSUME IInv, NEW f \in Fetches, Arrive(f)
  PROVE  CacheInv'
<1> DEFINE lacking == Known \ (1 .. fetch[f].snapshot)
<1>1. /\ fetch[f].stage = "read" /\ value' = 0 .. fetch[f].snapshot
      /\ fetch' = Without(f) /\ inflight' = Cleared(f) /\ saving' = TRUE
      /\ forgiven' = forgiven \cup (IF inflight = f THEN lacking \cap Bodies ELSE lacking)
      /\ UNCHANGED <<streamVars, rehydrated, pendingId, diskVars>>
  BY DEF Arrive, Known
<1>2. Known' = Known
  BY <1>1, KnownSame DEF streamVars, feedVars
<1>3. ~rehydrated
  BY <1>1 DEF IInv, CacheInv, RehydratedIdle
<1>4. fetch[f].snapshot \in 0 .. MaxEvents
  BY TypeParts DEF IInv, FetchTyped, FetchStates
<1>5. 1 .. fetch[f].snapshot \subseteq value'
  BY <1>1, <1>4, PrefixIsValue
<1>6. NoFetch \notin Fetches
  BY ConstantsTyped
<1>7. inflight = f => lacking \subseteq Bodies
  BY <1>1, <1>6 DEF IInv, CacheInv, JoinedIsFresh
<1>8. Known \subseteq value' \cup forgiven'
  BY <1>1, <1>5, <1>7
<1>9. SettledShowsKnown' /\ ValueCoversBookmark'
  BY <1>1, <1>2, <1>8 DEF IInv, CacheInv, BookmarkKnown, SettledShowsKnown, ValueCoversBookmark, diskVars
<1>10. JoinedIsFresh'
  BY <1>1, <1>2, WithoutTyped DEF IInv, CacheInv, JoinedIsFresh
<1>11. KnownIsPrefix' /\ BookmarkKnown' /\ RehydratedIdle' /\ SavedIsShown' /\ BookmarkNeverLeads'
  BY <1>1, <1>2, <1>3 DEF IInv, CacheInv, KnownIsPrefix, BookmarkKnown, RehydratedIdle,
                          SavedIsShown, BookmarkNeverLeads, streamVars, feedVars, diskVars
<1>12. QED
  BY <1>9, <1>10, <1>11 DEF CacheInv

LEMMA FailKeeps ==
  ASSUME IInv, NEW f \in Fetches, Fail(f)
  PROVE  CacheInv'
<1>1. /\ fetch[f].stage # "free"
      /\ forgiven' = IF inflight' = NoFetch THEN forgiven \cup ((1 .. stored) \ value) ELSE forgiven
      /\ UNCHANGED <<streamVars, value, saving, pendingId, diskVars>>
  BY DEF Fail, GivenUp
<1>2. Known' = Known
  BY <1>1, KnownSame DEF streamVars, feedVars
<1>3. ~rehydrated /\ ~rehydrated'
  BY <1>1 DEF IInv, CacheInv, RehydratedIdle, Fail
<1>4. Known \subseteq 1 .. stored
  BY KnownStored, TypeParts DEF IInv, CacheInv
<1>5. SettledShowsKnown'
  BY <1>1, <1>2, <1>4 DEF SettledShowsKnown
<1>6. JoinedIsFresh'
  <2>1. CASE fetch[f].first
    <3>1. RunFetch(Without(f), Cleared(f), FALSE, TRUE)
      BY <2>1 DEF Fail
    <3>2. /\ Cleared(f) = NoFetch => fetch'[inflight'].stage = "asked"
          /\ Cleared(f) # NoFetch =>
               /\ inflight' = Cleared(f)
               /\ fetch'[Cleared(f)].stage = Without(f)[Cleared(f)].stage
               /\ fetch'[Cleared(f)].snapshot = Without(f)[Cleared(f)].snapshot
      BY <3>1, WithoutTyped, RunFetchRuns DEF IInv
    <3>3. Cleared(f) # NoFetch => Cleared(f) = inflight /\ Without(f)[inflight] = fetch[inflight]
      BY WithoutTyped DEF IInv
    <3>4. QED
      BY <1>2, <3>2, <3>3 DEF IInv, CacheInv, JoinedIsFresh
  <2>2. CASE ~fetch[f].first
    <3>1. fetch' = Without(f) /\ inflight' = Cleared(f)
      BY <2>2 DEF Fail
    <3>2. QED
      BY <1>2, <3>1, WithoutTyped DEF IInv, CacheInv, JoinedIsFresh
  <2>3. QED
    BY <2>1, <2>2
<1>7. KnownIsPrefix' /\ BookmarkKnown' /\ RehydratedIdle'
  BY <1>1, <1>2, <1>3 DEF IInv, CacheInv, KnownIsPrefix, BookmarkKnown, RehydratedIdle,
                          streamVars, feedVars, diskVars
<1>8. ValueCoversBookmark' /\ SavedIsShown' /\ BookmarkNeverLeads'
  BY <1>1 DEF IInv, CacheInv, ValueCoversBookmark, SavedIsShown, BookmarkNeverLeads, diskVars
<1>9. QED
  BY <1>5, <1>6, <1>7, <1>8 DEF CacheInv

(* When nothing is out and nothing has to be saved, or the value is just being   *)
(* saved, the value shows what waits for the bookmark.                           *)
LEMMA PendingShown ==
  ASSUME IInv, value # Absent, inflight = NoFetch, pendingId # 0
  PROVE  1 .. pendingId \subseteq value \cup forgiven
<1>1. 1 .. pendingId \subseteq Known
  BY DEF IInv, CacheInv, BookmarkKnown
<1>2. Known \subseteq value \cup forgiven
  <2>1. CASE ~rehydrated
    BY <2>1 DEF IInv, CacheInv, SettledShowsKnown
  <2>2. CASE rehydrated
    BY <2>2 DEF IInv, CacheInv, RehydratedIdle
  <2>3. QED
    BY <2>1, <2>2
<1>3. QED
  BY <1>1, <1>2

LEMMA SaveKeeps ==
  ASSUME IInv, Save
  PROVE  CacheInv'
<1>1. /\ saving /\ saving' = FALSE /\ document' = value /\ forgiven' = forgiven \ value
      /\ UNCHANGED <<streamVars, value, fetchVars, observer>>
      /\ Flush(inflight = NoFetch)
  BY DEF Save
<1>2. Known' = Known
  BY <1>1, KnownSame DEF streamVars, feedVars
<1>3. ~rehydrated
  BY <1>1 DEF IInv, CacheInv, RehydratedIdle
<1>4. value \cup forgiven \subseteq value' \cup forgiven'
  BY <1>1
<1>5. /\ bookmark' \in {bookmark, pendingId} /\ pendingId' \in {0, pendingId}
      /\ bookmark' # bookmark => pendingId # 0 /\ inflight = NoFetch
  BY <1>1 DEF Flush
<1>6. 1 .. 0 = {}
  OBVIOUS
<1>7. KnownIsPrefix' /\ BookmarkKnown'
  BY <1>1, <1>2, <1>5, <1>6 DEF IInv, CacheInv, KnownIsPrefix, BookmarkKnown, streamVars, feedVars
<1>8. value # Absent => 1 .. bookmark' \subseteq value \cup forgiven
  BY <1>5, PendingShown DEF IInv, CacheInv, ValueCoversBookmark
<1>9. ValueCoversBookmark' /\ SavedIsShown' /\ BookmarkNeverLeads'
  BY <1>1, <1>4, <1>8 DEF ValueCoversBookmark, SavedIsShown, BookmarkNeverLeads
<1>10. RehydratedIdle' /\ JoinedIsFresh' /\ SettledShowsKnown'
  BY <1>1, <1>2, <1>3, <1>4 DEF IInv, CacheInv, RehydratedIdle, JoinedIsFresh, SettledShowsKnown, fetchVars
<1>11. QED
  BY <1>7, <1>9, <1>10 DEF CacheInv

LEMMA SaveOtherKeeps ==
  ASSUME IInv, SaveOther
  PROVE  CacheInv'
<1>1. /\ Flush(Quiet)
      /\ UNCHANGED <<streamVars, value, fetchVars, observer, saving, document, forgiven>>
  BY DEF SaveOther
<1>2. Known' = Known
  BY <1>1, KnownSame DEF streamVars, feedVars
<1>3. /\ bookmark' \in {bookmark, pendingId} /\ pendingId' \in {0, pendingId}
      /\ bookmark' # bookmark => pendingId # 0 /\ inflight = NoFetch /\ ~saving
      /\ bookmark' # bookmark => bookmark' = pendingId
      /\ pendingId = 0 => bookmark' = bookmark /\ pendingId' = 0
  BY <1>1 DEF Flush, Quiet
<1>4. 1 .. 0 = {}
  OBVIOUS
<1>5. KnownIsPrefix' /\ BookmarkKnown'
  BY <1>1, <1>2, <1>3, <1>4 DEF IInv, CacheInv, KnownIsPrefix, BookmarkKnown, streamVars, feedVars
<1>6. value # Absent => 1 .. bookmark' \subseteq value \cup forgiven
  BY <1>3, PendingShown DEF IInv, CacheInv, ValueCoversBookmark
<1>7. ValueCoversBookmark' /\ SavedIsShown'
  BY <1>1, <1>6 DEF IInv, CacheInv, ValueCoversBookmark, SavedIsShown
<1>8. BookmarkNeverLeads'
  <2>1. CASE bookmark' = bookmark
    BY <1>1, <2>1 DEF IInv, CacheInv, BookmarkNeverLeads
  <2>2. CASE bookmark' # bookmark
    <3>1. document = value
      BY <1>3, <2>2 DEF IInv, CacheInv, SavedIsShown
    <3>2. QED
      BY <1>1, <1>6, <3>1 DEF BookmarkNeverLeads
  <2>3. QED
    BY <2>1, <2>2
<1>9. RehydratedIdle'
  <2>1. SUFFICES ASSUME rehydrated PROVE RehydratedIdle'
    BY <1>1 DEF RehydratedIdle, fetchVars
  <2>2. /\ observer = "none" /\ ~saving /\ inflight = NoFetch
        /\ \A f \in Fetches : fetch[f].stage = "free"
        /\ bookmark = 0 => heard = <<>> /\ pendingId = 0 /\ replayed = {}
        /\ bookmark # 0 => Known \subseteq value \cup forgiven
    BY <2>1 DEF IInv, CacheInv, RehydratedIdle
  <2>3. /\ bookmark' = 0 => bookmark = 0 /\ pendingId' = 0
        /\ bookmark' # 0 => bookmark # 0
    BY <1>3, <2>2
  <2>4. QED
    BY <1>1, <1>2, <2>2, <2>3 DEF RehydratedIdle, streamVars, feedVars, fetchVars
<1>10. JoinedIsFresh' /\ SettledShowsKnown'
  BY <1>1, <1>2 DEF IInv, CacheInv, JoinedIsFresh, SettledShowsKnown, fetchVars
<1>11. QED
  BY <1>5, <1>7, <1>8, <1>9, <1>10 DEF CacheInv

LEMMA ReconnectKeeps ==
  ASSUME IInv, Reconnect
  PROVE  CacheInv'
<1>1. /\ heard # <<>> \/ bookmark # 0
      /\ UNCHANGED <<feedVars, value, fetchVars, observer, saving, pendingId, diskVars, forgiven>>
  BY DEF Reconnect, Watermark
<1>2. Known' = Known
  BY <1>1, KnownSame DEF feedVars
<1>3. RehydratedIdle'
  <2>1. rehydrated => bookmark # 0
    BY <1>1 DEF IInv, CacheInv, RehydratedIdle
  <2>2. QED
    BY <1>1, <1>2, <2>1 DEF IInv, CacheInv, RehydratedIdle, feedVars, fetchVars, diskVars
<1>4. KnownIsPrefix' /\ BookmarkKnown' /\ JoinedIsFresh'
  BY <1>1, <1>2 DEF IInv, CacheInv, KnownIsPrefix, BookmarkKnown, JoinedIsFresh,
                    feedVars, fetchVars, diskVars
<1>5. SettledShowsKnown' /\ ValueCoversBookmark' /\ SavedIsShown' /\ BookmarkNeverLeads'
  BY <1>1, <1>2 DEF IInv, CacheInv, SettledShowsKnown, ValueCoversBookmark,
                    SavedIsShown, BookmarkNeverLeads, fetchVars, diskVars
<1>6. QED
  BY <1>3, <1>4, <1>5 DEF CacheInv

LEMMA ResumeGapKeeps ==
  ASSUME IInv, NEW p, ResumeGap(p)
  PROVE  CacheInv'
<1>1. /\ p \in 0 .. stored /\ Heard \cup excused \subseteq 1 .. p
      /\ stored' = stored /\ heard' = heard /\ excused' = (1 .. p) \ (Heard \ excused) /\ Invalidate
      /\ UNCHANGED <<replayed, value, observer, saving, pendingId, diskVars, forgiven>>
  BY DEF ResumeGap, FeedExcuse, Published
<1>2. Known' = 1 .. p
  <2>1. Heard' = Heard
    BY <1>1 DEF Heard
  <2>2. QED
    BY <1>1, <2>1 DEF Known
<1>3. Known \subseteq Known'
  BY <1>1, <1>2 DEF Known
<1>4. inflight' # NoFetch /\ fetch'[inflight'].stage = "asked" /\ rehydrated' = FALSE
  BY <1>1, InvalidateAsks DEF IInv
<1>5. KnownIsPrefix' /\ BookmarkKnown'
  BY <1>1, <1>2, <1>3 DEF IInv, CacheInv, KnownIsPrefix, BookmarkKnown, diskVars
<1>6. RehydratedIdle' /\ JoinedIsFresh' /\ SettledShowsKnown'
  BY <1>4 DEF RehydratedIdle, JoinedIsFresh, SettledShowsKnown
<1>7. ValueCoversBookmark' /\ SavedIsShown' /\ BookmarkNeverLeads'
  BY <1>1 DEF IInv, CacheInv, ValueCoversBookmark, SavedIsShown, BookmarkNeverLeads, diskVars
<1>8. QED
  BY <1>5, <1>6, <1>7 DEF CacheInv

(* The next session starts well if the bookmark it finds does not lead.          *)
LEMMA NewSessionKeeps ==
  ASSUME IInv, NEW doc, NEW id \in 0 .. stored, NEW p, NewSession(doc, id, p),
         doc # Absent => 1 .. id \subseteq doc \cup forgiven'
  PROVE  CacheInv'
<1>1. /\ p \in 0 .. stored /\ stored' = stored /\ heard' = <<>>
      /\ document' = doc /\ bookmark' = id /\ pendingId' = 0
      /\ value' = doc /\ rehydrated' = (doc # Absent)
      /\ fetch' = [f \in Fetches |-> NoneOut] /\ inflight' = NoFetch
      /\ observer' = "none" /\ saving' = FALSE
      /\ replayed' = (IF id = 0 THEN {} ELSE (id + 1) .. stored)
      /\ excused' = IF id = 0 THEN 1 .. p ELSE 1 .. id
  BY DEF NewSession, Published
<1>2. Known' = IF id = 0 THEN 1 .. p ELSE 1 .. id
  BY <1>1 DEF Known, Heard
<1>3. 1 .. 0 = {} /\ stored \in Nat
  BY TypeParts, ConstantsTyped DEF IInv, FeedTyped
<1>4. KnownIsPrefix' /\ BookmarkKnown'
  BY <1>1, <1>2, <1>3 DEF KnownIsPrefix, BookmarkKnown
<1>5. RehydratedIdle'
  BY <1>1, <1>2, NoneOutTyped DEF RehydratedIdle
<1>6. JoinedIsFresh' /\ SettledShowsKnown'
  BY <1>1 DEF JoinedIsFresh, SettledShowsKnown
<1>7. ValueCoversBookmark' /\ SavedIsShown' /\ BookmarkNeverLeads'
  BY <1>1 DEF ValueCoversBookmark, SavedIsShown, BookmarkNeverLeads
<1>8. QED
  BY <1>4, <1>5, <1>6, <1>7 DEF CacheInv

LEMMA ReloadKeeps ==
  ASSUME IInv, NEW p, Reload(p)
  PROVE  CacheInv'
<1>1. document # Absent => 1 .. bookmark \subseteq document \cup forgiven'
  BY DEF Reload, IInv, CacheInv, BookmarkNeverLeads
<1>2. QED
  BY <1>1, NewSessionKeeps, TypeParts DEF Reload, IInv, DiskTyped

LEMMA DisposeKeeps ==
  ASSUME IInv, NEW other \in BOOLEAN, NEW p, Dispose(other, p)
  PROVE  CacheInv'
<1> DEFINE doc == DisposedDocument
           id == DisposedBookmark(other)
<1>1. id \in 0 .. stored
  BY TypeParts DEF DisposedBookmark, IInv, DiskTyped
<1>2. NewSession(doc, id, p) /\ forgiven \subseteq forgiven'
      /\ (other /\ inflight # NoFetch => (1 .. id) \ doc \subseteq forgiven')
  BY DisposeIs
<1>3. SUFFICES ASSUME doc # Absent PROVE 1 .. id \subseteq doc \cup forgiven'
  BY <1>1, <1>2, NewSessionKeeps
<1>4. CASE id = bookmark
  BY <1>2, <1>3, <1>4 DEF DisposedDocument, IInv, CacheInv, ValueCoversBookmark, BookmarkNeverLeads
<1>5. CASE id # bookmark /\ inflight # NoFetch
  BY <1>2, <1>5 DEF DisposedBookmark
<1>6. CASE id # bookmark /\ inflight = NoFetch
  <2>1. id = pendingId /\ pendingId # 0
    BY <1>6 DEF DisposedBookmark
  <2>2. doc = value
    BY DEF DisposedDocument, IInv, CacheInv, SavedIsShown
  <2>3. QED
    BY <1>2, <1>3, <1>6, <2>1, <2>2, PendingShown
<1>7. QED
  BY <1>4, <1>5, <1>6

LEMMA InitKeeps ==
  ASSUME Init
  PROVE  CacheInv
<1>1. /\ stored = 0 /\ heard = <<>> /\ excused = {} /\ replayed = {}
      /\ value = Absent /\ inflight = NoFetch /\ rehydrated = FALSE
      /\ saving = FALSE /\ pendingId = 0 /\ document = Absent /\ bookmark = 0
  BY DEF Init, FeedInit
<1>2. Known = {} /\ 1 .. 0 = {}
  BY <1>1 DEF Known, Heard
<1>3. QED
  BY <1>1, <1>2 DEF CacheInv, KnownIsPrefix, BookmarkKnown, RehydratedIdle, JoinedIsFresh,
                    SettledShowsKnown, ValueCoversBookmark, SavedIsShown, BookmarkNeverLeads

LEMMA StutterKeeps ==
  ASSUME IInv, UNCHANGED vars
  PROVE  CacheInv'
<1>1. Known' = Known
  BY KnownSame DEF vars, streamVars, feedVars
<1>2. KnownIsPrefix' /\ BookmarkKnown' /\ RehydratedIdle' /\ JoinedIsFresh'
  BY <1>1 DEF IInv, CacheInv, KnownIsPrefix, BookmarkKnown, RehydratedIdle, JoinedIsFresh,
              vars, streamVars, feedVars, fetchVars, diskVars
<1>3. SettledShowsKnown' /\ ValueCoversBookmark' /\ SavedIsShown' /\ BookmarkNeverLeads'
  BY <1>1 DEF IInv, CacheInv, SettledShowsKnown, ValueCoversBookmark, SavedIsShown,
              BookmarkNeverLeads, vars, fetchVars, diskVars
<1>4. QED
  BY <1>2, <1>3 DEF CacheInv

LEMMA StepKeeps ==
  ASSUME IInv, [Next]_vars
  PROVE  CacheInv'
  BY StoreKeeps, HearKeeps, SubscribeKeeps, FreshKeeps, ReadViewKeeps, ArriveKeeps, FailKeeps,
     SaveKeeps, SaveOtherKeeps, ReconnectKeeps, ResumeGapKeeps, ReloadKeeps, DisposeKeeps, StutterKeeps
     DEF Next, FetchStep

LEMMA Invariant == Spec => []IInv
<1>1. Init => IInv
  BY InitTyped, InitKeeps DEF IInv
<1>2. IInv /\ [Next]_vars => IInv'
  BY StepTyped, StepKeeps DEF IInv, CacheInv
<1>3. QED
  BY <1>1, <1>2, PTL DEF Spec

-------------------------------------------------------------------------------
(* Every variable keeps its type.                                                *)
THEOREM CacheTypeCorrect == Spec => []CacheTypeOK
<1>1. IInv => CacheTypeOK
  BY DEF IInv
<1>2. QED
  BY <1>1, Invariant, PTL

(* The bookmark on the disk never leads the document, through saves, coupled     *)
(* flushes, disposals and reloads (namespaces/browse.ts persistenceSettled).     *)
THEOREM BookmarkDoesNotLead == Spec => []BookmarkNeverLeads
<1>1. IInv => BookmarkNeverLeads
  BY DEF IInv, CacheInv
<1>2. QED
  BY <1>1, Invariant, PTL

(* Whatever fetches, events, gaps and sessions interleave, an observer at rest   *)
(* sees every event but the forgiven ones (cache.ts runFetch, invalidate).       *)
THEOREM ObserverIsFresh == Spec => []FreshAtRest
<1>1. IInv => FreshAtRest
  <2>1. SUFFICES ASSUME IInv, AtRest
                 PROVE  1 .. stored \subseteq value \cup forgiven
    BY DEF FreshAtRest
  <2>2. observer # "none" /\ value # Absent /\ Known = 1 .. stored
        /\ \A f \in Fetches : fetch[f].stage = "free"
    BY <2>1 DEF AtRest, Known
  <2>3. inflight = NoFetch
    BY <2>1, <2>2, TypeParts DEF IInv, FetchTyped
  <2>4. ~rehydrated
    BY <2>1, <2>2 DEF IInv, CacheInv, RehydratedIdle
  <2>5. QED
    BY <2>1, <2>2, <2>3, <2>4 DEF IInv, CacheInv, SettledShowsKnown
<1>2. QED
  BY <1>1, Invariant, PTL
================================================================================
