------------------------------- MODULE BusStream -------------------------------
(* The two ends of a client's event stream: the gateway's subscribe route       *)
(* (apps/backend/src/routes/bus.ts) and the client's connection                 *)
(* (packages/http-transport/src/transport/actor-state-unit.ts), with one        *)
(* correlated request (packages/core/src/bus-request.ts).                       *)
(*                                                                              *)
(* One scope is modelled, that is the stream of one resource; an event is its   *)
(* sequence number.  A frame is an event, a gap signal or the reply.  Several   *)
(* connections may be there at once: a change of the channel set opens the new  *)
(* one before the old one is closed, and the old one is read for a while more.  *)
EXTENDS Ascending, SequencesExt

CONSTANTS
  MaxEvents,       \* bound: the events are 1 .. MaxEvents
  Starts,          \* bound: the streams, and saved watermarks, a session may begin with
  MaxConns,        \* bound: connections at once
  MaxFaults,       \* bound: connections that break or are not made, reads of the
                   \* log that fail, and events stored or published after a later one
  MaxChanges       \* bound: changes of the channel set

ASSUME BusStreamAssumption ==
  {MaxEvents, MaxConns, MaxFaults, MaxChanges} \subseteq Nat

(* A stream may be older than the session, with appends of it in progress; the   *)
(* watermark is one that an earlier session has saved (loadLastEventIds), or 0.  *)
ASSUME StartsAssumption ==
  \A s \in Starts :
    /\ s.stored \in 0 .. MaxEvents
    /\ s.missing \subseteq 1 .. s.stored /\ Cardinality(s.missing) \in 0 .. MaxFaults
    /\ s.published \subseteq (1 .. s.stored) \ s.missing
    /\ s.mark \in s.published \cup {0}

VARIABLES
  stored,          \* backend: the numbers 1 .. stored were given out
  missing,         \* backend: those of them that are not in the log (yet, or ever)
  published,       \* backend: the events that were put on the bus
  retained,        \* backend: the reply is still kept
  conn,            \* both ends of each connection
  state,           \* client: the ConnectionState shown to others
  wanted,          \* client: the scope is in the subscription matrix
  changed,         \* client: a debounced reconnect is pending
  retries,         \* client: drop-recovery timers pending
  clearable,       \* client: reconnectTimer is a pending one, the last that was set
  mark,            \* client: the scope's watermark, 0 when there is none
  seenEventIds,    \* client: the frames claimed
  request,         \* client: how far the correlated request is
  heard,           \* history: the events handed to the subscribers, in order
  excused,         \* history: the events that need not arrive
  stray,           \* history: the state was set for another stream than the newest
  spent            \* history: the bounded things that have happened

serverVars == <<stored, missing, published, retained>>
clientVars == <<state, wanted, changed, retries, clearable, mark, seenEventIds>>
historyVars == <<heard, excused, stray, spent>>
vars == <<serverVars, conn, clientVars, request, historyVars>>

Conns == 1 .. MaxConns
Events == 1 .. MaxEvents
Gap == 0
Reply == MaxEvents + 1
Frames == Events \cup {Gap, Reply}

(* phase, superseded, previous and applying are the client's; the rest is the   *)
(* gateway's: body is what the subscribe request carried (the scope, its        *)
(* watermark, the reply awaited).                                               *)
Free == [phase |-> "free", superseded |-> FALSE, previous |-> {}, applying |-> 0,
         scoped |-> FALSE, from |-> 0, awaits |-> FALSE,
         stage |-> "none", delivered |-> 0, buffer |-> <<>>, wire |-> <<>>]

Connections ==
  [phase : {"free", "opening", "reading"}, superseded : BOOLEAN, previous : SUBSET Conns,
   applying : 0 .. MaxEvents, scoped : BOOLEAN, from : 0 .. MaxEvents, awaits : BOOLEAN,
   stage : {"none", "replaying", "draining", "live"}, delivered : 0 .. MaxEvents,
   buffer : Seq(Frames), wire : Seq(Frames)]

Limit == [faults |-> MaxFaults, changes |-> MaxChanges]
(* The events that are in the log. *)
Log == (1 .. stored) \ missing

Spend(what) == spent[what] < Limit[what] /\ spent' = [spent EXCEPT ![what] = @ + 1]

TypeOK ==
  /\ stored \in 0 .. MaxEvents /\ missing \subseteq 1 .. stored /\ published \subseteq Log
  /\ retained \in BOOLEAN
  /\ conn \in [Conns -> Connections]
  /\ state \in {"initial", "connecting", "open", "reconnecting"}
  /\ wanted \in BOOLEAN /\ changed \in BOOLEAN
  /\ retries \in 0 .. MaxFaults
  /\ clearable \in BOOLEAN /\ (clearable => retries > 0)
  /\ mark \in 0 .. MaxEvents
  /\ seenEventIds \subseteq Events \cup {Reply}
  /\ request \in {"none", "gated", "emitted", "replied", "settled", "failed"}
  /\ heard \in Seq(Events)
  /\ excused \subseteq 1 .. stored
  /\ stray \in BOOLEAN
  /\ \A what \in DOMAIN spent : spent[what] \in 0 .. Limit[what]

(* What came before the saved watermark is not this session's. *)
Init ==
  /\ retained = FALSE
  /\ conn = [c \in Conns |-> Free]
  /\ state = "initial" /\ wanted \in BOOLEAN /\ retries = 0 /\ clearable = FALSE
  /\ changed \in {FALSE, wanted} /\ (changed => MaxChanges > 0)
  /\ seenEventIds = {}
  /\ request = "none"
  /\ heard = <<>>
  /\ stray = FALSE
  /\ \E s \in Starts :
       /\ stored = s.stored /\ missing = s.missing /\ published = s.published
       /\ mark = s.mark /\ excused = 1 .. s.mark
       /\ spent = [faults |-> Cardinality(missing), changes |-> IF changed THEN 1 ELSE 0]

(* Between handing an event on and noting it there is only a microtask: other   *)
(* read loops may run, timers, requests and the network may not.                *)
Idle == \A c \in Conns : conn[c].applying = 0

Excuse(S) == excused' = excused \cup S

-------------------------------------------------------------------------------
(* The gateway.                                                                 *)

(* The frames that writeBusEvent lets through, one after the other: an event not *)
(* above the last delivered one is dropped.                                     *)
Passing(k, frames) ==
  {i \in DOMAIN frames :
     frames[i] \in Events =>
       /\ frames[i] > k.delivered
       /\ \A j \in 1 .. (i - 1) : frames[j] \in Events => frames[j] < frames[i]}

WriteAll(k, frames) ==
  [k EXCEPT !.wire = @ \o Those(frames, Passing(k, frames)),
            !.delivered = Max({@} \cup (ToSet(frames) \cap Events))]

Write(k, f) == WriteAll(k, <<f>>)

WillReplay(k) == k.scoped /\ k.from # 0

(* Slip for the runs: the live subscription is made after the replay. *)
SubscribeLate(k, f) == IF k.stage = "live" THEN Write(k, f) ELSE k

(* emitOrBuffer *)
EmitOrBuffer(k, f) ==
  IF k.stage = "none" THEN k
  ELSE IF WillReplay(k) /\ k.stage # "live" THEN [k EXCEPT !.buffer = Append(@, f)]
  ELSE Write(k, f)

(* The event store appends the next event; or appends of the same resource       *)
(* overlap, and one that took its number earlier reaches the log later, if at    *)
(* all (see EventStorage).                                                       *)
Store ==
  /\ Idle /\ stored < MaxEvents
  /\ stored' = stored + 1
  /\ \/ UNCHANGED <<missing, spent>>
     \/ missing' = missing \cup {stored + 1} /\ Spend("faults")
  /\ UNCHANGED <<published, retained, conn, clientVars, request, heard, excused, stray>>

StoreLate(e) ==
  /\ Idle /\ e \in missing
  /\ missing' = missing \ {e}
  /\ UNCHANGED <<stored, published, retained, conn, clientVars, request, historyVars>>

Publish(e) ==
  LET passed == (1 .. (e - 1)) \ published IN
  /\ Idle /\ e \in Log \ published
  /\ IF passed = {} THEN UNCHANGED spent ELSE Spend("faults")
  /\ published' = published \cup {e}
  /\ conn' = [c \in Conns |-> IF conn[c].scoped THEN EmitOrBuffer(conn[c], e) ELSE conn[c]]
  /\ Excuse(passed)
  /\ UNCHANGED <<stored, missing, retained, clientVars, request, heard, stray>>

(* The live subscription is made before anything is replayed. *)
Attach(c) ==
  /\ Idle /\ conn[c].phase # "free" /\ conn[c].stage = "none"
  /\ conn' = [conn EXCEPT ![c].stage = "replaying"]
  /\ IF conn[c].scoped /\ conn[c].from = 0
     THEN Excuse(published)
     ELSE UNCHANGED excused
  /\ UNCHANGED <<serverVars, clientVars, request, heard, stray, spent>>

(* After the scope's events the reply is looked up, if it was asked for. *)
Awaited(k) == IF k.awaits /\ retained THEN <<Reply>> ELSE <<>>

AfterReplay(k) == IF WillReplay(k) THEN "draining" ELSE "live"

(* What queryEvents returns: the events of the log above the watermark, in the   *)
(* order of their numbers.  A replay passes over those that come too late.       *)
Above(k) == {e \in Log : e > k.from}
PassedOver(k) == {d \in missing : d > k.from /\ \E e \in Log : e > d}

(* It starts with a gap signal when the event after the watermark is not there   *)
(* and a later one is (retention-exceeded).                                      *)
Missed(k) ==
  IF WillReplay(k)
  THEN (IF k.from + 1 \in PassedOver(k) THEN <<Gap>> ELSE <<>>) \o Ascending(Above(k))
  ELSE <<>>

Replay(c) ==
  LET k == conn[c] IN
  /\ Idle /\ k.stage = "replaying"
  /\ conn' = [conn EXCEPT ![c] = [WriteAll(k, Missed(k) \o Awaited(k)) EXCEPT !.stage = AfterReplay(k)]]
  /\ Excuse(IF WillReplay(k) THEN PassedOver(k) ELSE {})
  /\ UNCHANGED <<serverVars, clientVars, request, heard, stray, spent>>

(* The log cannot be read. *)
ReplayFails(c) ==
  LET k == conn[c] IN
  /\ Idle /\ k.stage = "replaying" /\ WillReplay(k) /\ Spend("faults")
  /\ conn' = [conn EXCEPT ![c] = [WriteAll(k, <<Gap>> \o Awaited(k)) EXCEPT !.stage = "draining"]]
  /\ Excuse((k.from + 1) .. stored)
  /\ UNCHANGED <<serverVars, clientVars, request, heard, stray>>

Drain(c) ==
  /\ Idle /\ conn[c].stage = "draining"
  /\ conn' = [conn EXCEPT ![c] = [WriteAll(conn[c], conn[c].buffer) EXCEPT !.stage = "live", !.buffer = <<>>]]
  /\ UNCHANGED <<serverVars, clientVars, request, historyVars>>

-------------------------------------------------------------------------------
(* The client's connections.                                                    *)

InFlight == {c \in Conns : conn[c].phase # "free"}
Live(c) == conn[c].phase = "reading" /\ ~conn[c].superseded

(* A connection that is gone is also gone from what others will supersede. *)
Gone(S, k) == [c \in Conns |-> IF c \in S THEN Free ELSE [k[c] EXCEPT !.previous = @ \ S]]

(* Slip for the runs: a connection on its way is not aborted. *)
ConnectLeaks(c, keepPrevious) ==
  LET left == {d \in InFlight : conn[d].phase = "opening"}
      kept == IF keepPrevious THEN conn ELSE Gone(InFlight \ left, conn) IN
  /\ kept[c] = Free /\ \A d \in Conns : kept[d] = Free => c <= d
  /\ conn' = [kept EXCEPT ![c] = [Free EXCEPT
                !.phase = "opening", !.previous = IF keepPrevious THEN InFlight ELSE {},
                !.scoped = wanted, !.from = IF wanted THEN mark ELSE 0,
                !.awaits = request \in {"emitted", "replied"}]]

(* Slip for the runs: the subscribe body does not name the awaited replies. *)
ConnectForgets(c, keepPrevious) ==
  LET kept == IF keepPrevious THEN conn ELSE Gone(InFlight, conn) IN
  /\ kept[c] = Free /\ \A d \in Conns : kept[d] = Free => c <= d
  /\ conn' = [kept EXCEPT ![c] = [Free EXCEPT
                !.phase = "opening", !.previous = IF keepPrevious THEN InFlight ELSE {},
                !.scoped = wanted, !.from = IF wanted THEN mark ELSE 0]]

(* connect: what it aborts and what it posts.  c is the new connection. *)
Connect(c, keepPrevious) ==
  LET kept == IF keepPrevious THEN conn ELSE Gone(InFlight, conn) IN
  /\ kept[c] = Free /\ \A d \in Conns : kept[d] = Free => c <= d
  /\ conn' = [kept EXCEPT ![c] = [Free EXCEPT
                !.phase = "opening", !.previous = IF keepPrevious THEN InFlight ELSE {},
                !.scoped = wanted, !.from = IF wanted THEN mark ELSE 0,
                !.awaits = request \in {"emitted", "replied"}]]

Start ==
  /\ state = "initial"
  /\ \E c \in Conns : Connect(c, FALSE)
  /\ state' = "connecting"
  /\ UNCHANGED <<serverVars, wanted, changed, retries, clearable, mark, seenEventIds, request, historyVars>>

(* addChannels, removeChannels with their debounced reconnects. *)
ChangeChannels ==
  /\ Idle /\ state # "initial" /\ Spend("changes")
  /\ wanted' = ~wanted /\ changed' = TRUE
  /\ UNCHANGED <<serverVars, conn, state, retries, clearable, mark, seenEventIds, request, heard, excused, stray>>

(* The pending drop recovery that reconnectTimer names is cancelled.  When a     *)
(* second drop has overwritten it, the timer of the first still fires.           *)
ClearRetry ==
  /\ retries' = IF clearable THEN retries - 1 ELSE retries
  /\ clearable' = FALSE

(* Slip for the runs: a connection that is being made is left to it. *)
ReconnectWhenOpen ==
  /\ Idle /\ changed /\ state # "initial"
  /\ changed' = FALSE
  /\ IF state = "open"
     THEN /\ ClearRetry
          /\ state' = "connecting"
          /\ \E c \in Conns : Connect(c, TRUE)
     ELSE UNCHANGED <<retries, clearable, state, conn>>
  /\ UNCHANGED <<serverVars, wanted, mark, seenEventIds, request, historyVars>>

(* The debounce timer: make before break. *)
Reconnect ==
  /\ Idle /\ changed /\ state # "initial"
  /\ changed' = FALSE
  /\ ClearRetry
  /\ state' = "connecting"
  /\ \E c \in Conns : Connect(c, TRUE)
  /\ UNCHANGED <<serverVars, wanted, mark, seenEventIds, request, historyVars>>

(* The drop-recovery timers, in the order they were set.  The state machine has *)
(* no edge from open to connecting, so an open state stays.                     *)
Retry ==
  /\ Idle /\ retries > 0
  /\ retries' = retries - 1
  /\ clearable' = (clearable /\ retries > 1)
  /\ state' = IF state = "open" THEN "open" ELSE "connecting"
  /\ stray' = (stray \/ state = "open")
  /\ \E c \in Conns : Connect(c, FALSE)
  /\ UNCHANGED <<serverVars, wanted, changed, mark, seenEventIds, request, heard, excused, spent>>

(* The response has come.  The previous connections are superseded, and read    *)
(* until the linger timer.  The state machine has no edge from reconnecting to  *)
(* open.                                                                        *)
Opened(c) ==
  /\ Idle /\ conn[c].phase = "opening" /\ conn[c].stage # "none"
  /\ conn' = [d \in Conns |->
       IF d = c THEN [conn[c] EXCEPT !.phase = "reading", !.previous = {}]
       ELSE [conn[d] EXCEPT !.superseded = @ \/ d \in conn[c].previous]]
  /\ state' = IF state = "reconnecting" THEN state ELSE "open"
  /\ stray' = (stray \/ conn[c].superseded \/ \E d \in Conns : c \in conn[d].previous)
  /\ UNCHANGED <<serverVars, wanted, changed, retries, clearable, mark, seenEventIds, request, heard, excused, spent>>

(* Assumed of LINGER_MS: it is time enough to read what has been sent. *)
LingerEnds(c) ==
  /\ Idle /\ conn[c].superseded
  /\ conn[c].phase = "reading" => conn[c].wire = <<>>
  /\ conn' = Gone({c}, conn)
  /\ UNCHANGED <<serverVars, clientVars, request, historyVars>>

(* Slip for the runs: an ended stream is made again, but the state stays. *)
DropQuietly(c) ==
  /\ Idle /\ conn[c].phase # "free" /\ Spend("faults")
  /\ conn' = Gone({c}, conn)
  /\ retries' = IF conn[c].superseded THEN retries ELSE retries + 1
  /\ clearable' = (clearable \/ ~conn[c].superseded)
  /\ UNCHANGED <<serverVars, state, wanted, changed, mark, seenEventIds, request, heard, excused, stray>>

(* The connection breaks, or is refused.  The end of a superseded one is        *)
(* expected.                                                                    *)
Drop(c) ==
  /\ Idle /\ conn[c].phase # "free" /\ Spend("faults")
  /\ conn' = Gone({c}, conn)
  /\ IF conn[c].superseded THEN UNCHANGED <<state, retries, clearable>>
     ELSE state' = "reconnecting" /\ retries' = retries + 1 /\ clearable' = TRUE
  /\ UNCHANGED <<serverVars, wanted, changed, mark, seenEventIds, request, heard, excused, stray>>
-------------------------------------------------------------------------------
(* The read loop.                                                               *)

NextFrame(c) == [conn EXCEPT ![c].wire = Tail(@)]

(* The frame is one another connection has delivered. *)
SkipDuplicate(c) ==
  /\ Head(conn[c].wire) \in seenEventIds
  /\ conn' = NextFrame(c)
  /\ UNCHANGED <<seenEventIds, heard, request>>

(* Slip for the runs: a frame counts as seen when the watermark is there. *)
ClaimLate(f) == seenEventIds' = seenEventIds \cup ({mark} \ {0})

(* The frame is claimed before the subscribers are called. *)
Claim(f) == seenEventIds' = seenEventIds \cup {f}

HandOn(c) ==
  LET e == Head(conn[c].wire) IN
  /\ e \in Events \ seenEventIds
  /\ Claim(e)
  /\ heard' = Append(heard, e)
  /\ conn' = [NextFrame(c) EXCEPT ![c].applying = e]
  /\ UNCHANGED request

(* Gap signals have an id of their own each. *)
HandOnGap(c) ==
  /\ Head(conn[c].wire) = Gap
  /\ conn' = NextFrame(c)
  /\ UNCHANGED <<seenEventIds, heard, request>>

(* Slip for the runs: the watermark takes the id of any frame. *)
ReplyMoves(c) ==
  /\ Head(conn[c].wire) = Reply /\ Reply \notin seenEventIds
  /\ Claim(Reply)
  /\ request' = IF request = "replied" THEN "settled" ELSE request
  /\ conn' = [NextFrame(c) EXCEPT ![c].applying = Reply]
  /\ UNCHANGED heard

HandOnReply(c) ==
  /\ Head(conn[c].wire) = Reply /\ Reply \notin seenEventIds
  /\ Claim(Reply)
  /\ request' = IF request = "replied" THEN "settled" ELSE request
  /\ conn' = NextFrame(c)
  /\ UNCHANGED heard

Read(c) ==
  /\ conn[c].phase = "reading" /\ conn[c].applying = 0 /\ conn[c].wire # <<>>
  /\ SkipDuplicate(c) \/ HandOn(c) \/ HandOnGap(c) \/ HandOnReply(c)
  /\ UNCHANGED <<serverVars, state, wanted, changed, retries, clearable, mark, excused, stray, spent>>

(* After the subscribers: the watermark. *)
Absorbed(c) ==
  /\ conn[c].applying # 0
  /\ mark' = conn[c].applying
  /\ conn' = [conn EXCEPT ![c].applying = 0]
  /\ UNCHANGED <<serverVars, state, wanted, changed, retries, clearable, seenEventIds, request, historyVars>>

-------------------------------------------------------------------------------
(* The correlated request.                                                      *)

Ask == request = "none" /\ request' = "gated" /\ UNCHANGED <<retained, conn>>

(* The attach gate. *)
Emit == request = "gated" /\ state = "open" /\ request' = "emitted" /\ UNCHANGED <<retained, conn>>

(* Every connection listens to the reply channels; the retention does, too. *)
Answer ==
  /\ request = "emitted"
  /\ request' = "replied"
  /\ retained' = TRUE
  /\ conn' = [c \in Conns |-> EmitOrBuffer(conn[c], Reply)]

(* The time is over. *)
TimeOut == request \in {"gated", "emitted", "replied"} /\ request' = "failed" /\ UNCHANGED <<retained, conn>>

(* The retention is limited in number and age. *)
Evict == retained /\ retained' = FALSE /\ UNCHANGED <<request, conn>>

RequestStep ==
  /\ Idle
  /\ Ask \/ Emit \/ Answer \/ TimeOut \/ Evict
  /\ UNCHANGED <<stored, missing, published, clientVars, historyVars>>

-------------------------------------------------------------------------------
Work(c) == Attach(c) \/ Replay(c) \/ Drain(c) \/ Opened(c) \/ LingerEnds(c) \/ Read(c) \/ Absorbed(c)

Next ==
  \/ Start \/ ChangeChannels \/ Reconnect \/ Retry
  \/ Store \/ \E e \in Events : StoreLate(e) \/ Publish(e)
  \/ \E c \in Conns : Work(c) \/ ReplayFails(c) \/ Drop(c)
  \/ RequestStep

Spec == Init /\ [][Next]_vars

-------------------------------------------------------------------------------
(* Every event is handed on at most once and in order, whatever connections     *)
(* overlap, break and replay (routes/bus.ts writeBusEvent, actor-state-unit.ts  *)
(* seenEventIds); a gap signal, a subscription without a watermark or events    *)
(* published out of order excuse it.                                            *)
Feed == INSTANCE EventFeed
ImplementsFeed == Feed!FeedSpec

Heard == {heard[i] : i \in DOMAIN heard}

Unread(c) == ToSet(conn[c].wire) \cup ToSet(conn[c].buffer)

(* Nothing is under way: the client has what it wants, the network is quiet. *)
AtRest ==
  /\ wanted /\ ~changed /\ retries = 0 /\ Idle
  /\ published = Log
  /\ \E c \in Conns : Live(c) /\ conn[c].scoped /\ conn[c].stage = "live"
  /\ \A c \in Conns : conn[c].phase # "opening" /\ Unread(c) = {}

(* At rest the client has heard every event but those that came before a        *)
(* subscription without a watermark, overtaken ones, and those a gap signal     *)
(* told it of: the resume from the watermark loses nothing.                     *)
NothingLost == AtRest => Log \subseteq Heard \cup excused

(* Connections race in any order, yet one stream at most is the live one        *)
(* (actor-state-unit.ts inflightControllers).                                   *)
OneLiveStream == \A c, d \in Conns : Live(c) /\ Live(d) => c = d

(* The state that opens the gate of busRequest means that a stream is there,    *)
(* unless a connection opened after a newer one was posted, or one of two       *)
(* recovery timers fired on an open stream.                                     *)
OpenMeansLive == state = "open" /\ ~stray => \E c \in Conns : Live(c)

(* A reply that was published while the client waits for it reaches the client  *)
(* if it is retained: it is on a connection, or a connection will ask for it,   *)
(* or one is going to be made (bus-request.ts trackReply, routes/bus.ts         *)
(* createReplyRetention).                                                       *)
ReplyNotLost ==
  request = "replied" /\ retained /\ ~stray =>
    \/ retries > 0
    \/ \E c \in Conns : Reply \in Unread(c) \/ (conn[c].awaits /\ conn[c].stage \in {"none", "replaying"})

(* Once started, the client is never left without a stream that carries what it *)
(* wants and nothing under way that would bring one, nor in a state that keeps  *)
(* requests waiting (actor-state-unit.ts transition, reconnect): the edges that *)
(* are refused, the timers that are cleared and the connections that end        *)
(* without a retry always leave another to do it.                               *)
NeverStranded ==
  state # "initial" /\ ~changed /\ retries = 0 /\ (\A c \in Conns : conn[c].phase # "opening") =>
    state = "open" /\ \E c \in Conns : Live(c) /\ conn[c].scoped = wanted
================================================================================
