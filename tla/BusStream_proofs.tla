---------------------------- MODULE BusStream_proofs ----------------------------
(* Proofs about BusStream, for any number of events, connections, faults and     *)
(* changes of the channel set.  First the course of the connections (StateInv),  *)
(* which does not depend on what is written to them: at most one stream is the   *)
(* live one, an open state means a stream, the client is never stranded.  Then   *)
(* what is on the wires and in the buffers (StreamInv): the stream implements    *)
(* the feed and loses nothing.  Last the reply that the client waits for         *)
(* (ReplyInv).                                                                   *)
EXTENDS BusStream, Ascending_proofs

Fields == {"phase", "superseded", "previous", "applying", "scoped", "from", "awaits",
           "stage", "delivered", "buffer", "wire"}

(* The part of TypeOK the course of the connections needs.                       *)
Shape ==
  /\ DOMAIN conn = Conns
  /\ \A c \in Conns : /\ DOMAIN conn[c] = Fields
                      /\ conn[c].phase \in {"free", "opening", "reading"}
                      /\ conn[c].superseded \in BOOLEAN
                      /\ conn[c].previous \subseteq Conns
  /\ conn = [c \in Conns |-> conn[c]]
  /\ state \in {"initial", "connecting", "open", "reconnecting"}
  /\ changed \in BOOLEAN
  /\ stray \in BOOLEAN
  /\ retries \in Nat

(* Only connections that are there will be superseded.                           *)
PreviousThere == \A c, d \in Conns : c \in conn[d].previous => conn[c].phase # "free"

(* An opened connection has superseded what it had to.                           *)
ReadingHasNone == \A c \in Conns : conn[c].phase = "reading" => conn[c].previous = {}

(* Of two connections that are not superseded one is going to supersede the      *)
(* other.                                                                        *)
Ordered ==
  \A c, d \in Conns :
    c # d /\ conn[c].phase # "free" /\ conn[d].phase # "free"
      /\ ~conn[c].superseded /\ ~conn[d].superseded
    => c \in conn[d].previous \/ d \in conn[c].previous

ConnInv == Shape /\ PreviousThere /\ ReadingHasNone /\ Ordered

(* Nobody supersedes the newest connection.                                      *)
Newest(c) ==
  /\ conn[c].phase # "free" /\ ~conn[c].superseded
  /\ \A d \in Conns : c \notin conn[d].previous

(* Without a recovery timer the newest connection is there, and carries what is  *)
(* wanted or a change is pending; once it is read, the state is open.            *)
NewestCarries ==
  state # "initial" /\ retries = 0 =>
    /\ state # "reconnecting"
    /\ \E c \in Conns : /\ Newest(c)
                        /\ ~changed => conn[c].scoped = wanted
                        /\ conn[c].phase = "reading" => state = "open"

(* Connections are made by steps that leave the initial state.                   *)
InitialIdle == state = "initial" => \A c \in Conns : conn[c].phase = "free"

StateInv == ConnInv /\ OpenMeansLive /\ NewestCarries /\ InitialIdle

-------------------------------------------------------------------------------
(* Most steps leave the course of the connections alone.                         *)

SameCourse(k, l) ==
  /\ DOMAIN l = DOMAIN k
  /\ l.phase = k.phase /\ l.superseded = k.superseded
  /\ l.previous = k.previous /\ l.scoped = k.scoped

CourseKept ==
  /\ DOMAIN conn' = Conns /\ conn' = [c \in Conns |-> conn'[c]]
  /\ \A c \in Conns : SameCourse(conn[c], conn'[c])

LEMMA WriteAllKeeps ==
  ASSUME NEW k, DOMAIN k = Fields, NEW frames
  PROVE  SameCourse(k, WriteAll(k, frames))
  BY DEF WriteAll, SameCourse, Fields

LEMMA EmitKeeps ==
  ASSUME NEW k, DOMAIN k = Fields, NEW f
  PROVE  SameCourse(k, EmitOrBuffer(k, f))
<1>1. CASE k.stage = "none"
  BY <1>1 DEF EmitOrBuffer, SameCourse
<1>2. CASE k.stage # "none" /\ WillReplay(k) /\ k.stage # "live"
  BY <1>2 DEF EmitOrBuffer, SameCourse, Fields
<1>3. CASE k.stage # "none" /\ ~(WillReplay(k) /\ k.stage # "live")
  BY <1>3, WriteAllKeeps DEF EmitOrBuffer, Write
<1>4. QED
  BY <1>1, <1>2, <1>3

(* Changing one connection keeps the course of all if it keeps that of the one.  *)
LEMMA OneChanged ==
  ASSUME Shape, NEW c \in Conns, NEW k, SameCourse(conn[c], k),
         conn' = [conn EXCEPT ![c] = k]
  PROVE  CourseKept
  BY DEF Shape, CourseKept, SameCourse

LEMMA NoneChanged ==
  ASSUME Shape, conn' = conn
  PROVE  CourseKept
  BY DEF Shape, CourseKept, SameCourse

(* The steps of the gateway.                                                     *)
LEMMA PublishKeeps ==
  ASSUME Shape, NEW e \in Events, Publish(e)
  PROVE  CourseKept
<1>1. conn' = [c \in Conns |-> IF conn[c].scoped THEN EmitOrBuffer(conn[c], e) ELSE conn[c]]
  BY DEF Publish
<1>2. \A c \in Conns : SameCourse(conn[c], EmitOrBuffer(conn[c], e))
  BY EmitKeeps DEF Shape
<1>3. \A c \in Conns : SameCourse(conn[c], conn[c])
  BY DEF SameCourse
<1>4. QED
  BY <1>1, <1>2, <1>3 DEF CourseKept

LEMMA AttachKeeps ==
  ASSUME Shape, NEW c \in Conns, Attach(c)
  PROVE  CourseKept
<1>1. conn' = [conn EXCEPT ![c] = [conn[c] EXCEPT !.stage = "replaying"]]
  BY DEF Attach
<1>2. SameCourse(conn[c], [conn[c] EXCEPT !.stage = "replaying"])
  BY DEF Shape, SameCourse, Fields
<1>3. QED
  BY <1>1, <1>2, OneChanged

LEMMA WrittenKeeps ==
  ASSUME Shape, NEW c \in Conns, NEW frames, NEW stage,
         conn' = [conn EXCEPT ![c] = [WriteAll(conn[c], frames) EXCEPT !.stage = stage]]
  PROVE  CourseKept
<1>1. SameCourse(conn[c], WriteAll(conn[c], frames)) /\ DOMAIN conn[c] = Fields
  BY WriteAllKeeps DEF Shape
<1> DEFINE k == WriteAll(conn[c], frames)
<1>2. SameCourse(conn[c], [k EXCEPT !.stage = stage])
  <2> HIDE DEF k
  <2>1. SameCourse(conn[c], k) /\ DOMAIN conn[c] = Fields
    BY <1>1 DEF k
  <2>2. QED
    BY <2>1 DEF SameCourse, Fields
<1>3. QED
  BY <1>2, OneChanged

LEMMA DrainKeeps ==
  ASSUME Shape, NEW c \in Conns, Drain(c)
  PROVE  CourseKept
<1> DEFINE k == WriteAll(conn[c], conn[c].buffer)
<1>1. SameCourse(conn[c], k) /\ DOMAIN conn[c] = Fields
  BY WriteAllKeeps DEF Shape
<1>2. conn' = [conn EXCEPT ![c] = [k EXCEPT !.stage = "live", !.buffer = <<>>]]
  BY DEF Drain
<1> HIDE DEF k
<1>3. SameCourse(conn[c], [k EXCEPT !.stage = "live", !.buffer = <<>>])
  BY <1>1 DEF SameCourse, Fields
<1>4. QED
  BY <1>2, <1>3, OneChanged

LEMMA ReplayKeeps ==
  ASSUME Shape, NEW c \in Conns, Replay(c) \/ ReplayFails(c)
  PROVE  CourseKept
<1>1. CASE Replay(c)
  BY <1>1, WrittenKeeps DEF Replay
<1>2. CASE ReplayFails(c)
  BY <1>2, WrittenKeeps DEF ReplayFails
<1>3. QED
  BY <1>1, <1>2

(* The steps of the read loop.                                                   *)
LEMMA NextFrameKeeps ==
  ASSUME Shape, NEW c \in Conns
  PROVE  /\ \A d \in Conns : SameCourse(conn[d], NextFrame(c)[d])
         /\ DOMAIN NextFrame(c) = Conns
         /\ NextFrame(c) = [d \in Conns |-> NextFrame(c)[d]]
  BY DEF Shape, NextFrame, SameCourse, Fields

LEMMA ReadKeeps ==
  ASSUME Shape, NEW c \in Conns, Read(c)
  PROVE  CourseKept
<1>1. CASE conn' = NextFrame(c)
  BY <1>1, NextFrameKeeps DEF CourseKept
<1>2. CASE \E e : conn' = [NextFrame(c) EXCEPT ![c].applying = e]
  <2>1. PICK e : conn' = [NextFrame(c) EXCEPT ![c].applying = e]
    BY <1>2
  <2> DEFINE k == NextFrame(c)
  <2>2. /\ \A d \in Conns : SameCourse(conn[d], k[d]) /\ DOMAIN conn[d] = Fields
        /\ DOMAIN k = Conns
    BY NextFrameKeeps DEF Shape
  <2> HIDE DEF k
  <2>3. conn' = [k EXCEPT ![c].applying = e]
    BY <2>1 DEF k
  <2>4. SameCourse(conn[c], [k[c] EXCEPT !.applying = e])
    BY <2>2 DEF SameCourse, Fields
  <2>5. QED
    BY <2>2, <2>3, <2>4 DEF CourseKept
<1>3. QED
  BY <1>1, <1>2 DEF Read, SkipDuplicate, HandOn, HandOnGap, HandOnReply

LEMMA AbsorbedKeeps ==
  ASSUME Shape, NEW c \in Conns, Absorbed(c)
  PROVE  CourseKept
<1>1. conn' = [conn EXCEPT ![c] = [conn[c] EXCEPT !.applying = 0]]
  BY DEF Absorbed
<1>2. SameCourse(conn[c], [conn[c] EXCEPT !.applying = 0])
  BY DEF Shape, SameCourse, Fields
<1>3. QED
  BY <1>1, <1>2, OneChanged

LEMMA RequestKeeps ==
  ASSUME Shape, RequestStep
  PROVE  CourseKept
<1>1. CASE conn' = conn
  BY <1>1, NoneChanged
<1>2. CASE conn' = [c \in Conns |-> EmitOrBuffer(conn[c], Reply)]
  BY <1>2, EmitKeeps DEF CourseKept, Shape
<1>3. QED
  BY <1>1, <1>2 DEF RequestStep, Ask, Emit, Answer, TimeOut, Evict

-------------------------------------------------------------------------------
(* A step that keeps the course of the connections, and what the state machine   *)
(* and its timers hold, keeps the invariant.                                     *)
LEMMA CourseKeepsInv ==
  ASSUME ConnInv, CourseKept, UNCHANGED <<state, changed, retries, stray>>
  PROVE  ConnInv'
<1>1. \A c \in Conns : SameCourse(conn[c], conn'[c])
  BY DEF CourseKept
<1>2. Shape'
  BY <1>1 DEF ConnInv, Shape, CourseKept, SameCourse
<1>3. PreviousThere' /\ ReadingHasNone' /\ Ordered'
  BY <1>1 DEF ConnInv, PreviousThere, ReadingHasNone, Ordered, SameCourse
<1>4. QED
  BY <1>2, <1>3 DEF ConnInv

LEMMA CourseKeepsState ==
  ASSUME StateInv, CourseKept, UNCHANGED <<state, wanted, changed, retries, stray>>
  PROVE  StateInv'
<1>1. \A c \in Conns : SameCourse(conn[c], conn'[c])
  BY DEF CourseKept
<1>2. ConnInv'
  BY CourseKeepsInv DEF StateInv
<1>3. OpenMeansLive'
  BY <1>1 DEF StateInv, OpenMeansLive, Live, SameCourse
<1>4. NewestCarries'
  <2>1. SUFFICES ASSUME state # "initial", retries = 0
                 PROVE  NewestCarries'
    BY DEF NewestCarries
  <2>2. PICK c \in Conns : /\ Newest(c)
                           /\ ~changed => conn[c].scoped = wanted
                           /\ conn[c].phase = "reading" => state = "open"
    BY <2>1 DEF StateInv, NewestCarries
  <2>3. Newest(c)'
    BY <1>1, <2>2 DEF Newest, SameCourse
  <2>4. SameCourse(conn[c], conn'[c])
    BY <1>1
  <2>5. state # "reconnecting"
    BY <2>1 DEF StateInv, NewestCarries
  <2>6. QED
    BY <2>2, <2>3, <2>4, <2>5 DEF NewestCarries, SameCourse
<1>5. InitialIdle'
  BY <1>1 DEF StateInv, InitialIdle, SameCourse
<1>6. QED
  BY <1>2, <1>3, <1>4, <1>5 DEF StateInv

-------------------------------------------------------------------------------
(* The steps that open and end connections.                                      *)

LEMMA GoneIs ==
  ASSUME Shape, NEW S \in SUBSET Conns
  PROVE  /\ DOMAIN Gone(S, conn) = Conns
         /\ Gone(S, conn) = [c \in Conns |-> Gone(S, conn)[c]]
         /\ \A c \in S : Gone(S, conn)[c] = Free
         /\ \A c \in Conns \ S : /\ DOMAIN Gone(S, conn)[c] = Fields
                                 /\ Gone(S, conn)[c].phase = conn[c].phase
                                 /\ Gone(S, conn)[c].superseded = conn[c].superseded
                                 /\ Gone(S, conn)[c].scoped = conn[c].scoped
                                 /\ Gone(S, conn)[c].previous = conn[c].previous \ S
  BY DEF Gone, Shape, Fields

LEMMA FreeIs ==
  /\ DOMAIN Free = Fields
  /\ Free.phase = "free" /\ Free.superseded = FALSE /\ Free.previous = {}
  /\ Free.scoped = FALSE
  BY DEF Free, Fields

(* What ends leaves the others as they were.                                     *)
LEMMA GoneKeepsInv ==
  ASSUME ConnInv, NEW S \in SUBSET Conns, conn' = Gone(S, conn), Shape'
  PROVE  PreviousThere' /\ ReadingHasNone' /\ Ordered'
<1>1. \A c \in S : conn'[c].phase = "free" /\ conn'[c].previous = {}
  BY GoneIs, FreeIs DEF ConnInv
<1>2. \A c \in Conns \ S : /\ conn'[c].phase = conn[c].phase
                           /\ conn'[c].superseded = conn[c].superseded
                           /\ conn'[c].previous = conn[c].previous \ S
  BY GoneIs DEF ConnInv
<1>3. PreviousThere'
  BY <1>1, <1>2 DEF ConnInv, PreviousThere
<1>4. ReadingHasNone'
  BY <1>1, <1>2 DEF ConnInv, ReadingHasNone
<1>5. Ordered'
  BY <1>1, <1>2 DEF ConnInv, Ordered
<1>6. QED
  BY <1>3, <1>4, <1>5

(* What connect makes is the newest connection.                                  *)
Posted(c, previous) ==
  /\ DOMAIN conn'[c] = Fields
  /\ conn'[c].phase = "opening" /\ conn'[c].superseded = FALSE
  /\ conn'[c].previous = previous /\ conn'[c].scoped = wanted

(* Make before break: the others stay, and will be superseded.                   *)
LEMMA ConnectBesides ==
  ASSUME ConnInv, NEW c \in Conns, Connect(c, TRUE), Shape'
  PROVE  PreviousThere' /\ ReadingHasNone' /\ Ordered' /\ Newest(c)' /\ Posted(c, InFlight)
<1>1. conn[c] = Free /\ conn[c].phase = "free"
  BY FreeIs DEF Connect
<1>2. Posted(c, InFlight)
  BY FreeIs DEF Connect, ConnInv, Shape, Posted, Free, Fields
<1>3. \A d \in Conns \ {c} : conn'[d] = conn[d]
  BY DEF Connect, ConnInv, Shape
<1>4. c \notin InFlight /\ \A d \in Conns : d \in InFlight <=> conn[d].phase # "free"
  BY <1>1 DEF InFlight
<1>5. \A d \in Conns : c \notin conn[d].previous
  BY <1>1 DEF ConnInv, PreviousThere
<1>6. Newest(c)'
  BY <1>2, <1>3, <1>4, <1>5 DEF Newest, Posted
<1>7. PreviousThere'
  BY <1>2, <1>3, <1>4 DEF ConnInv, PreviousThere, Posted
<1>8. ReadingHasNone'
  BY <1>2, <1>3 DEF ConnInv, ReadingHasNone, Posted
<1>9. Ordered'
  BY <1>2, <1>3, <1>4 DEF ConnInv, Ordered, Posted
<1>10. QED
  BY <1>2, <1>6, <1>7, <1>8, <1>9

(* Otherwise the new connection is the only one.                                 *)
LEMMA ConnectAlone ==
  ASSUME ConnInv, NEW c \in Conns, Connect(c, FALSE), Shape'
  PROVE  PreviousThere' /\ ReadingHasNone' /\ Ordered' /\ Newest(c)' /\ Posted(c, {})
<1> DEFINE kept == Gone(InFlight, conn)
<1>1. InFlight \in SUBSET Conns /\ \A d \in Conns : d \in InFlight <=> conn[d].phase # "free"
  BY DEF InFlight
<1>2. DOMAIN kept = Conns /\ \A d \in Conns : kept[d].phase = "free" /\ kept[d].previous = {}
  <2>1. \A d \in InFlight : kept[d].phase = "free" /\ kept[d].previous = {}
    BY <1>1, GoneIs, FreeIs DEF ConnInv
  <2>2. \A d \in Conns \ InFlight : kept[d].phase = "free" /\ kept[d].previous = conn[d].previous \ InFlight
    BY <1>1, GoneIs DEF ConnInv
  <2>3. \A d \in Conns \ InFlight : kept[d].previous = {}
    <3>1. \A d \in Conns : conn[d].previous \subseteq InFlight
      BY <1>1 DEF ConnInv, Shape, PreviousThere
    <3>2. QED
      BY <2>2, <3>1
  <2>4. QED
    BY <1>1, <2>1, <2>2, <2>3, GoneIs DEF ConnInv
<1>3. conn' = [kept EXCEPT ![c] = [Free EXCEPT
                !.phase = "opening", !.previous = {},
                !.scoped = wanted, !.from = IF wanted THEN mark ELSE 0,
                !.awaits = request \in {"emitted", "replied"}]]
  BY DEF Connect
<1> HIDE DEF kept
<1>4. Posted(c, {})
  BY <1>2, <1>3, FreeIs DEF Posted, Free, Fields
<1>5. \A d \in Conns \ {c} : conn'[d] = kept[d]
  BY <1>2, <1>3
<1>6. QED
  BY <1>2, <1>4, <1>5 DEF Posted, Newest, PreviousThere, ReadingHasNone, Ordered

(* The types after a connect.                                                    *)
LEMMA ConnectShape ==
  ASSUME ConnInv, NEW c \in Conns, NEW keep \in BOOLEAN, Connect(c, keep)
  PROVE  /\ DOMAIN conn' = Conns /\ conn' = [d \in Conns |-> conn'[d]]
         /\ \A d \in Conns : /\ DOMAIN conn'[d] = Fields
                             /\ conn'[d].phase \in {"free", "opening", "reading"}
                             /\ conn'[d].superseded \in BOOLEAN
                             /\ conn'[d].previous \subseteq Conns
<1> DEFINE kept == IF keep THEN conn ELSE Gone(InFlight, conn)
           new == [Free EXCEPT
                !.phase = "opening", !.previous = IF keep THEN InFlight ELSE {},
                !.scoped = wanted, !.from = IF wanted THEN mark ELSE 0,
                !.awaits = request \in {"emitted", "replied"}]
<1>1. InFlight \in SUBSET Conns
  BY DEF InFlight
<1>2. /\ DOMAIN kept = Conns /\ kept = [d \in Conns |-> kept[d]]
      /\ \A d \in Conns : /\ DOMAIN kept[d] = Fields
                          /\ kept[d].phase \in {"free", "opening", "reading"}
                          /\ kept[d].superseded \in BOOLEAN
                          /\ kept[d].previous \subseteq Conns
  <2>1. CASE keep
    BY <2>1 DEF ConnInv, Shape
  <2>2. CASE ~keep
    <3>1. kept = Gone(InFlight, conn)
      BY <2>2
    <3> HIDE DEF kept
    <3>2. Shape
      BY DEF ConnInv
    <3>3. \A d \in InFlight : kept[d] = Free
      BY <1>1, <3>1, <3>2, GoneIs
    <3>4. \A d \in Conns \ InFlight :
            /\ DOMAIN kept[d] = Fields /\ kept[d].phase = conn[d].phase
            /\ kept[d].superseded = conn[d].superseded
            /\ kept[d].previous = conn[d].previous \ InFlight
      BY <1>1, <3>1, <3>2, GoneIs
    <3>5. DOMAIN kept = Conns /\ kept = [d \in Conns |-> kept[d]]
      BY <1>1, <3>1, <3>2, GoneIs
    <3>6. QED
      BY <3>2, <3>3, <3>4, <3>5, FreeIs DEF Shape
  <2>3. QED
    BY <2>1, <2>2
<1>3. conn' = [kept EXCEPT ![c] = new]
  BY DEF Connect
<1>4. /\ DOMAIN new = Fields /\ new.phase = "opening" /\ new.superseded = FALSE
      /\ new.previous \subseteq Conns
  BY <1>1, FreeIs DEF Free, Fields
<1> HIDE DEF kept, new
<1>5. QED
  BY <1>2, <1>3, <1>4

LEMMA ConnectKeepsInv ==
  ASSUME ConnInv, NEW c \in Conns, NEW keep \in BOOLEAN, Connect(c, keep),
         state' \in {"connecting", "open"}, changed' \in BOOLEAN, stray' \in BOOLEAN,
         retries' \in Nat
  PROVE  /\ ConnInv' /\ Newest(c)'
         /\ conn'[c].phase = "opening" /\ conn'[c].scoped = wanted
<1>1. Shape'
  BY ConnectShape DEF Shape
<1>2. CASE keep = TRUE
  BY <1>1, <1>2, ConnectBesides DEF ConnInv, Posted
<1>3. CASE keep = FALSE
  BY <1>1, <1>3, ConnectAlone DEF ConnInv, Posted
<1>4. QED
  BY <1>2, <1>3

(* A step that connects keeps the invariant, if an open state that stays is      *)
(* marked as stray.                                                              *)
LEMMA ConnectKeepsState ==
  ASSUME StateInv, NEW c \in Conns, NEW keep \in BOOLEAN, Connect(c, keep),
         state' \in {"connecting", "open"}, changed' \in BOOLEAN, stray' \in BOOLEAN,
         retries' \in Nat, wanted' = wanted, state' = "open" => stray'
  PROVE  StateInv'
<1>1. /\ ConnInv' /\ Newest(c)'
      /\ conn'[c].phase = "opening" /\ conn'[c].scoped = wanted
  BY ConnectKeepsInv DEF StateInv
<1>2. OpenMeansLive'
  BY DEF OpenMeansLive
<1>3. NewestCarries'
  BY <1>1 DEF NewestCarries
<1>4. QED
  BY <1>1, <1>2, <1>3 DEF StateInv, InitialIdle

(* A connection that ends.                                                       *)
LEMMA EndShape ==
  ASSUME Shape, NEW c \in Conns, conn' = Gone({c}, conn), retries' \in Nat,
         state' \in {"initial", "connecting", "open", "reconnecting"},
         changed' = changed, stray' = stray
  PROVE  /\ Shape'
         /\ conn'[c].phase = "free"
         /\ \A d \in Conns \ {c} : /\ conn'[d].phase = conn[d].phase
                                   /\ conn'[d].superseded = conn[d].superseded
                                   /\ conn'[d].scoped = conn[d].scoped
                                   /\ conn'[d].previous \subseteq conn[d].previous
         /\ conn'[c].previous = {}
<1> DEFINE S == {c}
<1>a. S \in SUBSET Conns /\ c \in S /\ conn' = Gone(S, conn)
  OBVIOUS
<1> HIDE DEF S
<1>1. conn'[c] = Free
  BY <1>a, GoneIs
<1>2. \A d \in Conns \ S : /\ DOMAIN conn'[d] = Fields
                           /\ conn'[d].phase = conn[d].phase
                           /\ conn'[d].superseded = conn[d].superseded
                           /\ conn'[d].scoped = conn[d].scoped
                           /\ conn'[d].previous = conn[d].previous \ S
  <2> DEFINE left == Gone(S, conn)
  <2>1. \A d \in Conns \ S : /\ DOMAIN left[d] = Fields
                             /\ left[d].phase = conn[d].phase
                             /\ left[d].superseded = conn[d].superseded
                             /\ left[d].scoped = conn[d].scoped
                             /\ left[d].previous = conn[d].previous \ S
    BY <1>a, GoneIs
  <2>2. conn' = left
    BY <1>a
  <2> HIDE DEF left
  <2>3. QED
    BY <2>1, <2>2
<1>3. DOMAIN conn' = Conns /\ conn' = [d \in Conns |-> conn'[d]]
  BY <1>a, GoneIs
<1>4. QED
  BY <1>1, <1>2, <1>3, FreeIs DEF Shape, S

LEMMA SupersededEnds ==
  ASSUME StateInv, NEW c \in Conns, conn[c].superseded, conn' = Gone({c}, conn),
         UNCHANGED <<state, wanted, changed, retries, stray>>
  PROVE  StateInv'
<1>1. /\ Shape'
      /\ conn'[c].phase = "free" /\ conn'[c].previous = {}
      /\ \A d \in Conns \ {c} : /\ conn'[d].phase = conn[d].phase
                                /\ conn'[d].superseded = conn[d].superseded
                                /\ conn'[d].scoped = conn[d].scoped
                                /\ conn'[d].previous \subseteq conn[d].previous
  <2>1. Shape
    BY DEF StateInv, ConnInv
  <2>2. /\ retries' \in Nat /\ changed' = changed /\ stray' = stray
        /\ state' \in {"initial", "connecting", "open", "reconnecting"}
    BY <2>1 DEF Shape
  <2>3. QED
    BY <2>1, <2>2, EndShape
<1>2. ConnInv'
  BY <1>1, GoneKeepsInv DEF StateInv, ConnInv
<1>3. OpenMeansLive'
  BY <1>1 DEF StateInv, OpenMeansLive, Live
<1>4. NewestCarries'
  <2>1. SUFFICES ASSUME state # "initial", retries = 0
                 PROVE  NewestCarries'
    BY DEF NewestCarries
  <2>2. PICK d \in Conns : /\ Newest(d)
                           /\ ~changed => conn[d].scoped = wanted
                           /\ conn[d].phase = "reading" => state = "open"
    BY <2>1 DEF StateInv, NewestCarries
  <2>3. d # c
    BY <2>2 DEF Newest
  <2>4. Newest(d)'
    BY <1>1, <2>2, <2>3 DEF Newest
  <2>5. state # "reconnecting"
    BY <2>1 DEF StateInv, NewestCarries
  <2>6. QED
    BY <1>1, <2>2, <2>3, <2>4, <2>5 DEF NewestCarries
<1>5. InitialIdle'
  BY <1>1 DEF StateInv, InitialIdle
<1>6. QED
  BY <1>2, <1>3, <1>4, <1>5 DEF StateInv

LEMMA DropKeepsState ==
  ASSUME StateInv, NEW c \in Conns, Drop(c)
  PROVE  StateInv'
<1>1. CASE conn[c].superseded
  BY <1>1, SupersededEnds DEF Drop
<1>2. CASE ~conn[c].superseded
  <2>1. /\ conn' = Gone({c}, conn) /\ state' = "reconnecting" /\ retries' = retries + 1
        /\ UNCHANGED <<wanted, changed, stray>>
    BY <1>2 DEF Drop
  <2>2. retries' \in Nat /\ retries' # 0
    BY <2>1 DEF StateInv, ConnInv, Shape
  <2>3. Shape'
    BY <2>1, <2>2, EndShape DEF StateInv, ConnInv
  <2>4. ConnInv'
    BY <2>1, <2>3, GoneKeepsInv DEF StateInv, ConnInv
  <2>5. QED
    BY <2>1, <2>2, <2>4 DEF StateInv, OpenMeansLive, NewestCarries, InitialIdle
<1>3. QED
  BY <1>1, <1>2

(* The response has come.                                                        *)
LEMMA OpenedKeepsState ==
  ASSUME StateInv, NEW c \in Conns, Opened(c)
  PROVE  StateInv'
<1>1. /\ conn[c].phase = "opening"
      /\ conn' = [d \in Conns |->
           IF d = c THEN [conn[c] EXCEPT !.phase = "reading", !.previous = {}]
           ELSE [conn[d] EXCEPT !.superseded = @ \/ d \in conn[c].previous]]
      /\ state' = IF state = "reconnecting" THEN state ELSE "open"
      /\ stray' = (stray \/ conn[c].superseded \/ \E d \in Conns : c \in conn[d].previous)
      /\ UNCHANGED <<wanted, changed, retries>>
  BY DEF Opened
<1>2. Shape
  BY DEF StateInv, ConnInv
<1>3. /\ DOMAIN conn'[c] = Fields
      /\ conn'[c].phase = "reading" /\ conn'[c].previous = {}
      /\ conn'[c].superseded = conn[c].superseded /\ conn'[c].scoped = conn[c].scoped
  <2>1. conn'[c] = [conn[c] EXCEPT !.phase = "reading", !.previous = {}]
    BY <1>1
  <2>2. QED
    BY <1>2, <2>1 DEF Shape, Fields
<1>4. \A d \in Conns \ {c} :
        /\ DOMAIN conn'[d] = Fields
        /\ conn'[d].phase = conn[d].phase /\ conn'[d].previous = conn[d].previous
        /\ conn'[d].superseded \in BOOLEAN
        /\ conn'[d].superseded <=> conn[d].superseded \/ d \in conn[c].previous
        /\ conn'[d].scoped = conn[d].scoped
  <2>1. SUFFICES ASSUME NEW d \in Conns \ {c}
                 PROVE  /\ DOMAIN conn'[d] = Fields
                        /\ conn'[d].phase = conn[d].phase /\ conn'[d].previous = conn[d].previous
                        /\ conn'[d].superseded \in BOOLEAN
                        /\ conn'[d].superseded <=> conn[d].superseded \/ d \in conn[c].previous
                        /\ conn'[d].scoped = conn[d].scoped
    OBVIOUS
  <2> DEFINE now == conn[d].superseded \/ d \in conn[c].previous
  <2>2. conn'[d] = [conn[d] EXCEPT !.superseded = now]
    BY <1>1
  <2>3. now \in BOOLEAN
    OBVIOUS
  <2>4. DOMAIN conn[d] = Fields
    BY <1>2 DEF Shape
  <2> HIDE DEF now
  <2>5. /\ DOMAIN conn'[d] = Fields
        /\ conn'[d].phase = conn[d].phase /\ conn'[d].previous = conn[d].previous
        /\ conn'[d].superseded = now
        /\ conn'[d].scoped = conn[d].scoped
    BY <2>2, <2>4 DEF Fields
  <2>6. QED
    BY <2>3, <2>5 DEF now
<1>5. Shape'
  <2>1. DOMAIN conn' = Conns /\ conn' = [d \in Conns |-> conn'[d]]
    BY <1>1
  <2>2. stray' \in BOOLEAN
    BY <1>1, <1>2 DEF Shape
  <2>3. \A d \in Conns : /\ DOMAIN conn'[d] = Fields
                         /\ conn'[d].phase \in {"free", "opening", "reading"}
                         /\ conn'[d].superseded \in BOOLEAN
                         /\ conn'[d].previous \subseteq Conns
    BY <1>2, <1>3, <1>4 DEF Shape
  <2>4. QED
    BY <1>1, <1>2, <2>1, <2>2, <2>3 DEF Shape
<1>6. PreviousThere'
  BY <1>1, <1>3, <1>4 DEF StateInv, ConnInv, PreviousThere
<1>7. ReadingHasNone'
  BY <1>3, <1>4 DEF StateInv, ConnInv, ReadingHasNone
<1>8. Ordered'
  <2>1. SUFFICES ASSUME NEW d \in Conns, NEW e \in Conns, d # e,
                        conn'[d].phase # "free", conn'[e].phase # "free",
                        ~conn'[d].superseded, ~conn'[e].superseded
                 PROVE  d \in conn'[e].previous \/ e \in conn'[d].previous
    BY DEF Ordered
  <2>2. \A f \in Conns : /\ conn'[f].phase # "free" => conn[f].phase # "free"
                         /\ ~conn'[f].superseded => ~conn[f].superseded
    BY <1>1, <1>3, <1>4
  <2>3. d \in conn[e].previous \/ e \in conn[d].previous
    BY <2>1, <2>2 DEF StateInv, ConnInv, Ordered
  <2>4. CASE d = c
    BY <1>4, <2>1, <2>3, <2>4
  <2>5. CASE e = c
    BY <1>4, <2>1, <2>3, <2>5
  <2>6. CASE d # c /\ e # c
    BY <1>4, <2>3, <2>6
  <2>7. QED
    BY <2>4, <2>5, <2>6
<1>9. OpenMeansLive'
  BY <1>1, <1>3 DEF OpenMeansLive, Live
<1>10. state # "initial"
  BY <1>1 DEF StateInv, InitialIdle
<1>11. NewestCarries'
  <2>1. SUFFICES ASSUME retries = 0
                 PROVE  NewestCarries'
    BY <1>1 DEF NewestCarries
  <2>2. PICK d \in Conns : /\ Newest(d)
                           /\ ~changed => conn[d].scoped = wanted
                           /\ conn[d].phase = "reading" => state = "open"
    BY <1>10, <2>1 DEF StateInv, NewestCarries
  <2>3. state' = "open"
    BY <1>1, <1>10, <2>1 DEF StateInv, NewestCarries
  <2>4. Newest(d)'
    BY <1>3, <1>4, <2>2 DEF Newest
  <2>5. conn'[d].scoped = conn[d].scoped
    BY <1>3, <1>4
  <2>6. QED
    BY <1>1, <2>2, <2>3, <2>4, <2>5 DEF NewestCarries
<1>12. InitialIdle'
  BY <1>1, <1>10 DEF InitialIdle
<1>13. QED
  BY <1>5, <1>6, <1>7, <1>8, <1>9, <1>11, <1>12 DEF StateInv, ConnInv

-------------------------------------------------------------------------------
(* The invariant.                                                                *)

LEMMA InitState ==
  ASSUME Init
  PROVE  StateInv
<1>1. \A c \in Conns : conn[c] = Free
  BY DEF Init
<1>2. Shape
  <2>1. wanted \in BOOLEAN /\ changed \in {FALSE, wanted}
    BY DEF Init
  <2>2. changed \in BOOLEAN
    BY <2>1
  <2>3. /\ DOMAIN conn = Conns /\ conn = [c \in Conns |-> conn[c]]
        /\ state = "initial" /\ stray = FALSE /\ retries = 0
    BY DEF Init
  <2>4. QED
    BY <1>1, <2>2, <2>3, FreeIs DEF Shape
<1>3. PreviousThere /\ ReadingHasNone /\ Ordered /\ InitialIdle
  BY <1>1, FreeIs DEF PreviousThere, ReadingHasNone, Ordered, InitialIdle
<1>4. OpenMeansLive /\ NewestCarries
  BY DEF Init, OpenMeansLive, NewestCarries
<1>5. QED
  BY <1>2, <1>3, <1>4 DEF StateInv, ConnInv

LEMMA StartKeepsState ==
  ASSUME StateInv, Start
  PROVE  StateInv'
<1>1. PICK c \in Conns : Connect(c, FALSE)
  BY DEF Start
<1>2. /\ state' = "connecting" /\ wanted' = wanted
      /\ changed' \in BOOLEAN /\ stray' \in BOOLEAN /\ retries' \in Nat
  BY DEF Start, historyVars, StateInv, ConnInv, Shape
<1>3. QED
  BY <1>1, <1>2, ConnectKeepsState

(* The recovery timer that can be cleared is one of the pending ones.            *)
TimersInv ==
  /\ retries \in Nat /\ clearable \in BOOLEAN
  /\ clearable => retries > 0

LEMMA TimersStep ==
  ASSUME TimersInv, [Next]_vars
  PROVE  TimersInv'
<1>1. CASE UNCHANGED <<retries, clearable>>
  BY <1>1 DEF TimersInv
<1>0. /\ retries \in Nat /\ clearable \in BOOLEAN /\ (clearable => retries > 0)
      /\ \A n \in Nat : n + 1 \in Nat /\ n + 1 > 0 /\ (n > 0 => n - 1 \in Nat) /\ (n > 1 => n - 1 > 0)
  BY DEF TimersInv
<1>2. CASE Reconnect
  <2>1. retries' = (IF clearable THEN retries - 1 ELSE retries) /\ clearable' = FALSE
    BY <1>2 DEF Reconnect, ClearRetry
  <2>2. QED
    BY <1>0, <2>1 DEF TimersInv
<1>3. CASE Retry
  <2>1. retries > 0 /\ retries' = retries - 1 /\ clearable' = (clearable /\ retries > 1)
    BY <1>3 DEF Retry
  <2>2. clearable' \in BOOLEAN /\ (clearable' => retries > 1)
    BY <2>1
  <2>3. retries' \in Nat /\ (retries > 1 => retries' > 0)
    BY <1>0, <2>1
  <2>4. QED
    BY <2>2, <2>3 DEF TimersInv
<1>4. ASSUME NEW c \in Conns, Drop(c) PROVE TimersInv'
  <2>1. CASE conn[c].superseded
    BY <1>1, <1>4, <2>1 DEF Drop
  <2>2. CASE ~ conn[c].superseded
    BY <1>0, <1>4, <2>2 DEF Drop, TimersInv
  <2>3. QED
    BY <2>1, <2>2
<1>5. CASE Start \/ ChangeChannels \/ Store \/ RequestStep \/ UNCHANGED vars
  BY <1>1, <1>5 DEF Start, ChangeChannels, Store, RequestStep, vars, clientVars
<1>6. CASE \E e \in Events : StoreLate(e) \/ Publish(e)
  BY <1>1, <1>6 DEF StoreLate, Publish, clientVars
<1>7. CASE \E c \in Conns : \/ Attach(c) \/ Replay(c) \/ Drain(c) \/ ReplayFails(c)
                           \/ Opened(c) \/ LingerEnds(c) \/ Read(c) \/ Absorbed(c)
  BY <1>1, <1>7 DEF Attach, Replay, Drain, ReplayFails, Opened, LingerEnds, Read, Absorbed, clientVars
<1>8. QED
  BY <1>2, <1>3, <1>4, <1>5, <1>6, <1>7 DEF Next, Work

LEMMA TimersInvariant == Spec => []TimersInv
<1>1. Init => TimersInv
  <2>1. SUFFICES ASSUME Init PROVE TimersInv
    OBVIOUS
  <2>2. retries = 0 /\ clearable = FALSE
    BY <2>1, Zenon DEF Init
  <2>3. 0 \in Nat /\ FALSE \in BOOLEAN
    OBVIOUS
  <2>4. QED
    BY <2>2, <2>3, Zenon DEF TimersInv
<1>2. TimersInv /\ [Next]_vars => TimersInv'
  BY TimersStep
<1>3. QED
  BY <1>1, <1>2, PTL DEF Spec

LEMMA ReconnectKeepsState ==
  ASSUME StateInv, Reconnect, retries' \in Nat
  PROVE  StateInv'
<1>1. PICK c \in Conns : Connect(c, TRUE)
  BY DEF Reconnect
<1>2. /\ state' = "connecting" /\ wanted' = wanted
      /\ changed' \in BOOLEAN /\ stray' \in BOOLEAN
  BY DEF Reconnect, historyVars, StateInv, ConnInv, Shape
<1>3. QED
  BY <1>1, <1>2, ConnectKeepsState

LEMMA RetryKeepsState ==
  ASSUME StateInv, Retry
  PROVE  StateInv'
<1>1. PICK c \in Conns : Connect(c, FALSE)
  BY DEF Retry
<1>2. /\ state' \in {"connecting", "open"} /\ (state' = "open" => stray')
      /\ changed' \in BOOLEAN /\ stray' \in BOOLEAN /\ wanted' = wanted
  BY DEF Retry, StateInv, ConnInv, Shape
<1>3. retries' \in Nat
  BY DEF Retry, StateInv, ConnInv, Shape
<1>4. QED
  BY <1>1, <1>2, <1>3, ConnectKeepsState

LEMMA ChangeKeepsState ==
  ASSUME StateInv, ChangeChannels
  PROVE  StateInv'
<1>1. /\ UNCHANGED <<conn, state, retries, stray>> /\ changed' = TRUE
  BY DEF ChangeChannels
<1>2. Shape' /\ PreviousThere' /\ ReadingHasNone' /\ Ordered'
  BY <1>1 DEF StateInv, ConnInv, Shape, PreviousThere, ReadingHasNone, Ordered
<1>3. OpenMeansLive' /\ InitialIdle'
  BY <1>1 DEF StateInv, OpenMeansLive, Live, InitialIdle
<1>4. NewestCarries'
  BY <1>1 DEF StateInv, NewestCarries, Newest
<1>5. QED
  BY <1>2, <1>3, <1>4 DEF StateInv, ConnInv

(* The steps that leave the course of the connections alone.                     *)
LEMMA QuietStep ==
  ASSUME StateInv,
         \/ Store
         \/ \E e \in Events : StoreLate(e) \/ Publish(e)
         \/ \E c \in Conns : \/ Attach(c) \/ Replay(c) \/ Drain(c) \/ ReplayFails(c)
                             \/ Read(c) \/ Absorbed(c)
         \/ RequestStep
         \/ UNCHANGED vars
  PROVE  CourseKept /\ UNCHANGED <<state, wanted, changed, retries, stray>>
<1>1. Shape
  BY DEF StateInv, ConnInv
<1>2. CASE Store \/ \E e \in Events : StoreLate(e)
  BY <1>1, <1>2, NoneChanged DEF Store, StoreLate, clientVars, historyVars
<1>3. CASE \E e \in Events : Publish(e)
  BY <1>1, <1>3, PublishKeeps DEF Publish, clientVars
<1>4. ASSUME NEW c \in Conns, Attach(c) PROVE CourseKept /\ UNCHANGED <<clientVars, stray>>
  BY <1>1, <1>4, AttachKeeps DEF Attach
<1>5. ASSUME NEW c \in Conns, Replay(c) \/ ReplayFails(c)
      PROVE  CourseKept /\ UNCHANGED <<clientVars, stray>>
  BY <1>1, <1>5, ReplayKeeps DEF Replay, ReplayFails, historyVars
<1>6. ASSUME NEW c \in Conns, Drain(c) PROVE CourseKept /\ UNCHANGED <<clientVars, stray>>
  BY <1>1, <1>6, DrainKeeps DEF Drain, historyVars
<1>7. ASSUME NEW c \in Conns, Read(c)
      PROVE  CourseKept /\ UNCHANGED <<state, wanted, changed, retries, stray>>
  BY <1>1, <1>7, ReadKeeps DEF Read
<1>8. ASSUME NEW c \in Conns, Absorbed(c)
      PROVE  CourseKept /\ UNCHANGED <<state, wanted, changed, retries, stray>>
  BY <1>1, <1>8, AbsorbedKeeps DEF Absorbed, historyVars
<1>9. CASE RequestStep
  BY <1>1, <1>9, RequestKeeps DEF RequestStep, clientVars, historyVars
<1>10. CASE UNCHANGED vars
  BY <1>1, <1>10, NoneChanged DEF vars, clientVars, historyVars
<1>11. QED
  BY <1>2, <1>3, <1>4, <1>5, <1>6, <1>7, <1>8, <1>9, <1>10 DEF clientVars

LEMMA StepKeepsState ==
  ASSUME StateInv, TimersInv', [Next]_vars
  PROVE  StateInv'
<1>1. CASE Start
  BY <1>1, StartKeepsState
<1>2. CASE ChangeChannels
  BY <1>2, ChangeKeepsState
<1>3. CASE Reconnect
  BY <1>3, ReconnectKeepsState DEF TimersInv
<1>4. CASE Retry
  BY <1>4, RetryKeepsState
<1>5. ASSUME NEW c \in Conns, Opened(c) PROVE StateInv'
  BY <1>5, OpenedKeepsState
<1>6. ASSUME NEW c \in Conns, LingerEnds(c) PROVE StateInv'
  BY <1>6, SupersededEnds DEF LingerEnds, clientVars, historyVars
<1>7. ASSUME NEW c \in Conns, Drop(c) PROVE StateInv'
  BY <1>7, DropKeepsState
<1>8. CASE \/ Store
           \/ \E e \in Events : StoreLate(e) \/ Publish(e)
           \/ \E c \in Conns : \/ Attach(c) \/ Replay(c) \/ Drain(c) \/ ReplayFails(c)
                               \/ Read(c) \/ Absorbed(c)
           \/ RequestStep
           \/ UNCHANGED vars
  BY <1>8, QuietStep, CourseKeepsState
<1>9. QED
  BY <1>1, <1>2, <1>3, <1>4, <1>5, <1>6, <1>7, <1>8 DEF Next, Work

LEMMA StateInvariant == Spec => []StateInv
<1>1. Init => StateInv
  BY InitState
<1>2. StateInv /\ TimersInv' /\ [Next]_vars => StateInv'
  BY StepKeepsState
<1>3. QED
  BY <1>1, <1>2, TimersInvariant, PTL DEF Spec

-------------------------------------------------------------------------------
(* However connects, openings, drops and timers interleave, at most one stream   *)
(* is the live one (actor-state-unit.ts inflightControllers).                    *)
THEOREM OneStreamLives == Spec => []OneLiveStream
<1>1. StateInv => OneLiveStream
  BY DEF StateInv, ConnInv, ReadingHasNone, Ordered, OneLiveStream, Live
<1>2. QED
  BY <1>1, StateInvariant, PTL

(* An open state, which lets requests go out, means that there is a stream, but  *)
(* for the two ways in which it is set for another (actor-state-unit.ts          *)
(* transition).                                                                  *)
THEOREM OpenIsHonest == Spec => []OpenMeansLive
<1>1. StateInv => OpenMeansLive
  BY DEF StateInv
<1>2. QED
  BY <1>1, StateInvariant, PTL

(* When nothing is under way that would bring a stream, there is one that        *)
(* carries what is wanted, and the state is open (actor-state-unit.ts reconnect, *)
(* transition).                                                                  *)
THEOREM ClientNotStranded == Spec => []NeverStranded
<1>1. StateInv => NeverStranded
  BY DEF StateInv, ConnInv, Shape, NewestCarries, Newest, NeverStranded, Live
<1>2. QED
  BY <1>1, StateInvariant, PTL

-------------------------------------------------------------------------------
(* The subscribers are handed no event twice (actor-state-unit.ts seenEventIds). *)
AtMostOnce == \A i, j \in DOMAIN heard : heard[i] = heard[j] => i = j

(* An event is claimed before it is handed on, and claims stay.                  *)
HeardInv ==
  /\ heard \in Seq(Events)
  /\ Heard \subseteq seenEventIds
  /\ AtMostOnce

LEMMA HandedOn ==
  ASSUME HeardInv, NEW e \in Events \ seenEventIds,
         seenEventIds' = seenEventIds \cup {e}, heard' = Append(heard, e)
  PROVE  HeardInv'
<1>1. /\ heard' \in Seq(Events) /\ DOMAIN heard' = 1 .. (Len(heard) + 1)
      /\ DOMAIN heard = 1 .. Len(heard) /\ Len(heard) \in Nat
      /\ heard'[Len(heard) + 1] = e
      /\ \A i \in DOMAIN heard : heard'[i] = heard[i]
  BY DEF HeardInv
<1>2. \A i \in DOMAIN heard : heard[i] # e
  BY DEF HeardInv, Heard
<1>3. \A i \in DOMAIN heard' : i \in DOMAIN heard \/ i = Len(heard) + 1
  BY <1>1
<1>4. AtMostOnce'
  BY <1>1, <1>2, <1>3 DEF HeardInv, AtMostOnce
<1>5. Heard' \subseteq seenEventIds'
  BY <1>1, <1>3 DEF HeardInv, Heard
<1>6. QED
  BY <1>1, <1>4, <1>5 DEF HeardInv

LEMMA HeardKept ==
  ASSUME HeardInv, heard' = heard, seenEventIds \subseteq seenEventIds'
  PROVE  HeardInv'
  BY DEF HeardInv, Heard, AtMostOnce

LEMMA ReadHears ==
  ASSUME HeardInv, NEW c \in Conns, Read(c)
  PROVE  HeardInv'
<1>1. CASE HandOn(c)
  BY <1>1, HandedOn DEF HandOn, Claim
<1>2. CASE SkipDuplicate(c) \/ HandOnGap(c) \/ HandOnReply(c)
  BY <1>2, HeardKept DEF SkipDuplicate, HandOnGap, HandOnReply, Claim
<1>3. QED
  BY <1>1, <1>2 DEF Read

LEMMA StepHears ==
  ASSUME HeardInv, [Next]_vars
  PROVE  HeardInv'
<1>1. ASSUME NEW c \in Conns, Read(c) PROVE HeardInv'
  BY <1>1, ReadHears
<1>2. CASE UNCHANGED <<heard, seenEventIds>>
  BY <1>2, HeardKept
<1>3. CASE Start \/ ChangeChannels \/ Reconnect \/ Retry \/ Store \/ RequestStep \/ UNCHANGED vars
  BY <1>2, <1>3 DEF Start, ChangeChannels, Reconnect, Retry, Store, RequestStep,
                    vars, clientVars, historyVars
<1>4. ASSUME NEW e \in Events, StoreLate(e) \/ Publish(e) PROVE HeardInv'
  BY <1>2, <1>4 DEF StoreLate, Publish, clientVars, historyVars
<1>5. ASSUME NEW c \in Conns,
             Attach(c) \/ Replay(c) \/ Drain(c) \/ ReplayFails(c) \/ Drop(c)
               \/ Opened(c) \/ LingerEnds(c) \/ Absorbed(c)
      PROVE  HeardInv'
  BY <1>2, <1>5 DEF Attach, Replay, Drain, ReplayFails, Drop, Opened, LingerEnds, Absorbed,
                    clientVars, historyVars
<1>6. QED
  BY <1>1, <1>3, <1>4, <1>5 DEF Next, Work

(* Whatever is replayed, and however many connections carry the same event, no   *)
(* event is handed to the subscribers twice (actor-state-unit.ts seenEventIds).  *)
THEOREM NoEventTwice == Spec => []AtMostOnce
<1>1. Init => HeardInv
  BY DEF Init, HeardInv, Heard, AtMostOnce
<1>2. HeardInv /\ [Next]_vars => HeardInv'
  BY StepHears
<1>3. HeardInv => AtMostOnce
  BY DEF HeardInv
<1>4. QED
  BY <1>1, <1>2, <1>3, PTL DEF Spec

-------------------------------------------------------------------------------
(* What is on the wires and in the buffers.                                      *)

(* What the client need not be told any more.                                    *)
Known == Heard \cup excused

(* Whatever precedes an event of the sequence is in S or before it in the        *)
(* sequence.                                                                     *)
InOrder(s, S) ==
  \A i \in DOMAIN s :
    s[i] \in Events => \A d \in 1 .. (s[i] - 1) : d \in S \/ \E j \in 1 .. (i - 1) : s[j] = d

(* What the replay is still going to write, when this is in the log.             *)
Fetching(k, log) ==
  IF k.stage = "replaying" /\ WillReplay(k) THEN {e \in log : e > k.from} ELSE {}

(* A connection that has subscribed carries, or will, every event that is public *)
(* and not known, each after all before it.                                      *)
Ready(k, known, public, log) ==
  LET told == known \cup ToSet(k.wire) IN
  /\ InOrder(k.wire, known)
  /\ InOrder(k.buffer, told \cup Fetching(k, log))
  /\ 1 .. k.delivered \subseteq told
  /\ 1 .. k.from \subseteq known
  /\ 1 .. k.applying \subseteq known
  /\ k.scoped /\ k.stage # "none"
       => public \subseteq told \cup Fetching(k, log) \cup ToSet(k.buffer)
  /\ k.buffer # <<>> => WillReplay(k) /\ k.stage # "live"
  /\ (ToSet(k.wire) \cup ToSet(k.buffer)) \cap Events \subseteq log

StreamInv ==
  /\ \A c \in Conns : Ready(conn[c], Known, published, Log)
  /\ 1 .. mark \subseteq Known
  /\ seenEventIds \cap Events \subseteq Heard

(* The reply is there only once it was given, and read only once.                *)
ReplyFits ==
  /\ request \in {"none", "gated", "emitted"} => ~retained /\ \A c \in Conns : Reply \notin Unread(c)
  /\ Reply \in seenEventIds => request \in {"settled", "failed"}
  /\ request \in {"emitted", "replied"} => state # "initial"
  /\ \A c \in Conns : conn[c].phase = "reading" => conn[c].stage # "none"

(* The connection has the reply, or will ask for it.                             *)
Asks(k) == k.awaits /\ k.stage \in {"none", "replaying"}

WaitsOn(c) ==
  /\ Newest(c)
  /\ state = "open" => conn[c].phase = "reading"
  /\ request = "emitted" => conn[c].awaits \/ conn[c].stage # "none"
  /\ request = "replied" /\ retained => Reply \in Unread(c) \/ Asks(conn[c])

NewestWaits == state \in {"connecting", "open"} /\ ~stray => \E c \in Conns : WaitsOn(c)

ReplyInv == ReplyFits /\ NewestWaits
-------------------------------------------------------------------------------
(* What is written to a connection.                                              *)

LEMMA ConnectionFields ==
  ASSUME NEW k \in Connections
  PROVE  /\ DOMAIN k = Fields
         /\ k.phase \in {"free", "opening", "reading"} /\ k.superseded \in BOOLEAN
         /\ k.previous \in SUBSET Conns /\ k.applying \in 0 .. MaxEvents
         /\ k.scoped \in BOOLEAN /\ k.from \in 0 .. MaxEvents /\ k.awaits \in BOOLEAN
         /\ k.stage \in {"none", "replaying", "draining", "live"}
         /\ k.delivered \in 0 .. MaxEvents
         /\ k.buffer \in Seq(Frames) /\ k.wire \in Seq(Frames)
  BY DEF Connections, Fields

LEMMA FreeConnection == Free \in Connections
<1>1. MaxEvents \in Nat /\ <<>> \in Seq(Frames)
  BY BusStreamAssumption
<1>2. 0 \in 0 .. MaxEvents /\ {} \subseteq Conns
  BY <1>1
<1>3. QED
  BY <1>1, <1>2 DEF Free, Connections

(* The fields a change of what is written leaves alone.                          *)
SameEnds(k, l) ==
  /\ l.phase = k.phase /\ l.superseded = k.superseded /\ l.previous = k.previous
  /\ l.applying = k.applying /\ l.scoped = k.scoped /\ l.from = k.from /\ l.awaits = k.awaits

LEMMA FramesAre ==
  /\ MaxEvents \in Nat /\ Events \in SUBSET Nat /\ IsFiniteSet(Events)
  /\ Frames \in SUBSET Nat /\ Events \subseteq Frames
  /\ Gap \in Frames \ Events /\ Reply \in Frames \ Events
  /\ \A e \in Events : e \in 1 .. MaxEvents
<1>1. MaxEvents \in Nat
  BY BusStreamAssumption
<1>2. IsFiniteSet(1 .. MaxEvents)
  BY <1>1, FS_Interval
<1>3. QED
  BY <1>1, <1>2 DEF Events, Frames, Gap, Reply

LEMMA Written ==
  ASSUME NEW k \in Connections, NEW frames \in Seq(Frames)
  PROVE  /\ WriteAll(k, frames) \in Connections
         /\ SameEnds(k, WriteAll(k, frames))
         /\ WriteAll(k, frames).stage = k.stage /\ WriteAll(k, frames).buffer = k.buffer
         /\ WriteAll(k, frames).wire = k.wire \o Those(frames, Passing(k, frames))
         /\ \/ WriteAll(k, frames).delivered = k.delivered
            \/ WriteAll(k, frames).delivered \in ToSet(frames) \cap Events
<1> DEFINE top == Max({k.delivered} \cup (ToSet(frames) \cap Events))
           line == k.wire \o Those(frames, Passing(k, frames))
<1>1. Passing(k, frames) \in SUBSET DOMAIN frames
  BY DEF Passing
<1>2. line \in Seq(Frames)
  BY <1>1, ConnectionFields, ThoseKept, JoinOf
<1>3. top \in {k.delivered} \cup (ToSet(frames) \cap Events)
  <2>1. k.delivered \in Int
    BY ConnectionFields, FramesAre
  <2> DEFINE E == ToSet(frames) \cap Events
  <2>2. IsFiniteSet(E) /\ E \in SUBSET Int
    <3>1. E \subseteq Events
      OBVIOUS
    <3> HIDE DEF E
    <3>2. Events \in SUBSET Int
      BY FramesAre
    <3>3. IsFiniteSet(E)
      BY <3>1, FramesAre, FS_Subset
    <3>4. QED
      BY <3>1, <3>2, <3>3
  <2>3. QED
    BY <2>1, <2>2, MaxWith
<1>4. top \in 0 .. MaxEvents
  <2>1. k.delivered \in 0 .. MaxEvents /\ \A e \in Events : e \in 0 .. MaxEvents
    BY ConnectionFields, FramesAre
  <2> HIDE DEF top
  <2>2. QED
    BY <1>3, <2>1
<1>5. WriteAll(k, frames) = [k EXCEPT !.wire = line, !.delivered = top]
  BY DEF WriteAll
<1> HIDE DEF top, line
<1>6. WriteAll(k, frames) \in Connections
  BY <1>2, <1>4, <1>5 DEF Connections
<1>7. DOMAIN k = Fields
  BY ConnectionFields
<1>8. QED
  BY <1>3, <1>5, <1>6, <1>7 DEF SameEnds, Fields, top, line

(* Whatever an event of the frames comes after passes, or is accounted for.      *)
LEMMA Reached ==
  ASSUME NEW k \in Connections, NEW frames \in Seq(Frames), NEW C,
         1 .. k.delivered \subseteq C, InOrder(frames, C),
         NEW i \in DOMAIN frames, frames[i] \in Events, NEW d \in 1 .. frames[i], d \notin C
  PROVE  \E j \in Passing(k, frames) : j <= i /\ frames[j] = d
<1> DEFINE S == {j \in 1 .. i : frames[j] \in Events /\ d <= frames[j]}
           m == Min(S)
<1>1. /\ Len(frames) \in Nat /\ DOMAIN frames = 1 .. Len(frames)
      /\ \A j \in 1 .. i : j \in DOMAIN frames /\ j \in Int
  OBVIOUS
<1>2. frames[i] \in Nat /\ d \in Nat /\ d \in Events
  BY FramesAre DEF Events
<1>3. i \in S /\ S \in SUBSET Int /\ IsFiniteSet(S)
  <2>1. IsFiniteSet(1 .. i)
    BY <1>1, FS_Interval
  <2>2. S \subseteq 1 .. i
    OBVIOUS
  <2>3. QED
    BY <1>1, <1>2, <2>1, <2>2, FS_Subset
<1>4. m \in S /\ \A j \in S : m <= j
  BY <1>3, Extremes
<1> HIDE DEF m
<1>5. m \in DOMAIN frames /\ m \in Int /\ m <= i /\ frames[m] \in Events /\ d <= frames[m]
  BY <1>1, <1>4
<1>6. \A j \in 1 .. (m - 1) : j \in 1 .. i /\ j \notin S
  BY <1>1, <1>4, <1>5
<1>7. ASSUME NEW j \in 1 .. (m - 1), frames[j] \in Events PROVE frames[j] < d
  <2>1. ~ (d <= frames[j])
    BY <1>6, <1>7
  <2>2. frames[j] \in Nat
    BY <1>7, FramesAre
  <2>3. QED
    BY <1>2, <2>1, <2>2
<1>8. frames[m] = d
  <2>1. SUFFICES ASSUME d # frames[m] PROVE FALSE
    OBVIOUS
  <2> frames[m] \in Nat
    BY <1>5, FramesAre
  <2>2. d \in 1 .. (frames[m] - 1)
    BY <1>2, <1>5, <2>1
  <2>3. \E j \in 1 .. (m - 1) : frames[j] = d
    BY <1>5, <2>2 DEF InOrder
  <2>4. QED
    BY <1>2, <1>7, <2>3
<1>9. ~ (d <= k.delivered)
  BY <1>2
<1>10. frames[m] > k.delivered
  BY <1>2, <1>8, <1>9, ConnectionFields
<1>11. m \in Passing(k, frames)
  BY <1>5, <1>7, <1>8, <1>10 DEF Passing
<1>12. QED
  BY <1>5, <1>8, <1>11

(* What has been written is in order, and accounts for the frames.               *)
LEMMA Accounted ==
  ASSUME NEW k \in Connections, NEW frames \in Seq(Frames), NEW B,
         InOrder(k.wire, B), 1 .. k.delivered \subseteq B \cup ToSet(k.wire),
         InOrder(frames, B \cup ToSet(k.wire)),
         NEW l, l = WriteAll(k, frames)
  PROVE  /\ InOrder(l.wire, B)
         /\ 1 .. l.delivered \subseteq B \cup ToSet(l.wire)
         /\ ToSet(frames) \cap Events \subseteq B \cup ToSet(l.wire)
         /\ ToSet(frames) \ Events \subseteq ToSet(l.wire)
         /\ ToSet(k.wire) \subseteq ToSet(l.wire)
         /\ ToSet(l.wire) \subseteq ToSet(k.wire) \cup ToSet(frames)
<1> DEFINE P == Passing(k, frames)
           w == k.wire
           new == Those(frames, P)
           C == B \cup ToSet(w)
<1>1. /\ w \in Seq(Frames) /\ l.wire = w \o new
      /\ l.delivered = k.delivered \/ l.delivered \in ToSet(frames) \cap Events
  BY Written, ConnectionFields
<1>2. P \in SUBSET DOMAIN frames
  BY DEF Passing
<1>3. /\ new \in Seq(Frames)
      /\ \A i \in P : \E m \in DOMAIN new : new[m] = frames[i]
      /\ \A m \in DOMAIN new : \E i \in P :
           /\ new[m] = frames[i]
           /\ \A j \in P : j < i => \E n \in 1 .. (m - 1) : n \in DOMAIN new /\ new[n] = frames[j]
  BY <1>2, ThoseKept, ThoseInOrder
<1>4. \A i \in DOMAIN frames : frames[i] \in Events =>
        \A d \in 1 .. frames[i] : d \in C \/ \E j \in P : j <= i /\ frames[j] = d
  BY Reached
<1>5. /\ Len(w) \in Nat /\ Len(new) \in Nat /\ DOMAIN w = 1 .. Len(w) /\ DOMAIN new = 1 .. Len(new)
      /\ DOMAIN l.wire = 1 .. (Len(w) + Len(new))
      /\ \A i \in 1 .. Len(w) : l.wire[i] = w[i]
      /\ \A i \in 1 .. Len(new) : l.wire[Len(w) + i] = new[i]
      /\ ToSet(l.wire) = ToSet(w) \cup ToSet(new)
  BY <1>1, <1>3, JoinOf
<1> HIDE DEF P, new
<1>6. /\ \A x \in ToSet(new) : \E i \in P : x = frames[i]
      /\ \A i \in P : frames[i] \in ToSet(new)
  BY <1>3 DEF ToSet
<1>7. ToSet(frames) \cap Events \subseteq B \cup ToSet(l.wire)
  <2>1. SUFFICES ASSUME NEW i \in DOMAIN frames, frames[i] \in Events
                 PROVE  frames[i] \in B \cup ToSet(l.wire)
    BY DEF ToSet
  <2>2. frames[i] \in 1 .. frames[i]
    BY <2>1, FramesAre DEF Events
  <2>3. frames[i] \in C \/ \E j \in P : frames[j] = frames[i]
    BY <1>4, <2>1, <2>2
  <2>4. QED
    BY <1>5, <1>6, <2>3
<1>8. 1 .. l.delivered \subseteq B \cup ToSet(l.wire)
  <2>1. CASE l.delivered = k.delivered
    BY <1>5, <2>1
  <2>2. CASE l.delivered \in ToSet(frames) \cap Events
    <3>1. PICK i \in DOMAIN frames : l.delivered = frames[i] /\ frames[i] \in Events
      BY <2>2 DEF ToSet
    <3>2. \A d \in 1 .. frames[i] : d \in C \/ d \in ToSet(new)
      BY <1>4, <1>6, <3>1
    <3>3. QED
      BY <1>5, <3>1, <3>2
  <2>3. QED
    BY <1>1, <2>1, <2>2
<1>9. ToSet(frames) \ Events \subseteq ToSet(l.wire)
  <2>1. SUFFICES ASSUME NEW i \in DOMAIN frames, frames[i] \notin Events
                 PROVE  frames[i] \in ToSet(new)
    BY <1>5 DEF ToSet
  <2>2. i \in P
    BY <2>1 DEF Passing, P
  <2>3. QED
    BY <1>6, <2>2
<1>10. ToSet(l.wire) \subseteq ToSet(k.wire) \cup ToSet(frames)
  BY <1>2, <1>5, <1>6 DEF ToSet
<1>11. InOrder(l.wire, B)
  <2>1. SUFFICES ASSUME NEW i \in 1 .. (Len(w) + Len(new)), l.wire[i] \in Events,
                        NEW d \in 1 .. (l.wire[i] - 1)
                 PROVE  d \in B \/ \E j \in 1 .. (i - 1) : l.wire[j] = d
    BY <1>5 DEF InOrder
  <2>2. CASE i <= Len(w)
    <3>1. i \in 1 .. Len(w) /\ l.wire[i] = w[i]
      BY <1>5, <2>1, <2>2
    <3>2. d \in B \/ \E j \in 1 .. (i - 1) : w[j] = d
      BY <1>5, <2>1, <3>1 DEF InOrder
    <3>3. \A j \in 1 .. (i - 1) : l.wire[j] = w[j]
      BY <1>5, <2>2
    <3>4. QED
      BY <3>2, <3>3
  <2>3. CASE ~ (i <= Len(w))
    <3>1. PICK m \in 1 .. Len(new) : i = Len(w) + m /\ l.wire[i] = new[m]
      <4>1. i - Len(w) \in 1 .. Len(new) /\ i = Len(w) + (i - Len(w))
        BY <1>5, <2>1, <2>3
      <4>2. QED
        BY <1>5, <4>1
    <3>2. PICK n \in P :
            /\ new[m] = frames[n]
            /\ \A j \in P : j < n => \E r \in 1 .. (m - 1) : r \in DOMAIN new /\ new[r] = frames[j]
      BY <1>3, <1>5, <3>1
    <3>3. frames[n] \in Nat /\ frames[n] \in Events /\ n \in DOMAIN frames /\ n \in Int
      <4>1. frames[n] \in Events /\ n \in DOMAIN frames
        BY <1>2, <2>1, <3>1, <3>2
      <4>2. frames[n] \in Nat
        BY <4>1, FramesAre
      <4>3. n \in Int
        BY <4>1
      <4>4. QED
        BY <4>1, <4>2, <4>3
    <3>4. d \in 1 .. frames[n] /\ d # frames[n]
      BY <2>1, <3>1, <3>2, <3>3
    <3>5. CASE d \in B
      BY <3>5
    <3>6. CASE d \in ToSet(w)
      <4>1. PICK j \in 1 .. Len(w) : w[j] = d
        BY <1>5, <3>6 DEF ToSet
      <4>2. j \in 1 .. (i - 1) /\ l.wire[j] = d
        BY <1>5, <2>3, <4>1
      <4>3. QED
        BY <4>2
    <3>7. CASE d \notin C
      <4>1. PICK j \in P : j <= n /\ frames[j] = d
        BY <1>4, <3>3, <3>4, <3>7
      <4>2. j < n
        <5>1. j \in Int /\ j # n
          BY <1>2, <3>3, <3>4, <4>1
        <5>2. QED
          BY <3>3, <4>1, <5>1
      <4>3. PICK r \in 1 .. (m - 1) : r \in 1 .. Len(new) /\ new[r] = d
        BY <1>5, <3>2, <4>1, <4>2
      <4>4. Len(w) + r \in 1 .. (i - 1) /\ l.wire[Len(w) + r] = d
        BY <1>5, <3>1, <4>3
      <4>5. QED
        BY <4>4
    <3>8. QED
      BY <3>5, <3>6, <3>7
  <2>4. QED
    BY <2>2, <2>3
<1>12. QED
  BY <1>5, <1>7, <1>8, <1>9, <1>10, <1>11

-------------------------------------------------------------------------------
(* The types.                                                                    *)

TypeInv ==
  /\ TypeOK
  /\ DOMAIN spent = {"faults", "changes"}
  /\ retries <= spent["faults"]

LEMMA Spending ==
  ASSUME TypeInv, NEW what \in {"faults", "changes"}, Spend(what)
  PROVE  /\ DOMAIN spent' = {"faults", "changes"}
         /\ \A other \in DOMAIN spent' : spent'[other] \in 0 .. Limit[other]
         /\ spent'[what] = spent[what] + 1
         /\ \A other \in DOMAIN spent : other # what => spent'[other] = spent[other]
         /\ spent["faults"] \in 0 .. MaxFaults /\ spent'["faults"] \in 0 .. MaxFaults
         /\ spent["faults"] <= spent'["faults"]
<1>1. /\ spent' = [spent EXCEPT ![what] = spent[what] + 1] /\ spent[what] < Limit[what]
      /\ DOMAIN spent = {"faults", "changes"}
      /\ \A other \in DOMAIN spent : spent[other] \in 0 .. Limit[other]
  BY DEF Spend, TypeInv, TypeOK
<1>2. Limit["faults"] = MaxFaults /\ Limit["changes"] = MaxChanges
  BY DEF Limit
<1>3. MaxFaults \in Nat /\ MaxChanges \in Nat
  BY BusStreamAssumption
<1>4. DOMAIN spent' = {"faults", "changes"} /\ spent'[what] = spent[what] + 1
  BY <1>1
<1>5. \A other \in DOMAIN spent : other # what => spent'[other] = spent[other]
  BY <1>1
<1>6. spent[what] \in Nat /\ Limit[what] \in Nat /\ spent'[what] \in 0 .. Limit[what]
  BY <1>1, <1>2, <1>3, <1>4
<1>7. \A other \in DOMAIN spent' : spent'[other] \in 0 .. Limit[other]
  BY <1>1, <1>4, <1>5, <1>6
<1>8. spent["faults"] \in 0 .. MaxFaults /\ spent'["faults"] \in 0 .. MaxFaults
  BY <1>1, <1>2, <1>4, <1>7
<1>9. spent["faults"] <= spent'["faults"]
  <2>1. CASE what = "faults"
    BY <1>4, <1>6, <1>8, <2>1
  <2>2. CASE what # "faults"
    BY <1>1, <1>5, <1>8, <2>2
  <2>3. QED
    BY <2>1, <2>2
<1>10. QED
  BY <1>4, <1>5, <1>7, <1>8, <1>9

LEMMA TypesAre ==
  ASSUME TypeInv
  PROVE  /\ stored \in 0 .. MaxEvents /\ stored \in Nat
         /\ missing \subseteq 1 .. stored /\ published \subseteq Log /\ Log \subseteq 1 .. stored
         /\ published \subseteq 1 .. stored /\ excused \subseteq 1 .. stored
         /\ \A e \in 1 .. stored : e \in Events
         /\ conn \in [Conns -> Connections]
         /\ mark \in 0 .. MaxEvents /\ request \in {"none", "gated", "emitted", "replied", "settled", "failed"}
         /\ wanted \in BOOLEAN
         /\ heard \in Seq(Events) /\ Heard \subseteq Events
<1>1. MaxEvents \in Nat /\ stored \in 0 .. MaxEvents /\ stored \in Nat
  BY BusStreamAssumption DEF TypeInv, TypeOK
<1>2. heard \in Seq(Events) /\ Heard \subseteq Events
  BY DEF TypeInv, TypeOK, Heard
<1>3. QED
  BY <1>1, <1>2 DEF TypeInv, TypeOK, Events, Log

(* Changing one connection.                                                      *)
LEMMA ChangedTo ==
  ASSUME conn \in [Conns -> Connections], NEW c \in Conns, NEW l \in Connections,
         conn' = [conn EXCEPT ![c] = l]
  PROVE  /\ conn' \in [Conns -> Connections] /\ conn'[c] = l
         /\ \A d \in Conns \ {c} : conn'[d] = conn[d]
  OBVIOUS

LEMMA AttachTo ==
  ASSUME conn \in [Conns -> Connections], NEW c \in Conns, Attach(c)
  PROVE  /\ conn' \in [Conns -> Connections]
         /\ SameEnds(conn[c], conn'[c]) /\ conn'[c].stage = "replaying"
         /\ conn'[c].wire = conn[c].wire /\ conn'[c].buffer = conn[c].buffer
         /\ conn'[c].delivered = conn[c].delivered
         /\ \A d \in Conns \ {c} : conn'[d] = conn[d]
<1> DEFINE l == [conn[c] EXCEPT !.stage = "replaying"]
<1>1. conn' = [conn EXCEPT ![c] = l]
  BY DEF Attach
<1>2. conn[c] \in Connections /\ DOMAIN conn[c] = Fields
  BY ConnectionFields
<1>3. l \in Connections
  BY <1>2 DEF Connections
<1>4. /\ SameEnds(conn[c], l) /\ l.stage = "replaying" /\ l.wire = conn[c].wire
      /\ l.buffer = conn[c].buffer /\ l.delivered = conn[c].delivered
  BY <1>2 DEF SameEnds, Fields
<1> HIDE DEF l
<1>5. QED
  BY <1>1, <1>3, <1>4, ChangedTo

(* What a step writes to a connection that goes on to another stage.             *)
WroteTo(c, frames, stage, buffer) ==
  /\ conn' \in [Conns -> Connections]
  /\ SameEnds(conn[c], conn'[c]) /\ conn'[c].stage = stage /\ conn'[c].buffer = buffer
  /\ conn'[c].wire = WriteAll(conn[c], frames).wire
  /\ conn'[c].delivered = WriteAll(conn[c], frames).delivered
  /\ \A d \in Conns \ {c} : conn'[d] = conn[d]

LEMMA WroteThen ==
  ASSUME conn \in [Conns -> Connections], NEW c \in Conns, NEW frames \in Seq(Frames),
         NEW stage \in {"draining", "live"}, NEW buffer \in Seq(Frames),
         \/ /\ conn' = [conn EXCEPT ![c] = [WriteAll(conn[c], frames) EXCEPT !.stage = stage]]
            /\ buffer = conn[c].buffer
         \/ conn' = [conn EXCEPT ![c] = [WriteAll(conn[c], frames) EXCEPT !.stage = stage, !.buffer = buffer]]
  PROVE  WroteTo(c, frames, stage, buffer)
<1> DEFINE k == WriteAll(conn[c], frames)
<1>1. k \in Connections /\ SameEnds(conn[c], k) /\ k.buffer = conn[c].buffer
  BY Written
<1>2. conn' = [conn EXCEPT ![c] = [k EXCEPT !.stage = stage, !.buffer = buffer]]
      \/ (conn' = [conn EXCEPT ![c] = [k EXCEPT !.stage = stage]] /\ buffer = k.buffer)
  BY <1>1
<1> HIDE DEF k
<1>3. DOMAIN k = Fields
  BY <1>1, ConnectionFields
<1>4. PICK l \in Connections : /\ conn' = [conn EXCEPT ![c] = l]
                               /\ SameEnds(k, l) /\ l.stage = stage /\ l.buffer = buffer
                               /\ l.wire = k.wire /\ l.delivered = k.delivered
  <2>1. CASE conn' = [conn EXCEPT ![c] = [k EXCEPT !.stage = stage, !.buffer = buffer]]
    <3> DEFINE l == [k EXCEPT !.stage = stage, !.buffer = buffer]
    <3>1. l \in Connections
      BY <1>1 DEF Connections
    <3>2. SameEnds(k, l) /\ l.stage = stage /\ l.buffer = buffer /\ l.wire = k.wire /\ l.delivered = k.delivered
      BY <1>3 DEF SameEnds, Fields
    <3>3. QED
      BY <2>1, <3>1, <3>2
  <2>2. CASE conn' = [conn EXCEPT ![c] = [k EXCEPT !.stage = stage]] /\ buffer = k.buffer
    <3> DEFINE l == [k EXCEPT !.stage = stage]
    <3>1. l \in Connections
      BY <1>1 DEF Connections
    <3>2. SameEnds(k, l) /\ l.stage = stage /\ l.buffer = buffer /\ l.wire = k.wire /\ l.delivered = k.delivered
      BY <1>3, <2>2 DEF SameEnds, Fields
    <3>3. QED
      BY <2>2, <3>1, <3>2
  <2>3. QED
    BY <1>2, <2>1, <2>2
<1>5. SameEnds(conn[c], l)
  BY <1>1, <1>4 DEF SameEnds
<1>6. QED
  BY <1>4, <1>5, ChangedTo DEF WroteTo, k

LEMMA AwaitedIs ==
  ASSUME NEW k
  PROVE  /\ Awaited(k) \in Seq(Frames) /\ ToSet(Awaited(k)) \subseteq {Reply}
         /\ k.awaits /\ retained => Reply \in ToSet(Awaited(k))
         /\ ~retained => ToSet(Awaited(k)) = {}
  BY FramesAre DEF Awaited, ToSet

LEMMA NoFrames == ToSet(<<>>) = {} /\ \A S : InOrder(<<>>, S)
  BY DEF ToSet, InOrder

(* What the replay finds is in order, but for what it passes over.               *)
LEMMA MissedIs ==
  ASSUME TypeInv, NEW c \in Conns
  PROVE  /\ Missed(conn[c]) \in Seq(Frames) /\ Reply \notin ToSet(Missed(conn[c]))
         /\ ToSet(Missed(conn[c])) \cap Events \subseteq Log
         /\ WillReplay(conn[c]) => Above(conn[c]) \subseteq ToSet(Missed(conn[c]))
         /\ InOrder(Missed(conn[c]), (1 .. conn[c].from) \cup PassedOver(conn[c]))
<1> DEFINE k == conn[c]
           A == Above(k)
           a == Ascending(A)
           N == Cardinality(A)
           gap == IF k.from + 1 \in PassedOver(k) THEN <<Gap>> ELSE <<>>
<1>1. /\ k \in Connections /\ k.from \in 0 .. MaxEvents /\ k.from \in Nat
      /\ stored \in Nat /\ Log \subseteq 1 .. stored /\ \A e \in 1 .. stored : e \in Events
  BY TypesAre, ConnectionFields, FramesAre
<1>2. /\ Gap \in Frames \ Events /\ Reply \in Frames \ Events /\ Reply # Gap
      /\ Events \subseteq Frames /\ Events \in SUBSET Nat
  BY FramesAre DEF Reply, Gap
<1>3. A \subseteq Log /\ A \subseteq Events /\ \A e \in A : e > k.from
  BY <1>1 DEF Above
<1>4. CASE ~ WillReplay(k)
  <2>1. Missed(k) = <<>>
    BY <1>4 DEF Missed
  <2>2. <<>> \in Seq(Frames)
    OBVIOUS
  <2>3. QED
    BY <1>4, <2>1, <2>2, NoFrames
<1>5. CASE WillReplay(k)
  <2>1. A \in SUBSET Int /\ IsFiniteSet(A)
    <3>1. A \subseteq Events /\ Events \in SUBSET Nat /\ IsFiniteSet(Events)
      BY <1>3, FramesAre
    <3> HIDE DEF A
    <3>2. IsFiniteSet(A)
      BY <3>1, FS_Subset
    <3>3. QED
      BY <3>1, <3>2
  <2> HIDE DEF A
  <2>2. /\ N \in Nat /\ a \in [1 .. N -> A]
        /\ \A i, j \in 1 .. N : i < j => a[i] < a[j]
        /\ \A x \in A : \E i \in 1 .. N : a[i] = x
    BY <2>1, AscendingLists
  <2>3. a \in Seq(A) /\ Len(a) = N /\ DOMAIN a = 1 .. N
    BY <2>1, AscendingSeq
  <2> HIDE DEF a, N
  <2>4. a \in Seq(Frames) /\ ToSet(a) = A
    <3>1. \A i \in 1 .. N : a[i] \in A /\ a[i] \in Frames
      BY <1>2, <1>3, <2>2
    <3>2. a = [i \in 1 .. N |-> a[i]]
      BY <2>2
    <3>3. a \in Seq(Frames)
      BY <2>2, <3>1, <3>2
    <3>4. QED
      BY <2>2, <2>3, <3>1, <3>3 DEF ToSet
  <2>5. gap \in Seq(Frames) /\ ToSet(gap) \subseteq {Gap} /\ Len(gap) \in Nat
        /\ DOMAIN gap = 1 .. Len(gap) /\ \A i \in 1 .. Len(gap) : gap[i] = Gap
    <3>1. <<Gap>> \in Seq(Frames) /\ <<>> \in Seq(Frames) /\ (gap = <<Gap>> \/ gap = <<>>)
      BY <1>2
    <3> HIDE DEF gap
    <3>2. CASE gap = <<Gap>>
      BY <3>1, <3>2 DEF ToSet
    <3>3. CASE gap = <<>>
      BY <3>1, <3>3 DEF ToSet
    <3>4. QED
      BY <3>1, <3>2, <3>3
  <2>6. Missed(k) = gap \o a
    BY <1>5 DEF Missed, a, A
  <2> HIDE DEF gap
  <2>7. /\ gap \o a \in Seq(Frames)
        /\ DOMAIN (gap \o a) = 1 .. (Len(gap) + Len(a))
        /\ \A i \in 1 .. Len(gap) : (gap \o a)[i] = gap[i]
        /\ \A i \in 1 .. Len(a) : (gap \o a)[Len(gap) + i] = a[i]
        /\ ToSet(gap \o a) = ToSet(gap) \cup ToSet(a)
    BY <2>4, <2>5, JoinOf
  <2> DEFINE m == gap \o a
  <2> HIDE DEF m
  <2>8. /\ m \in Seq(Frames) /\ DOMAIN m = 1 .. (Len(gap) + N)
        /\ \A i \in 1 .. Len(gap) : m[i] = Gap
        /\ \A i \in 1 .. N : m[Len(gap) + i] = a[i]
        /\ ToSet(m) \subseteq {Gap} \cup A /\ A \subseteq ToSet(m)
    BY <2>3, <2>4, <2>5, <2>7 DEF m
  <2> DEFINE S == (1 .. k.from) \cup PassedOver(k)
  <2>9. InOrder(m, S)
    <3>1. SUFFICES ASSUME NEW i \in 1 .. (Len(gap) + N), m[i] \in Events, NEW d \in 1 .. (m[i] - 1)
                   PROVE  d \in S \/ \E j \in 1 .. (i - 1) : m[j] = d
      BY <2>8 DEF InOrder
    <3>2. PICK n \in 1 .. N : i = Len(gap) + n /\ m[i] = a[n]
      <4>1. i \notin 1 .. Len(gap)
        BY <1>2, <2>8, <3>1
      <4>2. i - Len(gap) \in 1 .. N /\ i = Len(gap) + (i - Len(gap))
        BY <2>2, <2>5, <3>1, <4>1
      <4>3. QED
        BY <2>8, <4>2
    <3>3. a[n] \in A /\ a[n] \in Log /\ a[n] \in Nat /\ a[n] \in 1 .. stored
          /\ d \in Nat /\ d >= 1 /\ d < a[n] /\ d \in 1 .. stored
      <4>1. a[n] \in A
        BY <2>2, <3>2, Zenon
      <4>2. a[n] \in Log /\ a[n] \in 1 .. stored
        BY <1>1, <1>3, <4>1, Zenon
      <4>3. d \in 1 .. (a[n] - 1)
        BY <3>1, <3>2, Zenon
      <4>4. QED
        BY <1>1, <4>1, <4>2, <4>3
    <3>4. CASE d <= k.from
      BY <1>1, <3>3, <3>4
    <3>5. CASE d > k.from /\ d \in missing
      BY <3>3, <3>5 DEF PassedOver
    <3>6. CASE d > k.from /\ d \notin missing
      <4>1. d \in A
        BY <3>3, <3>6 DEF A, Above, Log
      <4>2. PICK j \in 1 .. N : a[j] = d
        BY <2>2, <4>1
      <4>3. j < n
        <5>1. ~ (n < j) /\ n # j
          <6>1. n < j => a[n] < a[j]
            BY <2>2
          <6>2. QED
            BY <3>3, <4>2, <6>1
        <5>2. QED
          BY <2>2, <5>1
      <4>4. Len(gap) + j \in 1 .. (i - 1) /\ m[Len(gap) + j] = d
        BY <2>2, <2>5, <2>8, <3>2, <4>2, <4>3
      <4>5. QED
        BY <4>4
    <3>7. d <= k.from \/ d > k.from
      BY <1>1, <3>3
    <3>8. QED
      BY <3>4, <3>5, <3>6, <3>7
  <2>10. Missed(k) = m
    BY <2>6 DEF m
  <2>11. A \subseteq Events /\ A \subseteq Log /\ A = Above(k)
    BY <1>3 DEF A
  <2>12. QED
    BY <1>2, <1>5, <2>8, <2>9, <2>10, <2>11
<1>6. QED
  BY <1>4, <1>5

LEMMA ReplayTo ==
  ASSUME TypeInv, NEW c \in Conns, Replay(c)
  PROVE  /\ Missed(conn[c]) \o Awaited(conn[c]) \in Seq(Frames)
         /\ WroteTo(c, Missed(conn[c]) \o Awaited(conn[c]), AfterReplay(conn[c]), conn[c].buffer)
<1> DEFINE k == conn[c]
<1>1. Missed(k) \o Awaited(k) \in Seq(Frames)
  BY MissedIs, AwaitedIs, JoinOf
<1>2. AfterReplay(k) \in {"draining", "live"}
  BY DEF AfterReplay
<1>3. conn' = [conn EXCEPT ![c] = [WriteAll(k, Missed(k) \o Awaited(k)) EXCEPT !.stage = AfterReplay(k)]]
  BY DEF Replay
<1>4. k.buffer \in Seq(Frames) /\ conn \in [Conns -> Connections]
  BY TypesAre, ConnectionFields
<1>5. WroteTo(c, Missed(k) \o Awaited(k), AfterReplay(k), k.buffer)
  BY <1>1, <1>2, <1>3, <1>4, WroteThen
<1>6. QED
  BY <1>1, <1>5

LEMMA ReplayFailsTo ==
  ASSUME TypeInv, NEW c \in Conns, ReplayFails(c)
  PROVE  /\ <<Gap>> \in Seq(Frames) /\ <<Gap>> \o Awaited(conn[c]) \in Seq(Frames)
         /\ WroteTo(c, <<Gap>> \o Awaited(conn[c]), "draining", conn[c].buffer)
<1> DEFINE k == conn[c]
<1>1. <<Gap>> \in Seq(Frames)
  BY FramesAre
<1>2. <<Gap>> \o Awaited(k) \in Seq(Frames)
  BY <1>1, AwaitedIs, JoinOf
<1>3. conn' = [conn EXCEPT ![c] = [WriteAll(k, <<Gap>> \o Awaited(k)) EXCEPT !.stage = "draining"]]
  BY DEF ReplayFails
<1>4. k.buffer \in Seq(Frames) /\ conn \in [Conns -> Connections]
  BY TypesAre, ConnectionFields
<1>5. WroteTo(c, <<Gap>> \o Awaited(k), "draining", k.buffer)
  BY <1>2, <1>3, <1>4, WroteThen
<1>6. QED
  BY <1>1, <1>2, <1>5

LEMMA DrainTo ==
  ASSUME TypeInv, NEW c \in Conns, Drain(c)
  PROVE  WroteTo(c, conn[c].buffer, "live", <<>>)
<1>1. conn[c].buffer \in Seq(Frames) /\ conn \in [Conns -> Connections] /\ <<>> \in Seq(Frames)
  BY TypesAre, ConnectionFields
<1>2. conn' = [conn EXCEPT ![c] = [WriteAll(conn[c], conn[c].buffer) EXCEPT !.stage = "live", !.buffer = <<>>]]
  BY DEF Drain
<1>3. QED
  BY <1>1, <1>2, WroteThen

(* A frame that comes live.                                                      *)
EmitTo(k, f, l) ==
  /\ l \in Connections /\ SameEnds(k, l) /\ l.stage = k.stage
  /\ \/ k.stage = "none" /\ l = k
     \/ /\ k.stage \notin {"none", "live"} /\ WillReplay(k)
        /\ l.buffer = Append(k.buffer, f) /\ l.wire = k.wire /\ l.delivered = k.delivered
     \/ /\ k.stage # "none" /\ (WillReplay(k) => k.stage = "live")
        /\ l.buffer = k.buffer
        /\ l.wire = WriteAll(k, <<f>>).wire /\ l.delivered = WriteAll(k, <<f>>).delivered

LEMMA Emitted ==
  ASSUME NEW k \in Connections, NEW f \in Frames
  PROVE  EmitTo(k, f, EmitOrBuffer(k, f))
<1>1. DOMAIN k = Fields /\ k.buffer \in Seq(Frames)
  BY ConnectionFields
<1>2. CASE k.stage = "none"
  BY <1>2 DEF EmitOrBuffer, EmitTo, SameEnds
<1>3. CASE k.stage # "none" /\ WillReplay(k) /\ k.stage # "live"
  <2> DEFINE l == [k EXCEPT !.buffer = Append(k.buffer, f)]
  <2>1. EmitOrBuffer(k, f) = l
    BY <1>3 DEF EmitOrBuffer
  <2>2. Append(k.buffer, f) \in Seq(Frames)
    BY <1>1
  <2>3. l \in Connections
    BY <2>2 DEF Connections
  <2>4. SameEnds(k, l) /\ l.stage = k.stage /\ l.buffer = Append(k.buffer, f) /\ l.wire = k.wire
          /\ l.delivered = k.delivered
    BY <1>1 DEF SameEnds, Fields
  <2> HIDE DEF l
  <2>5. QED
    BY <1>3, <2>1, <2>3, <2>4 DEF EmitTo
<1>4. CASE k.stage # "none" /\ ~ (WillReplay(k) /\ k.stage # "live")
  <2>1. <<f>> \in Seq(Frames)
    OBVIOUS
  <2>2. EmitOrBuffer(k, f) = WriteAll(k, <<f>>)
    BY <1>4 DEF EmitOrBuffer, Write
  <2>3. QED
    BY <1>4, <2>1, <2>2, Written DEF EmitTo
<1>5. QED
  BY <1>2, <1>3, <1>4

(* A step of the read loop.                                                      *)
ReadTo(c) ==
  /\ conn' \in [Conns -> Connections]
  /\ conn'[c].wire = Tail(conn[c].wire) /\ conn'[c].buffer = conn[c].buffer
  /\ conn'[c].delivered = conn[c].delivered /\ conn'[c].from = conn[c].from
  /\ conn'[c].scoped = conn[c].scoped /\ conn'[c].awaits = conn[c].awaits
  /\ conn'[c].stage = conn[c].stage /\ conn'[c].phase = conn[c].phase
  /\ \A d \in Conns \ {c} : conn'[d] = conn[d]

LEMMA ReadsOne ==
  ASSUME TypeInv, NEW c \in Conns, Read(c)
  PROVE  /\ ReadTo(c) /\ Head(conn[c].wire) \in Frames
         /\ \/ /\ SkipDuplicate(c) \/ HandOnGap(c) \/ HandOnReply(c)
               /\ conn'[c].applying = conn[c].applying
            \/ HandOn(c) /\ conn'[c].applying = Head(conn[c].wire)
<1> DEFINE k == conn[c]
           l == [k EXCEPT !.wire = Tail(k.wire)]
<1>1. /\ conn \in [Conns -> Connections] /\ k \in Connections /\ DOMAIN k = Fields
      /\ k.wire \in Seq(Frames) /\ k.wire # <<>>
  BY TypesAre, ConnectionFields DEF Read
<1>2. Tail(k.wire) \in Seq(Frames) /\ Head(k.wire) \in Frames
  BY <1>1
<1>3. l \in Connections
  BY <1>1, <1>2 DEF Connections
<1>4. /\ SameEnds(k, l) /\ l.stage = k.stage /\ l.buffer = k.buffer /\ l.delivered = k.delivered
      /\ l.wire = Tail(k.wire)
  BY <1>1 DEF SameEnds, Fields
<1>5. NextFrame(c) = [conn EXCEPT ![c] = l]
  BY DEF NextFrame
<1> HIDE DEF l
<1>6. CASE SkipDuplicate(c) \/ HandOnGap(c) \/ HandOnReply(c)
  <2>1. conn' = [conn EXCEPT ![c] = l]
    BY <1>5, <1>6 DEF SkipDuplicate, HandOnGap, HandOnReply
  <2>2. QED
    BY <1>1, <1>2, <1>3, <1>4, <1>6, <2>1, ChangedTo DEF ReadTo, SameEnds
<1>7. CASE HandOn(c)
  <2> DEFINE e == Head(k.wire)
             m == [l EXCEPT !.applying = e]
  <2>1. conn' = [[conn EXCEPT ![c] = l] EXCEPT ![c].applying = e] /\ e \in Events
    BY <1>5, <1>7 DEF HandOn
  <2>2. conn' = [conn EXCEPT ![c] = m]
    BY <1>1, <2>1
  <2>3. e \in 0 .. MaxEvents
    BY <2>1, FramesAre
  <2>4. m \in Connections
    BY <1>3, <2>3 DEF Connections
  <2>5. DOMAIN l = Fields
    BY <1>3, ConnectionFields
  <2>6. /\ m.applying = e /\ m.phase = l.phase /\ m.scoped = l.scoped /\ m.from = l.from
        /\ m.awaits = l.awaits /\ m.stage = l.stage /\ m.buffer = l.buffer
        /\ m.delivered = l.delivered /\ m.wire = l.wire
    BY <2>5 DEF Fields
  <2> HIDE DEF m
  <2>7. QED
    BY <1>1, <1>2, <1>4, <1>7, <2>2, <2>4, <2>6, ChangedTo DEF ReadTo, SameEnds
<1>8. QED
  BY <1>6, <1>7 DEF Read

(* What a stream has carried stays, whatever becomes of the connection.          *)
SameStream(k, l) ==
  /\ l.wire = k.wire /\ l.buffer = k.buffer /\ l.delivered = k.delivered
  /\ l.from = k.from /\ l.applying = k.applying /\ l.scoped = k.scoped
  /\ l.awaits = k.awaits /\ l.stage = k.stage

LEMMA AbsorbedTo ==
  ASSUME TypeInv, NEW c \in Conns, Absorbed(c)
  PROVE  /\ conn' \in [Conns -> Connections]
         /\ conn'[c].applying = 0
         /\ conn'[c].wire = conn[c].wire /\ conn'[c].buffer = conn[c].buffer
         /\ conn'[c].delivered = conn[c].delivered /\ conn'[c].from = conn[c].from
         /\ conn'[c].scoped = conn[c].scoped /\ conn'[c].stage = conn[c].stage
         /\ conn'[c].awaits = conn[c].awaits /\ conn'[c].phase = conn[c].phase
         /\ \A d \in Conns \ {c} : conn'[d] = conn[d]
<1> DEFINE k == conn[c]
           l == [k EXCEPT !.applying = 0]
<1>1. conn \in [Conns -> Connections] /\ k \in Connections /\ DOMAIN k = Fields
  BY TypesAre, ConnectionFields
<1>2. 0 \in 0 .. MaxEvents
  BY FramesAre
<1>3. l \in Connections
  BY <1>1, <1>2 DEF Connections
<1>4. /\ l.applying = 0 /\ l.wire = k.wire /\ l.buffer = k.buffer /\ l.delivered = k.delivered
      /\ l.from = k.from /\ l.scoped = k.scoped /\ l.stage = k.stage /\ l.awaits = k.awaits
      /\ l.phase = k.phase
  BY <1>1 DEF Fields
<1>5. conn' = [conn EXCEPT ![c] = l]
  BY DEF Absorbed
<1> HIDE DEF l
<1>6. QED
  BY <1>1, <1>3, <1>4, <1>5, ChangedTo

(* The end of connections.                                                       *)
LEMMA GoneTo ==
  ASSUME conn \in [Conns -> Connections], NEW S \in SUBSET Conns
  PROVE  /\ Gone(S, conn) \in [Conns -> Connections]
         /\ \A c \in S : Gone(S, conn)[c] = Free
         /\ \A c \in Conns \ S : /\ SameStream(conn[c], Gone(S, conn)[c])
                                 /\ Gone(S, conn)[c].phase = conn[c].phase
<1> DEFINE l(c) == [conn[c] EXCEPT !.previous = conn[c].previous \ S]
<1>1. ASSUME NEW c \in Conns
      PROVE  l(c) \in Connections /\ SameStream(conn[c], l(c)) /\ l(c).phase = conn[c].phase
  <2>1. conn[c] \in Connections /\ DOMAIN conn[c] = Fields /\ conn[c].previous \in SUBSET Conns
    BY ConnectionFields
  <2>2. l(c) \in Connections
    BY <2>1 DEF Connections
  <2>3. QED
    BY <2>1, <2>2 DEF SameStream, Fields
<1>2. Gone(S, conn) = [c \in Conns |-> IF c \in S THEN Free ELSE l(c)]
  BY DEF Gone
<1> HIDE DEF l
<1>3. QED
  BY <1>1, <1>2, FreeConnection

(* A new connection.                                                             *)
LEMMA ConnectTo ==
  ASSUME TypeInv, NEW c \in Conns, NEW keep \in BOOLEAN, Connect(c, keep)
  PROVE  /\ conn' \in [Conns -> Connections]
         /\ conn'[c].phase = "opening" /\ conn'[c].stage = "none" /\ conn'[c].delivered = 0
         /\ conn'[c].wire = <<>> /\ conn'[c].buffer = <<>> /\ conn'[c].applying = 0
         /\ conn'[c].from = (IF wanted THEN mark ELSE 0)
         /\ conn'[c].awaits = (request \in {"emitted", "replied"})
         /\ \A d \in Conns \ {c} :
              \/ conn'[d] = Free
              \/ SameStream(conn[d], conn'[d]) /\ conn'[d].phase = conn[d].phase
<1> DEFINE kept == IF keep THEN conn ELSE Gone(InFlight, conn)
           before == IF keep THEN InFlight ELSE {}
           asks == request \in {"emitted", "replied"}
           since == IF wanted THEN mark ELSE 0
           new == [Free EXCEPT !.phase = "opening", !.previous = before, !.scoped = wanted,
                               !.from = since, !.awaits = asks]
<1>1. /\ conn \in [Conns -> Connections] /\ InFlight \in SUBSET Conns
      /\ before \in SUBSET Conns /\ asks \in BOOLEAN /\ wanted \in BOOLEAN
  BY TypesAre DEF InFlight
<1>2. since \in 0 .. MaxEvents
  BY TypesAre, FramesAre
<1>3. /\ kept \in [Conns -> Connections]
      /\ \A d \in Conns : \/ kept[d] = Free
                          \/ SameStream(conn[d], kept[d]) /\ kept[d].phase = conn[d].phase
  <2>1. CASE keep
    BY <1>1, <2>1 DEF SameStream
  <2>2. CASE ~ keep
    BY <1>1, <2>2, GoneTo
  <2>3. QED
    BY <2>1, <2>2
<1>4. conn' = [kept EXCEPT ![c] = new]
  BY DEF Connect
<1> HIDE DEF kept, before, asks, since
<1>5. new \in Connections
  BY <1>1, <1>2, FreeConnection DEF Connections
<1>6. /\ new.phase = "opening" /\ new.stage = "none" /\ new.delivered = 0 /\ new.wire = <<>>
      /\ new.buffer = <<>> /\ new.applying = 0 /\ new.from = since /\ new.awaits = asks
  BY DEF Free
<1> HIDE DEF new
<1>7. /\ conn' \in [Conns -> Connections] /\ conn'[c] = new
      /\ \A d \in Conns \ {c} : conn'[d] = kept[d]
  BY <1>3, <1>4, <1>5
<1>8. QED
  BY <1>3, <1>6, <1>7 DEF asks, since

LEMMA OpenedTo ==
  ASSUME TypeInv, NEW c \in Conns, Opened(c)
  PROVE  /\ conn' \in [Conns -> Connections]
         /\ conn'[c].phase = "reading"
         /\ \A d \in Conns : SameStream(conn[d], conn'[d])
         /\ \A d \in Conns \ {c} : conn'[d].phase = conn[d].phase
<1> DEFINE first == [conn[c] EXCEPT !.phase = "reading", !.previous = {}]
           late(d) == conn[d].superseded \/ d \in conn[c].previous
           other(d) == [conn[d] EXCEPT !.superseded = late(d)]
<1>1. \A d \in Conns : /\ conn[d] \in Connections /\ DOMAIN conn[d] = Fields
                       /\ conn[d].superseded \in BOOLEAN
  BY TypesAre, ConnectionFields
<1>2. first \in Connections /\ SameStream(conn[c], first) /\ first.phase = "reading"
  <2>1. conn[c] \in Connections /\ DOMAIN conn[c] = Fields /\ {} \in SUBSET Conns
    BY <1>1
  <2>2. first \in Connections
    BY <2>1 DEF Connections
  <2>3. SameStream(conn[c], first) /\ first.phase = "reading"
    BY <2>1 DEF SameStream, Fields
  <2>4. QED
    BY <2>2, <2>3
<1>3. ASSUME NEW d \in Conns
      PROVE  other(d) \in Connections /\ SameStream(conn[d], other(d)) /\ other(d).phase = conn[d].phase
  <2>1. late(d) \in BOOLEAN
    BY <1>1
  <2> HIDE DEF late
  <2>2. QED
    BY <1>1, <2>1 DEF Connections, SameStream, Fields
<1>4. conn' = [d \in Conns |-> IF d = c THEN first ELSE other(d)]
  BY DEF Opened
<1> HIDE DEF first, other
<1>5. QED
  BY <1>2, <1>3, <1>4

(* What each step does to the rest of the state.                                 *)
LEMMA TypesInit == Init => TypeInv
<1> SUFFICES ASSUME Init PROVE TypeInv
  OBVIOUS
<1>1. /\ retained = FALSE /\ conn = [c \in Conns |-> Free]
      /\ state = "initial" /\ wanted \in BOOLEAN /\ changed \in {FALSE, wanted}
      /\ (changed => MaxChanges > 0) /\ retries = 0 /\ clearable = FALSE /\ seenEventIds = {}
      /\ request = "none" /\ heard = <<>> /\ stray = FALSE
  BY DEF Init
<1>2. PICK s \in Starts :
        /\ stored = s.stored /\ missing = s.missing /\ published = s.published
        /\ mark = s.mark /\ excused = 1 .. s.mark
        /\ spent = [faults |-> Cardinality(missing), changes |-> IF changed THEN 1 ELSE 0]
  BY DEF Init
<1>3. MaxEvents \in Nat /\ MaxFaults \in Nat /\ MaxChanges \in Nat
  BY BusStreamAssumption
<1>4. /\ stored \in 0 .. MaxEvents /\ missing \subseteq 1 .. stored
      /\ Cardinality(missing) \in 0 .. MaxFaults
      /\ published \subseteq (1 .. stored) \ missing /\ mark \in published \cup {0}
  BY <1>2, StartsAssumption
<1>5. mark \in 0 .. MaxEvents /\ excused \subseteq 1 .. stored
  BY <1>2, <1>3, <1>4
<1>6. conn \in [Conns -> Connections]
  BY <1>1, FreeConnection
<1>7. heard \in Seq(Events) /\ changed \in BOOLEAN
  <2>1. <<>> \in Seq(Events)
    OBVIOUS
  <2>2. changed \in BOOLEAN
    BY <1>1
  <2>3. QED
    BY <1>1, <2>1, <2>2
<1>8. /\ DOMAIN spent = {"faults", "changes"} /\ spent["faults"] = Cardinality(missing)
      /\ spent["changes"] = (IF changed THEN 1 ELSE 0)
  BY <1>2
<1>9. \A what \in DOMAIN spent : spent[what] \in 0 .. Limit[what]
  <2>1. Limit["faults"] = MaxFaults /\ Limit["changes"] = MaxChanges
    BY DEF Limit
  <2>2. spent["changes"] \in 0 .. MaxChanges
    BY <1>1, <1>3, <1>8
  <2>3. QED
    BY <1>4, <1>8, <2>1, <2>2
<1>10. retries \in 0 .. MaxFaults /\ retries <= spent["faults"]
  BY <1>1, <1>3, <1>4, <1>8
<1>11. /\ state \in {"initial", "connecting", "open", "reconnecting"}
       /\ request \in {"none", "gated", "emitted", "replied", "settled", "failed"}
       /\ clearable \in BOOLEAN /\ (clearable => retries > 0)
       /\ seenEventIds \subseteq Events \cup {Reply} /\ stray \in BOOLEAN /\ retained \in BOOLEAN
  BY <1>1
<1>12. QED
  BY <1>1, <1>4, <1>5, <1>6, <1>7, <1>8, <1>9, <1>10, <1>11 DEF TypeInv, TypeOK, Log

(* The steps that spend nothing and leave the timers alone.                      *)
LEMMA TypesKept ==
  ASSUME TypeInv, conn' \in [Conns -> Connections], UNCHANGED spent,
         retries' \in Nat, retries' <= retries,
         clearable' \in BOOLEAN, clearable' => retries' > 0,
         stored' \in 0 .. MaxEvents, missing' \subseteq 1 .. stored',
         published' \subseteq (1 .. stored') \ missing', excused' \subseteq 1 .. stored',
         retained' \in BOOLEAN, state' \in {"initial", "connecting", "open", "reconnecting"},
         wanted' \in BOOLEAN, changed' \in BOOLEAN, mark' \in 0 .. MaxEvents,
         seenEventIds' \subseteq Events \cup {Reply},
         request' \in {"none", "gated", "emitted", "replied", "settled", "failed"},
         heard' \in Seq(Events), stray' \in BOOLEAN
  PROVE  TypeInv'
<1>1. MaxFaults \in Nat
  BY BusStreamAssumption
<1>2. spent["faults"] \in 0 .. MaxFaults
  BY DEF TypeInv, TypeOK, Limit
<1>3. retries \in Nat /\ retries <= spent["faults"]
  BY <1>1 DEF TypeInv, TypeOK
<1>4. retries' \in 0 .. MaxFaults /\ retries' <= spent'["faults"]
  BY <1>1, <1>2, <1>3
<1>5. QED
  BY <1>4 DEF TypeInv, TypeOK, Log

(* And those that spend.                                                         *)
LEMMA TypesSpent ==
  ASSUME TypeInv, conn' \in [Conns -> Connections],
         NEW what \in {"faults", "changes"}, Spend(what),
         \/ retries' = retries
         \/ what = "faults" /\ retries' = retries + 1,
         clearable' \in BOOLEAN, clearable' => retries' > 0,
         stored' \in 0 .. MaxEvents, missing' \subseteq 1 .. stored',
         published' \subseteq (1 .. stored') \ missing', excused' \subseteq 1 .. stored',
         retained' \in BOOLEAN, state' \in {"initial", "connecting", "open", "reconnecting"},
         wanted' \in BOOLEAN, changed' \in BOOLEAN,
         UNCHANGED <<mark, seenEventIds, request, heard, stray>>
  PROVE  TypeInv'
<1>1. /\ DOMAIN spent' = {"faults", "changes"}
      /\ \A other \in DOMAIN spent' : spent'[other] \in 0 .. Limit[other]
      /\ spent'[what] = spent[what] + 1
      /\ spent["faults"] \in 0 .. MaxFaults /\ spent'["faults"] \in 0 .. MaxFaults
      /\ spent["faults"] <= spent'["faults"]
  BY Spending
<1>2. MaxFaults \in Nat
  BY BusStreamAssumption
<1>3. retries \in Nat /\ retries <= spent["faults"]
  BY <1>2 DEF TypeInv, TypeOK
<1>4. retries' \in Nat /\ retries' <= spent'["faults"]
  <2>1. CASE retries' = retries
    BY <1>1, <1>2, <1>3, <2>1
  <2>2. CASE what = "faults" /\ retries' = retries + 1
    BY <1>1, <1>2, <1>3, <2>2
  <2>3. QED
    BY <2>1, <2>2
<1>5. retries' \in 0 .. MaxFaults
  BY <1>1, <1>2, <1>4
<1>6. QED
  BY <1>1, <1>4, <1>5 DEF TypeInv, TypeOK, Log

LEMMA TypesNow ==
  ASSUME TypeInv
  PROVE  /\ stored \in 0 .. MaxEvents /\ stored \in Nat /\ stored <= stored
         /\ missing \subseteq 1 .. stored /\ published \subseteq (1 .. stored) \ missing
         /\ excused \subseteq 1 .. stored
         /\ clearable \in BOOLEAN /\ (clearable => retries > 0)
         /\ conn \in [Conns -> Connections] /\ retained \in BOOLEAN
         /\ state \in {"initial", "connecting", "open", "reconnecting"}
         /\ wanted \in BOOLEAN /\ changed \in BOOLEAN /\ mark \in 0 .. MaxEvents
         /\ seenEventIds \subseteq Events \cup {Reply}
         /\ request \in {"none", "gated", "emitted", "replied", "settled", "failed"}
         /\ heard \in Seq(Events) /\ stray \in BOOLEAN
         /\ retries \in Nat /\ retries <= retries
<1>1. MaxEvents \in Nat /\ MaxFaults \in Nat
  BY BusStreamAssumption
<1>2. QED
  BY <1>1 DEF TypeInv, TypeOK, Log

LEMMA PublishTo ==
  ASSUME TypeInv, NEW e \in Events, Publish(e)
  PROVE  /\ conn' \in [Conns -> Connections]
         /\ \A c \in Conns : /\ conn[c].scoped => EmitTo(conn[c], e, conn'[c])
                             /\ ~ conn[c].scoped => conn'[c] = conn[c]
<1>1. conn \in [Conns -> Connections] /\ e \in Frames
  BY TypesNow, FramesAre
<1>2. \A c \in Conns : EmitTo(conn[c], e, EmitOrBuffer(conn[c], e))
  BY <1>1, Emitted
<1>3. \A c \in Conns : EmitOrBuffer(conn[c], e) \in Connections
  BY <1>2 DEF EmitTo
<1>4. conn' = [c \in Conns |-> IF conn[c].scoped THEN EmitOrBuffer(conn[c], e) ELSE conn[c]]
  BY DEF Publish
<1>5. QED
  BY <1>1, <1>2, <1>3, <1>4

LEMMA AnswerTo ==
  ASSUME TypeInv, Answer
  PROVE  /\ conn' \in [Conns -> Connections]
         /\ \A c \in Conns : EmitTo(conn[c], Reply, conn'[c])
<1>1. conn \in [Conns -> Connections] /\ Reply \in Frames
  BY TypesNow, FramesAre
<1>2. \A c \in Conns : EmitTo(conn[c], Reply, EmitOrBuffer(conn[c], Reply))
  BY <1>1, Emitted
<1>3. \A c \in Conns : EmitOrBuffer(conn[c], Reply) \in Connections
  BY <1>2 DEF EmitTo
<1>4. conn' = [c \in Conns |-> EmitOrBuffer(conn[c], Reply)]
  BY DEF Answer
<1>5. QED
  BY <1>2, <1>3, <1>4

LEMMA TypesStep ==
  ASSUME TypeInv, [Next]_vars
  PROVE  TypeInv'
<1>0. MaxEvents \in Nat
  BY FramesAre
<1>1. CASE Start
  <2>1. conn' \in [Conns -> Connections]
    BY <1>1, ConnectTo DEF Start
  <2>2. QED
    BY <1>1, <2>1, TypesNow, TypesKept DEF Start, serverVars, historyVars
<1>2. CASE ChangeChannels
  <2>1. QED
    BY <1>2, TypesNow, TypesSpent DEF ChangeChannels, serverVars
<1>3. CASE Reconnect
  <2>1. conn' \in [Conns -> Connections]
    BY <1>3, ConnectTo DEF Reconnect
  <2>2. retries' \in Nat /\ retries' <= retries /\ clearable' = FALSE
    <3>1. retries' = (IF clearable THEN retries - 1 ELSE retries) /\ clearable' = FALSE
      BY <1>3 DEF Reconnect, ClearRetry
    <3>2. QED
      BY <3>1, TypesNow
  <2>3. QED
    BY <1>3, <2>1, <2>2, TypesNow, TypesKept DEF Reconnect, serverVars, historyVars
<1>4. CASE Retry
  <2>1. conn' \in [Conns -> Connections]
    BY <1>4, ConnectTo DEF Retry
  <2>2. retries' \in Nat /\ retries' <= retries /\ clearable' \in BOOLEAN /\ (clearable' => retries' > 0)
    <3>1. retries > 0 /\ retries' = retries - 1 /\ clearable' = (clearable /\ retries > 1)
      BY <1>4 DEF Retry
    <3>2. clearable' \in BOOLEAN /\ (clearable' => retries > 1)
      BY <3>1
    <3>3. retries' \in Nat /\ retries' <= retries /\ (retries > 1 => retries' > 0)
      BY <3>1, TypesNow
    <3>4. QED
      BY <3>2, <3>3
  <2>3. state' \in {"connecting", "open"} /\ stray' \in BOOLEAN
    BY <1>4, TypesNow DEF Retry
  <2>4. QED
    BY <1>4, <2>1, <2>2, <2>3, TypesNow, TypesKept DEF Retry, serverVars
<1>5. CASE Store
  <2>1. /\ stored' = stored + 1 /\ stored' \in 0 .. MaxEvents
        /\ UNCHANGED <<published, retained, conn, clientVars, request, heard, excused, stray>>
    BY <1>0, <1>5, TypesNow DEF Store
  <2>2. /\ \A x \in 1 .. stored : x \in 1 .. stored' /\ x # stored + 1
        /\ stored + 1 \in 1 .. stored'
    BY <2>1, TypesNow
  <2>3. CASE UNCHANGED <<missing, spent>>
    BY <2>1, <2>2, <2>3, TypesNow, TypesKept DEF clientVars
  <2>4. CASE missing' = missing \cup {stored + 1} /\ Spend("faults")
    <3>1. missing' \subseteq 1 .. stored' /\ published' \subseteq (1 .. stored') \ missing'
          /\ excused' \subseteq 1 .. stored'
      BY <2>1, <2>2, <2>4, TypesNow
    <3>2. QED
      BY <2>1, <2>4, <3>1, TypesNow, TypesSpent DEF clientVars
  <2>5. QED
    BY <1>5, <2>3, <2>4 DEF Store
<1>19. ASSUME NEW e \in Events, StoreLate(e) PROVE TypeInv'
  <2>1. /\ missing' = missing \ {e}
        /\ UNCHANGED <<stored, published, retained, conn, clientVars, request, historyVars>>
    BY <1>19 DEF StoreLate
  <2>2. QED
    BY <2>1, TypesNow, TypesKept DEF clientVars, historyVars
<1>6. ASSUME NEW e \in Events, Publish(e) PROVE TypeInv'
  <2>1. /\ e \in 1 .. stored /\ published' = published \cup {e}
        /\ excused' = excused \cup ((1 .. (e - 1)) \ published)
        /\ e \notin missing
        /\ UNCHANGED <<stored, missing, retained, clientVars, request, heard, stray>>
    BY <1>6 DEF Publish, Excuse, Log
  <2>2. \A x \in 1 .. (e - 1) : x \in 1 .. stored
    BY <2>1, TypesNow
  <2>3. published' \subseteq (1 .. stored') \ missing' /\ excused' \subseteq 1 .. stored'
    BY <2>1, <2>2, TypesNow
  <2>4. conn' \in [Conns -> Connections]
    BY <1>6, PublishTo
  <2>5. CASE UNCHANGED spent
    BY <2>1, <2>3, <2>4, <2>5, TypesNow, TypesKept DEF clientVars
  <2>6. CASE Spend("faults")
    BY <2>1, <2>3, <2>4, <2>6, TypesNow, TypesSpent DEF clientVars
  <2>7. QED
    BY <1>6, <2>5, <2>6 DEF Publish
<1>7. ASSUME NEW c \in Conns, Attach(c) PROVE TypeInv'
  <2>1. conn' \in [Conns -> Connections]
    BY <1>7, TypesNow, AttachTo
  <2>2. excused' \subseteq 1 .. stored
    BY <1>7, TypesNow DEF Attach, Excuse
  <2>3. QED
    BY <1>7, <2>1, <2>2, TypesNow, TypesKept DEF Attach, serverVars, clientVars
<1>8. ASSUME NEW c \in Conns, Replay(c) PROVE TypeInv'
  <2>1. conn' \in [Conns -> Connections]
    BY <1>8, ReplayTo DEF WroteTo
  <2>2. excused' \subseteq 1 .. stored
    BY <1>8, TypesNow DEF Replay, Excuse, PassedOver
  <2>3. QED
    BY <1>8, <2>1, <2>2, TypesNow, TypesKept DEF Replay, serverVars, clientVars
<1>9. ASSUME NEW c \in Conns, ReplayFails(c) PROVE TypeInv'
  <2>1. conn' \in [Conns -> Connections]
    BY <1>9, ReplayFailsTo DEF WroteTo
  <2>2. conn[c].from \in Nat
    BY TypesNow, ConnectionFields, <1>0
  <2>3. \A x \in (conn[c].from + 1) .. stored : x \in 1 .. stored
    BY <2>2, TypesNow
  <2>4. excused' \subseteq 1 .. stored
    BY <1>9, <2>3, TypesNow DEF ReplayFails, Excuse
  <2>5. Spend("faults") /\ UNCHANGED <<serverVars, clientVars, request, heard, stray>>
    BY <1>9 DEF ReplayFails
  <2>6. QED
    BY <2>1, <2>4, <2>5, TypesNow, TypesSpent DEF serverVars, clientVars
<1>10. ASSUME NEW c \in Conns, Drain(c) PROVE TypeInv'
  <2>1. conn' \in [Conns -> Connections]
    BY <1>10, DrainTo DEF WroteTo
  <2>2. QED
    BY <1>10, <2>1, TypesNow, TypesKept DEF Drain, serverVars, clientVars, historyVars
<1>11. ASSUME NEW c \in Conns, Opened(c) PROVE TypeInv'
  <2>1. conn' \in [Conns -> Connections]
    BY <1>11, OpenedTo
  <2>2. state' \in {"initial", "connecting", "open", "reconnecting"}
    BY <1>11, TypesNow DEF Opened
  <2>3. stray' \in BOOLEAN
    BY <1>11, TypesNow DEF Opened
  <2>4. QED
    BY <1>11, <2>1, <2>2, <2>3, TypesNow, TypesKept DEF Opened, serverVars
<1>12. ASSUME NEW c \in Conns, LingerEnds(c) PROVE TypeInv'
  <2>1. conn' \in [Conns -> Connections]
    BY <1>12, TypesNow, GoneTo DEF LingerEnds
  <2>2. QED
    BY <1>12, <2>1, TypesNow, TypesKept DEF LingerEnds, serverVars, clientVars, historyVars
<1>13. ASSUME NEW c \in Conns, Drop(c) PROVE TypeInv'
  <2>1. conn' \in [Conns -> Connections]
    BY <1>13, TypesNow, GoneTo DEF Drop
  <2>2. Spend("faults") /\ UNCHANGED <<serverVars, wanted, changed, mark, seenEventIds, request, heard, excused, stray>>
    BY <1>13 DEF Drop
  <2>3. /\ retries' = retries \/ retries' = retries + 1
        /\ clearable' \in BOOLEAN /\ (clearable' => retries' > 0)
        /\ state' \in {"initial", "connecting", "open", "reconnecting"}
    <3>1. CASE conn[c].superseded
      BY <1>13, <3>1, TypesNow DEF Drop
    <3>2. CASE ~ conn[c].superseded
      <4>1. state' = "reconnecting" /\ retries' = retries + 1 /\ clearable' = TRUE
        BY <1>13, <3>2 DEF Drop
      <4>2. QED
        BY <4>1, TypesNow
    <3>3. QED
      BY <3>1, <3>2
  <2>4. QED
    BY <2>1, <2>2, <2>3, TypesNow, TypesSpent DEF serverVars
<1>14. ASSUME NEW c \in Conns, Read(c) PROVE TypeInv'
  <2>1. conn' \in [Conns -> Connections]
    BY <1>14, ReadsOne DEF ReadTo
  <2>2. /\ seenEventIds' \subseteq Events \cup {Reply} /\ heard' \in Seq(Events)
        /\ request' \in {"none", "gated", "emitted", "replied", "settled", "failed"}
    <3>1. CASE SkipDuplicate(c) \/ HandOnGap(c) \/ HandOnReply(c)
      BY <3>1, TypesNow DEF SkipDuplicate, HandOnGap, HandOnReply, Claim
    <3>2. CASE HandOn(c)
      BY <3>2, TypesNow DEF HandOn, Claim
    <3>3. QED
      BY <1>14, <3>1, <3>2 DEF Read
  <2>3. QED
    BY <1>14, <2>1, <2>2, TypesNow, TypesKept DEF Read, serverVars
<1>15. ASSUME NEW c \in Conns, Absorbed(c) PROVE TypeInv'
  <2>1. conn' \in [Conns -> Connections]
    BY <1>15, AbsorbedTo
  <2>2. mark' \in 0 .. MaxEvents
    BY <1>15, TypesNow, ConnectionFields DEF Absorbed
  <2>3. QED
    BY <1>15, <2>1, <2>2, TypesNow, TypesKept DEF Absorbed, serverVars, historyVars
<1>16. CASE RequestStep
  <2>1. conn' \in [Conns -> Connections]
    BY <1>16, AnswerTo, TypesNow DEF RequestStep, Ask, Emit, Answer, TimeOut, Evict
  <2>2. /\ request' \in {"none", "gated", "emitted", "replied", "settled", "failed"}
        /\ retained' \in BOOLEAN
    BY <1>16, TypesNow DEF RequestStep, Ask, Emit, Answer, TimeOut, Evict
  <2>3. QED
    BY <1>16, <2>1, <2>2, TypesNow, TypesKept DEF RequestStep, clientVars, historyVars
<1>17. CASE UNCHANGED vars
  BY <1>17, TypesNow, TypesKept DEF vars, serverVars, clientVars, historyVars
<1>18. QED
  BY <1>1, <1>2, <1>3, <1>4, <1>5, <1>6, <1>7, <1>8, <1>9, <1>10, <1>11, <1>12, <1>13,
     <1>14, <1>15, <1>16, <1>17, <1>19 DEF Next, Work

LEMMA TypesInvariant == Spec => []TypeInv
<1>1. Init => TypeInv
  BY TypesInit
<1>2. TypeInv /\ [Next]_vars => TypeInv'
  BY TypesStep
<1>3. QED
  BY <1>1, <1>2, PTL DEF Spec

(* Every variable of the stream keeps its type.                                  *)
THEOREM StreamTypes == Spec => []TypeOK
<1>1. TypeInv => TypeOK
  BY DEF TypeInv
<1>2. QED
  BY <1>1, TypesInvariant, PTL

-------------------------------------------------------------------------------
(* The order of what is on its way.                                              *)

LEMMA InOrderMore ==
  ASSUME NEW s, NEW S, NEW T, InOrder(s, S), S \cap Events \subseteq T
  PROVE  InOrder(s, T)
<1>1. SUFFICES ASSUME NEW i \in DOMAIN s, s[i] \in Events, NEW d \in 1 .. (s[i] - 1)
               PROVE  d \in T \/ \E j \in 1 .. (i - 1) : s[j] = d
  BY DEF InOrder
<1>2. d \in S \/ \E j \in 1 .. (i - 1) : s[j] = d
  BY <1>1 DEF InOrder
<1>3. d \in Events
  BY <1>1, FramesAre DEF Events
<1>4. QED
  BY <1>2, <1>3

LEMMA InOrderOne ==
  ASSUME NEW f, NEW S, f \in Events => 1 .. (f - 1) \subseteq S
  PROVE  InOrder(<<f>>, S) /\ ToSet(<<f>>) = {f}
<1>1. DOMAIN <<f>> = {1} /\ <<f>>[1] = f
  OBVIOUS
<1>2. QED
  BY <1>1 DEF InOrder, ToSet

LEMMA InOrderTail ==
  ASSUME NEW s \in Seq(Frames), s # <<>>, NEW S, NEW T, InOrder(s, S),
         S \subseteq T, Head(s) \in Events => Head(s) \in T
  PROVE  InOrder(Tail(s), T)
<1>1. /\ Len(s) \in Nat /\ DOMAIN s = 1 .. Len(s) /\ Len(s) # 0 /\ Head(s) = s[1]
      /\ DOMAIN Tail(s) = 1 .. (Len(s) - 1)
      /\ \A i \in 1 .. (Len(s) - 1) : Tail(s)[i] = s[i + 1]
  OBVIOUS
<1>2. SUFFICES ASSUME NEW i \in 1 .. (Len(s) - 1), Tail(s)[i] \in Events,
                      NEW d \in 1 .. (Tail(s)[i] - 1)
               PROVE  d \in T \/ \E j \in 1 .. (i - 1) : Tail(s)[j] = d
  BY <1>1 DEF InOrder
<1>3. i + 1 \in DOMAIN s /\ Tail(s)[i] = s[i + 1]
  BY <1>1
<1>4. d \in S \/ \E j \in 1 .. i : s[j] = d
  BY <1>2, <1>3 DEF InOrder
<1>5. CASE d \in S
  BY <1>5
<1>6. ASSUME NEW j \in 1 .. i, s[j] = d
      PROVE  d \in T \/ \E m \in 1 .. (i - 1) : Tail(s)[m] = d
  <2>1. CASE j = 1
    <3>1. d \in Events
      BY <1>2, FramesAre DEF Events
    <3>2. QED
      BY <1>1, <1>6, <2>1, <3>1
  <2>2. CASE j # 1
    <3>1. j - 1 \in 1 .. (i - 1) /\ j - 1 \in 1 .. (Len(s) - 1) /\ (j - 1) + 1 = j
      BY <1>1, <2>2
    <3>2. Tail(s)[j - 1] = d
      BY <1>1, <1>6, <3>1
    <3>3. QED
      BY <3>1, <3>2
  <2>3. QED
    BY <2>1, <2>2
<1>7. QED
  BY <1>4, <1>5, <1>6

LEMMA InOrderAppend ==
  ASSUME NEW s \in Seq(Frames), NEW f \in Frames, NEW S, InOrder(s, S),
         f \in Events => 1 .. (f - 1) \subseteq S \cup ToSet(s)
  PROVE  /\ InOrder(Append(s, f), S) /\ Append(s, f) # <<>>
         /\ ToSet(Append(s, f)) = ToSet(s) \cup {f}
<1>1. /\ Len(s) \in Nat /\ DOMAIN s = 1 .. Len(s)
      /\ DOMAIN Append(s, f) = 1 .. (Len(s) + 1) /\ Append(s, f)[Len(s) + 1] = f
      /\ \A i \in 1 .. Len(s) : Append(s, f)[i] = s[i]
      /\ Append(s, f) # <<>>
  OBVIOUS
<1> DEFINE r == Append(s, f)
<1>2. DOMAIN r = 1 .. (Len(s) + 1) /\ r[Len(s) + 1] = f /\ \A i \in 1 .. Len(s) : r[i] = s[i]
  BY <1>1
<1>3. \A i \in 1 .. (Len(s) + 1) : i \in 1 .. Len(s) \/ i = Len(s) + 1
  BY <1>1
<1>4. \A i \in 1 .. Len(s) : i \in 1 .. (Len(s) + 1)
  BY <1>1
<1> HIDE DEF r
<1>5. ToSet(r) = ToSet(s) \cup {f}
  <2>1. ToSet(r) \subseteq ToSet(s) \cup {f}
    BY <1>1, <1>2, <1>3 DEF ToSet
  <2>2. f \in ToSet(r) /\ ToSet(s) \subseteq ToSet(r)
    BY <1>1, <1>2, <1>4 DEF ToSet
  <2>3. QED
    BY <2>1, <2>2
<1>6. InOrder(r, S)
  <2>1. SUFFICES ASSUME NEW i \in 1 .. (Len(s) + 1), r[i] \in Events, NEW d \in 1 .. (r[i] - 1)
                 PROVE  d \in S \/ \E j \in 1 .. (i - 1) : r[j] = d
    BY <1>2 DEF InOrder
  <2>2. CASE i \in 1 .. Len(s)
    <3>1. d \in S \/ \E j \in 1 .. (i - 1) : s[j] = d
      BY <1>1, <1>2, <2>1, <2>2 DEF InOrder
    <3>2. \A j \in 1 .. (i - 1) : j \in 1 .. Len(s)
      BY <1>1, <2>2
    <3>3. QED
      BY <1>2, <3>1, <3>2
  <2>3. CASE i = Len(s) + 1
    <3>1. d \in S \/ \E j \in 1 .. Len(s) : s[j] = d
      BY <1>1, <1>2, <2>1, <2>3 DEF ToSet
    <3>2. \A j \in 1 .. Len(s) : j \in 1 .. (i - 1)
      BY <1>1, <2>3
    <3>3. QED
      BY <1>2, <3>1, <3>2
  <2>4. QED
    BY <1>3, <2>2, <2>3
<1>7. QED
  BY <1>1, <1>5, <1>6 DEF r

-------------------------------------------------------------------------------
(* A stream that is left alone stays ready, and so does one that is not there.   *)

LEMMA StreamStays ==
  ASSUME NEW k, NEW l, SameStream(k, l),
         NEW known, NEW public, NEW log, Ready(k, known, public, log),
         NEW known2, NEW public2, NEW log2, known \subseteq known2, log \subseteq log2,
         public2 = public \/ ~ k.scoped \/ k.stage = "none"
  PROVE  Ready(l, known2, public2, log2)
<1>1. /\ l.wire = k.wire /\ l.buffer = k.buffer /\ l.delivered = k.delivered
      /\ l.from = k.from /\ l.applying = k.applying /\ l.scoped = k.scoped /\ l.stage = k.stage
      /\ WillReplay(l) = WillReplay(k)
  BY DEF SameStream, WillReplay
<1> DEFINE F == Fetching(k, log)
           G == Fetching(l, log2)
           B == known \cup ToSet(k.wire)
           C == known2 \cup ToSet(k.wire)
<1>2. /\ InOrder(k.wire, known) /\ InOrder(k.buffer, B \cup F)
      /\ 1 .. k.delivered \subseteq B /\ 1 .. k.from \subseteq known
      /\ 1 .. k.applying \subseteq known
      /\ k.scoped /\ k.stage # "none" => public \subseteq B \cup F \cup ToSet(k.buffer)
      /\ k.buffer # <<>> => WillReplay(k) /\ k.stage # "live"
      /\ (ToSet(k.wire) \cup ToSet(k.buffer)) \cap Events \subseteq log
  BY DEF Ready
<1>3. \A y \in log : y \in log2
  OBVIOUS
<1>4. F \subseteq G
  BY <1>1, <1>3 DEF Fetching
<1>5. B \subseteq C
  OBVIOUS
<1> HIDE DEF F, G, B, C
<1>6. InOrder(k.wire, known2)
  <2>1. known \cap Events \subseteq known2
    OBVIOUS
  <2>2. QED
    BY <1>2, <2>1, InOrderMore
<1>7. InOrder(k.buffer, C \cup G)
  <2> DEFINE S == B \cup F
             T == C \cup G
  <2>1. S \cap Events \subseteq T
    BY <1>4, <1>5
  <2>2. InOrder(k.buffer, S)
    BY <1>2
  <2> HIDE DEF S, T
  <2>3. InOrder(k.buffer, T)
    BY <2>1, <2>2, InOrderMore
  <2>4. QED
    BY <2>3 DEF T
<1>8. l.scoped /\ l.stage # "none" => public2 \subseteq C \cup G \cup ToSet(k.buffer)
  BY <1>1, <1>2, <1>4, <1>5
<1>9. (ToSet(l.wire) \cup ToSet(l.buffer)) \cap Events \subseteq log2
  BY <1>1, <1>2, <1>3
<1>10. 1 .. l.delivered \subseteq C /\ 1 .. l.from \subseteq known2 /\ 1 .. l.applying \subseteq known2
  BY <1>1, <1>2, <1>5
<1>11. l.buffer # <<>> => WillReplay(l) /\ l.stage # "live"
  BY <1>1, <1>2
<1>12. QED
  BY <1>1, <1>6, <1>7, <1>8, <1>9, <1>10, <1>11 DEF Ready, C, G

(* A connection that was just made, or is not there, carries nothing.            *)
LEMMA EmptyReady ==
  ASSUME NEW k, k.wire = <<>>, k.buffer = <<>>, k.delivered = 0, k.applying = 0, k.stage = "none",
         NEW known, NEW public, NEW log, 1 .. k.from \subseteq known
  PROVE  Ready(k, known, public, log)
<1>1. 1 .. 0 = {}
  OBVIOUS
<1>2. QED
  BY <1>1, NoFrames DEF Ready

LEMMA FreeReady ==
  ASSUME NEW known, NEW public, NEW log
  PROVE  Ready(Free, known, public, log)
<1>1. /\ Free.wire = <<>> /\ Free.buffer = <<>> /\ Free.delivered = 0 /\ Free.applying = 0
      /\ Free.stage = "none" /\ Free.from = 0
  BY DEF Free
<1>2. 1 .. 0 = {}
  OBVIOUS
<1>3. QED
  BY <1>1, <1>2, EmptyReady

LEMMA ReadyIf ==
  ASSUME NEW k, NEW known, NEW public, NEW log,
         NEW B, B = known \cup ToSet(k.wire), NEW F, F = Fetching(k, log),
         InOrder(k.wire, known), InOrder(k.buffer, B \cup F),
         1 .. k.delivered \subseteq B, 1 .. k.from \subseteq known, 1 .. k.applying \subseteq known,
         k.scoped /\ k.stage # "none" => public \subseteq B \cup F \cup ToSet(k.buffer),
         k.buffer # <<>> => WillReplay(k) /\ k.stage # "live",
         (ToSet(k.wire) \cup ToSet(k.buffer)) \cap Events \subseteq log
  PROVE  Ready(k, known, public, log)
  BY DEF Ready

LEMMA AccountedOn ==
  \A k \in Connections, frames \in Seq(Frames) : \A B, w :
     InOrder(k.wire, B) /\ 1 .. k.delivered \subseteq B \cup ToSet(k.wire)
       /\ InOrder(frames, B \cup ToSet(k.wire)) /\ w = WriteAll(k, frames)
     => /\ InOrder(w.wire, B)
        /\ 1 .. w.delivered \subseteq B \cup ToSet(w.wire)
        /\ ToSet(frames) \cap Events \subseteq B \cup ToSet(w.wire)
        /\ ToSet(k.wire) \subseteq ToSet(w.wire)
        /\ ToSet(w.wire) \subseteq ToSet(k.wire) \cup ToSet(frames)
  BY Accounted

(* What the gateway writes at a stroke: the replay, the gap signal, the buffer.  *)
LEMMA WroteReady ==
  ASSUME NEW k \in Connections, NEW l \in Connections, NEW frames \in Seq(Frames),
         SameEnds(k, l), k.stage # "none", l.stage \in {"draining", "live"},
         l.wire = WriteAll(k, frames).wire, l.delivered = WriteAll(k, frames).delivered,
         NEW known, NEW known2, NEW public, NEW log,
         Ready(k, known, public, log), known \subseteq known2,
         public \subseteq Events,
         InOrder(frames, known2 \cup ToSet(k.wire)),
         ToSet(frames) \cap Events \subseteq log,
         Fetching(k, log) \cap Events \subseteq known2 \cup ToSet(k.wire) \cup ToSet(frames),
         \/ l.buffer = k.buffer /\ (k.buffer # <<>> => l.stage # "live")
         \/ l.buffer = <<>> /\ frames = k.buffer
  PROVE  Ready(l, known2, public, log)
<1> DEFINE F == Fetching(k, log)
           B == known \cup ToSet(k.wire)
           C == known2 \cup ToSet(l.wire)
           w == WriteAll(k, frames)
<1>1. /\ InOrder(k.wire, known) /\ InOrder(k.buffer, B \cup F)
      /\ 1 .. k.delivered \subseteq B /\ 1 .. k.from \subseteq known
      /\ 1 .. k.applying \subseteq known
      /\ k.scoped /\ k.stage # "none" => public \subseteq B \cup F \cup ToSet(k.buffer)
      /\ k.buffer # <<>> => WillReplay(k) /\ k.stage # "live"
      /\ (ToSet(k.wire) \cup ToSet(k.buffer)) \cap Events \subseteq log
  BY DEF Ready
<1>2. InOrder(k.wire, known2)
  <2>1. known \cap Events \subseteq known2
    OBVIOUS
  <2>2. QED
    BY <1>1, <2>1, InOrderMore
<1>3. 1 .. k.delivered \subseteq known2 \cup ToSet(k.wire)
  BY <1>1
<1>4. /\ InOrder(w.wire, known2)
      /\ 1 .. w.delivered \subseteq known2 \cup ToSet(w.wire)
      /\ ToSet(frames) \cap Events \subseteq known2 \cup ToSet(w.wire)
      /\ ToSet(k.wire) \subseteq ToSet(w.wire)
      /\ ToSet(w.wire) \subseteq ToSet(k.wire) \cup ToSet(frames)
  <2> HIDE DEF F, B, C, w
  <2>1. InOrder(frames, known2 \cup ToSet(k.wire)) /\ w = WriteAll(k, frames)
    BY DEF w
  <2>2. QED
    BY <1>2, <1>3, <2>1, AccountedOn
<1> HIDE DEF F, B, C, w
<1>5. /\ InOrder(l.wire, known2) /\ 1 .. l.delivered \subseteq C
      /\ ToSet(frames) \cap Events \subseteq C
      /\ ToSet(k.wire) \subseteq ToSet(l.wire)
      /\ ToSet(l.wire) \subseteq ToSet(k.wire) \cup ToSet(frames)
  BY <1>4 DEF C, w
<1>6. (B \cup F) \cap Events \subseteq C
  BY <1>5 DEF B, C, F
<1>7. Fetching(l, log) = {} /\ WillReplay(l) = WillReplay(k)
  BY DEF Fetching, SameEnds, WillReplay
<1>8. InOrder(l.buffer, C \cup {})
  <2>1. CASE l.buffer = k.buffer
    <3> DEFINE S == B \cup F
               T == C \cup {}
    <3>1. InOrder(k.buffer, S) /\ S \cap Events \subseteq T
      BY <1>1, <1>6
    <3> HIDE DEF S, T
    <3>2. InOrder(k.buffer, T)
      BY <3>1, InOrderMore
    <3>3. QED
      BY <2>1, <3>2 DEF T
  <2>2. CASE l.buffer = <<>>
    BY <2>2, NoFrames
  <2>3. QED
    BY <2>1, <2>2
<1>9. l.scoped /\ l.stage # "none" => public \subseteq C \cup {} \cup ToSet(l.buffer)
  <2>1. SUFFICES ASSUME k.scoped PROVE public \subseteq C \cup ToSet(l.buffer)
    BY DEF SameEnds
  <2>2. public \subseteq (B \cup F) \cup ToSet(k.buffer)
    BY <1>1, <2>1
  <2>3. CASE l.buffer = k.buffer
    BY <1>6, <2>2, <2>3
  <2>4. CASE l.buffer = <<>> /\ frames = k.buffer
    BY <1>5, <1>6, <2>2, <2>4
  <2>5. QED
    BY <2>3, <2>4
<1>10. /\ 1 .. l.from \subseteq known2 /\ 1 .. l.applying \subseteq known2
       /\ l.buffer # <<>> => WillReplay(l) /\ l.stage # "live"
  BY <1>1, <1>7 DEF SameEnds
<1>11. (ToSet(l.wire) \cup ToSet(l.buffer)) \cap Events \subseteq log
  BY <1>1, <1>5, NoFrames
<1>12. QED
  BY <1>5, <1>7, <1>8, <1>9, <1>10, <1>11, ReadyIf DEF C

(* A frame that comes live: an event after all that were published and those     *)
(* that will be known, or another frame.                                         *)
LEMMA EmitReady ==
  ASSUME NEW k \in Connections, NEW l, NEW f \in Frames, EmitTo(k, f, l),
         NEW known, NEW known2, NEW public, NEW log,
         Ready(k, known, public, log), known \subseteq known2,
         f \in Events => k.scoped /\ f \in log /\ 1 .. (f - 1) \subseteq known2 \cup public
  PROVE  Ready(l, known2, public \cup ({f} \cap Events), log)
<1> DEFINE F == Fetching(k, log)
           B == known \cup ToSet(k.wire)
           public2 == public \cup ({f} \cap Events)
           C == known2 \cup ToSet(l.wire)
<1>1. /\ InOrder(k.wire, known) /\ InOrder(k.buffer, B \cup F)
      /\ 1 .. k.delivered \subseteq B /\ 1 .. k.from \subseteq known
      /\ 1 .. k.applying \subseteq known
      /\ k.scoped /\ k.stage # "none" => public \subseteq B \cup F \cup ToSet(k.buffer)
      /\ k.buffer # <<>> => WillReplay(k) /\ k.stage # "live"
      /\ (ToSet(k.wire) \cup ToSet(k.buffer)) \cap Events \subseteq log
  BY DEF Ready
<1>2. InOrder(k.wire, known2)
  <2>1. known \cap Events \subseteq known2
    OBVIOUS
  <2>2. QED
    BY <1>1, <2>1, InOrderMore
<1>3. /\ SameEnds(k, l) /\ l.stage = k.stage /\ WillReplay(l) = WillReplay(k)
      /\ Fetching(l, log) = F
  BY DEF EmitTo, Fetching, SameEnds, WillReplay
<1>4. 1 .. l.from \subseteq known2 /\ 1 .. l.applying \subseteq known2
  BY <1>1, <1>3 DEF SameEnds
<1>5. /\ k.wire \in Seq(Frames) /\ k.buffer \in Seq(Frames)
  BY ConnectionFields
<1>6. CASE k.stage = "none" /\ l = k
  <2>1. SameStream(k, l)
    BY <1>6 DEF SameStream
  <2>2. QED
    BY <1>6, <2>1, StreamStays
<1>7. CASE /\ k.stage \notin {"none", "live"} /\ WillReplay(k)
           /\ l.buffer = Append(k.buffer, f) /\ l.wire = k.wire /\ l.delivered = k.delivered
  <2>1. B \subseteq C /\ C = known2 \cup ToSet(k.wire)
    BY <1>7
  <2>2. InOrder(k.buffer, C \cup F)
    <3> DEFINE S == B \cup F
               T == C \cup F
    <3>1. InOrder(k.buffer, S) /\ S \cap Events \subseteq T
      BY <1>1, <2>1
    <3> HIDE DEF S, T
    <3>2. InOrder(k.buffer, T)
      BY <3>1, InOrderMore
    <3>3. QED
      BY <3>2 DEF T
  <2>3. f \in Events => 1 .. (f - 1) \subseteq (C \cup F) \cup ToSet(k.buffer)
    BY <1>1, <1>7, <2>1
  <2> HIDE DEF B, C, F, public2
  <2>4. /\ InOrder(l.buffer, C \cup F) /\ l.buffer # <<>> /\ ToSet(l.buffer) = ToSet(k.buffer) \cup {f}
    BY <1>5, <1>7, <2>2, <2>3, InOrderAppend
  <2>5. l.scoped /\ l.stage # "none" => public2 \subseteq C \cup F \cup ToSet(l.buffer)
    BY <1>1, <1>3, <2>1, <2>4 DEF SameEnds, public2
  <2>6. 1 .. l.delivered \subseteq C
    BY <1>1, <1>7, <2>1
  <2>7. (ToSet(l.wire) \cup ToSet(l.buffer)) \cap Events \subseteq log
    BY <1>1, <1>7, <2>4
  <2>8. InOrder(l.wire, known2) /\ (l.buffer # <<>> => WillReplay(l) /\ l.stage # "live")
    BY <1>2, <1>3, <1>7
  <2>9. Ready(l, known2, public2, log)
    BY <1>3, <1>4, <2>4, <2>5, <2>6, <2>7, <2>8, ReadyIf DEF C
  <2>10. QED
    BY <2>9 DEF public2
<1>8. CASE /\ k.stage # "none" /\ (WillReplay(k) => k.stage = "live")
           /\ l.buffer = k.buffer
           /\ l.wire = WriteAll(k, <<f>>).wire /\ l.delivered = WriteAll(k, <<f>>).delivered
  <2> DEFINE w == WriteAll(k, <<f>>)
  <2>1. k.buffer = <<>> /\ F = {}
    BY <1>1, <1>8 DEF Fetching
  <2>2. f \in Events => 1 .. (f - 1) \subseteq known2 \cup ToSet(k.wire)
    BY <1>1, <1>8, <2>1, NoFrames
  <2>3. InOrder(<<f>>, known2 \cup ToSet(k.wire)) /\ ToSet(<<f>>) = {f}
    BY <2>2, InOrderOne
  <2>4. <<f>> \in Seq(Frames) /\ 1 .. k.delivered \subseteq known2 \cup ToSet(k.wire)
    BY <1>1
  <2>5. /\ InOrder(w.wire, known2)
        /\ 1 .. w.delivered \subseteq known2 \cup ToSet(w.wire)
        /\ ToSet(<<f>>) \cap Events \subseteq known2 \cup ToSet(w.wire)
        /\ ToSet(k.wire) \subseteq ToSet(w.wire)
        /\ ToSet(w.wire) \subseteq ToSet(k.wire) \cup ToSet(<<f>>)
    BY <1>2, <2>3, <2>4, Accounted
  <2> HIDE DEF w
  <2>6. /\ InOrder(l.wire, known2) /\ 1 .. l.delivered \subseteq C
        /\ {f} \cap Events \subseteq C /\ ToSet(k.wire) \subseteq ToSet(l.wire)
        /\ ToSet(l.wire) \subseteq ToSet(k.wire) \cup {f}
    BY <1>8, <2>3, <2>5 DEF w
  <2>7. InOrder(l.buffer, C \cup F)
    BY <1>8, <2>1, NoFrames
  <2>8. l.scoped /\ l.stage # "none" => public2 \subseteq C \cup F \cup ToSet(l.buffer)
    BY <1>1, <1>3, <1>8, <2>1, <2>6, NoFrames DEF SameEnds
  <2>9. (ToSet(l.wire) \cup ToSet(l.buffer)) \cap Events \subseteq log
    BY <1>1, <1>8, <2>6
  <2>10. l.buffer # <<>> => WillReplay(l) /\ l.stage # "live"
    BY <1>8, <2>1
  <2> HIDE DEF F, C, public2
  <2>11. Ready(l, known2, public2, log)
    BY <1>3, <1>4, <2>6, <2>7, <2>8, <2>9, <2>10, ReadyIf DEF C
  <2>12. QED
    BY <2>11 DEF public2
<1>9. QED
  BY <1>6, <1>7, <1>8 DEF EmitTo

(* The first frame of the wire is read.                                          *)
LEMMA ReadReady ==
  ASSUME NEW k \in Connections, NEW l \in Connections, k.wire # <<>>,
         l.wire = Tail(k.wire), l.buffer = k.buffer, l.delivered = k.delivered,
         l.from = k.from, l.scoped = k.scoped, l.stage = k.stage,
         NEW known, NEW known2, NEW public, NEW log,
         Ready(k, known, public, log), known \subseteq known2, public \subseteq Events,
         Head(k.wire) \in Events => Head(k.wire) \in known2,
         \/ l.applying = k.applying
         \/ l.applying = Head(k.wire) /\ Head(k.wire) \in Events
  PROVE  Ready(l, known2, public, log)
<1> DEFINE F == Fetching(k, log)
           B == known \cup ToSet(k.wire)
           C == known2 \cup ToSet(l.wire)
           e == Head(k.wire)
<1>1. /\ InOrder(k.wire, known) /\ InOrder(k.buffer, B \cup F)
      /\ 1 .. k.delivered \subseteq B /\ 1 .. k.from \subseteq known
      /\ 1 .. k.applying \subseteq known
      /\ k.scoped /\ k.stage # "none" => public \subseteq B \cup F \cup ToSet(k.buffer)
      /\ k.buffer # <<>> => WillReplay(k) /\ k.stage # "live"
      /\ (ToSet(k.wire) \cup ToSet(k.buffer)) \cap Events \subseteq log
  BY DEF Ready
<1>2. WillReplay(l) = WillReplay(k) /\ Fetching(l, log) = F
  BY DEF Fetching, WillReplay
<1>3. k.wire \in Seq(Frames) /\ k.delivered \in 0 .. MaxEvents
  BY ConnectionFields
<1>4. ToSet(k.wire) = {e} \cup ToSet(l.wire)
  BY <1>3, FrontOf
<1>5. B \cap Events \subseteq C
  BY <1>4
<1>6. InOrder(l.wire, known2)
  BY <1>1, <1>3, InOrderTail
<1>7. InOrder(l.buffer, C \cup F)
  <2> DEFINE S == B \cup F
             T == C \cup F
  <2>1. InOrder(k.buffer, S) /\ S \cap Events \subseteq T
    BY <1>1, <1>5
  <2> HIDE DEF S, T
  <2>2. InOrder(k.buffer, T)
    BY <2>1, InOrderMore
  <2>3. QED
    BY <2>2 DEF T
<1>8. 1 .. l.delivered \subseteq C
  <2>1. \A d \in 1 .. k.delivered : d \in Events
    BY <1>3, FramesAre DEF Events
  <2>2. QED
    BY <1>1, <1>5, <2>1
<1>9. 1 .. l.from \subseteq known2 /\ 1 .. l.applying \subseteq known2
  <2>1. CASE l.applying = k.applying
    BY <1>1, <2>1
  <2>2. CASE l.applying = e /\ e \in Events
    <3>1. /\ 1 \in DOMAIN k.wire /\ k.wire[1] = e
      BY <1>3
    <3>2. \A d \in 1 .. (e - 1) : d \in known
      BY <1>1, <2>2, <3>1 DEF InOrder
    <3>3. e \in Nat
      BY <2>2, FramesAre
    <3>4. \A d \in 1 .. e : d \in 1 .. (e - 1) \/ d = e
      BY <3>3
    <3>5. QED
      BY <1>1, <2>2, <3>2, <3>4
  <2>3. QED
    BY <2>1, <2>2
<1>10. l.scoped /\ l.stage # "none" => public \subseteq C \cup F \cup ToSet(l.buffer)
  BY <1>1, <1>5
<1>11. (ToSet(l.wire) \cup ToSet(l.buffer)) \cap Events \subseteq log
  BY <1>1, <1>4
<1>12. l.buffer # <<>> => WillReplay(l) /\ l.stage # "live"
  BY <1>1, <1>2
<1> HIDE DEF F, B, C, e
<1>13. QED
  BY <1>2, <1>6, <1>7, <1>8, <1>9, <1>10, <1>11, <1>12, ReadyIf DEF C

-------------------------------------------------------------------------------
(* The steps.                                                                    *)

LEMMA LogKept ==
  ASSUME UNCHANGED <<stored, missing>>
  PROVE  Log' = Log
  BY DEF Log

AllReady == \A c \in Conns : Ready(conn[c], Known, published, Log)

LEMMA KnownKept ==
  ASSUME StreamInv, UNCHANGED <<heard, mark, seenEventIds>>, excused \subseteq excused', AllReady'
  PROVE  StreamInv'
<1>1. Heard' = Heard /\ Known \subseteq Known'
  BY DEF Heard, Known
<1>2. QED
  BY <1>1 DEF StreamInv, AllReady

LEMMA KnownGrows ==
  ASSUME UNCHANGED heard, excused \subseteq excused'
  PROVE  Known \subseteq Known' /\ Known' = Known \cup excused'
  BY DEF Heard, Known

LEMMA StaysReady ==
  ASSUME TypeInv, StreamInv, UNCHANGED <<published, stored, missing>>, Known \subseteq Known',
         NEW c \in Conns, SameStream(conn[c], conn'[c]) \/ conn'[c] = conn[c] \/ conn'[c] = Free
  PROVE  Ready(conn'[c], Known', published', Log')
<1>1. Log' = Log /\ Ready(conn[c], Known, published, Log)
  BY LogKept DEF StreamInv
<1>2. Log \subseteq Log'
  BY <1>1
<1>3. CASE SameStream(conn[c], conn'[c]) \/ conn'[c] = conn[c]
  <2>1. SameStream(conn[c], conn'[c])
    BY <1>3 DEF SameStream
  <2>2. QED
    BY <1>1, <1>2, <2>1, StreamStays
<1>4. CASE conn'[c] = Free
  BY <1>4, FreeReady
<1>5. QED
  BY <1>3, <1>4

LEMMA ConnectReady ==
  ASSUME TypeInv, StreamInv, NEW c \in Conns, NEW keep \in BOOLEAN, Connect(c, keep),
         UNCHANGED <<published, stored, missing, heard, excused>>
  PROVE  AllReady'
<1>1. /\ conn'[c].stage = "none" /\ conn'[c].delivered = 0
      /\ conn'[c].wire = <<>> /\ conn'[c].buffer = <<>> /\ conn'[c].applying = 0
      /\ conn'[c].from = (IF wanted THEN mark ELSE 0)
      /\ \A d \in Conns \ {c} : conn'[d] = Free \/ SameStream(conn[d], conn'[d])
  BY ConnectTo
<1>2. Known' = Known
  BY DEF Known, Heard
<1>3. 1 .. conn'[c].from \subseteq Known'
  BY <1>1, <1>2 DEF StreamInv
<1>4. Ready(conn'[c], Known', published', Log')
  BY <1>1, <1>3, EmptyReady
<1>5. \A d \in Conns \ {c} : Ready(conn'[d], Known', published', Log')
  BY <1>1, <1>2, StaysReady
<1>6. QED
  BY <1>4, <1>5 DEF AllReady

LEMMA GoneReady ==
  ASSUME TypeInv, StreamInv, NEW c \in Conns, conn' = Gone({c}, conn),
         UNCHANGED <<published, stored, missing, heard, excused>>
  PROVE  AllReady'
<1>1. conn \in [Conns -> Connections] /\ {c} \in SUBSET Conns
  BY TypesNow
<1>2. \A d \in Conns : conn'[d] = Free \/ SameStream(conn[d], conn'[d])
  BY <1>1, GoneTo
<1>3. Known' = Known
  BY DEF Known, Heard
<1>4. QED
  BY <1>2, <1>3, StaysReady DEF AllReady

(* One connection is written to, the others are left alone.                      *)
LEMMA WroteAll ==
  ASSUME TypeInv, StreamInv, NEW c \in Conns, NEW frames \in Seq(Frames), NEW stage, NEW buffer,
         WroteTo(c, frames, stage, buffer), stage \in {"draining", "live"}, conn[c].stage # "none",
         UNCHANGED <<published, stored, missing, heard>>, excused \subseteq excused',
         InOrder(frames, Known' \cup ToSet(conn[c].wire)),
         ToSet(frames) \cap Events \subseteq Log,
         Fetching(conn[c], Log) \cap Events \subseteq Known' \cup ToSet(conn[c].wire) \cup ToSet(frames),
         \/ buffer = conn[c].buffer /\ (buffer # <<>> => stage # "live")
         \/ buffer = <<>> /\ frames = conn[c].buffer
  PROVE  AllReady'
<1>1. /\ conn[c] \in Connections /\ conn'[c] \in Connections /\ Log' = Log
      /\ published \subseteq Events
  BY LogKept, TypesNow, TypesAre DEF WroteTo
<1>2. Known \subseteq Known'
  BY KnownGrows
<1>3. /\ SameEnds(conn[c], conn'[c]) /\ conn'[c].stage = stage /\ conn'[c].buffer = buffer
      /\ conn'[c].wire = WriteAll(conn[c], frames).wire
      /\ conn'[c].delivered = WriteAll(conn[c], frames).delivered
      /\ \A d \in Conns \ {c} : conn'[d] = conn[d]
  BY DEF WroteTo
<1>4. Ready(conn[c], Known, published, Log)
  BY DEF StreamInv
<1>5. Ready(conn'[c], Known', published, Log)
  BY <1>1, <1>2, <1>3, <1>4, WroteReady
<1>6. \A d \in Conns \ {c} : Ready(conn'[d], Known', published', Log')
  BY <1>2, <1>3, StaysReady
<1>7. QED
  BY <1>1, <1>5, <1>6 DEF AllReady

LEMMA OnlyReply ==
  ASSUME NEW k, NEW s \in Seq(Frames), NEW S, InOrder(s, S)
  PROVE  /\ InOrder(s \o Awaited(k), S)
         /\ ToSet(s \o Awaited(k)) \cap Events = ToSet(s) \cap Events
<1>1. Awaited(k) \in Seq(Frames) /\ ToSet(Awaited(k)) \subseteq {Reply} /\ Reply \notin Events
  BY AwaitedIs, FramesAre
<1>2. ToSet(s \o Awaited(k)) = ToSet(s) \cup ToSet(Awaited(k))
  BY <1>1, JoinOf
<1>3. CASE Awaited(k) = <<>>
  <2>1. s \o Awaited(k) = s
    BY <1>3, <1>1, JoinOf
  <2>2. QED
    BY <2>1
<1>4. CASE Awaited(k) = <<Reply>>
  <2>1. s \o Awaited(k) = Append(s, Reply)
    BY <1>4
  <2>2. Reply \in Frames
    BY FramesAre
  <2>3. InOrder(Append(s, Reply), S)
    BY <1>1, <2>2, InOrderAppend
  <2>4. QED
    BY <1>1, <1>2, <2>1, <2>3
<1>5. QED
  BY <1>3, <1>4 DEF Awaited

LEMMA ReplayReady ==
  ASSUME TypeInv, StreamInv, NEW c \in Conns, Replay(c)
  PROVE  AllReady'
<1> DEFINE k == conn[c]
           frames == Missed(k) \o Awaited(k)
<1>1. /\ Missed(k) \in Seq(Frames) /\ frames \in Seq(Frames)
      /\ WroteTo(c, frames, AfterReplay(k), k.buffer)
  BY MissedIs, ReplayTo
<1>2. /\ UNCHANGED <<published, stored, missing, heard>> /\ k.stage = "replaying"
      /\ excused' = excused \cup (IF WillReplay(k) THEN PassedOver(k) ELSE {})
  BY DEF Replay, Excuse, serverVars
<1>3. /\ Known \subseteq Known' /\ excused \subseteq excused'
      /\ WillReplay(k) => PassedOver(k) \subseteq Known'
  BY <1>2 DEF Known, Heard
<1>4. /\ 1 .. k.from \subseteq Known /\ (k.buffer # <<>> => WillReplay(k) /\ k.stage # "live")
  BY DEF StreamInv, Ready
<1>5. /\ ToSet(Missed(k)) \cap Events \subseteq Log
      /\ WillReplay(k) => Above(k) \subseteq ToSet(Missed(k))
  BY MissedIs
<1>6. Fetching(k, Log) \subseteq ToSet(Missed(k))
  BY <1>5 DEF Fetching, Above
<1>7. InOrder(Missed(k), Known' \cup ToSet(k.wire))
  <2> DEFINE S == (1 .. k.from) \cup PassedOver(k)
             T == Known' \cup ToSet(k.wire)
  <2>1. CASE WillReplay(k)
    <3>1. S \cap Events \subseteq T /\ InOrder(Missed(k), S)
      BY <1>3, <1>4, <2>1, MissedIs
    <3> HIDE DEF S, T
    <3>2. InOrder(Missed(k), T)
      BY <3>1, InOrderMore
    <3>3. QED
      BY <3>2 DEF T
  <2>2. CASE ~ WillReplay(k)
    BY <2>2, NoFrames DEF Missed
  <2>3. QED
    BY <2>1, <2>2
<1>8. InOrder(frames, Known' \cup ToSet(k.wire)) /\ ToSet(frames) \cap Events = ToSet(Missed(k)) \cap Events
  BY <1>1, <1>7, OnlyReply
<1>9. AfterReplay(k) \in {"draining", "live"} /\ (k.buffer # <<>> => AfterReplay(k) # "live")
  BY <1>4 DEF AfterReplay
<1>10. /\ Fetching(k, Log) \cap Events \subseteq Known' \cup ToSet(k.wire) \cup ToSet(frames)
       /\ ToSet(frames) \cap Events \subseteq Log
  BY <1>5, <1>6, <1>8
<1> HIDE DEF frames
<1>11. QED
  BY <1>1, <1>2, <1>3, <1>8, <1>9, <1>10, WroteAll

LEMMA GapReady ==
  ASSUME TypeInv, StreamInv, NEW c \in Conns, ReplayFails(c)
  PROVE  AllReady'
<1> DEFINE k == conn[c]
           frames == <<Gap>> \o Awaited(k)
<1>1. /\ <<Gap>> \in Seq(Frames) /\ frames \in Seq(Frames)
      /\ WroteTo(c, frames, "draining", k.buffer)
  BY ReplayFailsTo
<1>2. /\ UNCHANGED <<published, stored, missing, heard>> /\ k.stage = "replaying" /\ WillReplay(k)
      /\ excused' = excused \cup ((k.from + 1) .. stored)
  BY DEF ReplayFails, serverVars, Excuse
<1>3. Known' = Known \cup ((k.from + 1) .. stored)
  BY <1>2 DEF Known, Heard
<1>4. Fetching(k, Log) \subseteq Known'
  <2>1. \A e \in Log : e > k.from => e \in (k.from + 1) .. stored
    BY TypesNow, ConnectionFields, FramesAre DEF Log
  <2>2. QED
    BY <1>2, <1>3, <2>1 DEF Fetching
<1>5. Gap \notin Events
  BY FramesAre
<1>6. InOrder(<<Gap>>, Known' \cup ToSet(k.wire)) /\ ToSet(<<Gap>>) = {Gap}
  BY <1>5, InOrderOne
<1>7. InOrder(frames, Known' \cup ToSet(k.wire)) /\ ToSet(frames) \cap Events = {Gap} \cap Events
  BY <1>1, <1>6, OnlyReply
<1>8. ToSet(frames) \cap Events = {} /\ excused \subseteq excused'
  BY <1>2, <1>5, <1>7
<1> HIDE DEF frames
<1>9. QED
  BY <1>1, <1>2, <1>4, <1>7, <1>8, WroteAll

LEMMA DrainReady ==
  ASSUME TypeInv, StreamInv, NEW c \in Conns, Drain(c)
  PROVE  AllReady'
<1> DEFINE k == conn[c]
<1>1. WroteTo(c, k.buffer, "live", <<>>) /\ k.buffer \in Seq(Frames)
  BY DrainTo, TypesNow, ConnectionFields
<1>2. UNCHANGED <<published, stored, missing, heard, excused>> /\ k.stage = "draining"
  BY DEF Drain, serverVars, historyVars
<1>3. Known' = Known /\ Fetching(k, Log) = {}
  BY <1>2 DEF Known, Heard, Fetching
<1>4. /\ InOrder(k.buffer, (Known \cup ToSet(k.wire)) \cup Fetching(k, Log))
      /\ ToSet(k.buffer) \cap Events \subseteq Log
  BY DEF StreamInv, Ready
<1>5. (Known \cup ToSet(k.wire)) \cup {} = Known' \cup ToSet(k.wire)
  BY <1>3
<1>6. InOrder(k.buffer, Known' \cup ToSet(k.wire))
  BY <1>3, <1>4, <1>5
<1>7. QED
  BY <1>1, <1>2, <1>3, <1>4, <1>6, WroteAll

LEMMA AttachReady ==
  ASSUME TypeInv, StreamInv, NEW c \in Conns, Attach(c)
  PROVE  AllReady'
<1> DEFINE k == conn[c]
           l == conn'[c]
<1>1. /\ SameEnds(k, l) /\ l.stage = "replaying"
      /\ l.wire = k.wire /\ l.buffer = k.buffer /\ l.delivered = k.delivered
      /\ \A d \in Conns \ {c} : conn'[d] = conn[d]
  BY TypesNow, AttachTo
<1>2. /\ UNCHANGED <<published, stored, missing, heard>> /\ k.stage = "none" /\ excused \subseteq excused'
      /\ k.scoped /\ k.from = 0 => published \subseteq excused'
  BY DEF Attach, serverVars, Excuse
<1>3. Known \subseteq Known' /\ Known' = Known \cup excused'
  BY <1>2, KnownGrows
<1>4. /\ k.from \in Nat /\ published \subseteq 1 .. stored /\ published \subseteq Log
      /\ stored \in Nat /\ Log' = Log
  BY <1>2, LogKept, TypesNow, TypesAre, ConnectionFields, FramesAre
<1> DEFINE F == Fetching(k, Log)
           B == Known \cup ToSet(k.wire)
           G == Fetching(l, Log)
           C == Known' \cup ToSet(l.wire)
<1>5. /\ InOrder(k.wire, Known) /\ InOrder(k.buffer, B \cup F)
      /\ 1 .. k.delivered \subseteq B /\ 1 .. k.from \subseteq Known
      /\ 1 .. k.applying \subseteq Known
      /\ k.buffer # <<>> => WillReplay(k) /\ k.stage # "live"
      /\ (ToSet(k.wire) \cup ToSet(k.buffer)) \cap Events \subseteq Log
  BY DEF StreamInv, Ready
<1>6. F = {} /\ B \subseteq C /\ WillReplay(l) = WillReplay(k) /\ l.from = k.from /\ l.scoped = k.scoped
        /\ l.applying = k.applying
  BY <1>1, <1>2, <1>3 DEF Fetching, WillReplay, SameEnds
<1>7. WillReplay(k) => G = {e \in Log : e > k.from}
  BY <1>1, <1>6 DEF Fetching
<1>8. InOrder(l.wire, Known')
  <2>1. Known \cap Events \subseteq Known'
    BY <1>3
  <2>2. QED
    BY <1>1, <1>5, <2>1, InOrderMore
<1>9. InOrder(l.buffer, C \cup G)
  <2> DEFINE S == B \cup F
             T == C \cup G
  <2>1. InOrder(k.buffer, S) /\ S \cap Events \subseteq T
    BY <1>5, <1>6
  <2> HIDE DEF S, T
  <2>2. InOrder(k.buffer, T)
    BY <2>1, InOrderMore
  <2>3. QED
    BY <1>1, <2>2 DEF T
<1>10. l.scoped /\ l.stage # "none" => published \subseteq C \cup G \cup ToSet(l.buffer)
  <2>1. SUFFICES ASSUME k.scoped PROVE published \subseteq C \cup G
    BY <1>6
  <2>2. CASE k.from = 0
    BY <1>2, <1>3, <2>1, <2>2
  <2>3. CASE k.from # 0
    <3>1. G = {e \in Log : e > k.from}
      BY <1>7, <2>1, <2>3 DEF WillReplay
    <3>2. \A x \in published : x \in 1 .. k.from \/ (x \in Log /\ x > k.from)
      <4>1. \A x \in 1 .. stored : x \in 1 .. k.from \/ x > k.from
        BY <1>4
      <4>2. QED
        BY <1>4, <4>1
    <3>3. QED
      BY <1>3, <1>4, <1>5, <3>1, <3>2
  <2>4. QED
    BY <2>2, <2>3
<1>11. /\ 1 .. l.delivered \subseteq C /\ 1 .. l.from \subseteq Known' /\ 1 .. l.applying \subseteq Known'
       /\ l.buffer # <<>> => WillReplay(l) /\ l.stage # "live"
       /\ (ToSet(l.wire) \cup ToSet(l.buffer)) \cap Events \subseteq Log
  BY <1>1, <1>3, <1>5, <1>6
<1> HIDE DEF F, B, C, G
<1>12. Ready(l, Known', published, Log)
  BY <1>8, <1>9, <1>10, <1>11, ReadyIf DEF C, G
<1>13. \A d \in Conns \ {c} : Ready(conn'[d], Known', published', Log')
  BY <1>1, <1>2, <1>3, StaysReady
<1>14. QED
  BY <1>2, <1>4, <1>12, <1>13 DEF AllReady

(* An event is published: it is known now, on every subscribed stream, or none.  *)
LEMMA PublishReady ==
  ASSUME TypeInv, StreamInv, NEW e \in Events, Publish(e)
  PROVE  AllReady'
<1>1. /\ e \in Log /\ published' = published \cup {e} /\ Log' = Log
      /\ excused' = excused \cup ((1 .. (e - 1)) \ published) /\ UNCHANGED <<stored, heard>>
  BY LogKept DEF Publish, Excuse
<1>2. Known \subseteq Known' /\ 1 .. (e - 1) \subseteq Known' \cup published
  BY <1>1 DEF Known, Heard
<1>3. e \in Frames /\ Log \subseteq Log'
  BY <1>1, FramesAre
<1>4. ASSUME NEW c \in Conns PROVE Ready(conn'[c], Known', published', Log')
  <2>1. conn[c] \in Connections /\ Ready(conn[c], Known, published, Log)
    BY TypesNow DEF StreamInv
  <2>2. CASE conn[c].scoped
    <3>1. EmitTo(conn[c], e, conn'[c])
      BY <2>2, PublishTo
    <3>2. Ready(conn'[c], Known', published \cup ({e} \cap Events), Log)
      BY <1>1, <1>2, <1>3, <2>1, <2>2, <3>1, EmitReady
    <3>3. published \cup ({e} \cap Events) = published'
      BY <1>1
    <3>4. QED
      BY <1>1, <3>2, <3>3
  <2>3. CASE ~ conn[c].scoped
    <3>1. conn'[c] = conn[c]
      BY <2>3, PublishTo
    <3>2. SameStream(conn[c], conn'[c])
      BY <3>1 DEF SameStream
    <3>3. QED
      BY <1>1, <1>2, <1>3, <2>1, <2>3, <3>2, StreamStays
  <2>4. QED
    BY <2>2, <2>3
<1>5. QED
  BY <1>4 DEF AllReady

LEMMA AnswerReady ==
  ASSUME TypeInv, StreamInv, Answer, UNCHANGED <<published, stored, missing, heard, excused>>
  PROVE  AllReady'
<1>1. Known' = Known
  BY DEF Known, Heard
<1>2. Reply \in Frames \ Events /\ Log' = Log
  BY LogKept, FramesAre
<1>3. ASSUME NEW c \in Conns PROVE Ready(conn'[c], Known', published', Log')
  <2>1. conn[c] \in Connections /\ Ready(conn[c], Known, published, Log)
    BY TypesNow DEF StreamInv
  <2>2. EmitTo(conn[c], Reply, conn'[c])
    BY AnswerTo
  <2>3. Ready(conn'[c], Known', published \cup ({Reply} \cap Events), Log)
    BY <1>1, <1>2, <2>1, <2>2, EmitReady
  <2>4. published \cup ({Reply} \cap Events) = published'
    BY <1>2
  <2>5. QED
    BY <1>1, <1>2, <2>3, <2>4
<1>4. QED
  BY <1>3 DEF AllReady

LEMMA ReadKeepsStream ==
  ASSUME TypeInv, StreamInv, NEW c \in Conns, Read(c)
  PROVE  StreamInv'
<1> DEFINE k == conn[c]
           f == Head(k.wire)
<1>1. /\ ReadTo(c) /\ f \in Frames
      /\ \/ /\ SkipDuplicate(c) \/ HandOnGap(c) \/ HandOnReply(c)
            /\ conn'[c].applying = k.applying
         \/ HandOn(c) /\ conn'[c].applying = f
  BY ReadsOne
<1>2. UNCHANGED <<stored, missing, published, excused, mark>> /\ k.wire # <<>>
  BY DEF Read, serverVars
<1>3. Gap \notin Events /\ Reply \notin Events
  BY FramesAre
<1>4. heard \in Seq(Events)
  BY TypesNow
<1>5. /\ Known \subseteq Known' /\ (f \in Events => f \in Known')
      /\ seenEventIds' \cap Events \subseteq Heard'
      /\ conn'[c].applying = k.applying \/ (conn'[c].applying = f /\ f \in Events)
  <2>1. CASE SkipDuplicate(c)
    <3>1. f \in seenEventIds /\ UNCHANGED <<heard, seenEventIds>>
      BY <2>1 DEF SkipDuplicate
    <3>2. Heard' = Heard
      BY <3>1 DEF Heard
    <3>3. conn'[c].applying = k.applying
      BY <1>1, <3>1 DEF HandOn
    <3>4. QED
      BY <1>2, <3>1, <3>2, <3>3 DEF StreamInv, Known
  <2>2. CASE HandOnGap(c) \/ HandOnReply(c)
    <3>1. f \notin Events /\ UNCHANGED heard /\ seenEventIds' \cap Events = seenEventIds \cap Events
      BY <1>3, <2>2 DEF HandOnGap, HandOnReply, Claim
    <3>2. Heard' = Heard
      BY <3>1 DEF Heard
    <3>3. conn'[c].applying = k.applying
      BY <1>1, <3>1 DEF HandOn
    <3>4. QED
      BY <1>2, <3>1, <3>2, <3>3 DEF StreamInv, Known
  <2>3. CASE HandOn(c) /\ conn'[c].applying = f
    <3>1. f \in Events /\ heard' = Append(heard, f) /\ seenEventIds' = seenEventIds \cup {f}
      BY <2>3 DEF HandOn, Claim
    <3>2. Heard' = Heard \cup {f}
      <4>1. heard' = Append(heard, f) /\ f \in Events
        BY <3>1
      <4>2. /\ DOMAIN heard' = 1 .. (Len(heard) + 1) /\ DOMAIN heard = 1 .. Len(heard)
            /\ Len(heard) \in Nat /\ heard'[Len(heard) + 1] = f
            /\ \A i \in 1 .. Len(heard) : heard'[i] = heard[i]
        BY <1>4, <4>1
      <4>3. \A i \in 1 .. (Len(heard) + 1) : i \in 1 .. Len(heard) \/ i = Len(heard) + 1
        BY <4>2
      <4>4. \A i \in 1 .. Len(heard) : i \in 1 .. (Len(heard) + 1)
        BY <4>2
      <4>5. Len(heard) + 1 \in 1 .. (Len(heard) + 1)
        BY <4>2
      <4>6. QED
        BY <4>2, <4>3, <4>4, <4>5 DEF Heard
    <3>3. QED
      BY <1>2, <2>3, <3>1, <3>2 DEF StreamInv, Known
  <2>4. QED
    BY <1>1, <2>1, <2>2, <2>3
<1>6. conn[c] \in Connections /\ conn'[c] \in Connections /\ Log' = Log /\ published \subseteq Events
  BY <1>1, <1>2, LogKept, TypesNow, TypesAre DEF ReadTo
<1>7. Ready(conn[c], Known, published, Log)
  BY DEF StreamInv
<1>8. Ready(conn'[c], Known', published, Log)
  BY <1>1, <1>2, <1>5, <1>6, <1>7, ReadReady DEF ReadTo
<1>9. \A d \in Conns \ {c} : Ready(conn'[d], Known', published', Log')
  BY <1>1, <1>2, <1>5, StaysReady DEF ReadTo
<1>10. 1 .. mark' \subseteq Known'
  BY <1>2, <1>5 DEF StreamInv
<1>11. QED
  BY <1>2, <1>5, <1>6, <1>8, <1>9, <1>10 DEF StreamInv

LEMMA AbsorbedKeepsStream ==
  ASSUME TypeInv, StreamInv, NEW c \in Conns, Absorbed(c)
  PROVE  StreamInv'
<1> DEFINE k == conn[c]
           l == conn'[c]
<1>1. /\ l.applying = 0 /\ l.wire = k.wire /\ l.buffer = k.buffer /\ l.delivered = k.delivered
      /\ l.from = k.from /\ l.scoped = k.scoped /\ l.stage = k.stage
      /\ \A d \in Conns \ {c} : conn'[d] = conn[d]
  BY AbsorbedTo
<1>2. UNCHANGED <<stored, missing, published, excused, heard, seenEventIds>> /\ mark' = k.applying
  BY DEF Absorbed, serverVars, historyVars
<1>3. Known' = Known /\ Heard' = Heard /\ Log' = Log
  BY <1>2, LogKept DEF Known, Heard
<1>4. Ready(k, Known, published, Log)
  BY DEF StreamInv
<1>5. 1 .. 0 = {}
  OBVIOUS
<1>6. Fetching(l, Log) = Fetching(k, Log) /\ WillReplay(l) = WillReplay(k)
  BY <1>1 DEF Fetching, WillReplay
<1>7. Ready(l, Known, published, Log)
  BY <1>1, <1>4, <1>5, <1>6 DEF Ready
<1>8. \A d \in Conns \ {c} : Ready(conn'[d], Known', published', Log')
  BY <1>1, <1>2, <1>3, StaysReady
<1>9. 1 .. mark' \subseteq Known'
  BY <1>2, <1>3, <1>4 DEF Ready
<1>10. QED
  BY <1>2, <1>3, <1>7, <1>8, <1>9 DEF StreamInv

LEMMA StreamInit ==
  ASSUME Init
  PROVE  StreamInv
<1>1. conn = [c \in Conns |-> Free] /\ seenEventIds = {} /\ 1 .. mark \subseteq excused
  BY DEF Init
<1>2. \A c \in Conns : Ready(conn[c], Known, published, Log)
  BY <1>1, FreeReady
<1>3. QED
  BY <1>1, <1>2 DEF StreamInv, Known

LEMMA StepKeepsStream ==
  ASSUME TypeInv, StreamInv, [Next]_vars
  PROVE  StreamInv'
<1>1. CASE Start
  <2>1. PICK c \in Conns : Connect(c, FALSE)
    BY <1>1 DEF Start
  <2>2. UNCHANGED <<stored, missing, published, heard, excused, mark, seenEventIds>>
    BY <1>1 DEF Start, serverVars, historyVars
  <2>3. QED
    BY <2>1, <2>2, ConnectReady, KnownKept
<1>2. CASE ChangeChannels
  <2>1. UNCHANGED <<conn, stored, missing, published, heard, excused, mark, seenEventIds>>
    BY <1>2 DEF ChangeChannels, serverVars
  <2>2. QED
    BY <2>1, LogKept DEF StreamInv, Known, Heard
<1>3. CASE Reconnect
  <2>1. PICK c \in Conns : Connect(c, TRUE)
    BY <1>3 DEF Reconnect
  <2>2. UNCHANGED <<stored, missing, published, heard, excused, mark, seenEventIds>>
    BY <1>3 DEF Reconnect, serverVars, historyVars
  <2>3. QED
    BY <2>1, <2>2, ConnectReady, KnownKept
<1>4. CASE Retry
  <2>1. PICK c \in Conns : Connect(c, FALSE)
    BY <1>4 DEF Retry
  <2>2. UNCHANGED <<stored, missing, published, heard, excused, mark, seenEventIds>>
    BY <1>4 DEF Retry, serverVars
  <2>3. QED
    BY <2>1, <2>2, ConnectReady, KnownKept
<1>5. ASSUME Store \/ \E e \in Events : StoreLate(e) PROVE StreamInv'
  <2>1. UNCHANGED <<conn, published, heard, excused, mark, seenEventIds>>
    BY <1>5 DEF Store, StoreLate, clientVars, historyVars
  <2>2. Log \subseteq Log'
    <3>1. CASE Store
      <4>1. /\ stored' = stored + 1 /\ missing' \subseteq missing \cup {stored + 1} /\ stored \in Nat
        BY <3>1, TypesNow DEF Store
      <4>2. QED
        BY <4>1 DEF Log
    <3>2. CASE \E e \in Events : StoreLate(e)
      BY <3>2 DEF StoreLate, Log
    <3>3. QED
      BY <1>5, <3>1, <3>2
  <2>3. Known' = Known
    BY <2>1 DEF Known, Heard
  <2>4. ASSUME NEW c \in Conns PROVE Ready(conn'[c], Known', published', Log')
    <3>1. SameStream(conn[c], conn'[c]) /\ Ready(conn[c], Known, published, Log)
      BY <2>1 DEF SameStream, StreamInv
    <3>2. QED
      BY <2>1, <2>2, <2>3, <3>1, StreamStays
  <2>5. QED
    BY <2>1, <2>4, KnownKept DEF AllReady
<1>6. ASSUME NEW e \in Events, Publish(e) PROVE StreamInv'
  <2>1. UNCHANGED <<heard, mark, seenEventIds>> /\ excused \subseteq excused'
    BY <1>6 DEF Publish, Excuse, clientVars
  <2>2. QED
    BY <1>6, <2>1, PublishReady, KnownKept
<1>7. ASSUME NEW c \in Conns, Attach(c) PROVE StreamInv'
  <2>1. UNCHANGED <<heard, mark, seenEventIds>> /\ excused \subseteq excused'
    BY <1>7 DEF Attach, Excuse, clientVars
  <2>2. QED
    BY <1>7, <2>1, AttachReady, KnownKept
<1>8. ASSUME NEW c \in Conns, Replay(c) PROVE StreamInv'
  <2>1. UNCHANGED <<heard, mark, seenEventIds>> /\ excused \subseteq excused'
    BY <1>8 DEF Replay, Excuse, clientVars
  <2>2. QED
    BY <1>8, <2>1, ReplayReady, KnownKept
<1>9. ASSUME NEW c \in Conns, ReplayFails(c) PROVE StreamInv'
  <2>1. UNCHANGED <<heard, mark, seenEventIds>> /\ excused \subseteq excused'
    BY <1>9 DEF ReplayFails, Excuse, clientVars
  <2>2. QED
    BY <1>9, <2>1, GapReady, KnownKept
<1>10. ASSUME NEW c \in Conns, Drain(c) PROVE StreamInv'
  <2>1. UNCHANGED <<heard, mark, seenEventIds, excused>>
    BY <1>10 DEF Drain, clientVars, historyVars
  <2>2. QED
    BY <1>10, <2>1, DrainReady, KnownKept
<1>11. ASSUME NEW c \in Conns, Opened(c) PROVE StreamInv'
  <2>1. UNCHANGED <<stored, missing, published, heard, mark, seenEventIds, excused>>
    BY <1>11 DEF Opened, serverVars
  <2>2. Known' = Known
    BY <2>1 DEF Known, Heard
  <2>3. AllReady'
    BY <1>11, <2>1, <2>2, OpenedTo, StaysReady DEF AllReady
  <2>4. QED
    BY <2>1, <2>3, KnownKept
<1>12. ASSUME NEW c \in Conns, LingerEnds(c) \/ Drop(c) PROVE StreamInv'
  <2>1. /\ UNCHANGED <<stored, missing, published, heard, mark, seenEventIds, excused>>
        /\ conn' = Gone({c}, conn)
    BY <1>12 DEF LingerEnds, Drop, serverVars, clientVars, historyVars
  <2>2. QED
    BY <2>1, GoneReady, KnownKept
<1>13. ASSUME NEW c \in Conns, Read(c) PROVE StreamInv'
  BY <1>13, ReadKeepsStream
<1>14. ASSUME NEW c \in Conns, Absorbed(c) PROVE StreamInv'
  BY <1>14, AbsorbedKeepsStream
<1>15. CASE RequestStep
  <2>1. UNCHANGED <<stored, missing, published, heard, mark, seenEventIds, excused>>
    BY <1>15 DEF RequestStep, clientVars, historyVars
  <2>2. CASE Answer
    BY <2>1, <2>2, AnswerReady, KnownKept
  <2>3. CASE conn' = conn
    BY <2>1, <2>3, LogKept DEF StreamInv, Known, Heard
  <2>4. QED
    BY <1>15, <2>2, <2>3 DEF RequestStep, Ask, Emit, TimeOut, Evict
<1>16. CASE UNCHANGED vars
  BY <1>16, LogKept DEF vars, serverVars, clientVars, historyVars, StreamInv, Known, Heard
<1>17. QED
  BY <1>1, <1>2, <1>3, <1>4, <1>5, <1>6, <1>7, <1>8, <1>9, <1>10, <1>11, <1>12, <1>13,
     <1>14, <1>15, <1>16 DEF Next, Work

LEMMA StreamInvariant == Spec => [](TypeInv /\ StreamInv)
<1>1. Init => TypeInv /\ StreamInv
  BY TypesInit, StreamInit
<1>2. TypeInv /\ StreamInv /\ [Next]_vars => (TypeInv /\ StreamInv)'
  BY TypesStep, StepKeepsStream
<1>3. QED
  BY <1>1, <1>2, PTL DEF Spec

(* At rest a client has heard, or been excused from, every event: a resume from  *)
(* its watermark loses nothing, whatever connections overlapped and broke        *)
(* (routes/bus.ts subscribe, actor-state-unit.ts lastEventIdByScope).            *)
THEOREM ResumeLosesNothing == Spec => []NothingLost
<1>1. TypeInv /\ StreamInv => NothingLost
  <2>1. SUFFICES ASSUME TypeInv, StreamInv, AtRest PROVE Log \subseteq Known
    BY DEF NothingLost, Known
  <2>2. PICK c \in Conns : Live(c) /\ conn[c].scoped /\ conn[c].stage = "live"
    BY <2>1 DEF AtRest
  <2>3. published = Log /\ Unread(c) = {}
    BY <2>1 DEF AtRest
  <2>4. ToSet(conn[c].wire) = {} /\ ToSet(conn[c].buffer) = {}
    BY <2>3 DEF Unread
  <2>5. Fetching(conn[c], Log) = {}
    BY <2>2 DEF Fetching
  <2>6. Ready(conn[c], Known, published, Log)
    BY <2>1 DEF StreamInv
  <2>7. published \subseteq (Known \cup ToSet(conn[c].wire)) \cup Fetching(conn[c], Log) \cup ToSet(conn[c].buffer)
    BY <2>2, <2>6 DEF Ready
  <2>8. QED
    BY <2>3, <2>4, <2>5, <2>7
<1>2. QED
  BY <1>1, StreamInvariant, PTL

-------------------------------------------------------------------------------
(* The stream implements the feed.                                               *)

FeedInv == TypeInv /\ StreamInv /\ HeardInv

LEMMA FeedInvariant == Spec => []FeedInv
<1>1. Init => HeardInv
  BY DEF Init, HeardInv, Heard, AtMostOnce
<1>2. HeardInv /\ [Next]_vars => HeardInv'
  BY StepHears
<1>3. Spec => []HeardInv
  BY <1>1, <1>2, PTL DEF Spec
<1>4. QED
  BY <1>3, StreamInvariant, PTL DEF FeedInv

(* The event at the head of a wire is one the feed may deliver.                  *)
LEMMA HeadIsNext ==
  ASSUME FeedInv, NEW c \in Conns, conn[c].wire # <<>>,
         NEW e, e = Head(conn[c].wire), e \in Events \ seenEventIds
  PROVE  e \in (1 .. stored) \ Heard /\ \A d \in 1 .. (e - 1) : d \in Known
<1>1. conn[c].wire \in Seq(Frames)
  BY TypesNow, ConnectionFields DEF FeedInv
<1>2. 1 \in DOMAIN conn[c].wire /\ conn[c].wire[1] = e
  BY <1>1
<1>3. /\ InOrder(conn[c].wire, Known)
      /\ (ToSet(conn[c].wire) \cup ToSet(conn[c].buffer)) \cap Events \subseteq Log
  BY DEF FeedInv, StreamInv, Ready
<1>4. e \in 1 .. stored
  BY <1>2, <1>3, TypesAre DEF ToSet, FeedInv
<1>5. e \notin Heard
  BY DEF FeedInv, HeardInv
<1>6. \A d \in 1 .. (e - 1) : d \in Known
  <2>1. 1 .. (1 - 1) = {}
    OBVIOUS
  <2>2. \A d \in 1 .. (e - 1) : d \in Known \/ \E j \in 1 .. (1 - 1) : conn[c].wire[j] = d
    BY <1>2, <1>3 DEF InOrder
  <2>3. QED
    BY <2>1, <2>2
<1>7. QED
  BY <1>4, <1>5, <1>6

LEMMA ReadDelivers ==
  ASSUME FeedInv, NEW c \in Conns, Read(c)
  PROVE  [Feed!FeedNext]_<<stored, heard, excused>>
<1>1. UNCHANGED <<stored, excused>> /\ conn[c].wire # <<>>
  BY DEF Read, serverVars
<1>2. CASE SkipDuplicate(c) \/ HandOnGap(c) \/ HandOnReply(c)
  BY <1>1, <1>2 DEF SkipDuplicate, HandOnGap, HandOnReply
<1>3. CASE HandOn(c)
  <2>1. PICK e : e = Head(conn[c].wire)
    OBVIOUS
  <2>2. e \in Events \ seenEventIds /\ heard' = Append(heard, e)
    BY <1>3, <2>1 DEF HandOn
  <2>3. e \in (1 .. stored) \ Heard /\ \A d \in 1 .. (e - 1) : d \in Heard \cup excused
    BY <1>1, <2>1, <2>2, HeadIsNext DEF Known
  <2>4. Feed!FeedDeliver(e)
    BY <1>1, <2>2, <2>3 DEF Feed!FeedDeliver, Feed!Heard, Heard
  <2>5. e \in Feed!Events
    BY <2>2 DEF Feed!Events, Events
  <2>6. QED
    BY <2>4, <2>5 DEF Feed!FeedNext
<1>4. QED
  BY <1>2, <1>3 DEF Read

LEMMA StepFeeds ==
  ASSUME FeedInv, FeedInv', [Next]_vars
  PROVE  [Feed!FeedNext]_<<stored, heard, excused>>
<1>1. excused' \subseteq 1 .. stored'
  BY DEF FeedInv, TypeInv, TypeOK
<1>2. CASE Store
  BY <1>2 DEF Store, Feed!FeedNext, Feed!FeedStore
<1>3. CASE UNCHANGED <<stored, heard>> /\ excused \subseteq excused'
  BY <1>1, <1>3 DEF Feed!FeedNext, Feed!FeedExcuse
<1>4. CASE \E c \in Conns : Read(c)
  BY <1>4, ReadDelivers
<1>5. CASE \/ \E e \in Events : Publish(e)
           \/ \E c \in Conns : Attach(c) \/ Replay(c) \/ ReplayFails(c)
  BY <1>3, <1>5 DEF Publish, Attach, Replay, ReplayFails, Excuse, serverVars
<1>6. CASE Start \/ ChangeChannels \/ Reconnect \/ Retry \/ RequestStep \/ UNCHANGED vars
  BY <1>6 DEF Start, ChangeChannels, Reconnect, Retry, RequestStep, vars, serverVars, historyVars
<1>7. CASE \/ \E e \in Events : StoreLate(e)
           \/ \E c \in Conns : Drain(c) \/ Opened(c) \/ LingerEnds(c) \/ Absorbed(c) \/ Drop(c)
  BY <1>7 DEF StoreLate, Drain, Opened, LingerEnds, Absorbed, Drop, serverVars, historyVars
<1>8. QED
  BY <1>2, <1>4, <1>5, <1>6, <1>7 DEF Next, Work

(* Whatever connections overlap, break and replay, the subscribers are given the *)
(* events of the resource as the feed says: each at most once and after every    *)
(* earlier one that is not excused.                                              *)
THEOREM StreamIsFeed == Spec => ImplementsFeed
<1>1. Init => Feed!FeedInit
  BY TypesInit DEF Init, TypeInv, TypeOK, Feed!FeedInit
<1>2. FeedInv /\ FeedInv' /\ [Next]_vars => [Feed!FeedNext]_(Feed!feedVars)
  BY StepFeeds DEF Feed!feedVars
<1>3. QED
  BY <1>1, <1>2, FeedInvariant, PTL DEF Spec, ImplementsFeed, Feed!FeedSpec

-------------------------------------------------------------------------------
(* The awaited reply.                                                            *)

Held(k) == ToSet(k.wire) \cup ToSet(k.buffer)

(* A connection that goes from k to l still brings the reply if it did, ...      *)
Bears(k, l) ==
  /\ k.awaits => l.awaits
  /\ k.stage # "none" => l.stage # "none"
  /\ Reply \in Held(k) => Reply \in Held(l)
  /\ Asks(k) /\ retained => Reply \in Held(l) \/ Asks(l)

(* ... and has it only if it had it or the retention did.                        *)
Fresh(k, l) == Reply \in Held(l) => Reply \in Held(k) \/ retained

LEMMA SameBears ==
  ASSUME NEW k, NEW l, l.wire = k.wire, l.buffer = k.buffer, l.stage = k.stage, l.awaits = k.awaits
  PROVE  Bears(k, l) /\ Fresh(k, l)
  BY DEF Bears, Fresh, Held, Asks

(* All frames but events pass.                                                   *)
LEMMA Passes ==
  ASSUME NEW k \in Connections, NEW frames \in Seq(Frames), NEW l, l = WriteAll(k, frames)
  PROVE  /\ ToSet(frames) \ Events \subseteq ToSet(l.wire)
         /\ ToSet(k.wire) \subseteq ToSet(l.wire)
         /\ ToSet(l.wire) \subseteq ToSet(k.wire) \cup ToSet(frames)
<1>1. \A s : InOrder(s, Int) /\ InOrder(s, Int \cup ToSet(k.wire))
  BY DEF InOrder
<1>2. 1 .. k.delivered \subseteq Int \cup ToSet(k.wire)
  OBVIOUS
<1>3. QED
  BY <1>1, <1>2, Accounted

LEMMA WroteBears ==
  ASSUME TypeInv, NEW c \in Conns, NEW frames \in Seq(Frames), NEW stage, NEW buffer,
         WroteTo(c, frames, stage, buffer), stage # "none",
         buffer = conn[c].buffer \/ (buffer = <<>> /\ frames = conn[c].buffer),
         Reply \in ToSet(frames) => Reply \in Held(conn[c]) \/ retained,
         Asks(conn[c]) /\ retained => Reply \in ToSet(frames)
  PROVE  \A d \in Conns : Bears(conn[d], conn'[d]) /\ Fresh(conn[d], conn'[d])
<1> DEFINE k == conn[c]
           l == conn'[c]
<1>1. k \in Connections /\ Reply \notin Events
  BY TypesNow, FramesAre
<1>2. /\ l.awaits = k.awaits /\ l.stage = stage /\ l.buffer = buffer
      /\ l.wire = WriteAll(k, frames).wire
      /\ \A d \in Conns \ {c} : conn'[d] = conn[d]
  BY DEF WroteTo, SameEnds
<1>3. /\ ToSet(frames) \ Events \subseteq ToSet(l.wire) /\ ToSet(k.wire) \subseteq ToSet(l.wire)
      /\ ToSet(l.wire) \subseteq ToSet(k.wire) \cup ToSet(frames)
  <2> DEFINE w == WriteAll(k, frames)
  <2>1. /\ ToSet(frames) \ Events \subseteq ToSet(w.wire) /\ ToSet(k.wire) \subseteq ToSet(w.wire)
        /\ ToSet(w.wire) \subseteq ToSet(k.wire) \cup ToSet(frames)
    BY <1>1, Passes
  <2> HIDE DEF w
  <2>2. l.wire = w.wire
    BY <1>2 DEF w
  <2>3. QED
    BY <2>1, <2>2
<1>4. ToSet(<<>>) = {}
  BY NoFrames
<1>5. Reply \in Held(k) => Reply \in Held(l)
  BY <1>1, <1>2, <1>3 DEF Held
<1>6. Reply \in Held(l) => Reply \in Held(k) \/ retained
  BY <1>2, <1>3, <1>4 DEF Held
<1>7. Reply \in ToSet(frames) => Reply \in Held(l)
  BY <1>1, <1>3 DEF Held
<1>8. Bears(k, l) /\ Fresh(k, l)
  BY <1>2, <1>5, <1>6, <1>7 DEF Bears, Fresh
<1>9. \A d \in Conns \ {c} : Bears(conn[d], conn'[d]) /\ Fresh(conn[d], conn'[d])
  BY <1>2, SameBears
<1>10. QED
  BY <1>8, <1>9

LEMMA EmitBears ==
  ASSUME NEW k \in Connections, NEW f \in Frames, NEW l, EmitTo(k, f, l)
  PROVE  /\ Bears(k, l)
         /\ Held(l) \subseteq Held(k) \cup {f}
         /\ f \notin Events /\ k.stage # "none" => f \in Held(l)
<1>1. l.awaits = k.awaits /\ l.stage = k.stage /\ k.buffer \in Seq(Frames)
  BY ConnectionFields DEF EmitTo, SameEnds
<1>2. CASE k.stage = "none" /\ l = k
  BY <1>2, SameBears
<1>3. CASE l.buffer = Append(k.buffer, f) /\ l.wire = k.wire
  <2>1. ToSet(l.buffer) = ToSet(k.buffer) \cup {f}
    <3>1. \A s \in Seq(Frames) : ToSet(Append(s, f)) = ToSet(s) \cup {f}
      <4>1. SUFFICES ASSUME NEW s \in Seq(Frames) PROVE ToSet(Append(s, f)) = ToSet(s) \cup {f}
        OBVIOUS
      <4>2. InOrder(s, Int) /\ (f \in Events => 1 .. (f - 1) \subseteq Int \cup ToSet(s))
        BY DEF InOrder
      <4>3. QED
        BY <4>2, InOrderAppend
    <3>2. QED
      BY <1>1, <1>3, <3>1
  <2>2. Held(l) = Held(k) \cup {f}
    BY <1>3, <2>1 DEF Held
  <2>3. QED
    BY <1>1, <2>2 DEF Bears, Asks
<1>4. CASE l.buffer = k.buffer /\ l.wire = WriteAll(k, <<f>>).wire
  <2>1. <<f>> \in Seq(Frames) /\ ToSet(<<f>>) = {f}
    BY DEF ToSet
  <2>2. /\ {f} \ Events \subseteq ToSet(l.wire) /\ ToSet(k.wire) \subseteq ToSet(l.wire)
        /\ ToSet(l.wire) \subseteq ToSet(k.wire) \cup {f}
    BY <1>4, <2>1, Passes
  <2>3. Held(k) \subseteq Held(l) /\ Held(l) \subseteq Held(k) \cup {f} /\ (f \notin Events => f \in Held(l))
    BY <1>4, <2>2 DEF Held
  <2>4. QED
    BY <1>1, <2>3 DEF Bears, Asks
<1>5. QED
  BY <1>2, <1>3, <1>4 DEF EmitTo

-------------------------------------------------------------------------------
(* What the steps do to it.                                                      *)

LEMMA NewestKept ==
  ASSUME CourseKept, NEW c \in Conns, Newest(c)
  PROVE  Newest(c)' /\ conn'[c].phase = conn[c].phase
  BY DEF CourseKept, SameCourse, Newest

LEMMA WaitingKept ==
  ASSUME NewestWaits, state' = state, stray => stray',
         \A c \in Conns : Newest(c) => Newest(c)' /\ conn'[c].phase = conn[c].phase,
         request' \in {"emitted", "replied"}
           => /\ request' = request /\ (retained' => retained)
              /\ \A c \in Conns : Newest(c) => Bears(conn[c], conn'[c])
  PROVE  NewestWaits'
<1>1. SUFFICES ASSUME state \in {"connecting", "open"}, ~ stray PROVE \E c \in Conns : WaitsOn(c)'
  BY DEF NewestWaits
<1>2. PICK c \in Conns : WaitsOn(c)
  BY <1>1 DEF NewestWaits
<1>3. Newest(c)' /\ (state' = "open" => conn'[c].phase = "reading")
  BY <1>2 DEF WaitsOn
<1>4. request' = "emitted" => conn'[c].awaits \/ conn'[c].stage # "none"
  BY <1>2 DEF WaitsOn, Bears
<1>5. request' = "replied" /\ retained' => Reply \in Held(conn'[c]) \/ Asks(conn'[c])
  BY <1>2 DEF WaitsOn, Bears, Unread, Held
<1>6. WaitsOn(c)'
  BY <1>3, <1>4, <1>5 DEF WaitsOn, Unread, Held, Asks
<1>7. QED
  BY <1>6

LEMMA FitsKept ==
  ASSUME ReplyFits, request' = request, state' = state \/ state' # "initial", retained' => retained,
         Reply \in seenEventIds' => Reply \in seenEventIds,
         \A c \in Conns : /\ Reply \in Held(conn'[c]) => (\E d \in Conns : Reply \in Held(conn[d])) \/ retained
                          /\ conn'[c].phase = "reading" => conn'[c].stage # "none"
  PROVE  ReplyFits'
  BY DEF ReplyFits, Unread, Held

(* A step that leaves the course of the connections alone.                       *)
LEMMA QuietKeepsReply ==
  ASSUME ReplyInv, CourseKept, UNCHANGED <<state, stray, request>>,
         retained' => retained, Reply \in seenEventIds' => Reply \in seenEventIds,
         \A c \in Conns : Bears(conn[c], conn'[c]) /\ Fresh(conn[c], conn'[c])
  PROVE  ReplyInv'
<1>1. \A c \in Conns : Newest(c) => Newest(c)' /\ conn'[c].phase = conn[c].phase
  BY NewestKept
<1>2. NewestWaits'
  BY <1>1, WaitingKept DEF ReplyInv
<1>3. \A c \in Conns : conn'[c].phase = "reading" => conn'[c].stage # "none"
  BY DEF CourseKept, SameCourse, Bears, ReplyInv, ReplyFits
<1>4. ReplyFits'
  BY <1>3, FitsKept DEF ReplyInv, Fresh
<1>5. QED
  BY <1>2, <1>4 DEF ReplyInv

LEMMA JoinedSet ==
  ASSUME NEW s \in Seq(Frames), NEW t \in Seq(Frames)
  PROVE  ToSet(s \o t) = ToSet(s) \cup ToSet(t)
  BY JoinOf

LEMMA ReplayBears ==
  ASSUME TypeInv, NEW c \in Conns, Replay(c) \/ ReplayFails(c)
  PROVE  \A d \in Conns : Bears(conn[d], conn'[d]) /\ Fresh(conn[d], conn'[d])
<1> DEFINE k == conn[c]
<1>1. /\ Awaited(k) \in Seq(Frames) /\ ToSet(Awaited(k)) \subseteq {Reply}
      /\ Asks(k) /\ retained => Reply \in ToSet(Awaited(k))
      /\ ~retained => ToSet(Awaited(k)) = {}
  BY AwaitedIs DEF Asks
<1>2. Reply \notin Events /\ Reply # Gap /\ stored \in 0 .. MaxEvents /\ MaxEvents \in Nat
  BY TypesNow, FramesAre DEF Reply, Gap
<1>3. CASE Replay(c)
  <2> DEFINE frames == Missed(k) \o Awaited(k)
  <2>1. /\ Missed(k) \in Seq(Frames) /\ Reply \notin ToSet(Missed(k))
        /\ frames \in Seq(Frames) /\ WroteTo(c, frames, AfterReplay(k), k.buffer)
    BY <1>3, MissedIs, ReplayTo
  <2>2. ToSet(frames) = ToSet(Missed(k)) \cup ToSet(Awaited(k))
    BY <1>1, <2>1, JoinedSet
  <2>4. AfterReplay(k) # "none"
    BY DEF AfterReplay
  <2> HIDE DEF frames
  <2>5. QED
    BY <1>1, <2>1, <2>2, <2>4, WroteBears
<1>4. CASE ReplayFails(c)
  <2> DEFINE frames == <<Gap>> \o Awaited(k)
  <2>1. /\ <<Gap>> \in Seq(Frames) /\ frames \in Seq(Frames)
        /\ WroteTo(c, frames, "draining", k.buffer)
    BY <1>4, ReplayFailsTo
  <2>2. ToSet(frames) = ToSet(<<Gap>>) \cup ToSet(Awaited(k)) /\ ToSet(<<Gap>>) = {Gap}
    <3>1. ToSet(<<Gap>>) = {Gap}
      BY DEF ToSet
    <3>2. QED
      BY <1>1, <2>1, <3>1, JoinedSet
  <2> HIDE DEF frames
  <2>3. QED
    BY <1>1, <1>2, <2>1, <2>2, WroteBears
<1>5. QED
  BY <1>3, <1>4

LEMMA DrainBears ==
  ASSUME TypeInv, NEW c \in Conns, Drain(c)
  PROVE  \A d \in Conns : Bears(conn[d], conn'[d]) /\ Fresh(conn[d], conn'[d])
<1>1. WroteTo(c, conn[c].buffer, "live", <<>>) /\ conn[c].buffer \in Seq(Frames)
  BY DrainTo, TypesNow, ConnectionFields
<1>2. ~ Asks(conn[c])
  BY DEF Drain, Asks
<1>3. QED
  BY <1>1, <1>2, WroteBears DEF Held

LEMMA AttachBears ==
  ASSUME TypeInv, NEW c \in Conns, Attach(c)
  PROVE  \A d \in Conns : Bears(conn[d], conn'[d]) /\ Fresh(conn[d], conn'[d])
<1>1. /\ conn'[c].awaits = conn[c].awaits /\ conn'[c].stage = "replaying"
      /\ conn'[c].wire = conn[c].wire /\ conn'[c].buffer = conn[c].buffer
      /\ \A d \in Conns \ {c} : conn'[d] = conn[d]
  BY TypesNow, AttachTo DEF SameEnds
<1>2. Bears(conn[c], conn'[c]) /\ Fresh(conn[c], conn'[c])
  BY <1>1 DEF Bears, Fresh, Held, Asks
<1>3. QED
  BY <1>1, <1>2, SameBears

LEMMA PublishBears ==
  ASSUME TypeInv, NEW e \in Events, Publish(e)
  PROVE  \A d \in Conns : Bears(conn[d], conn'[d]) /\ Fresh(conn[d], conn'[d])
<1>1. e \in Frames /\ e # Reply
  BY FramesAre
<1>2. ASSUME NEW d \in Conns PROVE Bears(conn[d], conn'[d]) /\ Fresh(conn[d], conn'[d])
  <2>1. conn[d] \in Connections
    BY TypesNow
  <2>2. CASE conn[d].scoped
    <3>1. EmitTo(conn[d], e, conn'[d])
      BY <2>2, PublishTo
    <3>2. Bears(conn[d], conn'[d]) /\ Held(conn'[d]) \subseteq Held(conn[d]) \cup {e}
      BY <1>1, <2>1, <3>1, EmitBears
    <3>3. QED
      BY <1>1, <3>2 DEF Fresh
  <2>3. CASE ~ conn[d].scoped
    BY <2>3, PublishTo, SameBears
  <2>4. QED
    BY <2>2, <2>3
<1>3. QED
  BY <1>2

(* A connection that was just posted names the reply it waits for.               *)
LEMMA ConnectKeepsReply ==
  ASSUME TypeInv, StateInv, ReplyInv, NEW c \in Conns, NEW keep \in BOOLEAN, Connect(c, keep),
         \/ state' = "connecting" /\ UNCHANGED stray
         \/ state' = "open" /\ stray',
         UNCHANGED <<request, retained, seenEventIds>>, changed' \in BOOLEAN, retries' \in Nat
  PROVE  ReplyInv'
<1>1. /\ conn'[c].phase = "opening" /\ conn'[c].stage = "none"
      /\ conn'[c].wire = <<>> /\ conn'[c].buffer = <<>>
      /\ conn'[c].awaits = (request \in {"emitted", "replied"})
      /\ \A d \in Conns \ {c} :
           \/ conn'[d] = Free
           \/ SameStream(conn[d], conn'[d]) /\ conn'[d].phase = conn[d].phase
  BY ConnectTo
<1>2. /\ Free.phase = "free" /\ Free.wire = <<>> /\ Free.buffer = <<>> /\ ToSet(<<>>) = {}
  BY NoFrames DEF Free
<1>3. Newest(c)'
  <2>1. state' \in {"connecting", "open"} /\ stray' \in BOOLEAN
    BY TypesNow
  <2>2. QED
    BY <2>1, ConnectKeepsInv DEF StateInv
<1>4. \A d \in Conns : /\ Reply \in Held(conn'[d]) => Reply \in Held(conn[d])
                       /\ conn'[d].phase = "reading" => conn'[d].stage # "none"
  BY <1>1, <1>2 DEF Held, SameStream, ReplyInv, ReplyFits
<1>5. ReplyFits'
  <2>1. state' # "initial"
    OBVIOUS
  <2>2. QED
    BY <1>4, <2>1, FitsKept DEF ReplyInv
<1>6. ASSUME state' = "connecting" PROVE WaitsOn(c)'
  <2>1. Asks(conn'[c]) \/ request \notin {"emitted", "replied"}
    BY <1>1 DEF Asks
  <2>2. QED
    BY <1>1, <1>3, <1>6, <2>1 DEF WaitsOn
<1>7. NewestWaits'
  BY <1>6 DEF NewestWaits
<1>8. QED
  BY <1>5, <1>7 DEF ReplyInv

(* The response is there: the connection that is opened is the newest, or the    *)
(* state is set for another stream.                                              *)
LEMMA OpenedKeepsReply ==
  ASSUME TypeInv, StateInv, ReplyInv, NEW c \in Conns, Opened(c)
  PROVE  ReplyInv'
<1>1. /\ conn[c].phase = "opening" /\ conn[c].stage # "none"
      /\ conn' = [d \in Conns |->
           IF d = c THEN [conn[c] EXCEPT !.phase = "reading", !.previous = {}]
           ELSE [conn[d] EXCEPT !.superseded = @ \/ d \in conn[c].previous]]
      /\ state' = IF state = "reconnecting" THEN state ELSE "open"
      /\ stray' = (stray \/ conn[c].superseded \/ \E d \in Conns : c \in conn[d].previous)
      /\ UNCHANGED <<request, retained, seenEventIds>>
  BY DEF Opened, serverVars
<1>2. /\ conn'[c].phase = "reading"
      /\ \A d \in Conns : SameStream(conn[d], conn'[d])
      /\ \A d \in Conns \ {c} : conn'[d].phase = conn[d].phase
  BY OpenedTo
<1>3. state \in {"connecting", "open", "reconnecting"} /\ state' # "initial"
  <2>1. state # "initial"
    BY <1>1 DEF StateInv, InitialIdle
  <2>2. QED
    BY <1>1, <2>1, TypesNow
<1>4. \A d \in Conns : Bears(conn[d], conn'[d]) /\ Fresh(conn[d], conn'[d])
  BY <1>2, SameBears DEF SameStream
<1>5. ReplyFits'
  <2>1. \A d \in Conns : conn'[d].phase = "reading" => conn'[d].stage # "none"
    BY <1>1, <1>2 DEF SameStream, ReplyInv, ReplyFits
  <2>2. QED
    BY <1>1, <1>3, <1>4, <2>1, FitsKept DEF ReplyInv, Fresh
<1>6. ASSUME state' = "open", ~ stray' PROVE WaitsOn(c)'
  <2>1. ~ stray /\ Newest(c) /\ state \in {"connecting", "open"}
    BY <1>1, <1>3, <1>6 DEF Newest
  <2>2. PICK d \in Conns : WaitsOn(d)
    BY <2>1 DEF ReplyInv, NewestWaits
  <2>3. d = c
    BY <2>1, <2>2 DEF WaitsOn, Newest, StateInv, ConnInv, Ordered
  <2>4. Newest(c)'
    <3>1. \A d2 \in Conns : DOMAIN conn[d2] = Fields
      BY DEF StateInv, ConnInv, Shape
    <3>2. /\ conn'[c].previous = {} /\ conn'[c].superseded = conn[c].superseded
          /\ \A d2 \in Conns \ {c} : conn'[d2].previous = conn[d2].previous
      BY <1>1, <3>1 DEF Fields
    <3>3. QED
      BY <1>2, <2>1, <3>2 DEF Newest
  <2>5. WaitsOn(c)
    BY <2>2, <2>3
  <2>6. QED
    BY <1>1, <1>2, <2>4, <2>5 DEF WaitsOn, SameStream, Unread, Asks
<1>7. NewestWaits'
  BY <1>1, <1>3, <1>6 DEF NewestWaits
<1>8. QED
  BY <1>5, <1>7 DEF ReplyInv

(* A connection ends: one that was superseded, or the recovery timer is set.     *)
LEMMA EndKeepsReply ==
  ASSUME TypeInv, StateInv, ReplyInv, NEW c \in Conns, LingerEnds(c) \/ Drop(c)
  PROVE  ReplyInv'
<1>1. /\ conn' = Gone({c}, conn) /\ UNCHANGED <<request, retained, seenEventIds, stray>>
      /\ \/ conn[c].superseded /\ state' = state
         \/ state' = "reconnecting"
  BY DEF LingerEnds, Drop, serverVars, clientVars, historyVars
<1>2. /\ conn'[c] = Free
      /\ \A d \in Conns \ {c} : SameStream(conn[d], conn'[d]) /\ conn'[d].phase = conn[d].phase
  <2>1. conn \in [Conns -> Connections] /\ {c} \in SUBSET Conns
    BY TypesNow
  <2>2. QED
    BY <1>1, <2>1, GoneTo
<1>3. /\ Free.phase = "free" /\ Free.wire = <<>> /\ Free.buffer = <<>> /\ ToSet(<<>>) = {}
  BY NoFrames DEF Free
<1>4. \A d \in Conns : /\ Reply \in Held(conn'[d]) => Reply \in Held(conn[d])
                       /\ conn'[d].phase = "reading" => conn'[d].stage # "none"
  BY <1>2, <1>3 DEF Held, SameStream, ReplyInv, ReplyFits
<1>5. ReplyFits'
  BY <1>1, <1>4, FitsKept DEF ReplyInv
<1>6. CASE state' = "reconnecting"
  BY <1>5, <1>6 DEF ReplyInv, NewestWaits
<1>7. CASE conn[c].superseded /\ state' = state
  <2>1. ASSUME NEW d \in Conns, Newest(d)
        PROVE  Newest(d)' /\ conn'[d].phase = conn[d].phase /\ Bears(conn[d], conn'[d])
    <3>1. d # c
      BY <1>7, <2>1 DEF Newest
    <3>2. /\ conn'[c].previous = {} /\ conn'[d].superseded = conn[d].superseded
          /\ \A d2 \in Conns \ {c} : conn'[d2].previous \subseteq conn[d2].previous
      <4>1. Shape /\ {c} \in SUBSET Conns
        BY DEF StateInv, ConnInv
      <4>2. QED
        BY <1>1, <3>1, <4>1, GoneIs, FreeIs
    <3>3. conn'[d].phase = conn[d].phase /\ Bears(conn[d], conn'[d])
      BY <1>2, <3>1, SameBears DEF SameStream
    <3>4. QED
      BY <2>1, <3>2, <3>3 DEF Newest
  <2>2. NewestWaits'
    BY <1>1, <1>7, <2>1, WaitingKept DEF ReplyInv
  <2>3. QED
    BY <1>5, <2>2 DEF ReplyInv
<1>8. QED
  BY <1>1, <1>6, <1>7

LEMMA ReadKeepsReply ==
  ASSUME TypeInv, StateInv, ReplyInv, NEW c \in Conns, Read(c)
  PROVE  ReplyInv'
<1> DEFINE k == conn[c]
           l == conn'[c]
           f == Head(k.wire)
<1>1. /\ ReadTo(c) /\ f \in Frames /\ k.wire \in Seq(Frames) /\ k.wire # <<>>
      /\ SkipDuplicate(c) \/ HandOn(c) \/ HandOnGap(c) \/ HandOnReply(c)
  BY ReadsOne, TypesNow, ConnectionFields DEF Read
<1>2. CourseKept /\ UNCHANGED <<state, stray, retained>>
  BY ReadKeeps DEF Read, serverVars, StateInv, ConnInv
<1>3. Reply \notin Events /\ Gap # Reply
  BY FramesAre DEF Gap, Reply
<1>4. ToSet(k.wire) = {f} \cup ToSet(l.wire)
  <2>1. ToSet(k.wire) = {f} \cup ToSet(Tail(k.wire))
    BY <1>1, FrontOf
  <2>2. QED
    BY <1>1, <2>1 DEF ReadTo
<1>5. /\ l.buffer = k.buffer /\ l.awaits = k.awaits /\ l.stage = k.stage
      /\ \A d \in Conns \ {c} : conn'[d] = conn[d]
  BY <1>1 DEF ReadTo
<1>6. \A d \in Conns : Fresh(conn[d], conn'[d])
  BY <1>4, <1>5, SameBears DEF Fresh, Held
<1>7. CASE f # Reply
  <2>1. Bears(k, l)
    BY <1>4, <1>5, <1>7 DEF Bears, Held, Asks
  <2>2. \A d \in Conns : Bears(conn[d], conn'[d])
    BY <1>5, <2>1, SameBears
  <2>3. request' = request /\ (Reply \in seenEventIds' => Reply \in seenEventIds)
    BY <1>1, <1>3, <1>7 DEF SkipDuplicate, HandOn, HandOnGap, HandOnReply, Claim
  <2>4. QED
    BY <1>2, <1>6, <2>2, <2>3, QuietKeepsReply
<1>8. CASE f = Reply
  <2>1. request \in {"replied", "settled", "failed"}
    <3>1. Reply \in Unread(c)
      BY <1>4, <1>8 DEF Unread
    <3>2. QED
      BY <3>1, TypesNow DEF ReplyInv, ReplyFits
  <2>2. request' \in {"settled", "failed"}
    <3>1. CASE SkipDuplicate(c)
      BY <1>8, <3>1 DEF SkipDuplicate, ReplyInv, ReplyFits
    <3>2. CASE HandOnReply(c)
      BY <2>1, <3>2 DEF HandOnReply
    <3>3. QED
      BY <1>1, <1>3, <1>8, <3>1, <3>2 DEF HandOn, HandOnGap
  <2>3. \A d \in Conns : conn'[d].phase = "reading" => conn'[d].stage # "none"
    BY <1>2, <1>5 DEF CourseKept, SameCourse, ReplyInv, ReplyFits
  <2>4. ReplyFits'
    BY <2>2, <2>3 DEF ReplyFits
  <2>5. NewestWaits'
    BY <1>2, <2>2, NewestKept, WaitingKept DEF ReplyInv
  <2>6. QED
    BY <2>4, <2>5 DEF ReplyInv
<1>9. QED
  BY <1>7, <1>8

LEMMA RequestKeepsReply ==
  ASSUME TypeInv, StateInv, ReplyInv, RequestStep
  PROVE  ReplyInv'
<1>1. /\ UNCHANGED <<state, seenEventIds>> /\ UNCHANGED stray
  BY DEF RequestStep, clientVars, historyVars
<1>2. CourseKept
  BY RequestKeeps DEF StateInv, ConnInv
<1>3. /\ request \in {"none", "gated", "emitted"} => ~retained /\ \A c \in Conns : Reply \notin Unread(c)
      /\ Reply \in seenEventIds => request \in {"settled", "failed"}
      /\ request \in {"emitted", "replied"} => state # "initial"
      /\ \A c \in Conns : conn[c].phase = "reading" => conn[c].stage # "none"
  BY DEF ReplyInv, ReplyFits
<1>4. \A c \in Conns : Newest(c) => Newest(c)' /\ conn'[c].phase = conn[c].phase
  BY <1>2, NewestKept
<1>5. CASE Ask
  <2>1. request = "none" /\ request' = "gated" /\ UNCHANGED <<retained, conn>>
    BY <1>5 DEF Ask
  <2>2. ReplyFits'
    BY <1>1, <1>3, <2>1 DEF ReplyFits, Unread
  <2>3. NewestWaits'
    BY <1>1, <1>4, <2>1, WaitingKept DEF ReplyInv
  <2>4. QED
    BY <2>2, <2>3 DEF ReplyInv
<1>6. CASE Emit
  <2>1. request = "gated" /\ state = "open" /\ request' = "emitted" /\ UNCHANGED <<retained, conn>>
    BY <1>6 DEF Emit
  <2>2. ReplyFits'
    BY <1>1, <1>3, <2>1 DEF ReplyFits, Unread
  <2>3. ASSUME ~ stray PROVE \E c \in Conns : WaitsOn(c)'
    <3>1. PICK c \in Conns : WaitsOn(c)
      BY <2>1, <2>3 DEF ReplyInv, NewestWaits
    <3>2. Newest(c)' /\ conn'[c].phase = "reading" /\ conn'[c].stage # "none"
      BY <1>3, <1>4, <2>1, <3>1 DEF WaitsOn
    <3>3. WaitsOn(c)'
      BY <2>1, <3>2 DEF WaitsOn
    <3>4. QED
      BY <3>3
  <2>4. QED
    BY <1>1, <2>2, <2>3 DEF ReplyInv, NewestWaits
<1>7. CASE Answer
  <2>1. request = "emitted" /\ request' = "replied" /\ retained'
    BY <1>7 DEF Answer
  <2>2. Reply \in Frames \ Events
    BY FramesAre
  <2>3. \A c \in Conns : /\ Bears(conn[c], conn'[c])
                         /\ conn'[c].stage = conn[c].stage /\ conn'[c].awaits = conn[c].awaits
                         /\ conn[c].stage # "none" => Reply \in Held(conn'[c])
    <3>1. \A c \in Conns : conn[c] \in Connections /\ EmitTo(conn[c], Reply, conn'[c])
      BY <1>7, AnswerTo, TypesNow
    <3>2. QED
      BY <2>2, <3>1, EmitBears DEF EmitTo, SameEnds
  <2>4. ReplyFits'
    <3>1. \A c \in Conns : conn'[c].phase = "reading" => conn'[c].stage # "none"
      BY <1>2, <1>3, <2>3 DEF CourseKept, SameCourse
    <3>2. QED
      BY <1>1, <1>3, <2>1, <3>1 DEF ReplyFits
  <2>5. ASSUME state \in {"connecting", "open"}, ~ stray PROVE \E c \in Conns : WaitsOn(c)'
    <3>1. PICK c \in Conns : WaitsOn(c)
      BY <2>5 DEF ReplyInv, NewestWaits
    <3>2. Newest(c)' /\ (state' = "open" => conn'[c].phase = "reading")
      BY <1>1, <1>4, <3>1 DEF WaitsOn
    <3>3. conn[c].awaits \/ conn[c].stage # "none"
      BY <2>1, <3>1 DEF WaitsOn
    <3>4. Reply \in Held(conn'[c]) \/ Asks(conn'[c])
      BY <2>3, <3>3 DEF Asks
    <3>5. WaitsOn(c)'
      BY <2>1, <3>2, <3>4 DEF WaitsOn, Unread, Held, Asks
    <3>6. QED
      BY <3>5
  <2>6. QED
    BY <1>1, <2>4, <2>5 DEF ReplyInv, NewestWaits
<1>8. CASE TimeOut
  <2>1. request' = "failed" /\ UNCHANGED <<retained, conn>>
    BY <1>8 DEF TimeOut
  <2>2. ReplyFits'
    BY <1>3, <2>1 DEF ReplyFits
  <2>3. NewestWaits'
    BY <1>1, <1>4, <2>1, WaitingKept DEF ReplyInv
  <2>4. QED
    BY <2>2, <2>3 DEF ReplyInv
<1>9. CASE Evict
  <2>1. retained' = FALSE /\ UNCHANGED <<request, conn>>
    BY <1>9 DEF Evict
  <2>2. \A c \in Conns : Bears(conn[c], conn'[c]) /\ Fresh(conn[c], conn'[c])
    BY <2>1, SameBears
  <2>3. QED
    BY <1>1, <1>2, <2>1, <2>2, QuietKeepsReply
<1>10. QED
  BY <1>5, <1>6, <1>7, <1>8, <1>9 DEF RequestStep

LEMMA ReplyInit ==
  ASSUME Init
  PROVE  ReplyInv
<1>1. /\ conn = [c \in Conns |-> Free] /\ state = "initial" /\ request = "none"
      /\ retained = FALSE /\ seenEventIds = {}
  BY DEF Init
<1>2. Free.phase = "free" /\ Free.wire = <<>> /\ Free.buffer = <<>> /\ ToSet(<<>>) = {}
  BY NoFrames DEF Free
<1>3. ReplyFits
  BY <1>1, <1>2 DEF ReplyFits, Unread
<1>4. NewestWaits
  BY <1>1 DEF NewestWaits
<1>5. QED
  BY <1>3, <1>4 DEF ReplyInv

LEMMA StepKeepsReply ==
  ASSUME TypeInv, StateInv, ReplyInv, [Next]_vars
  PROVE  ReplyInv'
<1>0. changed \in BOOLEAN /\ retries \in Nat /\ (retries > 0 => retries - 1 \in Nat)
      /\ retries \in Int
  BY TypesNow
<1>1. CASE Start
  <2>1. PICK c \in Conns : Connect(c, FALSE)
    BY <1>1 DEF Start
  <2>2. /\ state' = "connecting" /\ UNCHANGED <<stray, request, retained, seenEventIds>>
        /\ changed' \in BOOLEAN /\ retries' \in Nat
    BY <1>0, <1>1 DEF Start, serverVars, historyVars
  <2>3. QED
    BY <2>1, <2>2, ConnectKeepsReply
<1>2. CASE Reconnect
  <2>1. PICK c \in Conns : Connect(c, TRUE)
    BY <1>2 DEF Reconnect
  <2>2. /\ state' = "connecting" /\ UNCHANGED <<stray, request, retained, seenEventIds>>
        /\ changed' \in BOOLEAN
    BY <1>2 DEF Reconnect, serverVars, historyVars
  <2>3. retries' \in Nat
    <3>1. retries' = (IF clearable THEN retries - 1 ELSE retries)
      BY <1>2 DEF Reconnect, ClearRetry
    <3>2. QED
      BY <3>1, TypesNow
  <2>4. QED
    BY <2>1, <2>2, <2>3, ConnectKeepsReply
<1>3. CASE Retry
  <2>1. PICK c \in Conns : Connect(c, FALSE)
    BY <1>3 DEF Retry
  <2>2. /\ state' = (IF state = "open" THEN "open" ELSE "connecting")
        /\ stray' = (stray \/ state = "open") /\ UNCHANGED <<request, retained, seenEventIds>>
        /\ changed' \in BOOLEAN /\ retries' \in Nat
    BY <1>0, <1>3 DEF Retry, serverVars
  <2>3. \/ state' = "connecting" /\ UNCHANGED stray
        \/ state' = "open" /\ stray'
    <3>1. CASE state = "open"
      BY <2>2, <3>1
    <3>2. CASE state # "open"
      <4>1. stray \in BOOLEAN
        BY TypesNow
      <4>2. QED
        BY <2>2, <3>2, <4>1
    <3>3. QED
      BY <3>1, <3>2
  <2>4. QED
    BY <2>1, <2>2, <2>3, ConnectKeepsReply
<1>4. CASE ChangeChannels \/ Store \/ (\E e \in Events : StoreLate(e)) \/ UNCHANGED vars
  <2>1. /\ UNCHANGED <<conn, state, stray, request, retained, seenEventIds>>
    BY <1>4 DEF ChangeChannels, Store, StoreLate, serverVars, clientVars, historyVars, vars
  <2>2. CourseKept
    BY <2>1, NoneChanged DEF StateInv, ConnInv
  <2>3. \A c \in Conns : Bears(conn[c], conn'[c]) /\ Fresh(conn[c], conn'[c])
    BY <2>1, SameBears
  <2>4. QED
    BY <2>1, <2>2, <2>3, QuietKeepsReply
<1>5. CASE \/ \E e \in Events : Publish(e)
           \/ \E c \in Conns : \/ Attach(c) \/ Replay(c) \/ ReplayFails(c) \/ Drain(c)
                               \/ Absorbed(c)
  <2>1. UNCHANGED <<request, retained, seenEventIds>>
    BY <1>5 DEF Publish, Attach, Replay, ReplayFails, Drain, Absorbed, serverVars, clientVars
  <2>2. CourseKept /\ UNCHANGED <<state, stray>>
    BY <1>5, QuietStep
  <2>3. \A c \in Conns : Bears(conn[c], conn'[c]) /\ Fresh(conn[c], conn'[c])
    <3>1. CASE \E e \in Events : Publish(e)
      BY <3>1, PublishBears
    <3>2. CASE \E c \in Conns : Attach(c)
      BY <3>2, AttachBears
    <3>3. CASE \E c \in Conns : Replay(c) \/ ReplayFails(c)
      BY <3>3, ReplayBears
    <3>4. CASE \E c \in Conns : Drain(c)
      BY <3>4, DrainBears
    <3>5. CASE \E c \in Conns : Absorbed(c)
      BY <3>5, AbsorbedTo, SameBears
    <3>6. QED
      BY <1>5, <3>1, <3>2, <3>3, <3>4, <3>5
  <2>4. QED
    BY <2>1, <2>2, <2>3, QuietKeepsReply
<1>6. ASSUME NEW c \in Conns, Opened(c) PROVE ReplyInv'
  BY <1>6, OpenedKeepsReply
<1>7. ASSUME NEW c \in Conns, LingerEnds(c) \/ Drop(c) PROVE ReplyInv'
  BY <1>7, EndKeepsReply
<1>8. ASSUME NEW c \in Conns, Read(c) PROVE ReplyInv'
  BY <1>8, ReadKeepsReply
<1>9. CASE RequestStep
  BY <1>9, RequestKeepsReply
<1>10. QED
  BY <1>1, <1>2, <1>3, <1>4, <1>5, <1>6, <1>7, <1>8, <1>9 DEF Next, Work

(* A reply that is retained while the client waits for it reaches the client,    *)
(* whatever happens to the connections (bus-request.ts trackReply, routes/bus.ts *)
(* createReplyRetention): a connection has it or will ask for it, or one is      *)
(* going to be made.                                                             *)
THEOREM RetainedReplyReaches == Spec => []ReplyNotLost
<1>1. Init => TypeInv /\ StateInv /\ ReplyInv
  BY TypesInit, InitState, ReplyInit
<1>2. TypeInv /\ StateInv /\ ReplyInv /\ [Next]_vars => (TypeInv /\ StateInv /\ ReplyInv)'
  <2>1. TypeInv' => TimersInv'
    BY TypesNow DEF TimersInv, TypeInv, TypeOK
  <2>2. QED
    BY <2>1, TypesStep, StepKeepsState, StepKeepsReply
<1>3. TypeInv /\ StateInv /\ ReplyInv => ReplyNotLost
  <2>1. SUFFICES ASSUME TypeInv, StateInv, ReplyInv, request = "replied", retained, ~stray,
                        ~ (retries > 0)
                 PROVE  \E c \in Conns : Reply \in Unread(c)
                                           \/ (conn[c].awaits /\ conn[c].stage \in {"none", "replaying"})
    BY DEF ReplyNotLost
  <2>2. state # "initial" /\ state # "reconnecting"
    <3>1. retries = 0
      BY <2>1, TypesNow
    <3>2. state # "initial"
      BY <2>1 DEF ReplyInv, ReplyFits
    <3>3. QED
      BY <2>1, <3>1, <3>2 DEF StateInv, NewestCarries
  <2>3. PICK c \in Conns : WaitsOn(c)
    BY <2>1, <2>2, TypesNow DEF ReplyInv, NewestWaits
  <2>4. QED
    BY <2>1, <2>3 DEF WaitsOn, Asks
<1>4. QED
  BY <1>1, <1>2, <1>3, PTL DEF Spec
================================================================================
