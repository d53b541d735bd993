------------------------------- MODULE EventFeed -------------------------------
(* What a client may expect of the events of a resource it listens to: each     *)
(* stored event is handed to the subscribers at most once, and after every      *)
(* earlier one that is not excused.  BusStream implements it; BrowseCache is    *)
(* built on it.  An excused event may still arrive, or never.                   *)
EXTENDS Integers, Sequences

CONSTANT MaxEvents     \* bound: the events are 1 .. MaxEvents

ASSUME MaxEventsAssumption == MaxEvents \in Nat

Events == 1 .. MaxEvents

VARIABLES
  stored,              \* the events are 1 .. stored, so far
  heard,               \* the events handed to the subscribers, in order
  excused              \* the events the stream need not deliver

feedVars == <<stored, heard, excused>>

Heard == {heard[i] : i \in DOMAIN heard}

(* A client that starts from a saved watermark is not owed what came before it. *)
FeedInit == stored \in 0 .. MaxEvents /\ heard = <<>> /\ excused \in SUBSET (1 .. stored)

FeedStore ==
  /\ stored < MaxEvents
  /\ stored' = stored + 1
  /\ UNCHANGED <<heard, excused>>

FeedExcuse == stored' = stored /\ heard' = heard /\ excused \subseteq excused' /\ excused' \subseteq 1 .. stored

FeedDeliver(e) ==
  /\ e \in (1 .. stored) \ Heard
  /\ \A d \in 1 .. (e - 1) : d \in Heard \cup excused
  /\ heard' = Append(heard, e)
  /\ UNCHANGED <<stored, excused>>

FeedNext == FeedStore \/ FeedExcuse \/ \E e \in Events : FeedDeliver(e)

FeedSpec == FeedInit /\ [][FeedNext]_feedVars
================================================================================
