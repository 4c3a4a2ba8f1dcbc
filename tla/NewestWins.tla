----------------------------- MODULE NewestWins -----------------------------
(***************************************************************************)
(* What a subscription promises its handler, whatever threads and queues   *)
(* are behind it: messages arrive in order, are delivered in order and at  *)
(* most once, and one is lost only to newer ones: Capacity of them have to *)
(* be waiting behind it.  So the newest message is never the lost one.     *)
(* ReaderListener is shown to implement this specification.                *)
(***************************************************************************)
EXTENDS Integers, Sequences, SequencesExt

CONSTANTS
  Capacity,   \* how many messages wait before any is lost
  MaxMessages \* bound: messages that ever arrive

VARIABLES
  newest,    \* the latest message accepted
  pending,   \* the messages accepted and not yet delivered or lost
  delivered  \* the messages delivered

channelVars == <<newest, pending, delivered>>

ChannelInit == newest = 0 /\ pending = <<>> /\ delivered = <<>>

Accept ==
  \E m \in newest + 1 .. MaxMessages :
    /\ newest' = m
    /\ pending' = Append(pending, m)
    /\ UNCHANGED delivered

Lose ==
  \E i \in DOMAIN pending :
    /\ Len(pending) - i >= Capacity
    /\ pending' = RemoveAt(pending, i)
    /\ UNCHANGED <<newest, delivered>>

Deliver ==
  /\ pending # <<>>
  /\ delivered' = Append(delivered, Head(pending))
  /\ pending' = Tail(pending)
  /\ UNCHANGED newest

ChannelSpec == ChannelInit /\ [][Accept \/ Lose \/ Deliver]_channelVars

=============================================================================
