-------------------------- MODULE FilteredPackets ---------------------------
(***************************************************************************)
(* PointCloudCallback of example/go2/typego_livox_service.cpp: of the      *)
(* points of a cloud those in a band of heights are packed one by one into *)
(* a buffer, which is sent whenever the next point does not fit any more,  *)
(* and once more at the end.                                               *)
(*                                                                         *)
(* A point is its index in the cloud and its height.  The coordinates come *)
(* as int32 and are cut to int16 before the height is tested.              *)
(***************************************************************************)
EXTENDS Integers, Sequences

CONSTANTS
  MAX_UDP_PAYLOAD,
  HeaderSize,   \* sizeof(seq_id)
  PointSize,    \* 6, three int16_t
  SeqRange,     \* 2^16, the values of seq_id
  CastRange,    \* 2^16, the values of an int16_t
  Band,         \* 80, the limit of the heights
  Heights,      \* the heights of points
  MaxPoints     \* bound: the largest dot_num

VARIABLES
  callback,   \* where the callback is
  cloud,      \* the heights of the cloud's points
  i,          \* how many points have been looked at
  offset,
  packet,     \* the buffer: its header and the points in it
  seq_id,
  sent        \* the packets of this call given to sendtoClient

vars == <<callback, cloud, i, offset, packet, seq_id, sent>>

Empty(s) == [seq |-> s, points |-> << >>]

Init ==
  /\ callback = "idle"
  /\ cloud = << >>
  /\ i = 0
  /\ offset = HeaderSize
  /\ packet = Empty(0)
  /\ seq_id = 0
  /\ sent = << >>

\* A cloud arrives; one of another type, or none, is returned from at once.
PointCloudCallback(points) ==
  /\ callback = "idle"
  /\ cloud' = points
  /\ i' = 0
  /\ packet' = Empty(seq_id)
  /\ offset' = HeaderSize
  /\ sent' = << >>
  /\ callback' = "loop"
  /\ UNCHANGED seq_id

\* (int16_t)z
int16(z) == ((z + CastRange \div 2) % CastRange) - CastRange \div 2

InBand(z) == int16(z) > -Band /\ int16(z) < Band

nextSeq == (seq_id + 1) % SeqRange

\* The next point does not fit.
Full == offset + PointSize > MAX_UDP_PAYLOAD

Skip ==
  /\ callback = "loop"
  /\ i < Len(cloud)
  /\ ~InBand(cloud[i + 1])
  /\ i' = i + 1
  /\ UNCHANGED <<callback, cloud, offset, packet, seq_id, sent>>

Pack ==
  /\ callback = "loop"
  /\ i < Len(cloud)
  /\ InBand(cloud[i + 1])
  /\ ~Full
  /\ packet' = [packet EXCEPT !.points = Append(@, i + 1)]
  /\ offset' = offset + PointSize
  /\ i' = i + 1
  /\ UNCHANGED <<callback, cloud, seq_id, sent>>

\* The full buffer is sent first.
SendAndPack ==
  /\ callback = "loop"
  /\ i < Len(cloud)
  /\ InBand(cloud[i + 1])
  /\ Full
  /\ sent' = Append(sent, packet)
  /\ seq_id' = nextSeq
  /\ packet' = [seq |-> nextSeq, points |-> << i + 1 >>]
  /\ offset' = HeaderSize + PointSize
  /\ i' = i + 1
  /\ UNCHANGED <<callback, cloud>>

\* Mutation of Flush: only a full buffer is sent at the end.
FlushIfFull ==
  /\ callback = "loop"
  /\ i = Len(cloud)
  /\ IF Full
     THEN sent' = Append(sent, packet) /\ seq_id' = nextSeq
     ELSE UNCHANGED <<sent, seq_id>>
  /\ callback' = "idle"
  /\ UNCHANGED <<cloud, i, offset, packet>>

\* The end of the loop: what is left in the buffer is sent.
Flush ==
  /\ callback = "loop"
  /\ i = Len(cloud)
  /\ IF offset > HeaderSize
     THEN sent' = Append(sent, packet) /\ seq_id' = nextSeq
     ELSE UNCHANGED <<sent, seq_id>>
  /\ callback' = "idle"
  /\ UNCHANGED <<cloud, i, offset, packet>>

Next ==
  \/ \E n \in 0..MaxPoints : \E points \in [1..n -> Heights] : PointCloudCallback(points)
  \/ Skip \/ Pack \/ SendAndPack \/ Flush

Spec == Init /\ [][Next]_vars

-----------------------------------------------------------------------------
(* Properties.                                                             *)

Points(p) == {p.points[j] : j \in DOMAIN p.points}

\* The points that belong on the wire: those whose height, as far as an
\* int16_t can tell, lies in the band.
Wanted == {n \in DOMAIN cloud : \E z \in 1 - Band .. Band - 1 : (cloud[n] - z) % CastRange = 0}

Increasing(s) == \A j, k \in DOMAIN s : j < k => s[j] < s[k]

\* When the callback returns the packets hold the points of the band, each
\* once and in the cloud's order, and their numbers lead without a gap to the
\* one the next call starts with: the buffer is never sent twice, dropped or
\* cleared with a point in it, and a receiver that sorts by number gets them.
BandInNumberedOrder ==
  callback = "idle" =>
    /\ UNION {Points(sent[k]) : k \in DOMAIN sent} = Wanted
    /\ \A k \in DOMAIN sent : Increasing(sent[k].points)
    /\ \A k, l \in DOMAIN sent :
         k < l => \A m \in Points(sent[k]), n \in Points(sent[l]) : m < n
    /\ \A k \in DOMAIN sent : (sent[k].seq + Len(sent) - k + 1) % SeqRange = seq_id

=============================================================================
