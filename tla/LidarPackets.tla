---------------------------- MODULE LidarPackets ----------------------------
(***************************************************************************)
(* One stream of example/go2/typego_livox_full_service.cpp: the callback   *)
(* splits what the lidar delivers (points, or IMU samples) into packets    *)
(* that fit into a datagram and sends each one to the client as soon as it *)
(* is built, while the waiting thread may register another client.         *)
(*                                                                         *)
(* The packet and its counters are the callback's own, and seq_id is       *)
(* thread_local: of the threads that run the callback one is modelled, and *)
(* of the others what they send.  An item is its index in the data of the  *)
(* call.  A datagram may get lost: sendto is called with MSG_DONTWAIT, and *)
(* UDP promises nothing.                                                   *)
(***************************************************************************)
EXTENDS Integers, Sequences, FiniteSetsExt

CONSTANTS
  MAX_UDP_PAYLOAD,
  HEADER_SIZE,
  ITEM_SIZE,     \* OPTIMIZED_POINT_SIZE or IMU_DATA_SIZE
  SeqRange,      \* 2^16, the values of seq_id
  MaxTotal,      \* bound: the largest dot_num
  MaxDropped     \* bound: how many packets in a row get lost

\* MAX_POINTS_PER_PACKET, MAX_IMU_PER_PACKET
MAX_PER_PACKET == (MAX_UDP_PAYLOAD - HEADER_SIZE) \div ITEM_SIZE

VARIABLES
  client_ready,
  callback,       \* where the callback is
  total,          \* dot_num of this call
  remaining,      \* remaining_points
  offset,         \* point_offset
  seq_id,         \* of this thread
  packets,        \* the packets of this call for which sendto was called
  last,           \* the number of the last packet the client received
  dropped,        \* history: packets sent to it since then that were lost
  mixed           \* history: one of these, or the last, was sent by another thread

vars == <<client_ready, callback, total, remaining, offset, seq_id, packets, last, dropped,
          mixed>>
client == <<client_ready, last, dropped, mixed>>

SeqIds == 0 .. SeqRange - 1

\* The number of a client that has received nothing.
Nothing == -1

Init ==
  /\ client_ready = FALSE
  /\ callback = "idle"
  /\ total = 0 /\ remaining = 0 /\ offset = 0
  /\ seq_id = 0
  /\ packets = << >>
  /\ last = Nothing
  /\ dropped = 0 /\ mixed = FALSE

\* WaitForNextClient: the first client, or another one, which has received
\* nothing yet, between any two packets.
ClientConnects ==
  /\ client_ready' = TRUE
  /\ last' = Nothing /\ dropped' = 0 /\ mixed' = FALSE
  /\ UNCHANGED <<callback, total, remaining, offset, seq_id, packets>>

\* What the client, if there is one, has of a packet with number n.
Sent(n, received) ==
  /\ received \/ dropped < MaxDropped
  /\ last' = IF received THEN n ELSE last
  /\ dropped' = IF received THEN 0 ELSE dropped + 1
  /\ UNCHANGED client_ready

\* Another thread that runs the callback sends a packet, with the number its own
\* seq_id has come to.
OtherPacket(n, received) ==
  /\ client_ready
  /\ Sent(n, received)
  /\ mixed' = TRUE
  /\ UNCHANGED <<callback, total, remaining, offset, seq_id, packets>>

\* The callback returns at once when there is no client, no data or another
\* type of data: nothing changes, so only the other calls are steps.
Callback(n) ==
  /\ callback = "idle"
  /\ client_ready
  /\ total' = n /\ remaining' = n /\ offset' = 0
  /\ packets' = << >>
  /\ callback' = "loop"
  /\ UNCHANGED <<seq_id, client>>

\* points_in_packet
InPacket == IF remaining > MAX_PER_PACKET THEN MAX_PER_PACKET ELSE remaining

\* Mutation of NextSeq: a number per call and not per packet.
NextSeqOfCall == IF offset = 0 THEN (seq_id + 1) % SeqRange ELSE seq_id

\* ++seq_id, a uint16_t.
NextSeq == (seq_id + 1) % SeqRange

\* Mutation of Advance: every packet starts at the first item.
AdvanceNever == offset

\* Where the next packet starts in the data of the call.
Advance == offset + InPacket

\* Builds one packet and calls sendtoClient; client_ready is never reset, so
\* there is a client.  received says whether the packet arrives there.
NextPacket(received) ==
  /\ callback = "loop"
  /\ remaining > 0
  /\ seq_id' = NextSeq
  /\ packets' = Append(packets, [seq |-> NextSeq, first |-> offset, count |-> InPacket])
  /\ Sent(NextSeq, received)
  /\ mixed' = (mixed /\ ~received)
  /\ offset' = Advance
  /\ remaining' = remaining - InPacket
  /\ UNCHANGED <<callback, total>>

\* The end of the while loop.
Return ==
  /\ callback = "loop"
  /\ remaining = 0
  /\ callback' = "idle"
  /\ UNCHANGED <<total, remaining, offset, seq_id, packets, client>>

Next ==
  \/ ClientConnects
  \/ \E n \in 0..MaxTotal : Callback(n)
  \/ \E received \in BOOLEAN : NextPacket(received) \/ \E n \in SeqIds : OtherPacket(n, received)
  \/ Return

Spec == Init /\ [][Next]_vars

-----------------------------------------------------------------------------
(* Properties.                                                             *)

Items(p) == p.first .. p.first + p.count - 1

\* "Send all points": after the call every item of the data was in exactly one
\* packet of it, and the packets are in the order of the data, although other
\* threads send and clients come and go.
EveryItemSentOnce ==
  callback = "idle" =>
    /\ \A x \in 0 .. total - 1 : Cardinality({i \in DOMAIN packets : x \in Items(packets[i])}) = 1
    /\ \A i, j \in DOMAIN packets : i < j => packets[i].first < packets[j].first

\* The client can count what it missed, across calls and past the wrap of the
\* sequence number, as long as it misses fewer than 2^16 packets in a row and
\* they and the last it received were sent by one thread: the threads number
\* their packets apart, and nothing in a packet names the thread.
LossVisible ==
  (last # Nothing /\ ~mixed) => dropped % SeqRange = (seq_id - last) % SeqRange

=============================================================================
