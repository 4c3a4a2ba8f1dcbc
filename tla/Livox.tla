------------------------------- MODULE Livox --------------------------------
(***************************************************************************)
(* The Livox services: the statistics of the callbacks, the packets of the *)
(* full service and those of the filtering one.  They share nothing, so    *)
(* one of them runs at a time; service says which.                         *)
(***************************************************************************)
EXTENDS CallbackStats

CONSTANTS
  MAX_UDP_PAYLOAD, SeqRange,                    \* of both services
  HEADER_SIZE, ITEM_SIZE, MaxTotal, MaxDropped, \* LidarPackets
  HeaderSize, PointSize, CastRange, Band, Heights, MaxPoints \* FilteredPackets

\* A datagram has room for one item, and for one point.
ASSUME LivoxAssumption ==
  /\ MAX_UDP_PAYLOAD \in Nat
  /\ HEADER_SIZE \in Nat /\ ITEM_SIZE \in Nat \ {0}
  /\ HEADER_SIZE + ITEM_SIZE <= MAX_UDP_PAYLOAD
  /\ HeaderSize \in Nat /\ PointSize \in Nat \ {0}
  /\ HeaderSize + PointSize <= MAX_UDP_PAYLOAD
  /\ SeqRange \in Nat \ {0} /\ CastRange \in Nat \ {0}
  /\ Band \in Nat /\ Heights \subseteq Int
  /\ MaxTotal \in Nat /\ MaxDropped \in Nat /\ MaxPoints \in Nat

VARIABLES
  service,
  client_ready, lidar_callback, total, remaining, lidar_offset, lidar_seq_id, packets, last,
  dropped, mixed,
  callback, cloud, i, offset, packet, seq_id, sent

Lidar == INSTANCE LidarPackets WITH
  callback <- lidar_callback, offset <- lidar_offset, seq_id <- lidar_seq_id

Filter == INSTANCE FilteredPackets

lidarVars == <<client_ready, lidar_callback, total, remaining, lidar_offset, lidar_seq_id,
               packets, last, dropped, mixed>>
filterVars == <<callback, cloud, i, offset, packet, seq_id, sent>>
allVars == <<service, vars, lidarVars, filterVars>>

LivoxInit ==
  /\ service \in {"statistics", "full", "filtered"}
  /\ Init /\ Lidar!Init /\ Filter!Init

LivoxNext ==
  /\ UNCHANGED service
  /\ \/ service = "statistics" /\ Next /\ UNCHANGED <<lidarVars, filterVars>>
     \/ service = "full" /\ Lidar!Next /\ UNCHANGED <<vars, filterVars>>
     \/ service = "filtered" /\ Filter!Next /\ UNCHANGED <<vars, lidarVars>>

LivoxSpec == LivoxInit /\ [][LivoxNext]_allVars

\* LidarPackets: after a call every item was in exactly one packet, in order.
EveryItemSentOnce == Lidar!EveryItemSentOnce

\* LidarPackets: the client can count the packets it missed.
LossVisible == Lidar!LossVisible

\* FilteredPackets: after a call exactly the points of the band were sent, in
\* order, and the packets' numbers have no gap.
BandInNumberedOrder == Filter!BandInNumberedOrder

=============================================================================
