---------------------------- MODULE LivoxProofs -----------------------------
(***************************************************************************)
(* Proofs about Livox, for every number of threads, every period, every    *)
(* size of clouds and packets and every range of the sequence numbers.  A  *)
(* component's invariant is preserved by the component's steps, and by     *)
(* those of the others, which leave its variables alone.                   *)
(***************************************************************************)
EXTENDS Livox, Sequences, FiniteSetTheorems, ModularArithmetic, TLAPS

\* What Append does, for elements of any kind.
LEMMA AppendFacts ==
  ASSUME NEW S, NEW s \in Seq(S), NEW e \in S
  PROVE  /\ Append(s, e) \in Seq(S)
         /\ Len(s) \in Nat
         /\ \A j \in DOMAIN s : s[j] \in S /\ j \in Nat /\ j <= Len(s)
         /\ DOMAIN Append(s, e) = DOMAIN s \cup {Len(s) + 1}
         /\ \A j \in DOMAIN s : Append(s, e)[j] = s[j]
         /\ Append(s, e)[Len(s) + 1] = e
OBVIOUS

-----------------------------------------------------------------------------
(* LidarPackets: the packets of a call, and the numbers across calls.      *)

Packet == [seq : Int, first : Nat, count : Nat]

LidarTypeOK ==
  /\ lidar_callback \in {"idle", "loop"}
  /\ total \in Nat /\ remaining \in Nat /\ lidar_offset \in Nat
  /\ lidar_seq_id \in Int /\ last \in Int /\ dropped \in Nat /\ mixed \in BOOLEAN
  /\ packets \in Seq(Packet)

\* What is not yet in a packet lies behind lidar_offset, and the loop ends
\* when there is no more.
Progress ==
  /\ lidar_offset + remaining = total
  /\ lidar_callback = "idle" => remaining = 0

\* Each packet starts where or after the one before it ends, and the last one
\* ends at lidar_offset.
InOrder ==
  /\ \A j \in DOMAIN packets :
       packets[j].count > 0 /\ packets[j].first + packets[j].count <= lidar_offset
  /\ \A j, k \in DOMAIN packets :
       j < k => packets[j].first + packets[j].count <= packets[k].first

\* No item before lidar_offset has been left out.
Covered == \A x \in 0 .. lidar_offset - 1 : \E j \in DOMAIN packets : x \in Lidar!Items(packets[j])

LidarInv == LidarTypeOK /\ Progress /\ InOrder /\ Covered /\ Lidar!LossVisible

\* A packet holds one item at least.
LEMMA RoomInPacket == Lidar!MAX_PER_PACKET \in Nat /\ Lidar!MAX_PER_PACKET > 0
<1> DEFINE room == MAX_UDP_PAYLOAD - HEADER_SIZE
<1>1. room \in Nat /\ room >= ITEM_SIZE /\ ITEM_SIZE \in Nat /\ ITEM_SIZE > 0
  BY LivoxAssumption
<1>2. /\ room \div ITEM_SIZE \in Int
      /\ room = (room \div ITEM_SIZE) * ITEM_SIZE + (room % ITEM_SIZE)
      /\ room % ITEM_SIZE < ITEM_SIZE /\ room % ITEM_SIZE \in Int
  <2> HIDE DEF room
  <2> QED
    BY <1>1, DivMod
<1>3. room \div ITEM_SIZE > 0
  <2> HIDE DEF room
  <2> SUFFICES ASSUME room \div ITEM_SIZE <= 0 PROVE FALSE
    BY <1>2
  <2>1. (room \div ITEM_SIZE) * ITEM_SIZE <= 0
    BY <1>1, <1>2
  <2> QED
    BY <1>1, <1>2, <2>1
<1> QED
  BY <1>2, <1>3 DEF Lidar!MAX_PER_PACKET

\* No call has come.
LEMMA LidarInitInv == Lidar!Init => LidarInv
<1> SUFFICES ASSUME Lidar!Init PROVE LidarInv
  OBVIOUS
<1>1. mixed \in BOOLEAN /\ last = Lidar!Nothing
  BY Zenon DEF Lidar!Init
<1>2. LidarTypeOK
  BY <1>1 DEF Lidar!Init, LidarTypeOK, Lidar!Nothing
<1>3. Progress /\ InOrder /\ Covered
  BY DEF Lidar!Init, Progress, InOrder, Covered
<1>4. Lidar!LossVisible
  BY <1>1, Zenon DEF Lidar!LossVisible
<1> QED
  BY <1>2, <1>3, <1>4 DEF LidarInv

\* One packet more is lost, and the number is one further, past the wrap too.
LEMMA OneMoreLost ==
  ASSUME NEW d \in Int, NEW s \in Int, NEW l \in Int, NEW R \in Nat, R > 0, d % R = (s - l) % R
  PROVE  (d + 1) % R = (((s + 1) % R) - l) % R
<1>1. (d + 1) % R = ((s - l) + 1) % R
  <2> DEFINE b == s - l
  <2>1. b \in Int /\ d % R = b % R
    OBVIOUS
  <2> HIDE DEF b
  <2>2. (d + 1) % R = (b + 1) % R
    BY <2>1, ModPlus
  <2> QED
    BY <2>2 DEF b
<1>2. (((s + 1) % R) + (0 - l)) % R = ((s + 1) + (0 - l)) % R
  BY ModOfMod
<1>3. /\ (s - l) + 1 = (s + 1) + (0 - l)
      /\ ((s + 1) % R) + (0 - l) = ((s + 1) % R) - l
  BY DivMod
<1> QED
  BY <1>1, <1>2, <1>3

\* The numbers tell how many packets were lost.
LEMMA LossCounted ==
  ASSUME LidarInv, NEW received \in BOOLEAN, Lidar!NextPacket(received)
  PROVE  Lidar!LossVisible'
<1>1. SeqRange \in Nat /\ SeqRange > 0
  BY LivoxAssumption
<1>2. CASE received
  <2>1. lidar_seq_id' = last' /\ dropped' = 0 /\ last' = Lidar!NextSeq
    BY <1>2 DEF Lidar!NextPacket, Lidar!Sent
  <2>2. Lidar!NextSeq \in Int
    BY <1>1, DivMod DEF Lidar!NextSeq, LidarInv, LidarTypeOK
  <2> QED
    BY <2>1, <2>2 DEF Lidar!LossVisible
<1>3. CASE ~received
  <2>1. last' = last /\ dropped' = dropped + 1 /\ lidar_seq_id' = (lidar_seq_id + 1) % SeqRange
    BY <1>3 DEF Lidar!NextPacket, Lidar!NextSeq, Lidar!Sent
  <2>2. dropped \in Int /\ lidar_seq_id \in Int /\ last \in Int
    BY DEF LidarInv, LidarTypeOK
  <2>5. mixed' = mixed
    BY <1>3 DEF Lidar!NextPacket, LidarInv, LidarTypeOK
  <2> SUFFICES ASSUME last # Lidar!Nothing, ~mixed
               PROVE  dropped' % SeqRange = (lidar_seq_id' - last') % SeqRange
    BY <2>1, <2>5 DEF Lidar!LossVisible, Lidar!Nothing
  <2>3. dropped % SeqRange = (lidar_seq_id - last) % SeqRange
    BY DEF LidarInv, Lidar!LossVisible
  <2>4. (dropped + 1) % SeqRange = (((lidar_seq_id + 1) % SeqRange) - last) % SeqRange
    BY <1>1, <2>2, <2>3, OneMoreLost
  <2> QED
    BY <2>1, <2>4
<1> QED
  BY <1>2, <1>3

\* A packet takes the next items, and all there is room for.
LEMMA LidarPacket ==
  ASSUME LidarInv, NEW received \in BOOLEAN, Lidar!NextPacket(received)
  PROVE  LidarInv'
<1> DEFINE p == [seq |-> Lidar!NextSeq, first |-> lidar_offset, count |-> Lidar!InPacket]
<1>1. /\ Lidar!InPacket \in Nat /\ Lidar!InPacket > 0 /\ Lidar!InPacket <= remaining
      /\ Lidar!NextSeq \in Int
  BY RoomInPacket, LivoxAssumption, DivMod
     DEF Lidar!NextPacket, Lidar!InPacket, Lidar!NextSeq, LidarInv, LidarTypeOK
<1>2. /\ p \in Packet
      /\ packets' = Append(packets, p)
      /\ packets \in Seq(Packet)
      /\ lidar_offset' = lidar_offset + Lidar!InPacket
      /\ remaining' = remaining - Lidar!InPacket
  BY <1>1 DEF Lidar!NextPacket, Lidar!Advance, LidarInv, LidarTypeOK, Packet
<1>3. /\ DOMAIN packets' = DOMAIN packets \cup {Len(packets) + 1}
      /\ packets'[Len(packets) + 1] = p
      /\ \A j \in DOMAIN packets : packets'[j] = packets[j] /\ j < Len(packets) + 1 /\ j \in Nat
      /\ Len(packets) \in Nat
  <2> HIDE DEF p
  <2> QED
    BY <1>2, AppendFacts
<1>4. LidarTypeOK'
  <2>1. packets' \in Seq(Packet)
    BY <1>2, AppendFacts
  <2> QED
    BY <1>1, <1>2, <2>1 DEF Lidar!NextPacket, Lidar!Sent, LidarInv, LidarTypeOK
<1>5. Progress'
  BY <1>1, <1>2 DEF Lidar!NextPacket, LidarInv, LidarTypeOK, Progress
<1> HIDE DEF p
<1>6. p.first = lidar_offset /\ p.count = Lidar!InPacket
  BY DEF p
<1>7. InOrder'
  <2>1. \A j \in DOMAIN packets' :
          packets'[j].count > 0 /\ packets'[j].first + packets'[j].count <= lidar_offset'
    <3> SUFFICES ASSUME NEW j \in DOMAIN packets'
                 PROVE  /\ packets'[j].count > 0
                       /\ packets'[j].first + packets'[j].count <= lidar_offset'
      OBVIOUS
    <3>1. CASE j \in DOMAIN packets
      <4>1. /\ packets[j] \in Packet
            /\ packets[j].count > 0 /\ packets[j].first + packets[j].count <= lidar_offset
        BY <1>2, <3>1, AppendFacts DEF LidarInv, InOrder
      <4>2. packets[j].first \in Nat /\ packets[j].count \in Nat /\ lidar_offset \in Nat
        BY <4>1 DEF LidarInv, LidarTypeOK, Packet
      <4>3. packets'[j] = packets[j] /\ lidar_offset' >= lidar_offset
        BY <1>1, <1>2, <1>3, <3>1, <4>2
      <4> QED
        BY <1>1, <1>2, <4>1, <4>2, <4>3
    <3>2. CASE j = Len(packets) + 1
      BY <1>1, <1>2, <1>3, <1>6, <3>2 DEF LidarInv, LidarTypeOK
    <3> QED
      BY <1>3, <3>1, <3>2
  <2>2. ASSUME NEW j \in DOMAIN packets', NEW k \in DOMAIN packets', j < k
        PROVE  packets'[j].first + packets'[j].count <= packets'[k].first
    <3>1. j \in DOMAIN packets
      BY <1>3, <2>2
    <3>2. CASE k \in DOMAIN packets
      BY <1>3, <2>2, <3>1, <3>2 DEF LidarInv, InOrder
    <3>3. CASE k = Len(packets) + 1
      BY <1>3, <1>6, <3>1, <3>3 DEF LidarInv, InOrder
    <3> QED
      BY <1>3, <3>2, <3>3
  <2> QED
    BY <2>1, <2>2 DEF InOrder
<1>8. Covered'
  <2> SUFFICES ASSUME NEW x \in 0 .. lidar_offset' - 1
               PROVE  \E j \in DOMAIN packets' : x \in Lidar!Items(packets'[j])
    BY DEF Covered, Lidar!Items
  <2>1. CASE x < lidar_offset
    <3>1. PICK j \in DOMAIN packets : x \in Lidar!Items(packets[j])
      BY <2>1, <1>2, <1>1 DEF LidarInv, LidarTypeOK, Covered
    <3> QED
      BY <1>3, <3>1
  <2>2. CASE x >= lidar_offset
    <3>1. x \in Lidar!Items(p)
      BY <1>1, <1>2, <1>6, <2>2 DEF LidarInv, LidarTypeOK, Lidar!Items
    <3> QED
      BY <1>3, <3>1
  <2> QED
    BY <1>1, <1>2, <2>1, <2>2 DEF LidarInv, LidarTypeOK
<1> QED
  BY <1>4, <1>5, <1>7, <1>8, LossCounted DEF LidarInv

\* Every step of the full service preserves the invariant.
LEMMA LidarStepInv ==
  ASSUME LidarInv, Lidar!Next
  PROVE  LidarInv'
<1>1. ASSUME UNCHANGED <<lidar_callback, total, remaining, lidar_offset, lidar_seq_id, packets>>,
             last' \in Int, dropped' \in Nat, mixed' \in BOOLEAN,
             last' = Lidar!Nothing \/ mixed'
      PROVE  LidarInv'
  BY <1>1 DEF LidarInv, LidarTypeOK, Progress, InOrder, Covered, Lidar!Items, Lidar!LossVisible,
              Lidar!Nothing
<1>2. CASE Lidar!ClientConnects
  <2>1. mixed' \in BOOLEAN /\ last' = Lidar!Nothing
    BY <1>2, Zenon DEF Lidar!ClientConnects
  <2>2. last' \in Int /\ dropped' \in Nat
    BY <1>2, <2>1 DEF Lidar!ClientConnects, Lidar!Nothing
  <2> QED
    BY <1>1, <1>2, <2>1, <2>2, Zenon DEF Lidar!ClientConnects
<1>3. ASSUME NEW received \in BOOLEAN, NEW n \in Lidar!SeqIds, Lidar!OtherPacket(n, received)
      PROVE  LidarInv'
  BY <1>1, <1>3, LivoxAssumption
     DEF Lidar!OtherPacket, Lidar!Sent, Lidar!SeqIds, LidarInv, LidarTypeOK
<1>4. ASSUME NEW n \in 0..MaxTotal, Lidar!Callback(n) PROVE LidarInv'
  <2>1. LidarTypeOK' /\ Progress' /\ InOrder'
    BY <1>4, LivoxAssumption DEF Lidar!Callback, Lidar!client, LidarInv, LidarTypeOK, Progress, InOrder
  <2>2. Covered' /\ Lidar!LossVisible'
    BY <1>4 DEF Lidar!Callback, Lidar!client, LidarInv, Covered, Lidar!LossVisible
  <2> QED
    BY <2>1, <2>2 DEF LidarInv
<1>5. CASE Lidar!Return
  BY <1>5 DEF Lidar!Return, Lidar!client, LidarInv, LidarTypeOK, Progress, InOrder, Covered, Lidar!Items,
              Lidar!LossVisible
<1> QED
  BY <1>2, <1>3, <1>4, <1>5, LidarPacket DEF Lidar!Next

\* The full service keeps its invariant, whichever service runs.
LEMMA LidarInvariance == LivoxSpec => []LidarInv
<1>1. LivoxInit => LidarInv
  BY LidarInitInv DEF LivoxInit
<1>2. LidarInv /\ UNCHANGED lidarVars => LidarInv'
  BY DEF lidarVars, LidarInv, LidarTypeOK, Progress, InOrder, Covered, Lidar!Items,
         Lidar!LossVisible
<1>3. LidarInv /\ [LivoxNext]_allVars => LidarInv'
  BY <1>2, LidarStepInv DEF LivoxNext, allVars
<1> QED
  BY <1>1, <1>3, PTL DEF LivoxSpec

\* After every call each item was in exactly one packet, and the packets are in
\* the order of the data, for every size of packets and of the data.
THEOREM ItemsSentOnce == LivoxSpec => []EveryItemSentOnce
<1>1. LidarInv => EveryItemSentOnce
  <2> SUFFICES ASSUME LidarInv, lidar_callback = "idle"
               PROVE  /\ \A x \in 0 .. total - 1 :
                           Lidar!Cardinality({j \in DOMAIN packets :
                                          x \in Lidar!Items(packets[j])}) = 1
                      /\ \A j, k \in DOMAIN packets : j < k => packets[j].first < packets[k].first
    BY DEF EveryItemSentOnce, Lidar!EveryItemSentOnce
  <2>1. lidar_offset = total
    BY DEF LidarInv, LidarTypeOK, Progress
  <2>2. \A j \in DOMAIN packets : packets[j].first \in Nat /\ packets[j].count \in Nat /\ j \in Nat
    <3>1. packets \in Seq(Packet)
      BY DEF LidarInv, LidarTypeOK
    <3>2. \A j \in DOMAIN packets : packets[j] \in Packet /\ j \in Nat
      BY <3>1
    <3> QED
      BY <3>2 DEF Packet
  <2>3. ASSUME NEW x \in 0 .. total - 1
        PROVE  Lidar!Cardinality({j \in DOMAIN packets : x \in Lidar!Items(packets[j])}) = 1
    <3>1. PICK j \in DOMAIN packets : x \in Lidar!Items(packets[j])
      BY <2>1 DEF LidarInv, Covered
    <3>2. ASSUME NEW k \in DOMAIN packets, x \in Lidar!Items(packets[k]), k # j PROVE FALSE
      BY <2>2, <3>1, <3>2 DEF LidarInv, InOrder, Lidar!Items
    <3>3. {k \in DOMAIN packets : x \in Lidar!Items(packets[k])} = {j}
      BY <3>1, <3>2
    <3>4. Lidar!Cardinality({j}) = Cardinality({j})
      BY Zenon DEF Lidar!Cardinality, Cardinality
    <3> QED
      BY <3>3, <3>4, FS_Singleton
  <2>4. \A j, k \in DOMAIN packets : j < k => packets[j].first < packets[k].first
    BY <2>2 DEF LidarInv, InOrder
  <2> QED
    BY <2>3, <2>4
<1> QED
  BY LidarInvariance, <1>1, PTL

\* The client can count what it missed of the packets of one thread, for every
\* range of the numbers, however many get lost, and whatever other threads and
\* earlier clients did before.
THEOREM LossesCanBeCounted == LivoxSpec => []LossVisible
<1>1. LidarInv => LossVisible
  BY DEF LidarInv, LossVisible
<1> QED
  BY LidarInvariance, <1>1, PTL

-----------------------------------------------------------------------------
(* FilteredPackets: the cast, the buffer and the packets.                  *)

FilteredPacket == [seq : Int, points : Seq(Int)]

FilterTypeOK ==
  /\ callback \in {"idle", "loop"}
  /\ cloud \in Seq(Int)
  /\ i \in 0 .. Len(cloud)
  /\ offset \in Int
  /\ packet \in FilteredPacket
  /\ seq_id \in 0 .. SeqRange - 1
  /\ sent \in Seq(FilteredPacket)

SentPoints == UNION {Filter!Points(sent[k]) : k \in DOMAIN sent}

\* The points of the band among those that were looked at.
Looked == {n \in 1..i : Filter!InBand(cloud[n])}

\* Inside the loop, what was looked at is in a packet or in the buffer, whose
\* points come after those sent; an empty buffer is one without points.
Buffered ==
  callback = "loop" =>
    /\ SentPoints \cup Filter!Points(packet) = Looked
    /\ Filter!Increasing(packet.points)
    /\ \A m \in SentPoints, n \in Filter!Points(packet) : m < n
    /\ packet.seq = seq_id
    /\ offset >= HeaderSize
    /\ offset = HeaderSize => packet.points = << >>

\* The packets are in order and numbered up to seq_id.
SentInOrder ==
  /\ \A k \in DOMAIN sent : Filter!Increasing(sent[k].points)
  /\ \A k, l \in DOMAIN sent :
       k < l => \A m \in Filter!Points(sent[k]), n \in Filter!Points(sent[l]) : m < n
  /\ \A k \in DOMAIN sent : (sent[k].seq + Len(sent) - k + 1) % SeqRange = seq_id

AllSent == callback = "idle" => SentPoints = Filter!Wanted

FilterInv == FilterTypeOK /\ Buffered /\ SentInOrder /\ AllSent

\* A height that was cut to int16 lies in the band exactly if some height of
\* the band differs from it by a multiple of the cast's range.
LEMMA CutHeight ==
  ASSUME NEW z \in Int
  PROVE  Filter!InBand(z) <=> \E y \in 1 - Band .. Band - 1 : (z - y) % CastRange = 0
<1> DEFINE h == CastRange \div 2
           q == (z + h) \div CastRange
           m == Filter!int16(z)
<1>1. CastRange \in Nat /\ CastRange > 0 /\ Band \in Nat
  BY LivoxAssumption
<1>2. h \in Nat /\ CastRange \in {2 * h, 2 * h + 1}
  BY <1>1
<1> HIDE DEF h
<1>3. /\ q \in Int /\ m \in Int
      /\ m = z - q * CastRange
      /\ -h <= m /\ m <= h
  <2>1. z + h \in Int
    BY <1>2
  <2>2. /\ q \in Int /\ (z + h) % CastRange \in 0..(CastRange - 1)
        /\ z + h = q * CastRange + ((z + h) % CastRange)
    BY <1>1, <2>1, DivMod
  <2>3. m = ((z + h) % CastRange) - h
    BY DEF Filter!int16, h
  <2> HIDE DEF q, m
  <2> QED
    BY <1>1, <1>2, <2>2, <2>3
<1> HIDE DEF q, m
<1>4. Filter!InBand(z) <=> (m > -Band /\ m < Band)
  BY DEF Filter!InBand, m
<1>5. ASSUME Filter!InBand(z)
      PROVE  \E y \in 1 - Band .. Band - 1 : (z - y) % CastRange = 0
  <2>1. m \in 1 - Band .. Band - 1
    BY <1>1, <1>3, <1>4, <1>5
  <2>2. z - m = q * CastRange + 0
    BY <1>1, <1>3
  <2>3. (q * CastRange + 0) % CastRange = 0
    BY <1>1, <1>3, ModUnique
  <2> QED
    BY <2>1, <2>2, <2>3
<1>6. ASSUME NEW y \in 1 - Band .. Band - 1, (z - y) % CastRange = 0
      PROVE  Filter!InBand(z)
  <2> DEFINE p == (z - y) \div CastRange
  <2>1. z - y \in Int
    BY <1>1, <1>6
  <2>2. p \in Int /\ z - y = p * CastRange + 0
    BY <1>1, <1>6, <2>1, DivMod
  <2> HIDE DEF p
  <2>3. m = y + (p - q) * CastRange
    BY <1>1, <1>3, <2>2
  <2>4. CASE p - q = 0
    BY <1>1, <1>3, <1>4, <2>2, <2>3, <2>4
  <2>5. CASE p - q >= 1
    <3>1. (p - q) * CastRange >= CastRange
      BY <1>1, <1>3, <2>2, <2>5
    <3> QED
      BY <1>1, <1>2, <1>3, <1>4, <2>2, <2>3, <3>1
  <2>6. CASE p - q <= -1
    <3>1. (p - q) * CastRange <= -CastRange
      BY <1>1, <1>3, <2>2, <2>6
    <3> QED
      BY <1>1, <1>2, <1>3, <1>4, <2>2, <2>3, <3>1
  <2> QED
    BY <1>3, <2>2, <2>4, <2>5, <2>6
<1> QED
  BY <1>5, <1>6

\* No cloud has come.
LEMMA FilterInitInv == Filter!Init => FilterInv
<1> SUFFICES ASSUME Filter!Init PROVE FilterInv
  OBVIOUS
<1>1. FilterTypeOK
  BY LivoxAssumption DEF Filter!Init, Filter!Empty, FilterTypeOK, FilteredPacket
<1>2. Buffered /\ SentInOrder
  BY DEF Filter!Init, Buffered, SentInOrder
<1>3. SentPoints = {} /\ Filter!Wanted = {}
  BY DEF Filter!Init, SentPoints, Filter!Wanted
<1> QED
  BY <1>1, <1>2, <1>3 DEF FilterInv, AllSent

\* A point more in a buffer.
LEMMA PointMore ==
  ASSUME NEW p \in FilteredPacket, NEW n \in Int
  PROVE  LET r == [p EXCEPT !.points = Append(@, n)]
         IN  /\ r \in FilteredPacket /\ r.seq = p.seq
             /\ Filter!Points(r) = Filter!Points(p) \cup {n}
             /\ (Filter!Increasing(p.points) /\ \A m \in Filter!Points(p) : m < n)
                   => Filter!Increasing(r.points)
<1> DEFINE r == [p EXCEPT !.points = Append(@, n)]
<1>1. p.points \in Seq(Int)
  BY DEF FilteredPacket
<1>2. r \in FilteredPacket /\ r.seq = p.seq /\ r.points = Append(p.points, n)
  BY <1>1, AppendFacts DEF FilteredPacket
<1>3. /\ DOMAIN r.points = DOMAIN p.points \cup {Len(p.points) + 1}
      /\ \A j \in DOMAIN p.points : r.points[j] = p.points[j] /\ j \in Nat /\ j <= Len(p.points)
      /\ r.points[Len(p.points) + 1] = n
      /\ Len(p.points) \in Nat
  BY <1>1, <1>2, AppendFacts
<1> HIDE DEF r
<1>4. Filter!Points(r) = Filter!Points(p) \cup {n}
  BY <1>3 DEF Filter!Points
<1>5. ASSUME Filter!Increasing(p.points), \A m \in Filter!Points(p) : m < n,
             NEW j \in DOMAIN r.points, NEW k \in DOMAIN r.points, j < k
      PROVE  r.points[j] < r.points[k]
  <2>1. j \in DOMAIN p.points
    BY <1>3, <1>5
  <2>2. CASE k \in DOMAIN p.points
    BY <1>3, <1>5, <2>1, <2>2 DEF Filter!Increasing
  <2>3. CASE k = Len(p.points) + 1
    BY <1>3, <1>5, <2>1, <2>3 DEF Filter!Points
  <2> QED
    BY <1>3, <2>2, <2>3
<1> QED
  BY <1>2, <1>4, <1>5 DEF Filter!Increasing, r

\* One point more is looked at.
LEMMA LookMore ==
  ASSUME FilterTypeOK, i < Len(cloud), i' = i + 1, cloud' = cloud
  PROVE  /\ i + 1 \in 1..Len(cloud) /\ cloud[i + 1] \in Int
         /\ Filter!InBand(cloud[i + 1]) => Looked' = Looked \cup {i + 1}
         /\ ~Filter!InBand(cloud[i + 1]) => Looked' = Looked
         /\ \A n \in Looked : n < i + 1 /\ n \in Int
<1>1. i \in Nat /\ i' \in 0..Len(cloud) /\ Len(cloud) \in Nat
  BY DEF FilterTypeOK
<1>2. Looked' = {n \in 1..(i + 1) : Filter!InBand(cloud[n])}
  BY DEF Looked, Filter!InBand, Filter!int16
<1>3. 1..(i + 1) = (1..i) \cup {i + 1}
  BY <1>1
<1>4. \A n \in Looked : n < i + 1 /\ n \in Int
  BY <1>1 DEF Looked
<1>5. i + 1 \in 1..Len(cloud) /\ cloud[i + 1] \in Int
  BY <1>1 DEF FilterTypeOK
<1> QED
  BY <1>2, <1>3, <1>4, <1>5 DEF Looked

\* A packet is sent: the buffer becomes the last packet, with its number.
LEMMA PacketSent ==
  ASSUME FilterInv, callback = "loop", sent' = Append(sent, packet), seq_id' = Filter!nextSeq
  PROVE  /\ sent' \in Seq(FilteredPacket) /\ seq_id' \in 0 .. SeqRange - 1
         /\ SentInOrder'
         /\ SentPoints' = SentPoints \cup Filter!Points(packet)
<1>1. /\ sent \in Seq(FilteredPacket) /\ packet \in FilteredPacket
      /\ SeqRange \in Nat /\ SeqRange > 0 /\ seq_id \in 0 .. SeqRange - 1
  BY LivoxAssumption DEF FilterInv, FilterTypeOK
<1>2. /\ sent' \in Seq(FilteredPacket)
      /\ Len(sent) \in Nat /\ Len(sent') = Len(sent) + 1
      /\ DOMAIN sent' = DOMAIN sent \cup {Len(sent) + 1}
      /\ \A k \in DOMAIN sent : /\ sent'[k] = sent[k] /\ sent[k] \in FilteredPacket
                                /\ k \in Nat /\ k <= Len(sent)
      /\ sent'[Len(sent) + 1] = packet
  BY <1>1, AppendFacts
<1>3. seq_id' = (seq_id + 1) % SeqRange /\ seq_id' \in 0 .. SeqRange - 1
  BY <1>1, DivMod DEF Filter!nextSeq
<1>4. SentPoints' = SentPoints \cup Filter!Points(packet)
  <2>1. SentPoints' = UNION {Filter!Points(sent'[k]) : k \in DOMAIN sent'}
    BY DEF SentPoints, Filter!Points
  <2>2. ASSUME NEW n \in SentPoints' PROVE n \in SentPoints \cup Filter!Points(packet)
    <3>1. PICK k \in DOMAIN sent' : n \in Filter!Points(sent'[k])
      BY <2>1, <2>2
    <3> QED
      BY <1>2, <3>1 DEF SentPoints
  <2>3. ASSUME NEW n \in SentPoints PROVE n \in SentPoints'
    <3>1. PICK k \in DOMAIN sent : n \in Filter!Points(sent[k])
      BY <2>3 DEF SentPoints
    <3>2. k \in DOMAIN sent' /\ sent'[k] = sent[k]
      BY <1>2
    <3> QED
      BY <2>1, <3>1, <3>2
  <2>4. ASSUME NEW n \in Filter!Points(packet) PROVE n \in SentPoints'
    BY <1>2, <2>1, <2>4
  <2> QED
    BY <2>2, <2>3, <2>4
<1>5. \A k \in DOMAIN sent' : Filter!Increasing(sent'[k].points)
  BY <1>2 DEF FilterInv, SentInOrder, Buffered
<1>6. ASSUME NEW k \in DOMAIN sent', NEW l \in DOMAIN sent', k < l,
             NEW m \in Filter!Points(sent'[k]), NEW n \in Filter!Points(sent'[l])
      PROVE  m < n
  <2>1. k \in DOMAIN sent /\ sent'[k] = sent[k]
    BY <1>2, <1>6
  <2>2. CASE l \in DOMAIN sent
    BY <1>2, <1>6, <2>1, <2>2 DEF FilterInv, SentInOrder
  <2>3. CASE l = Len(sent) + 1
    <3>1. m \in SentPoints
      BY <2>1, <1>6 DEF SentPoints
    <3> QED
      BY <1>2, <1>6, <2>3, <3>1 DEF FilterInv, Buffered
  <2> QED
    BY <1>2, <2>2, <2>3
<1>7. ASSUME NEW k \in DOMAIN sent'
      PROVE  (sent'[k].seq + Len(sent') - k + 1) % SeqRange = seq_id'
  <2>1. CASE k \in DOMAIN sent
    <3> DEFINE a == sent[k].seq + Len(sent) - k + 1
    <3>1. a \in Int /\ a % SeqRange = seq_id
      BY <1>2, <2>1 DEF FilterInv, SentInOrder, FilteredPacket
    <3>2. sent'[k].seq + Len(sent') - k + 1 = a + 1
      BY <1>2, <2>1 DEF FilteredPacket
    <3> HIDE DEF a
    <3>3. ((a % SeqRange) + 1) % SeqRange = (a + 1) % SeqRange
      BY <1>1, <3>1, ModOfMod
    <3> QED
      BY <1>3, <3>1, <3>2, <3>3
  <2>2. CASE k = Len(sent) + 1
    <3>1. sent'[k].seq = seq_id
      BY <1>2, <2>2 DEF FilterInv, Buffered
    <3>2. sent'[k].seq + Len(sent') - k + 1 = seq_id + 1
      BY <1>1, <1>2, <2>2, <3>1
    <3> QED
      BY <1>3, <3>2
  <2> QED
    BY <1>2, <2>1, <2>2
<1>8. SentInOrder'
  <2>1. SentInOrder' =
          /\ \A k \in DOMAIN sent' : Filter!Increasing(sent'[k].points)
          /\ \A k, l \in DOMAIN sent' :
               k < l => \A m \in Filter!Points(sent'[k]), n \in Filter!Points(sent'[l]) : m < n
          /\ \A k \in DOMAIN sent' : (sent'[k].seq + Len(sent') - k + 1) % SeqRange = seq_id'
    BY DEF SentInOrder, Filter!Increasing, Filter!Points
  <2> QED
    BY <1>5, <1>6, <1>7, <2>1
<1> QED
  BY <1>2, <1>3, <1>4, <1>8

\* A cloud arrives: nothing is looked at, and the buffer is empty.
LEMMA FilterCallback ==
  ASSUME FilterInv, NEW n \in 0..MaxPoints, NEW points \in [1..n -> Heights],
         Filter!PointCloudCallback(points)
  PROVE  FilterInv'
<1>1. points \in Seq(Int) /\ Len(points) \in Nat
  <2>1. n \in Nat /\ Heights \subseteq Int
    BY LivoxAssumption
  <2>2. points \in [1..n -> Int]
    BY <2>1, Zenon
  <2>3. points \in Seq(Int)
    BY <2>1, <2>2
  <2> QED
    BY <2>3
<1>2. FilterTypeOK'
  BY <1>1, LivoxAssumption
     DEF FilterInv, FilterTypeOK, Filter!PointCloudCallback, Filter!Empty, FilteredPacket
<1>3. Buffered'
  <2>1. SentPoints' = {} /\ Looked' = {}
    BY DEF Filter!PointCloudCallback, SentPoints, Looked
  <2>2. packet'.points = << >> /\ packet'.seq = seq_id' /\ offset' = HeaderSize
    BY DEF Filter!PointCloudCallback, Filter!Empty
  <2>3. Filter!Points(packet') = {} /\ Filter!Increasing(packet'.points)
    BY <2>2 DEF Filter!Points, Filter!Increasing
  <2> QED
    BY <2>1, <2>2, <2>3, LivoxAssumption DEF Buffered, Filter!Points, Filter!Increasing
<1>4. SentInOrder' /\ AllSent'
  BY DEF Filter!PointCloudCallback, SentInOrder, AllSent
<1> QED
  BY <1>2, <1>3, <1>4 DEF FilterInv

\* A point out of the band leaves everything as it is.
LEMMA FilterSkip ==
  ASSUME FilterInv, Filter!Skip
  PROVE  FilterInv'
<1>1. FilterTypeOK'
  BY DEF FilterInv, FilterTypeOK, Filter!Skip
<1>2. Looked' = Looked
  BY LookMore DEF FilterInv, Filter!Skip
<1>3. SentPoints' = SentPoints
  BY DEF SentPoints, Filter!Points, Filter!Skip
<1> QED
  BY <1>1, <1>2, <1>3
     DEF FilterInv, Buffered, SentInOrder, AllSent, Filter!Skip, Filter!Points, Filter!Increasing

\* A point that fits is added to the buffer.
LEMMA FilterPack ==
  ASSUME FilterInv, Filter!Pack
  PROVE  FilterInv'
<1>1. /\ i + 1 \in Int /\ packet \in FilteredPacket
      /\ Looked' = Looked \cup {i + 1}
      /\ \A n \in Looked : n < i + 1
  BY LookMore DEF FilterInv, FilterTypeOK, Filter!Pack
<1>2. SentPoints' = SentPoints
  BY DEF SentPoints, Filter!Points, Filter!Pack
<1>3. /\ SentPoints \cup Filter!Points(packet) = Looked
      /\ Filter!Increasing(packet.points)
      /\ \A m \in SentPoints, n \in Filter!Points(packet) : m < n
      /\ packet.seq = seq_id
  BY DEF FilterInv, Buffered, Filter!Pack
<1>4. /\ packet' \in FilteredPacket /\ packet'.seq = packet.seq
      /\ Filter!Points(packet') = Filter!Points(packet) \cup {i + 1}
      /\ Filter!Increasing(packet'.points)
  BY <1>1, <1>3, PointMore DEF Filter!Pack
<1>5. FilterTypeOK'
  <2>1. i' \in 0 .. Len(cloud')
    BY DEF FilterInv, FilterTypeOK, Filter!Pack
  <2>2. offset' \in Int
    BY LivoxAssumption DEF FilterInv, FilterTypeOK, Filter!Pack
  <2> QED
    BY <1>4, <2>1, <2>2 DEF FilterInv, FilterTypeOK, Filter!Pack
<1>6. /\ SentPoints' \cup Filter!Points(packet') = Looked'
      /\ \A m \in SentPoints', n \in Filter!Points(packet') : m < n
  BY <1>1, <1>2, <1>3, <1>4
<1>7. offset' > HeaderSize /\ packet'.seq = seq_id'
  <2>1. offset \in Int /\ offset >= HeaderSize /\ offset' = offset + PointSize /\ seq_id' = seq_id
    BY DEF FilterInv, FilterTypeOK, Buffered, Filter!Pack
  <2> QED
    BY <1>3, <1>4, <2>1, LivoxAssumption
<1>8. Buffered'
  <2>1. Buffered' <=> (callback' = "loop" =>
          /\ SentPoints' \cup Filter!Points(packet') = Looked'
          /\ Filter!Increasing(packet'.points)
          /\ \A m \in SentPoints', n \in Filter!Points(packet') : m < n
          /\ packet'.seq = seq_id'
          /\ offset' >= HeaderSize
          /\ offset' = HeaderSize => packet'.points = << >>)
    BY DEF Buffered, Filter!Points, Filter!Increasing
  <2> QED
    BY <1>4, <1>5, <1>6, <1>7, <2>1, LivoxAssumption DEF FilterTypeOK
<1>9. SentInOrder' /\ AllSent'
  BY DEF FilterInv, SentInOrder, AllSent, Filter!Pack, Filter!Points, Filter!Increasing
<1> QED
  BY <1>5, <1>8, <1>9 DEF FilterInv

\* A point that does not fit sends the buffer, and is the first of the next.
LEMMA FilterSendAndPack ==
  ASSUME FilterInv, Filter!SendAndPack
  PROVE  FilterInv'
<1>1. /\ i + 1 \in Int
      /\ Looked' = Looked \cup {i + 1}
      /\ \A n \in Looked : n < i + 1
  BY LookMore DEF FilterInv, FilterTypeOK, Filter!SendAndPack
<1>2. /\ sent' \in Seq(FilteredPacket) /\ seq_id' \in 0 .. SeqRange - 1
      /\ SentInOrder'
      /\ SentPoints' = SentPoints \cup Filter!Points(packet)
  BY PacketSent DEF Filter!SendAndPack
<1>3. SentPoints' = Looked
  BY <1>2 DEF FilterInv, Buffered, Filter!SendAndPack
<1>4. /\ packet' = [seq |-> seq_id', points |-> << i + 1 >>]
      /\ offset' = HeaderSize + PointSize
  BY DEF Filter!SendAndPack
<1>5. /\ packet' \in FilteredPacket /\ packet'.seq = seq_id' /\ packet'.points = << i + 1 >>
  BY <1>1, <1>2, <1>4 DEF FilteredPacket
<1>6. Filter!Points(packet') = {i + 1} /\ Filter!Increasing(packet'.points)
  <2>1. DOMAIN packet'.points = {1} /\ packet'.points[1] = i + 1
    BY <1>5
  <2> QED
    BY <2>1 DEF Filter!Points, Filter!Increasing
<1>7. FilterTypeOK'
  BY <1>2, <1>4, <1>5, LivoxAssumption DEF FilterInv, FilterTypeOK, Filter!SendAndPack
<1>8. Buffered'
  <2>1. Buffered' <=> (callback' = "loop" =>
          /\ SentPoints' \cup Filter!Points(packet') = Looked'
          /\ Filter!Increasing(packet'.points)
          /\ \A m \in SentPoints', n \in Filter!Points(packet') : m < n
          /\ packet'.seq = seq_id'
          /\ offset' >= HeaderSize
          /\ offset' = HeaderSize => packet'.points = << >>)
    BY DEF Buffered, Filter!Points, Filter!Increasing
  <2>2. offset' > HeaderSize /\ offset' \in Int
    BY <1>4, LivoxAssumption
  <2> QED
    BY <1>1, <1>3, <1>5, <1>6, <2>1, <2>2, LivoxAssumption
<1>9. AllSent'
  BY DEF AllSent, Filter!SendAndPack
<1> QED
  BY <1>2, <1>7, <1>8, <1>9 DEF FilterInv

\* At the end of the cloud the buffer is sent, unless it holds no point.
LEMMA FilterFlush ==
  ASSUME FilterInv, Filter!Flush
  PROVE  FilterInv'
<1>1. Looked = Filter!Wanted'
  <2>1. DOMAIN cloud = 1..i /\ \A n \in 1..i : cloud[n] \in Int
    BY DEF FilterInv, FilterTypeOK, Filter!Flush
  <2>2. Filter!Wanted' =
          {n \in 1..i : \E z \in 1 - Band .. Band - 1 : (cloud[n] - z) % CastRange = 0}
    BY <2>1 DEF Filter!Wanted, Filter!Flush
  <2> QED
    BY <2>1, <2>2, CutHeight DEF Looked
<1>2. CASE offset > HeaderSize
  <2>1. /\ sent' \in Seq(FilteredPacket) /\ seq_id' \in 0 .. SeqRange - 1
        /\ SentInOrder'
        /\ SentPoints' = SentPoints \cup Filter!Points(packet)
    BY <1>2, PacketSent DEF Filter!Flush
  <2>2. SentPoints' = Looked
    BY <2>1 DEF FilterInv, Buffered, Filter!Flush
  <2>3. FilterTypeOK'
    BY <2>1 DEF FilterInv, FilterTypeOK, Filter!Flush
  <2> QED
    BY <1>1, <2>1, <2>2, <2>3 DEF FilterInv, Buffered, AllSent, Filter!Flush
<1>3. CASE ~(offset > HeaderSize)
  <2>1. UNCHANGED <<sent, seq_id>>
    BY <1>3 DEF Filter!Flush
  <2>2. Filter!Points(packet) = {}
    BY <1>3, LivoxAssumption DEF FilterInv, FilterTypeOK, Buffered, Filter!Flush, Filter!Points
  <2>3. SentPoints' = Looked
    BY <2>1, <2>2 DEF FilterInv, Buffered, Filter!Flush, SentPoints, Filter!Points
  <2>4. FilterTypeOK' /\ SentInOrder'
    BY <2>1 DEF FilterInv, FilterTypeOK, SentInOrder, Filter!Flush, Filter!Points,
                Filter!Increasing
  <2> QED
    BY <1>1, <2>3, <2>4 DEF FilterInv, Buffered, AllSent, Filter!Flush
<1> QED
  BY <1>2, <1>3

\* The filtering service keeps its invariant, whichever service runs.
LEMMA FilterInvariance == LivoxSpec => []FilterInv
<1>1. LivoxInit => FilterInv
  BY FilterInitInv DEF LivoxInit
<1>2. FilterInv /\ UNCHANGED filterVars => FilterInv'
  <2> SUFFICES ASSUME FilterInv, UNCHANGED filterVars PROVE FilterInv'
    OBVIOUS
  <2>1. SentPoints' = SentPoints /\ Looked' = Looked /\ Filter!Wanted' = Filter!Wanted
    BY DEF filterVars, SentPoints, Looked, Filter!Wanted, Filter!Points, Filter!InBand,
           Filter!int16
  <2> QED
    BY <2>1 DEF filterVars, FilterInv, FilterTypeOK, Buffered, SentInOrder, AllSent,
                Filter!Points, Filter!Increasing
<1>3. FilterInv /\ Filter!Next => FilterInv'
  BY FilterCallback, FilterSkip, FilterPack, FilterSendAndPack, FilterFlush DEF Filter!Next
<1>4. FilterInv /\ [LivoxNext]_allVars => FilterInv'
  BY <1>2, <1>3 DEF LivoxNext, allVars
<1> QED
  BY <1>1, <1>4, PTL DEF LivoxSpec

\* After every call the packets hold exactly the points of the band, each once
\* and in order, and their numbers have no gap, for every cloud, every size of
\* the packets and every range of the cast and of the numbers.
THEOREM BandIsSent == LivoxSpec => []BandInNumberedOrder
<1>1. FilterInv => BandInNumberedOrder
  BY DEF FilterInv, AllSent, SentInOrder, SentPoints, BandInNumberedOrder,
         Filter!BandInNumberedOrder
<1> QED
  BY FilterInvariance, <1>1, PTL

-----------------------------------------------------------------------------
(* CallbackStats: the counter and the time of the last log.  The rate of   *)
(* the logs needs one fact more about the threads: one that is about to    *)
(* exchange the time found its own a period after the last.                *)

\* Only a thread that found the last log old enough tries to log.
FoundOld ==
  \A t \in Threads : thread[t] = "exchange" => log_now[t] - last_log[t] >= LogPeriod

StatsInv == TypeOK /\ FoundOld /\ NoCallLost /\ OneLogPerPeriod

USE PeriodAssumption, BoundAssumption

\* Nothing is counted or logged at first.
LEMMA StatsInitInv ==
  ASSUME Init
  PROVE  StatsInv
  <1>1. TypeOK /\ FoundOld /\ NoCallLost
    BY DEF Init, TypeOK, FoundOld, NoCallLost
  <1>2. OneLogPerPeriod
    BY DEF Init, OneLogPerPeriod
  <1> QED
    BY <1>1, <1>2 DEF StatsInv

\* The thread whose compare_exchange succeeds moves the time by a period.
LEMMA CompareExchangeInvariant ==
  ASSUME StatsInv, NEW t \in Threads, CompareExchange(t)
  PROVE  StatsInv' /\ last_log_time' >= last_log_time + LogPeriod
  <1>1. last_log_time' >= last_log_time + LogPeriod
    BY DEF StatsInv, TypeOK, FoundOld, CompareExchange
  <1>2. TypeOK' /\ FoundOld' /\ NoCallLost'
    BY DEF StatsInv, TypeOK, FoundOld, NoCallLost, CompareExchange
  <1>3. OneLogPerPeriod'
    <2>1. logs' * LogPeriod = logs * LogPeriod + LogPeriod
      BY DEF StatsInv, TypeOK, CompareExchange
    <2>2. logs * LogPeriod \in Nat /\ last_log_time \in Nat /\ last_log_time' \in Nat
      BY <1>2 DEF StatsInv, TypeOK
    <2> QED
      BY <1>1, <2>1, <2>2 DEF StatsInv, OneLogPerPeriod
  <1> QED
    BY <1>1, <1>2, <1>3 DEF StatsInv

\* The other steps of a thread leave the time of the last log alone.
LEMMA OtherInvariant ==
  ASSUME StatsInv, NEW t \in Threads,
         Count(t) \/ ReadClock(t) \/ LoadLast(t) \/ CompareExchangeFails(t) \/ ExchangeCount(t)
  PROVE  StatsInv' /\ last_log_time' = last_log_time
  <1>1. UNCHANGED <<last_log_time, logs>>
    BY DEF Count, ReadClock, LoadLast, CompareExchangeFails, ExchangeCount
  <1>2. TypeOK'
    BY DEF StatsInv, TypeOK, Count, ReadClock, LoadLast, CompareExchangeFails, ExchangeCount
  <1>3. NoCallLost'
    BY DEF StatsInv, TypeOK, NoCallLost, Count, ReadClock, LoadLast, CompareExchangeFails,
       ExchangeCount
  <1>4. FoundOld'
    <2>1. CASE LoadLast(t)
      BY <2>1 DEF StatsInv, TypeOK, FoundOld, LoadLast
    <2>2. CASE Count(t) \/ ReadClock(t) \/ CompareExchangeFails(t) \/ ExchangeCount(t)
      BY <2>2 DEF StatsInv, TypeOK, FoundOld, Count, ReadClock, CompareExchangeFails, ExchangeCount
    <2> QED
      BY <2>1, <2>2
  <1> QED
    BY <1>1, <1>2, <1>3, <1>4 DEF StatsInv, OneLogPerPeriod

\* The clock, or nothing, moves.
LEMMA QuietInvariant ==
  ASSUME StatsInv, Tick \/ UNCHANGED vars
  PROVE  StatsInv' /\ last_log_time' = last_log_time
  <1>1. TypeOK' /\ FoundOld' /\ NoCallLost'
    BY DEF StatsInv, TypeOK, FoundOld, NoCallLost, Tick, vars
  <1> QED
    BY <1>1 DEF StatsInv, OneLogPerPeriod, Tick, vars

\* Every step keeps the invariant, and moves the time of the last log by a
\* period if at all.
LEMMA StatsStepInv ==
  ASSUME StatsInv, [Next]_vars
  PROVE  /\ StatsInv'
         /\ last_log_time' # last_log_time => last_log_time' >= last_log_time + LogPeriod
  BY CompareExchangeInvariant, OtherInvariant, QuietInvariant DEF Next, Done

\* The statistics keep their invariant, whichever service runs.
LEMMA StatsInvariance == LivoxSpec => []StatsInv
  <1>1. LivoxInit => StatsInv
    BY StatsInitInv DEF LivoxInit
  <1>2. StatsInv /\ [LivoxNext]_allVars => StatsInv'
    BY StatsStepInv DEF LivoxNext, allVars
  <1> QED
    BY <1>1, <1>2, PTL DEF LivoxSpec

\* With any number of threads, no call is lost and none is logged twice.
THEOREM CallsAreConserved == LivoxSpec => []NoCallLost
  BY StatsInvariance, PTL DEF StatsInv

\* With any number of threads, a period is logged at most once.
THEOREM LogsAreRare == LivoxSpec => []OneLogPerPeriod
  BY StatsInvariance, PTL DEF StatsInv

\* The time of the last log is only moved forward, by a period at least.
THEOREM LogTimeMovesOn == LivoxSpec => LogTimeAdvances
  <1>1. StatsInv /\ [Next]_vars =>
          [last_log_time' # last_log_time => last_log_time' >= last_log_time + LogPeriod]_vars
    BY StatsStepInv
  <1>2. [LivoxNext]_allVars => [Next]_vars
    BY DEF LivoxNext, allVars
  <1> QED
    BY <1>1, <1>2, StatsInvariance, PTL DEF LivoxSpec, LogTimeAdvances

=============================================================================
