---------------------------- MODULE Lidars_proofs ---------------------------
(***************************************************************************)
(* Theorems about the two lidar SDKs, for lidars of every kind, any number *)
(* of packets and any losses.  Hesai: the count of lost packets is exact,  *)
(* and the parsers read inside their packets and tables.  RoboSense: a     *)
(* cloud holds one round, and the clouds come in the order of the rounds.  *)
(***************************************************************************)
EXTENDS HesaiDevice, RsDevice, FiniteSetTheorems, WellFoundedInduction, TLAPS

-----------------------------------------------------------------------------
(* The blocks of a packet.  BlockSplits is a recursive function; what it    *)
(* keeps is shown by the least block at which it would not be kept.         *)

\* A set of numbers has a least one: what stands in for induction here.
LEMMA LeastOf ==
  ASSUME NEW T, T \subseteq Nat, T # {}
  PROVE  \E x \in T : \A y \in T : x <= y
<1> DEFINE R == OpToRel(<, Nat)
<1>1. IsWellFoundedOn(R, Nat)
  BY NatLessThanWellFounded
<1>2. \A x, y \in Nat : <<x, y>> \in R <=> x < y
  BY DEF OpToRel
<1> HIDE DEF R
<1>3. PICK x \in T : \A y \in T : ~ (<<y, x>> \in R)
  BY <1>1, WFMin
<1>4. ASSUME NEW y \in T
      PROVE  x <= y
  <2>1. x \in Nat /\ y \in Nat
    OBVIOUS
  <2>2. ~(y < x)
    BY <1>2, <1>3, <2>1
  <2> QED
    BY <2>1, <2>2
<1> QED
  BY <1>4

\* Induction up to a bound, on the set of the places where it holds.
LEMMA UpTo ==
  ASSUME NEW n \in Nat, NEW T, 0 \in T, \A i \in 1 .. n : i - 1 \in T => i \in T
  PROVE  0 .. n \subseteq T
<1> SUFFICES ASSUME NEW j \in 0 .. n, j \notin T
             PROVE  FALSE
  OBVIOUS
<1> DEFINE B == {i \in 0 .. n : i \notin T}
<1>0. B \subseteq Nat /\ B # {}
  OBVIOUS
<1> HIDE DEF B
<1>1. PICK i \in B : \A k \in B : i <= k
  BY <1>0, LeastOf
<1> USE DEF B
<1>2. i \in 1 .. n /\ i - 1 \in 0 .. n /\ ~(i <= i - 1)
  BY <1>1
<1>3. i - 1 \in T
  BY <1>1, <1>2
<1> QED
  BY <1>1, <1>2, <1>3

NextBlock(r, a) == [split |-> r.split \/ BlockSplit(r.p, a).split, p |-> BlockSplit(r.p, a).p]

Folded(f, p, az, n) ==
  f = [i \in 0 .. n |-> IF i = 0 THEN [split |-> FALSE, p |-> p] ELSE NextBlock(f[i - 1], az[i])]

\* The blocks of a packet one by one: such a function on 0 .. m goes on to m + 1,
LEMMA FoldGrows ==
  ASSUME NEW p, NEW az, NEW m \in Nat, NEW f, Folded(f, p, az, m)
  PROVE  \E g : Folded(g, p, az, m + 1)
<1> DEFINE g == [j \in 0 .. m + 1 |-> IF j = m + 1 THEN NextBlock(f[m], az[m + 1]) ELSE f[j]]
<1>1. \A j \in 0 .. m : f[j] = IF j = 0 THEN [split |-> FALSE, p |-> p] ELSE NextBlock(f[j - 1], az[j])
  BY DEF Folded
<1>2. ASSUME NEW j \in 0 .. m + 1
      PROVE  g[j] = IF j = 0 THEN [split |-> FALSE, p |-> p] ELSE NextBlock(g[j - 1], az[j])
  <2>1. CASE j = 0
    <3>1. 0 \in 0 .. m /\ 0 \in 0 .. m + 1 /\ 0 # m + 1
      OBVIOUS
    <3> QED
      BY <1>1, <2>1, <3>1
  <2>2. CASE j = m + 1
    <3>1. j - 1 = m /\ m \in 0 .. m + 1 /\ m # m + 1 /\ j # 0
      BY <2>2
    <3>2. g[j - 1] = f[m] /\ g[j] = NextBlock(f[m], az[m + 1])
      BY <2>2, <3>1
    <3> QED
      BY <2>2, <3>1, <3>2
  <2>3. CASE j \in 1 .. m
    <3>1. j - 1 \in 0 .. m /\ j # m + 1 /\ j - 1 # m + 1
      BY <2>3
    <3> QED
      BY <1>1, <2>3, <3>1
  <2> QED
    BY <2>1, <2>2, <2>3
<1>3. g = [j \in 0 .. m + 1 |-> g[j]]
  OBVIOUS
<1> HIDE DEF g
<1> QED
  BY <1>2, <1>3 DEF Folded

\* so there is one for any number of blocks,
LEMMA FoldExists ==
  ASSUME NEW p, NEW az, NEW n \in Nat
  PROVE  \E f : Folded(f, p, az, n)
<1> DEFINE T == {i \in 0 .. n : \E f : Folded(f, p, az, i)}
<1>1. 0 \in T
  <2> DEFINE f == [i \in 0 .. 0 |-> [split |-> FALSE, p |-> p]]
  <2>1. Folded(f, p, az, 0)
    BY DEF Folded
  <2> QED
    BY <2>1
<1>2. ASSUME NEW i \in 1 .. n, i - 1 \in T
      PROVE  i \in T
  <2>1. PICK f : Folded(f, p, az, i - 1)
    BY <1>2
  <2> QED
    BY <2>1, FoldGrows
<1> HIDE DEF T
<1>3. n \in T
  BY <1>1, <1>2, UpTo
<1> QED
  BY <1>3 DEF T

\* and the one that BlockSplits chooses is such a function.
LEMMA FoldOfBlocks ==
  ASSUME NEW p, NEW az, Len(az) \in Nat
  PROVE  \E f : Folded(f, p, az, Len(az)) /\ BlockSplits(p, az) = f[Len(az)]
<1> DEFINE g == CHOOSE f : Folded(f, p, az, Len(az))
<1>1. Folded(g, p, az, Len(az))
  BY FoldExists
<1>2. BlockSplits(p, az) = g[Len(az)]
  BY DEF BlockSplits, Folded, NextBlock
<1> QED
  BY <1>1, <1>2

SameBut(q, p, S) == DOMAIN q = DOMAIN p /\ \A f \in DOMAIN p \ S : q[f] = p[f]

-----------------------------------------------------------------------------
(* What decoding leaves alone.                                             *)

Angles == {"last_azimuth_", "use_frame_start_azimuth_"}

\* A block changes the last angle, and for the AT128 the angle that begins the frame;
LEMMA BlockKeeps ==
  ASSUME NEW p, NEW a
  PROVE  SameBut(BlockSplit(p, a).p, p, Angles)
BY DEF SameBut, BlockSplit, Angles

\* so do all blocks of a packet.
LEMMA BlocksKeep ==
  ASSUME NEW p, NEW az, Len(az) \in Nat
  PROVE  SameBut(BlockSplits(p, az).p, p, Angles)
<1>1. PICK f : Folded(f, p, az, Len(az)) /\ BlockSplits(p, az) = f[Len(az)]
  BY FoldOfBlocks
<1> DEFINE T == {i \in 0 .. Len(az) : SameBut(f[i].p, p, Angles)}
<1>2. 0 \in T
  BY <1>1 DEF Folded, SameBut
<1>3. ASSUME NEW i \in 1 .. Len(az), i - 1 \in T
      PROVE  i \in T
  <2>1. f[i].p = BlockSplit(f[i - 1].p, az[i]).p
    BY <1>1 DEF Folded, NextBlock
  <2>2. SameBut(f[i].p, f[i - 1].p, Angles)
    BY <2>1, BlockKeeps
  <2> QED
    BY <1>3, <2>2 DEF SameBut
<1> HIDE DEF T
<1>4. 0 .. Len(az) \subseteq T
  BY <1>2, <1>3, UpTo
<1>5. Len(az) \in T
  BY <1>4
<1> QED
  BY <1>1, <1>5 DEF T

\* A parser's members.
Members == {"kind", "dead", "last_azimuth_", "last_frameid_", "last_cloumn_id_", "use_angle_",
            "use_frame_start_azimuth_", "frame_start_azimuth_", "get_correction_file_", "lasers", "fields",
            "enable_packet_loss_tool_", "loss", "total_packet_count_"}
State == {"dead", "last_azimuth_", "last_frameid_", "last_cloumn_id_", "use_angle_", "use_frame_start_azimuth_",
          "loss", "total_packet_count_"}

\* Before the first packet a parser has counted nothing.
LEMMA PreparedIsAParser ==
  ASSUME NEW kind, NEW file, NEW start, NEW tool
  PROVE  LET p == Prepared(kind, file, start, tool)
         IN  /\ DOMAIN p = Members /\ p.kind = kind /\ p.enable_packet_loss_tool_ = tool
             /\ p.loss = [start |-> 0, last |-> 0, loss |-> 0, total_loss |-> 0, total_start |-> 0, late |-> FALSE]
             /\ p.total_packet_count_ = 0
<1> DEFINE n == NewParser(kind)
           l == LoadCorrectionFile(n, file)
<1>1. DOMAIN n = Members /\ n.kind = kind /\ n.total_packet_count_ = 0
      /\ n.loss = [start |-> 0, last |-> 0, loss |-> 0, total_loss |-> 0, total_start |-> 0, late |-> FALSE]
  BY DEF NewParser, Members
<1> HIDE DEF n
<1>2. SameBut(l, n, {"get_correction_file_", "lasers", "fields"})
  BY DEF SameBut, LoadCorrectionFile, LoadCorrectionGeneral, LoadCorrection4_3, LoadCorrection2_4, LoadCorrection2_5,
         LoadCorrection7_2
<1> HIDE DEF l
<1>3. Prepared(kind, file, start, tool) = EnablePacketLossTool(SetFrameAzimuth(l, start), tool)
  BY DEF Prepared, l, n
<1>4. DOMAIN l = Members /\ l.kind = n.kind /\ l.loss = n.loss /\ l.total_packet_count_ = n.total_packet_count_
  BY <1>1, <1>2 DEF SameBut, Members
<1> QED
  BY <1>1, <1>3, <1>4 DEF EnablePacketLossTool, SetFrameAzimuth, Members

-----------------------------------------------------------------------------
(* The numbers of 32 bits.                                                 *)

\* Differences and sums of numbers that wrap, and when a number does not wrap.
LEMMA Wraps ==
  ASSUME NEW a \in Int, NEW b \in Int
  PROVE  /\ U32(a) \in Int /\ 0 <= U32(a) /\ U32(a) < 2^30
         /\ U32(U32(a) - U32(b)) = U32(a - b)
         /\ U32(U32(a) + b) = U32(a + b)
         /\ 0 <= a /\ a < 2^30 => U32(a) = a
         /\ -(2^30) <= a /\ a < 0 => U32(a) = a + 2^30
         /\ U32(a) = U32(b) /\ a - b < 2^30 /\ b - a < 2^30 => a = b
<1>1. U32(a) \in Int /\ 0 <= U32(a) /\ U32(a) < 2^30
  BY DEF U32
<1>2. U32(U32(a) - U32(b)) = U32(a - b)
  BY DEF U32
<1>3. U32(U32(a) + b) = U32(a + b)
  BY DEF U32
<1>4. 0 <= a /\ a < 2^30 => U32(a) = a
  BY DEF U32
<1>5. -(2^30) <= a /\ a < 0 => U32(a) = a + 2^30
  BY DEF U32
<1>6. U32(a) = U32(b) /\ a - b < 2^30 /\ b - a < 2^30 => a = b
  BY DEF U32
<1> QED
  BY <1>1, <1>2, <1>3, <1>4, <1>5, <1>6

-----------------------------------------------------------------------------
(* Which datagrams are counted, and what else decoding changes.            *)

\* The parser counts a datagram with such a header, if its delimiter is right.
Counting(p, h) ==
  /\ p.enable_packet_loss_tool_
  /\ p.kind \in {"1_4", "3_1", "3_2", "4_3", "6_1", "7_2"}
  /\ p.kind = "3_2" => h.conf
  /\ p.kind \in {"1_4", "3_2", "4_3"} => h.has_seq

Uncounted == State \ {"loss", "total_packet_count_"}

\* Each of the ten DecodePacket counts the packet, or leaves the count alone.
LEMMA DecodeCounts ==
  ASSUME NEW p, NEW o, NEW pkt, NEW tick, DOMAIN p = Members, Len(pkt.azimuths) \in Nat,
         p.kind \in {"1_4", "2_4", "2_5", "3_1", "3_2", "4_3", "6_1", "7_2", "P40", "P64"},
         pkt.is_timeout => ~Counting(p, pkt.h)
  PROVE  IF Counting(p, pkt.h) /\ Delimited(pkt) THEN DecodePacket(p, o, pkt, tick).p = CountLoss(p, pkt, tick)
         ELSE SameBut(DecodePacket(p, o, pkt, tick).p, p, Uncounted)
<1> DEFINE q == DecodePacket(p, o, pkt, tick).p
<1>1. SameBut(p, p, Uncounted)
  BY DEF SameBut
<1>2. ASSUME NEW r, DOMAIN r = Members, SameBut(r, p, Uncounted)
      PROVE  \A lasers : SameBut(DecodeBlocks(r, pkt, lasers).p, p, Uncounted)
  <2>1. SameBut(BlockSplits(r, pkt.azimuths).p, r, Angles)
    BY BlocksKeep
  <2>2. SameBut(BlockSplits(r, pkt.azimuths).p, p, Uncounted)
    BY <1>2, <2>1 DEF SameBut, Angles, Uncounted, State
  <2> QED
    BY <2>2 DEF DecodeBlocks, Same
<1>3. ASSUME NEW x
      PROVE  LET r == [p EXCEPT !.dead = x] IN DOMAIN r = Members /\ SameBut(r, p, Uncounted)
  BY DEF SameBut, Uncounted, State
<1> USE DEF Same
<1>4. CASE p.kind = "1_4"
  <2>1. q = Decode1_4(p, o, pkt, tick).p
    BY <1>4 DEF DecodePacket
  <2> QED
    BY <1>1, <1>2, <1>4, <2>1 DEF Decode1_4, Counting
<1>5. CASE p.kind = "2_4"
  <2>1. q = Decode2_4(p, o, pkt).p
    BY <1>5 DEF DecodePacket
  <2> QED
    BY <1>1, <1>5, <2>1 DEF Decode2_4, Counting, SameBut, Uncounted, State
<1>6. CASE p.kind = "2_5"
  <2>1. q = Decode2_5(p, o, pkt).p
    BY <1>6 DEF DecodePacket
  <2> QED
    BY <1>1, <1>6, <2>1 DEF Decode2_5, Counting, SameBut, Uncounted, State
<1>7. CASE p.kind = "3_1"
  <2>1. q = Decode3_1(p, o, pkt, tick).p
    BY <1>7 DEF DecodePacket
  <2> QED
    BY <1>1, <1>2, <1>3, <1>7, <2>1 DEF Decode3_1, Counting
<1>8. CASE p.kind = "3_2"
  <2>1. q = Decode3_2(p, o, pkt, tick).p
    BY <1>8 DEF DecodePacket
  <2>2. CASE ~Delimited(pkt)
    BY <1>1, <2>1, <2>2 DEF Decode3_2
  <2>3. CASE Delimited(pkt) /\ ~pkt.h.conf
    <3>1. q = [p EXCEPT !.dead = TRUE]
      BY <2>1, <2>3 DEF Decode3_2
    <3> QED
      BY <1>3, <1>8, <2>3, <3>1 DEF Counting
  <2>4. CASE Delimited(pkt) /\ pkt.h.conf /\ p.enable_packet_loss_tool_
    <3>1. q = IF pkt.h.has_seq THEN CountLoss(p, pkt, tick) ELSE p
      BY <2>1, <2>4 DEF Decode3_2
    <3> QED
      BY <1>1, <1>8, <2>4, <3>1 DEF Counting
  <2>5. CASE Delimited(pkt) /\ pkt.h.conf /\ ~p.enable_packet_loss_tool_
    <3>1. q = DecodeBlocks([p EXCEPT !.dead = p.lasers < pkt.h.laser_num], pkt, pkt.h.laser_num).p
      BY <2>1, <2>5 DEF Decode3_2
    <3> QED
      BY <1>2, <1>3, <1>8, <2>5, <3>1 DEF Counting
  <2> QED
    BY <2>2, <2>3, <2>4, <2>5
<1>9. CASE p.kind = "4_3"
  <2>1. q = Decode4_3(p, o, pkt, tick).p
    BY <1>9 DEF DecodePacket
  <2>2. SameBut([p EXCEPT !.use_angle_ = FALSE], p, Uncounted)
    BY DEF SameBut, Uncounted, State
  <2> QED
    BY <1>1, <1>2, <1>9, <2>1, <2>2 DEF Decode4_3, Counting
<1>10. CASE p.kind = "6_1"
  <2>1. q = Decode6_1(p, o, pkt, tick).p
    BY <1>10 DEF DecodePacket
  <2> QED
    BY <1>1, <1>2, <1>10, <2>1 DEF Decode6_1, Counting
<1>11. CASE p.kind = "7_2"
  <2>1. q = Decode7_2(p, o, pkt, tick).p
    BY <1>11 DEF DecodePacket
  <2> QED
    BY <1>1, <1>11, <2>1 DEF Decode7_2, Counting, SameBut, Uncounted, State
<1>12. CASE p.kind = "P40"
  <2>1. q = DecodeP40(p, o, pkt).p
    BY <1>12 DEF DecodePacket
  <2> QED
    BY <1>1, <1>2, <1>12, <2>1 DEF DecodeP40, Counting
<1>13. CASE p.kind = "P64"
  <2>1. q = DecodeP64(p, o, pkt).p
    BY <1>13 DEF DecodePacket
  <2> QED
    BY <1>1, <1>2, <1>13, <2>1 DEF DecodeP64, Counting
<1>14. \/ p.kind = "1_4" \/ p.kind = "2_4" \/ p.kind = "2_5" \/ p.kind = "3_1" \/ p.kind = "3_2"
       \/ p.kind = "4_3" \/ p.kind = "6_1" \/ p.kind = "7_2" \/ p.kind = "P40" \/ p.kind = "P64"
  OBVIOUS
<1> QED
  BY Zenon, <1>4, <1>5, <1>6, <1>7, <1>8, <1>9, <1>10, <1>11, <1>12, <1>13, <1>14

-----------------------------------------------------------------------------
(* The invariant of the loss count.                                        *)

AllParsers == {"1_4", "2_4", "2_5", "3_1", "3_2", "4_3", "6_1", "7_2", "P40", "P64"}
HsMembers == {"p", "o", "frame", "packet_index", "clean", "published"}
LossMembers == {"start", "last", "loss", "total_loss", "total_start", "late"}

LidarInv ==
  /\ lidar.kind \in AllParsers /\ lidar.base \in 0 .. 2^30 - 1 /\ lidar.first \in {0, 1}
  /\ lidar.start \in {0, 180, 359} /\ lidar.tool \in BOOLEAN
  /\ \E flags \in BOOLEAN : lidar.h = HeaderOf(lidar.kind, flags)

\* The parser is the lidar's, and with the tool it has no corrections.
ParserOf(p) ==
  /\ DOMAIN p = Members /\ p.kind = lidar.kind /\ p.enable_packet_loss_tool_ = lidar.tool
  /\ lidar.tool => p.fields = <<>>

SentInv == datagrams \in Nat /\ datagrams < 2^30 /\ missed \subseteq 0 .. datagrams - 1

After(M, f) == {n \in M : f < n}

\* The count c began with datagram f, and l is the last one counted: what the total says is
\* lost is what was missed since f, but for those newer than l.
CountFrom(c, D, M, f, l) ==
  /\ f \in (0 .. D - 1) \ M /\ l \in (0 .. D - 1) \ M /\ f <= l
  /\ c.total_start = U32(lidar.base + f) /\ c.last = U32(lidar.base + l)
  /\ c.total_loss = U32(Cardinality(After(M, f)) - (D - 1 - l))

\* While no number was smaller than the one before.
Steady(p) ==
  ~p.loss.late =>
    /\ p.loss.start = 0 => p.loss.last = 0 /\ p.loss.total_start = 0 /\ p.total_packet_count_ = 0
    /\ p.loss.start # 0 => /\ p.loss.total_start <= p.loss.last
                           /\ p.total_packet_count_ = p.loss.last - p.loss.total_start

LossType(p) ==
  /\ DOMAIN p.loss = LossMembers
  /\ p.loss.start \in Int /\ p.loss.last \in Int /\ p.loss.total_start \in Int /\ p.loss.late \in BOOLEAN
  /\ p.loss.start # 0 => p.loss.total_start # 0
  /\ 0 <= p.loss.last /\ 0 <= p.loss.total_start /\ p.loss.last < 2^30

LossOf(p, D, M) ==
  /\ LossType(p)
  /\ p.loss.total_start # 0 => Counting(p, lidar.h) /\ \E f, l \in 0 .. D - 1 : CountFrom(p.loss, D, M, f, l)
  /\ Steady(p)

HInv == LidarInv /\ DOMAIN hs = HsMembers /\ ParserOf(hs.p) /\ SentInv /\ LossOf(hs.p, datagrams, missed)

\* What the lidar says in datagram n.
LEMMA DatagramFields ==
  ASSUME NEW n \in Nat, LidarInv
  PROVE  /\ Len(Datagram(n).azimuths) \in Nat /\ Datagram(n).h = lidar.h /\ Datagram(n).seq = U32(lidar.base + n)
         /\ ~Datagram(n).is_timeout
         /\ Datagram(n).delimiter = IF lidar.kind = "P40" THEN <<255, 238>> ELSE <<238, 255>>
<1>1. Len(Datagram(n).azimuths) \in Nat
  <2>1. lidar.h.block_num \in Nat
    BY DEF LidarInv, HeaderOf
  <2> DEFINE blocks == [i \in 1 .. lidar.h.block_num |-> n * lidar.h.block_num + i - 1]
  <2>2. DOMAIN blocks = 1 .. lidar.h.block_num
    OBVIOUS
  <2>3. DOMAIN Datagram(n).azimuths = 1 .. lidar.h.block_num
    BY DEF Datagram
  <2>4. \A S : \A q \in [1 .. lidar.h.block_num -> S] : Len(q) = lidar.h.block_num
    BY <2>1
  <2> QED
    BY <2>1, <2>3, <2>4 DEF Datagram
<1>2. Datagram(n).h = lidar.h
  BY DEF Datagram
<1>3. Datagram(n).seq = U32(lidar.base + n)
  BY DEF Datagram
<1>4. ~Datagram(n).is_timeout
  BY DEF Datagram
<1>5. Datagram(n).delimiter = IF lidar.kind = "P40" THEN <<255, 238>> ELSE <<238, 255>>
  BY DEF Datagram
<1> QED
  BY <1>1, <1>2, <1>3, <1>4, <1>5

\* CalPktLoss with datagram k after datagram l: the total is again what was missed.
LEMMA NextCounted ==
  ASSUME NEW c, NEW tick \in BOOLEAN, NEW D \in Nat, NEW D2 \in Nat, NEW M, NEW M2, NEW f \in Int, NEW l \in Int, NEW k \in Int,
         D < 2^30, D2 < 2^30, lidar.base \in Int, c.start # 0, CountFrom(c, D, M, f, l),
         k \in (0 .. D2 - 1) \ M2, f \in (0 .. D2 - 1) \ M2, f <= k, k # l,
         Cardinality(After(M, f)) \in Int, Cardinality(After(M2, f)) \in Int,
         Cardinality(After(M2, f)) - (D2 - 1 - k) = Cardinality(After(M, f)) - (D - 1 - l) + (k - l - 1)
  PROVE  CountFrom(CalPktLoss(c, U32(lidar.base + k), tick), D2, M2, f, k)
<1> DEFINE step == U32(U32(lidar.base + k) - c.last)
           lost == IF step > 1 THEN step - 1 ELSE 0
           next == CalPktLoss(c, U32(lidar.base + k), tick)
           X == Cardinality(After(M, f)) - (D - 1 - l)
<1>1. next.total_start = c.total_start /\ next.last = U32(lidar.base + k) /\ next.total_loss = U32(c.total_loss + lost)
  BY DEF CalPktLoss
<1>2. step = U32(k - l)
  <2>1. c.last = U32(lidar.base + l)
    BY DEF CountFrom
  <2>2. (lidar.base + k) - (lidar.base + l) = k - l /\ lidar.base + k \in Int /\ lidar.base + l \in Int
    OBVIOUS
  <2>3. ASSUME NEW a \in Int, NEW b \in Int
        PROVE  U32(U32(a) - U32(b)) = U32(a - b)
    BY Wraps
  <2>4. U32(U32(lidar.base + k) - U32(lidar.base + l)) = U32((lidar.base + k) - (lidar.base + l))
    BY <2>2, <2>3
  <2> QED
    BY <2>1, <2>2, <2>4
<1>3. f >= 0 /\ l >= 0 /\ k >= 0 /\ l < D /\ k < D2
  BY DEF CountFrom
<1>4. U32(X + lost) = U32(X + (k - l - 1))
  <2>1. X \in Int
    BY DEF CountFrom
  <2> HIDE DEF X
  <2>2. CASE k > l
    <3>1. step = k - l
      BY <1>2, <1>3, <2>2, Wraps
    <3>2. lost = k - l - 1
      BY <3>1, <2>2
    <3> QED
      BY <3>2
  <2>3. CASE k < l
    <3>1. step = k - l + 2^30
      <4>1. -(2^30) <= k - l /\ k - l < 0 /\ k - l \in Int
        BY <1>3, <2>3
      <4> QED
        BY <1>2, <4>1, Wraps
    <3>2. lost = k - l - 1 + 2^30
      BY <3>1, <2>3, <1>3
    <3> HIDE DEF lost
    <3> QED
      BY <3>2, <2>1 DEF U32
  <2> QED
    BY <2>2, <2>3
<1>5. next.total_loss = U32(Cardinality(After(M2, f)) - (D2 - 1 - k))
  <2>1. c.total_loss = U32(X)
    BY DEF CountFrom
  <2>2. X \in Int /\ lost \in Int
    <3>1. k - l \in Int
      OBVIOUS
    <3>2. step \in Int
      BY <1>2, <3>1, Wraps
    <3> HIDE DEF step
    <3> QED
      BY <3>2
  <2> HIDE DEF X, lost
  <2>3. U32(U32(X) + lost) = U32(X + lost)
    BY <2>2, Wraps
  <2>4. U32(X + lost) = U32(Cardinality(After(M2, f)) - (D2 - 1 - k))
    BY <1>4 DEF X
  <2> QED
    BY <1>1, <2>1, <2>3, <2>4
<1> QED
  BY <1>1, <1>5 DEF CountFrom

\* One number more, while none was smaller than the one before.
LEMMA SteadyOn ==
  ASSUME NEW p, NEW pkt, NEW tick \in BOOLEAN, DOMAIN p = Members, DOMAIN p.loss = LossMembers, Steady(p),
         p.loss.last \in Int, p.loss.total_start \in Int, 0 <= p.loss.total_start, p.loss.last < 2^30,
         p.loss.late \in BOOLEAN, p.loss.start # 0 => p.loss.total_start # 0,
         pkt.seq \in Int, 0 <= pkt.seq, pkt.seq < 2^30, p.loss.start # 0 => pkt.seq # p.loss.last
  PROVE  Steady(CountLoss(p, pkt, tick))
<1> DEFINE q == CountLoss(p, pkt, tick)
<1>1. q.loss = CalPktLoss(p.loss, pkt.seq, tick)
  BY DEF CountLoss, Members
<1>2. q.total_packet_count_ = IF pkt.seq > p.loss.last /\ p.loss.last # 0
                              THEN U32(p.total_packet_count_ + pkt.seq - p.loss.last) ELSE p.total_packet_count_
  BY DEF CountLoss, Members
<1> HIDE DEF q
<1> SUFFICES ASSUME ~q.loss.late
             PROVE  /\ q.loss.start = 0 => q.loss.last = 0 /\ q.loss.total_start = 0 /\ q.total_packet_count_ = 0
                    /\ q.loss.start # 0 => /\ q.loss.total_start <= q.loss.last
                                           /\ q.total_packet_count_ = q.loss.last - q.loss.total_start
  BY DEF Steady, q
<1>3. CASE p.loss.start = 0
  <2>1. q.loss.start = pkt.seq /\ q.loss.last = pkt.seq /\ q.loss.total_start = pkt.seq /\ q.loss.late = p.loss.late
    BY <1>1, <1>3 DEF CalPktLoss
  <2>2. p.total_packet_count_ = 0 /\ p.loss.last = 0
    BY <1>3, <2>1 DEF Steady
  <2> QED
    BY <1>2, <2>1, <2>2
<1>4. CASE p.loss.start # 0
  <2>1. /\ q.loss.start = IF tick THEN pkt.seq ELSE p.loss.start
        /\ q.loss.last = pkt.seq /\ q.loss.total_start = p.loss.total_start
        /\ q.loss.late = (p.loss.late \/ pkt.seq < p.loss.last)
    BY <1>1, <1>4 DEF CalPktLoss
  <2>2. ~p.loss.late /\ pkt.seq > p.loss.last
    <3>1. ~(p.loss.late \/ pkt.seq < p.loss.last)
      BY <2>1, Zenon
    <3> QED
      BY <1>4, <3>1
  <2>3. p.loss.total_start <= p.loss.last /\ p.total_packet_count_ = p.loss.last - p.loss.total_start
        /\ p.loss.total_start # 0
    BY <1>4, <2>2 DEF Steady
  <2>4. p.total_packet_count_ + pkt.seq - p.loss.last = pkt.seq - p.loss.total_start
    BY <2>3
  <2>5. q.total_packet_count_ = U32(pkt.seq - p.loss.total_start)
    BY <1>2, <2>2, <2>3, <2>4
  <2>6. U32(pkt.seq - p.loss.total_start) = pkt.seq - p.loss.total_start
    <3>1. pkt.seq - p.loss.total_start \in Int /\ 0 <= pkt.seq - p.loss.total_start
          /\ pkt.seq - p.loss.total_start < 2^30
      BY <2>2, <2>3
    <3> QED
      BY <3>1, Wraps
  <2> QED
    BY <1>4, <2>1, <2>2, <2>3, <2>5, <2>6
<1> QED
  BY <1>3, <1>4

\* CalPktLoss leaves the members that LossType names.
LEMMA CountedType ==
  ASSUME NEW p, NEW pkt, NEW tick \in BOOLEAN, DOMAIN p = Members, LossType(p), pkt.seq \in Int, 0 <= pkt.seq, pkt.seq < 2^30
  PROVE  LossType(CountLoss(p, pkt, tick))
<1> DEFINE q == CountLoss(p, pkt, tick)
<1>1. q.loss = CalPktLoss(p.loss, pkt.seq, tick)
  BY DEF CountLoss, Members
<1> SUFFICES LossType(q)
  OBVIOUS
<1> HIDE DEF q
<1>2. CASE p.loss.start = 0
  <2>1. q.loss = [start |-> pkt.seq, last |-> pkt.seq, loss |-> 0, total_loss |-> 0, total_start |-> pkt.seq,
                  late |-> p.loss.late]
    BY <1>1, <1>2 DEF CalPktLoss
  <2>2. p.loss.late \in BOOLEAN
    BY DEF LossType
  <2> QED
    BY <2>1, <2>2 DEF LossType, LossMembers
<1>3. CASE p.loss.start # 0
  <2>1. /\ DOMAIN q.loss = LossMembers
        /\ q.loss.start = IF tick THEN pkt.seq ELSE p.loss.start
        /\ q.loss.last = pkt.seq /\ q.loss.total_start = p.loss.total_start
    BY <1>1, <1>3 DEF CalPktLoss, LossMembers
  <2>2. q.loss.late \in BOOLEAN
    BY <1>1, <1>3 DEF CalPktLoss
  <2> QED
    BY <1>3, <2>1, <2>2 DEF LossType
<1> QED
  BY <1>2, <1>3

\* Such a datagram is counted; between D and it, every one is missing.
LEMMA Newer ==
  ASSUME NEW p, NEW D \in Nat, NEW M, NEW k \in Nat, NEW tick \in BOOLEAN, LidarInv, DOMAIN p = Members,
         M \subseteq 0 .. D - 1, D <= k, k + 1 < 2^30, LossOf(p, D, M), Counting(p, lidar.h)
  PROVE  LET q == CountLoss(p, Datagram(k), tick)
             M2 == M \cup (D .. k - 1)
         IN  /\ LossOf(q, k + 1, M2)
             /\ p.loss.start # 0 => \A f, l \in Int : CountFrom(p.loss, D, M, f, l) => CountFrom(q.loss, k + 1, M2, f, k)
<1> DEFINE seq == U32(lidar.base + k)
           q == CountLoss(p, Datagram(k), tick)
           M2 == M \cup (D .. k - 1)
<1>1. lidar.base \in Int /\ Datagram(k).seq = seq /\ lidar.base + k \in Int
  <2>1. lidar.base \in Int
    BY DEF LidarInv
  <2>2. Datagram(k).seq = seq
    BY DatagramFields
  <2> QED
    BY <2>1, <2>2
<1>2. seq \in Int /\ 0 <= seq /\ seq < 2^30
  BY <1>1, Wraps
<1>3. q.loss = CalPktLoss(p.loss, seq, tick) /\ q.kind = p.kind /\ q.enable_packet_loss_tool_ = p.enable_packet_loss_tool_
      /\ DOMAIN q = Members
  BY <1>1 DEF CountLoss, Members
<1> HIDE DEF q, seq
<1>4. ASSUME NEW f \in Int, NEW l \in Int, p.loss.start # 0, CountFrom(p.loss, D, M, f, l)
      PROVE  CountFrom(q.loss, k + 1, M2, f, k)
  <2>1. f < D /\ 0 <= f /\ f \notin M /\ l < D /\ l >= 0
    BY <1>4 DEF CountFrom
  <2>2. Cardinality(After(M, f)) \in Nat /\ Cardinality(After(M2, f)) = Cardinality(After(M, f)) + (k - D)
    <3> DEFINE A == After(M, f)
               B == D .. k - 1
    <3>1. IsFiniteSet(0 .. D - 1) /\ IsFiniteSet(B) /\ Cardinality(B) = k - D
      <4>1. IsFiniteSet(0 .. D - 1) /\ IsFiniteSet(B)
        BY FS_Interval
      <4>2. CASE D = k
        <5>1. B = {}
          BY <4>2
        <5>2. Cardinality(B) = 0
          BY <5>1, FS_EmptySet
        <5> QED
          BY <4>1, <4>2, <5>2
      <4>3. CASE D < k
        <5>1. Cardinality(B) = (k - 1) - D + 1
          BY <4>3, FS_Interval
        <5> QED
          BY <4>1, <5>1
      <4> QED
        BY <4>2, <4>3
    <3>2. A \subseteq 0 .. D - 1
      BY DEF After
    <3>3. IsFiniteSet(A) /\ Cardinality(A) \in Nat
      BY <3>1, <3>2, FS_Subset, FS_CardinalityType
    <3>4. A \cap B = {} /\ After(M2, f) = A \cup B
      BY <2>1, <3>2 DEF After
    <3> HIDE DEF A, B
    <3>5. Cardinality(A \cup B) = Cardinality(A) + (k - D) /\ IsFiniteSet(A \cup B)
      <4>1. Cardinality(A \cap B) = 0
        BY <3>4, FS_EmptySet
      <4>2. Cardinality(A \cup B) = Cardinality(A) + Cardinality(B) - Cardinality(A \cap B) /\ IsFiniteSet(A \cup B)
        BY <3>1, <3>3, FS_Union
      <4> QED
        BY <3>1, <3>3, <4>1, <4>2
    <3> QED
      BY <3>3, <3>4, <3>5 DEF A, B
  <2>3. k \in (0 .. (k + 1) - 1) \ M2 /\ f \in (0 .. (k + 1) - 1) \ M2 /\ f <= k /\ k # l /\ D < 2^30
    BY <2>1
  <2>4. Cardinality(After(M2, f)) - ((k + 1) - 1 - k) = Cardinality(After(M, f)) - (D - 1 - l) + (k - l - 1)
    BY <2>2
  <2>5. Cardinality(After(M, f)) \in Int /\ Cardinality(After(M2, f)) \in Int /\ k + 1 \in Nat
    BY <2>2
  <2> HIDE DEF M2
  <2>6. CountFrom(CalPktLoss(p.loss, U32(lidar.base + k), tick), k + 1, M2, f, k)
    BY <1>1, <1>4, <2>3, <2>4, <2>5, NextCounted
  <2> QED
    BY <1>3, <2>6 DEF seq
<1>5. ASSUME p.loss.start = 0
      PROVE  CountFrom(q.loss, k + 1, M2, k, k)
  <2>1. q.loss.total_start = seq /\ q.loss.last = seq /\ q.loss.total_loss = 0
    BY <1>3, <1>5 DEF CalPktLoss
  <2>2. After(M2, k) = {}
    <3>1. \A n \in M2 : ~(k < n)
      OBVIOUS
    <3> HIDE DEF M2
    <3> QED
      BY <3>1 DEF After
  <2>3. Cardinality(After(M2, k)) - ((k + 1) - 1 - k) = 0
    <3>1. Cardinality(After(M2, k)) = 0
      BY <2>2, FS_EmptySet
    <3> HIDE DEF M2
    <3> QED
      BY <3>1
  <2>4. U32(0) = 0
    BY DEF U32
  <2>5. k \in (0 .. (k + 1) - 1) \ M2
    OBVIOUS
  <2> QED
    BY <2>1, <2>3, <2>4, <2>5 DEF CountFrom, seq
<1>6. Counting(q, lidar.h)
  BY <1>3 DEF Counting
<1>7. \E f, l \in 0 .. (k + 1) - 1 : CountFrom(q.loss, k + 1, M2, f, l)
  <2>1. CASE p.loss.start = 0
    BY <1>5, <2>1
  <2>2. CASE p.loss.start # 0
    <3>1. PICK f, l \in 0 .. D - 1 : CountFrom(p.loss, D, M, f, l)
      BY <2>2 DEF LossOf, LossType
    <3>2. f \in Int /\ l \in Int /\ f \in 0 .. (k + 1) - 1 /\ k \in 0 .. (k + 1) - 1
      OBVIOUS
    <3>3. CountFrom(q.loss, k + 1, M2, f, k)
      BY <1>4, <2>2, <3>1, <3>2
    <3> QED
      BY <3>2, <3>3
  <2> QED
    BY <2>1, <2>2
<1>8. Steady(q)
  <2>1. p.loss.start # 0 => seq # p.loss.last
    <3> SUFFICES ASSUME p.loss.start # 0, seq = p.loss.last
                 PROVE  FALSE
      OBVIOUS
    <3>1. PICK f, l \in 0 .. D - 1 : CountFrom(p.loss, D, M, f, l)
      BY DEF LossOf, LossType
    <3>2. lidar.base + l \in Int /\ (lidar.base + k) - (lidar.base + l) < 2^30 /\ (lidar.base + l) - (lidar.base + k) < 2^30
      BY <1>1
    <3>3. U32(lidar.base + k) = U32(lidar.base + l)
      BY <3>1 DEF CountFrom, seq
    <3>4. lidar.base + k = lidar.base + l
      BY <1>1, <3>2, <3>3, Wraps
    <3> QED
      BY <1>1, <3>4
  <2>2. /\ DOMAIN p.loss = LossMembers /\ Steady(p) /\ p.loss.last \in Int /\ p.loss.total_start \in Int
        /\ 0 <= p.loss.total_start /\ p.loss.last < 2^30 /\ p.loss.late \in BOOLEAN
        /\ p.loss.start # 0 => p.loss.total_start # 0
    BY DEF LossOf, LossType
  <2> QED
    BY <1>1, <1>2, <2>1, <2>2, SteadyOn DEF q
<1>9. LossType(q)
  BY <1>1, <1>2, CountedType DEF LossOf, q
<1>10. LossOf(q, k + 1, M2)
  BY <1>6, <1>7, <1>8, <1>9 DEF LossOf
<1>11. p.loss.start # 0 => \A f, l \in Int : CountFrom(p.loss, D, M, f, l) => CountFrom(q.loss, k + 1, M2, f, k)
  BY <1>4
<1> QED
  BY <1>10, <1>11 DEF q

\* A datagram more that was missed.
LEMMA OneMore ==
  ASSUME NEW D \in Nat, NEW M, M \subseteq 0 .. D - 1, NEW f \in Int, f < D
  PROVE  Cardinality(After(M, f)) \in Nat /\ Cardinality(After(M \cup {D}, f)) = Cardinality(After(M, f)) + 1
<1>1. After(M, f) \subseteq 0 .. D - 1
  BY DEF After
<1>2. IsFiniteSet(After(M, f)) /\ Cardinality(After(M, f)) \in Nat
  <2>1. IsFiniteSet(0 .. D - 1)
    BY FS_Interval
  <2> QED
    BY <1>1, <2>1, FS_Subset, FS_CardinalityType
<1>3. D \notin After(M, f) /\ After(M \cup {D}, f) = After(M, f) \cup {D}
  BY <1>1 DEF After
<1> QED
  BY <1>2, <1>3, FS_AddElement

\* The datagram D does not arrive.
LEMMA Skipped ==
  ASSUME NEW p, NEW D \in Nat, NEW M, M \subseteq 0 .. D - 1, LossOf(p, D, M)
  PROVE  LossOf(p, D + 1, M \cup {D})
<1>1. ASSUME NEW f \in Int, NEW l \in Int, CountFrom(p.loss, D, M, f, l)
      PROVE  CountFrom(p.loss, D + 1, M \cup {D}, f, l)
  <2>1. f < D /\ 0 <= f /\ f \notin M /\ l < D /\ l >= 0 /\ l \notin M /\ f <= l
    BY <1>1 DEF CountFrom
  <2>2. Cardinality(After(M, f)) \in Nat /\ Cardinality(After(M \cup {D}, f)) = Cardinality(After(M, f)) + 1
    BY <2>1, OneMore
  <2>3. Cardinality(After(M \cup {D}, f)) - (D + 1 - 1 - l) = Cardinality(After(M, f)) - (D - 1 - l)
    BY <2>2
  <2>4. f \in (0 .. (D + 1) - 1) \ (M \cup {D}) /\ l \in (0 .. (D + 1) - 1) \ (M \cup {D})
    BY <2>1
  <2> QED
    BY <1>1, <2>1, <2>3, <2>4 DEF CountFrom
<1>2. p.loss.total_start # 0 => \E f, l \in 0 .. (D + 1) - 1 : CountFrom(p.loss, D + 1, M \cup {D}, f, l)
  <2> SUFFICES ASSUME p.loss.total_start # 0
               PROVE  \E f, l \in 0 .. (D + 1) - 1 : CountFrom(p.loss, D + 1, M \cup {D}, f, l)
    OBVIOUS
  <2>1. PICK f, l \in 0 .. D - 1 : CountFrom(p.loss, D, M, f, l)
    BY DEF LossOf
  <2>2. f \in 0 .. (D + 1) - 1 /\ l \in 0 .. (D + 1) - 1 /\ f \in Int /\ l \in Int
    OBVIOUS
  <2> QED
    BY <1>1, <2>1, <2>2
<1> QED
  BY <1>2 DEF LossOf

\* The datagram D + 1, and after it the datagram D.
LEMMA Overtaken ==
  ASSUME NEW p, NEW D \in Nat, NEW M, LidarInv, DOMAIN p = Members, M \subseteq 0 .. D - 1, D + 2 < 2^30,
         LossOf(p, D, M), Counting(p, lidar.h), p.loss.start # 0
  PROVE  LossOf(CountLoss(CountLoss(p, Datagram(D + 1), FALSE), Datagram(D), FALSE), D + 2, M)
<1> DEFINE q == CountLoss(p, Datagram(D + 1), FALSE)
           r == CountLoss(q, Datagram(D), FALSE)
           seq == U32(lidar.base + D)
           N == M \cup {D}
<1>0. D + 1 \in Nat /\ D + 2 \in Nat /\ (D + 1) + 1 = D + 2 /\ M \cup (D .. (D + 1) - 1) = N /\ lidar.base \in Int
  BY DEF LidarInv
<1>1. /\ LossOf(q, D + 2, N)
      /\ \A f, l \in Int : CountFrom(p.loss, D, M, f, l) => CountFrom(q.loss, D + 2, N, f, D + 1)
  <2> HIDE DEF N
  <2>1. D <= D + 1 /\ (D + 1) + 1 < 2^30
    OBVIOUS
  <2> QED
    BY <1>0, <2>1, Newer
<1>2. DOMAIN q = Members /\ q.kind = p.kind /\ q.enable_packet_loss_tool_ = p.enable_packet_loss_tool_
      /\ q.loss = CalPktLoss(p.loss, Datagram(D + 1).seq, FALSE)
  BY DEF CountLoss, Members
<1>3. q.loss.start # 0
  <2> HIDE DEF q
  <2>1. CalPktLoss(p.loss, Datagram(D + 1).seq, FALSE).start = p.loss.start
    BY DEF CalPktLoss
  <2> QED
    BY <1>2, <2>1
<1>4. Datagram(D).seq = seq
  BY DatagramFields
<1>5. seq \in Int /\ 0 <= seq /\ seq < 2^30
  <2>1. lidar.base + D \in Int
    BY <1>0
  <2> QED
    BY <2>1, Wraps
<1> HIDE DEF q
<1>6. DOMAIN r = Members /\ r.kind = q.kind /\ r.enable_packet_loss_tool_ = q.enable_packet_loss_tool_
      /\ r.loss = CalPktLoss(q.loss, seq, FALSE)
  BY <1>2, <1>4 DEF CountLoss, Members
<1>7. PICK f, l \in 0 .. D - 1 : CountFrom(p.loss, D, M, f, l)
  BY DEF LossOf, LossType
<1>8. CountFrom(q.loss, D + 2, N, f, D + 1)
  BY <1>1, <1>7
<1> HIDE DEF r
<1>9. CountFrom(r.loss, D + 2, M, f, D)
  <2>1. f \notin M /\ f < D /\ f >= 0 /\ f \in Int
    BY <1>7 DEF CountFrom
  <2>2. Cardinality(After(M, f)) \in Nat /\ Cardinality(After(N, f)) = Cardinality(After(M, f)) + 1
    BY <2>1, OneMore
  <2>3. /\ D \in (0 .. (D + 2) - 1) \ M /\ f \in (0 .. (D + 2) - 1) \ M /\ f <= D /\ D # D + 1
        /\ f \in Int /\ D + 1 \in Int /\ D \in Int
    BY <2>1
  <2> HIDE DEF N
  <2>4. Cardinality(After(M, f)) - ((D + 2) - 1 - D) = Cardinality(After(N, f)) - ((D + 2) - 1 - (D + 1)) + (D - (D + 1) - 1)
    BY <2>2
  <2>5. Cardinality(After(M, f)) \in Int /\ Cardinality(After(N, f)) \in Int
    BY <2>2
  <2>6. CountFrom(CalPktLoss(q.loss, U32(lidar.base + D), FALSE), D + 2, M, f, D)
    BY <1>0, <1>3, <1>8, <2>3, <2>4, <2>5, NextCounted
  <2> QED
    BY <1>6, <2>6
<1>10. LossType(r)
  BY <1>1, <1>2, <1>4, <1>5, CountedType DEF LossOf, r
<1>11. Steady(r)
  <2>1. seq # q.loss.last
    <3> SUFFICES ASSUME seq = q.loss.last
                 PROVE  FALSE
      OBVIOUS
    <3>1. U32(lidar.base + D) = U32(lidar.base + (D + 1))
      BY <1>8 DEF CountFrom
    <3> QED
      BY <1>0, <3>1 DEF U32
  <2>2. /\ DOMAIN q.loss = LossMembers /\ Steady(q) /\ q.loss.last \in Int /\ q.loss.total_start \in Int
        /\ 0 <= q.loss.total_start /\ q.loss.last < 2^30 /\ q.loss.late \in BOOLEAN
        /\ q.loss.start # 0 => q.loss.total_start # 0
    BY <1>1 DEF LossOf, LossType
  <2> HIDE DEF seq
  <2> QED
    BY <1>2, <1>4, <1>5, <2>1, <2>2, SteadyOn DEF r
<1>12. Counting(r, lidar.h)
  BY <1>2, <1>6 DEF Counting
<1>13. f \in 0 .. (D + 2) - 1 /\ D \in 0 .. (D + 2) - 1
  OBVIOUS
<1> QED
  BY <1>9, <1>10, <1>11, <1>12, <1>13 DEF LossOf, r, q

-----------------------------------------------------------------------------
(* The steps.                                                              *)

\* What a packet does to the parser, the run of the SDK's loop does.
LEMMA RunKeeps ==
  ASSUME NEW s, NEW pkt, NEW tick, DOMAIN s = HsMembers, ParserOf(s.p), LidarInv, Len(pkt.azimuths) \in Nat,
         pkt.is_timeout => ~Counting(s.p, pkt.h)
  PROVE  LET r == Run(s, pkt, tick)
         IN  /\ DOMAIN r = HsMembers
             /\ IF Counting(s.p, pkt.h) /\ Delimited(pkt) THEN SameBut(r.p, CountLoss(s.p, pkt, tick), {"dead"})
                ELSE SameBut(r.p, s.p, Uncounted)
<1> DEFINE d == DecodePacket(s.p, s.o, pkt, tick)
           p == [d.p EXCEPT !.dead = @ \/ Overruns(d.p, d.o)]
           r == Run(s, pkt, tick)
<1>1. IF Counting(s.p, pkt.h) /\ Delimited(pkt) THEN d.p = CountLoss(s.p, pkt, tick) ELSE SameBut(d.p, s.p, Uncounted)
  <2>1. s.p.kind \in {"1_4", "2_4", "2_5", "3_1", "3_2", "4_3", "6_1", "7_2", "P40", "P64"} /\ DOMAIN s.p = Members
    BY DEF ParserOf, LidarInv, AllParsers
  <2> QED
    BY <2>1, DecodeCounts
<1>2. r = HandOver(s, d)
  BY DEF Run
<1> HIDE DEF d
<1>3. DOMAIN r = HsMembers /\ r.p = p
  <2> HIDE DEF p, r
  <2>1. p = [d.p EXCEPT !.dead = @ \/ Overruns(d.p, d.o)]
    BY DEF p
  <2> QED
    BY <1>2, <2>1 DEF HandOver, HsMembers
<1>4. SameBut(p, d.p, {"dead"})
  BY DEF SameBut
<1> HIDE DEF p, r
<1>5. CASE Counting(s.p, pkt.h) /\ Delimited(pkt)
  BY <1>1, <1>3, <1>4, <1>5 DEF r
<1>6. CASE ~(Counting(s.p, pkt.h) /\ Delimited(pkt))
  <2>1. SameBut(d.p, s.p, Uncounted)
    BY <1>1, <1>6
  <2>2. "dead" \in Uncounted
    BY DEF Uncounted, State
  <2>3. SameBut(p, s.p, Uncounted)
    BY <1>4, <2>1, <2>2 DEF SameBut
  <2> QED
    BY <1>3, <1>6, <2>3 DEF r
<1> QED
  BY <1>5, <1>6

\* A parser with another's count is as good.
LEMMA LossSame ==
  ASSUME NEW p, NEW q, NEW D, NEW M, LossOf(p, D, M), q.loss = p.loss, q.total_packet_count_ = p.total_packet_count_,
         q.kind = p.kind, q.enable_packet_loss_tool_ = p.enable_packet_loss_tool_
  PROVE  LossOf(q, D, M)
BY DEF LossOf, LossType, Steady, Counting

\* A datagram whose delimiter is right, one that has another, and a silence.
LEMMA RunCounts ==
  ASSUME NEW s, NEW pkt, NEW tick, DOMAIN s = HsMembers, ParserOf(s.p), LidarInv, Len(pkt.azimuths) \in Nat,
         pkt.h = lidar.h, pkt.is_timeout => ~Counting(s.p, lidar.h)
  PROVE  LET r == Run(s, pkt, tick)
         IN  /\ DOMAIN r = HsMembers /\ ParserOf(r.p) /\ (Counting(r.p, lidar.h) <=> Counting(s.p, lidar.h))
             /\ r.p.get_correction_file_ = s.p.get_correction_file_ /\ r.p.fields = s.p.fields
             /\ IF Counting(s.p, lidar.h) /\ Delimited(pkt)
                THEN \A D, M : LossOf(CountLoss(s.p, pkt, tick), D, M) => LossOf(r.p, D, M)
                ELSE \A D, M : LossOf(s.p, D, M) => LossOf(r.p, D, M)
<1> DEFINE r == Run(s, pkt, tick)
           c == CountLoss(s.p, pkt, tick)
           Config == {"kind", "enable_packet_loss_tool_", "fields", "get_correction_file_"}
<1>1. DOMAIN r = HsMembers
      /\ IF Counting(s.p, lidar.h) /\ Delimited(pkt) THEN SameBut(r.p, c, {"dead"}) ELSE SameBut(r.p, s.p, Uncounted)
  BY RunKeeps
<1>2. DOMAIN s.p = Members
  BY DEF ParserOf
<1> HIDE DEF r
<1>3. SameBut(c, s.p, {"loss", "total_packet_count_"})
  BY DEF CountLoss, SameBut
<1> HIDE DEF c
<1>4. CASE Counting(s.p, lidar.h) /\ Delimited(pkt)
  <2>1. SameBut(r.p, c, {"dead"})
    BY <1>1, <1>4
  <2>2. r.p.loss = c.loss /\ r.p.total_packet_count_ = c.total_packet_count_ /\ r.p.kind = c.kind
        /\ r.p.enable_packet_loss_tool_ = c.enable_packet_loss_tool_
    BY <1>2, <1>3, <2>1 DEF SameBut, Members
  <2>3. DOMAIN r.p = Members /\ \A f \in Config : r.p[f] = s.p[f]
    BY <1>2, <1>3, <2>1 DEF SameBut, Members
  <2>4. r.p.kind = s.p.kind /\ r.p.enable_packet_loss_tool_ = s.p.enable_packet_loss_tool_ /\ r.p.fields = s.p.fields
        /\ r.p.get_correction_file_ = s.p.get_correction_file_
    BY <2>3
  <2>5. \A D, M : LossOf(c, D, M) => LossOf(r.p, D, M)
    BY <2>2, LossSame
  <2> QED
    BY <1>1, <1>4, <2>3, <2>4, <2>5 DEF ParserOf, Counting, r, c
<1>5. CASE ~(Counting(s.p, lidar.h) /\ Delimited(pkt))
  <2>1. SameBut(r.p, s.p, Uncounted)
    BY <1>1, <1>5
  <2>2. DOMAIN r.p = Members /\ r.p.loss = s.p.loss /\ r.p.total_packet_count_ = s.p.total_packet_count_
        /\ \A f \in Config : r.p[f] = s.p[f]
    BY <1>2, <2>1 DEF SameBut, Members, Uncounted, State
  <2>3. r.p.kind = s.p.kind /\ r.p.enable_packet_loss_tool_ = s.p.enable_packet_loss_tool_ /\ r.p.fields = s.p.fields
        /\ r.p.get_correction_file_ = s.p.get_correction_file_
    BY <2>2
  <2>4. \A D, M : LossOf(s.p, D, M) => LossOf(r.p, D, M)
    BY <2>2, <2>3, LossSame
  <2> QED
    BY <1>1, <1>5, <2>2, <2>3, <2>4 DEF ParserOf, Counting, r
<1> QED
  BY <1>4, <1>5

\* The decoder's choice by the datagram's header: a lidar's datagram goes to the lidar's parser,
LEMMA DatagramsKind ==
  ASSUME NEW kind \in AllParsers, lidar.kind = kind, kind # "2_4", NEW n \in Nat
  PROVE  KindOfPacket(Datagram(n)) = kind
<1>1. Datagram(n).len = CASE kind = "P40" -> 1262 [] kind = "P64" -> 1194 [] OTHER -> 1180
  BY DEF Datagram
<1>2. Datagram(n).delimiter = IF kind = "P40" THEN <<255, 238>> ELSE <<238, 255>>
  BY DEF Datagram
<1>3. Datagram(n).major = CASE kind = "1_4" -> 1 [] kind \in {"2_4", "2_5"} -> 2 [] kind \in {"3_1", "3_2"} -> 3
                            [] kind = "4_3" -> 4 [] kind = "6_1" -> 6 [] OTHER -> 7
  BY DEF Datagram
<1>4. Datagram(n).minor = CASE kind \in {"1_4", "2_4"} -> 4 [] kind = "2_5" -> 5 [] kind \in {"3_1", "6_1"} -> 1
                            [] kind = "4_3" -> 3 [] OTHER -> 2
  BY DEF Datagram
<1> DEFINE d == Datagram(n)
<1> HIDE DEF d
<1>5. CASE kind = "P40"
  <2>1. Datagram(n).len = 1262
    BY <1>1, <1>5
  <2> QED
    BY <1>5, <2>1 DEF KindOfPacket
<1>6. CASE kind = "P64"
  <2>1. Datagram(n).len = 1194
    BY <1>1, <1>6
  <2> QED
    BY <1>6, <2>1 DEF KindOfPacket
<1>7. CASE kind \notin {"P40", "P64"}
  <2>1. Datagram(n).len = 1180 /\ Datagram(n).delimiter[1] = 238
    BY <1>1, <1>2, <1>7
  <2>2. KindOfPacket(Datagram(n)) = KindOfVersion(Datagram(n).major, Datagram(n).minor)
    BY <2>1 DEF KindOfPacket
  <2>3. KindOfVersion(Datagram(n).major, Datagram(n).minor) = kind
    BY <1>3, <1>4, <1>7 DEF KindOfVersion, AllParsers
  <2> QED
    BY <2>2, <2>3
<1> QED
  BY <1>5, <1>6, <1>7

\* and so is a lidar whose type the user names.
LEMMA TypesKind ==
  ASSUME NEW kind \in AllParsers
  PROVE  KindOfType(LidarType(kind)) = kind
<1>1. kind = "1_4" => KindOfType(LidarType(kind)) = kind
  BY DEF KindOfType, LidarType
<1>2. kind = "2_4" => KindOfType(LidarType(kind)) = kind
  BY DEF KindOfType, LidarType
<1>3. kind = "2_5" => KindOfType(LidarType(kind)) = kind
  BY DEF KindOfType, LidarType
<1>4. kind = "3_1" => KindOfType(LidarType(kind)) = kind
  BY DEF KindOfType, LidarType
<1>5. kind = "3_2" => KindOfType(LidarType(kind)) = kind
  BY DEF KindOfType, LidarType
<1>6. kind = "4_3" => KindOfType(LidarType(kind)) = kind
  BY DEF KindOfType, LidarType
<1>7. kind = "6_1" => KindOfType(LidarType(kind)) = kind
  BY DEF KindOfType, LidarType
<1>8. kind = "7_2" => KindOfType(LidarType(kind)) = kind
  BY DEF KindOfType, LidarType
<1>9. kind = "P40" => KindOfType(LidarType(kind)) = kind
  BY DEF KindOfType, LidarType
<1>10. kind = "P64" => KindOfType(LidarType(kind)) = kind
  BY DEF KindOfType, LidarType
<1> QED
  BY <1>1, <1>2, <1>3, <1>4, <1>5, <1>6, <1>7, <1>8, <1>9, <1>10 DEF AllParsers

\* The program's start: the parser is made for the lidar, with the file it may have.
LEMMA InitH ==
  HesaiInit =>
    /\ HInv
    /\ \E k, f, start : /\ hs.p = Prepared(k, f, start, lidar.tool) /\ hs.o = NoOutput
                        /\ lidar.tool => f.format = "none"
                        /\ f.fields \in {<<>>, Fields}
<1> SUFFICES ASSUME HesaiInit
             PROVE  /\ HInv
                    /\ \E g, h, i : /\ hs.p = Prepared(g, h, i, lidar.tool) /\ hs.o = NoOutput
                                    /\ lidar.tool => h.format = "none"
                                    /\ h.fields \in {<<>>, Fields}
  OBVIOUS
<1>1. PICK kind \in Kinds, flags \in BOOLEAN, tool \in BOOLEAN, auto \in BOOLEAN, gaps \in BOOLEAN, first \in {0, 1}, base \in {0, 5, 2^30 - 4}, start \in {0, 180, 359},
     file \in {"none", "wrong", "good"} :
    /\ tool => HasTool(kind, flags) /\ file = "none"
    /\ auto => kind # "2_4"
    /\ start # 0 => kind = "1_4"
    /\ first # 0 => kind \notin {"2_4", "2_5", "4_3", "7_2"}
    /\ base # 0 => tool
    /\ gaps => kind = "4_3" /\ file = "good"
    /\ lidar = [kind |-> kind, h |-> HeaderOf(kind, flags), first |-> first, base |-> base, start |-> start,
                tool |-> tool, gaps |-> gaps]
    /\ hs = [p |-> Prepared(IF auto THEN KindOfPacket(Datagram(0)) ELSE KindOfType(LidarType(kind)),
                            IF file = "good" THEN LoadedFile(kind, lidar.h)
                            ELSE [format |-> IF file = "none" THEN "none" ELSE "text", lasers |-> 0, fields |-> <<>>],
                            start, tool),
             o |-> NoOutput, frame |-> NewFrame, packet_index |-> 0, clean |-> TRUE,
             published |-> [frame |-> NewFrame, laser_num |-> 1, block_num |-> 1, clean |-> TRUE]]
    /\ datagrams = IF auto THEN 1 ELSE 0
    /\ missed = {}
    /\ disturbances = 0
    /\ silent = FALSE
  BY DEF HesaiInit
<1>2. kind \in AllParsers
  BY HesaiAssumption DEF AllParsers, HesaiAssumption
<1>3. LidarInv
  <2>1. lidar.kind = kind /\ lidar.h = HeaderOf(kind, flags) /\ lidar.first = first /\ lidar.base = base
        /\ lidar.start = start /\ lidar.tool = tool
    BY <1>1
  <2>2. base \in 0 .. 2^30 - 1
    OBVIOUS
  <2> QED
    BY <1>2, <2>1, <2>2 DEF LidarInv
<1> DEFINE f == IF file = "good" THEN LoadedFile(kind, lidar.h)
                ELSE [format |-> IF file = "none" THEN "none" ELSE "text", lasers |-> 0, fields |-> <<>>]
           k == IF auto THEN KindOfPacket(Datagram(0)) ELSE KindOfType(LidarType(kind))
<1>4. k = kind
  <2>1. CASE auto
    <3>1. lidar.kind = kind
      BY <1>1
    <3> QED
      BY <1>1, <1>2, <2>1, <3>1, DatagramsKind
  <2>2. CASE ~auto
    BY <1>2, <2>2, TypesKind
  <2> QED
    BY <2>1, <2>2
<1>5. DOMAIN hs = HsMembers /\ hs.p = Prepared(kind, f, start, tool)
  <2> HIDE DEF f
  <2>1. hs.p = Prepared(k, f, start, tool)
    BY <1>1 DEF f
  <2>2. DOMAIN hs = HsMembers
    BY <1>1 DEF HsMembers
  <2> QED
    BY <1>4, <2>1, <2>2
<1>6. /\ DOMAIN hs.p = Members /\ hs.p.kind = kind /\ hs.p.enable_packet_loss_tool_ = tool
      /\ hs.p.loss = [start |-> 0, last |-> 0, loss |-> 0, total_loss |-> 0, total_start |-> 0, late |-> FALSE]
      /\ hs.p.total_packet_count_ = 0
  BY <1>5, PreparedIsAParser
<1>7. tool => hs.p.fields = <<>>
  <2> SUFFICES ASSUME tool
               PROVE  hs.p.fields = <<>>
    OBVIOUS
  <2>1. f.format = "none"
    BY <1>1
  <2> HIDE DEF f
  <2>2. LoadCorrectionFile(NewParser(kind), f) = NewParser(kind)
    BY <2>1 DEF LoadCorrectionFile
  <2> QED
    BY <1>5, <2>2 DEF Prepared, NewParser, SetFrameAzimuth, EnablePacketLossTool
<1>8. ParserOf(hs.p)
  BY <1>1, <1>6, <1>7 DEF ParserOf
<1>9. SentInv
  BY <1>1 DEF SentInv
<1>10. LossOf(hs.p, datagrams, missed)
  BY <1>6 DEF LossOf, LossType, LossMembers, Steady
<1>11. HInv
  BY <1>3, <1>5, <1>8, <1>9, <1>10 DEF HInv
<1>12. hs.o = NoOutput /\ lidar.tool = tool
  BY <1>1
<1>13. tool => f.format = "none"
  BY <1>1
<1>14. f.fields \in {<<>>, Fields}
  BY DEF LoadedFile
<1> HIDE DEF f
<1> QED
  BY <1>5, <1>11, <1>12, <1>13, <1>14

\* What the steps below have to show of the state after them.
LEMMA Carried ==
  ASSUME HInv, lidar' = lidar, DOMAIN hs' = HsMembers, ParserOf(hs'.p), LossOf(hs'.p, datagrams', missed'), SentInv'
  PROVE  HInv'
<1>1. LidarInv'
  BY DEF HInv, LidarInv, HeaderOf
<1>2. ParserOf(hs.p)'
  BY DEF ParserOf
<1>3. LossOf(hs.p, datagrams, missed)'
  BY DEF LossOf, LossType, Steady, Counting, CountFrom, After
<1> QED
  BY <1>1, <1>2, <1>3 DEF HInv

\* A datagram in its turn.
LEMMA RunNext ==
  ASSUME HInv, NEW tick \in BOOLEAN, datagrams + 1 < 2^30
  PROVE  LET r == Run(hs, Datagram(datagrams), tick)
         IN  DOMAIN r = HsMembers /\ ParserOf(r.p) /\ LossOf(r.p, datagrams + 1, missed)
<1> DEFINE d == Datagram(datagrams)
           r == Run(hs, d, tick)
<1>1. /\ LidarInv /\ DOMAIN hs = HsMembers /\ ParserOf(hs.p) /\ datagrams \in Nat /\ missed \subseteq 0 .. datagrams - 1
      /\ LossOf(hs.p, datagrams, missed) /\ DOMAIN hs.p = Members
  BY DEF HInv, SentInv, ParserOf
<1>2. /\ Len(d.azimuths) \in Nat /\ d.h = lidar.h /\ ~d.is_timeout
      /\ d.delimiter = IF lidar.kind = "P40" THEN <<255, 238>> ELSE <<238, 255>>
  BY <1>1, DatagramFields
<1>3. Counting(hs.p, lidar.h) => Delimited(d)
  BY <1>1, <1>2 DEF Counting, Delimited, ParserOf
<1>4. /\ DOMAIN r = HsMembers /\ ParserOf(r.p)
      /\ IF Counting(hs.p, lidar.h) /\ Delimited(d)
         THEN \A D, M : LossOf(CountLoss(hs.p, d, tick), D, M) => LossOf(r.p, D, M)
         ELSE \A D, M : LossOf(hs.p, D, M) => LossOf(r.p, D, M)
  <2> HIDE DEF d
  <2> QED
    BY <1>1, <1>2, RunCounts
<1> HIDE DEF r
<1>5. CASE Counting(hs.p, lidar.h)
  <2>1. missed \cup (datagrams .. datagrams - 1) = missed
    BY <1>1
  <2>2. LossOf(CountLoss(hs.p, Datagram(datagrams), tick), datagrams + 1, missed)
    <3>1. datagrams <= datagrams
      BY <1>1
    <3>2. LossOf(CountLoss(hs.p, Datagram(datagrams), tick), datagrams + 1, missed \cup (datagrams .. datagrams - 1))
      BY <1>1, <1>5, <3>1, Newer
    <3> QED
      BY <2>1, <3>2
  <2> QED
    BY <1>3, <1>4, <1>5, <2>2 DEF r
<1>6. CASE ~Counting(hs.p, lidar.h)
  <2>1. LossOf(hs.p, datagrams + 1, missed)
    BY <1>1, <1>6 DEF LossOf
  <2> QED
    BY <1>4, <1>6, <2>1 DEF r
<1> QED
  BY <1>5, <1>6

\* A datagram with another delimiter, or a silence: nothing is counted.
LEMMA RunNothing ==
  ASSUME HInv, NEW pkt, NEW tick, Len(pkt.azimuths) \in Nat, pkt.h = lidar.h,
         pkt.is_timeout => ~Counting(hs.p, lidar.h), Counting(hs.p, lidar.h) => ~Delimited(pkt)
  PROVE  LET r == Run(hs, pkt, tick)
         IN  DOMAIN r = HsMembers /\ ParserOf(r.p) /\ LossOf(r.p, datagrams, missed)
<1>1. LidarInv /\ DOMAIN hs = HsMembers /\ ParserOf(hs.p) /\ LossOf(hs.p, datagrams, missed)
  BY DEF HInv
<1> QED
  BY <1>1, RunCounts

\* One lemma per action.
LEMMA ReceiveKeeps == HInv /\ ReceiveDatagram => HInv'
<1> SUFFICES ASSUME HInv, ReceiveDatagram
             PROVE  HInv'
  OBVIOUS
<1>1. PICK tick \in BOOLEAN : hs' = Run(hs, Datagram(datagrams), tick)
  BY DEF ReceiveDatagram
<1>2. datagrams + 1 <= MaxDatagrams /\ datagrams' = datagrams + 1 /\ lidar' = lidar /\ missed' = missed
  BY DEF ReceiveDatagram, MayReceive
<1>3. datagrams \in Nat /\ missed \subseteq 0 .. datagrams - 1 /\ MaxDatagrams \in Nat /\ MaxDatagrams < 2^30
  BY HesaiAssumption DEF HInv, SentInv, HesaiAssumption
<1>4. DOMAIN hs' = HsMembers /\ ParserOf(hs'.p) /\ LossOf(hs'.p, datagrams', missed')
  BY <1>1, <1>2, <1>3, RunNext
<1>5. SentInv'
  BY <1>2, <1>3 DEF SentInv
<1> QED
  BY <1>2, <1>4, <1>5, Carried

\* A datagram lost, or with another delimiter.
LEMMA MissKeeps == HInv /\ MissDatagram => HInv'
<1> SUFFICES ASSUME HInv, MissDatagram
             PROVE  HInv'
  OBVIOUS
<1> DEFINE d == [Datagram(datagrams) EXCEPT !.delimiter = <<0, 0>>]
<1>1. datagrams + 1 <= MaxDatagrams /\ datagrams' = datagrams + 1 /\ lidar' = lidar /\ missed' = missed \cup {datagrams}
  BY DEF MissDatagram, MayReceive
<1>2. datagrams \in Nat /\ missed \subseteq 0 .. datagrams - 1 /\ MaxDatagrams \in Nat /\ MaxDatagrams < 2^30 /\ LidarInv
  BY HesaiAssumption DEF HInv, SentInv, HesaiAssumption
<1>3. DOMAIN hs' = HsMembers /\ ParserOf(hs'.p) /\ LossOf(hs'.p, datagrams, missed)
  <2>1. CASE hs' = hs
    BY <2>1 DEF HInv
  <2>2. CASE hs' = Run(hs, d, FALSE)
    <3>1. Len(Datagram(datagrams).azimuths) \in Nat /\ Datagram(datagrams).h = lidar.h /\ ~Datagram(datagrams).is_timeout
      BY <1>2, DatagramFields
    <3>2. {"delimiter", "azimuths", "h", "is_timeout"} \subseteq DOMAIN Datagram(datagrams)
      BY DEF Datagram
    <3>3. d.azimuths = Datagram(datagrams).azimuths /\ d.h = lidar.h /\ ~d.is_timeout /\ d.delimiter = <<0, 0>>
      BY <3>1, <3>2
    <3>4. ~Delimited(d)
      <4>1. <<0, 0>> # <<238, 255>>
        OBVIOUS
      <4> QED
        BY <3>3, <4>1 DEF Delimited
    <3> HIDE DEF d
    <3> QED
      BY <2>2, <3>1, <3>3, <3>4, RunNothing
  <2> QED
    BY <2>1, <2>2 DEF MissDatagram
<1>4. LossOf(hs'.p, datagrams', missed')
  BY <1>1, <1>2, <1>3, Skipped
<1>5. SentInv'
  BY <1>1, <1>2 DEF SentInv
<1> QED
  BY <1>1, <1>3, <1>4, <1>5, Carried

\* A datagram that the next one overtakes.
LEMMA OvertakeKeeps == HInv /\ OvertakeDatagram => HInv'
<1> SUFFICES ASSUME HInv, OvertakeDatagram
             PROVE  HInv'
  OBVIOUS
<1> DEFINE D == datagrams
           r == Run(hs, Datagram(D + 1), FALSE)
           q == Run(r, Datagram(D), FALSE)
<1>1. /\ D + 2 <= MaxDatagrams /\ datagrams' = D + 2 /\ lidar' = lidar /\ missed' = missed /\ hs' = q
      /\ lidar.tool /\ hs.p.loss.start # 0
  BY DEF OvertakeDatagram, MayReceive
<1>2. /\ D \in Nat /\ D + 1 \in Nat /\ missed \subseteq 0 .. D - 1 /\ D + 2 < 2^30 /\ LidarInv /\ DOMAIN hs = HsMembers
      /\ ParserOf(hs.p) /\ LossOf(hs.p, D, missed) /\ DOMAIN hs.p = Members
  BY <1>1, HesaiAssumption DEF HInv, SentInv, HesaiAssumption, ParserOf
<1>3. Counting(hs.p, lidar.h) /\ lidar.kind # "P40"
  BY <1>1, <1>2 DEF LossOf, LossType, Counting, ParserOf
<1>4. ASSUME NEW n \in Nat
      PROVE  Len(Datagram(n).azimuths) \in Nat /\ Datagram(n).h = lidar.h /\ ~Datagram(n).is_timeout /\ Delimited(Datagram(n))
  BY <1>2, <1>3, <1>4, DatagramFields DEF Delimited
<1> HIDE DEF D
<1>5. /\ DOMAIN r = HsMembers /\ ParserOf(r.p) /\ Counting(r.p, lidar.h)
      /\ SameBut(r.p, CountLoss(hs.p, Datagram(D + 1), FALSE), {"dead"})
  BY <1>2, <1>3, <1>4, RunCounts, RunKeeps
<1> HIDE DEF r
<1>6. /\ DOMAIN q = HsMembers /\ ParserOf(q.p)
      /\ \A E, M : LossOf(CountLoss(r.p, Datagram(D), FALSE), E, M) => LossOf(q.p, E, M)
  BY <1>2, <1>4, <1>5, RunCounts
<1>7. LossOf(q.p, D + 2, missed)
  <2> DEFINE c == CountLoss(hs.p, Datagram(D + 1), FALSE)
  <2>1. LossOf(CountLoss(c, Datagram(D), FALSE), D + 2, missed)
    BY <1>1, <1>2, <1>3, Overtaken
  <2>2. DOMAIN c = Members
    BY <1>2 DEF CountLoss
  <2>3. r.p.loss = c.loss /\ r.p.total_packet_count_ = c.total_packet_count_ /\ r.p.kind = c.kind
        /\ r.p.enable_packet_loss_tool_ = c.enable_packet_loss_tool_ /\ DOMAIN r.p = Members
    BY <1>5, <2>2 DEF SameBut, Members
  <2> HIDE DEF c
  <2>4. /\ CountLoss(r.p, Datagram(D), FALSE).loss = CountLoss(c, Datagram(D), FALSE).loss
        /\ CountLoss(r.p, Datagram(D), FALSE).total_packet_count_ = CountLoss(c, Datagram(D), FALSE).total_packet_count_
        /\ CountLoss(r.p, Datagram(D), FALSE).kind = CountLoss(c, Datagram(D), FALSE).kind
        /\ CountLoss(r.p, Datagram(D), FALSE).enable_packet_loss_tool_ = CountLoss(c, Datagram(D), FALSE).enable_packet_loss_tool_
    BY <2>2, <2>3 DEF CountLoss, Members
  <2>5. LossOf(CountLoss(r.p, Datagram(D), FALSE), D + 2, missed)
    BY <2>1, <2>4, LossSame
  <2> QED
    BY <1>6, <2>5
<1>8. SentInv'
  BY <1>1, <1>2 DEF SentInv, D
<1> HIDE DEF q
<1>9. DOMAIN hs' = HsMembers /\ ParserOf(hs'.p) /\ LossOf(hs'.p, datagrams', missed')
  BY <1>1, <1>6, <1>7
<1> QED
  BY <1>1, <1>8, <1>9, Carried

\* The time after which the receiver gives up.
LEMMA SilenceKeeps == HInv /\ Silence => HInv'
<1> SUFFICES ASSUME HInv, Silence
             PROVE  HInv'
  OBVIOUS
<1>1. PICK delimiter \in {<<238, 255>>, <<0, 0>>} :
        hs' = Run(hs, [Datagram(datagrams - 1) EXCEPT !.is_timeout = TRUE, !.delimiter = delimiter], FALSE)
  BY DEF Silence
<1>2. lidar' = lidar /\ datagrams' = datagrams /\ missed' = missed /\ hs.p.fields # <<>> /\ datagrams > 0
  BY DEF Silence
<1>3. datagrams - 1 \in Nat /\ LidarInv /\ SentInv /\ ParserOf(hs.p)
  BY <1>2 DEF HInv, SentInv
<1>4. ~Counting(hs.p, lidar.h)
  BY <1>2, <1>3 DEF ParserOf, Counting
<1> DEFINE d == [Datagram(datagrams - 1) EXCEPT !.is_timeout = TRUE, !.delimiter = delimiter]
<1>5. Len(Datagram(datagrams - 1).azimuths) \in Nat /\ Datagram(datagrams - 1).h = lidar.h
  BY <1>3, DatagramFields
<1>6. d.azimuths = Datagram(datagrams - 1).azimuths /\ d.h = Datagram(datagrams - 1).h
  BY DEF Datagram
<1>7. hs' = Run(hs, d, FALSE)
  BY <1>1
<1> HIDE DEF d
<1>8. DOMAIN hs' = HsMembers /\ ParserOf(hs'.p) /\ LossOf(hs'.p, datagrams', missed')
  BY <1>2, <1>4, <1>5, <1>6, <1>7, RunNothing
<1>9. SentInv'
  BY <1>2, <1>3 DEF SentInv
<1> QED
  BY <1>2, <1>8, <1>9, Carried

\* Between the first number of a count and a later one, the numbers grow.
LEMMA LossIsCounted == HInv => LossCounted
<1> SUFFICES ASSUME HInv, hs.p.loss.total_start # 0
             PROVE  LET loss == hs.p.loss
                        Since(seq) == U32(seq - loss.total_start)
                        arrived == (0 .. datagrams - 1) \ missed
                        newest == CHOOSE n \in arrived : \A m \in arrived : m <= n
                    IN  /\ loss.last = U32(lidar.base + newest) =>
                             loss.total_loss = Cardinality({n \in missed : Since(lidar.base + n) < Since(loss.last)})
                        /\ ~loss.late => hs.p.total_packet_count_ = loss.last - loss.total_start
  BY DEF LossCounted
<1> DEFINE loss == hs.p.loss
           Since(seq) == U32(seq - loss.total_start)
           arrived == (0 .. datagrams - 1) \ missed
           newest == CHOOSE n \in arrived : \A m \in arrived : m <= n
<1>1. PICK f, l \in 0 .. datagrams - 1 : CountFrom(loss, datagrams, missed, f, l)
  BY DEF HInv, LossOf
<1>2. /\ datagrams \in Nat /\ datagrams < 2^30 /\ missed \subseteq 0 .. datagrams - 1 /\ lidar.base \in Int
      /\ f \in arrived /\ l \in arrived /\ f <= l
      /\ loss.total_start = U32(lidar.base + f) /\ loss.last = U32(lidar.base + l)
      /\ loss.total_loss = U32(Cardinality(After(missed, f)) - (datagrams - 1 - l))
  BY <1>1 DEF HInv, SentInv, LidarInv, CountFrom
<1>3. newest \in arrived /\ \A m \in arrived : m <= newest
  <2> DEFINE B == {datagrams - 1 - n : n \in arrived}
  <2>1. B \subseteq Nat /\ B # {}
    BY <1>2
  <2>2. PICK x \in B : \A y \in B : x <= y
    <3> HIDE DEF B
    <3> QED
      BY <2>1, LeastOf
  <2>3. PICK n \in arrived : x = datagrams - 1 - n
    BY <2>2
  <2>4. \A m \in arrived : m <= n
    <3> SUFFICES ASSUME NEW m \in arrived
                 PROVE  m <= n
      OBVIOUS
    <3>1. x <= datagrams - 1 - m
      BY <2>2
    <3> QED
      BY <1>2, <2>3, <3>1
  <2> HIDE DEF arrived
  <2> QED
    BY <2>4
<1> HIDE DEF newest
<1>4. ASSUME loss.last = U32(lidar.base + newest)
      PROVE  loss.total_loss = Cardinality({n \in missed : Since(lidar.base + n) < Since(loss.last)})
  <2>1. newest = l
    <3>1. U32(lidar.base + newest) = U32(lidar.base + l) /\ newest \in Int /\ newest >= 0 /\ newest < datagrams /\ l >= 0
      BY <1>2, <1>3, <1>4
    <3> DEFINE a == lidar.base + newest
               b == lidar.base + l
    <3>2. a \in Int /\ b \in Int /\ a - b < 2^30 /\ b - a < 2^30 /\ U32(a) = U32(b)
      BY <1>2, <3>1
    <3> HIDE DEF a, b
    <3>3. U32(a) = U32(b) /\ a - b < 2^30 /\ b - a < 2^30 => a = b
      BY <3>2, Wraps
    <3>4. a = b
      BY <3>2, <3>3
    <3> QED
      BY <1>2, <3>1, <3>4 DEF a, b
  <2>2. \A n \in 0 .. datagrams - 1 : n > l => n \in missed
    BY <1>2, <1>3, <2>1
  <2>3. Since(loss.last) = l - f
    <3>1. f \in Int /\ l \in Int /\ f <= l /\ l - f < 2^30
      BY <1>2
    <3>2. Since(loss.last) = U32(U32(lidar.base + l) - U32(lidar.base + f))
      BY <1>2
    <3> HIDE DEF Since
    <3>3. U32(U32(lidar.base + l) - U32(lidar.base + f)) = l - f
      <4>1. ASSUME NEW a \in Int, NEW b \in Int
            PROVE  U32(U32(a) - U32(b)) = U32(a - b)
        BY Wraps
      <4>2. lidar.base + l \in Int /\ lidar.base + f \in Int /\ (lidar.base + l) - (lidar.base + f) = l - f
        BY <1>2, <3>1
      <4>3. U32(l - f) = l - f
        BY <3>1 DEF U32
      <4> QED
        BY <4>1, <4>2, <4>3
    <3> QED
      BY <3>2, <3>3
  <2>4. ASSUME NEW n \in missed
        PROVE  Since(lidar.base + n) < Since(loss.last) <=> f < n /\ n < l
    <3>1. n \in Int /\ 0 <= n /\ n < datagrams /\ n # f /\ n # l
      BY <1>2
    <3>2. Since(lidar.base + n) = U32(n - f)
      BY <1>2, <3>1 DEF U32
    <3>3. CASE n > f
      <4>1. U32(n - f) = n - f
        BY <1>2, <3>1, <3>3 DEF U32
      <4> QED
        BY <1>2, <2>3, <3>1, <3>2, <3>3, <4>1
    <3>4. CASE n < f
      <4>1. U32(n - f) = n - f + 2^30
        BY <1>2, <3>1, <3>4 DEF U32
      <4> QED
        BY <1>2, <2>3, <3>1, <3>2, <3>4, <4>1
    <3> QED
      BY <1>2, <3>1, <3>3, <3>4
  <2> DEFINE Between == {n \in missed : f < n /\ n < l}
             Beyond == l + 1 .. datagrams - 1
  <2>5. {n \in missed : Since(lidar.base + n) < Since(loss.last)} = Between
    BY <2>4
  <2>6. After(missed, f) = Between \cup Beyond /\ Between \cap Beyond = {} /\ Between \subseteq 0 .. datagrams - 1
    <3>1. Between \subseteq 0 .. datagrams - 1 /\ Between \cap Beyond = {}
      <4>1. \A n \in Between : n \in missed /\ n < l
        OBVIOUS
      <4>2. \A n \in Beyond : n \in Int /\ ~(n < l)
        BY <1>2
      <4> HIDE DEF Between, Beyond
      <4> QED
        BY <1>2, <4>1, <4>2
    <3>2. \A n \in After(missed, f) : n \in Between \cup Beyond
      <4> SUFFICES ASSUME NEW n \in missed, f < n, ~(n < l)
                   PROVE  n \in Beyond
        BY DEF After
      <4>1. n \in Int /\ n # l /\ n < datagrams
        BY <1>2
      <4> QED
        BY <1>2, <4>1
    <3>3. \A n \in Between : n \in After(missed, f)
      BY DEF After
    <3>4. \A n \in Beyond : n \in After(missed, f)
      <4> SUFFICES ASSUME NEW n \in Beyond
                   PROVE  n \in missed /\ f < n
        BY DEF After
      <4>1. n \in 0 .. datagrams - 1 /\ n > l /\ f < n
        BY <1>2
      <4> QED
        BY <2>2, <4>1
    <3> HIDE DEF Between, Beyond
    <3> QED
      BY <3>1, <3>2, <3>3, <3>4
  <2>7. IsFiniteSet(Between) /\ Cardinality(Between) \in Nat /\ Cardinality(Between) <= datagrams
    <3>1. IsFiniteSet(0 .. datagrams - 1) /\ Cardinality(0 .. datagrams - 1) <= datagrams
      <4>1. Cardinality(0 .. datagrams - 1) = IF 0 > datagrams - 1 THEN 0 ELSE datagrams - 1 - 0 + 1
        BY <1>2, FS_Interval
      <4>2. IsFiniteSet(0 .. datagrams - 1)
        BY <1>2, FS_Interval
      <4> QED
        BY <1>2, <4>1, <4>2
    <3>2. IsFiniteSet(Between) /\ Cardinality(Between) <= Cardinality(0 .. datagrams - 1)
      BY <2>6, <3>1, FS_Subset
    <3>3. Cardinality(Between) \in Nat /\ Cardinality(0 .. datagrams - 1) \in Nat
      BY <3>1, <3>2, FS_CardinalityType
    <3> HIDE DEF Between
    <3> QED
      BY <1>2, <3>1, <3>2, <3>3
  <2>8. IsFiniteSet(Beyond) /\ Cardinality(Beyond) = datagrams - 1 - l
    <3>1. l + 1 \in Int /\ datagrams - 1 \in Int /\ l \in 0 .. datagrams - 1
      BY <1>2
    <3>2. /\ IsFiniteSet((l + 1) .. (datagrams - 1))
          /\ Cardinality((l + 1) .. (datagrams - 1)) =
               IF l + 1 > datagrams - 1 THEN 0 ELSE (datagrams - 1) - (l + 1) + 1
      BY <3>1, FS_Interval
    <3>3. (IF l + 1 > datagrams - 1 THEN 0 ELSE (datagrams - 1) - (l + 1) + 1) = datagrams - 1 - l
      BY <3>1
    <3> QED
      BY <3>2, <3>3
  <2> HIDE DEF Between, Beyond
  <2>9. Cardinality(After(missed, f)) = Cardinality(Between) + (datagrams - 1 - l)
    <3>1. Cardinality(Between \cap Beyond) = 0
      BY <2>6, FS_EmptySet
    <3>2. Cardinality(Between \cup Beyond) = Cardinality(Between) + Cardinality(Beyond) - Cardinality(Between \cap Beyond)
      BY <2>7, <2>8, FS_Union
    <3> QED
      BY <1>2, <2>6, <2>7, <2>8, <3>1, <3>2
  <2>10. loss.total_loss = U32(Cardinality(Between))
    BY <1>2, <2>7, <2>9
  <2>11. U32(Cardinality(Between)) = Cardinality(Between)
    BY <1>2, <2>7 DEF U32
  <2> QED
    BY <2>5, <2>10, <2>11
<1>5. ASSUME ~loss.late
      PROVE  hs.p.total_packet_count_ = loss.last - loss.total_start
  BY <1>5 DEF HInv, LossOf, Steady
<1> QED
  BY <1>4, <1>5 DEF newest

\* Every step of the lidar, the network and the SDK keeps HInv.
LEMMA HInvStep == HInv /\ [HesaiNext]_hesaiVars => HInv'
<1> SUFFICES ASSUME HInv, [HesaiNext]_hesaiVars
             PROVE  HInv'
  OBVIOUS
<1>1. CASE ReceiveDatagram
  BY <1>1, ReceiveKeeps
<1>2. CASE MissDatagram
  BY <1>2, MissKeeps
<1>3. CASE OvertakeDatagram
  BY <1>3, OvertakeKeeps
<1>4. CASE Silence
  BY <1>4, SilenceKeeps
<1>5. CASE UNCHANGED hesaiVars
  <2>1. hs' = hs /\ lidar' = lidar /\ datagrams' = datagrams /\ missed' = missed
    BY <1>5 DEF hesaiVars
  <2>2. SentInv'
    BY <2>1 DEF HInv, SentInv
  <2>3. DOMAIN hs' = HsMembers /\ ParserOf(hs'.p) /\ LossOf(hs'.p, datagrams', missed')
    BY <2>1 DEF HInv
  <2> QED
    BY <2>1, <2>2, <2>3, Carried
<1> QED
  BY <1>1, <1>2, <1>3, <1>4, <1>5 DEF HesaiNext

\* HInv holds in every state.
LEMMA HInvHolds == HesaiSpec => []HInv
<1>1. HesaiInit => HInv
  BY InitH
<1> QED
  BY <1>1, HInvStep, PTL DEF HesaiSpec

\* A parser's total of lost packets is what the network lost, whatever it lost, cut or
\* overtook, and although the numbers wrap: CalPktLoss and the DecodePacket that call it.
THEOREM HesaiLossCounted == HesaiSpec => []LossCounted
BY HInvHolds, LossIsCounted, PTL

-----------------------------------------------------------------------------
(* What a parser reads.                                                    *)

\* The blocks of the output have angles of the circle; a QT128's parser with the tool
\* fills the output but its angles.
Angled(o) == \A b \in 1 .. o.block_num : o.azimuth[b] \in 0 .. CIRCLE - 1
FileOf(p) == (lidar.tool => ~p.get_correction_file_) /\ p.get_correction_file_ \in BOOLEAN /\ p.fields \in {<<>>, Fields}
OutputOf(o) == (lidar.kind = "3_2" /\ lidar.tool) \/ Angled(o)

RInv == HInv /\ FileOf(hs.p) /\ OutputOf(hs.o) /\ DOMAIN hs.o = DOMAIN NoOutput

\* The angles in the datagrams of a lidar.
LEMMA DatagramAngled ==
  ASSUME NEW n \in Nat, LidarInv
  PROVE  /\ lidar.h.block_num \in Nat /\ (lidar.kind = "7_2" => lidar.h.block_num = 1)
         /\ Len(Datagram(n).azimuths) = lidar.h.block_num
         /\ \A b \in 1 .. lidar.h.block_num : Datagram(n).azimuths[b] \in 0 .. CIRCLE - 1
<1>1. lidar.h.block_num \in Nat /\ (lidar.kind = "7_2" => lidar.h.block_num = 1)
  BY DEF LidarInv, HeaderOf
<1> DEFINE N == lidar.h.block_num
           angle(b) == IF lidar.kind = "4_3"
                       THEN ((n \div DatagramsPerField) % 3) * 12000 + 7125 + 100 * ((n * N + b - 1) % (2 * DatagramsPerField))
                       ELSE BlockAngle(n * N + b - 1) % CIRCLE
<1>2. Datagram(n).azimuths = [b \in 1 .. N |-> angle(b)]
  BY DEF Datagram
<1>3. Len(Datagram(n).azimuths) = N
  <2> HIDE DEF angle, N
  <2>1. N \in Nat
    BY <1>1 DEF N
  <2>2. \A S : \A q \in [1 .. N -> S] : Len(q) = N
    BY <2>1
  <2>3. [b \in 1 .. N |-> angle(b)] \in [1 .. N -> {angle(b) : b \in 1 .. N}]
    OBVIOUS
  <2> QED
    BY <1>2, <2>2, <2>3
<1>4. ASSUME NEW b \in 1 .. N
      PROVE  angle(b) \in 0 .. CIRCLE - 1
  <2> DEFINE x == n * N + b - 1
  <2>1. x \in Int
    <3>1. n * N \in Int
      BY <1>1
    <3> QED
      BY <3>1
  <2> HIDE DEF x
  <2>2. CASE lidar.kind = "4_3"
    <3>1. x % 6 \in 0 .. 5 /\ n \div 3 \in Int
      BY <2>1
    <3>2. (n \div 3) % 3 \in 0 .. 2
      BY <3>1
    <3>3. angle(b) = ((n \div 3) % 3) * 12000 + 7125 + 100 * (x % 6)
      BY <2>2 DEF DatagramsPerField, x
    <3> DEFINE u == (n \div 3) % 3
               v == x % 6
    <3>4. u \in 0 .. 2 /\ v \in 0 .. 5 /\ angle(b) = u * 12000 + 7125 + 100 * v
      BY <3>1, <3>2, <3>3
    <3> HIDE DEF angle, u, v
    <3> QED
      BY <3>4 DEF CIRCLE
  <2>3. CASE lidar.kind # "4_3"
    <3>1. BlockAngle(x) \in Int
      <4>1. TurnStep \in Int
        BY DEF TurnStep, BlocksPerTurn, CIRCLE
      <4>2. lidar.first \in Int
        BY DEF LidarInv
      <4>3. (x + lidar.first) * TurnStep \in Int
        BY <2>1, <4>1, <4>2
      <4> QED
        BY <4>1, <4>3 DEF BlockAngle
    <3>2. angle(b) = BlockAngle(x) % CIRCLE
      BY <2>3 DEF x
    <3> HIDE DEF angle
    <3>3. BlockAngle(x) % 36000 >= 0 /\ BlockAngle(x) % 36000 < 36000 /\ BlockAngle(x) % 36000 \in Int
      BY <3>1
    <3> DEFINE w == BlockAngle(x) % 36000
    <3>4. angle(b) = w /\ w \in Int /\ w >= 0 /\ w < CIRCLE /\ CIRCLE \in Int
      BY <3>2, <3>3 DEF CIRCLE
    <3> HIDE DEF w
    <3> QED
      BY <3>4
  <2> QED
    BY <2>2, <2>3
<1> HIDE DEF angle
<1> QED
  BY <1>1, <1>2, <1>3, <1>4

\* The output after a packet is the one before it, empty, or the packet's.
LEMMA DecodeOut ==
  ASSUME NEW p, NEW o, NEW pkt, NEW tick, p.kind \in AllParsers, DOMAIN o = DOMAIN NoOutput,
         Len(pkt.azimuths) = pkt.h.block_num, p.kind = "7_2" => pkt.h.block_num = 1
  PROVE  LET e == DecodePacket(p, o, pkt, tick).o
         IN  /\ DOMAIN e = DOMAIN NoOutput
             /\ \/ e = o
                \/ e.block_num = 0
                \/ e.block_num = pkt.h.block_num /\ e.azimuth = pkt.azimuths
                \/ p.kind = "3_2" /\ p.enable_packet_loss_tool_
<1> DEFINE e == DecodePacket(p, o, pkt, tick).o
           Goal(x) == /\ DOMAIN x = DOMAIN NoOutput
                      /\ \/ x = o
                         \/ x.block_num = 0
                         \/ x.block_num = pkt.h.block_num /\ x.azimuth = pkt.azimuths
                         \/ p.kind = "3_2" /\ p.enable_packet_loss_tool_
<1>1. \A n, complete : n = pkt.h.block_num => \A lasers : Goal(Output(n, lasers, complete, pkt))
  BY DEF Output, NoOutput
<1>2. \A q, lasers : Goal(DecodeBlocks(q, pkt, lasers).o)
  BY <1>1 DEF DecodeBlocks, Same
<1>3. Goal(o)
  OBVIOUS
<1>4. \A complete : Goal(Nothing(o, complete))
  BY DEF Nothing, NoOutput
<1> SUFFICES Goal(e)
  OBVIOUS
<1> HIDE DEF Goal
<1> USE DEF Same
<1>5. CASE p.kind = "1_4"
  <2>1. e = Decode1_4(p, o, pkt, tick).o
    BY <1>5 DEF DecodePacket
  <2> QED
    BY <1>2, <1>3, <2>1 DEF Decode1_4
<1>6. CASE p.kind = "2_4"
  <2>1. e = Decode2_4(p, o, pkt).o
    BY <1>6 DEF DecodePacket
  <2> QED
    BY <1>1, <1>3, <2>1 DEF Decode2_4
<1>7. CASE p.kind = "2_5"
  <2>1. e = Decode2_5(p, o, pkt).o
    BY <1>7 DEF DecodePacket
  <2> QED
    BY <1>1, <1>3, <2>1 DEF Decode2_5
<1>8. CASE p.kind = "3_1"
  <2>1. e = Decode3_1(p, o, pkt, tick).o
    BY <1>8 DEF DecodePacket
  <2> QED
    BY <1>2, <1>3, <2>1 DEF Decode3_1
<1>9. CASE p.kind = "3_2"
  <2>1. e = Decode3_2(p, o, pkt, tick).o
    BY <1>9 DEF DecodePacket
  <2>2. CASE p.enable_packet_loss_tool_
    <3>1. DOMAIN [Output(pkt.h.block_num, pkt.h.laser_num, FALSE, pkt) EXCEPT !.azimuth = o.azimuth, !.rounds = o.rounds]
          = DOMAIN NoOutput
      BY DEF Output, NoOutput
    <3>2. DOMAIN e = DOMAIN NoOutput
      BY <2>1, <2>2, <3>1 DEF Decode3_2
    <3> QED
      BY <1>9, <2>2, <3>2 DEF Goal
  <2>3. CASE ~p.enable_packet_loss_tool_
    BY <1>2, <1>3, <2>1, <2>3 DEF Decode3_2
  <2> QED
    BY <2>2, <2>3
<1>10. CASE p.kind = "4_3"
  <2>1. e = Decode4_3(p, o, pkt, tick).o
    BY <1>10 DEF DecodePacket
  <2> QED
    BY <1>2, <1>3, <1>4, <2>1 DEF Decode4_3
<1>11. CASE p.kind = "6_1"
  <2>1. e = Decode6_1(p, o, pkt, tick).o
    BY <1>11 DEF DecodePacket
  <2> QED
    BY <1>2, <1>3, <2>1 DEF Decode6_1
<1>12. CASE p.kind = "7_2"
  <2>1. e = Decode7_2(p, o, pkt, tick).o
    BY <1>12 DEF DecodePacket
  <2> QED
    BY <1>1, <1>3, <1>12, <2>1 DEF Decode7_2
<1>13. CASE p.kind = "P40"
  <2>1. e = DecodeP40(p, o, pkt).o
    BY <1>13 DEF DecodePacket
  <2> QED
    BY <1>2, <1>3, <2>1 DEF DecodeP40
<1>14. CASE p.kind = "P64"
  <2>1. e = DecodeP64(p, o, pkt).o
    BY <1>14 DEF DecodePacket
  <2> QED
    BY <1>2, <1>3, <2>1 DEF DecodeP64
<1>15. Goal(e)
  <2>1. \/ p.kind = "1_4" \/ p.kind = "2_4" \/ p.kind = "2_5" \/ p.kind = "3_1" \/ p.kind = "3_2"
        \/ p.kind = "4_3" \/ p.kind = "6_1" \/ p.kind = "7_2" \/ p.kind = "P40" \/ p.kind = "P64"
    BY DEF AllParsers
  <2> QED
    BY Zenon, <1>5, <1>6, <1>7, <1>8, <1>9, <1>10, <1>11, <1>12, <1>13, <1>14, <2>1
<1> QED
  BY <1>15

\* One turn of the SDK's loop leaves the corrections alone, and the output in the circle.
LEMMA RunReads ==
  ASSUME NEW s, NEW pkt, NEW tick, DOMAIN s = HsMembers, ParserOf(s.p), LidarInv, Len(pkt.azimuths) = lidar.h.block_num,
         \A b \in 1 .. lidar.h.block_num : pkt.azimuths[b] \in 0 .. CIRCLE - 1,
         lidar.h.block_num \in Nat, lidar.kind = "7_2" => lidar.h.block_num = 1,
         pkt.h = lidar.h, pkt.is_timeout => ~Counting(s.p, lidar.h),
         FileOf(s.p), OutputOf(s.o), DOMAIN s.o = DOMAIN NoOutput
  PROVE  LET r == Run(s, pkt, tick)
         IN  FileOf(r.p) /\ OutputOf(r.o) /\ DOMAIN r.o = DOMAIN NoOutput
<1> DEFINE r == Run(s, pkt, tick)
           d == DecodePacket(s.p, s.o, pkt, tick)
<1>1. FileOf(r.p)
  <2>1. r.p.get_correction_file_ = s.p.get_correction_file_ /\ r.p.fields = s.p.fields
    BY RunCounts
  <2> QED
    BY <2>1 DEF FileOf
<1>2. r.o = d.o
  <2>1. r = HandOver(s, d)
    BY DEF Run
  <2> HIDE DEF r, d
  <2> QED
    BY <2>1 DEF HandOver, HsMembers
<1>3. s.p.kind = lidar.kind /\ s.p.kind \in AllParsers /\ s.p.enable_packet_loss_tool_ = lidar.tool
  BY DEF ParserOf, LidarInv
<1>4. /\ DOMAIN d.o = DOMAIN NoOutput
      /\ \/ d.o = s.o
         \/ d.o.block_num = 0
         \/ d.o.block_num = lidar.h.block_num /\ d.o.azimuth = pkt.azimuths
         \/ lidar.kind = "3_2" /\ lidar.tool
  <2> HIDE DEF d
  <2>1. Len(pkt.azimuths) = pkt.h.block_num /\ (s.p.kind = "7_2" => pkt.h.block_num = 1)
    BY <1>3
  <2> QED
    BY <1>3, <2>1, DecodeOut DEF d
<1> HIDE DEF d, r
<1>5. OutputOf(d.o)
  <2>1. CASE d.o = s.o
    BY <2>1
  <2>2. CASE d.o.block_num = 0
    BY <2>2 DEF OutputOf, Angled
  <2>3. CASE d.o.block_num = lidar.h.block_num /\ d.o.azimuth = pkt.azimuths
    BY <2>3 DEF OutputOf, Angled
  <2>4. CASE lidar.kind = "3_2" /\ lidar.tool
    BY <2>4 DEF OutputOf
  <2> QED
    BY <1>4, <2>1, <2>2, <2>3, <2>4
<1> QED
  BY <1>1, <1>2, <1>4, <1>5 DEF r

\* The program's start.
LEMMA InitR == HesaiInit => RInv
<1> SUFFICES ASSUME HesaiInit
             PROVE  RInv
  OBVIOUS
<1>1. HInv
  BY InitH
<1>2. PICK k, f, start : /\ hs.p = Prepared(k, f, start, lidar.tool) /\ hs.o = NoOutput
                         /\ lidar.tool => f.format = "none"
                         /\ f.fields \in {<<>>, Fields}
  BY InitH
<1> DEFINE n == NewParser(k)
           l == LoadCorrectionFile(n, f)
<1>4. hs.p = EnablePacketLossTool(SetFrameAzimuth(l, start), lidar.tool)
  BY <1>2 DEF Prepared
<1>5. DOMAIN n = Members /\ n.fields = <<>> /\ n.get_correction_file_ = FALSE
  BY DEF NewParser, Members
<1> HIDE DEF n
<1>6. l.fields \in {<<>>, Fields} /\ l.get_correction_file_ \in BOOLEAN /\ (f.format = "none" => l = n) /\ DOMAIN l = Members
  <2> USE DEF Members
  <2>1. CASE f.format = "none"
    BY <1>5, <2>1 DEF LoadCorrectionFile
  <2>2. CASE f.format # "none" /\ n.kind = "4_3"
    <3>1. l = LoadCorrection4_3(n, f)
      BY <2>2 DEF LoadCorrectionFile
    <3> HIDE DEF l
    <3>2. CASE f.format = "dat5"
      <4>1. l = [n EXCEPT !.get_correction_file_ = TRUE, !.lasers = f.lasers, !.fields = f.fields]
        BY <3>1, <3>2 DEF LoadCorrection4_3
      <4> QED
        BY <1>2, <1>5, <2>2, <4>1
    <3>3. CASE f.format = "dat3"
      <4>1. l = [n EXCEPT !.get_correction_file_ = TRUE]
        BY <3>1, <3>3 DEF LoadCorrection4_3
      <4> QED
        BY <1>5, <2>2, <4>1
    <3>4. CASE f.format # "dat5" /\ f.format # "dat3"
      <4>1. l = n
        BY <3>1, <3>4 DEF LoadCorrection4_3
      <4> QED
        BY <1>5, <2>2, <4>1
    <3> QED
      BY <3>2, <3>3, <3>4
  <2>3. CASE f.format # "none" /\ n.kind # "4_3"
    <3>1. /\ DOMAIN l = DOMAIN n /\ l.fields = n.fields
          /\ l.get_correction_file_ = TRUE \/ l.get_correction_file_ = n.get_correction_file_
      <4>1. l = LoadCorrection2_4(n, f) \/ l = LoadCorrection2_5(n, f) \/ l = LoadCorrection7_2(n, f)
            \/ l = LoadCorrectionGeneral(n, f)
        BY <2>3 DEF LoadCorrectionFile
      <4> HIDE DEF l
      <4>2. CASE l = LoadCorrection2_4(n, f)
        BY <1>5, <4>2 DEF LoadCorrection2_4
      <4>3. CASE l = LoadCorrection2_5(n, f)
        BY <1>5, <4>3 DEF LoadCorrection2_5
      <4>4. CASE l = LoadCorrection7_2(n, f)
        BY <1>5, <4>4 DEF LoadCorrection7_2
      <4>5. CASE l = LoadCorrectionGeneral(n, f)
        BY <1>5, <4>5 DEF LoadCorrectionGeneral
      <4> QED
        BY <4>1, <4>2, <4>3, <4>4, <4>5
    <3> HIDE DEF l
    <3> QED
      BY <1>5, <2>3, <3>1
  <2> QED
    BY <2>1, <2>2, <2>3
<1> HIDE DEF l
<1>7. hs.p.fields = l.fields /\ hs.p.get_correction_file_ = l.get_correction_file_
  BY <1>4, <1>6 DEF EnablePacketLossTool, SetFrameAzimuth, Members
<1>8. FileOf(hs.p)
  BY <1>2, <1>5, <1>6, <1>7 DEF FileOf
<1>9. OutputOf(hs.o) /\ DOMAIN hs.o = DOMAIN NoOutput
  BY <1>2 DEF OutputOf, Angled, NoOutput
<1> QED
  BY <1>1, <1>8, <1>9 DEF RInv

\* What one datagram of the lidar, as it was sent or changed on its way, does.
LEMMA DatagramReads ==
  ASSUME NEW s, NEW n \in Nat, NEW tick, NEW pkt, LidarInv, DOMAIN s = HsMembers, ParserOf(s.p), FileOf(s.p), OutputOf(s.o),
         DOMAIN s.o = DOMAIN NoOutput, pkt.azimuths = Datagram(n).azimuths, pkt.h = lidar.h,
         pkt.is_timeout => ~Counting(s.p, lidar.h)
  PROVE  LET r == Run(s, pkt, tick)
         IN  DOMAIN r = HsMembers /\ ParserOf(r.p) /\ FileOf(r.p) /\ OutputOf(r.o) /\ DOMAIN r.o = DOMAIN NoOutput
<1> DEFINE r == Run(s, pkt, tick)
<1>1. /\ lidar.h.block_num \in Nat /\ (lidar.kind = "7_2" => lidar.h.block_num = 1)
      /\ Len(pkt.azimuths) = lidar.h.block_num
      /\ \A b \in 1 .. lidar.h.block_num : pkt.azimuths[b] \in 0 .. CIRCLE - 1
  BY DatagramAngled
<1>2. FileOf(r.p) /\ OutputOf(r.o) /\ DOMAIN r.o = DOMAIN NoOutput
  BY <1>1, RunReads
<1>3. DOMAIN r = HsMembers /\ ParserOf(r.p)
  BY <1>1, RunCounts
<1> QED
  BY <1>2, <1>3

\* What the steps below have to show of the state after them.
LEMMA CarriedReads ==
  ASSUME HInv', lidar' = lidar, FileOf(hs'.p), OutputOf(hs'.o), DOMAIN hs'.o = DOMAIN NoOutput
  PROVE  RInv'
BY DEF RInv, FileOf, OutputOf, Angled, Fields

\* Every step keeps RInv.
LEMMA RInvStep == RInv /\ [HesaiNext]_hesaiVars => RInv'
<1> SUFFICES ASSUME RInv, [HesaiNext]_hesaiVars
             PROVE  RInv'
  OBVIOUS
<1>1. HInv /\ LidarInv /\ DOMAIN hs = HsMembers /\ ParserOf(hs.p) /\ FileOf(hs.p) /\ OutputOf(hs.o)
      /\ DOMAIN hs.o = DOMAIN NoOutput /\ datagrams \in Nat
  BY DEF RInv, HInv, SentInv
<1>2. ASSUME NEW n \in Nat
      PROVE  Datagram(n).h = lidar.h /\ ~Datagram(n).is_timeout
             /\ {"delimiter", "azimuths", "h", "is_timeout"} \subseteq DOMAIN Datagram(n)
  <2>1. Datagram(n).h = lidar.h /\ ~Datagram(n).is_timeout
    BY <1>1, DatagramFields
  <2>2. {"delimiter", "azimuths", "h", "is_timeout"} \subseteq DOMAIN Datagram(n)
    BY DEF Datagram
  <2> QED
    BY <2>1, <2>2
<1>3. CASE ReceiveDatagram
  <2>1. PICK tick \in BOOLEAN : hs' = Run(hs, Datagram(datagrams), tick)
    BY <1>3 DEF ReceiveDatagram
  <2>2. FileOf(hs'.p) /\ OutputOf(hs'.o) /\ DOMAIN hs'.o = DOMAIN NoOutput
    BY <1>1, <1>2, <2>1, DatagramReads
  <2>3. HInv' /\ lidar' = lidar
    BY <1>1, <1>3, ReceiveKeeps DEF ReceiveDatagram
  <2> QED
    BY <2>2, <2>3, CarriedReads
<1>4. CASE MissDatagram
  <2> DEFINE d == [Datagram(datagrams) EXCEPT !.delimiter = <<0, 0>>]
  <2>1. d.azimuths = Datagram(datagrams).azimuths /\ d.h = lidar.h /\ ~d.is_timeout
    BY <1>1, <1>2
  <2>2. hs' = hs \/ hs' = Run(hs, d, FALSE)
    BY <1>4 DEF MissDatagram
  <2> HIDE DEF d
  <2>3. FileOf(hs'.p) /\ OutputOf(hs'.o) /\ DOMAIN hs'.o = DOMAIN NoOutput
    <3>1. CASE hs' = hs
      BY <1>1, <3>1
    <3>2. CASE hs' = Run(hs, d, FALSE)
      BY <1>1, <2>1, <3>2, DatagramReads
    <3> QED
      BY <2>2, <3>1, <3>2
  <2>4. HInv' /\ lidar' = lidar
    BY <1>1, <1>4, MissKeeps DEF MissDatagram
  <2> QED
    BY <2>3, <2>4, CarriedReads
<1>5. CASE OvertakeDatagram
  <2> DEFINE r == Run(hs, Datagram(datagrams + 1), FALSE)
  <2>0. datagrams + 1 \in Nat
    BY <1>1
  <2>1. DOMAIN r = HsMembers /\ ParserOf(r.p) /\ FileOf(r.p) /\ OutputOf(r.o) /\ DOMAIN r.o = DOMAIN NoOutput
    BY <1>1, <1>2, <2>0, DatagramReads
  <2>2. hs' = Run(r, Datagram(datagrams), FALSE)
    BY <1>5 DEF OvertakeDatagram
  <2> HIDE DEF r
  <2>3. FileOf(hs'.p) /\ OutputOf(hs'.o) /\ DOMAIN hs'.o = DOMAIN NoOutput
    BY <1>1, <1>2, <2>1, <2>2, DatagramReads
  <2>4. HInv' /\ lidar' = lidar
    BY <1>1, <1>5, OvertakeKeeps DEF OvertakeDatagram
  <2> QED
    BY <2>3, <2>4, CarriedReads
<1>6. CASE Silence
  <2>1. PICK delimiter \in {<<238, 255>>, <<0, 0>>} :
          hs' = Run(hs, [Datagram(datagrams - 1) EXCEPT !.is_timeout = TRUE, !.delimiter = delimiter], FALSE)
    BY <1>6 DEF Silence
  <2> DEFINE d == [Datagram(datagrams - 1) EXCEPT !.is_timeout = TRUE, !.delimiter = delimiter]
  <2> DEFINE m == datagrams - 1
  <2>2. m \in Nat /\ ~Counting(hs.p, lidar.h)
    BY <1>1, <1>6 DEF Silence, ParserOf, Counting
  <2>3. d.azimuths = Datagram(m).azimuths /\ d.h = lidar.h
    BY <1>2, <2>2
  <2>4. hs' = Run(hs, d, FALSE)
    BY <2>1
  <2> HIDE DEF d, m
  <2>5. FileOf(hs'.p) /\ OutputOf(hs'.o) /\ DOMAIN hs'.o = DOMAIN NoOutput
    <3>1. m \in Nat
      BY <2>2
    <3>2. d.is_timeout => ~Counting(hs.p, lidar.h)
      BY <2>2
    <3>4. Datagram(m).azimuths = d.azimuths /\ d.h = lidar.h /\ LidarInv /\ DOMAIN hs = HsMembers /\ ParserOf(hs.p)
          /\ FileOf(hs.p) /\ OutputOf(hs.o) /\ DOMAIN hs.o = DOMAIN NoOutput
      BY <1>1, <2>3
    <3>5. /\ lidar.h.block_num \in Nat /\ (lidar.kind = "7_2" => lidar.h.block_num = 1)
          /\ Len(d.azimuths) = lidar.h.block_num
          /\ \A b \in 1 .. lidar.h.block_num : d.azimuths[b] \in 0 .. CIRCLE - 1
      BY <3>1, <3>4, DatagramAngled
    <3>3. FileOf(Run(hs, d, FALSE).p) /\ OutputOf(Run(hs, d, FALSE).o) /\ DOMAIN Run(hs, d, FALSE).o = DOMAIN NoOutput
      BY <3>2, <3>4, <3>5, RunReads
    <3> QED
      BY <2>4, <3>3
  <2>6. HInv' /\ lidar' = lidar
    BY <1>1, <1>6, SilenceKeeps DEF Silence
  <2> QED
    BY <2>5, <2>6, CarriedReads
<1>7. CASE UNCHANGED hesaiVars
  <2>1. hs' = hs /\ lidar' = lidar
    BY <1>7 DEF hesaiVars
  <2>2. HInv'
    BY <1>1, <1>7, HInvStep
  <2>3. FileOf(hs'.p) /\ OutputOf(hs'.o) /\ DOMAIN hs'.o = DOMAIN NoOutput
    BY <1>1, <2>1
  <2> QED
    BY <2>1, <2>2, <2>3, CarriedReads
<1> QED
  BY <1>3, <1>4, <1>5, <1>6, <1>7 DEF HesaiNext

\* C's remainder of a number that is not negative.
LEMMA Remainder ==
  ASSUME NEW a \in Int, NEW n \in Nat, n > 0, a >= 0
  PROVE  CRem(a, n) \in 0 .. n - 1
<1>1. a % n \in 0 .. n - 1
  OBVIOUS
<1> QED
  BY <1>1 DEF CRem

\* The sizes in the structures of the ten protocols: a tail begins where the header's flags put it.
LEMMA TailsFit ==
  ASSUME LidarInv
  PROVE  TailFits(lidar.kind, lidar.h)
<1>1. PICK flags \in BOOLEAN : lidar.h = HeaderOf(lidar.kind, flags)
  BY DEF LidarInv
<1> DEFINE h == lidar.h
<1>2. /\ h.laser_num \in Int /\ h.block_num \in Int /\ h.seq_num = 2 /\ h.conf = flags /\ h.safety = flags
      /\ h.cyber = flags /\ h.imu = flags /\ h.has_seq = flags
      /\ (lidar.kind \notin {"P40", "P64"} => h.laser_num = 4)
      /\ (lidar.kind \notin {"P40", "P64", "7_2"} => h.block_num = 2)
      /\ (lidar.kind = "P64" => h.laser_num = 64 /\ h.block_num = 6)
  BY <1>1 DEF HeaderOf
<1> HIDE DEF h
<1>3. CASE lidar.kind = "1_4"
  <2>1. h.laser_num = 4 /\ h.block_num = 2 /\ h.seq_num = 2
    BY <1>2, <1>3
  <2> QED
    BY <1>2, <1>3, <2>1 DEF TailFits, h,
       Body, HS_LIDAR_BODY_AZIMUTH_ME_V4, HS_LIDAR_BODY_CHN_UNIT_ME_V4, HS_LIDAR_BODY_CHN_UNIT_NO_CONF_ME_V4,
       HS_LIDAR_BODY_CRC_ME_V4, HS_LIDAR_CYBER_SECURITY_ME_V4, HS_LIDAR_FUNC_SAFETY_ME_V4, HS_LIDAR_HEADER_ME_V4,
       HS_LIDAR_PRE_HEADER, HS_LIDAR_TAIL_CRC_ME_V4, HS_LIDAR_TAIL_IMU_ME_V4, HS_LIDAR_TAIL_ME_V4,
       HS_LIDAR_TAIL_SEQ_NUM_ME_V4, If, PacketSize_ME_V4, ReservedInfo1, ReservedInfo2, ReservedInfo3, Tail1_4
<1>4. CASE lidar.kind = "2_4"
  <2>1. h.laser_num = 4 /\ h.block_num = 2 /\ h.seq_num = 2
    BY <1>2, <1>4
  <2> QED
    BY <1>2, <1>4, <2>1 DEF TailFits, h,
       BodyEnd2_4, HS_LIDAR_BODY_CRC_ET_V4, HS_LIDAR_BODY_LASTER_UNIT_ET_V4, HS_LIDAR_BODY_SEQ2_ET_V4,
       HS_LIDAR_HEADER_ET_V4, HS_LIDAR_PRE_HEADER, HS_LIDAR_TAIL_CRC_ET_V4, HS_LIDAR_TAIL_ET_V4,
       HS_LIDAR_TAIL_SEQ_NUM_ET_V4, PacketSize_ET_V4, ReservedInfo1, ReservedInfo2, ReservedInfo3, Tail2_4
<1>5. CASE lidar.kind = "2_5"
  <2>1. h.laser_num = 4 /\ h.block_num = 2 /\ h.seq_num = 2
    BY <1>2, <1>5
  <2> QED
    BY <1>2, <1>5, <2>1 DEF TailFits, h,
       BodyEnd2_5, HS_LIDAR_BODY_CRC_ET_V5, HS_LIDAR_BODY_LASTER_UNIT_ET_V5, HS_LIDAR_BODY_SEQ3_ET_V5,
       HS_LIDAR_CYBER_SECURITY_ET_V5, HS_LIDAR_HEADER_ET_V5, HS_LIDAR_PRE_HEADER, HS_LIDAR_TAIL_CRC_ET_V5,
       HS_LIDAR_TAIL_ET_V5, HS_LIDAR_TAIL_SEQ_NUM_ET_V5, PacketSize_ET_V5, ReservedInfo1, ReservedInfo2,
       ReservedInfo3, Tail2_5
<1>6. CASE lidar.kind = "3_1"
  <2>1. h.laser_num = 4 /\ h.block_num = 2 /\ h.seq_num = 2
    BY <1>2, <1>6
  <2> QED
    BY <1>2, <1>6, <2>1 DEF TailFits, h,
       Body, HS_LIDAR_BODY_AZIMUTH_QT_V1, HS_LIDAR_BODY_CHN_NNIT_QT_V1, HS_LIDAR_HEADER_QT_V1,
       HS_LIDAR_PRE_HEADER, HS_LIDAR_TAIL_QT_V1, If, PacketSize_QT_V1, ReservedInfo1, ReservedInfo2,
       ReservedInfo3, Tail3_1
<1>7. CASE lidar.kind = "3_2"
  <2>1. h.laser_num = 4 /\ h.block_num = 2 /\ h.seq_num = 2
    BY <1>2, <1>7
  <2> QED
    BY <1>2, <1>7, <2>1 DEF TailFits, h,
       Body, HS_LIDAR_BODY_AZIMUTH_QT_V2, HS_LIDAR_BODY_CHN_UNIT_NO_CONF_QT_V2, HS_LIDAR_BODY_CHN_UNIT_QT_V2,
       HS_LIDAR_BODY_CRC_QT_V2, HS_LIDAR_CYBER_SECURITY_QT_V2, HS_LIDAR_FUNCTION_SAFETY, HS_LIDAR_HEADER_QT_V2,
       HS_LIDAR_PRE_HEADER, HS_LIDAR_TAIL_CRC_QT_V2, HS_LIDAR_TAIL_QT_V2, HS_LIDAR_TAIL_SEQ_NUM_QT_V2, If,
       PacketSize_QT_V2, ReservedInfo1, ReservedInfo3, Tail3_2
<1>8. CASE lidar.kind = "4_3"
  <2>1. h.laser_num = 4 /\ h.block_num = 2 /\ h.seq_num = 2
    BY <1>2, <1>8
  <2> QED
    BY <1>2, <1>8, <2>1 DEF TailFits, h,
       Body, HS_LIDAR_BODY_AZIMUTH_ST_V3, HS_LIDAR_BODY_CHN_NNIT_ST_V3, HS_LIDAR_BODY_CRC_ST_V3,
       HS_LIDAR_BODY_FINE_AZIMUTH_ST_V3, HS_LIDAR_CYBER_SECURITY_ST_V3, HS_LIDAR_HEADER_ST_V3,
       HS_LIDAR_PRE_HEADER, HS_LIDAR_TAIL_CRC_ST_V3, HS_LIDAR_TAIL_SEQ_NUM_ST_V3, HS_LIDAR_TAIL_ST_V3, If,
       PacketSize_ST_V3, ReservedInfo1, ReservedInfo2, ReservedInfo3, Tail4_3
<1>9. CASE lidar.kind = "6_1"
  <2>1. h.laser_num = 4 /\ h.block_num = 2 /\ h.seq_num = 2
    BY <1>2, <1>9
  <2> QED
    BY <1>2, <1>9, <2>1 DEF TailFits, h,
       Body, HS_LIDAR_PRE_HEADER, HsLidarXTV1BodyAzimuth, HsLidarXTV1BodyChannelData, HsLidarXTV1Header,
       HsLidarXTV1Tail, PacketSize_XTV1, ReservedInfo1, ReservedInfo2, ReservedInfo3, Tail6_1
<1>10. CASE lidar.kind = "P40"
  BY <1>10 DEF TailFits,
         BLOCKNUM, HS_LIDAR_BODY_AZIMUTH_L40, HS_LIDAR_BODY_CHN_UNIT_L40, HS_LIDAR_TAIL_L40, LASERNUM,
       ReservedInfo1, TailP40
<1>11. CASE lidar.kind = "P64"
  <2>1. h.laser_num = 64 /\ h.block_num = 6
    BY <1>2, <1>11
  <2> QED
    BY <1>2, <1>11, <2>1 DEF TailFits, h,
       Body, HS_LIDAR_BODY_AZIMUTH_L64, HS_LIDAR_BODY_CHN_UNIT_L64, HS_LIDAR_L64_Header, HS_LIDAR_TAIL_L64,
       ReservedInfo1, TailP64
<1>12. CASE lidar.kind = "7_2"
  BY <1>12 DEF TailFits
<1> QED
  BY <1>3, <1>4, <1>5, <1>6, <1>7, <1>8, <1>9, <1>10, <1>11, <1>12 DEF LidarInv, AllParsers

Within(i, n) == i.elevation \in 0 .. n - 1 /\ i.azimuth \in 0 .. n - 1

\* The tables of sine and cosine, one lemma per way to correct an angle: all but ET's and AT128's,
LEMMA WithinCircle ==
  ASSUME NEW p, NEW raw, NEW laser \in Lasers, p.get_correction_file_ \in BOOLEAN,
         p.get_correction_file_ => raw \in 0 .. CIRCLE - 1
  PROVE  /\ Within(IndicesXT(p, raw, laser), CIRCLE)
         /\ raw \in 0 .. CIRCLE - 1 => Within(Indices1_4(p, raw, laser), CIRCLE)
<1>1. /\ laser.elevation \in Int /\ laser.azimuth \in Int /\ -1200 <= laser.elevation /\ -900 <= laser.azimuth
      /\ CIRCLE \in Nat /\ CIRCLE > 1200
  BY DEF Lasers, CIRCLE
<1>2. CIRCLE \in Nat /\ CIRCLE > 0 /\ 0 \in 0 .. CIRCLE - 1
  BY <1>1
<1>3. CASE ~p.get_correction_file_
  BY <1>2, <1>3 DEF IndicesXT, Indices1_4, Within
<1>4. CASE p.get_correction_file_
  <2> DEFINE x == CIRCLE + laser.elevation
             y == CIRCLE + raw + laser.azimuth
  <2>1. x \in Int /\ x >= 0
    BY <1>1
  <2>2. y \in Int /\ y >= 0
    BY <1>1, <1>4
  <2>3. /\ IndicesXT(p, raw, laser) = [elevation |-> CRem(x, CIRCLE), azimuth |-> CRem(y, CIRCLE)]
        /\ Indices1_4(p, raw, laser) = [elevation |-> CRem(x, CIRCLE), azimuth |-> CRem(y, CIRCLE)]
    BY <1>4 DEF IndicesXT, Indices1_4
  <2> HIDE DEF x, y
  <2>4. CRem(x, CIRCLE) \in 0 .. CIRCLE - 1 /\ CRem(y, CIRCLE) \in 0 .. CIRCLE - 1
    BY <1>2, <2>1, <2>2, Remainder
  <2> QED
    BY <2>3, <2>4 DEF Within
<1> QED
  BY <1>3, <1>4

\* ET's, with the angles of the mirror and what the optics bend,
LEMMA WithinBend ==
  ASSUME NEW raw \in Mirrors, NEW laser \in Lasers, NEW bow \in Bows
  PROVE  Within(Indices2_5(raw, laser, bow), CIRCLE)
<1>1. /\ laser.elevation \in Int /\ laser.azimuth \in Int /\ -1200 <= laser.elevation /\ -900 <= laser.azimuth
      /\ CIRCLE \in Nat /\ CIRCLE > 12000 /\ bow \in Int /\ -300 <= bow
      /\ raw.elevation \in Int /\ raw.azimuth \in Int /\ -6400 <= raw.elevation /\ -6400 <= raw.azimuth
  <2>1. laser.elevation \in Int /\ laser.azimuth \in Int /\ -1200 <= laser.elevation /\ -900 <= laser.azimuth
    BY DEF Lasers
  <2>2. CIRCLE \in Nat /\ CIRCLE > 12000 /\ bow \in Int /\ -300 <= bow
    BY DEF CIRCLE, Bows
  <2>3. raw.elevation \in {-6400, 0, 6399} /\ raw.azimuth \in {-6400, 0, 6399}
    BY DEF Mirrors
  <2>4. raw.elevation \in Int /\ raw.azimuth \in Int /\ -6400 <= raw.elevation /\ -6400 <= raw.azimuth
    BY <2>3
  <2> QED
    BY <2>1, <2>2, <2>4
<1> DEFINE x == raw.elevation + laser.elevation + bow + CIRCLE
           y == 9000 + raw.azimuth + laser.azimuth + bow + CIRCLE
<1>2. x \in Int /\ x >= 0 /\ y \in Int /\ y >= 0
  BY <1>1
<1>3. Indices2_5(raw, laser, bow) = [elevation |-> CRem(x, CIRCLE), azimuth |-> CRem(y, CIRCLE)]
  BY DEF Indices2_5
<1> HIDE DEF x, y
<1>4. CRem(x, CIRCLE) \in 0 .. CIRCLE - 1 /\ CRem(y, CIRCLE) \in 0 .. CIRCLE - 1
  <2>1. CIRCLE \in Nat /\ CIRCLE > 0
    BY <1>1
  <2> QED
    BY <1>2, <2>1, Remainder
<1> QED
  BY <1>3, <1>4 DEF Within

\* and AT128's, twice the angle since the start of the field.
LEMMA WithinField ==
  ASSUME NEW p, NEW raw \in Int, raw >= 0, NEW laser \in Lasers, p.fields \in {<<>>, Fields}, p.get_correction_file_ \in BOOLEAN,
         p.get_correction_file_ => Field(p, raw) # {}
  PROVE  Within(Indices4_3(p, raw, laser), MAX_AZI_LEN)
<1>1. /\ laser.elevation \in Int /\ laser.azimuth \in Int /\ -1200 <= laser.elevation
      /\ laser.azimuth <= 900 /\ MAX_AZI_LEN \in Int /\ MAX_AZI_LEN >= 9216000 /\ ANGULAR_RESOLUTION = 256
  BY DEF Lasers, MAX_AZI_LEN, ANGULAR_RESOLUTION
<1>2. CASE ~p.get_correction_file_
  <2>1. MAX_AZI_LEN \in Int /\ MAX_AZI_LEN > 0
    BY DEF MAX_AZI_LEN
  <2>2. 0 \in 0 .. MAX_AZI_LEN - 1
    BY <2>1
  <2> QED
    BY <1>2, <2>2 DEF Indices4_3, Within
<1>3. CASE p.get_correction_file_
  <2> DEFINE i == CHOOSE j \in Field(p, raw) : TRUE
             f == p.fields[i]
             turn == laser.azimuth * ANGULAR_RESOLUTION
             rise == laser.elevation * ANGULAR_RESOLUTION
             from == f.start
             x == MAX_AZI_LEN + (raw + MAX_AZI_LEN - from) * 2 - turn
             y == MAX_AZI_LEN + rise
  <2>1. i \in DOMAIN p.fields
    BY <1>3 DEF Field
  <2> HIDE DEF i
  <2>2. from \in Int /\ from >= 0 /\ from <= 6144000
    <3>1. p.fields = Fields
      BY <2>1
    <3>2. i \in 1 .. 3 /\ f.start = (i - 1) * 12000 * 256
      BY <2>1, <3>1 DEF Fields
    <3> HIDE DEF f
    <3> QED
      BY <3>2
  <2>3. turn \in Int /\ turn <= 230400 /\ rise \in Int /\ rise >= -307200
    BY SMT, <1>1
  <2>4. MAX_AZI_LEN \in Nat /\ MAX_AZI_LEN > 0
    BY <1>1
  <2>5. Indices4_3(p, raw, laser) = [elevation |-> CRem(y, MAX_AZI_LEN), azimuth |-> CRem(x, MAX_AZI_LEN)]
    BY <1>3 DEF Indices4_3, f, i
  <2> HIDE DEF turn, rise, from
  <2>6. x \in Int /\ x >= 0
    BY SMT, <1>1, <2>2, <2>3
  <2>7. y \in Int /\ y >= 0
    BY SMT, <1>1, <2>3
  <2> HIDE DEF x, y
  <2>8. CRem(x, MAX_AZI_LEN) \in 0 .. MAX_AZI_LEN - 1 /\ CRem(y, MAX_AZI_LEN) \in 0 .. MAX_AZI_LEN - 1
    BY <2>4, <2>6, <2>7, Remainder
  <2> QED
    BY <2>5, <2>8 DEF Within
<1> QED
  BY <1>2, <1>3

\* In a state of RInv the parsers read inside what they were given.
LEMMA ReadsInside == RInv => ReadsFit
<1> SUFFICES ASSUME RInv
             PROVE  ReadsFit
  OBVIOUS
<1>1. HInv /\ LidarInv /\ FileOf(hs.p) /\ OutputOf(hs.o) /\ hs.p.kind = lidar.kind /\ lidar.kind \in AllParsers
      /\ lidar.tool \in BOOLEAN
  BY DEF RInv, HInv, ParserOf, LidarInv
<1>2. TailFits(hs.p.kind, lidar.h)
  BY <1>1, TailsFit
<1>3. ASSUME NEW b \in Placed(hs.p, hs.o), NEW laser \in Lasers
      PROVE  \A i \in Indices(hs.p, hs.o.azimuth[b], laser) :
               Within(i, IF hs.p.kind = "4_3" THEN MAX_AZI_LEN ELSE CIRCLE)
  <2> DEFINE raw == hs.o.azimuth[b]
             p == hs.p
  <2>1. b \in 1 .. hs.o.block_num
    BY DEF Placed
  <2>2. p.get_correction_file_ \in BOOLEAN /\ p.fields \in {<<>>, Fields}
    BY <1>1 DEF FileOf
  <2>3. (lidar.kind # "3_2" \/ p.get_correction_file_) => raw \in 0 .. CIRCLE - 1
    BY <1>1, <2>1 DEF FileOf, OutputOf, Angled
  <2>4. lidar.kind = "4_3" /\ p.get_correction_file_ => Field(p, raw * ANGULAR_RESOLUTION) # {}
    BY <1>1 DEF Placed
  <2> HIDE DEF raw, p
  <2>5. CASE p.kind = "1_4"
    <3>1. Indices(p, raw, laser) = {Indices1_4(p, raw, laser)}
      BY <2>5 DEF Indices
    <3>2. Within(Indices1_4(p, raw, laser), CIRCLE)
      BY <1>1, <2>2, <2>3, <2>5, WithinCircle DEF p
    <3> QED
      BY <2>5, <3>1, <3>2 DEF p, raw
  <2>6. CASE p.kind \in {"6_1", "P40", "P64", "3_1", "3_2"}
    <3>1. Indices(p, raw, laser) = {IndicesXT(p, raw, laser)}
      BY <2>6 DEF Indices, IndicesP64, IndicesQT, Indices3_2
    <3>2. Within(IndicesXT(p, raw, laser), CIRCLE)
      BY <1>1, <2>2, <2>3, WithinCircle
    <3> QED
      BY <2>6, <3>1, <3>2 DEF p, raw
  <2>7. CASE p.kind = "7_2"
    <3>1. Indices(p, raw, laser) = {IndicesXT(p, 0, laser)}
      BY <2>7 DEF Indices, Indices7_2
    <3>2. 0 \in 0 .. CIRCLE - 1
      BY DEF CIRCLE
    <3>3. Within(IndicesXT(p, 0, laser), CIRCLE)
      BY <2>2, <3>2, WithinCircle
    <3> QED
      BY <2>7, <3>1, <3>3 DEF p, raw
  <2>8. CASE p.kind \in {"2_4", "2_5"}
    <3>1. \A i \in Indices(p, raw, laser) : \E x \in Mirrors, bow \in Bows : i = Indices2_5(x, laser, bow)
      BY SMT, <2>8 DEF Indices, Indices2_4
    <3>2. \A i \in Indices(p, raw, laser) : Within(i, CIRCLE)
      BY SMT, <3>1, WithinBend
    <3> QED
      BY <2>8, <3>2 DEF p, raw
  <2>9. CASE p.kind = "4_3"
    <3>1. Indices(p, raw, laser) = {Indices4_3(p, raw * ANGULAR_RESOLUTION, laser)}
      BY <2>9 DEF Indices
    <3>2. raw * ANGULAR_RESOLUTION \in Int /\ raw * ANGULAR_RESOLUTION >= 0
      <4>1. raw \in Int /\ raw >= 0
        BY <1>1, <2>3, <2>9 DEF p
      <4> QED
        BY <4>1 DEF ANGULAR_RESOLUTION
    <3>3. Within(Indices4_3(p, raw * ANGULAR_RESOLUTION, laser), MAX_AZI_LEN)
      <4> DEFINE x == raw * ANGULAR_RESOLUTION
      <4>1. p.get_correction_file_ => Field(p, x) # {}
        BY <1>1, <2>4, <2>9 DEF p
      <4>2. x \in Int /\ x >= 0
        BY <3>2
      <4> HIDE DEF x
      <4>3. Within(Indices4_3(p, x, laser), MAX_AZI_LEN)
        BY <2>2, <4>1, <4>2, WithinField
      <4> QED
        BY <4>3 DEF x
    <3> QED
      BY <2>9, <3>1, <3>3 DEF p, raw
  <2> QED
    BY <1>1, <2>5, <2>6, <2>7, <2>8, <2>9 DEF AllParsers, p
<1> QED
  BY <1>2, <1>3 DEF ReadsFit, Within

\* The parsers find the tail where the lidar put it, and read the tables of sine and
\* cosine inside them: DecodePacket and ComputeXYZI of the ten parsers.
THEOREM HesaiReadsFit == HesaiSpec => []ReadsFit
<1>1. HesaiInit => RInv
  BY InitR
<1> QED
  BY <1>1, RInvStep, ReadsInside, PTL DEF HesaiSpec
-----------------------------------------------------------------------------
(* The clouds of a decoder.                                                *)

\* The user cuts by a number of blocks, not by an angle.
CutByNumber(d) == d.lidar \in MechLidars /\ d.param.split_frame_mode # "angle"
\* The rounds r and s may follow each other in the clouds.
Ordered(d, r, s) == IF CutByNumber(d) THEN r <= s ELSE r < s
\* A cloud's points are of one round, or of rounds that begin in it beyond zero.
SameRound(c) == c.early \subseteq c.rounds /\ \A r, s \in c.rounds : r < s => s \notin c.early

\* The clouds handed over: their numbers, sizes and rounds.
HandedInv(d, most) ==
  /\ d.seq = Len(d.out) /\ \E S : d.out \in Seq(S)
  /\ \A i \in 1 .. Len(d.out) :
       /\ d.out[i].cloud.rounds \subseteq Int /\ d.out[i].seq = i - 1
       /\ d.out[i].height * d.out[i].width = d.out[i].cloud.size
       /\ IF CutByNumber(d) THEN d.out[i].cloud.blks <= most ELSE SameRound(d.out[i].cloud)

\* The cloud being filled.
CloudInv(d, most) ==
  LET c == d.point_cloud_
  IN  /\ DOMAIN c = {"rounds", "early", "size", "blks"} /\ c.rounds \subseteq Int /\ c.size \in Nat /\ c.blks \in Nat
      /\ c.size = 0 => c.rounds = {} /\ c.blks = 0
      /\ ~d.param.dense_points => c.size % d.P.LASER_NUM = 0
      /\ IF CutByNumber(d) THEN c.blks <= most ELSE SameRound(c)

\* The clouds' rounds rise; top is the round of the last block.
OrderInv(d, top) ==
  /\ \A i, j \in 1 .. Len(d.out) : i < j => \A r \in d.out[i].cloud.rounds, s \in d.out[j].cloud.rounds : Ordered(d, r, s)
  /\ \A i \in 1 .. Len(d.out) : \A r \in d.out[i].cloud.rounds :
       Ordered(d, r, top) /\ \A s \in d.point_cloud_.rounds : Ordered(d, r, s)
  /\ \A s \in d.point_cloud_.rounds : s <= top /\ (d.lidar \notin MechLidars => s = top)

\* The clouds of a decoder whose last block was of the round top.
CloudsInv(d, most, top) == HandedInv(d, most) /\ CloudInv(d, most) /\ OrderInv(d, top)

\* The fields of every decoder, of a mechanical lidar's, and of the constants used here.
DecoderMembers == {"lidar", "P", "param", "echo_mode_", "angles_ready_", "packet_duration_", "temperature_", "prev_pkt_ts_",
                   "prev_point_ts_", "first_point_ts_", "split_strategy_", "point_cloud_", "seq", "out"}
MechMembers == DecoderMembers \cup
  {"rps_", "blks_per_frame_", "split_blks_per_frame_", "block_az_diff_", "fov_blind_ts_diff_", "lidar_model_",
   "scan_section_", "chan_angles_"}
ParamMembers == {"MSOP_LEN", "DIFOP_LEN", "LASER_NUM", "BLOCKS_PER_PKT", "CHANNELS_PER_BLOCK"}

\* A decoder's constants.
ConstInv(d) ==
  /\ DecoderMembers \subseteq DOMAIN d /\ ParamMembers \subseteq DOMAIN d.P
  /\ d.P.LASER_NUM \in Nat \ {0} /\ d.P.BLOCKS_PER_PKT \in Nat \ {0}
  /\ d.P.CHANNELS_PER_BLOCK \in Nat \ {0} /\ d.P.CHANNELS_PER_BLOCK % d.P.LASER_NUM = 0
  /\ d.param.dense_points \in BOOLEAN

\* e is d but for what neither the clouds nor the cuts depend on.
Kin(e, d) ==
  /\ DOMAIN e = DOMAIN d /\ e.lidar = d.lidar /\ e.param = d.param /\ DOMAIN e.P = DOMAIN d.P
  /\ \A f \in ParamMembers : e.P[f] = d.P[f]
  /\ e.P.BLOCK_DURATION = d.P.BLOCK_DURATION

\* Points are added in multiples of the lasers.
LEMMA SumOfMultiples ==
  ASSUME NEW a \in Nat, NEW b \in Nat, NEW h \in Nat, h > 0, a % h = 0, b % h = 0
  PROVE  (a + b) % h = 0
<1> DEFINE x == a \div h
           y == b \div h
<1>1. x \in Int /\ y \in Int /\ a = h * x /\ b = h * y
  OBVIOUS
<1> HIDE DEF x, y
<1>2. a + b = h * (x + y)
  BY <1>1
<1>3. (h * (x + y)) % h = 0
  BY <1>1
<1> QED
  BY <1>2, <1>3

\* The two ways to cut.
LEMMA SplitKeeps ==
  ASSUME NEW d, NEW most \in Nat, NEW top \in Int, NEW top2 \in Int, NEW ts, ConstInv(d), CloudsInv(d, most, top), Ordered(d, top, top2)
  PROVE  LET e == Split(d, ts)
         IN  /\ CloudsInv(e, most, top2) /\ Kin(e, d) /\ e.split_strategy_ = d.split_strategy_
             /\ e.point_cloud_.rounds = {} /\ e.point_cloud_.blks = 0
<1> DEFINE e == Split(d, ts)
           x == Header(d, d.P.LASER_NUM, cloudTs(d))
           c == d.point_cloud_
<1> SUFFICES /\ CloudsInv(e, most, top2) /\ Kin(e, d) /\ e.split_strategy_ = d.split_strategy_
             /\ e.point_cloud_.rounds = {} /\ e.point_cloud_.blks = 0
  OBVIOUS
<1>1. Kin(e, d) /\ e.split_strategy_ = d.split_strategy_
  BY DEF Kin, Split, splitFrame, ConstInv, DecoderMembers
<1>2. CutByNumber(e) = CutByNumber(d) /\ \A r, s : Ordered(e, r, s) = Ordered(d, r, s)
  BY <1>1 DEF CutByNumber, Kin, Ordered
<1>3. c.size \in Nat
  BY DEF CloudsInv, CloudInv
<1>4. CASE c.size = 0
  <2>1. e.out = d.out /\ e.seq = d.seq /\ e.point_cloud_ = c
    BY <1>4 DEF Split, splitFrame, ConstInv, DecoderMembers
  <2> HIDE DEF e
  <2>2. HandedInv(e, most)
    BY <1>2, <2>1 DEF CloudsInv, HandedInv
  <2>3. CloudInv(e, most)
    BY <1>1, <1>2, <2>1 DEF CloudsInv, CloudInv, Kin, ParamMembers
  <2>4. OrderInv(e, top2)
    <3>1. c.rounds = {}
      BY <1>4 DEF CloudsInv, CloudInv
    <3>2. ASSUME NEW i \in 1 .. Len(d.out), NEW r \in d.out[i].cloud.rounds
          PROVE  Ordered(d, r, top2)
      BY <3>1 DEF CloudsInv, HandedInv, OrderInv, Ordered
    <3> QED
      BY <1>2, <2>1, <3>1, <3>2 DEF CloudsInv, OrderInv
  <2> QED
    BY <1>1, <1>4, <2>1, <2>2, <2>3, <2>4 DEF CloudsInv, CloudInv
<1>5. CASE c.size > 0
  <2>1. e.out = Append(d.out, x) /\ e.seq = d.seq + 1 /\ e.point_cloud_ = EmptyCloud
    BY <1>5 DEF Split, splitFrame, ConstInv, DecoderMembers
  <2>2. x.cloud = c /\ x.seq = d.seq /\ x.height = (IF d.param.dense_points THEN 1 ELSE d.P.LASER_NUM)
        /\ x.width = c.size \div x.height
    BY DEF Header
  <2>3. x.height * x.width = c.size
    <3>1. CASE d.param.dense_points
      <4>1. x.height = 1 /\ x.width = c.size \div 1
        BY <2>2, <3>1
      <4> QED
        BY <1>3, <4>1
    <3>2. CASE ~d.param.dense_points
      <4> DEFINE h == d.P.LASER_NUM
      <4>1. x.height = h /\ x.width = c.size \div h /\ c.size % h = 0 /\ h \in Nat /\ h > 0
        BY <2>2, <3>2 DEF ConstInv, CloudsInv, CloudInv
      <4> HIDE DEF h
      <4> QED
        BY <1>3, <4>1
    <3> QED
      BY <3>1, <3>2
  <2> HIDE DEF e, x
  <2>4. PICK S : d.out \in Seq(S)
    BY DEF CloudsInv, HandedInv
  <2>5. /\ e.out \in Seq(S \cup {x}) /\ Len(d.out) \in Nat /\ Len(e.out) = Len(d.out) + 1
        /\ e.out[Len(d.out) + 1] = x /\ \A i \in 1 .. Len(d.out) : e.out[i] = d.out[i]
    BY <2>1, <2>4
  <2>6. HandedInv(e, most)
    <3>1. d.seq = Len(d.out)
      BY DEF CloudsInv, HandedInv
    <3>2. c.rounds \subseteq Int /\ IF CutByNumber(d) THEN c.blks <= most ELSE SameRound(c)
      BY DEF CloudsInv, CloudInv
    <3>3. ASSUME NEW i \in 1 .. Len(e.out)
          PROVE  /\ e.out[i].cloud.rounds \subseteq Int /\ e.out[i].seq = i - 1
                 /\ e.out[i].height * e.out[i].width = e.out[i].cloud.size
                 /\ IF CutByNumber(d) THEN e.out[i].cloud.blks <= most ELSE SameRound(e.out[i].cloud)
      <4>1. CASE i = Len(d.out) + 1
        BY <2>2, <2>3, <2>5, <3>1, <3>2, <4>1
      <4>2. CASE i \in 1 .. Len(d.out)
        BY <2>5, <4>2 DEF CloudsInv, HandedInv
      <4> QED
        BY <2>5, <4>1, <4>2
    <3> QED
      BY <1>2, <2>1, <2>5, <3>1, <3>3 DEF HandedInv
  <2>7. CloudInv(e, most)
    <3>1. /\ DOMAIN e.point_cloud_ = {"rounds", "early", "size", "blks"} /\ e.point_cloud_.rounds = {}
          /\ e.point_cloud_.early = {}
          /\ e.point_cloud_.size = 0 /\ e.point_cloud_.blks = 0
      BY <2>1 DEF EmptyCloud
    <3>2. 0 % e.P.LASER_NUM = 0
      <4>1. e.P.LASER_NUM \in Nat /\ e.P.LASER_NUM > 0
        BY <1>1 DEF Kin, ParamMembers, ConstInv
      <4> QED
        BY <4>1
    <3>3. CutByNumber(d) => 0 <= most
      BY DEF CloudsInv, CloudInv
    <3> QED
      BY <1>2, <3>1, <3>2, <3>3 DEF CloudInv, SameRound
  <2>8. OrderInv(e, top2)
    <3>1. /\ \A s \in c.rounds : s <= top
          /\ c.rounds \subseteq Int
      BY DEF CloudsInv, CloudInv, OrderInv
    <3>2. ASSUME NEW i \in 1 .. Len(e.out), NEW r \in e.out[i].cloud.rounds
          PROVE  Ordered(d, r, top2)
      <4>1. CASE i = Len(d.out) + 1
        BY <2>2, <2>5, <3>1, <4>1 DEF Ordered
      <4>2. CASE i \in 1 .. Len(d.out)
        BY <2>5, <4>2 DEF CloudsInv, HandedInv, OrderInv, Ordered
      <4> QED
        BY <2>5, <4>1, <4>2
    <3>3. ASSUME NEW i \in 1 .. Len(e.out), NEW j \in 1 .. Len(e.out), i < j,
                 NEW r \in e.out[i].cloud.rounds, NEW s \in e.out[j].cloud.rounds
          PROVE  Ordered(d, r, s)
      <4>1. i \in 1 .. Len(d.out) /\ e.out[i] = d.out[i]
        BY <2>5, <3>3
      <4>2. CASE j = Len(d.out) + 1
        <5>1. s \in c.rounds
          BY <2>2, <2>5, <4>2
        <5> QED
          BY <4>1, <5>1 DEF CloudsInv, OrderInv
      <4>3. CASE j \in 1 .. Len(d.out)
        BY <2>5, <3>3, <4>1, <4>3 DEF CloudsInv, OrderInv
      <4> QED
        BY <2>5, <4>2, <4>3
    <3>4. e.point_cloud_.rounds = {}
      BY <2>1 DEF EmptyCloud
    <3> QED
      BY <1>2, <3>2, <3>3, <3>4 DEF OrderInv
  <2> QED
    BY <1>1, <2>1, <2>6, <2>7, <2>8 DEF CloudsInv, EmptyCloud
<1> QED
  BY <1>3, <1>4, <1>5

\* Points of the round top2 are added.
LEMMA AddKeeps ==
  ASSUME NEW d, NEW e, NEW most \in Nat, NEW top \in Int, NEW top2 \in Int, NEW early \in BOOLEAN, NEW n \in Nat, NEW blks \in Nat,
         ConstInv(d), CloudsInv(d, most, top), Kin(e, d), e.seq = d.seq, e.out = d.out,
         e.point_cloud_ = AddPoints(d.point_cloud_, top2, early, n, blks),
         top <= top2, d.lidar \notin MechLidars => top = top2,
         IF CutByNumber(d) THEN d.point_cloud_.blks + blks <= most
         ELSE early => d.point_cloud_.rounds \subseteq {top2},
         ~d.param.dense_points => n % d.P.LASER_NUM = 0
  PROVE  CloudsInv(e, most, top2)
<1> DEFINE c == d.point_cloud_
           f == e.point_cloud_
<1>1. e.lidar = d.lidar /\ CutByNumber(e) = CutByNumber(d) /\ \A r, s : Ordered(e, r, s) = Ordered(d, r, s)
  BY DEF CutByNumber, Kin, Ordered
<1>2. /\ DOMAIN c = {"rounds", "early", "size", "blks"} /\ c.rounds \subseteq Int /\ c.size \in Nat /\ c.blks \in Nat
      /\ c.size = 0 => c.rounds = {} /\ c.blks = 0
      /\ \A s \in c.rounds : s <= top /\ (d.lidar \notin MechLidars => s = top)
      /\ IF CutByNumber(d) THEN c.blks <= most ELSE SameRound(c)
  BY DEF CloudsInv, CloudInv, OrderInv
<1>3. HandedInv(e, most)
  BY <1>1 DEF CloudsInv, HandedInv
<1>4. /\ DOMAIN f = {"rounds", "early", "size", "blks"} /\ f.rounds \subseteq c.rounds \cup {top2} /\ f.size = c.size + n
      /\ f.blks \in Nat /\ c.blks <= f.blks /\ f.blks <= c.blks + blks
      /\ n = 0 => f = c
      /\ n # 0 => f.rounds = c.rounds \cup {top2} /\ f.early = IF early THEN c.early \cup {top2} ELSE c.early
  BY <1>2 DEF AddPoints
<1>5. f.rounds \subseteq Int /\ \A s \in f.rounds : s <= top2 /\ (d.lidar \notin MechLidars => s = top2)
  BY <1>2, <1>4
<1>6. CloudInv(e, most)
  <2>1. f.size = 0 => f.rounds = {} /\ f.blks = 0
    BY <1>2, <1>4
  <2>2. IF CutByNumber(d) THEN f.blks <= most ELSE SameRound(f)
    <3>1. CASE CutByNumber(d)
      BY <1>2, <1>4, <3>1
    <3>2. CASE ~CutByNumber(d) /\ n = 0
      BY <1>2, <1>4, <3>2
    <3>3. CASE ~CutByNumber(d) /\ n # 0
      <4>1. f.early \subseteq f.rounds
        BY <1>2, <1>4, <3>3 DEF SameRound
      <4>2. ASSUME NEW r \in f.rounds, NEW s \in f.rounds, r < s
            PROVE  s \notin f.early
        <5>1. CASE s \in c.rounds
          <6>1. r \in Int /\ s \in Int /\ s <= top2
            BY <1>5
          <6>2. r \in c.rounds /\ r # top2
            BY <1>4, <4>2, <6>1
          <6>3. s \notin c.early
            BY <1>2, <3>3, <4>2, <5>1, <6>2 DEF SameRound
          <6>4. ~early \/ s # top2
            BY <3>3, <6>2, <4>2, <6>1
          <6> QED
            BY <1>4, <3>3, <6>3, <6>4
        <5>2. CASE s \notin c.rounds
          <6>1. s = top2 /\ r \in c.rounds /\ r # top2
            BY <1>4, <1>5, <3>3, <4>2, <5>2
          <6>2. ~early
            BY <3>3, <6>1
          <6> QED
            BY <1>2, <1>4, <3>3, <5>2, <6>2 DEF SameRound
        <5> QED
          BY <5>1, <5>2
      <4> QED
        BY <3>3, <4>1, <4>2 DEF SameRound
    <3> QED
      BY <3>1, <3>2, <3>3
  <2>3. ~d.param.dense_points => f.size % d.P.LASER_NUM = 0
    <3> DEFINE h == d.P.LASER_NUM
    <3>1. h \in Nat /\ h > 0
      BY DEF ConstInv
    <3>2. ~d.param.dense_points => c.size % h = 0 /\ n % h = 0
      BY DEF CloudsInv, CloudInv
    <3> HIDE DEF h
    <3>3. c.size % h = 0 /\ n % h = 0 => (c.size + n) % h = 0
      BY <1>2, <3>1, SumOfMultiples
    <3> QED
      BY <1>4, <3>2, <3>3 DEF h
  <2>4. e.param = d.param /\ e.P.LASER_NUM = d.P.LASER_NUM
    BY DEF Kin, ParamMembers
  <2> QED
    BY <1>1, <1>2, <1>4, <1>5, <2>1, <2>2, <2>3, <2>4 DEF CloudInv
<1>7. OrderInv(e, top2)
  <2>1. ASSUME NEW i \in 1 .. Len(d.out), NEW r \in d.out[i].cloud.rounds
        PROVE  Ordered(d, r, top2) /\ \A s \in f.rounds : Ordered(d, r, s)
    <3>1. Ordered(d, r, top) /\ r \in Int /\ \A s \in c.rounds : Ordered(d, r, s)
      BY DEF CloudsInv, HandedInv, OrderInv
    <3>2. Ordered(d, r, top2)
      BY <3>1 DEF Ordered
    <3> QED
      BY <1>4, <3>1, <3>2
  <2> QED
    BY <1>1, <1>5, <2>1 DEF CloudsInv, OrderInv
<1> QED
  BY <1>3, <1>6, <1>7 DEF CloudsInv

-----------------------------------------------------------------------------
(* A mechanical lidar's angles.                                            *)

\* A product with a constant grows with the other factor.
LEMMA Products ==
  ASSUME NEW S \in Nat, NEW x \in Int, NEW y \in Int, x <= y
  PROVE  S * x <= S * y /\ S * x \in Int /\ S * y \in Int
OBVIOUS

\* Two firings less than a round apart, of rounds of K firings.
LEMMA Laps ==
  ASSUME NEW K \in Nat, K > 0, NEW f \in Nat, NEW g \in Nat, f <= g, g - f < K
  PROVE  /\ f % K \in Int /\ 0 <= f % K /\ f % K < K /\ g % K \in Int /\ 0 <= g % K /\ g % K < K
         /\ f \div K \in Int /\ g \div K \in Int
         /\ \/ g \div K = f \div K /\ f % K <= g % K
            \/ g \div K = f \div K + 1 /\ g % K < f % K
<1> DEFINE a == f \div K
           b == g \div K
           i == f % K
           j == g % K
<1>1. /\ a \in Int /\ b \in Int /\ i \in Int /\ 0 <= i /\ i < K /\ j \in Int /\ 0 <= j /\ j < K
      /\ f = K * a + i /\ g = K * b + j
  OBVIOUS
<1> HIDE DEF a, b, i, j
<1>2. a <= b
  <2>1. b + 1 <= a => K * (b + 1) <= K * a
    BY <1>1, Products
  <2>2. K * (b + 1) = K * b + K /\ K * b \in Int /\ K * a \in Int
    BY <1>1
  <2> QED
    BY <1>1, <2>1, <2>2
<1>3. b <= a + 1
  <2>1. a + 2 <= b => K * (a + 2) <= K * b
    BY <1>1, Products
  <2>2. K * (a + 2) = K * a + K + K /\ K * b \in Int /\ K * a \in Int
    BY <1>1
  <2> QED
    BY <1>1, <2>1, <2>2
<1>4. CASE b = a
  <2>1. K * b = K * a /\ K * a \in Int
    BY <1>1, <1>4
  <2> QED
    BY <1>1, <1>4, <2>1 DEF a, b, i, j
<1>5. CASE b = a + 1
  <2>1. K * b = K * a + K /\ K * a \in Int
    BY <1>1, <1>5
  <2>2. j < i
    BY <1>1, <2>1
  <2> QED
    BY <1>1, <1>5, <2>2 DEF a, b, i, j
<1> QED
  BY <1>1, <1>2, <1>3, <1>4, <1>5

\* The cut between an angle and a later one, less than a round away, that lies before zero.
LEMMA CutExactly ==
  ASSUME NEW A \in Int, NEW B \in Int, NEW k \in Int, NEW m \in Int, NEW p \in Int, NEW q \in Int, NEW s \in Nat,
         A = 36000 * k + p, B = 36000 * m + q, 0 <= p, p < 36000, 0 <= q, q < 36000,
         \/ m = k /\ p <= q
         \/ m = k + 1 /\ q < p
  PROVE  LET prev == IF B % 36000 < A % 36000 THEN (A % 36000) - 36000 ELSE A % 36000
         IN  /\ (A - s) \div 36000 \in Int /\ (B - s) \div 36000 \in Int
             /\ (A - s) \div 36000 <= (B - s) \div 36000
             /\ prev < s /\ s <= B % 36000 <=> (A - s) \div 36000 # (B - s) \div 36000 /\ s <= B % 36000
             /\ (A - s) \div 36000 = (B - s) \div 36000 /\ s <= B % 36000 => s <= A % 36000
<1>1. A % 36000 = p /\ B % 36000 = q
  OBVIOUS
<1>2. s <= 36000 => (A - s) \div 36000 = IF s <= p THEN k ELSE k - 1
  OBVIOUS
<1>3. s <= 36000 => (B - s) \div 36000 = IF s <= q THEN m ELSE m - 1
  OBVIOUS
<1>4. (A - s) \div 36000 \in Int /\ (B - s) \div 36000 \in Int /\ (A - s) \div 36000 <= (B - s) \div 36000
  OBVIOUS
<1> QED
  BY <1>1, <1>2, <1>3, <1>4

\* The round of the block b, counted from the user's cut, and whether it lies before zero.
Turn(b) == (AngleOf(Firing(b)) - device.split) \div RS_ONE_ROUND
Early(b) == device.split <= AngleOf(Firing(b)) % RS_ONE_ROUND

\* The lidar's settings: its firings fit into a round.
DeviceInv ==
  /\ device.mode \in {"single", "dual"} /\ device.rps \in Nat /\ device.rps >= 1 /\ device.split \in Nat
  /\ FiringsPerRound \in Nat /\ dec.P.BLOCKS_PER_PKT + 1 < FiringsPerRound /\ Step * FiringsPerRound <= RS_ONE_ROUND

\* Between two firings less than a round apart the strategy sees the cut when the round changes, unless zero was crossed too.
LEMMA AnglesCut ==
  ASSUME DeviceInv, dec.P.BLOCKS_PER_PKT \in {3, 4, 8, 12}, NEW f \in Nat, NEW g \in Nat, f <= g,
         g - f <= dec.P.BLOCKS_PER_PKT + 1
  PROVE  LET A == AngleOf(f)
             B == AngleOf(g)
             prev == IF B % 36000 < A % 36000 THEN (A % 36000) - 36000 ELSE A % 36000
             s == device.split
         IN  /\ (A - s) \div 36000 \in Int /\ (B - s) \div 36000 \in Int
             /\ (A - s) \div 36000 <= (B - s) \div 36000
             /\ prev < s /\ s <= B % 36000 <=> (A - s) \div 36000 # (B - s) \div 36000 /\ s <= B % 36000
             /\ (A - s) \div 36000 = (B - s) \div 36000 /\ s <= B % 36000 => s <= A % 36000
<1> DEFINE K == FiringsPerRound
           half == K \div 2
           S == Step
           H == S * half
           i == f % K
           j == g % K
           a == f \div K
           b == g \div K
           U == S * i
           V == S * j
           W == S * K
           s == device.split
           A == AngleOf(f)
           B == AngleOf(g)
<1>1. K \in Nat /\ K > 4 /\ half \in Int /\ 0 <= half /\ half < K /\ g - f < K
  BY DEF DeviceInv
<1>2. S \in Nat /\ S >= 1
  BY DEF Step, FiringsPerBlock, DeviceInv
<1>3. A = (36000 - H) + a * 36000 + i * S /\ B = (36000 - H) + b * 36000 + j * S
  BY <1>1 DEF AngleOf, FirstAz, RS_ONE_ROUND
<1>4. s \in Nat /\ W <= 36000
  BY DEF DeviceInv, RS_ONE_ROUND
<1> HIDE DEF K, half, S, s, A, B
<1>5. /\ i \in Int /\ 0 <= i /\ i < K /\ j \in Int /\ 0 <= j /\ j < K /\ a \in Int /\ b \in Int
      /\ \/ b = a /\ i <= j
         \/ b = a + 1 /\ j < i
  BY <1>1, Laps
<1> HIDE DEF i, j, a, b
\* A product with the step, one firing further.
<1>6. \A x, y \in Int : /\ S * x \in Int
                        /\ x <= y => S * x <= S * y
                        /\ x < y => S * x + S <= S * y
  <2> SUFFICES ASSUME NEW x \in Int, NEW y \in Int
               PROVE  S * x \in Int /\ (x <= y => S * x <= S * y) /\ (x < y => S * x + S <= S * y)
    OBVIOUS
  <2>1. S * x \in Int /\ (x <= y => S * x <= S * y)
    BY <1>2, Products
  <2>2. x + 1 <= y => S * (x + 1) <= S * y
    BY <1>2, Products
  <2>3. S * (x + 1) = S * x + S
    BY <1>2
  <2> QED
    BY <1>2, <2>1, <2>2, <2>3
<1>7. /\ U \in Int /\ V \in Int /\ H \in Int /\ W \in Int /\ 0 <= U /\ 0 <= V /\ 0 <= H
      /\ U + S <= W /\ V + S <= W /\ H <= W
  <2>1. S * 0 = 0
    BY <1>2
  <2> QED
    BY <1>1, <1>5, <1>6, <2>1
<1>8. (i <= j => U <= V) /\ (j < i => V + S <= U)
  BY <1>5, <1>6
<1>9. (i < half => U + S <= H) /\ (j < half => V + S <= H) /\ (i >= half => U >= H) /\ (j >= half => V >= H)
  BY <1>1, <1>5, <1>6
<1>10. A = 36000 * (a + 1) + (U - H) /\ B = 36000 * (b + 1) + (V - H)
  <2>1. i * S = U /\ j * S = V
    BY <1>2, <1>5
  <2> QED
    BY <1>3, <1>5, <1>7, <2>1
<1> HIDE DEF U, V, H, W
<1> DEFINE k == IF i < half THEN a ELSE a + 1
           m == IF j < half THEN b ELSE b + 1
           p == IF i < half THEN 36000 + U - H ELSE U - H
           q == IF j < half THEN 36000 + V - H ELSE V - H
<1>11. k \in Int /\ m \in Int /\ p \in Int /\ q \in Int /\ A = 36000 * k + p /\ B = 36000 * m + q
  BY <1>5, <1>7, <1>10
<1>12. 0 <= p /\ p < 36000 /\ 0 <= q /\ q < 36000
  BY <1>1, <1>2, <1>4, <1>5, <1>7, <1>9
<1>13. \/ m = k /\ p <= q
       \/ m = k + 1 /\ q < p
  <2>1. CASE b = a /\ i <= j
    BY <1>1, <1>2, <1>4, <1>5, <1>7, <1>8, <1>9, <2>1
  <2>2. CASE b = a + 1 /\ j < i
    BY <1>1, <1>2, <1>4, <1>5, <1>7, <1>8, <1>9, <2>2
  <2> QED
    BY <1>5, <2>1, <2>2
<1>14. A \in Int /\ B \in Int
  BY <1>11
<1> HIDE DEF k, m, p, q
<1> QED
  BY <1>4, <1>11, <1>12, <1>13, <1>14, CutExactly DEF A, B, s

-----------------------------------------------------------------------------
(* A block of a mechanical lidar.                                          *)

\* A mechanical decoder's constants.
ModeInv(d) ==
  /\ d.lidar \in MechLidars /\ d.P.BLOCKS_PER_PKT \in {3, 4, 8, 12} /\ MechMembers \subseteq DOMAIN d
  /\ "BLOCK_DURATION" \in DOMAIN d.P /\ d.P.BLOCK_DURATION \in Nat \ {0}
  /\ d.param.split_frame_mode \in {"angle", "fixed", "custom"} /\ d.param.split_angle = device.split

\* The strategy after the block b.
StrategyInv(d, b) ==
  LET s == d.split_strategy_
  IN  /\ DOMAIN s = DOMAIN StrategyOf(d.param)
      /\ IF CutByNumber(d)
         THEN /\ s.kind = "num" /\ s.source = d.param.split_frame_mode
              /\ s.blks \in Nat /\ d.point_cloud_.blks <= s.blks + 1 /\ s.blks + 1 <= MaxBlks
         ELSE s.kind = "angle" /\ s.split_angle = device.split /\ s.prev_angle = AngleOf(Firing(b)) % RS_ONE_ROUND

\* A decoder that has handed over nothing, and one that has seen no block.
NoCloudYet(d) == d.point_cloud_ = EmptyCloud /\ d.out = <<>> /\ d.seq = 0
Fresh(d) == d.split_strategy_ = StrategyOf(d.param) /\ NoCloudYet(d)
\* The decoder after the block b: before zero the cloud has no other round.
AtBlock(d, b) ==
  /\ StrategyInv(d, b) /\ CloudsInv(d, MaxBlks, Turn(b))
  /\ ~CutByNumber(d) /\ Early(b) => d.point_cloud_.rounds \subseteq {Turn(b)}

\* The numbers of blocks that a DIFOP packet sets.
BlksInv(d) ==
  /\ d.blks_per_frame_ \in Nat /\ d.split_blks_per_frame_ \in Nat /\ MaxBlks \in Nat /\ MaxBlks >= 1
  /\ d.param.split_frame_mode = "fixed" => 2 * d.blks_per_frame_ <= MaxBlks /\ d.split_blks_per_frame_ <= MaxBlks
  /\ d.param.split_frame_mode = "custom" => d.param.num_blks_split \in Nat /\ d.param.num_blks_split <= MaxBlks

\* What the clouds are read from.
LEMMA SameClouds ==
  ASSUME NEW d, NEW e, NEW most, NEW top, CloudsInv(d, most, top), Kin(e, d), e.seq = d.seq, e.out = d.out,
         e.point_cloud_ = d.point_cloud_
  PROVE  CloudsInv(e, most, top)
<1>1. CutByNumber(e) = CutByNumber(d) /\ \A r, s : Ordered(e, r, s) = Ordered(d, r, s)
  BY DEF CutByNumber, Kin, Ordered
<1>2. HandedInv(e, most)
  BY <1>1 DEF CloudsInv, HandedInv
<1>3. CloudInv(e, most)
  BY <1>1 DEF CloudsInv, CloudInv, Kin, ParamMembers
<1>4. OrderInv(e, top)
  BY <1>1 DEF CloudsInv, OrderInv, Kin
<1> QED
  BY <1>2, <1>3, <1>4 DEF CloudsInv

\* Before the first block any round may come.
LEMMA FirstCloud ==
  ASSUME NEW d, NEW most \in Nat, NEW top \in Int, NoCloudYet(d), ConstInv(d)
  PROVE  CloudsInv(d, most, top)
<1>1. d.out = <<>> /\ d.seq = 0 /\ d.point_cloud_ = [rounds |-> {}, early |-> {}, size |-> 0, blks |-> 0]
  BY DEF NoCloudYet, EmptyCloud
<1>2. HandedInv(d, most)
  <2>1. Len(d.out) = 0 /\ d.out \in Seq({})
    BY <1>1
  <2> QED
    BY <1>1, <2>1 DEF HandedInv
<1>3. CloudInv(d, most)
  <2>1. d.P.LASER_NUM \in Nat /\ d.P.LASER_NUM > 0
    BY DEF ConstInv
  <2>2. 0 % d.P.LASER_NUM = 0
    BY <2>1
  <2> QED
    BY <1>1, <2>2 DEF CloudInv, SameRound
<1>4. OrderInv(d, top)
  BY <1>1 DEF OrderInv
<1> QED
  BY <1>2, <1>3, <1>4 DEF CloudsInv

\* A decoder's kin has its constants.
LEMMA KinIs ==
  ASSUME NEW d, NEW e, Kin(e, d)
  PROVE  /\ ConstInv(d) => ConstInv(e)
         /\ ModeInv(d) => ModeInv(e)
         /\ CutByNumber(e) = CutByNumber(d)
BY SMT DEF Kin, ConstInv, ModeInv, CutByNumber, ParamMembers

\* AnglesCut for the blocks of a packet and of the one after it.
LEMMA FiringsCut ==
  ASSUME DeviceInv, dec.P.BLOCKS_PER_PKT \in {3, 4, 8, 12}, NEW b \in Nat, NEW b2 \in Nat, b <= b2,
         b2 - b <= dec.P.BLOCKS_PER_PKT + 1
  PROVE  LET angle == AngleOf(Firing(b2)) % RS_ONE_ROUND
             last == AngleOf(Firing(b)) % RS_ONE_ROUND
             prev == IF angle < last THEN last - RS_ONE_ROUND ELSE last
         IN  /\ Turn(b) \in Int /\ Turn(b2) \in Int /\ Turn(b) <= Turn(b2)
             /\ prev < device.split /\ device.split <= angle <=> Turn(b) # Turn(b2) /\ Early(b2)
             /\ Turn(b) = Turn(b2) /\ Early(b2) => Early(b)
<1>1. /\ Firing(b) \in Nat /\ Firing(b2) \in Nat /\ Firing(b) <= Firing(b2)
      /\ Firing(b2) - Firing(b) <= dec.P.BLOCKS_PER_PKT + 1
  BY DEF Firing, DeviceInv
<1> QED
  BY <1>1, AnglesCut DEF Turn, Early, RS_ONE_ROUND

\* The angle of a block is a number.
LEMMA AngleTyped ==
  ASSUME DeviceInv, dec.P.BLOCKS_PER_PKT \in {3, 4, 8, 12}, NEW b \in Nat
  PROVE  AngleOf(Firing(b)) \in Int /\ AngleOf(Firing(b)) % RS_ONE_ROUND \in Int
<1>1. Firing(b) \in Nat /\ FiringsPerRound \in Nat /\ FiringsPerRound > 0
  BY DEF Firing, DeviceInv
<1>2. Step \in Nat /\ FiringsPerRound \div 2 \in Int
  BY <1>1 DEF Step, FiringsPerBlock, DeviceInv
<1>3. Firing(b) \div FiringsPerRound \in Int /\ Firing(b) % FiringsPerRound \in Int
  BY <1>1
<1>4. FirstAz \in Int
  BY <1>2 DEF FirstAz, RS_ONE_ROUND
<1> QED
  BY <1>2, <1>3, <1>4 DEF AngleOf, RS_ONE_ROUND

\* Which points a block adds.
LEMMA KeptPoints ==
  ASSUME NEW d, NEW valid, NEW in \in BOOLEAN, ConstInv(d), valid = (d.P.CHANNELS_PER_BLOCK + 1) \div 2
  PROVE  LET n == Kept(d, IF in THEN valid ELSE 0, d.P.CHANNELS_PER_BLOCK)
         IN  n \in Nat /\ (~d.param.dense_points => n % d.P.LASER_NUM = 0)
BY DEF Kept, ConstInv

\* A block that follows the block b, no more than a packet and one block later, or comes first.
LEMMA MechBlockKeeps ==
  ASSUME NEW d, NEW b2 \in Nat, NEW ts, DeviceInv, ConstInv(d), ModeInv(d), BlksInv(d), Kin(d, dec),
         Fresh(d) \/ \E b \in Nat : b <= b2 /\ b2 - b <= d.P.BLOCKS_PER_PKT + 1 /\ AtBlock(d, b)
  PROVE  LET r == MechBlock(d, MechBlockOf(b2), ts)
         IN  /\ AtBlock(r, b2) /\ Kin(r, d) /\ r.angles_ready_ = d.angles_ready_
             /\ r.blks_per_frame_ = d.blks_per_frame_ /\ r.split_blks_per_frame_ = d.split_blks_per_frame_
<1> DEFINE blk == MechBlockOf(b2)
           s == newBlock(d, blk.az)
           e == [d EXCEPT !.split_strategy_ = s]
           f == IF s.split THEN Split(e, ts) ELSE e
           in == InAzimuthSection(d.scan_section_, blk.az)
           valid == IF in THEN blk.valid ELSE 0
           n == Kept(d, valid, d.P.CHANNELS_PER_BLOCK)
           r == MechBlock(d, MechBlockOf(b2), ts)
           M == MaxBlks
           top2 == Turn(b2)
           angle == AngleOf(Firing(b2)) % RS_ONE_ROUND
<1> SUFFICES /\ AtBlock(r, b2) /\ Kin(r, d) /\ r.angles_ready_ = d.angles_ready_
             /\ r.blks_per_frame_ = d.blks_per_frame_ /\ r.split_blks_per_frame_ = d.split_blks_per_frame_
  OBVIOUS
<1>1. blk.az = angle /\ blk.round = top2 /\ blk.early = Early(b2) /\ blk.valid = (dec.P.CHANNELS_PER_BLOCK + 1) \div 2
  BY DEF MechBlockOf, Turn, Early
<1>2. dec.P.BLOCKS_PER_PKT = d.P.BLOCKS_PER_PKT /\ dec.P.CHANNELS_PER_BLOCK = d.P.CHANNELS_PER_BLOCK
      /\ d.P.BLOCKS_PER_PKT \in {3, 4, 8, 12} /\ d.lidar \in MechLidars
  BY DEF Kin, ParamMembers, ModeInv
<1>3. top2 \in Int /\ M \in Nat /\ M >= 1
  BY <1>2, FiringsCut DEF BlksInv
<1>4. n \in Nat /\ (~d.param.dense_points => n % d.P.LASER_NUM = 0)
  <2>1. in \in BOOLEAN
    BY DEF InAzimuthSection
  <2> QED
    BY <1>1, <1>2, <2>1, KeptPoints
<1>5. /\ Kin(e, d) /\ e.out = d.out /\ e.seq = d.seq /\ e.point_cloud_ = d.point_cloud_ /\ e.split_strategy_ = s
      /\ DOMAIN e = DOMAIN d /\ e.angles_ready_ = d.angles_ready_
      /\ e.blks_per_frame_ = d.blks_per_frame_ /\ e.split_blks_per_frame_ = d.split_blks_per_frame_
  BY DEF Kin, ConstInv, DecoderMembers, ModeInv, MechMembers
<1>6. \A top \in Int : CloudsInv(d, M, top) => CloudsInv(e, M, top)
  BY <1>5, SameClouds
<1>7. ConstInv(e) /\ CutByNumber(e) = CutByNumber(d)
  BY <1>5, KinIs
<1>8. DOMAIN f = DOMAIN d /\ Kin(f, d) /\ f.split_strategy_ = s /\ f.angles_ready_ = d.angles_ready_
      /\ f.blks_per_frame_ = d.blks_per_frame_ /\ f.split_blks_per_frame_ = d.split_blks_per_frame_
  <2>1. MechMembers \subseteq DOMAIN e
    BY <1>5 DEF ModeInv
  <2> HIDE DEF e, s
  <2>2. CASE ~s.split
    BY <1>5, <2>2
  <2>3. CASE s.split
    <3>1. f = Split(e, ts)
      BY <2>3
    <3>2. /\ DOMAIN f = DOMAIN e /\ f.lidar = e.lidar /\ f.param = e.param /\ f.P = e.P /\ f.split_strategy_ = e.split_strategy_
          /\ f.angles_ready_ = e.angles_ready_
          /\ f.blks_per_frame_ = e.blks_per_frame_ /\ f.split_blks_per_frame_ = e.split_blks_per_frame_
      BY <2>1, <3>1 DEF Split, splitFrame, MechMembers, DecoderMembers
    <3> QED
      BY <1>5, <3>2 DEF Kin
  <2> QED
    BY <2>2, <2>3
<1>9. /\ r.point_cloud_ = AddPoints(f.point_cloud_, top2, Early(b2), n, 1) /\ r.out = f.out /\ r.seq = f.seq
      /\ r.split_strategy_ = s /\ Kin(r, f) /\ Kin(r, d) /\ r.angles_ready_ = d.angles_ready_
      /\ r.blks_per_frame_ = d.blks_per_frame_ /\ r.split_blks_per_frame_ = d.split_blks_per_frame_
  <2>1. r = [f EXCEPT !.point_cloud_ = AddPoints(@, blk.round, blk.early, n, 1), !.prev_point_ts_ = ts + d.P.CHAN_TSS]
    BY DEF MechBlock
  <2>2. MechMembers \subseteq DOMAIN f
    BY <1>8 DEF ModeInv
  <2> HIDE DEF f, r, n, blk, s
  <2> QED
    BY <1>1, <1>8, <2>1, <2>2 DEF Kin, MechMembers, DecoderMembers
<1>10. ASSUME NEW top \in Int, CloudsInv(d, M, top), s.split, Ordered(d, top, top2)
       PROVE  CloudsInv(f, M, top2) /\ f.point_cloud_.blks = 0 /\ f.point_cloud_.rounds = {}
  <2>1. f = Split(e, ts) /\ CloudsInv(e, M, top)
    BY <1>6, <1>10
  <2>2. Ordered(e, top, top2)
    BY <1>7, <1>10 DEF Ordered
  <2> HIDE DEF e, f, M, top2
  <2> QED
    BY <1>3, <1>7, <2>1, <2>2, SplitKeeps
<1>11. CASE CutByNumber(d)
  <2> DEFINE z == d.split_strategy_
             mb == IF d.param.split_frame_mode = "fixed" THEN d.split_blks_per_frame_ ELSE d.param.num_blks_split
  <2>1. \E top \in Int :
          /\ top <= top2 /\ CloudsInv(d, M, top) /\ z.kind = "num" /\ z.source = d.param.split_frame_mode /\ z.blks \in Nat
          /\ DOMAIN z = {"kind", "split", "source", "blks"}
          /\ d.point_cloud_.blks <= z.blks + 1 /\ z.blks + 1 <= M
    <3>1. d.param.split_frame_mode \in {"fixed", "custom"} /\ DOMAIN StrategyOf(d.param) = {"kind", "split", "source", "blks"}
      BY <1>11 DEF ModeInv, CutByNumber, StrategyOf, ByNum
    <3>2. CASE Fresh(d)
      <4>1. /\ z.kind = "num" /\ z.source = d.param.split_frame_mode /\ z.blks = 0
            /\ d.point_cloud_.blks = 0
        BY <3>1, <3>2 DEF Fresh, StrategyOf, ByNum, NoCloudYet, EmptyCloud
      <4>2. CloudsInv(d, M, top2)
        BY <1>3, <3>2, FirstCloud DEF Fresh
      <4> QED
        BY <1>3, <3>1, <3>2, <4>1, <4>2 DEF Fresh
    <3>3. CASE \E b \in Nat : b <= b2 /\ b2 - b <= d.P.BLOCKS_PER_PKT + 1 /\ AtBlock(d, b)
      <4>1. PICK b \in Nat : b <= b2 /\ b2 - b <= d.P.BLOCKS_PER_PKT + 1 /\ AtBlock(d, b)
        BY <3>3
      <4>2. Turn(b) \in Int /\ Turn(b) <= top2
        BY <1>2, <4>1, FiringsCut
      <4>3. /\ CloudsInv(d, M, Turn(b)) /\ z.kind = "num" /\ z.source = d.param.split_frame_mode /\ z.blks \in Nat
            /\ d.point_cloud_.blks <= z.blks + 1 /\ z.blks + 1 <= M /\ DOMAIN z = DOMAIN StrategyOf(d.param)
        BY <1>11, <4>1 DEF AtBlock, StrategyInv
      <4> QED
        BY <3>1, <4>2, <4>3
    <3> QED
      BY <3>2, <3>3
  <2>2. PICK top \in Int :
          /\ top <= top2 /\ CloudsInv(d, M, top) /\ z.kind = "num" /\ z.source = d.param.split_frame_mode /\ z.blks \in Nat
          /\ DOMAIN z = {"kind", "split", "source", "blks"}
          /\ d.point_cloud_.blks <= z.blks + 1 /\ z.blks + 1 <= M
    BY <2>1
  <2>3. mb \in Nat /\ mb <= M
    BY <1>11 DEF BlksInv, ModeInv, CutByNumber
  <2>4. s = NewBlockByNum(z, mb)
    BY <1>11, <2>2 DEF newBlock, ModeInv, CutByNumber
  <2>5. /\ s.split <=> z.blks + 1 >= mb
        /\ s.blks = IF z.blks + 1 >= mb THEN 0 ELSE z.blks + 1
        /\ s.kind = "num" /\ s.source = d.param.split_frame_mode /\ DOMAIN s = DOMAIN z
    BY <2>2, <2>3, <2>4 DEF NewBlockByNum
  <2>6. d.point_cloud_.blks \in Nat
    BY <2>2 DEF CloudsInv, CloudInv
  <2>7. \E t \in Int : /\ CloudsInv(f, M, t) /\ t <= top2 /\ f.point_cloud_.blks \in Nat
                       /\ f.point_cloud_.blks + 1 <= M /\ f.point_cloud_.blks <= s.blks
    <3>1. CASE s.split
      <4>1. Ordered(d, top, top2)
        BY <1>11, <2>2 DEF Ordered
      <4>2. CloudsInv(f, M, top2) /\ f.point_cloud_.blks = 0
        BY <1>10, <2>2, <3>1, <4>1
      <4>3. s.blks = 0
        BY <2>5, <3>1
      <4> HIDE DEF f, s, M, top2
      <4> QED
        BY <1>3, <4>2, <4>3
    <3>2. CASE ~s.split
      <4>1. f = e /\ s.blks = z.blks + 1 /\ z.blks + 1 < mb
        BY <2>2, <2>3, <2>5, <3>2
      <4>2. CloudsInv(f, M, top) /\ f.point_cloud_.blks = d.point_cloud_.blks
        BY <1>5, <1>6, <2>2, <4>1
      <4> HIDE DEF f, s, M, top2, z, mb
      <4> QED
        BY <1>3, <2>2, <2>3, <2>6, <4>1, <4>2
    <3> QED
      BY <3>1, <3>2
  <2> HIDE DEF f, s, M, top2, z, mb, n, r
  <2>8. PICK t \in Int : /\ CloudsInv(f, M, t) /\ t <= top2 /\ f.point_cloud_.blks \in Nat
                       /\ f.point_cloud_.blks + 1 <= M /\ f.point_cloud_.blks <= s.blks
    BY <2>7
  <2>9. ConstInv(f) /\ CutByNumber(f) /\ f.param = d.param /\ f.P.LASER_NUM = d.P.LASER_NUM
    BY <1>8, <1>11, KinIs DEF Kin, ParamMembers
  <2>10. CloudsInv(r, M, top2)
    <3>1. Early(b2) \in BOOLEAN /\ f.lidar \in MechLidars
      BY <1>2, <1>8 DEF Early, Kin
    <3> QED
      BY <1>3, <1>4, <1>9, <2>8, <2>9, <3>1, AddKeeps
  <2>11. r.point_cloud_.blks <= s.blks + 1
    <3>1. s.blks \in Nat
      BY <2>2, <2>5
    <3>2. r.point_cloud_.blks \in {f.point_cloud_.blks, f.point_cloud_.blks + 1}
      BY <1>9, <2>8 DEF AddPoints
    <3> QED
      BY <2>8, <3>1, <3>2
  <2>12. s.blks \in Nat /\ s.blks + 1 <= M
    BY <1>3, <2>2, <2>3, <2>5
  <2>13. CutByNumber(r) /\ r.param = d.param
    BY <1>9, <1>11, KinIs DEF Kin
  <2>14. DOMAIN StrategyOf(d.param) = {"kind", "split", "source", "blks"}
    BY <1>11 DEF ModeInv, CutByNumber, StrategyOf, ByNum
  <2>15. StrategyInv(r, b2)
    BY <1>9, <2>2, <2>5, <2>11, <2>12, <2>13, <2>14 DEF StrategyInv, M
  <2> QED
    BY <1>9, <2>10, <2>13, <2>15 DEF AtBlock, M, top2
<1>12. CASE ~CutByNumber(d)
  <2> DEFINE z == d.split_strategy_
             prev == IF angle < z.prev_angle THEN z.prev_angle - RS_ONE_ROUND ELSE z.prev_angle
  <2>1. d.param.split_frame_mode = "angle" /\ DOMAIN StrategyOf(d.param) = {"kind", "split", "split_angle", "prev_angle"}
    BY <1>2, <1>12 DEF ModeInv, CutByNumber, StrategyOf, ByAngle
  <2>2. /\ z.kind = "angle" /\ z.split_angle = device.split /\ DOMAIN z = DOMAIN StrategyOf(d.param)
    <3>1. CASE Fresh(d)
      BY <2>1, <3>1 DEF Fresh, StrategyOf, ByAngle, ModeInv
    <3>2. CASE \E b \in Nat : b <= b2 /\ b2 - b <= d.P.BLOCKS_PER_PKT + 1 /\ AtBlock(d, b)
      BY <1>12, <3>2 DEF AtBlock, StrategyInv
    <3> QED
      BY <3>1, <3>2
  <2>3. s = NewBlockByAngle(z, angle)
    BY <1>1, <2>2 DEF newBlock
  <2>4. /\ s.split <=> prev < device.split /\ device.split <= angle
        /\ s.kind = "angle" /\ s.split_angle = device.split /\ s.prev_angle = angle /\ DOMAIN s = DOMAIN z
    BY <2>1, <2>2, <2>3 DEF NewBlockByAngle
  <2>5. \E t \in Int : /\ CloudsInv(f, M, t) /\ t <= top2 /\ (Early(b2) => f.point_cloud_.rounds \subseteq {top2})
    <3>1. CASE Fresh(d)
      <4>1. z.prev_angle = device.split /\ device.split \in Nat
        BY <2>1, <3>1 DEF Fresh, StrategyOf, ByAngle, ModeInv, DeviceInv
      <4>2. angle \in Int
        BY <1>2, AngleTyped
      <4>3. ~s.split
        BY <2>4, <4>1, <4>2
      <4>4. CloudsInv(d, M, top2) /\ d.point_cloud_.rounds = {}
        BY <1>3, <3>1, FirstCloud DEF Fresh, NoCloudYet, EmptyCloud
      <4> QED
        BY <1>3, <1>5, <1>6, <4>3, <4>4
    <3>2. CASE \E b \in Nat : b <= b2 /\ b2 - b <= d.P.BLOCKS_PER_PKT + 1 /\ AtBlock(d, b)
      <4>1. PICK b \in Nat : b <= b2 /\ b2 - b <= d.P.BLOCKS_PER_PKT + 1 /\ AtBlock(d, b)
        BY <3>2
      <4>2. /\ z.prev_angle = AngleOf(Firing(b)) % RS_ONE_ROUND /\ CloudsInv(d, M, Turn(b))
            /\ Early(b) => d.point_cloud_.rounds \subseteq {Turn(b)}
        BY <1>12, <4>1 DEF AtBlock, StrategyInv
      <4>3. /\ Turn(b) \in Int /\ Turn(b) <= top2
            /\ prev < device.split /\ device.split <= angle <=> Turn(b) # top2 /\ Early(b2)
            /\ Turn(b) = top2 /\ Early(b2) => Early(b)
        BY <1>2, <4>1, <4>2, FiringsCut
      <4>4. CASE s.split
        <5>1. Ordered(d, Turn(b), top2)
          BY <1>3, <1>12, <2>4, <4>3, <4>4 DEF Ordered
        <5> QED
          BY <1>3, <1>10, <4>2, <4>3, <4>4, <5>1
      <4>5. CASE ~s.split
        <5>1. f = e /\ (Early(b2) => Turn(b) = top2 /\ Early(b))
          BY <2>4, <4>3, <4>5
        <5> QED
          BY <1>3, <1>5, <1>6, <4>2, <4>3, <5>1
      <4> QED
        BY <4>4, <4>5
    <3> QED
      BY <3>1, <3>2
  <2> HIDE DEF f, s, M, top2, z, n, r, angle
  <2>6. ConstInv(f) /\ ~CutByNumber(f) /\ f.param = d.param /\ f.P.LASER_NUM = d.P.LASER_NUM /\ f.lidar \in MechLidars
    BY <1>2, <1>8, <1>12, KinIs DEF Kin, ParamMembers
  <2>7. CloudsInv(r, M, top2)
    <3>1. Early(b2) \in BOOLEAN
      BY DEF Early
    <3> QED
      BY <1>3, <1>4, <1>9, <2>5, <2>6, <3>1, AddKeeps
  <2>8. ~CutByNumber(r) /\ r.param = d.param
    BY <1>9, <1>12, KinIs DEF Kin
  <2>9. StrategyInv(r, b2)
    BY <1>9, <2>2, <2>4, <2>8 DEF StrategyInv, angle
  <2>10. Early(b2) => r.point_cloud_.rounds \subseteq {top2}
    BY <1>9, <2>5 DEF AddPoints
  <2> QED
    BY <1>9, <2>7, <2>9, <2>10 DEF AtBlock, M, top2
<1> QED
  BY <1>11, <1>12

-----------------------------------------------------------------------------
(* A packet of a mechanical lidar.                                         *)

\* e cuts as d does, and has its clouds.
SameCut(e, d) ==
  /\ Kin(e, d) /\ e.split_strategy_ = d.split_strategy_ /\ e.point_cloud_ = d.point_cloud_ /\ e.out = d.out
  /\ e.seq = d.seq /\ e.angles_ready_ = d.angles_ready_
  /\ e.blks_per_frame_ = d.blks_per_frame_ /\ e.split_blks_per_frame_ = d.split_blks_per_frame_

\* What AtBlock is read from.
LEMMA SameAt ==
  ASSUME NEW d, NEW e, SameCut(e, d)
  PROVE  (Fresh(d) => Fresh(e)) /\ \A b : AtBlock(d, b) => AtBlock(e, b)
<1>1. Fresh(d) => Fresh(e)
  BY DEF SameCut, Kin, Fresh, NoCloudYet
<1>2. ASSUME NEW b, AtBlock(d, b)
      PROVE  AtBlock(e, b)
  <2>1. CloudsInv(e, MaxBlks, Turn(b))
    BY <1>2, SameClouds DEF AtBlock, SameCut
  <2>2. StrategyInv(e, b)
    BY <1>2, KinIs DEF AtBlock, StrategyInv, SameCut, Kin
  <2>3. CutByNumber(e) = CutByNumber(d) /\ e.point_cloud_ = d.point_cloud_
    BY KinIs DEF SameCut
  <2> QED
    BY <1>2, <2>1, <2>2, <2>3 DEF AtBlock
<1> QED
  BY <1>1, <1>2

\* The packets of every mechanical lidar are decoded block by block.
LEMMA MsopIsMech ==
  ASSUME NEW d, NEW pkt, ConstInv(d), ModeInv(d)
  PROVE  \E e, offs, temp, us : decodeMsopPkt(d, pkt) = MechDecode(e, pkt, offs, temp, us) /\ SameCut(e, d)
<1>0. SameCut(d, d)
  BY DEF SameCut, Kin
<1>1. CASE d.lidar = "RSBP"
  <2> DEFINE isBpV4 == pkt.lidar_type = 3 /\ pkt.lidar_model = 4
             e == IF isBpV4 THEN [d EXCEPT !.P.DISTANCE_RES = 25] ELSE d
             us == IF isBpV4 THEN parseTimeUTCWithUs(pkt.utc) ELSE parseTimeYMD(pkt.ymd)
  <2>1. decodeMsopPkt(d, pkt) = RSBP_DecodeMsop(d, pkt)
    BY <1>1 DEF decodeMsopPkt
  <2>2. RSBP_DecodeMsop(d, pkt) = MechDecode(e, pkt, RSBP_Offsets(d, pkt), parseTempInLe(pkt.temp), us)
    BY DEF RSBP_DecodeMsop
  <2>3. SameCut(e, d)
    <3>1. CASE ~isBpV4
      BY <1>0, <3>1
    <3>2. CASE isBpV4
      <4>1. e = [d EXCEPT !.P.DISTANCE_RES = 25]
        BY <3>2
      <4> HIDE DEF e
      <4>2. /\ DOMAIN e = DOMAIN d /\ e.lidar = d.lidar /\ e.param = d.param /\ e.P = [d.P EXCEPT !.DISTANCE_RES = 25]
            /\ e.split_strategy_ = d.split_strategy_ /\ e.point_cloud_ = d.point_cloud_ /\ e.out = d.out
            /\ e.seq = d.seq /\ e.angles_ready_ = d.angles_ready_
            /\ e.blks_per_frame_ = d.blks_per_frame_ /\ e.split_blks_per_frame_ = d.split_blks_per_frame_
        BY <4>1 DEF ModeInv, MechMembers, DecoderMembers
      <4>3. DOMAIN e.P = DOMAIN d.P /\ (\A f \in ParamMembers : e.P[f] = d.P[f]) /\ e.P.BLOCK_DURATION = d.P.BLOCK_DURATION
        BY <4>2 DEF ConstInv, ModeInv, ParamMembers
      <4> QED
        BY <4>2, <4>3 DEF SameCut, Kin
    <3> QED
      BY <3>1, <3>2
  <2> HIDE DEF e, us
  <2> QED
    BY <2>1, <2>2, <2>3
<1>2. CASE d.lidar = "RSP80"
  <2> DEFINE e == IF d.lidar_model_ # pkt.lidar_model THEN RSP80_CalcParam(d, pkt.lidar_model) ELSE d
  <2>1. decodeMsopPkt(d, pkt) = RSP80_DecodeMsop(d, pkt)
    BY <1>2 DEF decodeMsopPkt
  <2>2. RSP80_DecodeMsop(d, pkt)
        = MechDecode(e, pkt, RSP80_Offsets(d, pkt), parseTempInBe(pkt.temp), parseTimeUTCWithUs(pkt.utc))
    BY DEF RSP80_DecodeMsop
  <2>3. SameCut(e, d)
    <3>1. CASE d.lidar_model_ = pkt.lidar_model
      BY <1>0, <3>1
    <3>2. CASE d.lidar_model_ # pkt.lidar_model
      <4>1. e = RSP80_CalcParam(d, pkt.lidar_model)
        BY <3>2
      <4> HIDE DEF e
      <4> DEFINE tss == IF pkt.lidar_model = 3 THEN 31963 ELSE 53771
      <4>2. /\ DOMAIN e = DOMAIN d /\ e.lidar = d.lidar /\ e.param = d.param /\ e.P = [d.P EXCEPT !.CHAN_TSS = tss]
            /\ e.split_strategy_ = d.split_strategy_ /\ e.point_cloud_ = d.point_cloud_ /\ e.out = d.out
            /\ e.seq = d.seq /\ e.angles_ready_ = d.angles_ready_
            /\ e.blks_per_frame_ = d.blks_per_frame_ /\ e.split_blks_per_frame_ = d.split_blks_per_frame_
        BY <4>1 DEF RSP80_CalcParam, ModeInv, MechMembers, DecoderMembers
      <4>3. DOMAIN e.P = DOMAIN d.P /\ (\A f \in ParamMembers : e.P[f] = d.P[f]) /\ e.P.BLOCK_DURATION = d.P.BLOCK_DURATION
        BY <4>2 DEF ConstInv, ModeInv, ParamMembers
      <4> QED
        BY <4>2, <4>3 DEF SameCut, Kin
    <3> QED
      BY <3>1, <3>2
  <2> HIDE DEF e
  <2> QED
    BY <2>1, <2>2, <2>3
<1>3. CASE d.lidar = "RS16"
  BY <1>0, <1>3 DEF decodeMsopPkt, RS16_DecodeMsop
<1>4. CASE d.lidar = "RS32"
  BY <1>0, <1>4 DEF decodeMsopPkt, RS32_DecodeMsop
<1>5. CASE d.lidar = "RS48"
  BY <1>0, <1>5 DEF decodeMsopPkt, RS48_DecodeMsop
<1>6. CASE d.lidar = "RS80"
  BY <1>0, <1>6 DEF decodeMsopPkt, RS80_DecodeMsop
<1>7. CASE d.lidar = "RS128"
  BY <1>0, <1>7 DEF decodeMsopPkt, RS128_DecodeMsop
<1>8. CASE d.lidar = "RSP48"
  BY <1>0, <1>8 DEF decodeMsopPkt, RSP48_DecodeMsop
<1>9. CASE d.lidar = "RSP128"
  BY <1>0, <1>9 DEF decodeMsopPkt, RSP128_DecodeMsop
<1>10. CASE d.lidar = "RSHELIOS"
  BY <1>0, <1>10 DEF decodeMsopPkt, RSHELIOS_DecodeMsop
<1>11. CASE d.lidar = "RSHELIOS_16P"
  BY <1>0, <1>11 DEF decodeMsopPkt, RSHELIOS_16P_DecodeMsop
<1> QED
  BY <1>1, <1>2, <1>3, <1>4, <1>5, <1>6, <1>7, <1>8, <1>9, <1>10, <1>11 DEF ModeInv, MechLidars

\* f holds what the decoder is after each of the first m blocks.
BlocksDone(f, d, blocks, ts, offs, m) ==
  f = [i \in 0 .. m |-> IF i = 0 THEN d ELSE MechBlock(f[i - 1], blocks[i], ts + offs[i])]

\* One more block.
LEMMA BlocksGrow ==
  ASSUME NEW d, NEW blocks, NEW ts, NEW offs, NEW m \in Nat, NEW f, BlocksDone(f, d, blocks, ts, offs, m)
  PROVE  \E g : BlocksDone(g, d, blocks, ts, offs, m + 1)
<1> DEFINE g == [j \in 0 .. m + 1 |-> IF j = m + 1 THEN MechBlock(f[m], blocks[m + 1], ts + offs[m + 1]) ELSE f[j]]
<1>1. \A j \in 0 .. m : f[j] = IF j = 0 THEN d ELSE MechBlock(f[j - 1], blocks[j], ts + offs[j])
  BY DEF BlocksDone
<1>2. ASSUME NEW j \in 0 .. m + 1
      PROVE  g[j] = IF j = 0 THEN d ELSE MechBlock(g[j - 1], blocks[j], ts + offs[j])
  <2>1. CASE j = 0
    <3>1. 0 \in 0 .. m /\ 0 \in 0 .. m + 1 /\ 0 # m + 1
      OBVIOUS
    <3> QED
      BY <1>1, <2>1, <3>1
  <2>2. CASE j = m + 1
    <3>1. j - 1 = m /\ m \in 0 .. m + 1 /\ m # m + 1 /\ j # 0
      BY <2>2
    <3>2. g[j - 1] = f[m] /\ g[j] = MechBlock(f[m], blocks[m + 1], ts + offs[m + 1])
      BY <2>2, <3>1
    <3> QED
      BY <2>2, <3>1, <3>2
  <2>3. CASE j \in 1 .. m
    <3>1. j - 1 \in 0 .. m /\ j # m + 1 /\ j - 1 # m + 1
      BY <2>3
    <3> QED
      BY <1>1, <2>3, <3>1
  <2> QED
    BY <2>1, <2>2, <2>3
<1>3. g = [j \in 0 .. m + 1 |-> g[j]]
  OBVIOUS
<1> HIDE DEF g
<1> QED
  BY <1>2, <1>3 DEF BlocksDone

\* The recursive function of MechDecode exists, for any number of blocks.
LEMMA BlocksExist ==
  ASSUME NEW d, NEW blocks, NEW ts, NEW offs, NEW n \in Nat
  PROVE  \E f : BlocksDone(f, d, blocks, ts, offs, n)
<1> DEFINE T == {i \in 0 .. n : \E f : BlocksDone(f, d, blocks, ts, offs, i)}
<1>1. 0 \in T
  <2> DEFINE f == [i \in 0 .. 0 |-> d]
  <2>1. BlocksDone(f, d, blocks, ts, offs, 0)
    BY DEF BlocksDone
  <2> QED
    BY <2>1
<1>2. ASSUME NEW i \in 1 .. n, i - 1 \in T
      PROVE  i \in T
  <2>1. PICK f : BlocksDone(f, d, blocks, ts, offs, i - 1)
    BY <1>2
  <2> QED
    BY <2>1, BlocksGrow
<1> HIDE DEF T
<1>3. n \in T
  BY <1>1, <1>2, UpTo
<1> QED
  BY <1>3 DEF T

\* r is the decoder after the blocks of a packet up to the one `last', all that come before the first with a wrong id.
Decoded(r, d, pkt, last) ==
  /\ last \in 0 .. d.P.BLOCKS_PER_PKT /\ \A i \in 1 .. last : pkt.blocks[i].id_ok
  /\ (\A i \in 1 .. d.P.BLOCKS_PER_PKT : pkt.blocks[i].id_ok) => last = d.P.BLOCKS_PER_PKT
  /\ \E f, ts, offs, temp : /\ BlocksDone(f, d, pkt.blocks, ts, offs, last)
                           /\ r = [f[last] EXCEPT !.temperature_ = temp, !.prev_pkt_ts_ = ts]

\* MechDecode is the decoder after the blocks up to the first with a wrong id.
LEMMA DecodeOfBlocks ==
  ASSUME NEW d, NEW pkt, NEW offs, NEW temp, NEW us, d.P.BLOCKS_PER_PKT \in Nat
  PROVE  \E last \in Nat : Decoded(MechDecode(d, pkt, offs, temp, us), d, pkt, last)
<1> DEFINE n == d.P.BLOCKS_PER_PKT
           ts == PacketTs(d, pkt, us)
           bad == {i \in 1 .. n : ~pkt.blocks[i].id_ok}
           first == CHOOSE i \in bad : \A j \in bad : i <= j
           last == IF bad = {} THEN n ELSE first - 1
           after == CHOOSE f : BlocksDone(f, d, pkt.blocks, ts, offs, last)
<1>1. /\ last \in 0 .. n /\ \A i \in 1 .. last : pkt.blocks[i].id_ok
      /\ (\A i \in 1 .. n : pkt.blocks[i].id_ok) => last = n
  <2>1. CASE bad = {}
    BY <2>1
  <2>2. CASE bad # {}
    <3>1. bad \subseteq Nat
      OBVIOUS
    <3>2. first \in bad /\ \A j \in bad : first <= j
      BY <2>2, <3>1, LeastOf
    <3>3. last = first - 1
      BY <2>2
    <3>4. first \in 1 .. n
      BY <3>2
    <3> HIDE DEF first, last
    <3>5. ASSUME NEW i \in 1 .. last
          PROVE  pkt.blocks[i].id_ok
      <4>1. i \in 1 .. n /\ ~(first <= i)
        BY <3>3, <3>4
      <4> QED
        BY <3>2, <4>1
    <3> QED
      BY <2>2, <3>3, <3>4, <3>5
  <2> QED
    BY <2>1, <2>2
<1>2. MechDecode(d, pkt, offs, temp, us) = [after[last] EXCEPT !.temperature_ = temp, !.prev_pkt_ts_ = ts]
  BY DEF MechDecode, BlocksDone
<1> HIDE DEF last, n, ts
<1>3. n \in Nat /\ last \in Nat
  BY <1>1 DEF n
<1>4. BlocksDone(after, d, pkt.blocks, ts, offs, last)
  BY <1>3, BlocksExist
<1> HIDE DEF after, bad
<1> QED
  BY <1>1, <1>2, <1>3, <1>4 DEF n, Decoded

\* r is at the block `last' of the packet p, or did not get there.
Reached(r, d, p, n, last) == IF last = 0 THEN SameCut(r, d) ELSE AtBlock(r, p * n + last - 1)

\* e is d but for its strategy and its clouds.
Alike(e, d) ==
  /\ Kin(e, d) /\ e.angles_ready_ = d.angles_ready_
  /\ e.blks_per_frame_ = d.blks_per_frame_ /\ e.split_blks_per_frame_ = d.split_blks_per_frame_

\* A packet leaves the decoder at the last block it decoded.
LEMMA MechDecodeKeeps ==
  ASSUME NEW d, NEW pkt, NEW offs, NEW temp, NEW us, NEW p \in Nat, NEW n, n = d.P.BLOCKS_PER_PKT,
         DeviceInv, ConstInv(d), ModeInv(d), BlksInv(d), Kin(d, dec),
         \A i \in 1 .. n : pkt.blocks[i].id_ok => pkt.blocks[i] = MechBlockOf(p * n + i - 1),
         Fresh(d) \/ \E b \in Nat : b <= p * n - 1 /\ b >= p * n - 1 - n /\ AtBlock(d, b)
  PROVE  \E last \in 0 .. n :
           /\ (\A i \in 1 .. n : pkt.blocks[i].id_ok) => last = n
           /\ Reached(MechDecode(d, pkt, offs, temp, us), d, p, n, last)
           /\ Alike(MechDecode(d, pkt, offs, temp, us), d)
<1> DEFINE r == MechDecode(d, pkt, offs, temp, us)
<1>1. n \in {3, 4, 8, 12} /\ n \in Nat /\ p * n \in Nat
  BY DEF ModeInv
<1>2. PICK last \in Nat : Decoded(r, d, pkt, last)
  BY <1>1, DecodeOfBlocks
<1> HIDE DEF r
<1>3. PICK f, ts, offs2, temp2 : /\ BlocksDone(f, d, pkt.blocks, ts, offs2, last)
                                 /\ r = [f[last] EXCEPT !.temperature_ = temp2, !.prev_pkt_ts_ = ts]
  BY <1>2 DEF Decoded
<1>4. /\ last \in 0 .. n /\ \A i \in 1 .. last : pkt.blocks[i].id_ok
      /\ (\A i \in 1 .. n : pkt.blocks[i].id_ok) => last = n
  BY <1>2 DEF Decoded
<1> DEFINE T == {i \in 0 .. last : Alike(f[i], d) /\ IF i = 0 THEN f[i] = d ELSE AtBlock(f[i], p * n + i - 1)}
<1>5. 0 \in T
  <2>1. f[0] = d
    <3>1. 0 \in 0 .. last
      OBVIOUS
    <3> QED
      BY <1>3, <3>1 DEF BlocksDone
  <2> QED
    BY <1>4, <2>1 DEF Alike, Kin
<1>6. ASSUME NEW i \in 1 .. last, i - 1 \in T
      PROVE  i \in T
  <2> DEFINE g == f[i - 1]
             b2 == p * n + i - 1
  <2>1. i \in 1 .. n /\ b2 \in Nat
    BY <1>1, <1>4
  <2>2. f[i] = MechBlock(g, pkt.blocks[i], ts + offs2[i])
    BY <1>3 DEF BlocksDone
  <2>3. pkt.blocks[i] = MechBlockOf(b2)
    BY <1>4, <2>1
  <2>4. Alike(g, d) /\ IF i = 1 THEN g = d ELSE AtBlock(g, p * n + (i - 1) - 1)
    BY <1>6
  <2> HIDE DEF g
  <2>5. ConstInv(g) /\ ModeInv(g) /\ BlksInv(g) /\ Kin(g, dec) /\ g.P.BLOCKS_PER_PKT = n
    <3>1. ConstInv(g) /\ ModeInv(g)
      BY <2>4, KinIs DEF Alike
    <3>2. BlksInv(g)
      BY <2>4 DEF Alike, BlksInv, Kin
    <3>3. Kin(g, dec)
      BY <2>4 DEF Alike, Kin
    <3>4. g.P.BLOCKS_PER_PKT = n
      BY <2>4 DEF Alike, Kin, ParamMembers
    <3> QED
      BY <3>1, <3>2, <3>3, <3>4
  <2>6. Fresh(g) \/ \E b \in Nat : b <= b2 /\ b2 - b <= n + 1 /\ AtBlock(g, b)
    <3>1. CASE i = 1
      <4>1. g = d /\ b2 = p * n
        BY <1>1, <2>4, <3>1
      <4>2. CASE Fresh(d)
        BY <4>1, <4>2
      <4>3. CASE \E b \in Nat : b <= p * n - 1 /\ b >= p * n - 1 - n /\ AtBlock(d, b)
        <5>1. PICK b \in Nat : b <= p * n - 1 /\ b >= p * n - 1 - n /\ AtBlock(d, b)
          BY <4>3
        <5>2. b <= b2 /\ b2 - b <= n + 1
          BY <1>1, <4>1, <5>1
        <5> QED
          BY <4>1, <5>1, <5>2
      <4> QED
        BY <4>2, <4>3
    <3>2. CASE i # 1
      <4>1. b2 - 1 \in Nat /\ b2 - 1 <= b2 /\ b2 - (b2 - 1) <= n + 1 /\ p * n + (i - 1) - 1 = b2 - 1
        BY <1>1, <2>1, <3>2
      <4>2. AtBlock(g, b2 - 1)
        BY <2>4, <3>2, <4>1
      <4> HIDE DEF b2
      <4> QED
        BY <4>1, <4>2
    <3> QED
      BY <3>1, <3>2
  <2> HIDE DEF b2
  <2>7. /\ AtBlock(f[i], b2) /\ Kin(f[i], g) /\ f[i].angles_ready_ = g.angles_ready_
        /\ f[i].blks_per_frame_ = g.blks_per_frame_ /\ f[i].split_blks_per_frame_ = g.split_blks_per_frame_
    BY <2>1, <2>2, <2>3, <2>5, <2>6, MechBlockKeeps
  <2>8. Alike(f[i], d)
    BY <2>4, <2>7 DEF Alike, Kin
  <2>9. AtBlock(f[i], p * n + i - 1) /\ i # 0
    BY <2>7 DEF b2
  <2> QED
    BY <2>8, <2>9
<1>7. last \in T
  <2> HIDE DEF T
  <2> QED
    BY <1>2, <1>5, <1>6, UpTo
<1> DEFINE g == f[last]
<1>8. Alike(g, d) /\ IF last = 0 THEN g = d ELSE AtBlock(g, p * n + last - 1)
  BY <1>7
<1> HIDE DEF g, T
<1>9. SameCut(r, g)
  <2>1. DOMAIN g = DOMAIN d /\ r = [g EXCEPT !.temperature_ = temp2, !.prev_pkt_ts_ = ts]
    BY <1>3, <1>8 DEF Alike, Kin, g
  <2> QED
    BY <1>8, <2>1 DEF SameCut, Alike, Kin, ModeInv, MechMembers, DecoderMembers
<1>10. Alike(r, d)
  BY <1>8, <1>9 DEF SameCut, Alike, Kin
<1>11. Reached(r, d, p, n, last)
  BY <1>8, <1>9, SameAt DEF Reached
<1> QED
  BY <1>4, <1>10, <1>11 DEF r

-----------------------------------------------------------------------------
(* What is done before a packet is decoded.                                *)

\* A decoder whose cloud was too large.
Emptied(d) == [d EXCEPT !.point_cloud_ = EmptyCloud]

\* Throwing the cloud away keeps the clouds' order.
LEMMA EmptyKeeps ==
  ASSUME NEW d, ConstInv(d)
  PROVE  LET e == Emptied(d)
         IN  /\ Kin(e, d) /\ e.split_strategy_ = d.split_strategy_ /\ e.out = d.out /\ e.seq = d.seq
             /\ e.point_cloud_ = EmptyCloud /\ e.angles_ready_ = d.angles_ready_ /\ DOMAIN e = DOMAIN d
             /\ NoCloudYet(d) => NoCloudYet(e)
             /\ \A most \in Nat, top \in Int : CloudsInv(d, most, top) => CloudsInv(e, most, top)
<1> DEFINE e == Emptied(d)
<1>1. /\ Kin(e, d) /\ e.split_strategy_ = d.split_strategy_ /\ e.out = d.out /\ e.seq = d.seq
      /\ e.point_cloud_ = EmptyCloud /\ e.angles_ready_ = d.angles_ready_ /\ DOMAIN e = DOMAIN d
  BY DEF Emptied, Kin, ConstInv, DecoderMembers
<1> HIDE DEF e
<1>2. CutByNumber(e) = CutByNumber(d) /\ \A r, s : Ordered(e, r, s) = Ordered(d, r, s)
  BY <1>1 DEF CutByNumber, Kin, Ordered
<1>3. ASSUME NEW most \in Nat, NEW top \in Int, CloudsInv(d, most, top)
      PROVE  CloudsInv(e, most, top)
  <2>1. HandedInv(e, most)
    BY <1>1, <1>2, <1>3 DEF CloudsInv, HandedInv
  <2>2. CloudInv(e, most)
    <3>1. e.point_cloud_ = [rounds |-> {}, early |-> {}, size |-> 0, blks |-> 0]
      BY <1>1 DEF EmptyCloud
    <3>2. e.P.LASER_NUM \in Nat /\ e.P.LASER_NUM > 0
      BY <1>1 DEF Kin, ParamMembers, ConstInv
    <3>3. 0 % e.P.LASER_NUM = 0
      BY <3>2
    <3> QED
      BY <1>2, <3>1, <3>3 DEF CloudInv, SameRound
  <2>3. OrderInv(e, top)
    BY <1>1, <1>2, <1>3 DEF CloudsInv, OrderInv, EmptyCloud
  <2> QED
    BY <2>1, <2>2, <2>3 DEF CloudsInv
<1>4. NoCloudYet(d) => NoCloudYet(e)
  BY <1>1 DEF NoCloudYet
<1> QED
  BY <1>1, <1>3, <1>4 DEF e

\* Nor does it move the strategy.
LEMMA EmptyAt ==
  ASSUME NEW d, ConstInv(d), MaxBlks \in Nat, NEW b \in Nat, Turn(b) \in Int, AtBlock(d, b)
  PROVE  AtBlock(Emptied(d), b)
<1> DEFINE e == Emptied(d)
<1>1. /\ Kin(e, d) /\ e.split_strategy_ = d.split_strategy_ /\ e.point_cloud_ = EmptyCloud
      /\ CloudsInv(e, MaxBlks, Turn(b))
  BY EmptyKeeps DEF AtBlock
<1> HIDE DEF e
<1>2. e.point_cloud_.blks = 0 /\ CutByNumber(e) = CutByNumber(d) /\ e.param = d.param
  BY <1>1, KinIs DEF EmptyCloud, Kin
<1>3. StrategyInv(e, b)
  BY <1>1, <1>2 DEF AtBlock, StrategyInv
<1> QED
  BY <1>1, <1>3 DEF AtBlock, EmptyCloud, e

-----------------------------------------------------------------------------
(* A mechanical lidar's invariant.                                         *)

\* The last block to be decoded was one of those between least and greatest.
MechAt(d, least, greatest) ==
  Fresh(d) \/ /\ d.param.wait_for_difop => d.angles_ready_
              /\ \E b \in Nat : least <= b /\ b <= greatest /\ AtBlock(d, b)

\* A mechanical decoder is at the last block sent, or at most a packet behind after a loss.
MechInv ==
  LET n == dec.P.BLOCKS_PER_PKT
      end == sent * n - 1
  IN  MechAt(dec, IF faults.last THEN end - n ELSE end, end)

\* A packet that arrives, whole or not.
LEMMA MechProcess ==
  ASSUME NEW pkt, NEW n \in Nat, n = dec.P.BLOCKS_PER_PKT, DeviceInv, ConstInv(dec), ModeInv(dec), BlksInv(dec), MechInv, sent \in Nat,
         pkt.len = dec.P.MSOP_LEN,
         \A i \in 1 .. n : pkt.blocks[i].id_ok => pkt.blocks[i] = MechBlockOf(sent * n + i - 1),
         NEW whole \in BOOLEAN, whole <=> pkt.id_ok /\ \A i \in 1 .. n : pkt.blocks[i].id_ok,
         whole \/ ~faults.last
  PROVE  LET r == processMsopPkt(dec, pkt)
             end == (sent + 1) * n - 1
         IN  /\ Alike(r, dec)
             /\ MechAt(r, IF whole THEN end ELSE end - n, end)
<1> DEFINE d == IF dec.point_cloud_.size > CLOUD_POINT_MAX THEN Emptied(dec) ELSE dec
           r == processMsopPkt(dec, pkt)
           end == (sent + 1) * n - 1
           ready == dec.param.wait_for_difop => dec.angles_ready_
<1> SUFFICES Alike(r, dec) /\ MechAt(r, IF whole THEN end ELSE end - n, end)
  OBVIOUS
<1>1. r = IF ready /\ pkt.len = dec.P.MSOP_LEN /\ pkt.id_ok THEN decodeMsopPkt(d, pkt) ELSE d
  BY DEF processMsopPkt, Accepted, Emptied
<1>2. n \in {3, 4, 8, 12} /\ MaxBlks \in Nat /\ sent * n \in Nat /\ end = sent * n + n - 1 /\ end \in Nat
  <2>1. n \in {3, 4, 8, 12}
    BY DEF ModeInv
  <2> QED
    BY <2>1 DEF BlksInv
<1>3. /\ Alike(d, dec)
      /\ Fresh(dec) => Fresh(d)
      /\ \A b \in Nat : AtBlock(dec, b) => AtBlock(d, b)
  <2>1. CASE d = dec
    BY <2>1 DEF Alike, Kin
  <2>2. CASE d = Emptied(dec)
    <3>1. Alike(d, dec)
      <4>1. Kin(d, dec)
        BY <2>2, EmptyKeeps
      <4> QED
        BY <2>2, <4>1 DEF Emptied, Alike, ModeInv, MechMembers, DecoderMembers
    <3>2. Fresh(dec) => Fresh(d)
      BY <2>2, EmptyKeeps DEF Fresh, Kin
    <3>3. ASSUME NEW b \in Nat, AtBlock(dec, b)
          PROVE  AtBlock(d, b)
      <4>1. Turn(b) \in Int
        BY <1>2, AngleTyped DEF Turn, DeviceInv, RS_ONE_ROUND
      <4> QED
        BY <1>2, <2>2, <3>3, <4>1, EmptyAt
    <3> QED
      BY <3>1, <3>2, <3>3
  <2> QED
    BY <2>1, <2>2
<1>4. Fresh(dec) \/ (ready /\ \E b \in Nat : b >= sent * n - 1 - n /\ (~faults.last => b >= sent * n - 1)
                                             /\ b <= sent * n - 1 /\ AtBlock(dec, b))
  BY <1>2 DEF MechInv, MechAt
<1> HIDE DEF d, end, r
<1>5. Fresh(d) \/ (ready /\ \E b \in Nat : b >= sent * n - 1 - n /\ (~faults.last => b >= sent * n - 1)
                                           /\ b <= sent * n - 1 /\ AtBlock(d, b))
  BY <1>3, <1>4
<1>6. ConstInv(d) /\ ModeInv(d) /\ BlksInv(d) /\ d.P.BLOCKS_PER_PKT = n
  <2>1. ConstInv(d) /\ ModeInv(d)
    BY <1>3, KinIs DEF Alike
  <2> QED
    BY <1>3, <2>1 DEF BlksInv, Alike, Kin, ParamMembers
<1>7. CASE ~(ready /\ pkt.id_ok)
  <2>1. r = d
    BY <1>1, <1>7
  <2>2. CASE Fresh(d)
    BY <1>3, <2>1, <2>2 DEF MechAt
  <2>3. CASE ~Fresh(d)
    <3>1. ready /\ ~whole /\ ~faults.last
      BY <1>5, <1>7, <2>3
    <3>2. PICK b \in Nat : b >= sent * n - 1 /\ b <= sent * n - 1 /\ AtBlock(d, b)
      BY <1>5, <2>3, <3>1
    <3>3. end - n <= b /\ b <= end
      BY <1>2, <3>2
    <3>4. d.param.wait_for_difop => d.angles_ready_
      BY <1>3, <3>1 DEF Alike, Kin
    <3> QED
      BY <1>3, <2>1, <3>1, <3>2, <3>3, <3>4 DEF MechAt
  <2> QED
    BY <2>2, <2>3
<1>8. CASE ready /\ pkt.id_ok
  <2>1. r = decodeMsopPkt(d, pkt)
    BY <1>1, <1>8
  <2>2. PICK e, offs, temp, us : decodeMsopPkt(d, pkt) = MechDecode(e, pkt, offs, temp, us) /\ SameCut(e, d)
    BY <1>6, MsopIsMech
  <2>3. /\ ConstInv(e) /\ ModeInv(e) /\ BlksInv(e) /\ e.P.BLOCKS_PER_PKT = n /\ Kin(e, dec)
    <3>1. ConstInv(e) /\ ModeInv(e)
      BY <1>6, <2>2, KinIs DEF SameCut
    <3>2. BlksInv(e) /\ e.P.BLOCKS_PER_PKT = n
      BY <1>6, <2>2 DEF SameCut, BlksInv, Kin, ParamMembers
    <3>3. Kin(e, dec)
      BY <1>3, <2>2 DEF SameCut, Alike, Kin
    <3> QED
      BY <3>1, <3>2, <3>3
  <2>4. Fresh(e) \/ \E b \in Nat : b <= sent * n - 1 /\ b >= sent * n - 1 - n /\ AtBlock(e, b)
    BY <1>5, <2>2, SameAt
  <2>5. PICK last \in 0 .. n :
          /\ (\A i \in 1 .. n : pkt.blocks[i].id_ok) => last = n
          /\ Reached(r, e, sent, n, last) /\ Alike(r, e)
    <3> DEFINE x == MechDecode(e, pkt, offs, temp, us)
    <3>1. \E last \in 0 .. n :
            /\ (\A i \in 1 .. n : pkt.blocks[i].id_ok) => last = n
            /\ Reached(x, e, sent, n, last) /\ Alike(x, e)
      BY <2>3, <2>4, MechDecodeKeeps
    <3> QED
      BY <2>1, <2>2, <3>1
  <2>6. IF last = 0 THEN SameCut(r, e) ELSE AtBlock(r, sent * n + last - 1)
    BY <2>5 DEF Reached
  <2>7. Alike(r, dec)
    BY <1>3, <2>2, <2>5 DEF SameCut, Alike, Kin
  <2>8. r.param.wait_for_difop => r.angles_ready_
    BY <1>8, <2>7 DEF Alike, Kin
  <2>9. CASE last # 0
    <3> DEFINE b == sent * n + last - 1
    <3>1. b \in Nat /\ b <= end /\ end - n <= b /\ (whole => end <= b)
      BY <1>2, <1>8, <2>5, <2>9
    <3>2. AtBlock(r, b)
      BY <2>6, <2>9
    <3> HIDE DEF b
    <3> QED
      BY <2>7, <2>8, <3>1, <3>2 DEF MechAt
  <2>10. CASE last = 0
    <3>1. ~whole /\ ~faults.last /\ SameCut(r, e)
      BY <1>2, <1>8, <2>5, <2>6, <2>10
    <3>2. CASE Fresh(d)
      BY <2>2, <2>7, <3>1, <3>2, SameAt DEF MechAt
    <3>3. CASE ~Fresh(d)
      <4>1. PICK b \in Nat : b >= sent * n - 1 /\ b <= sent * n - 1 /\ AtBlock(d, b)
        BY <1>5, <3>1, <3>3
      <4>2. end - n <= b /\ b <= end
        BY <1>2, <4>1
      <4>3. AtBlock(r, b)
        BY <2>2, <3>1, <4>1, SameAt
      <4> QED
        BY <2>7, <2>8, <3>1, <4>1, <4>2, <4>3 DEF MechAt
    <3> QED
      BY <3>2, <3>3
  <2> QED
    BY <2>9, <2>10
<1> QED
  BY <1>7, <1>8

-----------------------------------------------------------------------------
(* A DIFOP packet.                                                         *)

\* A faster lidar has no more blocks in a round.
LEMMA FewerPerTurn ==
  ASSUME NEW a \in Nat, NEW x \in Nat, NEW y \in Nat, 0 < x, x <= y
  PROVE  a \div x \in Nat /\ a \div y \in Nat /\ a \div y <= a \div x
<1> DEFINE q == a \div y
           m == a \div x
<1>1. q \in Nat /\ m \in Nat /\ y * q <= a /\ a < x * (m + 1)
  OBVIOUS
<1> HIDE DEF q, m
<1>2. q <= m
  <2> SUFFICES ASSUME m + 1 <= q
               PROVE  FALSE
    BY <1>1
  <2>1. x * (m + 1) <= x * q
    BY <1>1, Products
  <2>2. x * q <= y * q
    BY <1>1
  <2>3. x * (m + 1) \in Int /\ x * q \in Int /\ y * q \in Int
    BY <1>1
  <2> QED
    BY <1>1, <2>1, <2>2, <2>3
<1> QED
  BY <1>1, <1>2 DEF q, m

\* The blocks of a round, at a speed and at a higher one.
LEMMA FrameBlks ==
  ASSUME NEW d, ModeInv(d), NEW x \in Nat, NEW y \in Nat, 0 < x, x <= y
  PROVE  BlksPerFrame(d.P, x) \in Nat /\ BlksPerFrame(d.P, y) \in Nat /\ BlksPerFrame(d.P, y) <= BlksPerFrame(d.P, x)
<1> DEFINE a == 1000000000
           t == d.P.BLOCK_DURATION
<1>1. a \in Nat /\ t \in Nat /\ t > 0
  <2>1. a \in Nat
    BY SMT
  <2> HIDE DEF a
  <2>2. t \in Nat /\ t > 0
    BY DEF ModeInv
  <2> QED
    BY <2>1, <2>2
<1>2. BlksPerFrame(d.P, x) = a \div (x * t) /\ BlksPerFrame(d.P, y) = a \div (y * t)
  BY SMT DEF BlksPerFrame
<1> HIDE DEF a, t
<1>3. x * t \in Nat /\ y * t \in Nat /\ 0 < x * t /\ x * t <= y * t
  BY <1>1
<1> QED
  BY <1>1, <1>2, <1>3, FewerPerTurn

\* The blocks of a frame at the speed of the lidar.
LEMMA AtSpeed ==
  ASSUME NEW d, ModeInv(d), DeviceInv, ModeInv(dec), Kin(d, dec), d.param.split_frame_mode = "fixed"
  PROVE  BlksPerFrame(d.P, device.rps) \in Nat /\ 2 * BlksPerFrame(d.P, device.rps) <= MaxBlks
<1> DEFINE y == device.rps
           x == IF y < 10 THEN y ELSE 10
<1>1. y \in Nat /\ x \in Nat /\ 0 < x /\ x <= y
  BY DEF DeviceInv
<1>2. d.P.BLOCK_DURATION = dec.P.BLOCK_DURATION /\ dec.param.split_frame_mode = "fixed"
  BY DEF Kin
<1>3. MaxBlks = 2 * BlksPerFrame(d.P, x)
  BY <1>2, SMT DEF MaxBlks, BlksPerFrame
<1> HIDE DEF x, y
<1>4. BlksPerFrame(d.P, x) \in Nat /\ BlksPerFrame(d.P, y) \in Nat /\ BlksPerFrame(d.P, y) <= BlksPerFrame(d.P, x)
  BY <1>1, FrameBlks
<1> QED
  BY <1>3, <1>4 DEF y

\* What a DIFOP packet leaves alone, and the numbers of blocks it sets.
SameFrame(r, d) ==
  /\ Kin(r, d) /\ r.split_strategy_ = d.split_strategy_ /\ r.point_cloud_ = d.point_cloud_ /\ r.out = d.out /\ r.seq = d.seq
  /\ d.angles_ready_ => r.angles_ready_

\* What a DIFOP packet sets.
DifopSets(r) ==
  LET b == BlksPerFrame(r.P, device.rps)
  IN  r.blks_per_frame_ = b /\ r.split_blks_per_frame_ \in {b, (b * 2) % 65536, b \div 2}

\* decodeDifopCommon.
LEMMA CommonKeeps ==
  ASSUME NEW d, NEW pkt, ConstInv(d), ModeInv(d), DeviceInv, pkt.rpm = device.rps * 60
  PROVE  LET r == decodeDifopCommon(d, pkt)
         IN  /\ SameFrame(r, d) /\ r.blks_per_frame_ = BlksPerFrame(r.P, device.rps)
             /\ r.split_blks_per_frame_ = d.split_blks_per_frame_ /\ r.echo_mode_ = d.echo_mode_ /\ r.P = d.P
<1> DEFINE r == decodeDifopCommon(d, pkt)
           rps == Rps(pkt.rpm)
           load == ~d.param.config_from_file /\ ~d.angles_ready_ /\ CalibrationOk(pkt.vert, pkt.horiz)
<1>1. rps = device.rps
  BY DEF Rps, DeviceInv
<1>2. /\ DOMAIN r = DOMAIN d /\ r.lidar = d.lidar /\ r.param = d.param /\ r.P = d.P
      /\ r.split_strategy_ = d.split_strategy_ /\ r.point_cloud_ = d.point_cloud_ /\ r.out = d.out /\ r.seq = d.seq
      /\ r.blks_per_frame_ = BlksPerFrame(d.P, rps) /\ r.split_blks_per_frame_ = d.split_blks_per_frame_
      /\ r.echo_mode_ = d.echo_mode_ /\ r.angles_ready_ = (d.angles_ready_ \/ load)
  BY DEF decodeDifopCommon, ModeInv, MechMembers, DecoderMembers
<1> HIDE DEF r, rps, load
<1>3. d.angles_ready_ => r.angles_ready_
  BY <1>2, Zenon
<1> QED
  BY <1>1, <1>2, <1>3 DEF SameFrame, Kin, r

\* decodeDifopPkt of the lidars with a return mode.
LEMMA WithModeKeeps ==
  ASSUME NEW d, NEW pkt, NEW mode, ConstInv(d), ModeInv(d), DeviceInv, pkt.rpm = device.rps * 60
  PROVE  LET r == DifopWithMode(d, pkt, mode) IN SameFrame(r, d) /\ DifopSets(r)
<1> DEFINE e == decodeDifopCommon(d, pkt)
           r == DifopWithMode(d, pkt, mode)
<1>1. SameFrame(e, d) /\ e.blks_per_frame_ = BlksPerFrame(e.P, device.rps)
  BY CommonKeeps
<1>2. r = [e EXCEPT !.echo_mode_ = mode,
                    !.split_blks_per_frame_ =
                       IF mode = "dual" THEN (e.blks_per_frame_ * 2) % 65536 ELSE e.blks_per_frame_]
  BY DEF DifopWithMode
<1> HIDE DEF e, r
<1>3. ModeInv(e)
  BY <1>1, KinIs DEF SameFrame
<1>4. /\ DOMAIN r = DOMAIN e /\ r.lidar = e.lidar /\ r.param = e.param /\ r.P = e.P
      /\ r.split_strategy_ = e.split_strategy_ /\ r.point_cloud_ = e.point_cloud_ /\ r.out = e.out /\ r.seq = e.seq
      /\ r.blks_per_frame_ = e.blks_per_frame_ /\ r.angles_ready_ = e.angles_ready_
      /\ r.split_blks_per_frame_ = IF mode = "dual" THEN (e.blks_per_frame_ * 2) % 65536 ELSE e.blks_per_frame_
  BY <1>2, <1>3 DEF ModeInv, MechMembers, DecoderMembers
<1>5. SameFrame(r, d)
  <2>1. Kin(r, d)
    BY <1>1, <1>4 DEF SameFrame, Kin
  <2>2. d.angles_ready_ => r.angles_ready_
    <3>1. d.angles_ready_ => e.angles_ready_
      BY <1>1, Zenon DEF SameFrame
    <3>2. r.angles_ready_ = e.angles_ready_
      BY <1>4
    <3> QED
      BY <3>1, <3>2, Zenon
  <2> QED
    BY <1>1, <1>4, <2>1, <2>2 DEF SameFrame
<1>6. DifopSets(r)
  BY <1>1, <1>4 DEF DifopSets
<1> QED
  BY <1>5, <1>6 DEF r

\* The lidars that put two firings into a block.
LEMMA Mode16Keeps ==
  ASSUME NEW d, NEW mode, NEW tss, ConstInv(d), ModeInv(d), d.blks_per_frame_ = BlksPerFrame(d.P, device.rps)
  PROVE  LET r == [Rs16Mode(d, mode) EXCEPT !.P.CHAN_TSS = tss] IN SameFrame(r, d) /\ DifopSets(r)
<1> DEFINE e == Rs16Mode(d, mode)
           r == [e EXCEPT !.P.CHAN_TSS = tss]
           b == d.blks_per_frame_
<1>1. /\ DOMAIN e = DOMAIN d /\ e.lidar = d.lidar /\ e.param = d.param /\ e.P = d.P
      /\ e.split_strategy_ = d.split_strategy_ /\ e.point_cloud_ = d.point_cloud_ /\ e.out = d.out /\ e.seq = d.seq
      /\ e.blks_per_frame_ = b /\ e.angles_ready_ = d.angles_ready_
      /\ e.split_blks_per_frame_ \in {b, b \div 2}
  BY DEF Rs16Mode, ModeInv, MechMembers, DecoderMembers
<1> HIDE DEF e
<1>2. /\ DOMAIN r = DOMAIN e /\ r.lidar = e.lidar /\ r.param = e.param /\ r.P = [e.P EXCEPT !.CHAN_TSS = tss]
      /\ r.split_strategy_ = e.split_strategy_ /\ r.point_cloud_ = e.point_cloud_ /\ r.out = e.out /\ r.seq = e.seq
      /\ r.blks_per_frame_ = e.blks_per_frame_ /\ r.angles_ready_ = e.angles_ready_
      /\ r.split_blks_per_frame_ = e.split_blks_per_frame_
  BY <1>1 DEF ModeInv, MechMembers, DecoderMembers
<1> HIDE DEF r
<1>3. DOMAIN r.P = DOMAIN d.P /\ (\A f \in ParamMembers : r.P[f] = d.P[f]) /\ r.P.BLOCK_DURATION = d.P.BLOCK_DURATION
  BY <1>1, <1>2 DEF ConstInv, ModeInv, ParamMembers
<1>4. SameFrame(r, d)
  BY <1>1, <1>2, <1>3, Zenon DEF SameFrame, Kin
<1>5. DifopSets(r)
  BY <1>1, <1>2, <1>3, SMT DEF DifopSets, BlksPerFrame
<1> QED
  BY <1>4, <1>5 DEF r, e

\* decodeDifopPkt of every mechanical lidar.
LEMMA DifopOfLidar ==
  ASSUME NEW d, NEW pkt, ConstInv(d), ModeInv(d), DeviceInv, BlksInv(d), "rpm" \in DOMAIN pkt, pkt.rpm = device.rps * 60
  PROVE  LET r == decodeDifopPkt(d, pkt)
         IN  SameFrame(r, d)
             /\ (DifopSets(r) \/ (r.blks_per_frame_ = BlksPerFrame(r.P, device.rps) /\ r.split_blks_per_frame_ = d.split_blks_per_frame_))
<1>1. CASE d.lidar = "RSBP"
  BY <1>1, WithModeKeeps DEF decodeDifopPkt, RSBP_DecodeDifop
<1>2. CASE d.lidar = "RSP80"
  BY <1>2, WithModeKeeps DEF decodeDifopPkt, RSP80_DecodeDifop
<1>3. CASE d.lidar = "RS16"
  <2> DEFINE p == RS16_Adapter(pkt)
             e == decodeDifopCommon(d, p)
             mode == RS16_EchoMode(pkt.return_mode)
             r == decodeDifopPkt(d, pkt)
  <2>1. p.rpm = pkt.rpm
    BY DEF RS16_Adapter
  <2> HIDE DEF p
  <2>2. SameFrame(e, d) /\ e.blks_per_frame_ = BlksPerFrame(e.P, device.rps) /\ e.split_blks_per_frame_ = d.split_blks_per_frame_
    BY <2>1, CommonKeeps
  <2>3. r = IF e.echo_mode_ = mode THEN e ELSE RS16_CalcParam(Rs16Mode(e, mode))
    BY <1>3 DEF decodeDifopPkt, RS16_DecodeDifop, p
  <2> HIDE DEF e, r, mode
  <2>4. CASE e.echo_mode_ = mode
    BY <2>2, <2>3, <2>4 DEF r
  <2>5. CASE e.echo_mode_ # mode
    <3>1. ConstInv(e) /\ ModeInv(e)
      BY <2>2, KinIs DEF SameFrame
    <3> DEFINE tss == IF Rs16Mode(e, mode).echo_mode_ = "single" THEN 97500 ELSE 42000
    <3>2. r = [Rs16Mode(e, mode) EXCEPT !.P.CHAN_TSS = tss]
      BY <2>3, <2>5 DEF RS16_CalcParam
    <3> HIDE DEF tss
    <3>3. SameFrame(r, e) /\ DifopSets(r)
      BY <2>2, <3>1, <3>2, Mode16Keeps
    <3>4. SameFrame(r, d)
      BY <2>2, <3>3, Zenon DEF SameFrame, Kin
    <3> QED
      BY <3>3, <3>4 DEF r
  <2> QED
    BY <2>4, <2>5
<1>4. CASE d.lidar = "RS32"
  <2>1. RS32_Adapter(pkt).rpm = pkt.rpm
    BY DEF RS32_Adapter
  <2> QED
    BY <1>4, <2>1, WithModeKeeps DEF decodeDifopPkt, RS32_DecodeDifop
<1>5. CASE d.lidar = "RS48"
  BY <1>5, WithModeKeeps DEF decodeDifopPkt, RS48_DecodeDifop
<1>6. CASE d.lidar = "RS80"
  BY <1>6, WithModeKeeps DEF decodeDifopPkt, RS80_DecodeDifop
<1>7. CASE d.lidar = "RS128"
  BY <1>7, WithModeKeeps DEF decodeDifopPkt, RS128_DecodeDifop
<1>8. CASE d.lidar = "RSP48"
  BY <1>8, WithModeKeeps DEF decodeDifopPkt, RSP48_DecodeDifop
<1>9. CASE d.lidar = "RSP128"
  BY <1>9, WithModeKeeps DEF decodeDifopPkt, RSP128_DecodeDifop
<1>10. CASE d.lidar = "RSHELIOS"
  BY <1>10, WithModeKeeps DEF decodeDifopPkt, RSHELIOS_DecodeDifop
<1>11. CASE d.lidar = "RSHELIOS_16P"
  <2> DEFINE e == decodeDifopCommon(d, pkt)
             mode == RSHELIOS_16P_EchoMode(pkt.return_mode)
             r == decodeDifopPkt(d, pkt)
  <2>2. SameFrame(e, d) /\ e.blks_per_frame_ = BlksPerFrame(e.P, device.rps) /\ e.split_blks_per_frame_ = d.split_blks_per_frame_
    BY CommonKeeps
  <2>3. r = IF e.echo_mode_ = mode THEN e ELSE RSHELIOS_16P_CalcParam(Rs16Mode(e, mode))
    BY <1>11 DEF decodeDifopPkt, RSHELIOS_16P_DecodeDifop
  <2> HIDE DEF e, r, mode
  <2>4. CASE e.echo_mode_ = mode
    BY <2>2, <2>3, <2>4 DEF r
  <2>5. CASE e.echo_mode_ # mode
    <3>1. ConstInv(e) /\ ModeInv(e)
      BY <2>2, KinIs DEF SameFrame
    <3> DEFINE tss == IF Rs16Mode(e, mode).echo_mode_ = "single" THEN 99460 ELSE 43910
    <3>2. r = [Rs16Mode(e, mode) EXCEPT !.P.CHAN_TSS = tss]
      BY <2>3, <2>5 DEF RSHELIOS_16P_CalcParam
    <3> HIDE DEF tss
    <3>3. SameFrame(r, e) /\ DifopSets(r)
      BY <2>2, <3>1, <3>2, Mode16Keeps
    <3>4. SameFrame(r, d)
      BY <2>2, <3>3, Zenon DEF SameFrame, Kin
    <3> QED
      BY <3>3, <3>4 DEF r
  <2> QED
    BY <2>4, <2>5
<1> QED
  BY <1>1, <1>2, <1>3, <1>4, <1>5, <1>6, <1>7, <1>8, <1>9, <1>10, <1>11 DEF ModeInv, MechLidars

-----------------------------------------------------------------------------
(* A mechanical lidar's steps.                                             *)

\* The counts of packets and of faults.
RsTyped == sent \in Nat /\ faults \in [count : Nat, last : BOOLEAN]

\* The invariant of a mechanical lidar.
MechState == DeviceInv /\ ConstInv(dec) /\ ModeInv(dec) /\ BlksInv(dec) /\ MechInv

\* The invariant's parts read the settings of the lidar, which no step changes.
LEMMA MechCarry ==
  ASSUME Kin(dec', dec), device' = device, DeviceInv, ConstInv(dec), ModeInv(dec)
  PROVE  /\ DeviceInv' /\ ConstInv(dec)' /\ ModeInv(dec)' /\ MaxBlks' = MaxBlks
         /\ dec'.P.BLOCKS_PER_PKT = dec.P.BLOCKS_PER_PKT
         /\ BlksInv(dec') => BlksInv(dec)'
         /\ (Fresh(dec') => Fresh(dec)') /\ \A b : AtBlock(dec', b) => AtBlock(dec, b)'
<1>2. ConstInv(dec') /\ ModeInv(dec')
  BY KinIs
<1>3. ConstInv(dec)'
  BY <1>2 DEF ConstInv
<1>4. ModeInv(dec)'
  BY <1>2 DEF ModeInv
<1>5. MaxBlks' = MaxBlks
  BY SMT DEF MaxBlks, Kin, BlksPerFrame
<1>6. dec'.P.BLOCKS_PER_PKT = dec.P.BLOCKS_PER_PKT /\ dec'.lidar = dec.lidar
  BY DEF Kin, ParamMembers
<1>7. BlksInv(dec') => BlksInv(dec)'
  BY <1>5 DEF BlksInv
<1>8. FirstAz' = FirstAz /\ Step' = Step /\ FiringsPerRound' = FiringsPerRound
  BY <1>6 DEF FirstAz, Step, FiringsPerRound, FiringsPerBlock
<1>9. ASSUME NEW b
      PROVE  AngleOf(Firing(b))' = AngleOf(Firing(b)) /\ Turn(b)' = Turn(b)
  BY <1>8 DEF AngleOf, Firing, Turn
<1>1. DeviceInv'
  BY <1>6, <1>8 DEF DeviceInv
<1>10. ASSUME NEW b, AtBlock(dec', b)
       PROVE  AtBlock(dec, b)'
  <2>1. StrategyInv(dec, b)'
    BY <1>5, <1>9, <1>10 DEF AtBlock, StrategyInv
  <2>2. CloudsInv(dec', MaxBlks', Turn(b)')
    BY <1>5, <1>9, <1>10 DEF AtBlock
  <2>3. ~CutByNumber(dec') /\ Early(b)' => dec'.point_cloud_.rounds \subseteq {Turn(b)'}
    BY <1>9, <1>10 DEF AtBlock, Early
  <2> QED
    BY <2>1, <2>2, <2>3 DEF AtBlock
<1>11. Fresh(dec') => Fresh(dec)'
  BY DEF Fresh
<1> QED
  BY <1>1, <1>3, <1>4, <1>5, <1>6, <1>7, <1>10, <1>11

\* A packet in order, or after a lost one.
LEMMA MechNext ==
  ASSUME RsTyped, MechState, Alike(dec', dec), device' = device, sent' = sent + 1, faults' \in [count : Nat, last : BOOLEAN],
         LET n == dec.P.BLOCKS_PER_PKT
             end == (sent + 1) * n - 1
         IN  MechAt(dec', IF faults'.last THEN end - n ELSE end, end)
  PROVE  MechState'
<1>1. Kin(dec', dec)
  BY DEF Alike
<1>2. /\ DeviceInv' /\ ConstInv(dec)' /\ ModeInv(dec)' /\ dec'.P.BLOCKS_PER_PKT = dec.P.BLOCKS_PER_PKT
      /\ BlksInv(dec') => BlksInv(dec)'
      /\ (Fresh(dec') => Fresh(dec)') /\ \A b : AtBlock(dec', b) => AtBlock(dec, b)'
  BY <1>1, MechCarry DEF MechState
<1>3. BlksInv(dec')
  BY DEF MechState, BlksInv, Alike, Kin
<1> DEFINE n == dec.P.BLOCKS_PER_PKT
           end == (sent + 1) * n - 1
           low == IF faults'.last THEN end - n ELSE end
<1>4. MechAt(dec', low, end)
  OBVIOUS
<1>5. end = sent' * dec'.P.BLOCKS_PER_PKT - 1 /\ low = IF faults'.last THEN end - dec'.P.BLOCKS_PER_PKT ELSE end
  BY <1>2
<1> HIDE DEF n, end, low
<1>6. CASE Fresh(dec')
  BY <1>2, <1>3, <1>6 DEF MechInv, MechAt, MechState
<1>7. CASE ~Fresh(dec')
  <2>1. PICK b \in Nat : low <= b /\ b <= end /\ AtBlock(dec', b)
    BY <1>4, <1>7 DEF MechAt
  <2>2. AtBlock(dec, b)'
    BY <1>2, <2>1
  <2>3. (dec.param.wait_for_difop => dec.angles_ready_)'
    BY <1>4, <1>7, Zenon DEF MechAt
  <2>4. MechInv'
    BY <1>5, <2>1, <2>2, <2>3 DEF MechInv, MechAt
  <2> QED
    BY <1>2, <1>3, <2>4 DEF MechState
<1> QED
  BY <1>6, <1>7

\* A packet's length and the ids of its blocks.
LEMMA MechPackets ==
  ASSUME ModeInv(dec), sent \in Nat, NEW n, n = dec.P.BLOCKS_PER_PKT
  PROVE  LET pkt == Msop(sent)
         IN  /\ pkt = MechMsop(sent) /\ pkt.len = dec.P.MSOP_LEN /\ pkt.id_ok = TRUE
             /\ \A i \in 1 .. n : pkt.blocks[i] = MechBlockOf(sent * n + i - 1) /\ pkt.blocks[i].id_ok = TRUE
             /\ DOMAIN pkt = {"len", "id_ok", "host", "temp", "utc", "ymd", "lidar_type", "lidar_model", "blocks"}
             /\ DOMAIN pkt.blocks = 1 .. n
             /\ \A i \in 1 .. n : DOMAIN pkt.blocks[i] = {"id_ok", "az", "round", "early", "valid"}
<1>1. dec.lidar \in MechLidars /\ dec.lidar \notin MemsLidars
  BY DEF ModeInv, MechLidars, MemsLidars
<1>2. Msop(sent) = MechMsop(sent)
  BY <1>1 DEF Msop
<1> QED
  BY <1>2 DEF MechMsop, MechBlockOf

\* A mechanical lidar's packet arrives.
LEMMA MechReceive ==
  RsTyped /\ MechState /\ Receive => MechState'
<1> SUFFICES ASSUME RsTyped, MechState, Receive
             PROVE  MechState'
  OBVIOUS
<1> DEFINE n == dec.P.BLOCKS_PER_PKT
           pkt == Msop(sent)
           r == processMsopPkt(dec, pkt)
           end == (sent + 1) * n - 1
<1>1. n \in Nat /\ sent \in Nat /\ DeviceInv /\ ConstInv(dec) /\ ModeInv(dec) /\ BlksInv(dec) /\ MechInv
  BY DEF MechState, ModeInv, RsTyped
<1>2. /\ dec' = r /\ device' = device /\ sent' = sent + 1
      /\ faults' \in [count : Nat, last : BOOLEAN] /\ faults'.last = FALSE
  BY DEF Receive, RsTyped
<1>3. /\ pkt.len = dec.P.MSOP_LEN /\ pkt.id_ok
      /\ \A i \in 1 .. n : pkt.blocks[i] = MechBlockOf(sent * n + i - 1) /\ pkt.blocks[i].id_ok
  BY <1>1, MechPackets
<1> HIDE DEF n, pkt
<1>4. Alike(r, dec) /\ MechAt(r, IF TRUE THEN end ELSE end - n, end)
  BY <1>1, <1>3, MechProcess DEF n
<1> QED
  BY <1>2, <1>4, MechNext DEF n

\* It arrives with a wrong id in it.
LEMMA MechReceiveCut ==
  RsTyped /\ MechState /\ ReceiveCut => MechState'
<1> SUFFICES ASSUME RsTyped, MechState, ReceiveCut
             PROVE  MechState'
  OBVIOUS
<1> DEFINE n == dec.P.BLOCKS_PER_PKT
           pkt == Msop(sent)
           end == (sent + 1) * n - 1
<1>1. n \in Nat /\ n >= 1 /\ sent \in Nat /\ DeviceInv /\ ConstInv(dec) /\ ModeInv(dec) /\ BlksInv(dec) /\ MechInv
  BY DEF MechState, ModeInv, RsTyped
<1>2. PICK j \in {1, n} : dec' = processMsopPkt(dec, Cut(pkt, j))
  BY DEF ReceiveCut
<1> DEFINE cut == Cut(pkt, j)
           r == processMsopPkt(dec, cut)
<1>3. /\ dec' = r /\ device' = device /\ sent' = sent + 1
      /\ faults' \in [count : Nat, last : BOOLEAN] /\ faults'.last = TRUE /\ ~faults.last
  BY <1>2 DEF ReceiveCut, RsTyped, MayFail
<1>4. /\ cut.len = dec.P.MSOP_LEN /\ ~cut.blocks[j].id_ok /\ j \in 1 .. n
      /\ \A i \in 1 .. n : cut.blocks[i].id_ok => cut.blocks[i] = MechBlockOf(sent * n + i - 1)
  <2>1. /\ pkt.len = dec.P.MSOP_LEN
        /\ \A i \in 1 .. n : pkt.blocks[i] = MechBlockOf(sent * n + i - 1)
        /\ DOMAIN pkt = {"len", "id_ok", "host", "temp", "utc", "ymd", "lidar_type", "lidar_model", "blocks"}
        /\ DOMAIN pkt.blocks = 1 .. n
        /\ \A i \in 1 .. n : DOMAIN pkt.blocks[i] = {"id_ok", "az", "round", "early", "valid"}
    BY <1>1, MechPackets
  <2>2. j \in 1 .. n
    BY <1>1
  <2>3. cut = [pkt EXCEPT !.blocks[j].id_ok = FALSE]
    BY DEF Cut
  <2> HIDE DEF n, pkt, cut
  <2>4. /\ cut.len = pkt.len /\ cut.blocks = [pkt.blocks EXCEPT ![j].id_ok = FALSE]
    BY <2>1, <2>3
  <2>5. /\ cut.blocks[j] = [pkt.blocks[j] EXCEPT !.id_ok = FALSE]
        /\ \A i \in 1 .. n : i # j => cut.blocks[i] = pkt.blocks[i]
    BY <2>1, <2>2, <2>4
  <2>6. ~cut.blocks[j].id_ok
    BY <2>1, <2>2, <2>5
  <2> QED
    BY <2>1, <2>2, <2>4, <2>5, <2>6
<1> HIDE DEF n, cut, r
<1>5. Alike(r, dec) /\ MechAt(r, IF FALSE THEN end ELSE end - n, end)
  BY <1>1, <1>3, <1>4, MechProcess DEF n, r
<1> QED
  BY <1>3, <1>5, MechNext DEF n

\* It is lost, or arrives with a wrong id of its own.
LEMMA MechLose ==
  RsTyped /\ MechState /\ Lose => MechState'
<1> SUFFICES ASSUME RsTyped, MechState, Lose
             PROVE  MechState'
  OBVIOUS
<1> DEFINE n == dec.P.BLOCKS_PER_PKT
           pkt == [Msop(sent) EXCEPT !.id_ok = FALSE]
           end == (sent + 1) * n - 1
           r == processMsopPkt(dec, pkt)
<1>1. n \in Nat /\ n >= 1 /\ sent \in Nat /\ DeviceInv /\ ConstInv(dec) /\ ModeInv(dec) /\ BlksInv(dec) /\ MechInv
  BY DEF MechState, ModeInv, RsTyped
<1>2. dec.lidar \in MechLidars /\ dec.lidar \notin MemsLidars
  BY <1>1 DEF ModeInv, MechLidars, MemsLidars
<1>3. /\ dec' = r \/ dec' = dec
      /\ device' = device /\ sent' = sent + 1
      /\ faults' \in [count : Nat, last : BOOLEAN] /\ faults'.last = TRUE /\ ~faults.last
  BY <1>2 DEF Lose, RsTyped, MayFail
<1>4. CASE dec' = r
  <2>1. /\ pkt.len = dec.P.MSOP_LEN /\ ~pkt.id_ok
        /\ \A i \in 1 .. n : pkt.blocks[i] = MechBlockOf(sent * n + i - 1)
    <3>1. /\ Msop(sent).len = dec.P.MSOP_LEN
          /\ \A i \in 1 .. n : Msop(sent).blocks[i] = MechBlockOf(sent * n + i - 1)
          /\ DOMAIN Msop(sent) = {"len", "id_ok", "host", "temp", "utc", "ymd", "lidar_type", "lidar_model", "blocks"}
      BY <1>1, MechPackets
    <3> QED
      BY <3>1
  <2> HIDE DEF n, pkt, r
  <2>2. Alike(r, dec) /\ MechAt(r, IF FALSE THEN end ELSE end - n, end)
    BY <1>1, <1>3, <2>1, MechProcess DEF n, r
  <2> QED
    BY <1>3, <1>4, <2>2, MechNext DEF n
<1>5. CASE dec' = dec
  <2>1. Alike(dec', dec)
    BY <1>5 DEF Alike, Kin
  <2>2. MechAt(dec, sent * n - 1, sent * n - 1)
    BY <1>1, <1>3 DEF MechInv
  <2>3. sent * n \in Nat /\ end - n = sent * n - 1 /\ sent * n - 1 <= end
    BY <1>1
  <2> HIDE DEF end, n
  <2>4. MechAt(dec, end - n, end)
    <3>1. \A b \in Nat : b <= sent * n - 1 => b <= end
      BY <1>1, <2>3 DEF end
    <3> QED
      BY <2>2, <2>3, <3>1 DEF MechAt
  <2> QED
    BY <1>3, <1>5, <2>1, <2>4, MechNext DEF n, end
<1> QED
  BY <1>3, <1>4, <1>5

\* A DIFOP packet arrives at a mechanical lidar's decoder.
LEMMA MechDifop ==
  RsTyped /\ MechState /\ ReceiveDifop => MechState'
<1> SUFFICES ASSUME RsTyped, MechState, ReceiveDifop
             PROVE  MechState'
  OBVIOUS
<1>1. sent \in Nat /\ DeviceInv /\ ConstInv(dec) /\ ModeInv(dec) /\ BlksInv(dec) /\ MechInv
  BY DEF MechState, RsTyped
<1>2. PICK calibrated \in BOOLEAN : dec' = processDifopPkt(dec, Difop(calibrated))
  BY DEF ReceiveDifop
<1>3. device' = device /\ sent' = sent /\ faults' = faults
  BY DEF ReceiveDifop
<1> DEFINE pkt == Difop(calibrated)
           r == decodeDifopPkt(dec, pkt)
<1>4. dec' = r \/ dec' = dec
  BY <1>2 DEF processDifopPkt
<1>5. SameFrame(dec', dec) /\ BlksInv(dec')
  <2>1. CASE dec' = dec
    BY <1>1, <2>1, Zenon DEF SameFrame, Kin
  <2>2. CASE dec' = r
    <3>1. "rpm" \in DOMAIN pkt /\ pkt.rpm = device.rps * 60
      BY SMT DEF Difop
    <3> HIDE DEF pkt
    <3>2. SameFrame(r, dec)
          /\ (DifopSets(r) \/ (r.blks_per_frame_ = BlksPerFrame(r.P, device.rps) /\ r.split_blks_per_frame_ = dec.split_blks_per_frame_))
      BY <1>1, <3>1, DifopOfLidar
    <3> HIDE DEF r
    <3>3. Kin(r, dec) /\ ModeInv(r) /\ r.param = dec.param
      BY <1>1, <3>2, KinIs DEF SameFrame, Kin
    <3> DEFINE b == BlksPerFrame(r.P, device.rps)
    <3>4. r.blks_per_frame_ = b /\ r.split_blks_per_frame_ \in {b, (b * 2) % 65536, b \div 2, dec.split_blks_per_frame_}
      BY <3>2 DEF DifopSets
    <3>5. b \in Nat
      <4>1. device.rps \in Nat /\ 0 < device.rps /\ device.rps <= device.rps
        BY <1>1 DEF DeviceInv
      <4> QED
        BY <3>3, <4>1, FrameBlks
    <3>6. r.param.split_frame_mode = "fixed" => 2 * b <= MaxBlks
      BY <1>1, <3>3, AtSpeed
    <3> HIDE DEF b
    <3>7. MaxBlks \in Nat /\ dec.split_blks_per_frame_ \in Nat
          /\ (r.param.split_frame_mode = "fixed" => dec.split_blks_per_frame_ <= MaxBlks)
      BY <1>1, <3>3 DEF BlksInv
    <3>8. (b * 2) % 65536 \in Nat /\ (b * 2) % 65536 <= 2 * b /\ b \div 2 \in Nat /\ b \div 2 <= 2 * b /\ b <= 2 * b
      BY <3>5, SMT
    <3> HIDE DEF MaxBlks
    <3>9. r.split_blks_per_frame_ \in Nat /\ (r.param.split_frame_mode = "fixed" => r.split_blks_per_frame_ <= MaxBlks)
      <4>1. CASE r.split_blks_per_frame_ = dec.split_blks_per_frame_
        BY <3>7, <4>1
      <4>2. CASE r.split_blks_per_frame_ \in {b, (b * 2) % 65536, b \div 2}
        <5> DEFINE z == r.split_blks_per_frame_
        <5>1. z \in Nat /\ z <= 2 * b
          BY <3>5, <3>8, <4>2
        <5> HIDE DEF z
        <5> QED
          BY <3>5, <3>6, <3>7, <5>1 DEF z
      <4> QED
        BY <3>4, <4>1, <4>2
    <3>10. BlksInv(r)
      BY <1>1, <3>3, <3>4, <3>5, <3>6, <3>9 DEF BlksInv
    <3> QED
      BY <2>2, <3>2, <3>10
  <2> QED
    BY <1>4, <2>1, <2>2
<1> HIDE DEF r
<1>6. Kin(dec', dec)
  BY <1>5 DEF SameFrame
<1>7. /\ DeviceInv' /\ ConstInv(dec)' /\ ModeInv(dec)' /\ dec'.P.BLOCKS_PER_PKT = dec.P.BLOCKS_PER_PKT
      /\ BlksInv(dec)' /\ (Fresh(dec') => Fresh(dec)') /\ \A b : AtBlock(dec', b) => AtBlock(dec, b)'
  BY <1>1, <1>3, <1>5, <1>6, MechCarry
<1>8. ASSUME NEW lo, NEW hi, MechAt(dec, lo, hi)
      PROVE  MechAt(dec', lo, hi)
  <2>1. CASE Fresh(dec)
    BY <1>5, <2>1 DEF SameFrame, Kin, Fresh, NoCloudYet, MechAt
  <2>2. CASE ~Fresh(dec)
    <3>1. PICK b \in Nat : lo <= b /\ b <= hi /\ AtBlock(dec, b)
      BY <1>8, <2>2 DEF MechAt
    <3>2. CloudsInv(dec', MaxBlks, Turn(b))
      BY <1>5, <3>1, SameClouds DEF SameFrame, AtBlock
    <3>3. StrategyInv(dec', b)
      BY <1>5, <3>1, KinIs DEF SameFrame, Kin, AtBlock, StrategyInv
    <3>4. AtBlock(dec', b)
      <4>1. CutByNumber(dec') = CutByNumber(dec) /\ dec'.point_cloud_ = dec.point_cloud_
        BY <1>5, KinIs DEF SameFrame
      <4> QED
        BY <3>1, <3>2, <3>3, <4>1 DEF AtBlock
    <3>5. dec'.param.wait_for_difop => dec'.angles_ready_
      <4>1. dec.param.wait_for_difop => dec.angles_ready_
        BY <1>8, <2>2, Zenon DEF MechAt
      <4>2. dec'.param = dec.param
        BY <1>6 DEF Kin
      <4>3. dec.angles_ready_ => dec'.angles_ready_
        BY <1>5, Zenon DEF SameFrame
      <4> QED
        BY <4>1, <4>2, <4>3, Zenon
    <3> QED
      BY <3>1, <3>4, <3>5 DEF MechAt
  <2> QED
    BY <2>1, <2>2
<1>9. MechInv'
  <2> DEFINE end == sent * dec.P.BLOCKS_PER_PKT - 1
             low == IF faults.last THEN end - dec.P.BLOCKS_PER_PKT ELSE end
  <2>1. MechAt(dec, low, end)
    BY <1>1 DEF MechInv
  <2>2. end = sent' * dec'.P.BLOCKS_PER_PKT - 1 /\ low = IF faults'.last THEN end - dec'.P.BLOCKS_PER_PKT ELSE end
    BY <1>3, <1>7
  <2> HIDE DEF end, low
  <2>3. MechAt(dec', low, end)
    BY <1>8, <2>1
  <2>4. CASE Fresh(dec')
    BY <1>7, <2>4 DEF MechInv, MechAt
  <2>5. CASE ~Fresh(dec')
    <3>1. PICK b \in Nat : low <= b /\ b <= end /\ AtBlock(dec', b)
      BY <2>3, <2>5 DEF MechAt
    <3>2. AtBlock(dec, b)'
      BY <1>7, <3>1
    <3>3. (dec.param.wait_for_difop => dec.angles_ready_)'
      BY <2>3, <2>5, Zenon DEF MechAt
    <3> QED
      BY <2>2, <3>1, <3>2, <3>3 DEF MechInv, MechAt
  <2> QED
    BY <2>4, <2>5
<1> QED
  BY <1>7, <1>9 DEF MechState

-----------------------------------------------------------------------------
(* The start of a mechanical lidar.                                        *)

\* The constants of a mechanical lidar.
MechParam(P) ==
  /\ ParamMembers \subseteq DOMAIN P /\ "BLOCK_DURATION" \in DOMAIN P
  /\ P.LASER_NUM \in Nat \ {0} /\ P.BLOCKS_PER_PKT \in {3, 4, 8, 12} /\ P.CHANNELS_PER_BLOCK \in Nat \ {0}
  /\ P.CHANNELS_PER_BLOCK % P.LASER_NUM = 0 /\ P.BLOCK_DURATION \in Nat \ {0}
  /\ BlksPerFrame(P, 10) \in Nat /\ BlksPerFrame(P, 10) >= 1

\* The user's parameters.
UserParam(param) ==
  /\ {"split_frame_mode", "num_blks_split", "split_angle", "wait_for_difop", "config_from_file", "dense_points"}
       \subseteq DOMAIN param
  /\ param.split_frame_mode \in {"angle", "fixed", "custom"} /\ param.num_blks_split \in Nat \ {0}
  /\ param.split_angle \in Nat /\ param.dense_points \in BOOLEAN

\* A mechanical decoder as the constructors leave it.
MechBorn(d, model, param) ==
  /\ MechMembers \subseteq DOMAIN d /\ d.lidar = model /\ MechParam(d.P) /\ UserParam(d.param)
  /\ d.param.split_angle = param.split_angle /\ Fresh(d)
  /\ d.blks_per_frame_ = BlksPerFrame(d.P, 10) /\ d.split_blks_per_frame_ = BlksPerFrame(d.P, 10)

\* MechDecoder.
LEMMA MechDecoderBorn ==
  ASSUME NEW model, NEW P, NEW param, MechParam(P), UserParam(param)
  PROVE  MechBorn(MechDecoder(model, P, param), model, param)
<1> DEFINE base == Joined(BaseDecoder(model, P, param), MechFields(P, param))
           d == MechDecoder(model, P, param)
           loaded == param.config_from_file /\ FileOk(param.angle_file, CaliChans)
           chans == loadFromFile(param.angle_file, CaliChans)
           wait == param.wait_for_difop /\ ~param.config_from_file
           dur == P.BLOCK_DURATION * P.BLOCKS_PER_PKT
<1>1. /\ DOMAIN base = MechMembers /\ base.lidar = model /\ base.P = P /\ base.param = param
      /\ base.point_cloud_ = EmptyCloud /\ base.seq = 0 /\ base.out = <<>>
      /\ base.blks_per_frame_ = BlksPerFrame(P, 10) /\ base.split_blks_per_frame_ = BlksPerFrame(P, 10)
  BY DEF Joined, BaseDecoder, MechFields, MechMembers, DecoderMembers
<1> HIDE DEF base
<1>2. d = [base EXCEPT
            !.packet_duration_ = dur, !.split_strategy_  = StrategyOf(param), !.angles_ready_    = loaded,
            !.chan_angles_     = IF loaded THEN chans ELSE @,
            !.param.wait_for_difop = @ /\ ~param.config_from_file]
  BY DEF MechDecoder, base
<1> HIDE DEF d, loaded, chans, dur
<1>3. /\ DOMAIN d = MechMembers /\ d.lidar = model /\ d.P = P
      /\ d.point_cloud_ = EmptyCloud /\ d.seq = 0 /\ d.out = <<>> /\ d.split_strategy_ = StrategyOf(param)
      /\ d.blks_per_frame_ = BlksPerFrame(P, 10) /\ d.split_blks_per_frame_ = BlksPerFrame(P, 10)
  BY <1>1, <1>2 DEF MechMembers, DecoderMembers
<1>4. d.param = [param EXCEPT !.wait_for_difop = wait]
  BY <1>1, <1>2 DEF MechMembers, DecoderMembers
<1> HIDE DEF wait
<1>5. /\ DOMAIN d.param = DOMAIN param /\ d.param.split_frame_mode = param.split_frame_mode
      /\ d.param.num_blks_split = param.num_blks_split /\ d.param.split_angle = param.split_angle
      /\ d.param.dense_points = param.dense_points
  BY <1>4 DEF UserParam
<1>6. UserParam(d.param)
  BY <1>5 DEF UserParam
<1>7. StrategyOf(d.param) = StrategyOf(param)
  BY <1>5 DEF StrategyOf
<1>8. Fresh(d)
  BY <1>3, <1>7 DEF Fresh, NoCloudYet
<1> QED
  BY <1>3, <1>5, <1>6, <1>8 DEF MechBorn, d

\* The constructors of RS16 and RSHELIOS_16P change times only.
LEMMA Retimed ==
  ASSUME NEW model, NEW param, NEW d, NEW dur, NEW tss, MechBorn(d, model, param)
  PROVE  MechBorn([[d EXCEPT !.packet_duration_ = dur] EXCEPT !.P.CHAN_TSS = tss], model, param)
<1> DEFINE e == [d EXCEPT !.packet_duration_ = dur]
           r == [e EXCEPT !.P.CHAN_TSS = tss]
<1>1. /\ DOMAIN e = DOMAIN d /\ e.lidar = d.lidar /\ e.P = d.P /\ e.param = d.param
      /\ e.point_cloud_ = d.point_cloud_ /\ e.seq = d.seq /\ e.out = d.out /\ e.split_strategy_ = d.split_strategy_
      /\ e.blks_per_frame_ = d.blks_per_frame_ /\ e.split_blks_per_frame_ = d.split_blks_per_frame_
  BY DEF MechBorn, MechMembers, DecoderMembers
<1> HIDE DEF e
<1>2. /\ DOMAIN r = DOMAIN d /\ r.lidar = d.lidar /\ r.P = [d.P EXCEPT !.CHAN_TSS = tss] /\ r.param = d.param
      /\ r.point_cloud_ = d.point_cloud_ /\ r.seq = d.seq /\ r.out = d.out /\ r.split_strategy_ = d.split_strategy_
      /\ r.blks_per_frame_ = d.blks_per_frame_ /\ r.split_blks_per_frame_ = d.split_blks_per_frame_
  BY <1>1 DEF MechBorn, MechMembers, DecoderMembers
<1> HIDE DEF r
<1>3. /\ DOMAIN r.P = DOMAIN d.P /\ r.P.BLOCK_DURATION = d.P.BLOCK_DURATION
      /\ \A f \in ParamMembers : r.P[f] = d.P[f]
  BY <1>2 DEF MechBorn, MechParam, ParamMembers
<1>4. BlksPerFrame(r.P, 10) = BlksPerFrame(d.P, 10)
  BY <1>3, SMT DEF BlksPerFrame
<1>5. MechParam(r.P)
  BY <1>3, <1>4 DEF MechBorn, MechParam, ParamMembers
<1>6. Fresh(r)
  BY <1>2 DEF MechBorn, Fresh, NoCloudYet
<1> QED
  BY <1>2, <1>4, <1>5, <1>6 DEF MechBorn, r, e

\* The constants of every mechanical lidar.
LEMMA MechParams ==
  /\ MechParam(RSBP_ConstParam) /\ MechParam(RS16_ConstParam) /\ MechParam(RS32_ConstParam)
  /\ MechParam(RS48_ConstParam) /\ MechParam(RS80_ConstParam) /\ MechParam(RS128_ConstParam)
  /\ MechParam(RSP48_ConstParam) /\ MechParam(RSP80_ConstParam) /\ MechParam(RSP128_ConstParam)
  /\ MechParam(RSHELIOS_ConstParam) /\ MechParam(RSHELIOS_16P_ConstParam)
<1>1. MechParam(RSBP_ConstParam)
  BY SMT DEF RSBP_ConstParam, MechParam, ParamMembers, BlksPerFrame
<1>2. MechParam(RS16_ConstParam)
  BY SMT DEF RS16_ConstParam, MechParam, ParamMembers, BlksPerFrame
<1>3. MechParam(RS32_ConstParam)
  BY SMT DEF RS32_ConstParam, MechParam, ParamMembers, BlksPerFrame
<1>4. MechParam(RS48_ConstParam)
  BY SMT DEF RS48_ConstParam, MechParam, ParamMembers, BlksPerFrame
<1>5. MechParam(RS80_ConstParam)
  BY SMT DEF RS80_ConstParam, MechParam, ParamMembers, BlksPerFrame
<1>6. MechParam(RS128_ConstParam)
  BY SMT DEF RS128_ConstParam, MechParam, ParamMembers, BlksPerFrame
<1>7. MechParam(RSP48_ConstParam)
  BY SMT DEF RSP48_ConstParam, MechParam, ParamMembers, BlksPerFrame
<1>8. MechParam(RSP80_ConstParam)
  BY SMT DEF RSP80_ConstParam, MechParam, ParamMembers, BlksPerFrame
<1>9. MechParam(RSP128_ConstParam)
  BY SMT DEF RSP128_ConstParam, MechParam, ParamMembers, BlksPerFrame
<1>10. MechParam(RSHELIOS_ConstParam)
  BY SMT DEF RSHELIOS_ConstParam, MechParam, ParamMembers, BlksPerFrame
<1>11. MechParam(RSHELIOS_16P_ConstParam)
  BY SMT DEF RSHELIOS_16P_ConstParam, MechParam, ParamMembers, BlksPerFrame
<1> QED
  BY <1>1, <1>2, <1>3, <1>4, <1>5, <1>6, <1>7, <1>8, <1>9, <1>10, <1>11

\* createDecoder for a mechanical lidar.
LEMMA CreatedMech ==
  ASSUME NEW model \in MechLidars, NEW param, UserParam(param)
  PROVE  MechBorn(createDecoder(model, param), model, param)
<1>1. CASE model = "RSBP"
  BY <1>1, MechParams, MechDecoderBorn DEF createDecoder
<1>2. CASE model = "RS16"
  <2> DEFINE d == MechDecoder("RS16", RS16_ConstParam, param)
             dur == d.packet_duration_ * 2
             tss == IF [d EXCEPT !.packet_duration_ = dur].echo_mode_ = "single" THEN 97500 ELSE 42000
  <2>1. MechBorn(d, model, param)
    BY <1>2, MechParams, MechDecoderBorn
  <2>2. createDecoder(model, param) = [[d EXCEPT !.packet_duration_ = dur] EXCEPT !.P.CHAN_TSS = tss]
    BY <1>2 DEF createDecoder, RS16_NewDecoder, RS16_CalcParam
  <2> HIDE DEF d, dur, tss
  <2>3. MechBorn([[d EXCEPT !.packet_duration_ = dur] EXCEPT !.P.CHAN_TSS = tss], model, param)
    BY <2>1, Retimed
  <2> QED
    BY <2>2, <2>3, Zenon
<1>3. CASE model = "RS32"
  BY <1>3, MechParams, MechDecoderBorn DEF createDecoder
<1>4. CASE model = "RS48"
  BY <1>4, MechParams, MechDecoderBorn DEF createDecoder
<1>5. CASE model = "RS80"
  BY <1>5, MechParams, MechDecoderBorn DEF createDecoder
<1>6. CASE model = "RS128"
  BY <1>6, MechParams, MechDecoderBorn DEF createDecoder
<1>7. CASE model = "RSP48"
  BY <1>7, MechParams, MechDecoderBorn DEF createDecoder
<1>8. CASE model = "RSP80"
  BY <1>8, MechParams, MechDecoderBorn DEF createDecoder
<1>9. CASE model = "RSP128"
  BY <1>9, MechParams, MechDecoderBorn DEF createDecoder
<1>10. CASE model = "RSHELIOS"
  BY <1>10, MechParams, MechDecoderBorn DEF createDecoder
<1>11. CASE model = "RSHELIOS_16P"
  <2> DEFINE d == MechDecoder("RSHELIOS_16P", RSHELIOS_16P_ConstParam, param)
             dur == d.packet_duration_ * 2
             tss == IF [d EXCEPT !.packet_duration_ = dur].echo_mode_ = "single" THEN 99460 ELSE 43910
  <2>1. MechBorn(d, model, param)
    BY <1>11, MechParams, MechDecoderBorn
  <2>2. createDecoder(model, param) = [[d EXCEPT !.packet_duration_ = dur] EXCEPT !.P.CHAN_TSS = tss]
    BY <1>11 DEF createDecoder, RSHELIOS_16P_NewDecoder, RSHELIOS_16P_CalcParam
  <2> HIDE DEF d, dur, tss
  <2>3. MechBorn([[d EXCEPT !.packet_duration_ = dur] EXCEPT !.P.CHAN_TSS = tss], model, param)
    BY <2>1, Retimed
  <2> QED
    BY <2>2, <2>3, Zenon
<1> QED
  BY <1>1, <1>2, <1>3, <1>4, <1>5, <1>6, <1>7, <1>8, <1>9, <1>10, <1>11 DEF MechLidars

\* A mechanical lidar's initial states.
LEMMA MechStart ==
  ASSUME NEW model \in MechLidars, NEW param \in Params, NEW rpm \in Rpms, NEW mode \in {"single", "dual"},
         NEW firings \in Firings, dec = createDecoder(model, param),
         device = [mode |-> mode, rps |-> rpm \div 60, firings |-> firings, split |-> param.split_angle], FieldOfView,
         sent = 0, faults = [count |-> 0, last |-> FALSE]
  PROVE  MechState
<1>1. UserParam(param) /\ rpm \in Nat /\ rpm >= 60 /\ firings \in Nat
  BY RsDeviceAssumption DEF UserParam
<1>2. MechBorn(dec, model, param)
  BY <1>1, CreatedMech
<1>3. DeviceInv
  <2>1. rpm \div 60 \in Nat /\ rpm \div 60 >= 1
    BY <1>1
  <2>2. FiringsPerRound = firings /\ dec.lidar \in MechLidars
    BY <1>2 DEF FiringsPerRound, MechBorn
  <2> QED
    BY <1>1, <2>1, <2>2 DEF DeviceInv, UserParam, FieldOfView
<1>4. ConstInv(dec)
  BY <1>2 DEF MechBorn, MechParam, UserParam, ConstInv, MechMembers
<1>5. ModeInv(dec)
  BY <1>2 DEF MechBorn, MechParam, UserParam, ModeInv
<1>6. BlksInv(dec)
  <2> DEFINE b == BlksPerFrame(dec.P, 10)
             x == IF device.rps < 10 THEN device.rps ELSE 10
             m == BlksPerFrame(dec.P, x)
  <2>1. x \in Nat /\ 0 < x /\ x <= 10
    BY <1>3 DEF DeviceInv
  <2>2. b \in Nat /\ b >= 1 /\ dec.blks_per_frame_ = b /\ dec.split_blks_per_frame_ = b
    BY <1>2 DEF MechBorn, MechParam
  <2>3. dec.param.num_blks_split \in Nat /\ dec.param.num_blks_split >= 1
    BY <1>2 DEF MechBorn, UserParam
  <2>4. MaxBlks = IF dec.param.split_frame_mode = "custom" THEN dec.param.num_blks_split ELSE 2 * m
    BY DEF MaxBlks
  <2> HIDE DEF x
  <2>5. m \in Nat /\ b <= m
    BY <1>5, <2>1, FrameBlks
  <2> HIDE DEF b, m
  <2> QED
    BY <2>2, <2>3, <2>4, <2>5 DEF BlksInv
<1>7. MechInv
  BY <1>2 DEF MechInv, MechAt, MechBorn
<1> QED
  BY <1>3, <1>4, <1>5, <1>6, <1>7 DEF MechState

-----------------------------------------------------------------------------
(* A lidar with a micro mirror.                                            *)

\* The decoder's constants, its strategy and its clouds.
ScanConst(d) == ConstInv(d) /\ d.lidar \notin MechLidars /\ d.angles_ready_ /\ DOMAIN d.split_strategy_ = DOMAIN BySeq

\* What ScanConst is read from.
LEMMA SameScan ==
  ASSUME NEW d, NEW e, Kin(e, d), ScanConst(d), e.split_strategy_ = d.split_strategy_, e.angles_ready_ = d.angles_ready_
  PROVE  ScanConst(e)
<1>1. ConstInv(e) /\ e.lidar \notin MechLidars /\ DOMAIN e.split_strategy_ = DOMAIN BySeq
  BY KinIs DEF ScanConst, Kin
<1>2. e.angles_ready_
  BY Zenon DEF ScanConst
<1> QED
  BY <1>1, <1>2 DEF ScanConst

\* The points of a packet are a multiple of the lasers.
LEMMA Multiples ==
  ASSUME NEW a \in Nat, NEW b \in Nat, NEW h \in Nat, h > 0, a % h = 0
  PROVE  b * a \in Nat /\ (b * a) % h = 0
<1> DEFINE x == a \div h
           y == b * x
<1>1. x \in Nat /\ a = h * x
  OBVIOUS
<1> HIDE DEF x
<1>2. b * a = h * y /\ y \in Nat
  BY <1>1
<1> HIDE DEF y
<1>3. h * y \in Nat /\ (h * y) % h = 0
  BY <1>2
<1> QED
  BY <1>2, <1>3

\* A packet opens a cloud for a later round, or goes on with the one of its round.
LEMMA ScanKeeps ==
  ASSUME NEW d, NEW pkt, NEW top \in Int, ScanConst(d), CloudsInv(d, 0, top), pkt.round \in Int,
         pkt.valid = (d.P.CHANNELS_PER_BLOCK + 1) \div 2,
         IF NewPacketBySeq(d.split_strategy_, pkt.pkt_seq).split THEN top < pkt.round ELSE top = pkt.round
  PROVE  LET r == MemsDecode(d, pkt)
         IN  /\ Kin(r, d) /\ ScanConst(r) /\ CloudsInv(r, 0, pkt.round)
             /\ r.split_strategy_ = NewPacketBySeq(d.split_strategy_, pkt.pkt_seq)
<1> DEFINE ts == PacketTs(d, pkt, parseTimeUTCWithUs(pkt.utc))
           s == NewPacketBySeq(d.split_strategy_, pkt.pkt_seq)
           temp == pkt.temp - 80
           e == [d EXCEPT !.split_strategy_ = s, !.temperature_ = temp]
           f == IF s.split THEN Split(e, ts) ELSE e
           blks == d.P.BLOCKS_PER_PKT
           n == blks * Kept(d, pkt.valid, d.P.CHANNELS_PER_BLOCK)
           last == ts + pkt.offset * 1000
           r == MemsDecode(d, pkt)
           top2 == pkt.round
<1>0. r = [f EXCEPT !.point_cloud_ = AddPoints(@, top2, TRUE, n, blks), !.prev_point_ts_ = last, !.prev_pkt_ts_ = ts]
  BY DEF MemsDecode
<1>1. DOMAIN s = DOMAIN BySeq
  BY DEF NewPacketBySeq, ScanConst
<1>2. n \in Nat /\ (~d.param.dense_points => n % d.P.LASER_NUM = 0) /\ blks \in Nat
  <2> DEFINE k == Kept(d, pkt.valid, d.P.CHANNELS_PER_BLOCK)
             h == d.P.LASER_NUM
  <2>1. k = Kept(d, IF TRUE THEN pkt.valid ELSE 0, d.P.CHANNELS_PER_BLOCK) /\ ConstInv(d)
    BY DEF ScanConst
  <2>2. k \in Nat /\ (~d.param.dense_points => k % h = 0)
    BY <2>1, KeptPoints
  <2>3. h \in Nat /\ h > 0 /\ blks \in Nat
    BY DEF ScanConst, ConstInv
  <2> HIDE DEF k, h
  <2>4. k % h = 0 => (blks * k) % h = 0
    BY <2>2, <2>3, Multiples
  <2>5. blks * k \in Nat
    BY <2>2, <2>3
  <2> QED
    BY <2>2, <2>3, <2>4, <2>5 DEF k, h
<1> HIDE DEF s, ts, temp, last, n, r, blks
<1>3. /\ Kin(e, d) /\ e.out = d.out /\ e.seq = d.seq /\ e.point_cloud_ = d.point_cloud_ /\ e.split_strategy_ = s
      /\ e.angles_ready_ = d.angles_ready_
  BY DEF Kin, ScanConst, ConstInv, DecoderMembers
<1> HIDE DEF e
<1>4. ConstInv(e) /\ CutByNumber(e) = FALSE /\ CloudsInv(e, 0, top)
  <2>1. ConstInv(e) /\ CutByNumber(e) = CutByNumber(d)
    BY <1>3, KinIs DEF ScanConst
  <2>2. CutByNumber(d) = FALSE
    BY DEF ScanConst, CutByNumber
  <2>3. CloudsInv(e, 0, top)
    BY <1>3, SameClouds
  <2> QED
    BY <2>1, <2>2, <2>3
<1>5. CloudsInv(f, 0, top2) /\ Kin(f, d) /\ f.split_strategy_ = s /\ f.angles_ready_ = d.angles_ready_
  <2>1. CASE s.split
    <3>1. f = Split(e, ts) /\ top < top2
      BY <2>1 DEF s
    <3>2. Ordered(e, top, top2)
      BY <1>4, <3>1 DEF Ordered
    <3>3. CloudsInv(f, 0, top2) /\ Kin(f, e) /\ f.split_strategy_ = s
      <4>1. CloudsInv(Split(e, ts), 0, top2) /\ Kin(Split(e, ts), e) /\ Split(e, ts).split_strategy_ = e.split_strategy_
        BY <1>4, <3>2, SplitKeeps
      <4> QED
        BY <1>3, <3>1, <4>1
    <3>4. f.angles_ready_ = e.angles_ready_
      BY <1>4, <3>1 DEF Split, splitFrame, ConstInv, DecoderMembers
    <3> HIDE DEF f
    <3>5. Kin(f, d)
      BY <1>3, <3>3 DEF Kin
    <3> QED
      BY <1>3, <3>3, <3>4, <3>5
  <2>2. CASE ~s.split
    <3>1. f = e /\ top = top2
      BY <2>2 DEF s
    <3> QED
      BY <1>3, <1>4, <3>1
  <2> QED
    BY <2>1, <2>2
<1> HIDE DEF f
<1>6. ConstInv(f) /\ CutByNumber(f) = FALSE
  BY <1>5, KinIs DEF ScanConst, CutByNumber
<1>7. /\ r.point_cloud_ = AddPoints(f.point_cloud_, top2, TRUE, n, blks) /\ r.out = f.out /\ r.seq = f.seq
      /\ r.split_strategy_ = s /\ Kin(r, f) /\ r.angles_ready_ = d.angles_ready_
  BY <1>0, <1>5, <1>6 DEF Kin, ConstInv, DecoderMembers
<1>8. f.param = d.param /\ f.P.LASER_NUM = d.P.LASER_NUM
  BY <1>5 DEF Kin, ParamMembers
<1>9. CloudsInv(r, 0, top2)
  <2>1. f.lidar \notin MechLidars
    BY <1>5 DEF Kin, ScanConst
  <2>2. f.point_cloud_.rounds \subseteq {top2}
    BY <1>5, <2>1 DEF CloudsInv, OrderInv
  <2>3. IF CutByNumber(f) THEN f.point_cloud_.blks + blks <= 0 ELSE TRUE => f.point_cloud_.rounds \subseteq {top2}
    BY <1>6, <2>2
  <2>4. top2 \in Int /\ top2 <= top2 /\ 0 \in Nat /\ TRUE \in BOOLEAN /\ (~f.param.dense_points => n % f.P.LASER_NUM = 0)
    BY <1>2, <1>8
  <2> HIDE DEF top2
  <2> QED
    BY <1>2, <1>5, <1>6, <1>7, <2>3, <2>4, AddKeeps
<1>10. Kin(r, d)
  BY <1>5, <1>7 DEF Kin
<1>11. ScanConst(r)
  <2>1. ConstInv(r) /\ r.lidar \notin MechLidars /\ DOMAIN r.split_strategy_ = DOMAIN BySeq
    BY <1>1, <1>7, <1>10, KinIs DEF ScanConst, Kin
  <2>2. r.angles_ready_
    BY <1>7, Zenon DEF ScanConst
  <2> QED
    BY <2>1, <2>2 DEF ScanConst
<1> QED
  BY <1>7, <1>9, <1>10, <1>11 DEF r, s

\* What the strategy answers to a packet's number.
LEMMA SeqAnswers ==
  ASSUME NEW s, DOMAIN s = DOMAIN BySeq, s.prev_seq \in Nat, NEW seq \in Nat
  PROVE  LET r == NewPacketBySeq(s, seq)
         IN  /\ DOMAIN r = DOMAIN BySeq
             /\ s.prev_seq > RANGE /\ seq < s.prev_seq - RANGE => r.split = TRUE /\ r.prev_seq = seq
             /\ s.prev_seq <= seq /\ seq <= s.prev_seq + RANGE => r.split = FALSE /\ r.prev_seq = seq
             /\ s.prev_seq = 0 => r.split = FALSE /\ r.prev_seq = seq
             /\ s.prev_seq # 0 /\ seq > s.prev_seq + RANGE => r.split = FALSE /\ r.prev_seq = s.prev_seq
             /\ s.prev_seq = seq + 1 => r.split = FALSE /\ r.prev_seq = s.prev_seq
<1> DEFINE q == s.prev_seq
           r == NewPacketBySeq(s, seq)
           rewind == seq < (IF q > 10 THEN q - 10 ELSE 0)
           next == seq >= q /\ (seq <= q + 10 \/ q = 0)
<1>1. DOMAIN r = DOMAIN BySeq /\ r.split = rewind /\ r.prev_seq = IF rewind \/ next THEN seq ELSE q
  BY DEF NewPacketBySeq, SafeSeqMin, SafeSeqMax, RANGE, BySeq
<1> HIDE DEF r
<1>2. q \in Nat /\ seq \in Nat /\ RANGE = 10
  BY DEF RANGE
<1> HIDE DEF q
<1>3. q > 10 /\ seq < q - 10 => rewind
  BY <1>2
<1>4. q <= seq /\ seq <= q + 10 => ~rewind /\ next
  BY <1>2
<1>5. q = 0 => ~rewind /\ next
  BY <1>2
<1>6. q # 0 /\ seq > q + 10 => ~rewind /\ ~next
  BY <1>2
<1>7. q = seq + 1 => ~rewind /\ ~next
  BY <1>2
<1> HIDE DEF rewind, next
<1>8. (rewind => r.split = TRUE) /\ (~rewind => r.split = FALSE)
  BY <1>1
<1> QED
  BY <1>1, <1>2, <1>3, <1>4, <1>5, <1>6, <1>7, <1>8 DEF r, q

\* The p-th packet of a lidar with a micro mirror.
LEMMA MemsPacket ==
  ASSUME dec.lidar \in MemsLidars, NEW p \in Nat
  PROVE  LET pkt == Msop(p)
         IN  /\ pkt.len = dec.P.MSOP_LEN /\ pkt.id_ok = TRUE /\ pkt.pkt_seq = (p % FrameLen) + 1 /\ pkt.round = p \div FrameLen
             /\ pkt.valid = (dec.P.CHANNELS_PER_BLOCK + 1) \div 2
             /\ DOMAIN pkt = {"len", "id_ok", "host", "temp", "utc", "pkt_seq", "round", "valid", "offset"}
<1>1. dec.lidar \notin MechLidars
  BY DEF MechLidars, MemsLidars
<1>2. Msop(p) = MemsMsop(p)
  BY <1>1 DEF Msop
<1> QED
  BY <1>2 DEF MemsMsop

\* These lidars decode their packets alike.
LEMMA MemsIsScan ==
  ASSUME NEW d, NEW pkt, d.lidar \in MemsLidars
  PROVE  decodeMsopPkt(d, pkt) = MemsDecode(d, pkt)
<1>1. CASE d.lidar = "RSM1"
  BY <1>1 DEF decodeMsopPkt, RSM1_DecodeMsop
<1>2. CASE d.lidar = "RSM2"
  BY <1>2 DEF decodeMsopPkt, RSM2_DecodeMsop
<1>3. CASE d.lidar = "RSE1"
  BY <1>3 DEF decodeMsopPkt, RSE1_DecodeMsop
<1> QED
  BY <1>1, <1>2, <1>3 DEF MemsLidars

\* Less than a frame later it is the same frame or the next.
LEMMA NextFrame ==
  ASSUME NEW F \in Nat, NEW p \in Nat, NEW x \in Nat, p < x, x - p < F
  PROVE  /\ p % F \in Nat /\ x % F \in Nat /\ p \div F \in Nat /\ x \div F \in Nat /\ p % F < F /\ x % F < F
         /\ \/ x \div F = p \div F /\ x % F = (p % F) + (x - p)
            \/ x \div F = p \div F + 1 /\ x % F = (p % F) + (x - p) - F
<1> DEFINE a == p % F
           b == x % F
           k == p \div F
           m == x \div F
           z == m - k
<1>1. F > 0
  OBVIOUS
<1>2. a \in Nat /\ b \in Nat /\ k \in Nat /\ m \in Nat /\ a < F /\ b < F
  BY <1>1
<1>3. p = F * k + a /\ x = F * m + b
  BY <1>1
<1> HIDE DEF a, b, k, m
<1>4. z \in Int /\ F * z = (x - p) + a - b
  <2>1. F * z = F * m - F * k
    BY <1>2
  <2>2. F * m \in Int /\ F * k \in Int
    BY <1>2
  <2> QED
    BY <1>2, <1>3, <2>1, <2>2
<1> HIDE DEF z
<1>5. z >= 0
  <2> SUFFICES ASSUME z <= -1
               PROVE  FALSE
    BY <1>4
  <2>1. F * z <= F * (-1)
    BY <1>4, Products
  <2>2. F * (-1) = -F
    OBVIOUS
  <2> QED
    BY <1>2, <1>4, <2>1, <2>2
<1>6. z <= 1
  <2> SUFFICES ASSUME 2 <= z
               PROVE  FALSE
    BY <1>4
  <2>1. F * 2 <= F * z
    BY <1>4, Products
  <2> QED
    BY <1>2, <1>4, <2>1
<1>7. CASE z = 0
  <2>1. F * z = 0
    BY <1>7
  <2>2. m = k
    BY <1>2, <1>7 DEF z
  <2> QED
    BY <1>2, <1>4, <2>1, <2>2 DEF a, b, k, m
<1>8. CASE z = 1
  <2>1. F * z = F
    BY <1>8
  <2>2. m = k + 1
    BY <1>2, <1>8 DEF z
  <2> QED
    BY <1>2, <1>4, <2>1, <2>2 DEF a, b, k, m
<1> QED
  BY <1>4, <1>5, <1>6, <1>7, <1>8

\* The number of the packet p in its frame.
SeqOf(p) == (p % FrameLen) + 1

\* A packet's number after that of p, of which q is left in the strategy.
LEMMA ScanNext ==
  ASSUME NEW s, DOMAIN s = DOMAIN BySeq, NEW p \in Nat, NEW x \in Nat, p < x, x - p <= MaxBurst + 2,
         s.prev_seq # 0,
         s.prev_seq = SeqOf(p) \/ (s.prev_seq = SeqOf(p) - 1 /\ x - p <= 2)
  PROVE  LET r == NewPacketBySeq(s, SeqOf(x))
         IN  /\ p \div FrameLen \in Int /\ x \div FrameLen \in Int /\ SeqOf(x) \in Nat
             /\ \/ /\ r.prev_seq = SeqOf(x)
                   /\ r.split => p \div FrameLen < x \div FrameLen
                   /\ ~r.split => p \div FrameLen = x \div FrameLen
                \/ /\ r.split = FALSE /\ p \div FrameLen = x \div FrameLen /\ r.prev_seq = s.prev_seq
                   /\ x - p > RANGE /\ s.prev_seq = SeqOf(p)
<1> DEFINE F == FrameLen
           a == p % F
           b == x % F
           q == s.prev_seq
           r == NewPacketBySeq(s, SeqOf(x))
<1>1. F \in Nat /\ MaxBurst \in Nat /\ MaxBurst < 10 /\ F > MaxBurst + 13 /\ RANGE = 10
  BY RsDeviceAssumption DEF RANGE
<1>2. /\ a \in Nat /\ b \in Nat /\ p \div F \in Nat /\ x \div F \in Nat /\ a < F /\ b < F
      /\ \/ x \div F = p \div F /\ b = a + (x - p)
         \/ x \div F = p \div F + 1 /\ b = a + (x - p) - F
  <2>1. x - p < F
    BY <1>1
  <2> QED
    BY <1>1, <2>1, NextFrame
<1>3. SeqOf(x) = b + 1 /\ SeqOf(p) = a + 1
  BY DEF SeqOf
<1> DEFINE k == p \div F
           m == x \div F
<1>9. (m = k /\ b = a + (x - p)) \/ (m = k + 1 /\ b = a + (x - p) - F)
  BY <1>2
<1> HIDE DEF a, b, q, k, m
<1>4. q \in Nat /\ q # 0 /\ (q = a + 1 \/ (q = a /\ x - p <= 2))
  BY <1>2, <1>3 DEF q
<1>5. b + 1 \in Nat
  BY <1>2
<1>6. /\ q > RANGE /\ b + 1 < q - RANGE => r.split = TRUE /\ r.prev_seq = b + 1
      /\ q <= b + 1 /\ b + 1 <= q + RANGE => r.split = FALSE /\ r.prev_seq = b + 1
      /\ q # 0 /\ b + 1 > q + RANGE => r.split = FALSE /\ r.prev_seq = q
  <2>1. SeqOf(x) \in Nat /\ s.prev_seq \in Nat
    BY <1>3, <1>4, <1>5 DEF q
  <2>2. /\ s.prev_seq > RANGE /\ SeqOf(x) < s.prev_seq - RANGE => r.split = TRUE /\ r.prev_seq = SeqOf(x)
        /\ s.prev_seq <= SeqOf(x) /\ SeqOf(x) <= s.prev_seq + RANGE => r.split = FALSE /\ r.prev_seq = SeqOf(x)
        /\ s.prev_seq # 0 /\ SeqOf(x) > s.prev_seq + RANGE => r.split = FALSE /\ r.prev_seq = s.prev_seq
    BY <2>1, SeqAnswers
  <2> QED
    BY <1>3, <2>2 DEF q
<1> HIDE DEF r
<1>10. m \in Nat /\ k \in Nat
  BY <1>2 DEF m, k
<1> DEFINE moved == r.prev_seq = SeqOf(x) /\ (r.split => k < m) /\ (~r.split => k = m)
           left == r.split = FALSE /\ k = m /\ r.prev_seq = q /\ x - p > RANGE /\ q = SeqOf(p)
<1> HIDE DEF moved, left
<1>7. ASSUME m = k /\ b = a + (x - p)
      PROVE  moved \/ left
  <2>1. CASE b + 1 <= q + RANGE
    <3>1. q <= b + 1
      BY <1>2, <1>4, <1>7
    <3> QED
      BY <1>2, <1>3, <1>5, <1>6, <1>7, <2>1, <3>1 DEF moved
  <2>2. CASE b + 1 > q + RANGE
    <3>1. x - p > RANGE /\ q = a + 1
      BY <1>1, <1>2, <1>4, <1>7, <2>2
    <3> QED
      BY <1>2, <1>3, <1>4, <1>5, <1>6, <1>7, <2>2, <3>1 DEF left
  <2> QED
    BY <1>1, <1>2, <1>4, <2>1, <2>2
<1>8. ASSUME m = k + 1 /\ b = a + (x - p) - F
      PROVE  moved \/ left
  <2>1. q > RANGE /\ b + 1 < q - RANGE
    BY <1>1, <1>2, <1>4, <1>8
  <2>2. k < m
    BY <1>8, <1>10
  <2> QED
    BY <1>2, <1>3, <1>5, <1>6, <2>1, <2>2 DEF moved
<1>11. moved \/ left
  BY <1>7, <1>8, <1>9
<1> QED
  BY <1>2, <1>3, <1>5, <1>11 DEF r, m, k, q, moved, left

\* Before a packet is decoded a cloud that is too large goes.
LEMMA ScanProcess ==
  ASSUME NEW d, NEW pkt, ScanConst(d), pkt.len = d.P.MSOP_LEN
  PROVE  \E e : /\ Kin(e, d) /\ ScanConst(e) /\ e.split_strategy_ = d.split_strategy_
                /\ NoCloudYet(d) => NoCloudYet(e)
                /\ \A top \in Int : CloudsInv(d, 0, top) => CloudsInv(e, 0, top)
                /\ pkt.id_ok => processMsopPkt(d, pkt) = decodeMsopPkt(e, pkt)
                /\ ~pkt.id_ok => processMsopPkt(d, pkt) = e
<1> DEFINE e == IF d.point_cloud_.size > CLOUD_POINT_MAX THEN Emptied(d) ELSE d
<1>1. /\ Kin(e, d) /\ e.split_strategy_ = d.split_strategy_ /\ e.angles_ready_ = d.angles_ready_
      /\ NoCloudYet(d) => NoCloudYet(e)
      /\ \A top \in Int : CloudsInv(d, 0, top) => CloudsInv(e, 0, top)
  <2>1. CASE e = d
    BY <2>1 DEF Kin
  <2>2. CASE e = Emptied(d)
    BY <2>2, EmptyKeeps DEF ScanConst
  <2> QED
    BY <2>1, <2>2
<1>2. d.angles_ready_
  BY DEF ScanConst
<1>3. processMsopPkt(d, pkt) = IF (d.param.wait_for_difop => d.angles_ready_) /\ pkt.len = d.P.MSOP_LEN /\ pkt.id_ok
                               THEN decodeMsopPkt(e, pkt) ELSE e
  BY DEF processMsopPkt, Accepted, Emptied
<1> HIDE DEF e
<1>4. ScanConst(e)
  BY <1>1, SameScan
<1>5. (pkt.id_ok => processMsopPkt(d, pkt) = decodeMsopPkt(e, pkt)) /\ (~pkt.id_ok => processMsopPkt(d, pkt) = e)
  BY <1>2, <1>3
<1> QED
  BY <1>1, <1>4, <1>5

\* The x-th packet arrives at a decoder that is ready for it.
Awaits(d, x) ==
  \E top \in Int : /\ CloudsInv(d, 0, top) \/ NoCloudYet(d)
                   /\ IF NewPacketBySeq(d.split_strategy_, SeqOf(x)).split
                      THEN top < x \div FrameLen ELSE top = x \div FrameLen

\* A packet arrives at a decoder that awaits it.
LEMMA MemsProcess ==
  ASSUME NEW d, NEW x \in Nat, Kin(d, dec), ScanConst(d), dec.lidar \in MemsLidars, Awaits(d, x)
  PROVE  LET r == processMsopPkt(d, Msop(x))
         IN  /\ Kin(r, dec) /\ ScanConst(r) /\ CloudsInv(r, 0, x \div FrameLen)
             /\ r.split_strategy_ = NewPacketBySeq(d.split_strategy_, SeqOf(x))
<1> DEFINE pkt == Msop(x)
           s == NewPacketBySeq(d.split_strategy_, SeqOf(x))
<1>1. /\ pkt.len = dec.P.MSOP_LEN /\ pkt.id_ok /\ pkt.pkt_seq = SeqOf(x) /\ pkt.round = x \div FrameLen
      /\ pkt.valid = (dec.P.CHANNELS_PER_BLOCK + 1) \div 2
  BY MemsPacket DEF SeqOf
<1> HIDE DEF pkt
<1>2. d.P.MSOP_LEN = dec.P.MSOP_LEN /\ d.P.CHANNELS_PER_BLOCK = dec.P.CHANNELS_PER_BLOCK /\ d.lidar = dec.lidar
  BY DEF Kin, ParamMembers
<1>3. PICK e : /\ Kin(e, d) /\ ScanConst(e) /\ e.split_strategy_ = d.split_strategy_
               /\ NoCloudYet(d) => NoCloudYet(e)
               /\ \A top \in Int : CloudsInv(d, 0, top) => CloudsInv(e, 0, top)
               /\ pkt.id_ok => processMsopPkt(d, pkt) = decodeMsopPkt(e, pkt)
  BY <1>1, <1>2, ScanProcess
<1>4. PICK top \in Int : /\ CloudsInv(d, 0, top) \/ NoCloudYet(d)
                         /\ IF s.split THEN top < x \div FrameLen ELSE top = x \div FrameLen
  BY DEF Awaits
<1>5. CloudsInv(e, 0, top)
  <2>1. CASE CloudsInv(d, 0, top)
    BY <1>3, <2>1
  <2>2. CASE NoCloudYet(d)
    BY <1>3, <2>2, FirstCloud DEF ScanConst
  <2> QED
    BY <1>4, <2>1, <2>2
<1>6. e.lidar \in MemsLidars /\ e.P.CHANNELS_PER_BLOCK = dec.P.CHANNELS_PER_BLOCK
  BY <1>2, <1>3 DEF Kin, ParamMembers
<1>7. x \div FrameLen \in Int
  <2>1. FrameLen \in Nat /\ FrameLen > 0
    BY RsDeviceAssumption DEF RANGE
  <2> QED
    BY <2>1
<1> DEFINE r == MemsDecode(e, pkt)
<1>8. /\ Kin(r, e) /\ ScanConst(r) /\ CloudsInv(r, 0, pkt.round)
      /\ r.split_strategy_ = NewPacketBySeq(e.split_strategy_, pkt.pkt_seq)
  BY <1>1, <1>3, <1>4, <1>5, <1>6, <1>7, ScanKeeps
<1>9. processMsopPkt(d, pkt) = r
  BY <1>1, <1>3, <1>6, MemsIsScan
<1> HIDE DEF r
<1>10. Kin(r, dec)
  BY <1>3, <1>8 DEF Kin
<1> QED
  BY <1>1, <1>3, <1>8, <1>9, <1>10 DEF pkt

-----------------------------------------------------------------------------
(* The steps of a lidar with a micro mirror.                               *)

\* No packet has arrived.
ScanFresh(d) == d.split_strategy_ = BySeq /\ NoCloudYet(d)

\* The packet p was the last to arrive in order.
ScanAt(d, p, exact) ==
  /\ CloudsInv(d, 0, p \div FrameLen)
  /\ d.split_strategy_.prev_seq \in {SeqOf(p), SeqOf(p) - 1} \ {0}
  /\ exact => d.split_strategy_.prev_seq = SeqOf(p)

\* The last packet to arrive was one of those between least and greatest.
MemsAt(d, least, greatest, exact) ==
  ScanFresh(d) \/ \E p \in Nat : least <= p /\ p <= greatest /\ ScanAt(d, p, exact)

\* The last packet was lost only if some packet was.
FaultsInv == faults.count = 0 => ~faults.last

\* The invariant of a lidar with a micro mirror: at the last packet sent, or a burst behind after a loss.
MemsState ==
  /\ dec.lidar \in MemsLidars /\ ScanConst(dec) /\ FaultsInv
  /\ MemsAt(dec, IF faults.last THEN sent - 1 - MaxBurst ELSE sent - 1, sent - 1, faults.count = 0 \/ faults.last)

\* The bounds on the frame and on a burst of losses.
LEMMA FramesTyped ==
  /\ FrameLen \in Nat /\ MaxBurst \in Nat /\ MaxBurst < 10 /\ FrameLen > MaxBurst + 13 /\ RANGE = 10
  /\ \A p \in Nat : p \div FrameLen \in Nat /\ SeqOf(p) \in Nat /\ SeqOf(p) >= 1
<1>1. FrameLen \in Nat /\ MaxBurst \in Nat /\ MaxBurst < 10 /\ FrameLen > MaxBurst + 13 /\ RANGE = 10
  BY RsDeviceAssumption DEF RANGE
<1>2. FrameLen \in Nat /\ FrameLen > 0
  BY <1>1
<1>3. \A p \in Nat : p \div FrameLen \in Nat /\ SeqOf(p) \in Nat /\ SeqOf(p) >= 1
  BY <1>2 DEF SeqOf
<1> QED
  BY <1>1, <1>3

\* The first packet may be any.
LEMMA FreshAwaits ==
  ASSUME NEW d, ScanFresh(d), NEW x \in Nat
  PROVE  Awaits(d, x) /\ NewPacketBySeq(d.split_strategy_, SeqOf(x)).prev_seq = SeqOf(x)
<1> DEFINE s == d.split_strategy_
           top == x \div FrameLen
<1>1. s = BySeq /\ NoCloudYet(d)
  BY DEF ScanFresh
<1>2. s.prev_seq = 0 /\ DOMAIN s = DOMAIN BySeq
  BY <1>1 DEF BySeq
<1>3. top \in Int /\ SeqOf(x) \in Nat
  BY FramesTyped
<1> HIDE DEF s, top
<1>4. NewPacketBySeq(s, SeqOf(x)).split = FALSE /\ NewPacketBySeq(s, SeqOf(x)).prev_seq = SeqOf(x)
  <2>1. s.prev_seq \in Nat
    BY <1>2
  <2>2. LET r == NewPacketBySeq(s, SeqOf(x))
        IN  s.prev_seq = 0 => r.split = FALSE /\ r.prev_seq = SeqOf(x)
    BY <1>2, <1>3, <2>1, SeqAnswers
  <2> QED
    BY <1>2, <2>2
<1> QED
  BY <1>1, <1>3, <1>4 DEF Awaits, s, top

\* A packet of a micro mirror arrives.
LEMMA MemsReceive ==
  ASSUME RsTyped, MemsState, Receive
  PROVE  MemsState'
<1> DEFINE r == processMsopPkt(dec, Msop(sent))
           s == dec.split_strategy_
           q == NewPacketBySeq(s, SeqOf(sent))
<1>1. /\ dec' = r /\ sent' = sent + 1 /\ faults' \in [count : Nat, last : BOOLEAN] /\ faults'.last = FALSE /\ sent \in Nat
      /\ ScanConst(dec) /\ dec.lidar \in MemsLidars /\ Kin(dec, dec)
  BY DEF Receive, RsTyped, MemsState, Kin
<1>2. Awaits(dec, sent) /\ q.prev_seq = SeqOf(sent)
  <2>1. CASE ScanFresh(dec)
    BY <1>1, <2>1, FreshAwaits
  <2>2. CASE ~ScanFresh(dec)
    <3>1. PICK p \in Nat : /\ (IF faults.last THEN sent - 1 - MaxBurst ELSE sent - 1) <= p /\ p <= sent - 1
                           /\ ScanAt(dec, p, faults.count = 0 \/ faults.last)
      BY <2>2 DEF MemsState, MemsAt
    <3>2. /\ s.prev_seq # 0 /\ (s.prev_seq = SeqOf(p) \/ (s.prev_seq = SeqOf(p) - 1 /\ ~faults.last))
          /\ CloudsInv(dec, 0, p \div FrameLen) /\ DOMAIN s = DOMAIN BySeq
      BY <1>1, <3>1 DEF ScanAt, ScanConst
    <3>3. p < sent /\ sent - p <= MaxBurst + 1 /\ (~faults.last => sent - p <= 2)
      BY <1>1, <3>1, FramesTyped
    <3>4. sent - p <= MaxBurst + 2 /\ ~(sent - p > RANGE)
      BY <1>1, <3>3, FramesTyped
    <3> HIDE DEF s
    <3>5. /\ p \div FrameLen \in Int /\ q.prev_seq = SeqOf(sent)
          /\ q.split => p \div FrameLen < sent \div FrameLen
          /\ ~q.split => p \div FrameLen = sent \div FrameLen
      BY <1>1, <3>2, <3>3, <3>4, ScanNext
    <3> QED
      BY <3>2, <3>5 DEF Awaits, s
  <2> QED
    BY <2>1, <2>2
<1> HIDE DEF q
<1>3. Kin(r, dec) /\ ScanConst(r) /\ CloudsInv(r, 0, sent \div FrameLen) /\ r.split_strategy_ = q
  BY <1>1, <1>2, MemsProcess DEF q
<1>10. dec' = r
  BY <1>1
<1> HIDE DEF r
<1>4. ScanAt(dec', sent, TRUE)
  <2>1. SeqOf(sent) # 0
    BY <1>1, FramesTyped
  <2> QED
    BY <1>2, <1>3, <1>10, <2>1 DEF ScanAt
<1>5. ScanConst(dec') /\ dec'.lidar \in MemsLidars
  BY <1>1, <1>3, <1>10 DEF Kin
<1>6. ScanAt(dec', sent, TRUE) /\ sent <= sent' - 1 /\ sent' - 1 <= sent
  <2>1. sent' = sent + 1 /\ sent \in Nat
    BY <1>1
  <2>2. sent <= sent' - 1 /\ sent' - 1 <= sent
    BY <2>1
  <2> QED
    BY <1>4, <2>2
<1>7. MemsAt(dec', sent' - 1, sent' - 1, faults'.count = 0 \/ faults'.last)
  BY <1>1, <1>6 DEF MemsAt, ScanAt
<1> QED
  BY <1>1, <1>5, <1>7 DEF MemsState, FaultsInv

\* A burst is lost.
LEMMA MemsLose ==
  ASSUME RsTyped, MemsState, Lose
  PROVE  MemsState'
<1>1. dec.lidar \in MemsLidars /\ ScanConst(dec) /\ dec.lidar \notin MechLidars /\ sent \in Nat
  BY DEF MemsState, MemsLidars, MechLidars, RsTyped
<1>2. PICK n \in 1 .. MaxBurst, arrives \in BOOLEAN :
        /\ dec' = IF arrives THEN processMsopPkt(dec, [Msop(sent) EXCEPT !.id_ok = FALSE]) ELSE dec
        /\ sent' = sent + n
  BY DEF Lose
<1>3. faults.count = 0 /\ ~faults.last /\ faults' = [count |-> faults.count + 1, last |-> TRUE]
  BY <1>1 DEF Lose, MemsState, FaultsInv
<1>4. /\ Kin(dec', dec) /\ ScanConst(dec') /\ dec'.split_strategy_ = dec.split_strategy_
      /\ NoCloudYet(dec) => NoCloudYet(dec')
      /\ \A top \in Int : CloudsInv(dec, 0, top) => CloudsInv(dec', 0, top)
  <2> DEFINE pkt == [Msop(sent) EXCEPT !.id_ok = FALSE]
  <2>1. CASE arrives
    <3>1. pkt.len = dec.P.MSOP_LEN /\ ~pkt.id_ok
      BY <1>1, MemsPacket
    <3>2. dec' = processMsopPkt(dec, pkt)
      BY <1>2, <2>1
    <3> HIDE DEF pkt
    <3> QED
      BY <1>1, <3>1, <3>2, ScanProcess
  <2>2. CASE ~arrives
    <3>1. dec' = dec
      BY <1>2, <2>2
    <3> QED
      BY <1>1, <3>1 DEF Kin
  <2> QED
    BY <2>1, <2>2
<1>5. MemsAt(dec', sent' - 1 - MaxBurst, sent' - 1, TRUE)
  <2>1. CASE ScanFresh(dec)
    BY <1>4, <2>1 DEF ScanFresh, MemsAt
  <2>2. CASE ~ScanFresh(dec)
    <3>1. PICK p \in Nat : sent - 1 <= p /\ p <= sent - 1 /\ ScanAt(dec, p, TRUE)
      BY <1>3, <2>2 DEF MemsState, MemsAt, ScanAt
    <3>2. p \div FrameLen \in Int
      BY FramesTyped
    <3>3. ScanAt(dec', p, TRUE)
      BY <1>4, <3>1, <3>2 DEF ScanAt
    <3>4. sent' - 1 - MaxBurst <= p /\ p <= sent' - 1
      BY <1>1, <1>2, <3>1, FramesTyped
    <3> QED
      BY <3>3, <3>4 DEF MemsAt
  <2> QED
    BY <2>1, <2>2
<1>6. dec'.lidar \in MemsLidars
  BY <1>1, <1>4 DEF Kin
<1>7. faults'.last = TRUE /\ faults'.count # 0
  BY <1>3 DEF RsTyped
<1> QED
  BY <1>4, <1>5, <1>6, <1>7 DEF MemsState, FaultsInv, MemsAt, ScanAt

\* A packet overtakes the one before it: the strategy may take the later number, the earlier, or both.
LEMMA MemsOvertake ==
  ASSUME RsTyped, MemsState, Overtake
  PROVE  MemsState'
<1> DEFINE x == sent + 1
           d == processMsopPkt(dec, Msop(x))
           s == dec.split_strategy_
           t == NewPacketBySeq(s, SeqOf(x))
           r == processMsopPkt(d, Msop(sent))
           u == NewPacketBySeq(t, SeqOf(sent))
           F == FrameLen
<1>1. /\ dec' = r /\ sent' = sent + 2 /\ faults'.count # 0 /\ faults'.last = FALSE /\ sent \in Nat /\ x \in Nat
      /\ ScanConst(dec) /\ dec.lidar \in MemsLidars /\ Kin(dec, dec) /\ sent \div F = x \div F
  BY DEF Overtake, RsTyped, MemsState, Kin
<1>2. SeqOf(x) = SeqOf(sent) + 1 /\ SeqOf(sent) \in Nat /\ SeqOf(sent) >= 1 /\ x \div F \in Int /\ F \in Nat /\ F > 1
  <2>1. x \in Nat /\ sent < x /\ x - sent = 1 /\ F \in Nat /\ x - sent < F
    BY <1>1, FramesTyped
  <2>2. x % F = (sent % F) + 1
    <3>1. /\ sent \div F \in Nat /\ x \div F \in Nat
          /\ \/ x \div F = sent \div F /\ x % F = (sent % F) + (x - sent)
             \/ x \div F = sent \div F + 1 /\ x % F = (sent % F) + (x - sent) - F
      BY <1>1, <2>1, NextFrame
    <3>2. ~(x \div F = sent \div F + 1)
      BY <1>1, <3>1
    <3> QED
      BY <2>1, <3>1, <3>2
  <2>3. SeqOf(sent) = (sent % F) + 1 /\ SeqOf(x) = (x % F) + 1
    BY DEF SeqOf
  <2>4. SeqOf(sent) \in Nat /\ SeqOf(sent) >= 1 /\ x \div F \in Int /\ F > 1
    BY <1>1, FramesTyped
  <2>5. sent % F \in Int
    BY <1>1, <2>1
  <2> QED
    BY <2>1, <2>2, <2>3, <2>4, <2>5
<1>3. Awaits(dec, x) /\ (t.prev_seq = SeqOf(x) \/ (t.prev_seq = SeqOf(sent) - RANGE /\ t.prev_seq \in Nat)) /\ DOMAIN t = DOMAIN BySeq
  <2>0. DOMAIN t = DOMAIN BySeq
    BY <1>1 DEF ScanConst, NewPacketBySeq
  <2>1. CASE ScanFresh(dec)
    BY <1>1, <2>0, <2>1, FreshAwaits
  <2>2. CASE ~ScanFresh(dec)
    <3>1. PICK p \in Nat : /\ (IF faults.last THEN sent - 1 - MaxBurst ELSE sent - 1) <= p /\ p <= sent - 1
                           /\ ScanAt(dec, p, faults.count = 0 \/ faults.last)
      BY <2>2 DEF MemsState, MemsAt
    <3>2. /\ s.prev_seq # 0 /\ (s.prev_seq = SeqOf(p) \/ (s.prev_seq = SeqOf(p) - 1 /\ ~faults.last))
          /\ CloudsInv(dec, 0, p \div FrameLen) /\ DOMAIN s = DOMAIN BySeq
      BY <1>1, <3>1 DEF ScanAt, ScanConst
    <3>3. p < x /\ x - p <= MaxBurst + 2 /\ (~faults.last => x - p <= 2) /\ x - p <= 11
      BY <1>1, <3>1, FramesTyped
    <3>8. /\ s.prev_seq = SeqOf(p) \/ (s.prev_seq = SeqOf(p) - 1 /\ x - p <= 2)
          /\ s.prev_seq # 0 /\ DOMAIN s = DOMAIN BySeq /\ x \in Nat /\ p < x /\ x - p <= MaxBurst + 2
      BY <1>1, <3>2, <3>3
    <3> HIDE DEF s, x
    <3>9. LET n == NewPacketBySeq(s, SeqOf(x))
          IN  /\ p \div FrameLen \in Int
              /\ \/ /\ n.prev_seq = SeqOf(x) /\ (n.split => p \div FrameLen < x \div FrameLen)
                    /\ (~n.split => p \div FrameLen = x \div FrameLen)
                 \/ /\ n.split = FALSE /\ p \div FrameLen = x \div FrameLen /\ n.prev_seq = s.prev_seq
                    /\ x - p > RANGE /\ s.prev_seq = SeqOf(p)
      BY <3>8, ScanNext
    <3>4. /\ p \div FrameLen \in Int
          /\ \/ /\ t.prev_seq = SeqOf(x) /\ (t.split => p \div FrameLen < x \div FrameLen)
                /\ (~t.split => p \div FrameLen = x \div FrameLen)
             \/ /\ t.split = FALSE /\ p \div FrameLen = x \div FrameLen /\ t.prev_seq = s.prev_seq
                /\ x - p > RANGE /\ s.prev_seq = SeqOf(p)
      BY <3>9 DEF t
    <3>5. Awaits(dec, x)
      BY <3>2, <3>4 DEF Awaits, s
    <3>6. CASE t.prev_seq = SeqOf(x)
      BY <2>0, <3>5, <3>6
    <3>7. CASE p \div FrameLen = x \div FrameLen /\ t.prev_seq = SeqOf(p) /\ x - p > RANGE
      <4>1. x - p = 11 /\ x - p < F /\ F \in Nat
        BY <1>1, <3>3, <3>7, FramesTyped
      <4>2. x % F = (p % F) + (x - p)
        <5>1. /\ p \div F \in Nat /\ x \div F \in Nat
              /\ \/ x \div F = p \div F /\ x % F = (p % F) + (x - p)
                 \/ x \div F = p \div F + 1 /\ x % F = (p % F) + (x - p) - F
          BY <1>1, <3>3, <4>1, NextFrame
        <5>2. ~(x \div F = p \div F + 1)
          BY <3>7, <5>1
        <5> QED
          BY <5>1, <5>2
      <4>3. SeqOf(x) = SeqOf(p) + 11
        <5>1. p % F \in Int
          BY <1>2
        <5> QED
          BY <4>1, <4>2, <5>1 DEF SeqOf
      <4>4. t.prev_seq = SeqOf(sent) - RANGE /\ t.prev_seq \in Nat
        BY <1>2, <3>7, <4>3, FramesTyped
      <4> QED
        BY <2>0, <3>5, <4>4
    <3> QED
      BY <3>4, <3>6, <3>7
  <2> QED
    BY <2>1, <2>2
<1> HIDE DEF t
<1>4. Kin(d, dec) /\ ScanConst(d) /\ CloudsInv(d, 0, x \div F) /\ d.split_strategy_ = t
  BY <1>1, <1>3, MemsProcess DEF t
<1> HIDE DEF d
<1>5. u.split = FALSE /\ u.prev_seq \in {SeqOf(x), SeqOf(sent)}
  <2>0. ASSUME t.prev_seq \in Nat
        PROVE  LET n == NewPacketBySeq(t, SeqOf(sent))
               IN  /\ t.prev_seq <= SeqOf(sent) /\ SeqOf(sent) <= t.prev_seq + RANGE
                        => n.split = FALSE /\ n.prev_seq = SeqOf(sent)
                   /\ t.prev_seq = SeqOf(sent) + 1 => n.split = FALSE /\ n.prev_seq = t.prev_seq
    BY <1>2, <1>3, <2>0, SeqAnswers
  <2>1. CASE t.prev_seq = SeqOf(x)
    <3>1. t.prev_seq \in Nat /\ t.prev_seq = SeqOf(sent) + 1
      BY <1>2, <2>1
    <3>2. u.split = FALSE /\ u.prev_seq = t.prev_seq
      BY <2>0, <3>1 DEF u
    <3> QED
      BY <2>1, <3>2
  <2>2. CASE t.prev_seq = SeqOf(sent) - RANGE /\ t.prev_seq \in Nat
    <3>1. t.prev_seq <= SeqOf(sent) /\ SeqOf(sent) <= t.prev_seq + RANGE
      BY <1>2, <2>2, FramesTyped
    <3>2. u.split = FALSE /\ u.prev_seq = SeqOf(sent)
      BY <2>0, <2>2, <3>1 DEF u
    <3> QED
      BY <3>2
  <2> HIDE DEF u
  <2> QED
    BY <1>3, <2>1, <2>2
<1>6. Awaits(d, sent)
  BY <1>1, <1>2, <1>4, <1>5 DEF Awaits
<1> HIDE DEF u
<1>7. Kin(r, dec) /\ ScanConst(r) /\ CloudsInv(r, 0, sent \div F) /\ r.split_strategy_ = u
  BY <1>1, <1>4, <1>6, MemsProcess DEF u
<1>11. dec' = r
  BY <1>1
<1> HIDE DEF r
<1>8. ScanAt(dec', x, FALSE)
  BY <1>1, <1>2, <1>5, <1>7, <1>11 DEF ScanAt
<1>9. MemsAt(dec', sent' - 1, sent' - 1, FALSE)
  <2>1. sent' - 1 = x /\ x \in Nat
    BY <1>1
  <2>2. sent' - 1 <= x /\ x <= sent' - 1
    BY <1>1
  <2> HIDE DEF x
  <2> QED
    BY <1>8, <2>1, <2>2 DEF MemsAt
<1>10. ScanConst(dec') /\ dec'.lidar \in MemsLidars
  BY <1>1, <1>7, <1>11 DEF Kin
<1> QED
  BY <1>1, <1>9, <1>10 DEF MemsState, FaultsInv, MemsAt, ScanAt

-----------------------------------------------------------------------------
(* The DIFOP packets and the start of the lidars that number their packets. *)

\* The lidars that number their packets.
ScanLidars == MemsLidars \cup JumboLidars

\* A DIFOP packet sets no more than their return mode.
LEMMA ScanDifop ==
  ASSUME ScanConst(dec), dec.lidar \in ScanLidars, ReceiveDifop
  PROVE  /\ Kin(dec', dec) /\ ScanConst(dec') /\ dec'.split_strategy_ = dec.split_strategy_
         /\ NoCloudYet(dec) => NoCloudYet(dec')
         /\ \A top \in Int : CloudsInv(dec, 0, top) => CloudsInv(dec', 0, top)
<1>1. PICK calibrated \in BOOLEAN : dec' = processDifopPkt(dec, Difop(calibrated))
  BY DEF ReceiveDifop
<1> DEFINE pkt == Difop(calibrated)
           mode == Mems_EchoMode(pkt.return_mode)
<1>2. dec' = dec \/ dec' = decodeDifopPkt(dec, pkt)
  BY <1>1 DEF processDifopPkt
<1>3. decodeDifopPkt(dec, pkt) \in {dec, [dec EXCEPT !.echo_mode_ = mode]}
  <2> HIDE DEF pkt
  <2>1. CASE dec.lidar = "RSM1"
    BY <2>1 DEF decodeDifopPkt, RSM1_DecodeDifop
  <2>2. CASE dec.lidar = "RSM2"
    BY <2>2 DEF decodeDifopPkt, RSM2_DecodeDifop
  <2>3. CASE dec.lidar = "RSE1"
    BY <2>3 DEF decodeDifopPkt, RSE1_DecodeDifop
  <2>4. CASE dec.lidar = "RSM1_JUMBO"
    BY <2>4 DEF decodeDifopPkt, RSM1_Jumbo_DecodeDifop
  <2> QED
    BY <2>1, <2>2, <2>3, <2>4 DEF ScanLidars, MemsLidars, JumboLidars
<1> HIDE DEF pkt, mode
<1>4. dec' = dec \/ dec' = [dec EXCEPT !.echo_mode_ = mode]
  BY <1>2, <1>3
<1>5. /\ Kin(dec', dec) /\ dec'.split_strategy_ = dec.split_strategy_ /\ dec'.angles_ready_ = dec.angles_ready_
      /\ dec'.seq = dec.seq /\ dec'.out = dec.out /\ dec'.point_cloud_ = dec.point_cloud_
  BY <1>4 DEF Kin, ScanConst, ConstInv, DecoderMembers
<1>6. ScanConst(dec')
  BY <1>5, SameScan
<1>7. NoCloudYet(dec) => NoCloudYet(dec')
  BY <1>5 DEF NoCloudYet
<1>8. \A top \in Int : CloudsInv(dec, 0, top) => CloudsInv(dec', 0, top)
  BY <1>5, SameClouds
<1> QED
  BY <1>5, <1>6, <1>7, <1>8

\* A DIFOP packet arrives at a micro mirror's decoder.
LEMMA MemsDifop ==
  ASSUME RsTyped, MemsState, ReceiveDifop
  PROVE  MemsState'
<1>1. /\ Kin(dec', dec) /\ ScanConst(dec') /\ dec'.split_strategy_ = dec.split_strategy_
      /\ NoCloudYet(dec) => NoCloudYet(dec')
      /\ \A top \in Int : CloudsInv(dec, 0, top) => CloudsInv(dec', 0, top)
  BY ScanDifop DEF MemsState, ScanLidars
<1>2. sent' = sent /\ faults' = faults
  BY DEF ReceiveDifop
<1> DEFINE least == IF faults.last THEN sent - 1 - MaxBurst ELSE sent - 1
           exact == faults.count = 0 \/ faults.last
<1>3. MemsAt(dec', least, sent - 1, exact)
  <2>1. CASE ScanFresh(dec)
    BY <1>1, <2>1 DEF ScanFresh, MemsAt
  <2>2. CASE ~ScanFresh(dec)
    <3>1. PICK p \in Nat : least <= p /\ p <= sent - 1 /\ ScanAt(dec, p, exact)
      BY <2>2 DEF MemsState, MemsAt
    <3>2. p \div FrameLen \in Int
      BY FramesTyped
    <3>3. ScanAt(dec', p, exact)
      BY <1>1, <3>1, <3>2 DEF ScanAt
    <3> HIDE DEF least, exact
    <3> QED
      BY <3>1, <3>3 DEF MemsAt
  <2> QED
    BY <2>1, <2>2
<1>4. dec'.lidar \in MemsLidars
  BY <1>1 DEF Kin, MemsState
<1>5. FaultsInv'
  BY <1>2 DEF MemsState, FaultsInv
<1>6. MemsAt(dec', IF faults'.last THEN sent' - 1 - MaxBurst ELSE sent' - 1, sent' - 1, faults'.count = 0 \/ faults'.last)
  BY <1>2, <1>3
<1> QED
  BY <1>1, <1>4, <1>5, <1>6 DEF MemsState, MemsAt, ScanAt

\* The constants of a lidar that numbers its packets.
ScanParam(P) ==
  /\ ParamMembers \subseteq DOMAIN P
  /\ P.LASER_NUM \in Nat \ {0} /\ P.BLOCKS_PER_PKT \in Nat \ {0} /\ P.CHANNELS_PER_BLOCK \in Nat \ {0}
  /\ P.CHANNELS_PER_BLOCK % P.LASER_NUM = 0

\* Those of each of them.
LEMMA ScanParams ==
  /\ ScanParam(RSM1_ConstParam) /\ ScanParam(RSM2_ConstParam) /\ ScanParam(RSE1_ConstParam) /\ ScanParam(RSM1_Jumbo_ConstParam)
  /\ RSM1_Jumbo_ConstParam.MSOP_LEN = 62152
<1>1. ScanParam(RSM1_ConstParam)
  BY SMT DEF RSM1_ConstParam, ScanParam, ParamMembers
<1>2. ScanParam(RSM2_ConstParam)
  BY SMT DEF RSM2_ConstParam, ScanParam, ParamMembers
<1>3. ScanParam(RSE1_ConstParam)
  BY SMT DEF RSE1_ConstParam, ScanParam, ParamMembers
<1>4. ScanParam(RSM1_Jumbo_ConstParam)
  BY SMT DEF RSM1_Jumbo_ConstParam, ScanParam, ParamMembers
<1>5. RSM1_Jumbo_ConstParam.MSOP_LEN = 62152
  BY SMT DEF RSM1_Jumbo_ConstParam
<1> QED
  BY <1>1, <1>2, <1>3, <1>4, <1>5

\* Their decoder as the constructor leaves it.
ScanBorn(d, model, P) == ScanConst(d) /\ ScanFresh(d) /\ d.lidar = model /\ d.P = P

\* MemsDecoder.
LEMMA MemsDecoderBorn ==
  ASSUME NEW model \in ScanLidars, NEW P, ScanParam(P), NEW param, param.dense_points \in BOOLEAN
  PROVE  ScanBorn(MemsDecoder(model, P, param), model, P)
<1> DEFINE base == BaseDecoder(model, P, param)
           dur == 100000000 \div P.SINGLE_PKT_NUM
           d == [base EXCEPT !.packet_duration_ = dur, !.angles_ready_ = TRUE]
<1>1. /\ DOMAIN base = DecoderMembers /\ base.lidar = model /\ base.P = P /\ base.param = param /\ base.split_strategy_ = BySeq
      /\ base.point_cloud_ = EmptyCloud /\ base.seq = 0 /\ base.out = <<>>
  BY DEF BaseDecoder, DecoderMembers
<1> HIDE DEF base, dur
<1>2. /\ DOMAIN d = DecoderMembers /\ d.lidar = model /\ d.P = P /\ d.param = param /\ d.split_strategy_ = BySeq
      /\ d.point_cloud_ = EmptyCloud /\ d.seq = 0 /\ d.out = <<>> /\ d.angles_ready_ = TRUE
  BY <1>1 DEF DecoderMembers
<1>3. MemsDecoder(model, P, param) = d
  BY DEF MemsDecoder, base, dur
<1> HIDE DEF d
<1>4. model \notin MechLidars
  BY DEF ScanLidars, MemsLidars, JumboLidars, MechLidars
<1>5. ConstInv(d)
  BY <1>2 DEF ScanParam, ConstInv
<1>6. d.angles_ready_
  BY <1>2
<1>7. ScanConst(d)
  BY <1>2, <1>4, <1>5, <1>6 DEF ScanConst
<1>8. ScanFresh(d)
  BY <1>2 DEF ScanFresh, NoCloudYet
<1> QED
  BY <1>2, <1>3, <1>7, <1>8 DEF ScanBorn

\* createDecoder for a lidar that numbers its packets.
LEMMA CreatedScan ==
  ASSUME NEW model \in ScanLidars, NEW param, param.dense_points \in BOOLEAN
  PROVE  LET d == createDecoder(model, param)
         IN  ScanConst(d) /\ ScanFresh(d) /\ d.lidar = model /\ (model \in JumboLidars => d.P.MSOP_LEN = RSM1_Jumbo_Packets.msop)
<1>1. CASE model = "RSM1"
  BY <1>1, ScanParams, MemsDecoderBorn DEF createDecoder, ScanBorn, JumboLidars
<1>2. CASE model = "RSM2"
  BY <1>2, ScanParams, MemsDecoderBorn DEF createDecoder, ScanBorn, JumboLidars
<1>3. CASE model = "RSE1"
  BY <1>3, ScanParams, MemsDecoderBorn DEF createDecoder, ScanBorn, JumboLidars
<1>4. CASE model = "RSM1_JUMBO"
  <2>1. RSM1_Jumbo_Packets.msop = 62152
    BY SMT DEF RSM1_Jumbo_Packets, RSM1_Jumbo_SubPacket, RSM1_MsopHeader, RSTimestampUTC
  <2>2. ScanBorn(createDecoder(model, param), model, RSM1_Jumbo_ConstParam)
    BY <1>4, ScanParams, MemsDecoderBorn DEF createDecoder
  <2> QED
    BY <2>1, <2>2, ScanParams DEF ScanBorn
<1> QED
  BY <1>1, <1>2, <1>3, <1>4 DEF ScanLidars, MemsLidars, JumboLidars

\* A micro mirror's initial states.
LEMMA MemsStart ==
  ASSUME NEW model \in MemsLidars, NEW param, param.dense_points \in BOOLEAN,
         dec = createDecoder(model, param), faults = [count |-> 0, last |-> FALSE]
  PROVE  MemsState
<1>1. ScanConst(dec) /\ ScanFresh(dec) /\ dec.lidar = model
  BY CreatedScan DEF ScanLidars
<1> QED
  BY <1>1 DEF MemsState, MemsAt, FaultsInv

-----------------------------------------------------------------------------
(* The jumbo packets.                                                      *)

\* Quotient and rest are unique.
LEMMA DivOf ==
  ASSUME NEW F \in Nat, NEW m \in Nat, NEW r \in Nat, r < F, NEW y \in Nat, y = F * m + r
  PROVE  y \div F = m /\ y % F = r
<1> DEFINE a == y % F
           k == y \div F
           z == m - k
<1>1. F > 0
  OBVIOUS
<1>2. a \in Nat /\ k \in Nat /\ a < F
  BY <1>1
<1>3. y = F * k + a
  BY <1>1
<1> HIDE DEF a, k
<1>4. z \in Int /\ F * z = a - r
  <2>1. F * z = F * m - F * k
    BY <1>2
  <2>2. F * m \in Int /\ F * k \in Int
    BY <1>2
  <2> QED
    BY <1>2, <1>3, <2>1, <2>2
<1> HIDE DEF z
<1>5. z >= 0
  <2> SUFFICES ASSUME z <= -1
               PROVE  FALSE
    BY <1>4
  <2>1. F * z <= F * (-1)
    BY <1>4, Products
  <2>2. F * (-1) = -F
    OBVIOUS
  <2> QED
    BY <1>2, <1>4, <2>1, <2>2
<1>6. z <= 0
  <2> SUFFICES ASSUME 1 <= z
               PROVE  FALSE
    BY <1>4
  <2>1. F * 1 <= F * z
    BY <1>4, Products
  <2> QED
    BY <1>2, <1>4, <2>1
<1>7. z = 0
  BY <1>4, <1>5, <1>6
<1>8. F * z = 0
  BY <1>7
<1>9. m = k
  BY <1>2, <1>7 DEF z
<1> QED
  BY <1>2, <1>4, <1>8, <1>9 DEF a, k

\* The packets in a jumbo packet, the jumbo packets in a frame, and the place of the jumbo packet x in its frame.
Subs == PACKET_NUM
Jumbos == JumboFrameLen
Place(x) == x % Jumbos

\* Their bounds.
LEMMA JumboTyped ==
  /\ Subs \in Nat /\ Subs >= 12 /\ Jumbos \in Nat /\ Jumbos >= 1 /\ RANGE = 10
  /\ \A x \in Nat : Place(x) \in Nat /\ Place(x) <= Jumbos - 1 /\ x \div Jumbos \in Nat /\ x = Jumbos * (x \div Jumbos) + Place(x)
<1>1. Subs \in Nat /\ Subs >= 12 /\ Jumbos \in Nat /\ Jumbos >= 1 /\ RANGE = 10
  BY RsDeviceAssumption, DecoderConstants DEF RANGE, Subs, Jumbos
<1> HIDE DEF Jumbos, Subs
<1>2. \A x \in Nat : Place(x) \in Nat /\ Place(x) <= Jumbos - 1 /\ x \div Jumbos \in Nat /\ x = Jumbos * (x \div Jumbos) + Place(x)
  BY <1>1 DEF Place
<1> QED
  BY <1>1, <1>2

\* The numbers of the packets in the jumbo packet x.
LEMMA SubsOf ==
  ASSUME NEW x \in Nat, NEW i \in 1 .. Subs
  PROVE  /\ JumboSub(x * Subs + i - 1).pkt_seq = Place(x) * Subs + i
         /\ JumboSub(x * Subs + i - 1).round = x \div Jumbos
<1> DEFINE b == Place(x)
           m == x \div Jumbos
           F == Jumbos * Subs
           r == b * Subs + i - 1
           y == x * Subs + i - 1
<1>1. /\ Subs \in Nat /\ Subs >= 12 /\ Jumbos \in Nat /\ Jumbos >= 1
      /\ b \in Nat /\ b <= Jumbos - 1 /\ m \in Nat /\ x = Jumbos * m + b
  BY JumboTyped
<1> HIDE DEF b, m
<1>2. F \in Nat /\ r \in Nat /\ r < F
  <2>1. Subs * b <= Subs * (Jumbos - 1) /\ Subs * b \in Int
    BY <1>1, Products
  <2>2. Subs * (Jumbos - 1) = Jumbos * Subs - Subs
    BY <1>1
  <2>3. b * Subs = Subs * b /\ b * Subs >= 0 /\ Jumbos * Subs \in Nat
    BY <1>1
  <2> QED
    BY <1>1, <2>1, <2>2, <2>3
<1>3. y = F * m + r /\ y \in Nat
  <2>1. x * Subs = (Jumbos * Subs) * m + b * Subs
    BY <1>1
  <2>2. x * Subs \in Nat /\ b * Subs \in Nat /\ (Jumbos * Subs) * m \in Nat
    BY <1>1
  <2> QED
    BY <1>1, <2>1, <2>2
<1> HIDE DEF F, r, y
<1>4. y \div F = m /\ y % F = r
  BY <1>1, <1>2, <1>3, DivOf
<1>5. JumboSub(y).pkt_seq = (y % F) + 1 /\ JumboSub(y).round = y \div F
  BY DEF JumboSub, F, Subs, Jumbos
<1>6. r + 1 = b * Subs + i
  BY <1>1 DEF r
<1> QED
  BY <1>4, <1>5, <1>6 DEF y, b, m

\* A jumbo packet is in the frame of the last one, or the first or second of a later frame.
LEMMA JumboNext ==
  ASSUME NEW k \in Nat, NEW x \in {k + 1, k + 2}
  PROVE  \/ x \div Jumbos = k \div Jumbos /\ Place(x) = Place(k) + (x - k)
         \/ /\ k \div Jumbos < x \div Jumbos
            /\ Place(x) = 0 \/ (Place(x) = 1 /\ Place(k) >= 1 /\ x = k + 2)
<1>0. Subs \in Nat /\ Jumbos \in Nat /\ Jumbos >= 1
  BY JumboTyped
<1>1. CASE Jumbos = 1
  <2>1. Place(x) = 0 /\ x \div Jumbos = x /\ k \div Jumbos = k
    BY <1>1 DEF Place
  <2> QED
    BY <2>1
<1>2. CASE Jumbos >= 2
  <2> DEFINE c == Place(k)
             c1 == Place(k + 1)
             b == Place(k + 2)
             m == k \div Jumbos
             m1 == (k + 1) \div Jumbos
             m2 == (k + 2) \div Jumbos
  <2>1. /\ k \in Nat /\ k + 1 \in Nat /\ k + 2 \in Nat /\ k < k + 1 /\ (k + 1) - k < Jumbos /\ k + 1 < k + 2 /\ (k + 2) - (k + 1) < Jumbos
        /\ (k + 1) - k = 1 /\ (k + 2) - (k + 1) = 1
    BY <1>0, <1>2
  <2>2. /\ c \in Nat /\ c1 \in Nat /\ m \in Nat /\ m1 \in Nat /\ c < Jumbos /\ c1 < Jumbos
        /\ \/ m1 = m /\ c1 = c + 1
           \/ m1 = m + 1 /\ c1 = c + 1 - Jumbos
    <3>1. /\ k % Jumbos \in Nat /\ (k + 1) % Jumbos \in Nat /\ k \div Jumbos \in Nat /\ (k + 1) \div Jumbos \in Nat /\ k % Jumbos < Jumbos /\ (k + 1) % Jumbos < Jumbos
          /\ \/ (k + 1) \div Jumbos = k \div Jumbos /\ (k + 1) % Jumbos = (k % Jumbos) + ((k + 1) - k)
             \/ (k + 1) \div Jumbos = k \div Jumbos + 1 /\ (k + 1) % Jumbos = (k % Jumbos) + ((k + 1) - k) - Jumbos
      BY <1>0, <2>1, NextFrame
    <3> QED
      BY <2>1, <3>1 DEF Place
  <2>3. /\ b \in Nat /\ m2 \in Nat /\ b < Jumbos
        /\ \/ m2 = m1 /\ b = c1 + 1
           \/ m2 = m1 + 1 /\ b = c1 + 1 - Jumbos
    <3>1. /\ (k + 2) % Jumbos \in Nat /\ (k + 1) % Jumbos \in Nat /\ (k + 2) \div Jumbos \in Nat /\ (k + 1) \div Jumbos \in Nat
          /\ (k + 2) % Jumbos < Jumbos /\ (k + 1) % Jumbos < Jumbos
          /\ \/ (k + 2) \div Jumbos = (k + 1) \div Jumbos /\ (k + 2) % Jumbos = ((k + 1) % Jumbos) + ((k + 2) - (k + 1))
             \/ (k + 2) \div Jumbos = (k + 1) \div Jumbos + 1 /\ (k + 2) % Jumbos = ((k + 1) % Jumbos) + ((k + 2) - (k + 1)) - Jumbos
      BY <1>0, <2>1, NextFrame
    <3> QED
      BY <2>1, <3>1 DEF Place
  <2> HIDE DEF c, c1, b, m, m1, m2
  <2>4. (m1 = m /\ c1 = c + 1) \/ (m < m1 /\ c1 = 0)
    BY <1>0, <1>2, <2>2
  <2>5. (m2 = m /\ b = c + 2) \/ (m < m2 /\ (b = 0 \/ (b = 1 /\ c >= 1)))
    BY <1>0, <1>2, <2>2, <2>3
  <2>6. CASE x = k + 1
    BY <2>4, <2>6 DEF c, c1, m, m1
  <2>7. CASE x = k + 2
    BY <2>5, <2>7 DEF c, b, m, m2
  <2> QED
    BY <2>6, <2>7
<1> QED
  BY <1>0, <1>1, <1>2

\* f holds what the decoder is after each of the first m packets in a jumbo packet.
SubsDone(f, d, pkts, m) == f = [i \in 0 .. m |-> IF i = 0 THEN d ELSE RSM1_Jumbo_SubDecode(f[i - 1], pkts[i])]

\* One more packet of a jumbo packet.
LEMMA SubsGrow ==
  ASSUME NEW d, NEW pkts, NEW m \in Nat, NEW f, SubsDone(f, d, pkts, m)
  PROVE  \E g : SubsDone(g, d, pkts, m + 1)
<1> DEFINE g == [j \in 0 .. m + 1 |-> IF j = m + 1 THEN RSM1_Jumbo_SubDecode(f[m], pkts[m + 1]) ELSE f[j]]
<1>1. \A j \in 0 .. m : f[j] = IF j = 0 THEN d ELSE RSM1_Jumbo_SubDecode(f[j - 1], pkts[j])
  BY DEF SubsDone
<1>2. ASSUME NEW j \in 0 .. m + 1
      PROVE  g[j] = IF j = 0 THEN d ELSE RSM1_Jumbo_SubDecode(g[j - 1], pkts[j])
  <2>1. CASE j = 0
    <3>1. 0 \in 0 .. m /\ 0 \in 0 .. m + 1 /\ 0 # m + 1
      OBVIOUS
    <3> QED
      BY <1>1, <2>1, <3>1
  <2>2. CASE j = m + 1
    <3>1. j - 1 = m /\ m \in 0 .. m + 1 /\ m # m + 1 /\ j # 0
      BY <2>2
    <3>2. g[j - 1] = f[m] /\ g[j] = RSM1_Jumbo_SubDecode(f[m], pkts[m + 1])
      BY <2>2, <3>1
    <3> QED
      BY <2>2, <3>1, <3>2
  <2>3. CASE j \in 1 .. m
    <3>1. j - 1 \in 0 .. m /\ j # m + 1 /\ j - 1 # m + 1
      BY <2>3
    <3> QED
      BY <1>1, <2>3, <3>1
  <2> QED
    BY <2>1, <2>2, <2>3
<1>3. g = [j \in 0 .. m + 1 |-> g[j]]
  OBVIOUS
<1> HIDE DEF g
<1> QED
  BY <1>2, <1>3 DEF SubsDone

\* The recursive function of RSM1_Jumbo_DecodeMsop exists.
LEMMA SubsExist ==
  ASSUME NEW d, NEW pkts, NEW n \in Nat
  PROVE  \E f : SubsDone(f, d, pkts, n)
<1> DEFINE T == {i \in 0 .. n : \E f : SubsDone(f, d, pkts, i)}
<1>1. 0 \in T
  <2> DEFINE f == [i \in 0 .. 0 |-> d]
  <2>1. SubsDone(f, d, pkts, 0)
    BY DEF SubsDone
  <2> QED
    BY <2>1
<1>2. ASSUME NEW i \in 1 .. n, i - 1 \in T
      PROVE  i \in T
  <2>1. PICK f : SubsDone(f, d, pkts, i - 1)
    BY <1>2
  <2> QED
    BY <2>1, SubsGrow
<1> HIDE DEF T
<1>3. n \in T
  BY <1>1, <1>2, UpTo
<1> QED
  BY <1>3 DEF T

\* The number q is left in the strategy, of a packet before the jumbo packet x.
LeftBehind(q, x) == q \in Nat /\ q >= Subs /\ q + RANGE < Place(x) * Subs + 1

\* The strategy took the i-th packet in the jumbo packet x, or still has the number q.
Took(s, x, i, q) == s.prev_seq = Place(x) * Subs + i \/ (s.prev_seq = q /\ LeftBehind(q, x))

\* The decoder after the i-th packet in the jumbo packet x.
SubState(d, x, i, q) ==
  Kin(d, dec) /\ ScanConst(d) /\ CloudsInv(d, 0, x \div Jumbos) /\ Took(d.split_strategy_, x, i, q)

\* The jumbo packet x arrives at a decoder that is ready for it.
AwaitsJumbo(d, x, q) ==
  LET s == NewPacketBySeq(d.split_strategy_, Place(x) * Subs + 1)
  IN  /\ \E top \in Int : /\ CloudsInv(d, 0, top) \/ NoCloudYet(d)
                          /\ IF s.split THEN top < x \div Jumbos ELSE top = x \div Jumbos
      /\ Took(s, x, 1, q)

\* The x-th jumbo packet.
LEMMA JumboPacket ==
  ASSUME dec.lidar \in JumboLidars, NEW x \in Nat
  PROVE  LET pkt == Msop(x)
         IN  /\ pkt.len = RSM1_Jumbo_Packets.msop /\ pkt.id_ok = TRUE /\ DOMAIN pkt = {"len", "id_ok", "pkts"}
             /\ \A i \in 1 .. Subs : /\ pkt.pkts[i].id_ok /\ pkt.pkts[i].pkt_seq = Place(x) * Subs + i
                                  /\ pkt.pkts[i].round = x \div Jumbos
                                  /\ pkt.pkts[i].valid = (dec.P.CHANNELS_PER_BLOCK + 1) \div 2
<1>1. dec.lidar \notin MechLidars /\ dec.lidar \notin MemsLidars
  BY DEF MechLidars, MemsLidars, JumboLidars
<1>2. Msop(x) = JumboMsop(x)
  BY <1>1 DEF Msop
<1>3. \A i \in 1 .. Subs : JumboMsop(x).pkts[i] = JumboSub(x * Subs + i - 1)
  BY DEF JumboMsop, Subs
<1>4. \A y : JumboSub(y).id_ok = TRUE /\ JumboSub(y).valid = (dec.P.CHANNELS_PER_BLOCK + 1) \div 2
  BY DEF JumboSub
<1>5. \A i \in 1 .. Subs : JumboSub(x * Subs + i - 1).pkt_seq = Place(x) * Subs + i /\ JumboSub(x * Subs + i - 1).round = x \div Jumbos
  BY SubsOf
<1>6. JumboMsop(x).len = RSM1_Jumbo_Packets.msop /\ JumboMsop(x).id_ok = TRUE /\ DOMAIN JumboMsop(x) = {"len", "id_ok", "pkts"}
  BY DEF JumboMsop
<1> QED
  BY <1>2, <1>3, <1>4, <1>5, <1>6

\* One packet in a jumbo packet, of which the strategy's answer is known.
LEMMA SubKeeps ==
  ASSUME NEW d, NEW x \in Nat, NEW i \in 1 .. Subs, NEW q, NEW top \in Int, Kin(d, dec), ScanConst(d), dec.lidar \in JumboLidars,
         CloudsInv(d, 0, top),
         IF NewPacketBySeq(d.split_strategy_, Place(x) * Subs + i).split THEN top < x \div Jumbos ELSE top = x \div Jumbos,
         Took(NewPacketBySeq(d.split_strategy_, Place(x) * Subs + i), x, i, q)
  PROVE  SubState(RSM1_Jumbo_SubDecode(d, Msop(x).pkts[i]), x, i, q)
<1> DEFINE sub == Msop(x).pkts[i]
           r == MemsDecode(d, sub)
<1>1. sub.id_ok /\ sub.pkt_seq = Place(x) * Subs + i /\ sub.round = x \div Jumbos /\ sub.valid = (dec.P.CHANNELS_PER_BLOCK + 1) \div 2
  BY JumboPacket
<1>2. RSM1_Jumbo_SubDecode(d, sub) = r
  BY <1>1 DEF RSM1_Jumbo_SubDecode
<1> HIDE DEF sub
<1>3. x \div Jumbos \in Int
  BY JumboTyped
<1>4. sub.valid = (d.P.CHANNELS_PER_BLOCK + 1) \div 2
  BY <1>1 DEF Kin, ParamMembers
<1>5. /\ Kin(r, d) /\ ScanConst(r) /\ CloudsInv(r, 0, sub.round)
      /\ r.split_strategy_ = NewPacketBySeq(d.split_strategy_, sub.pkt_seq)
  BY <1>1, <1>3, <1>4, ScanKeeps
<1> HIDE DEF r
<1>6. Kin(r, dec)
  BY <1>5 DEF Kin
<1> QED
  BY <1>1, <1>2, <1>5, <1>6 DEF SubState, sub

\* After the first, the packets in a jumbo packet follow it.
LEMMA SubAfter ==
  ASSUME NEW d, NEW x \in Nat, NEW i \in 2 .. Subs, NEW q, SubState(d, x, i - 1, q), dec.lidar \in JumboLidars
  PROVE  SubState(RSM1_Jumbo_SubDecode(d, Msop(x).pkts[i]), x, i, q)
<1> DEFINE s == d.split_strategy_
           top == x \div Jumbos
           b == Place(x) * Subs
           t == NewPacketBySeq(s, b + i)
<1>1. Subs \in Nat /\ Subs >= 12 /\ RANGE = 10 /\ Place(x) \in Nat /\ top \in Nat
  BY JumboTyped
<1>2. b \in Nat
  BY <1>1
<1>3. DOMAIN s = DOMAIN BySeq /\ (s.prev_seq = b + (i - 1) \/ (s.prev_seq = q /\ q \in Nat /\ q >= Subs /\ q + RANGE < b + 1))
  BY DEF SubState, ScanConst, Took, LeftBehind
<1> HIDE DEF s, b, top
<1>4. s.prev_seq \in Nat /\ s.prev_seq # 0 /\ b + i \in Nat
  BY <1>1, <1>2, <1>3
<1>5. /\ s.prev_seq <= b + i /\ b + i <= s.prev_seq + RANGE => t.split = FALSE /\ t.prev_seq = b + i
      /\ s.prev_seq # 0 /\ b + i > s.prev_seq + RANGE => t.split = FALSE /\ t.prev_seq = s.prev_seq
  BY <1>3, <1>4, SeqAnswers
<1> HIDE DEF t
<1>6. t.split = FALSE /\ (t.prev_seq = b + i \/ (t.prev_seq = q /\ q \in Nat /\ q >= Subs /\ q + RANGE < b + 1))
  <2>1. CASE s.prev_seq = b + (i - 1)
    BY <1>1, <1>2, <1>4, <1>5, <2>1
  <2>2. CASE s.prev_seq = q /\ q \in Nat /\ q >= Subs /\ q + RANGE < b + 1
    BY <1>1, <1>2, <1>4, <1>5, <2>2
  <2> QED
    BY <1>3, <2>1, <2>2
<1>7. Took(t, x, i, q)
  BY <1>6 DEF Took, LeftBehind, b
<1>8. CloudsInv(d, 0, top) /\ Kin(d, dec) /\ ScanConst(d) /\ top \in Int /\ i \in 1 .. Subs
  BY <1>1 DEF SubState, top
<1>9. t = NewPacketBySeq(d.split_strategy_, Place(x) * Subs + i)
  BY DEF t, s, b
<1> QED
  <2>1. IF NewPacketBySeq(d.split_strategy_, Place(x) * Subs + i).split THEN top < x \div Jumbos ELSE top = x \div Jumbos
    BY <1>6, <1>9 DEF top
  <2>2. Took(NewPacketBySeq(d.split_strategy_, Place(x) * Subs + i), x, i, q)
    BY <1>7, <1>9
  <2> QED
    BY <1>8, <2>1, <2>2, SubKeeps

\* A jumbo packet, all of whose packets follow the first.
LEMMA JumboDecode ==
  ASSUME NEW d, NEW x \in Nat, NEW q, Kin(d, dec), ScanConst(d), dec.lidar \in JumboLidars, AwaitsJumbo(d, x, q)
  PROVE  SubState(decodeMsopPkt(d, Msop(x)), x, Subs, q)
<1> DEFINE pkt == Msop(x)
           after == CHOOSE f : SubsDone(f, d, pkt.pkts, Subs)
<1>1. Subs \in Nat /\ Subs >= 12
  BY JumboTyped
<1>2. pkt.len = RSM1_Jumbo_Packets.msop
  BY JumboPacket
<1>3. d.lidar = "RSM1_JUMBO"
  BY DEF Kin, JumboLidars
<1>4. decodeMsopPkt(d, pkt) = after[Subs]
  <2> HIDE DEF pkt
  <2>1. decodeMsopPkt(d, pkt) = RSM1_Jumbo_DecodeMsop(d, pkt)
    BY <1>3 DEF decodeMsopPkt
  <2>2. RSM1_Jumbo_DecodeMsop(d, pkt) = after[Subs]
    BY <1>2 DEF RSM1_Jumbo_DecodeMsop, SubsDone, Subs
  <2> QED
    BY <2>1, <2>2
<1>5. SubsDone(after, d, pkt.pkts, Subs)
  <2> HIDE DEF pkt
  <2> QED
    BY <1>1, SubsExist
<1>6. after[0] = d /\ \A i \in 1 .. Subs : after[i] = RSM1_Jumbo_SubDecode(after[i - 1], pkt.pkts[i])
  <2> HIDE DEF after, pkt
  <2>1. \A i \in 0 .. Subs : after[i] = IF i = 0 THEN d ELSE RSM1_Jumbo_SubDecode(after[i - 1], pkt.pkts[i])
    BY <1>5 DEF SubsDone
  <2>2. 0 \in 0 .. Subs /\ \A i \in 1 .. Subs : i \in 0 .. Subs /\ i # 0
    BY <1>1
  <2> QED
    BY <2>1, <2>2
<1> HIDE DEF after
<1>7. SubState(after[1], x, 1, q)
  <2>1. 1 \in 1 .. Subs /\ 1 - 1 = 0
    BY <1>1
  <2>2. PICK top \in Int : /\ CloudsInv(d, 0, top) \/ NoCloudYet(d)
                           /\ IF NewPacketBySeq(d.split_strategy_, Place(x) * Subs + 1).split
                              THEN top < x \div Jumbos ELSE top = x \div Jumbos
    BY DEF AwaitsJumbo
  <2>3. Took(NewPacketBySeq(d.split_strategy_, Place(x) * Subs + 1), x, 1, q)
    BY DEF AwaitsJumbo
  <2>4. CloudsInv(d, 0, top)
    BY <2>2, FirstCloud DEF ScanConst
  <2>5. SubState(RSM1_Jumbo_SubDecode(d, pkt.pkts[1]), x, 1, q)
    BY <2>1, <2>2, <2>3, <2>4, SubKeeps
  <2>6. after[1] = RSM1_Jumbo_SubDecode(after[0], pkt.pkts[1])
    BY <1>6, <2>1
  <2> QED
    BY <1>6, <2>5, <2>6
<1> DEFINE T == {i \in 0 .. Subs : i = 0 \/ SubState(after[i], x, i, q)}
<1>8. 0 \in T
  BY <1>1
<1>9. ASSUME NEW i \in 1 .. Subs, i - 1 \in T
      PROVE  i \in T
  <2>1. CASE i = 1
    BY <1>1, <1>7, <2>1
  <2>2. CASE i # 1
    <3>1. i \in 2 .. Subs /\ i - 1 # 0
      BY <1>1, <2>2
    <3>2. SubState(after[i - 1], x, i - 1, q)
      BY <1>9, <3>1
    <3>3. SubState(RSM1_Jumbo_SubDecode(after[i - 1], pkt.pkts[i]), x, i, q)
      BY <3>1, <3>2, SubAfter
    <3>4. SubState(after[i], x, i, q)
      BY <1>6, <3>3
    <3> QED
      BY <1>1, <3>4
  <2> QED
    BY <2>1, <2>2
<1> HIDE DEF T
<1>10. Subs \in T
  BY <1>1, <1>8, <1>9, UpTo
<1> QED
  BY <1>1, <1>4, <1>10 DEF T

\* The jumbo packet k was the last to arrive; `behind' after a lost one, when its numbers may not have been taken.
JumboAt(d, k, behind) ==
  /\ CloudsInv(d, 0, k \div Jumbos)
  /\ \/ d.split_strategy_.prev_seq = Place(k) * Subs + Subs
     \/ behind /\ LeftBehind(d.split_strategy_.prev_seq, k)

\* After the one loss the strategy may hold a number from before it.
Behind == faults.count # 0 /\ ~faults.last

\* The invariant of a lidar with jumbo packets.
JumboState ==
  /\ dec.lidar \in JumboLidars /\ ScanConst(dec) /\ FaultsInv /\ dec.P.MSOP_LEN = RSM1_Jumbo_Packets.msop
  /\ ScanFresh(dec) \/ \E k \in Nat : sent \in {k + 1, k + 2} /\ (sent = k + 2 => faults.last) /\ JumboAt(dec, k, Behind)

\* A jumbo packet in order, or after a lost one: its first number is the next, opens a frame, or is too far ahead to be taken.
LEMMA JumboAwaits ==
  ASSUME NEW d, DOMAIN d.split_strategy_ = DOMAIN BySeq, NEW k \in Nat, NEW x \in {k + 1, k + 2}, NEW behind \in BOOLEAN,
         JumboAt(d, k, behind), behind => x = k + 1
  PROVE  LET q == d.split_strategy_.prev_seq
         IN  AwaitsJumbo(d, x, q) /\ (LeftBehind(q, x) => behind \/ x = k + 2)
<1> DEFINE s == d.split_strategy_
           q == s.prev_seq
           b == Place(x)
           c == Place(k)
           B == b * Subs
           C == c * Subs
           m == k \div Jumbos
           l == x \div Jumbos
           t == NewPacketBySeq(s, B + 1)
<1>1. Subs \in Nat /\ Subs >= 12 /\ RANGE = 10 /\ b \in Nat /\ c \in Nat /\ m \in Nat /\ l \in Nat /\ x \in Nat
  <2>1. x \in Nat
    OBVIOUS
  <2> QED
    BY <2>1, JumboTyped
<1>2. (l = m /\ b = c + (x - k)) \/ (m < l /\ (b = 0 \/ (b = 1 /\ c >= 1 /\ x = k + 2)))
  BY JumboNext
<1>3. (q = C + Subs \/ (behind /\ q \in Nat /\ q >= Subs /\ q + RANGE < C + 1)) /\ CloudsInv(d, 0, m)
  BY DEF JumboAt, LeftBehind
<1> HIDE DEF b, c, m, l
<1>4. B \in Nat /\ C \in Nat /\ (c >= 1 => C >= Subs) /\ (b = 0 => B = 0) /\ (b = 1 => B = Subs)
  <2>1. B \in Nat /\ C \in Nat /\ (b = 0 => B = 0) /\ (b = 1 => B = Subs)
    BY <1>1
  <2>2. ASSUME c >= 1
        PROVE  C >= Subs
    <3>1. Subs * 1 <= Subs * c
      BY <1>1, <2>2, Products
    <3>2. C = Subs * c /\ Subs * 1 = Subs
      BY <1>1
    <3> QED
      BY <1>1, <3>1, <3>2
  <2> QED
    BY <2>1, <2>2
<1>5. b = c + (x - k) => (x = k + 1 => B = C + Subs) /\ (x = k + 2 => B = C + 2 * Subs)
  <2>1. CASE x = k + 1 /\ b = c + 1
    BY <1>1, <2>1
  <2>2. CASE x = k + 2 /\ b = c + 2
    BY <1>1, <2>2
  <2> QED
    BY <1>1, <2>1, <2>2
<1> HIDE DEF B, C
<1>6. q \in Nat /\ q >= Subs /\ q # 0 /\ B + 1 \in Nat
  BY <1>1, <1>3, <1>4
<1> HIDE DEF q
<1>7. DOMAIN s = DOMAIN BySeq /\ s.prev_seq = q
  BY DEF q
<1> HIDE DEF s
<1>8. /\ q > RANGE /\ B + 1 < q - RANGE => t.split = TRUE /\ t.prev_seq = B + 1
      /\ q <= B + 1 /\ B + 1 <= q + RANGE => t.split = FALSE /\ t.prev_seq = B + 1
      /\ q # 0 /\ B + 1 > q + RANGE => t.split = FALSE /\ t.prev_seq = q
  BY <1>6, <1>7, SeqAnswers
<1> HIDE DEF t
<1> DEFINE moved == t.split = FALSE /\ t.prev_seq = B + 1 /\ l = m
           cut == t.split = TRUE /\ t.prev_seq = B + 1 /\ m < l
           left == t.split = FALSE /\ t.prev_seq = q /\ l = m /\ q + RANGE < B + 1
<1> HIDE DEF moved, cut, left
<1>9. CASE q = C + Subs
  <2>1. ASSUME l = m /\ b = c + (x - k) /\ x = k + 1
       PROVE  moved \/ cut \/ left
    <3>1. q <= B + 1 /\ B + 1 <= q + RANGE
      BY <1>1, <1>4, <1>5, <1>9, <2>1
    <3> QED
      BY <1>8, <2>1, <3>1 DEF moved
  <2>2. ASSUME l = m /\ b = c + (x - k) /\ x = k + 2
       PROVE  moved \/ cut \/ left
    <3>1. q # 0 /\ B + 1 > q + RANGE
      BY <1>1, <1>4, <1>5, <1>6, <1>9, <2>2
    <3>2. q + RANGE < B + 1
      BY <1>1, <1>6, <3>1
    <3> QED
      BY <1>8, <2>2, <3>1, <3>2 DEF left
  <2>3. ASSUME m < l /\ (b = 0 \/ (b = 1 /\ c >= 1 /\ x = k + 2))
       PROVE  moved \/ cut \/ left
    <3>1. q > RANGE /\ B + 1 < q - RANGE
      BY <1>1, <1>4, <1>6, <1>9, <2>3
    <3> QED
      BY <1>8, <2>3, <3>1 DEF cut
  <2>4. moved \/ cut \/ left
    BY <1>2, <2>1, <2>2, <2>3
  <2> QED
    <3>1. LeftBehind(q, x) => x = k + 2
      <4> SUFFICES ASSUME LeftBehind(q, x), x = k + 1
                   PROVE  FALSE
        OBVIOUS
      <4>1. q + RANGE < B + 1
        BY DEF LeftBehind, B, b
      <4>2. B = C + Subs \/ B = 0
        BY <1>1, <1>2, <1>4, <1>5
      <4> QED
        BY <1>1, <1>4, <1>9, <4>1, <4>2
    <3>2. left => LeftBehind(q, x)
      BY <1>6 DEF left, LeftBehind, B, b
    <3>3. AwaitsJumbo(d, x, q)
      BY <1>1, <1>3, <2>4, <3>2 DEF AwaitsJumbo, Took, moved, cut, left, t, s, B, b, m, l
    <3> QED
      BY <3>1, <3>3 DEF q, s
<1>10. CASE behind /\ q >= Subs /\ q + RANGE < C + 1
  <2>0. x = k + 1
    BY <1>10
  <2>1. ASSUME l = m /\ b = c + (x - k)
       PROVE  moved \/ cut \/ left
    <3>1. q # 0 /\ B + 1 > q + RANGE /\ q + RANGE < B + 1
      BY <1>1, <1>4, <1>5, <1>6, <1>10, <2>0, <2>1
    <3> QED
      BY <1>8, <2>1, <3>1 DEF left
  <2>2. ASSUME m < l /\ (b = 0 \/ (b = 1 /\ c >= 1 /\ x = k + 2))
       PROVE  moved \/ cut \/ left
    <3>1. q > RANGE /\ B + 1 < q - RANGE
      BY <1>1, <1>4, <1>6, <1>10, <2>0, <2>2
    <3> QED
      BY <1>8, <2>2, <3>1 DEF cut
  <2>4. moved \/ cut \/ left
    BY <1>2, <2>1, <2>2
  <2> QED
    <3>2. left => LeftBehind(q, x)
      BY <1>6 DEF left, LeftBehind, B, b
    <3>3. AwaitsJumbo(d, x, q)
      BY <1>1, <1>3, <2>4, <3>2 DEF AwaitsJumbo, Took, moved, cut, left, t, s, B, b, m, l
    <3> QED
      BY <1>10, <3>3 DEF q, s
<1> QED
  BY <1>3, <1>9, <1>10

\* The first jumbo packet may be any.
LEMMA FreshJumbo ==
  ASSUME NEW d, ScanFresh(d), NEW x \in Nat
  PROVE  AwaitsJumbo(d, x, 0) /\ ~LeftBehind(0, x)
<1> DEFINE s == d.split_strategy_
           top == x \div Jumbos
           seq == Place(x) * Subs + 1
<1>1. s = BySeq /\ NoCloudYet(d)
  BY DEF ScanFresh
<1>2. s.prev_seq = 0 /\ DOMAIN s = DOMAIN BySeq /\ s.prev_seq \in Nat
  BY <1>1 DEF BySeq
<1>3. top \in Int /\ Subs \in Nat /\ Subs >= 12 /\ Place(x) \in Nat
  BY JumboTyped
<1>4. seq \in Nat
  BY <1>3
<1> HIDE DEF s, top, seq
<1>5. LET r == NewPacketBySeq(s, seq)
      IN  s.prev_seq = 0 => r.split = FALSE /\ r.prev_seq = seq
  BY <1>2, <1>4, SeqAnswers
<1>6. ~LeftBehind(0, x)
  BY <1>3 DEF LeftBehind
<1>7. NewPacketBySeq(s, seq).split = FALSE /\ NewPacketBySeq(s, seq).prev_seq = seq
  BY <1>2, <1>5
<1> QED
  BY <1>1, <1>3, <1>6, <1>7 DEF AwaitsJumbo, Took, s, top, seq

\* A jumbo packet arrives.
LEMMA JumboReceive ==
  ASSUME RsTyped, JumboState, Receive
  PROVE  JumboState'
<1> DEFINE pkt == Msop(sent)
<1>1. /\ dec' = processMsopPkt(dec, pkt) /\ sent' = sent + 1 /\ faults' = [faults EXCEPT !.last = FALSE] /\ sent \in Nat
      /\ ScanConst(dec) /\ dec.lidar \in JumboLidars /\ faults \in [count : Nat, last : BOOLEAN]
      /\ dec.P.MSOP_LEN = RSM1_Jumbo_Packets.msop
  BY DEF Receive, RsTyped, JumboState
<1>2. faults'.count = faults.count /\ faults'.last = FALSE
  BY <1>1
<1>3. \E q : AwaitsJumbo(dec, sent, q) /\ (LeftBehind(q, sent) => faults.count # 0)
  <2>1. CASE ScanFresh(dec)
    BY <1>1, <2>1, FreshJumbo
  <2>2. CASE ~ScanFresh(dec)
    <3>1. PICK k \in Nat : sent \in {k + 1, k + 2} /\ (sent = k + 2 => faults.last) /\ JumboAt(dec, k, Behind)
      BY <2>2 DEF JumboState
    <3>2. Behind \in BOOLEAN /\ (Behind => sent = k + 1)
      BY <3>1 DEF Behind
    <3>3. DOMAIN dec.split_strategy_ = DOMAIN BySeq
      BY <1>1 DEF ScanConst
    <3> DEFINE q == dec.split_strategy_.prev_seq
               behind == Behind
    <3> HIDE DEF behind
    <3>4. JumboAt(dec, k, behind) /\ behind \in BOOLEAN /\ (behind => sent = k + 1)
      BY <3>1, <3>2 DEF behind
    <3>5. AwaitsJumbo(dec, sent, q) /\ (LeftBehind(q, sent) => behind \/ sent = k + 2)
      BY <3>1, <3>3, <3>4, JumboAwaits
    <3>6. behind \/ sent = k + 2 => faults.count # 0
      BY <3>1 DEF behind, Behind, JumboState, FaultsInv
    <3> QED
      BY <3>5, <3>6
  <2> QED
    BY <2>1, <2>2
<1>4. PICK q : AwaitsJumbo(dec, sent, q) /\ (LeftBehind(q, sent) => faults.count # 0)
  BY <1>3
<1>5. pkt.len = dec.P.MSOP_LEN /\ pkt.id_ok
  BY <1>1, JumboPacket
<1> HIDE DEF pkt
<1>6. PICK e : /\ Kin(e, dec) /\ ScanConst(e) /\ e.split_strategy_ = dec.split_strategy_
               /\ NoCloudYet(dec) => NoCloudYet(e)
               /\ \A top \in Int : CloudsInv(dec, 0, top) => CloudsInv(e, 0, top)
               /\ dec' = decodeMsopPkt(e, pkt)
  BY <1>1, <1>5, ScanProcess
<1>7. AwaitsJumbo(e, sent, q)
  BY <1>4, <1>6 DEF AwaitsJumbo
<1>8. SubState(decodeMsopPkt(e, Msop(sent)), sent, Subs, q)
  BY <1>1, <1>6, <1>7, JumboDecode
<1>9. SubState(dec', sent, Subs, q)
  BY <1>6, <1>8 DEF pkt
<1>10. Kin(dec', dec) /\ ScanConst(dec') /\ CloudsInv(dec', 0, sent \div Jumbos) /\ Took(dec'.split_strategy_, sent, Subs, q)
  BY <1>9 DEF SubState
<1>11. JumboAt(dec', sent, faults'.count # 0 /\ ~faults'.last)
  BY <1>2, <1>4, <1>10 DEF JumboAt, Took
<1>12. dec'.lidar \in JumboLidars /\ dec'.P.MSOP_LEN = RSM1_Jumbo_Packets.msop
  BY <1>1, <1>10 DEF Kin, ParamMembers
<1>13. sent' \in {sent + 1, sent + 2} /\ ~(sent' = sent + 2)
  BY <1>1
<1>14. FaultsInv'
  BY <1>2 DEF FaultsInv
<1> QED
  BY <1>1, <1>10, <1>11, <1>12, <1>13, <1>14 DEF JumboState, Behind, JumboAt

\* A jumbo packet is lost, or arrives with a wrong id.
LEMMA JumboLose ==
  ASSUME RsTyped, JumboState, Lose
  PROVE  JumboState'
<1>1. /\ dec.lidar \in JumboLidars /\ ScanConst(dec) /\ dec.lidar \notin MechLidars /\ dec.lidar \notin MemsLidars /\ sent \in Nat
      /\ dec.P.MSOP_LEN = RSM1_Jumbo_Packets.msop
  BY DEF JumboState, MemsLidars, MechLidars, JumboLidars, RsTyped
<1>2. PICK arrives \in BOOLEAN :
        /\ dec' = IF arrives THEN processMsopPkt(dec, [Msop(sent) EXCEPT !.id_ok = FALSE]) ELSE dec
        /\ sent' = sent + 1
  BY <1>1 DEF Lose
<1>3. faults.count = 0 /\ ~faults.last /\ faults' = [count |-> faults.count + 1, last |-> TRUE]
  BY <1>1 DEF Lose, JumboState, FaultsInv
<1>4. /\ Kin(dec', dec) /\ ScanConst(dec') /\ dec'.split_strategy_ = dec.split_strategy_
      /\ NoCloudYet(dec) => NoCloudYet(dec')
      /\ \A top \in Int : CloudsInv(dec, 0, top) => CloudsInv(dec', 0, top)
  <2> DEFINE pkt == [Msop(sent) EXCEPT !.id_ok = FALSE]
  <2>1. CASE arrives
    <3>1. pkt.len = dec.P.MSOP_LEN /\ ~pkt.id_ok
      BY <1>1, JumboPacket
    <3>2. dec' = processMsopPkt(dec, pkt)
      BY <1>2, <2>1
    <3> HIDE DEF pkt
    <3> QED
      BY <1>1, <3>1, <3>2, ScanProcess
  <2>2. CASE ~arrives
    <3>1. dec' = dec
      BY <1>2, <2>2
    <3> QED
      BY <1>1, <3>1 DEF Kin
  <2> QED
    BY <2>1, <2>2
<1>5. faults'.last = TRUE /\ faults'.count # 0
  BY <1>3 DEF RsTyped
<1>6. ScanFresh(dec') \/ \E k \in Nat : sent' = k + 2 /\ JumboAt(dec', k, FALSE)
  <2>1. CASE ScanFresh(dec)
    BY <1>4, <2>1 DEF ScanFresh
  <2>2. CASE ~ScanFresh(dec)
    <3>1. PICK k \in Nat : sent \in {k + 1, k + 2} /\ (sent = k + 2 => faults.last) /\ JumboAt(dec, k, Behind)
      BY <2>2 DEF JumboState
    <3>2. ~Behind /\ sent' = k + 2
      BY <1>2, <1>3, <3>1 DEF Behind
    <3>3. k \div Jumbos \in Int
      BY JumboTyped
    <3>4. JumboAt(dec', k, FALSE)
      BY <1>4, <3>1, <3>2, <3>3 DEF JumboAt
    <3> QED
      BY <3>2, <3>4
  <2> QED
    BY <2>1, <2>2
<1>7. dec'.lidar \in JumboLidars /\ dec'.P.MSOP_LEN = RSM1_Jumbo_Packets.msop
  BY <1>1, <1>4 DEF Kin, ParamMembers
<1> QED
  BY <1>4, <1>5, <1>6, <1>7 DEF JumboState, FaultsInv, JumboAt, Behind

\* A DIFOP packet arrives at the decoder of jumbo packets.
LEMMA JumboDifop ==
  ASSUME RsTyped, JumboState, ReceiveDifop
  PROVE  JumboState'
<1>1. /\ Kin(dec', dec) /\ ScanConst(dec') /\ dec'.split_strategy_ = dec.split_strategy_
      /\ NoCloudYet(dec) => NoCloudYet(dec')
      /\ \A top \in Int : CloudsInv(dec, 0, top) => CloudsInv(dec', 0, top)
  BY ScanDifop DEF JumboState, ScanLidars
<1>2. sent' = sent /\ faults' = faults
  BY DEF ReceiveDifop
<1>3. ScanFresh(dec') \/ \E k \in Nat : sent \in {k + 1, k + 2} /\ (sent = k + 2 => faults.last) /\ JumboAt(dec', k, Behind)
  <2>1. CASE ScanFresh(dec)
    BY <1>1, <2>1 DEF ScanFresh
  <2>2. CASE ~ScanFresh(dec)
    <3>1. PICK k \in Nat : sent \in {k + 1, k + 2} /\ (sent = k + 2 => faults.last) /\ JumboAt(dec, k, Behind)
      BY <2>2 DEF JumboState
    <3>2. k \div Jumbos \in Int
      BY JumboTyped
    <3>3. JumboAt(dec', k, Behind)
      BY <1>1, <3>1, <3>2 DEF JumboAt
    <3> QED
      BY <3>1, <3>3
  <2> QED
    BY <2>1, <2>2
<1>4. dec'.lidar \in JumboLidars /\ dec'.P.MSOP_LEN = RSM1_Jumbo_Packets.msop
  BY <1>1 DEF Kin, ParamMembers, JumboState
<1>5. FaultsInv' /\ Behind' = Behind
  BY <1>2 DEF JumboState, FaultsInv, Behind
<1> QED
  BY <1>1, <1>2, <1>3, <1>4, <1>5 DEF JumboState, JumboAt, Behind

\* The initial states with jumbo packets.
LEMMA JumboStart ==
  ASSUME NEW model \in JumboLidars, NEW param, param.dense_points \in BOOLEAN,
         dec = createDecoder(model, param), faults = [count |-> 0, last |-> FALSE]
  PROVE  JumboState
<1>1. ScanConst(dec) /\ ScanFresh(dec) /\ dec.lidar = model /\ dec.P.MSOP_LEN = RSM1_Jumbo_Packets.msop
  BY CreatedScan DEF ScanLidars
<1> QED
  BY <1>1 DEF JumboState, FaultsInv

-----------------------------------------------------------------------------
(* Every lidar.                                                            *)

\* The invariant of every RoboSense lidar.
RsInv == RsTyped /\ (MechState \/ MemsState \/ JumboState)

\* The initial states have it.
LEMMA RsStart == RsInit => RsInv
<1> SUFFICES ASSUME RsInit
             PROVE  RsInv
  OBVIOUS
<1>0. PICK model \in Lidars_, param \in Params, mode \in {"single", "dual"}, rpm \in Rpms :
        \E firings \in (IF model \in MechLidars THEN Firings ELSE {0}) :
          /\ dec = createDecoder(model, param)
          /\ device = [mode |-> mode, rps |-> rpm \div 60, firings |-> firings, split |-> param.split_angle]
          /\ FieldOfView
          /\ sent \in (IF model \in MechLidars THEN {0} ELSE IF model \in MemsLidars THEN {0, 16} ELSE {0, 2})
          /\ faults = [count |-> 0, last |-> FALSE]
  BY DEF RsInit
<1>1. PICK firings \in (IF model \in MechLidars THEN Firings ELSE {0}) :
        /\ dec = createDecoder(model, param)
        /\ device = [mode |-> mode, rps |-> rpm \div 60, firings |-> firings, split |-> param.split_angle]
        /\ FieldOfView
        /\ sent \in (IF model \in MechLidars THEN {0} ELSE IF model \in MemsLidars THEN {0, 16} ELSE {0, 2})
        /\ faults = [count |-> 0, last |-> FALSE]
  BY <1>0
<1>2. RsTyped
  BY <1>1 DEF RsTyped
<1>3. model \in Lidars /\ param.dense_points \in BOOLEAN
  BY RsDeviceAssumption
<1>4. CASE model \in MechLidars
  <2>1. sent = 0
    BY <1>1, <1>4
  <2>2. MechState
    BY <1>1, <1>4, <2>1, MechStart
  <2> QED
    BY <1>2, <2>2 DEF RsInv
<1>5. CASE model \in MemsLidars
  <2>1. MemsState
    BY <1>1, <1>3, <1>5, MemsStart
  <2> QED
    BY <1>2, <2>1 DEF RsInv
<1>6. CASE model \in JumboLidars
  <2>1. JumboState
    BY <1>1, <1>3, <1>6, JumboStart
  <2> QED
    BY <1>2, <2>1 DEF RsInv
<1> QED
  BY <1>3, <1>4, <1>5, <1>6 DEF Lidars

\* The counts stay numbers.
LEMMA RsTypedStep ==
  ASSUME RsTyped, RsNext
  PROVE  RsTyped'
<1>1. sent \in Nat /\ faults \in [count : Nat, last : BOOLEAN]
  BY DEF RsTyped
<1>2. CASE Receive
  <2>1. sent' = sent + 1 /\ faults' = [faults EXCEPT !.last = FALSE]
    BY <1>2 DEF Receive
  <2>2. faults' \in [count : Nat, last : BOOLEAN]
    BY <1>1, <2>1
  <2> QED
    BY <1>1, <2>1, <2>2 DEF RsTyped
<1>3. CASE ReceiveCut
  BY <1>1, <1>3 DEF ReceiveCut, RsTyped
<1>4. CASE Lose
  <2>1. \E n \in 1 .. MaxBurst : sent' = sent + n
    BY <1>4 DEF Lose
  <2>2. MaxBurst \in Nat
    BY FramesTyped
  <2>3. sent' \in Nat
    BY <1>1, <2>1, <2>2
  <2>4. faults' \in [count : Nat, last : BOOLEAN]
    BY <1>1, <1>4 DEF Lose
  <2> QED
    BY <2>3, <2>4 DEF RsTyped
<1>5. CASE Overtake
  BY <1>1, <1>5 DEF Overtake, RsTyped
<1>6. CASE ReceiveDifop
  BY <1>1, <1>6 DEF ReceiveDifop, RsTyped
<1> QED
  BY <1>2, <1>3, <1>4, <1>5, <1>6 DEF RsNext

\* Every step keeps it: each kind of lidar makes some of the steps.
LEMMA RsStep == RsInv /\ [RsNext]_rsVars => RsInv'
<1> SUFFICES ASSUME RsInv, [RsNext]_rsVars
             PROVE  RsInv'
  OBVIOUS
<1>1. RsTyped
  BY DEF RsInv
<1>2. CASE UNCHANGED rsVars
  <2>1. dec' = dec /\ device' = device /\ sent' = sent /\ faults' = faults
    BY <1>2 DEF rsVars
  <2>2. RsTyped'
    BY <1>1, <2>1 DEF RsTyped
  <2>3. MemsState => MemsState'
    BY <2>1 DEF MemsState, FaultsInv, MemsAt, ScanAt
  <2>4. JumboState => JumboState'
    BY <2>1 DEF JumboState, FaultsInv, JumboAt, Behind
  <2>5. ASSUME MechState
        PROVE  MechState'
    <3>1. DeviceInv /\ ConstInv(dec) /\ ModeInv(dec) /\ BlksInv(dec) /\ MechInv
      BY <2>5 DEF MechState
    <3>2. Kin(dec', dec)
      BY <2>1 DEF Kin
    <3>3. /\ DeviceInv' /\ ConstInv(dec)' /\ ModeInv(dec)' /\ dec'.P.BLOCKS_PER_PKT = dec.P.BLOCKS_PER_PKT
          /\ (BlksInv(dec') => BlksInv(dec)') /\ (Fresh(dec') => Fresh(dec)') /\ \A b : AtBlock(dec', b) => AtBlock(dec, b)'
      BY <2>1, <3>1, <3>2, MechCarry
    <3>4. BlksInv(dec)'
      BY <2>1, <3>1, <3>3
    <3>5. MechInv'
      BY <2>1, <3>1, <3>3 DEF MechInv, MechAt
    <3> QED
      BY <3>3, <3>4, <3>5 DEF MechState
  <2> QED
    BY <2>2, <2>3, <2>4, <2>5 DEF RsInv
<1>3. CASE RsNext
  <2>1. RsTyped'
    BY <1>1, <1>3, RsTypedStep
  <2>2. CASE MechState
    <3>1. dec.lidar \in MechLidars
      BY <2>2 DEF MechState, ModeInv
    <3>2. dec.lidar \notin MemsLidars
      BY <3>1 DEF MechLidars, MemsLidars
    <3>3. MechState'
      <4>1. CASE Receive
        BY <1>1, <2>2, <4>1, MechReceive
      <4>2. CASE ReceiveCut
        BY <1>1, <2>2, <4>2, MechReceiveCut
      <4>3. CASE Lose
        BY <1>1, <2>2, <4>3, MechLose
      <4>4. CASE Overtake
        BY <3>2, <4>4 DEF Overtake
      <4>5. CASE ReceiveDifop
        BY <1>1, <2>2, <4>5, MechDifop
      <4> QED
        BY <1>3, <4>1, <4>2, <4>3, <4>4, <4>5 DEF RsNext
    <3> QED
      BY <2>1, <3>3 DEF RsInv
  <2>3. CASE MemsState
    <3>1. dec.lidar \in MemsLidars
      BY <2>3 DEF MemsState
    <3>2. dec.lidar \notin MechLidars
      BY <3>1 DEF MechLidars, MemsLidars
    <3>3. MemsState'
      <4>1. CASE Receive
        BY <1>1, <2>3, <4>1, MemsReceive
      <4>2. CASE ReceiveCut
        BY <3>2, <4>2 DEF ReceiveCut
      <4>3. CASE Lose
        BY <1>1, <2>3, <4>3, MemsLose
      <4>4. CASE Overtake
        BY <1>1, <2>3, <4>4, MemsOvertake
      <4>5. CASE ReceiveDifop
        BY <1>1, <2>3, <4>5, MemsDifop
      <4> QED
        BY <1>3, <4>1, <4>2, <4>3, <4>4, <4>5 DEF RsNext
    <3> QED
      BY <2>1, <3>3 DEF RsInv
  <2>4. CASE JumboState
    <3>1. dec.lidar \in JumboLidars
      BY <2>4 DEF JumboState
    <3>2. dec.lidar \notin MechLidars /\ dec.lidar \notin MemsLidars
      BY <3>1 DEF MechLidars, MemsLidars, JumboLidars
    <3>3. JumboState'
      <4>1. CASE Receive
        BY <1>1, <2>4, <4>1, JumboReceive
      <4>2. CASE ReceiveCut
        BY <3>2, <4>2 DEF ReceiveCut
      <4>3. CASE Lose
        BY <1>1, <2>4, <4>3, JumboLose
      <4>4. CASE Overtake
        BY <3>2, <4>4 DEF Overtake
      <4>5. CASE ReceiveDifop
        BY <1>1, <2>4, <4>5, JumboDifop
      <4> QED
        BY <1>3, <4>1, <4>2, <4>3, <4>4, <4>5 DEF RsNext
    <3> QED
      BY <2>1, <3>3 DEF RsInv
  <2> QED
    BY <2>2, <2>3, <2>4 DEF RsInv
<1> QED
  BY <1>2, <1>3

\* So it holds throughout.
LEMMA RsInvariant == RsSpec => []RsInv
<1> QED
  BY RsStart, RsStep, PTL DEF RsSpec

\* What it says of the clouds.
LEMMA RsClouds ==
  ASSUME RsInv
  PROVE  \E most, top \in Int : CloudsInv(dec, most, top) /\ (CutByNumber(dec) => most = MaxBlks)
<1>1. CASE MechState
  <2>1. ConstInv(dec) /\ BlksInv(dec) /\ MechInv /\ sent \in Nat /\ DeviceInv /\ ModeInv(dec)
    BY <1>1 DEF MechState, RsInv, RsTyped
  <2>2. MaxBlks \in Nat
    BY <2>1 DEF BlksInv
  <2>3. \E top \in Int : CloudsInv(dec, MaxBlks, top)
    <3> HIDE DEF MaxBlks
    <3>1. CASE Fresh(dec)
      BY <2>1, <2>2, <3>1, FirstCloud DEF Fresh
    <3>2. CASE ~Fresh(dec)
      <4>1. PICK b \in Nat : AtBlock(dec, b)
        BY <2>1, <3>2 DEF MechInv, MechAt
      <4>2. Turn(b) \in Int
        BY <2>1, AngleTyped DEF Turn, DeviceInv, ModeInv, RS_ONE_ROUND
      <4> QED
        BY <4>1, <4>2 DEF AtBlock
    <3> QED
      BY <3>1, <3>2
  <2> QED
    BY <2>2, <2>3
<1>2. CASE MemsState
  <2>1. CutByNumber(dec) = FALSE /\ ConstInv(dec)
    BY <1>2 DEF MemsState, ScanConst, CutByNumber
  <2>2. CASE ScanFresh(dec)
    BY <2>1, <2>2, FirstCloud DEF ScanFresh
  <2>3. CASE ~ScanFresh(dec)
    <3>1. \E p \in Nat : CloudsInv(dec, 0, p \div FrameLen)
      BY <1>2, <2>3 DEF MemsState, MemsAt, ScanAt
    <3> QED
      BY <2>1, <3>1, FramesTyped
  <2> QED
    BY <2>2, <2>3
<1>3. CASE JumboState
  <2>1. CutByNumber(dec) = FALSE /\ ConstInv(dec)
    BY <1>3 DEF JumboState, ScanConst, CutByNumber
  <2>2. CASE ScanFresh(dec)
    BY <2>1, <2>2, FirstCloud DEF ScanFresh
  <2>3. CASE ~ScanFresh(dec)
    <3>1. \E k \in Nat : CloudsInv(dec, 0, k \div Jumbos)
      BY <1>3, <2>3 DEF JumboState, JumboAt
    <3> QED
      BY <2>1, <3>1, JumboTyped
  <2> QED
    BY <2>2, <2>3
<1> QED
  BY <1>1, <1>2, <1>3 DEF RsInv

\* The invariant implies what the run checks.
LEMMA RsCloudsAgree == RsInv => CloudIsOneRound /\ RoundsInOrder
<1> SUFFICES ASSUME RsInv
             PROVE  CloudIsOneRound /\ RoundsInOrder
  OBVIOUS
<1>1. PICK most, top \in Int : CloudsInv(dec, most, top) /\ (CutByNumber(dec) => most = MaxBlks)
  BY RsClouds
<1>2. PICK S : dec.out \in Seq(S)
  BY <1>1 DEF CloudsInv, HandedInv
<1>3. DOMAIN dec.out = 1 .. Len(dec.out) /\ Len(dec.out) \in Nat
  BY <1>2
<1>4. \A c \in Clouds : c.rounds \subseteq Int /\ IF CutByNumber(dec) THEN c.blks <= MaxBlks ELSE SameRound(c)
  <2> HIDE DEF MaxBlks
  <2>1. \A i \in 1 .. Len(dec.out) :
          /\ dec.out[i].cloud.rounds \subseteq Int
          /\ IF CutByNumber(dec) THEN dec.out[i].cloud.blks <= MaxBlks ELSE SameRound(dec.out[i].cloud)
    BY <1>1 DEF CloudsInv, HandedInv
  <2>2. /\ dec.point_cloud_.rounds \subseteq Int
        /\ IF CutByNumber(dec) THEN dec.point_cloud_.blks <= MaxBlks ELSE SameRound(dec.point_cloud_)
    BY <1>1 DEF CloudsInv, CloudInv
  <2>3. \A c \in Clouds : c = dec.point_cloud_ \/ \E i \in 1 .. Len(dec.out) : c = dec.out[i].cloud
    BY <1>3 DEF Clouds
  <2> QED
    BY <2>1, <2>2, <2>3
<1>5. CloudIsOneRound
  BY <1>4 DEF CloudIsOneRound, CutByBlocks, CutByNumber, SameRound
<1>6. RoundsInOrder
  <2> SUFFICES ASSUME NEW i \in 1 .. Len(dec.out)
               PROVE  /\ dec.out[i].seq = i - 1
                      /\ dec.out[i].height * dec.out[i].width = dec.out[i].cloud.size
                      /\ i > 1 => \A r \in dec.out[i - 1].cloud.rounds, s \in dec.out[i].cloud.rounds : Ordered(dec, r, s)
    BY <1>3 DEF RoundsInOrder, CutByBlocks, Ordered, CutByNumber
  <2>1. dec.out[i].seq = i - 1 /\ dec.out[i].height * dec.out[i].width = dec.out[i].cloud.size
    BY <1>1 DEF CloudsInv, HandedInv
  <2>2. ASSUME i > 1, NEW r \in dec.out[i - 1].cloud.rounds, NEW s \in dec.out[i].cloud.rounds
        PROVE  Ordered(dec, r, s)
    <3>1. i - 1 \in 1 .. Len(dec.out) /\ i - 1 < i
      BY <1>3, <2>2
    <3> QED
      BY <1>1, <2>2, <3>1 DEF CloudsInv, OrderInv
  <2> QED
    BY <2>1, <2>2
<1> QED
  BY <1>5, <1>6

\* A cloud holds the points of one round, or no more than the user's number of blocks, for every
\* cut and field of view and whatever packet was lost, cut or overtaken; a round is joined to the
\* one before it only if the step over the cut crossed zero too (split_strategy.hpp, newBlock and
\* split of decoder.hpp).
THEOREM RsCloudIsOneRound == RsSpec => []CloudIsOneRound
<1> QED
  BY RsInvariant, RsCloudsAgree, PTL

\* The clouds are handed over round by round with consecutive numbers, and height times width
\* is their number of points (setPointCloudHeader in lidar_driver_impl.hpp, split of decoder.hpp).
THEOREM RsRoundsInOrder == RsSpec => []RoundsInOrder
<1> QED
  BY RsInvariant, RsCloudsAgree, PTL
=============================================================================
