---------------------------- MODULE HesaiDevice ----------------------------
(***************************************************************************)
(* A Hesai lidar, the network in front of one parser, and the loop of the  *)
(* SDK that makes frames of packets, with a parser thread that keeps up.   *)
(* A mechanical lidar measures blocks at fixed steps of its turn, the      *)
(* AT128 at the ends of its three mirrors' fields, a flash lidar numbers   *)
(* its frames or their columns.  The network loses, damages and reorders   *)
(* datagrams, and is silent, within the bounds named below.                *)
(***************************************************************************)
EXTENDS HesaiParser

CONSTANTS Kinds,             \* the parsers tried
          MaxDatagrams,      \* datagrams of the lidar
          MaxDisturbances    \* of these, lost, damaged, overtaken or late

\* The numbers of the datagrams are all different.
ASSUME HesaiAssumption ==
  /\ Kinds \subseteq {"1_4", "2_4", "2_5", "3_1", "3_2", "4_3", "6_1", "7_2", "P40", "P64"}
  /\ MaxDatagrams \in 0 .. 2^30 - 1 /\ MaxDisturbances \in Nat

VARIABLES hs,         \* the program: parser p, output o, frame, packet_index, published
          lidar,      \* the lidar and the user's settings
          datagrams,  \* datagrams the lidar has sent
          missed,     \* those that did not arrive in good order
          disturbances,
          silent      \* the silence after the last datagram was noticed

hesaiVars == <<hs, lidar, datagrams, missed, disturbances, silent>>

-----------------------------------------------------------------------------
(* The lidar *)

Fields == [i \in 1 .. 3 |-> [start |-> (i - 1) * 12000 * 256, end |-> ((i - 1) * 12000 + 9000) * 256]]
LoadedFile(kind, h) ==
  [format |-> IF kind = "4_3" THEN "dat5" ELSE IF kind = "2_4" THEN "dat1" ELSE IF kind = "7_2" THEN "dat0" ELSE "csv",
   lasers |-> h.laser_num, fields |-> Fields]

HeaderOf(kind, flags) ==
  [laser_num |-> CASE kind = "P40" -> 40 [] kind = "P64" -> 64 [] OTHER -> 4,
   block_num |-> CASE kind = "P40" -> 10 [] kind = "P64" -> 6 [] kind = "7_2" -> 1 [] OTHER -> 2,
   seq_num |-> 2, conf |-> flags, safety |-> flags, cyber |-> flags, imu |-> flags, has_seq |-> flags]

BlocksPerTurn == IF lidar.kind \in {"P40", "P64"} THEN 16 ELSE 8
TurnStep == CIRCLE \div BlocksPerTurn

\* The block b of a mechanical lidar: its angle since the start.  A user who
\* cuts at 359 degrees has a block in the last degree of the turn.
BlockAngle(b) == (b + lidar.first) * TurnStep + (IF lidar.start = 359 THEN TurnStep - 50 ELSE 0)
TurnOf(angle) == (angle - (IF lidar.start < 1 THEN 0 ELSE lidar.start * 100)) \div CIRCLE

DatagramsPerField == 3

Datagram(n) ==
  LET kind == lidar.kind
      blocks == [i \in 1 .. lidar.h.block_num |-> n * lidar.h.block_num + i - 1]
      at == (n \div DatagramsPerField) % 3
  IN  [delimiter |-> IF kind = "P40" THEN <<255, 238>> ELSE <<238, 255>>,
       is_timeout |-> FALSE, h |-> lidar.h, seq |-> U32(lidar.base + n),
       len |-> CASE kind = "P40" -> 1262 [] kind = "P64" -> 1194 [] OTHER -> 1180,
       major |-> CASE kind = "1_4" -> 1 [] kind \in {"2_4", "2_5"} -> 2 [] kind \in {"3_1", "3_2"} -> 3
                   [] kind = "4_3" -> 4 [] kind = "6_1" -> 6 [] OTHER -> 7,
       minor |-> CASE kind \in {"1_4", "2_4"} -> 4 [] kind = "2_5" -> 5 [] kind \in {"3_1", "6_1"} -> 1
                   [] kind = "4_3" -> 3 [] OTHER -> 2,
       frame_id |-> (n \div DatagramsPerField + 1) % 256,
       column_id |-> n % 4,
       azimuths |-> [i \in DOMAIN blocks |->
                      IF kind = "4_3" THEN at * 12000 + 7125 + 100 * (blocks[i] % (2 * DatagramsPerField))
                      ELSE BlockAngle(blocks[i]) % CIRCLE],
       rounds |-> [i \in DOMAIN blocks |->
                    CASE kind \in {"4_3", "2_4", "2_5"} -> n \div DatagramsPerField
                      [] kind = "7_2" -> n \div 4
                      [] OTHER -> TurnOf(BlockAngle(blocks[i]))]]

HasTool(kind, flags) == kind \in {"1_4", "3_2", "4_3", "6_1", "7_2"} \/ (kind = "3_1" /\ flags)

\* Lidar::Init: the parser by the user's lidar_type or by the first datagram,
\* which is spent on it, then the corrections and the settings.
Prepared(kind, file, start, tool) ==
  EnablePacketLossTool(SetFrameAzimuth(LoadCorrectionFile(NewParser(kind), file), start), tool)

LidarType(kind) ==
  CASE kind = "1_4" -> "Pandar128" [] kind = "2_4" -> "ET25-E1X" [] kind = "2_5" -> "ET25"
    [] kind = "3_1" -> "PandarQT" [] kind = "3_2" -> "PandarQT128" [] kind = "4_3" -> "AT128"
    [] kind = "6_1" -> "PandarXT" [] kind = "7_2" -> "PandarFT120" [] kind = "P40" -> "Pandar40P"
    [] kind = "P64" -> "Pandar64"

\* An ET25-E1X must be named: detected, it gets the parser of 2.5.
HesaiInit ==
  \E kind \in Kinds, flags, tool, auto, gaps \in BOOLEAN, first \in {0, 1}, base \in {0, 5, 2^30 - 4}, start \in {0, 180, 359},
     file \in {"none", "wrong", "good"} :
    /\ tool => HasTool(kind, flags) /\ file = "none"
    /\ auto => kind # "2_4"
    /\ start # 0 => kind = "1_4"
    /\ first # 0 => kind \notin {"2_4", "2_5", "4_3", "7_2"}
    /\ base # 0 => tool
    /\ gaps => kind = "4_3" /\ file = "good"
    /\ lidar = [kind |-> kind, h |-> HeaderOf(kind, flags), first |-> first, base |-> base, start |-> start,
                tool |-> tool, gaps |-> gaps]
    /\ hs = [p |-> Prepared(IF auto THEN KindOfPacket(Datagram(0)) ELSE KindOfType(LidarType(kind)),
                            IF file = "good" THEN LoadedFile(kind, lidar.h)
                            ELSE [format |-> IF file = "none" THEN "none" ELSE "text", lasers |-> 0, fields |-> <<>>],
                            start, tool),
             o |-> NoOutput, frame |-> NewFrame, packet_index |-> 0, clean |-> TRUE,
             published |-> [frame |-> NewFrame, laser_num |-> 1, block_num |-> 1, clean |-> TRUE]]
    /\ datagrams = IF auto THEN 1 ELSE 0
    /\ missed = {}
    /\ disturbances = 0
    /\ silent = FALSE

-----------------------------------------------------------------------------
(* HesaiLidarSdk::Run on one datagram *)

\* The frame is handed over without the packet that completed it, and that
\* packet, unless it is empty, is the first one of the next frame.  A packet
\* that was not decoded takes its place in the frame like any other: the
\* frame is clean while there is none.  The 1000 points that a frame needs to be
\* handed over are one point here, and the 4000 packets after which it starts
\* over are out of MaxDatagrams' reach: HesaiLidar has both as constants.
HandOver(s, d) ==
  LET p == [d.p EXCEPT !.dead = @ \/ Overruns(d.p, d.o)]
      valid == d.o.block_num # 0
  IN  IF s.p.enable_packet_loss_tool_ \/ p.dead THEN [s EXCEPT !.p = p, !.o = d.o]
      ELSE IF d.o.scan_complete
      THEN [s EXCEPT !.p = p, !.o = d.o, !.clean = TRUE,
              !.published = IF s.frame.points_num > 0
                            THEN [frame |-> s.frame, laser_num |-> lidar.h.laser_num, block_num |-> lidar.h.block_num,
                                  clean |-> s.clean]
                            ELSE @,
              !.frame = IF valid THEN ComputeXYZI(p, Update(@), d.o, 0) ELSE Update(@),
              !.packet_index = IF valid THEN 1 ELSE 0]
      ELSE [s EXCEPT !.p = p, !.o = d.o, !.clean = @ /\ valid,
              !.frame = ComputeXYZI(p, @, d.o, s.packet_index),
              !.packet_index = @ + 1]

Run(s, pkt, tick) == HandOver(s, DecodePacket(s.p, s.o, pkt, tick))

-----------------------------------------------------------------------------

EndOfField(n) == lidar.kind = "4_3" /\ n % DatagramsPerField = 0
MayReceive(n) == ~hs.p.dead /\ datagrams + n <= MaxDatagrams /\ (lidar.gaps /\ EndOfField(datagrams) => datagrams = 0 \/ silent)
MayDisturb == disturbances < MaxDisturbances /\ ~(lidar.gaps /\ EndOfField(datagrams + 1))

ReceiveDatagram ==
  /\ MayReceive(1)
  /\ \E tick \in (IF lidar.tool THEN BOOLEAN ELSE {FALSE}) : hs' = Run(hs, Datagram(datagrams), tick)
  /\ datagrams' = datagrams + 1
  /\ silent' = FALSE
  /\ UNCHANGED <<lidar, missed, disturbances>>

\* Lost, or of another delimiter.
MissDatagram ==
  /\ MayReceive(1) /\ MayDisturb
  /\ hs' \in {hs, Run(hs, [Datagram(datagrams) EXCEPT !.delimiter = <<0, 0>>], FALSE)}
  /\ missed' = missed \cup {datagrams}
  /\ datagrams' = datagrams + 1
  /\ disturbances' = disturbances + 1
  /\ silent' = FALSE
  /\ UNCHANGED lidar

\* Not before the count has begun: a datagram older than its first number
\* would take one off it for good.
OvertakeDatagram ==
  /\ MayReceive(2) /\ MayDisturb /\ lidar.tool /\ hs.p.loss.start # 0
  /\ hs' = Run(Run(hs, Datagram(datagrams + 1), FALSE), Datagram(datagrams), FALSE)
  /\ datagrams' = datagrams + 2
  /\ disturbances' = disturbances + 1
  /\ silent' = FALSE
  /\ UNCHANGED <<lidar, missed>>

\* The socket times out, once per silence: between the fields of a slow lidar,
\* and, as a disturbance, within a field.  What is not the end of a field is
\* decoded from a buffer nobody filled: the last datagram's bytes, or others.
Silence ==
  /\ lidar.kind = "4_3" /\ hs.p.fields # <<>> /\ ~hs.p.dead /\ ~silent /\ datagrams > 0
  /\ \/ lidar.gaps /\ EndOfField(datagrams) /\ UNCHANGED disturbances
     \/ ~EndOfField(datagrams) /\ MayDisturb /\ disturbances' = disturbances + 1
  /\ \E delimiter \in {<<238, 255>>, <<0, 0>>} :
       hs' = Run(hs, [Datagram(datagrams - 1) EXCEPT !.is_timeout = TRUE, !.delimiter = delimiter], FALSE)
  /\ silent' = TRUE
  /\ UNCHANGED <<lidar, datagrams, missed>>

HesaiNext == ReceiveDatagram \/ MissDatagram \/ OvertakeDatagram \/ Silence

HesaiSpec == HesaiInit /\ [][HesaiNext]_hesaiVars

-----------------------------------------------------------------------------

\* A frame handed to the user holds the blocks of one turn, field or frame of
\* the lidar, with no block left over from an earlier frame; only its first
\* packet may begin before the cut, and is then in order.  So it is whatever
\* datagram was lost, damaged or late, but for a user's cut at 359 degrees (the
\* default of Pandar128), which a lost datagram misses, and for a frame with a
\* packet of the AT128 that could not be decoded.
FrameIsOneRound ==
  LET pub == hs.published
      points == pub.frame.points
      slots == 0 .. (pub.frame.points_num \div pub.laser_num) - 1
  IN  pub.clean /\ (lidar.start = 359 => disturbances = 0) =>
        /\ slots \subseteq DOMAIN points
        /\ \E r \in {points[s] : s \in slots} \cup {0} :
             \A s \in slots : IF s < pub.block_num
                              THEN points[s] \in {r - 1, r} /\ (s > 0 => points[s - 1] <= points[s])
                              ELSE points[s] = r

\* Once the newest datagram is the last one counted, the lost ones are counted
\* exactly, whatever arrived late and past the wrap of the 32-bit numbers; and
\* so are all of them, while no number was smaller than the one before
\* (CalPktLoss and total_packet_count_, which DecodePacket keeps).  Both counts
\* begin with the first number that is not 0.
LossCounted ==
  LET loss == hs.p.loss
      Since(seq) == U32(seq - loss.total_start)
      arrived == (0 .. datagrams - 1) \ missed
      newest == CHOOSE n \in arrived : \A m \in arrived : m <= n
  IN  loss.total_start # 0 =>
        /\ loss.last = U32(lidar.base + newest) =>
             loss.total_loss = Cardinality({n \in missed : Since(lidar.base + n) < Since(loss.last)})
        /\ ~loss.late => hs.p.total_packet_count_ = loss.last - loss.total_start

\* The tail is where the sizes of the packet's parts put it.
TailFits(kind, h) ==
  CASE kind = "1_4" ->
         Tail1_4(h) + HS_LIDAR_TAIL_ME_V4 + If(h.has_seq, HS_LIDAR_TAIL_SEQ_NUM_ME_V4) + If(h.imu, HS_LIDAR_TAIL_IMU_ME_V4)
         + HS_LIDAR_TAIL_CRC_ME_V4 + If(h.cyber, HS_LIDAR_CYBER_SECURITY_ME_V4) = PacketSize_ME_V4(h)
    [] kind = "2_4" -> BodyEnd2_4(h) + HS_LIDAR_BODY_CRC_ET_V4 = Tail2_4(h)
    [] kind = "2_5" -> BodyEnd2_5(h) + HS_LIDAR_BODY_CRC_ET_V5 = Tail2_5(h)
    [] kind = "3_1" -> h.has_seq => Tail3_1(h) + HS_LIDAR_TAIL_QT_V1 = PacketSize_QT_V1(h)
    [] kind = "3_2" ->
         h.conf => Tail3_2(h) + HS_LIDAR_TAIL_QT_V2 + If(h.has_seq, HS_LIDAR_TAIL_SEQ_NUM_QT_V2)
                   + HS_LIDAR_TAIL_CRC_QT_V2 + If(h.cyber, HS_LIDAR_CYBER_SECURITY_QT_V2) = PacketSize_QT_V2(h)
    [] kind = "4_3" ->
         Tail4_3(h) + HS_LIDAR_TAIL_ST_V3 + If(h.has_seq, HS_LIDAR_TAIL_SEQ_NUM_ST_V3) + HS_LIDAR_TAIL_CRC_ST_V3
         + If(h.cyber, HS_LIDAR_CYBER_SECURITY_ST_V3) = PacketSize_ST_V3(h)
    [] kind = "6_1" -> Tail6_1(h) + HsLidarXTV1Tail = PacketSize_XTV1(h)
    [] kind = "P40" -> TailP40(h) + HS_LIDAR_TAIL_L40 = 1262
    [] kind = "P64" -> TailP64(h) + HS_LIDAR_TAIL_L64 = 1194
    [] OTHER -> TRUE

Lasers == {[elevation |-> -1200, azimuth |-> -900], [elevation |-> 1200, azimuth |-> 900]}

\* The ends of what an ET's packet can say of its mirror (16 bits, 512 a degree), and of the
\* bend.
Mirrors == [elevation : {-6400, 0, 6399}, azimuth : {-6400, 0, 6399}]
Bows == {-300, 0, 300}

Indices(p, azimuth, laser) ==
  CASE p.kind = "1_4" -> {Indices1_4(p, azimuth, laser)}
    [] p.kind \in {"6_1", "P40"} -> {IndicesXT(p, azimuth, laser)}
    [] p.kind = "P64" -> {IndicesP64(p, azimuth, laser)}
    [] p.kind = "3_1" -> {IndicesQT(p, azimuth, laser)}
    [] p.kind = "3_2" -> {Indices3_2(p, azimuth, laser)}
    [] p.kind = "7_2" -> {Indices7_2(p, laser)}
    [] p.kind = "2_4" -> {Indices2_4(raw, laser, bow) : raw \in Mirrors, bow \in Bows}
    [] p.kind = "2_5" -> {Indices2_5(raw, laser, bow) : raw \in Mirrors, bow \in Bows}
    [] p.kind = "4_3" -> {Indices4_3(p, azimuth * ANGULAR_RESOLUTION, laser)}

\* The parsers read inside what they were given: the tail lies where the
\* lidar put it (but in a QT128's packet without confidence, which crashes the
\* parser), and no angle, corrected or not, is beyond the tables of sine and
\* cosine.
ReadsFit ==
  /\ TailFits(hs.p.kind, lidar.h)
  /\ \A b \in Placed(hs.p, hs.o), laser \in Lasers :
       LET size == IF hs.p.kind = "4_3" THEN MAX_AZI_LEN ELSE CIRCLE
       IN  \A i \in Indices(hs.p, hs.o.azimuth[b], laser) :
             i.elevation \in 0 .. size - 1 /\ i.azimuth \in 0 .. size - 1
=============================================================================
