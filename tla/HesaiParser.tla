---------------------------- MODULE HesaiParser ----------------------------
(***************************************************************************)
(* The parsers of the Hesai SDK: which one a datagram or a lidar's name    *)
(* calls for, what decoding a datagram leaves behind, when a parser says   *)
(* that the frame before the packet is complete, where ComputeXYZI puts a  *)
(* packet's points, and the count of lost packets.                         *)
(*                                                                         *)
(* A parser p is a record of its members, an output o what DecodePacket    *)
(* left in the decoded packet, a frame the points by block: the block at   *)
(* slot packet_index * block_num + blockid.  A datagram's fields rounds    *)
(* says for each block in which turn of the lidar it was measured: the     *)
(* program does not know it, and hands it on to the points.                *)
(***************************************************************************)
EXTENDS HesaiPackets, Sequences, FiniteSets, TLC

CIRCLE == 36000
ANGULAR_RESOLUTION == 256
MAX_AZI_LEN == 36000 * 256
MARGINAL_ANGLE == 7625
ACCEPTANCE_ANGLE == 200
kSplitFrameMinAngle == 300
kAzimuthTolerance == 1000

-----------------------------------------------------------------------------
(* Which parser *)

\* The case for ET 2.4 falls through into the one for 2.5.
KindOfVersion(major, minor) ==
  CASE major = 1 /\ minor = 4         -> "1_4"
    [] major = 2 /\ minor \in {4, 5}  -> "2_5"
    [] major = 3 /\ minor = 1         -> "3_1"
    [] major = 3 /\ minor = 2         -> "3_2"
    [] major = 4 /\ minor \in {1, 3}  -> "4_3"
    [] major = 6 /\ minor = 1         -> "6_1"
    [] major = 7 /\ minor = 2         -> "7_2"
    [] OTHER                          -> "none"

\* Bytes that both differ from the delimiter's are refused, one alone is not.
KindOfPacket(pkt) ==
  IF pkt.len \in {1262, 1266, 1256, 1260} THEN "P40"
  ELSE IF pkt.len \in {1194, 1198, 1270, 1274} THEN "P64"
  ELSE IF pkt.delimiter[1] # 238 /\ pkt.delimiter[2] # 255 THEN "none"
  ELSE KindOfVersion(pkt.major, pkt.minor)

KindOfType(lidar_type) ==
  CASE lidar_type \in {"AT128", "AT128E2X", "AT128E3X"}                   -> "4_3"
    [] lidar_type \in {"Pandar128E3X", "Pandar128", "Pandar40S", "Pandar40E3X", "Pandar60S",
                       "Pandar64E3X", "Pandar90", "Pandar90E3X"}          -> "1_4"
    [] lidar_type \in {"PandarXT", "PandarXT16", "PandarXT-16", "PandarXT32", "PandarXT-32",
                       "PandarXTM", "XT32M2X"}                            -> "6_1"
    [] lidar_type = "PandarQT"                                            -> "3_1"
    [] lidar_type \in {"PandarQT128", "QT128C2X"}                         -> "3_2"
    [] lidar_type = "Pandar64"                                            -> "P64"
    [] lidar_type \in {"Pandar40", "Pandar40P"}                           -> "P40"
    [] lidar_type \in {"PandarFT120", "FT120C1X"}                         -> "7_2"
    [] lidar_type = "ET25-E1X"                                            -> "2_4"
    [] lidar_type \in {"ET25-E2X", "ET25", "ET"}                          -> "2_5"
    [] OTHER                                                              -> "none"

NewParser(kind) ==
  [kind |-> kind, dead |-> FALSE,
   last_azimuth_ |-> 0, last_frameid_ |-> 0, last_cloumn_id_ |-> -1,
   use_angle_ |-> TRUE, use_frame_start_azimuth_ |-> TRUE, frame_start_azimuth_ |-> 0,
   get_correction_file_ |-> FALSE, lasers |-> 0, fields |-> <<>>, enable_packet_loss_tool_ |-> FALSE,
   loss |-> [start |-> 0, last |-> 0, loss |-> 0, total_loss |-> 0, total_start |-> 0, late |-> FALSE],
   total_packet_count_ |-> 0]

SetFrameAzimuth(p, frame_start_azimuth) == [p EXCEPT !.frame_start_azimuth_ = frame_start_azimuth]
EnablePacketLossTool(p, enable) == [p EXCEPT !.enable_packet_loss_tool_ = enable]

-----------------------------------------------------------------------------
(* Correction files: a format and a number of lasers *)

\* Any text is taken for a table of the general parser, a wrong one for an
\* empty table.
LoadCorrectionGeneral(p, file) ==
  [p EXCEPT !.get_correction_file_ = TRUE, !.lasers = IF file.format = "csv" THEN file.lasers ELSE 0]

\* A file of version 3 fills tables that nothing reads.
LoadCorrection4_3(p, file) ==
  CASE file.format = "dat5" -> [p EXCEPT !.get_correction_file_ = TRUE, !.lasers = file.lasers, !.fields = file.fields]
    [] file.format = "dat3" -> [p EXCEPT !.get_correction_file_ = TRUE]
    [] OTHER                -> p

LoadCorrection2_4(p, file) ==
  IF file.format \in {"dat1", "csv"} THEN [p EXCEPT !.get_correction_file_ = TRUE, !.lasers = file.lasers]
  ELSE p

LoadCorrection2_5(p, file) ==
  IF file.format \in {"dat1", "csv"} THEN [p EXCEPT !.get_correction_file_ = TRUE, !.lasers = file.lasers]
  ELSE p

LoadCorrection7_2(p, file) ==
  IF file.format \in {"dat0", "dat1", "csv"} THEN [p EXCEPT !.get_correction_file_ = TRUE, !.lasers = file.lasers]
  ELSE p

\* A file that cannot be opened changes nothing.
LoadCorrectionFile(p, file) ==
  IF file.format = "none" THEN p
  ELSE CASE p.kind = "4_3" -> LoadCorrection4_3(p, file)
         [] p.kind = "2_4" -> LoadCorrection2_4(p, file)
         [] p.kind = "2_5" -> LoadCorrection2_5(p, file)
         [] p.kind = "7_2" -> LoadCorrection7_2(p, file)
         [] OTHER          -> LoadCorrectionGeneral(p, file)

-----------------------------------------------------------------------------
(* Is the frame complete?  One operator per parser's IsNeedFrameSplit, on  *)
(* the parser before the block.                                            *)

Wrapped(p, azimuth) == p.last_azimuth_ > azimuth /\ p.last_azimuth_ - azimuth > kSplitFrameMinAngle

\* Pandar128: at the wrap, or once per turn at the azimuth the user asks for.
Split1_4(p, azimuth) ==
  LET armed == p.use_frame_start_azimuth_ \/ Wrapped(p, azimuth)
  IN  IF p.frame_start_azimuth_ < 1 \/ p.frame_start_azimuth_ > 359
      THEN [split |-> Wrapped(p, azimuth), armed |-> armed]
      ELSE LET split == azimuth >= p.frame_start_azimuth_ * 100 /\ armed
           IN  [split |-> split, armed |-> armed /\ ~split]

Split2_4(p, nowid) == nowid # p.last_frameid_
Split2_5(p, frame_id) == frame_id # p.last_frameid_
Split3_1(p, azimuth) == Wrapped(p, azimuth)
Split3_2(p, azimuth) == Wrapped(p, azimuth)
Split6_1(p, azimuth) == Wrapped(p, azimuth)
SplitP40(p, azimuth) == Wrapped(p, azimuth)
SplitP64(p, azimuth) == Wrapped(p, azimuth)
Split7_2(p, column_id) == column_id < p.last_cloumn_id_

\* AT128: the azimuth jumps from one mirror's field to the next one's.
Split4_3(p, azimuth) ==
  /\ p.last_azimuth_ # 0
  /\ azimuth > p.last_azimuth_ + kAzimuthTolerance \/ azimuth < p.last_azimuth_ - kAzimuthTolerance

\* One block: the split it calls for, and the parser after it.
BlockSplit(p, azimuth) ==
  CASE p.kind = "1_4" ->
         LET s == Split1_4(p, azimuth)
         IN  [split |-> s.split, p |-> [p EXCEPT !.use_frame_start_azimuth_ = s.armed, !.last_azimuth_ = azimuth]]
    [] p.kind = "4_3" ->
         [split |-> p.use_angle_ /\ Split4_3(p, azimuth), p |-> [p EXCEPT !.last_azimuth_ = azimuth]]
    [] OTHER ->
         [split |-> CASE p.kind = "3_1" -> Split3_1(p, azimuth)
                      [] p.kind = "3_2" -> Split3_2(p, azimuth)
                      [] p.kind = "6_1" -> Split6_1(p, azimuth)
                      [] p.kind = "P40" -> SplitP40(p, azimuth)
                      [] p.kind = "P64" -> SplitP64(p, azimuth),
          p |-> [p EXCEPT !.last_azimuth_ = azimuth]]

\* Mutant: each block overwrites the answer of the one before it.
LastBlockSplits(p, azimuths) ==
  LET after[i \in 0 .. Len(azimuths)] ==
        IF i = 0 THEN [split |-> FALSE, p |-> p] ELSE BlockSplit(after[i - 1].p, azimuths[i])
  IN  after[Len(azimuths)]

\* The blocks of a packet, in order: is one of them the first of a new frame?
BlockSplits(p, azimuths) ==
  LET after[i \in 0 .. Len(azimuths)] ==
        IF i = 0 THEN [split |-> FALSE, p |-> p]
        ELSE LET b == BlockSplit(after[i - 1].p, azimuths[i])
             IN  [split |-> after[i - 1].split \/ b.split, p |-> b.p]
  IN  after[Len(azimuths)]

-----------------------------------------------------------------------------
(* Where the tail of a packet lies, counted from its first byte *)

Body(azimuth, unit, h) == (azimuth + unit * h.laser_num) * h.block_num

Tail1_4(h) ==
  HS_LIDAR_PRE_HEADER + HS_LIDAR_HEADER_ME_V4
  + Body(HS_LIDAR_BODY_AZIMUTH_ME_V4,
         IF h.conf THEN HS_LIDAR_BODY_CHN_UNIT_ME_V4 ELSE HS_LIDAR_BODY_CHN_UNIT_NO_CONF_ME_V4, h)
  + HS_LIDAR_BODY_CRC_ME_V4 + If(h.safety, HS_LIDAR_FUNC_SAFETY_ME_V4)

Tail2_4(h) == PacketSize_ET_V4(h) - HS_LIDAR_TAIL_CRC_ET_V4 - HS_LIDAR_TAIL_SEQ_NUM_ET_V4 - HS_LIDAR_TAIL_ET_V4

\* Where the walk over the blocks, their sequences and units ends.
BodyEnd2_4(h) ==
  HS_LIDAR_PRE_HEADER + HS_LIDAR_HEADER_ET_V4
  + h.block_num * (2 + h.seq_num * (HS_LIDAR_BODY_SEQ2_ET_V4
                                    + HS_LIDAR_BODY_LASTER_UNIT_ET_V4 * (h.laser_num \div h.seq_num)))

Tail2_5(h) ==
  PacketSize_ET_V5(h) - HS_LIDAR_CYBER_SECURITY_ET_V5 - HS_LIDAR_TAIL_CRC_ET_V5
  - HS_LIDAR_TAIL_SEQ_NUM_ET_V5 - HS_LIDAR_TAIL_ET_V5

BodyEnd2_5(h) ==
  HS_LIDAR_PRE_HEADER + HS_LIDAR_HEADER_ET_V5
  + h.block_num * (2 + h.seq_num * (HS_LIDAR_BODY_SEQ3_ET_V5
                                    + HS_LIDAR_BODY_LASTER_UNIT_ET_V5 * (h.laser_num \div h.seq_num)))

Tail3_1(h) ==
  HS_LIDAR_PRE_HEADER + HS_LIDAR_HEADER_QT_V1 + Body(HS_LIDAR_BODY_AZIMUTH_QT_V1, HS_LIDAR_BODY_CHN_NNIT_QT_V1, h)

\* Without the confidence ?: binds looser than +, and the sum is its
\* condition: the tail is taken for the address 17.
Tail3_2(h) ==
  IF h.conf
  THEN HS_LIDAR_PRE_HEADER + HS_LIDAR_HEADER_QT_V2
       + Body(HS_LIDAR_BODY_AZIMUTH_QT_V2, HS_LIDAR_BODY_CHN_UNIT_QT_V2, h)
       + HS_LIDAR_BODY_CRC_QT_V2 + If(h.safety, HS_LIDAR_FUNCTION_SAFETY)
  ELSE HS_LIDAR_FUNCTION_SAFETY

Tail4_3(h) ==
  HS_LIDAR_PRE_HEADER + HS_LIDAR_HEADER_ST_V3
  + Body(HS_LIDAR_BODY_AZIMUTH_ST_V3 + HS_LIDAR_BODY_FINE_AZIMUTH_ST_V3, HS_LIDAR_BODY_CHN_NNIT_ST_V3, h)
  + HS_LIDAR_BODY_CRC_ST_V3

Tail6_1(h) == HS_LIDAR_PRE_HEADER + HsLidarXTV1Header + Body(HsLidarXTV1BodyAzimuth, HsLidarXTV1BodyChannelData, h)
Tail7_2(h) == HS_LIDAR_PRE_HEADER + HS_LIDAR_HEADER_FT_V2 + HS_LIDAR_BODY_CHN_UNIT_FT_V2 * h.laser_num
TailP40(h) == (HS_LIDAR_BODY_AZIMUTH_L40 + HS_LIDAR_BODY_CHN_UNIT_L40 * LASERNUM) * BLOCKNUM
TailP64(h) == HS_LIDAR_L64_Header + Body(HS_LIDAR_BODY_AZIMUTH_L64, HS_LIDAR_BODY_CHN_UNIT_L64, h)

-----------------------------------------------------------------------------
(* DecodePacket: the parser and the output after a datagram.  A datagram   *)
(* with another delimiter leaves the output as the last one left it.       *)

NoOutput == [points_num |-> 0, block_num |-> 0, laser_num |-> 0, scan_complete |-> FALSE,
             azimuth |-> <<>>, rounds |-> <<>>]

Output(blocks, lasers, scan_complete, pkt) ==
  [points_num |-> blocks * lasers, block_num |-> blocks, laser_num |-> lasers,
   scan_complete |-> scan_complete, azimuth |-> pkt.azimuths, rounds |-> pkt.rounds]

Delimited(pkt) == pkt.delimiter = <<238, 255>>
Same(p, o) == [p |-> p, o |-> o]

\* Mutant: the first number is counted like the difference to one before it.
CountFirst(p, pkt, tick) ==
  [p EXCEPT !.total_packet_count_ = IF pkt.seq > p.loss.last THEN U32(@ + pkt.seq - p.loss.last) ELSE @,
            !.loss = CalPktLoss(p.loss, pkt.seq, tick)]

CountLoss(p, pkt, tick) ==
  [p EXCEPT !.total_packet_count_ = IF pkt.seq > p.loss.last /\ p.loss.last # 0 THEN U32(@ + pkt.seq - p.loss.last) ELSE @,
            !.loss = CalPktLoss(p.loss, pkt.seq, tick)]

DecodeBlocks(p, pkt, lasers) ==
  LET s == BlockSplits(p, pkt.azimuths)
  IN  Same(s.p, Output(Len(pkt.azimuths), lasers, s.split, pkt))

\* With the packet loss tool a packet is counted and not decoded.
Decode1_4(p, o, pkt, tick) ==
  IF ~Delimited(pkt) THEN Same(p, o)
  ELSE IF p.enable_packet_loss_tool_ THEN Same(IF pkt.h.has_seq THEN CountLoss(p, pkt, tick) ELSE p, o)
  ELSE DecodeBlocks(p, pkt, pkt.h.laser_num)

\* QT reads the corrections of a laser here, and there may be none.
Decode3_1(p, o, pkt, tick) ==
  IF ~Delimited(pkt) THEN Same(p, o)
  ELSE IF p.enable_packet_loss_tool_ THEN Same(CountLoss(p, pkt, tick), o)
  ELSE DecodeBlocks([p EXCEPT !.dead = p.lasers < pkt.h.laser_num], pkt, pkt.h.laser_num)

\* The output is filled before the tool's return; without the confidence the
\* tail is read at the address 17.
Decode3_2(p, o, pkt, tick) ==
  IF ~Delimited(pkt) THEN Same(p, o)
  ELSE IF ~pkt.h.conf THEN Same([p EXCEPT !.dead = TRUE], o)
  ELSE IF p.enable_packet_loss_tool_
  THEN Same(IF pkt.h.has_seq THEN CountLoss(p, pkt, tick) ELSE p,
            [Output(pkt.h.block_num, pkt.h.laser_num, FALSE, pkt) EXCEPT !.azimuth = o.azimuth, !.rounds = o.rounds])
  ELSE DecodeBlocks([p EXCEPT !.dead = p.lasers < pkt.h.laser_num], pkt, pkt.h.laser_num)

Decode6_1(p, o, pkt, tick) ==
  IF ~Delimited(pkt) THEN Same(p, o)
  ELSE IF p.enable_packet_loss_tool_ THEN Same(CountLoss(p, pkt, tick), o)
  ELSE DecodeBlocks(p, pkt, pkt.h.laser_num)

DecodeP40(p, o, pkt) ==
  IF pkt.delimiter # <<255, 238>> THEN Same(p, o) ELSE DecodeBlocks(p, pkt, LASERNUM)

DecodeP64(p, o, pkt) ==
  IF ~Delimited(pkt) THEN Same(p, o) ELSE DecodeBlocks(p, pkt, pkt.h.laser_num)

Decode2_4(p, o, pkt) ==
  IF ~Delimited(pkt) THEN Same(p, o)
  ELSE Same([p EXCEPT !.last_frameid_ = pkt.frame_id],
            Output(pkt.h.block_num, pkt.h.laser_num, p.use_angle_ /\ Split2_4(p, pkt.frame_id), pkt))

Decode2_5(p, o, pkt) ==
  IF ~Delimited(pkt) THEN Same(p, o)
  ELSE Same([p EXCEPT !.last_frameid_ = pkt.frame_id],
            Output(pkt.h.block_num, pkt.h.laser_num, p.use_angle_ /\ Split2_5(p, pkt.frame_id), pkt))

Decode7_2(p, o, pkt, tick) ==
  IF ~Delimited(pkt) THEN Same(p, o)
  ELSE IF p.enable_packet_loss_tool_ THEN Same(CountLoss(p, pkt, tick), o)
  ELSE Same([p EXCEPT !.last_cloumn_id_ = pkt.column_id],
            Output(1, pkt.h.laser_num, Split7_2(p, pkt.column_id), pkt))

\* AT128.  The socket was silent near the end of a field: the frame is
\* complete, and from now on the silences split it, no longer the jumps of
\* the azimuth.  A silence elsewhere is decoded as if it were a packet.
FieldEnds(p) ==
  \E i \in DOMAIN p.fields :
    LET angle == p.fields[i].start \div ANGULAR_RESOLUTION + MARGINAL_ANGLE - p.last_azimuth_
    IN  -ACCEPTANCE_ANGLE < angle /\ angle < ACCEPTANCE_ANGLE

Nothing(o, scan_complete) ==
  [o EXCEPT !.points_num = 0, !.block_num = 0, !.laser_num = 0, !.scan_complete = scan_complete]

Decode4_3(p, o, pkt, tick) ==
  IF pkt.is_timeout /\ FieldEnds(p) THEN Same([p EXCEPT !.use_angle_ = FALSE], Nothing(o, TRUE))
  ELSE IF ~Delimited(pkt) THEN Same(p, Nothing(o, FALSE))
  ELSE IF p.enable_packet_loss_tool_ THEN Same(IF pkt.h.has_seq THEN CountLoss(p, pkt, tick) ELSE p, o)
  ELSE DecodeBlocks(p, pkt, pkt.h.laser_num)

DecodePacket(p, o, pkt, tick) ==
  CASE p.kind = "1_4" -> Decode1_4(p, o, pkt, tick)
    [] p.kind = "2_4" -> Decode2_4(p, o, pkt)
    [] p.kind = "2_5" -> Decode2_5(p, o, pkt)
    [] p.kind = "3_1" -> Decode3_1(p, o, pkt, tick)
    [] p.kind = "3_2" -> Decode3_2(p, o, pkt, tick)
    [] p.kind = "4_3" -> Decode4_3(p, o, pkt, tick)
    [] p.kind = "6_1" -> Decode6_1(p, o, pkt, tick)
    [] p.kind = "7_2" -> Decode7_2(p, o, pkt, tick)
    [] p.kind = "P40" -> DecodeP40(p, o, pkt)
    [] p.kind = "P64" -> DecodeP64(p, o, pkt)

-----------------------------------------------------------------------------
(* ComputeXYZI: the points of a packet go to their place in the frame *)

NewFrame == [points |-> <<>>, points_num |-> 0, packet_num |-> 0]
Update(frame) == [frame EXCEPT !.points_num = 0, !.packet_num = -1]

\* The remainder of C: its sign is the dividend's.
CRem(a, b) == IF a >= 0 THEN a % b ELSE -((-a) % b)

\* The entry of the tables of sine and cosine, for a laser whose corrections
\* in hundredths of a degree are elevation and azimuth.
Indices1_4(p, raw, laser) ==
  IF p.get_correction_file_
  THEN [elevation |-> CRem(CIRCLE + laser.elevation, CIRCLE), azimuth |-> CRem(CIRCLE + raw + laser.azimuth, CIRCLE)]
  ELSE [elevation |-> 0, azimuth |-> raw]

\* Mutant: the corrected angle is not brought back into the circle.
IndicesUnwrapped(p, raw, laser) ==
  IF p.get_correction_file_
  THEN [elevation |-> CRem(CIRCLE + laser.elevation, CIRCLE), azimuth |-> raw + laser.azimuth]
  ELSE [elevation |-> 0, azimuth |-> 0]

IndicesXT(p, raw, laser) ==
  IF p.get_correction_file_
  THEN [elevation |-> CRem(CIRCLE + laser.elevation, CIRCLE), azimuth |-> CRem(CIRCLE + raw + laser.azimuth, CIRCLE)]
  ELSE [elevation |-> 0, azimuth |-> 0]

\* QT: the corrections are in the decoded angles already.
IndicesQT(p, raw, laser) == IndicesXT(p, raw, laser)
Indices3_2(p, raw, laser) == IndicesXT(p, raw, laser)
IndicesP64(p, raw, laser) == IndicesXT(p, raw, laser)

\* FT120: the decoded angles are the table's of the laser and the column.
Indices7_2(p, laser) == IndicesXT(p, 0, laser)

\* ET: from the two angles of the mirror and the laser's, with or without a file; bow is what
\* the optics bend a line by.  Ahead of the lidar is a right angle.
Indices2_5(raw, laser, bow) ==
  [elevation |-> CRem(raw.elevation + laser.elevation + bow + CIRCLE, CIRCLE),
   azimuth |-> CRem(9000 + raw.azimuth + laser.azimuth + bow + CIRCLE, CIRCLE)]
Indices2_4(raw, laser, bow) == Indices2_5(raw, laser, bow)

\* AT128 counts 1/256 of a hundredth of a degree, and twice the angle since
\* the start of the mirror's field.
Field(p, azimuth) ==
  {i \in DOMAIN p.fields :
     LET f == p.fields[i]
     IN  ((azimuth + MAX_AZI_LEN - f.start) % MAX_AZI_LEN) + ((f.end + MAX_AZI_LEN - azimuth) % MAX_AZI_LEN)
         = (f.end + MAX_AZI_LEN - f.start) % MAX_AZI_LEN}

Indices4_3(p, raw, laser) ==
  IF p.get_correction_file_
  THEN LET f == p.fields[CHOOSE i \in Field(p, raw) : TRUE]
       IN  [elevation |-> CRem(MAX_AZI_LEN + laser.elevation * ANGULAR_RESOLUTION, MAX_AZI_LEN),
            azimuth |-> CRem(MAX_AZI_LEN + (raw + MAX_AZI_LEN - f.start) * 2 - laser.azimuth * ANGULAR_RESOLUTION,
                             MAX_AZI_LEN)]
  ELSE [elevation |-> 0, azimuth |-> 0]

\* The blocks of the packet that reach the frame.
Placed(p, o) ==
  {b \in 1 .. o.block_num : p.kind = "4_3" /\ p.get_correction_file_ => Field(p, o.azimuth[b] * ANGULAR_RESOLUTION) # {}}

ComputeXYZI(p, frame, o, packet_index) ==
  [points |-> [slot \in {packet_index * o.block_num + b - 1 : b \in Placed(p, o)} |->
                 o.rounds[slot - packet_index * o.block_num + 1]] @@ frame.points,
   points_num |-> frame.points_num + o.points_num,
   packet_num |-> packet_index]

\* The table of a wrong file is too short for the lasers of a packet.
Overruns(p, o) == p.kind \in {"1_4", "6_1", "P40", "P64"} /\ p.get_correction_file_ /\ p.lasers < o.laser_num
=============================================================================
