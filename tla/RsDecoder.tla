------------------------------ MODULE RsDecoder ------------------------------
(***************************************************************************)
(* rs_driver's decoders (driver/decoder): what a DIFOP packet configures   *)
(* and how the blocks of MSOP packets become point clouds.  A decoder is a *)
(* record whose fields are the members of Decoder, DecoderMech and the     *)
(* class of the lidar; an operation maps it to the decoder after the call. *)
(* The field out collects the clouds handed to cb_put_cloud.               *)
(*                                                                         *)
(* A point is kept by the round of the lidar that it belongs to, and early *)
(* are the rounds of which a cloud has a point from before zero.  Error    *)
(* reports and the coordinates of a point are left out.                    *)
(***************************************************************************)
EXTENDS RsAlgorithms, RsPackets

CONSTANTS CLOUD_POINT_MAX,   \* points in a cloud before it is thrown away
          CaliChans,         \* the first channels, whose calibration is kept
          PACKET_NUM         \* packets in a jumbo packet (63)

ASSUME DecoderConstants ==
  CLOUD_POINT_MAX \in Nat /\ CaliChans \in Nat \ {0} /\ PACKET_NUM \in Nat \ {0}

EmptyCloud == [rounds |-> {}, early |-> {}, size |-> 0, blks |-> 0]

AddPoints(cloud, round, early, n, blks) ==
  IF n = 0 THEN cloud
  ELSE [rounds |-> cloud.rounds \cup {round},
        early  |-> IF early THEN cloud.early \cup {round} ELSE cloud.early,
        size   |-> cloud.size + n, blks |-> cloud.blks + blks]

\* All points of a packet share the distances in the valid section; without
\* dense_points the others are kept as NaN points.
Kept(d, valid, all) == IF d.param.dense_points THEN valid ELSE all

-----------------------------------------------------------------------------
(* Decoder *)

BaseDecoder(lidar, P, param) ==
  [lidar |-> lidar, P |-> P, param |-> param, echo_mode_ |-> "single",
   angles_ready_ |-> FALSE, packet_duration_ |-> 0, temperature_ |-> 0,
   prev_pkt_ts_ |-> 0, prev_point_ts_ |-> 0, first_point_ts_ |-> 0,
   split_strategy_ |-> BySeq, point_cloud_ |-> EmptyCloud, seq |-> 0, out |-> <<>>]

cloudTs(d) == IF d.param.ts_first_point THEN d.first_point_ts_ ELSE d.prev_point_ts_

\* LidarDriverImpl::setPointCloudHeader
Header(d, height, ts) ==
  LET points == d.point_cloud_.size
      h      == IF d.param.dense_points THEN 1 ELSE height
  IN  [cloud |-> d.point_cloud_, seq |-> d.seq, timestamp |-> ts,
       height |-> h, width |-> points \div h]

\* LidarDriverImpl::splitFrame: an empty cloud is kept.
splitFrame(d, height, ts) ==
  IF d.point_cloud_.size > 0
  THEN [d EXCEPT !.out = Append(@, Header(d, height, ts)), !.seq = @ + 1,
                 !.point_cloud_ = EmptyCloud]
  ELSE d

\* Mutant: the time of the first point stays that of the first cloud.
SplitKeepsFirst(d, ts) == splitFrame(d, d.P.LASER_NUM, cloudTs(d))

Split(d, ts) == [splitFrame(d, d.P.LASER_NUM, cloudTs(d)) EXCEPT !.first_point_ts_ = ts]

\* The packet's time stamp in ns: the lidar's, of which us is what the header
\* holds, or the host's, rolled back to the packet's first block.
PacketTs(d, pkt, us) ==
  IF d.param.use_lidar_clock THEN us * 1000 ELSE pkt.host - d.packet_duration_

-----------------------------------------------------------------------------
(* DecoderMech *)

BlksPerFrame(P, rps) == 1000000000 \div (rps * P.BLOCK_DURATION)

StrategyOf(param) ==
  IF param.split_frame_mode = "fixed" THEN ByNum("fixed")
  ELSE IF param.split_frame_mode = "custom" THEN ByNum("custom")
  ELSE ByAngle(param.split_angle)

MechFields(P, param) ==
  [rps_ |-> 10, blks_per_frame_ |-> BlksPerFrame(P, 10),
   split_blks_per_frame_ |-> BlksPerFrame(P, 10), block_az_diff_ |-> 20,
   fov_blind_ts_diff_ |-> 0, lidar_model_ |-> 0,
   scan_section_ |-> AzimuthSection(param.start_angle, param.end_angle),
   chan_angles_ |-> NoAngles(CaliChans)]

Joined(r, s) == [f \in DOMAIN r \cup DOMAIN s |-> IF f \in DOMAIN s THEN s[f] ELSE r[f]]

MechDecoder(lidar, P, param) ==
  LET base   == Joined(BaseDecoder(lidar, P, param), MechFields(P, param))
      loaded == param.config_from_file /\ FileOk(param.angle_file, CaliChans)
  IN  [base EXCEPT
        !.packet_duration_ = P.BLOCK_DURATION * P.BLOCKS_PER_PKT,
        !.split_strategy_  = StrategyOf(param),
        !.angles_ready_    = loaded,
        !.chan_angles_     = IF loaded THEN loadFromFile(param.angle_file, CaliChans) ELSE @,
        !.param.wait_for_difop = @ /\ ~param.config_from_file]

Rps(rpm) == IF rpm \div 60 = 0 THEN 10 ELSE rpm \div 60

FovBlindRange(start, end) ==
  LET range == IF start < end THEN end - start ELSE end + RS_ONE_ROUND - start
  IN  RS_ONE_ROUND - range

\* In steps of 100 ns, which a 32-bit integer can hold.
FovBlindTs(range, rps) == ((range * 2500) \div (9 * rps)) * 100

BlockAzDiff(P, rps) == (rps * P.BLOCK_DURATION * 36 + 500000) \div 1000000

decodeDifopCommon(d, pkt) ==
  LET rps  == Rps(pkt.rpm)
      load == ~d.param.config_from_file /\ ~d.angles_ready_ /\ CalibrationOk(pkt.vert, pkt.horiz)
  IN  [d EXCEPT
        !.rps_ = rps,
        !.blks_per_frame_ = BlksPerFrame(d.P, rps),
        !.block_az_diff_ = BlockAzDiff(d.P, rps),
        !.fov_blind_ts_diff_ = FovBlindTs(FovBlindRange(pkt.fov_start, pkt.fov_end), rps),
        !.chan_angles_ = IF load THEN loadFromDifop(pkt.vert, pkt.horiz) ELSE @,
        !.angles_ready_ = @ \/ load]

\* decodeDifopPkt of most mechanical lidars: two blocks per firing in dual mode.
DifopWithMode(d, pkt, mode) ==
  LET e == decodeDifopCommon(d, pkt)
  IN  [e EXCEPT !.echo_mode_ = mode,
                !.split_blks_per_frame_ =
                   IF mode = "dual" THEN (e.blks_per_frame_ * 2) % 65536 ELSE e.blks_per_frame_]

IterParam(d) == [n |-> d.P.BLOCKS_PER_PKT, duration |-> d.P.BLOCK_DURATION,
                 blind |-> d.fov_blind_ts_diff_]

newBlock(d, angle) ==
  IF d.split_strategy_.kind = "angle" THEN NewBlockByAngle(d.split_strategy_, angle)
  ELSE IF d.split_strategy_.source = "fixed" THEN NewBlockByNum(d.split_strategy_, d.split_blks_per_frame_)
  ELSE NewBlockByNum(d.split_strategy_, d.param.num_blks_split)

MechBlock(d, blk, ts) ==
  LET s     == newBlock(d, blk.az)
      e     == [d EXCEPT !.split_strategy_ = s]
      f     == IF s.split THEN Split(e, ts) ELSE e
      valid == IF InAzimuthSection(d.scan_section_, blk.az) THEN blk.valid ELSE 0
  IN  [f EXCEPT !.point_cloud_ = AddPoints(@, blk.round, blk.early,
                                            Kept(d, valid, d.P.CHANNELS_PER_BLOCK), 1),
                !.prev_point_ts_ = ts + d.P.CHAN_TSS]

\* internDecodeMsopPkt of the mechanical lidars: the blocks in order up to
\* the first whose id is wrong.
MechDecode(d, pkt, offsets, temp, us) ==
  LET pkt_ts == PacketTs(d, pkt, us)
      bad    == {i \in 1 .. d.P.BLOCKS_PER_PKT : ~pkt.blocks[i].id_ok}
      last   == IF bad = {} THEN d.P.BLOCKS_PER_PKT
                ELSE (CHOOSE i \in bad : \A j \in bad : i <= j) - 1
      after[i \in 0 .. last] ==
        IF i = 0 THEN d ELSE MechBlock(after[i - 1], pkt.blocks[i], pkt_ts + offsets[i])
  IN  [after[last] EXCEPT !.temperature_ = temp, !.prev_pkt_ts_ = pkt_ts]

-----------------------------------------------------------------------------
(* The mechanical lidars *)

RSBP_EchoMode(mode) == IF mode = 0 THEN "dual" ELSE "single"

RSBP_DecodeDifop(d, pkt) == DifopWithMode(d, pkt, RSBP_EchoMode(pkt.return_mode))

RSBP_Offsets(d, pkt) ==
  IF d.echo_mode_ = "single" THEN SingleReturnOffsets(IterParam(d), pkt.blocks)
                             ELSE DualReturnOffsets(IterParam(d), pkt.blocks)

\* The fourth model has a finer distance and a UTC time stamp.
RSBP_DecodeMsop(d, pkt) ==
  LET isBpV4 == pkt.lidar_type = 3 /\ pkt.lidar_model = 4
      e      == IF isBpV4 THEN [d EXCEPT !.P.DISTANCE_RES = 25] ELSE d
      us     == IF isBpV4 THEN parseTimeUTCWithUs(pkt.utc) ELSE parseTimeYMD(pkt.ymd)
  IN  MechDecode(e, pkt, RSBP_Offsets(d, pkt), parseTempInLe(pkt.temp), us)

RS16_EchoMode(mode) == IF mode = 0 THEN "dual" ELSE "single"

\* calcParam: with one return a block holds two firings.
RS16_CalcParam(d) ==
  [d EXCEPT !.P.CHAN_TSS = IF d.echo_mode_ = "single" THEN 97500 ELSE 42000]

RS16_NewDecoder(param) ==
  LET d == MechDecoder("RS16", RS16_ConstParam, param)
  IN  RS16_CalcParam([d EXCEPT !.packet_duration_ = @ * 2])

\* The adapter: no signs, a finer unit and no horizontal angles.
RS16_Adapter(pkt) ==
  [pkt EXCEPT !.vert  = [i \in DOMAIN pkt.pitch |->
                           [sign |-> IF i <= 8 THEN 1 ELSE 0,
                            value |-> (pkt.pitch[i] \div 100) % 65536]],
              !.horiz = [i \in DOMAIN pkt.pitch |-> [sign |-> 0, value |-> 0]]]

\* The blocks per frame and the channels' times follow a change of mode only.
Rs16Mode(d, mode) ==
  [d EXCEPT !.echo_mode_ = mode,
            !.split_blks_per_frame_ =
               IF mode = "dual" THEN d.blks_per_frame_ ELSE d.blks_per_frame_ \div 2]

RS16_DecodeDifop(d, pkt) ==
  LET e    == decodeDifopCommon(d, RS16_Adapter(pkt))
      mode == RS16_EchoMode(pkt.return_mode)
  IN  IF e.echo_mode_ = mode THEN e ELSE RS16_CalcParam(Rs16Mode(e, mode))

RS16_Offsets(d, pkt) ==
  IF d.echo_mode_ = "single" THEN Rs16SingleReturnOffsets(IterParam(d), pkt.blocks)
                             ELSE Rs16DualReturnOffsets(IterParam(d), pkt.blocks)

RS16_DecodeMsop(d, pkt) ==
  MechDecode(d, pkt, RS16_Offsets(d, pkt), parseTempInLe(pkt.temp), parseTimeYMD(pkt.ymd))

RS32_EchoMode(mode) == IF mode = 0 THEN "dual" ELSE "single"

\* The adapter rounds the calibration to 0.01 degree.
RS32_Adapter(pkt) ==
  LET Coarse(cali) == [i \in DOMAIN cali |->
                         [cali[i] EXCEPT !.value = ((cali[i].value + 5) \div 10)]]
  IN  [pkt EXCEPT !.vert = Coarse(pkt.vert), !.horiz = Coarse(pkt.horiz)]

RS32_DecodeDifop(d, pkt) ==
  DifopWithMode(d, RS32_Adapter(pkt), RS32_EchoMode(pkt.return_mode))

RS32_Offsets(d, pkt) ==
  IF d.echo_mode_ = "single" THEN SingleReturnOffsets(IterParam(d), pkt.blocks)
                             ELSE DualReturnOffsets(IterParam(d), pkt.blocks)

RS32_DecodeMsop(d, pkt) ==
  MechDecode(d, pkt, RS32_Offsets(d, pkt), parseTempInLe(pkt.temp), parseTimeYMD(pkt.ymd))

RS48_EchoMode(mode) == IF mode = 3 THEN "dual" ELSE "single"

RS48_DecodeDifop(d, pkt) == DifopWithMode(d, pkt, RS48_EchoMode(pkt.return_mode))

RS48_Offsets(d, pkt) ==
  IF d.echo_mode_ = "single" THEN SingleReturnOffsets(IterParam(d), pkt.blocks)
                             ELSE DualReturnOffsets(IterParam(d), pkt.blocks)

RS48_DecodeMsop(d, pkt) ==
  MechDecode(d, pkt, RS48_Offsets(d, pkt), parseTempInBe(pkt.temp), parseTimeUTCWithUs(pkt.utc))

RS80_EchoMode(mode) == IF mode = 3 THEN "dual" ELSE "single"

RS80_DecodeDifop(d, pkt) == DifopWithMode(d, pkt, RS80_EchoMode(pkt.return_mode))

RS80_Offsets(d, pkt) ==
  IF d.echo_mode_ = "single" THEN SingleReturnOffsets(IterParam(d), pkt.blocks)
                             ELSE DualReturnOffsets(IterParam(d), pkt.blocks)

RS80_DecodeMsop(d, pkt) ==
  MechDecode(d, pkt, RS80_Offsets(d, pkt), parseTempInBe(pkt.temp), parseTimeUTCWithUs(pkt.utc))

RS128_EchoMode(mode) == IF mode = 3 THEN "dual" ELSE "single"

RS128_DecodeDifop(d, pkt) == DifopWithMode(d, pkt, RS128_EchoMode(pkt.return_mode))

RS128_Offsets(d, pkt) ==
  IF d.echo_mode_ = "single" THEN SingleReturnOffsets(IterParam(d), pkt.blocks)
                             ELSE ABDualReturnOffsets(IterParam(d), pkt.blocks)

RS128_DecodeMsop(d, pkt) ==
  MechDecode(d, pkt, RS128_Offsets(d, pkt), parseTempInBe(pkt.temp), parseTimeUTCWithUs(pkt.utc))

RSP48_EchoMode(mode) == IF mode \in 0 .. 2 THEN "single" ELSE "dual"

RSP48_DecodeDifop(d, pkt) == DifopWithMode(d, pkt, RSP48_EchoMode(pkt.return_mode))

RSP48_Offsets(d, pkt) ==
  IF d.echo_mode_ = "single" THEN SingleReturnOffsets(IterParam(d), pkt.blocks)
                             ELSE DualReturnOffsets(IterParam(d), pkt.blocks)

RSP48_DecodeMsop(d, pkt) ==
  MechDecode(d, pkt, RSP48_Offsets(d, pkt), parseTempInBe(pkt.temp), parseTimeUTCWithUs(pkt.utc))

RSP80_EchoMode(mode) == IF mode \in 0 .. 2 THEN "single" ELSE "dual"

\* calcParam, called when a packet names another model than the last one.
RSP80_CalcParam(d, model) ==
  [d EXCEPT !.lidar_model_ = model, !.P.CHAN_TSS = IF model = 3 THEN 31963 ELSE 53771]

RSP80_DecodeDifop(d, pkt) == DifopWithMode(d, pkt, RSP80_EchoMode(pkt.return_mode))

RSP80_Offsets(d, pkt) ==
  IF d.echo_mode_ = "single" THEN SingleReturnOffsets(IterParam(d), pkt.blocks)
                             ELSE DualReturnOffsets(IterParam(d), pkt.blocks)

RSP80_DecodeMsop(d, pkt) ==
  LET e == IF d.lidar_model_ # pkt.lidar_model THEN RSP80_CalcParam(d, pkt.lidar_model) ELSE d
  IN  MechDecode(e, pkt, RSP80_Offsets(d, pkt), parseTempInBe(pkt.temp),
                 parseTimeUTCWithUs(pkt.utc))

RSP128_EchoMode(mode) == IF mode \in 0 .. 2 THEN "single" ELSE "dual"

RSP128_DecodeDifop(d, pkt) == DifopWithMode(d, pkt, RSP128_EchoMode(pkt.return_mode))

RSP128_Offsets(d, pkt) ==
  IF d.echo_mode_ = "single" THEN SingleReturnOffsets(IterParam(d), pkt.blocks)
                             ELSE ABDualReturnOffsets(IterParam(d), pkt.blocks)

RSP128_DecodeMsop(d, pkt) ==
  MechDecode(d, pkt, RSP128_Offsets(d, pkt), parseTempInBe(pkt.temp), parseTimeUTCWithUs(pkt.utc))

RSHELIOS_EchoMode(mode) == IF mode = 0 THEN "dual" ELSE "single"

RSHELIOS_DecodeDifop(d, pkt) == DifopWithMode(d, pkt, RSHELIOS_EchoMode(pkt.return_mode))

RSHELIOS_Offsets(d, pkt) ==
  IF d.echo_mode_ = "single" THEN SingleReturnOffsets(IterParam(d), pkt.blocks)
                             ELSE DualReturnOffsets(IterParam(d), pkt.blocks)

RSHELIOS_DecodeMsop(d, pkt) ==
  MechDecode(d, pkt, RSHELIOS_Offsets(d, pkt), parseTempInLe(pkt.temp), parseTimeUTCWithUs(pkt.utc))

RSHELIOS_16P_EchoMode(mode) == IF mode = 0 THEN "dual" ELSE "single"

RSHELIOS_16P_CalcParam(d) ==
  [d EXCEPT !.P.CHAN_TSS = IF d.echo_mode_ = "single" THEN 99460 ELSE 43910]

RSHELIOS_16P_NewDecoder(param) ==
  LET d == MechDecoder("RSHELIOS_16P", RSHELIOS_16P_ConstParam, param)
  IN  RSHELIOS_16P_CalcParam([d EXCEPT !.packet_duration_ = @ * 2])

RSHELIOS_16P_DecodeDifop(d, pkt) ==
  LET e    == decodeDifopCommon(d, pkt)
      mode == RSHELIOS_16P_EchoMode(pkt.return_mode)
  IN  IF e.echo_mode_ = mode THEN e ELSE RSHELIOS_16P_CalcParam(Rs16Mode(e, mode))

RSHELIOS_16P_Offsets(d, pkt) ==
  IF d.echo_mode_ = "single" THEN Rs16SingleReturnOffsets(IterParam(d), pkt.blocks)
                             ELSE Rs16DualReturnOffsets(IterParam(d), pkt.blocks)

RSHELIOS_16P_DecodeMsop(d, pkt) ==
  MechDecode(d, pkt, RSHELIOS_16P_Offsets(d, pkt), parseTempInLe(pkt.temp),
             parseTimeUTCWithUs(pkt.utc))

-----------------------------------------------------------------------------
(* The lidars with a micro mirror: frames are split by the packets'        *)
(* sequence numbers and no angles are awaited.                             *)

MemsDecoder(lidar, P, param) ==
  [BaseDecoder(lidar, P, param) EXCEPT
     !.packet_duration_ = 100000000 \div P.SINGLE_PKT_NUM, !.angles_ready_ = TRUE]

Mems_EchoMode(mode) == IF mode = 0 THEN "dual" ELSE "single"

\* pkt.offset is the time offset of the packet's last block, in us.
MemsDecode(d, pkt) ==
  LET pkt_ts == PacketTs(d, pkt, parseTimeUTCWithUs(pkt.utc))
      s      == NewPacketBySeq(d.split_strategy_, pkt.pkt_seq)
      e      == [d EXCEPT !.split_strategy_ = s, !.temperature_ = pkt.temp - 80]
      f      == IF s.split THEN Split(e, pkt_ts) ELSE e
      blks   == d.P.BLOCKS_PER_PKT
  IN  [f EXCEPT !.point_cloud_ = AddPoints(@, pkt.round, TRUE,
                                   blks * Kept(d, pkt.valid, d.P.CHANNELS_PER_BLOCK), blks),
                !.prev_point_ts_ = pkt_ts + pkt.offset * 1000,
                !.prev_pkt_ts_ = pkt_ts]

RSM1_DecodeDifop(d, pkt) == [d EXCEPT !.echo_mode_ = Mems_EchoMode(pkt.return_mode)]

RSM1_DecodeMsop(d, pkt) == MemsDecode(d, pkt)

RSM2_DecodeDifop(d, pkt) == [d EXCEPT !.echo_mode_ = Mems_EchoMode(pkt.return_mode)]

RSM2_DecodeMsop(d, pkt) == MemsDecode(d, pkt)

RSE1_DecodeDifop(d, pkt) == d

RSE1_DecodeMsop(d, pkt) == MemsDecode(d, pkt)

RSM1_Jumbo_DecodeDifop(d, pkt) == [d EXCEPT !.echo_mode_ = Mems_EchoMode(pkt.return_mode)]

\* internDecodeMsopPkt: a sub-packet with a wrong id is left out.
RSM1_Jumbo_SubDecode(d, pkt) == IF pkt.id_ok THEN MemsDecode(d, pkt) ELSE d

RSM1_Jumbo_DecodeMsop(d, pkt) ==
  LET after[i \in 0 .. PACKET_NUM] ==
        IF i = 0 THEN d ELSE RSM1_Jumbo_SubDecode(after[i - 1], pkt.pkts[i])
  IN  IF pkt.len = RSM1_Jumbo_Packets.msop THEN after[PACKET_NUM] ELSE d

-----------------------------------------------------------------------------
(* decoder_factory.hpp, and the virtual functions of the chosen class *)

MechLidars == {"RSBP", "RS16", "RS32", "RS48", "RS80", "RS128", "RSP48", "RSP80", "RSP128",
               "RSHELIOS", "RSHELIOS_16P"}
MemsLidars == {"RSM1", "RSM2", "RSE1"}
JumboLidars == {"RSM1_JUMBO"}
Lidars == MechLidars \cup MemsLidars \cup JumboLidars

createDecoder(lidar, param) ==
  CASE lidar = "RSBP"   -> MechDecoder(lidar, RSBP_ConstParam, param)
    [] lidar = "RS16"   -> RS16_NewDecoder(param)
    [] lidar = "RS32"   -> MechDecoder(lidar, RS32_ConstParam, param)
    [] lidar = "RS48"   -> MechDecoder(lidar, RS48_ConstParam, param)
    [] lidar = "RS80"   -> MechDecoder(lidar, RS80_ConstParam, param)
    [] lidar = "RS128"  -> MechDecoder(lidar, RS128_ConstParam, param)
    [] lidar = "RSP48"  -> MechDecoder(lidar, RSP48_ConstParam, param)
    [] lidar = "RSP80"  -> MechDecoder(lidar, RSP80_ConstParam, param)
    [] lidar = "RSP128" -> MechDecoder(lidar, RSP128_ConstParam, param)
    [] lidar = "RSHELIOS"     -> MechDecoder(lidar, RSHELIOS_ConstParam, param)
    [] lidar = "RSHELIOS_16P" -> RSHELIOS_16P_NewDecoder(param)
    [] lidar = "RSM1"         -> MemsDecoder(lidar, RSM1_ConstParam, param)
    [] lidar = "RSM2"         -> MemsDecoder(lidar, RSM2_ConstParam, param)
    [] lidar = "RSE1"         -> MemsDecoder(lidar, RSE1_ConstParam, param)
    [] lidar = "RSM1_JUMBO"   -> MemsDecoder(lidar, RSM1_Jumbo_ConstParam, param)

decodeDifopPkt(d, pkt) ==
  CASE d.lidar = "RSBP"   -> RSBP_DecodeDifop(d, pkt)
    [] d.lidar = "RS16"   -> RS16_DecodeDifop(d, pkt)
    [] d.lidar = "RS32"   -> RS32_DecodeDifop(d, pkt)
    [] d.lidar = "RS48"   -> RS48_DecodeDifop(d, pkt)
    [] d.lidar = "RS80"   -> RS80_DecodeDifop(d, pkt)
    [] d.lidar = "RS128"  -> RS128_DecodeDifop(d, pkt)
    [] d.lidar = "RSP48"  -> RSP48_DecodeDifop(d, pkt)
    [] d.lidar = "RSP80"  -> RSP80_DecodeDifop(d, pkt)
    [] d.lidar = "RSP128" -> RSP128_DecodeDifop(d, pkt)
    [] d.lidar = "RSHELIOS"     -> RSHELIOS_DecodeDifop(d, pkt)
    [] d.lidar = "RSHELIOS_16P" -> RSHELIOS_16P_DecodeDifop(d, pkt)
    [] d.lidar = "RSM1"         -> RSM1_DecodeDifop(d, pkt)
    [] d.lidar = "RSM2"         -> RSM2_DecodeDifop(d, pkt)
    [] d.lidar = "RSE1"         -> RSE1_DecodeDifop(d, pkt)
    [] d.lidar = "RSM1_JUMBO"   -> RSM1_Jumbo_DecodeDifop(d, pkt)

decodeMsopPkt(d, pkt) ==
  CASE d.lidar = "RSBP"   -> RSBP_DecodeMsop(d, pkt)
    [] d.lidar = "RS16"   -> RS16_DecodeMsop(d, pkt)
    [] d.lidar = "RS32"   -> RS32_DecodeMsop(d, pkt)
    [] d.lidar = "RS48"   -> RS48_DecodeMsop(d, pkt)
    [] d.lidar = "RS80"   -> RS80_DecodeMsop(d, pkt)
    [] d.lidar = "RS128"  -> RS128_DecodeMsop(d, pkt)
    [] d.lidar = "RSP48"  -> RSP48_DecodeMsop(d, pkt)
    [] d.lidar = "RSP80"  -> RSP80_DecodeMsop(d, pkt)
    [] d.lidar = "RSP128" -> RSP128_DecodeMsop(d, pkt)
    [] d.lidar = "RSHELIOS"     -> RSHELIOS_DecodeMsop(d, pkt)
    [] d.lidar = "RSHELIOS_16P" -> RSHELIOS_16P_DecodeMsop(d, pkt)
    [] d.lidar = "RSM1"         -> RSM1_DecodeMsop(d, pkt)
    [] d.lidar = "RSM2"         -> RSM2_DecodeMsop(d, pkt)
    [] d.lidar = "RSE1"         -> RSE1_DecodeMsop(d, pkt)
    [] d.lidar = "RSM1_JUMBO"   -> RSM1_Jumbo_DecodeMsop(d, pkt)

Accepted(d, pkt, len) == pkt.len = len /\ pkt.id_ok

processDifopPkt(d, pkt) ==
  IF Accepted(d, pkt, d.P.DIFOP_LEN) THEN decodeDifopPkt(d, pkt) ELSE d

\* A cloud that has grown too large is thrown away first, whatever the packet.
processMsopPkt(d, pkt) ==
  LET e == IF d.point_cloud_.size > CLOUD_POINT_MAX
           THEN [d EXCEPT !.point_cloud_ = EmptyCloud] ELSE d
  IN  IF (d.param.wait_for_difop => d.angles_ready_) /\ Accepted(d, pkt, d.P.MSOP_LEN)
      THEN decodeMsopPkt(e, pkt) ELSE e
=============================================================================
