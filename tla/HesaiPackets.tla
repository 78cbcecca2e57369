---------------------------- MODULE HesaiPackets ----------------------------
(***************************************************************************)
(* The packets of the Hesai lidars: the size of every packed structure the *)
(* parsers lay over a datagram, the size a header says its packet has      *)
(* (GetPacketSize), and the count of lost packets a tail keeps.  A         *)
(* structure is its size in bytes, summed in the order of its fields; a    *)
(* header h is a record of the fields the sizes depend on.                 *)
(***************************************************************************)
EXTENDS Integers

HS_LIDAR_PRE_HEADER == 2 + 4 * 1
ReservedInfo1 == 2 + 1
ReservedInfo2 == 2 + 1
ReservedInfo3 == 2 + 1

If(flag, size) == IF flag THEN size ELSE 0

\* Pandar128
HS_LIDAR_BODY_AZIMUTH_ME_V4 == 2
HS_LIDAR_BODY_CHN_UNIT_NO_CONF_ME_V4 == 2 + 1
HS_LIDAR_BODY_CHN_UNIT_ME_V4 == 2 + 1 + 1
HS_LIDAR_BODY_CRC_ME_V4 == 4
HS_LIDAR_CYBER_SECURITY_ME_V4 == 32
HS_LIDAR_FUNC_SAFETY_ME_V4 == 1 + 1 + 1 + 2 + 8 + 4
HS_LIDAR_TAIL_ME_V4 == ReservedInfo1 + ReservedInfo2 + ReservedInfo3 + 2 + 1 + 1 + 2 + 6 + 4 + 1
HS_LIDAR_TAIL_SEQ_NUM_ME_V4 == 4
HS_LIDAR_TAIL_IMU_ME_V4 == 2 + 2 + 2 + 4 + 6 * 2
HS_LIDAR_TAIL_CRC_ME_V4 == 4
HS_LIDAR_HEADER_ME_V4 == 6
PacketSize_ME_V4(h) ==
  HS_LIDAR_PRE_HEADER + HS_LIDAR_HEADER_ME_V4
  + (HS_LIDAR_BODY_AZIMUTH_ME_V4
     + (IF h.conf THEN HS_LIDAR_BODY_CHN_UNIT_ME_V4 ELSE HS_LIDAR_BODY_CHN_UNIT_NO_CONF_ME_V4)
       * h.laser_num) * h.block_num
  + HS_LIDAR_BODY_CRC_ME_V4 + If(h.safety, HS_LIDAR_FUNC_SAFETY_ME_V4)
  + If(h.cyber, HS_LIDAR_CYBER_SECURITY_ME_V4) + HS_LIDAR_TAIL_ME_V4 + HS_LIDAR_TAIL_CRC_ME_V4
  + If(h.has_seq, HS_LIDAR_TAIL_SEQ_NUM_ME_V4) + If(h.imu, HS_LIDAR_TAIL_IMU_ME_V4)

\* ET25-E1X
HS_LIDAR_BODY_LASTER_UNIT_ET_V4 == 2 + 1 + 1
HS_LIDAR_BODY_SEQ2_ET_V4 == 2 + 2
HS_LIDAR_BODY_CRC_ET_V4 == 4
HS_LIDAR_TAIL_ET_V4 == ReservedInfo1 + ReservedInfo2 + ReservedInfo3 + 1 + 1 + 1 + 6 + 4 + 1
HS_LIDAR_TAIL_SEQ_NUM_ET_V4 == 4
HS_LIDAR_TAIL_CRC_ET_V4 == 4
HS_LIDAR_HEADER_ET_V4 == 7
PacketSize_ET_V4(h) ==
  HS_LIDAR_PRE_HEADER + HS_LIDAR_HEADER_ET_V4
  + (2 + (HS_LIDAR_BODY_LASTER_UNIT_ET_V4 * (h.laser_num \div h.seq_num) + 4) * h.seq_num) * h.block_num
  + HS_LIDAR_BODY_CRC_ET_V4 + HS_LIDAR_TAIL_ET_V4 + HS_LIDAR_TAIL_SEQ_NUM_ET_V4
  + HS_LIDAR_TAIL_CRC_ET_V4

\* ET25-E2X
HS_LIDAR_BODY_LASTER_UNIT_ET_V5 == 2 + 1
HS_LIDAR_BODY_SEQ3_ET_V5 == 2 + 2 + 1
HS_LIDAR_BODY_CRC_ET_V5 == 4
HS_LIDAR_TAIL_ET_V5 == ReservedInfo1 + ReservedInfo2 + ReservedInfo3 + 1 + 1 + 1 + 6 + 4 + 1
HS_LIDAR_TAIL_SEQ_NUM_ET_V5 == 4
HS_LIDAR_TAIL_CRC_ET_V5 == 4
HS_LIDAR_CYBER_SECURITY_ET_V5 == 32
HS_LIDAR_HEADER_ET_V5 == 7
PacketSize_ET_V5(h) ==
  HS_LIDAR_PRE_HEADER + HS_LIDAR_HEADER_ET_V5
  + (2 + (HS_LIDAR_BODY_LASTER_UNIT_ET_V5 * (h.laser_num \div h.seq_num) + 5) * h.seq_num) * h.block_num
  + HS_LIDAR_BODY_CRC_ET_V5 + HS_LIDAR_TAIL_ET_V5 + HS_LIDAR_TAIL_SEQ_NUM_ET_V5
  + HS_LIDAR_TAIL_CRC_ET_V5 + HS_LIDAR_CYBER_SECURITY_ET_V5

\* PandarQT
HS_LIDAR_BODY_AZIMUTH_QT_V1 == 2
HS_LIDAR_BODY_CHN_NNIT_QT_V1 == 2 + 1 + 1
HS_LIDAR_TAIL_QT_V1 == ReservedInfo1 + ReservedInfo2 + 1 + ReservedInfo3 + 2 + 4 + 1 + 1 + 6 + 4
HS_LIDAR_HEADER_QT_V1 == 6
PacketSize_QT_V1(h) ==
  HS_LIDAR_PRE_HEADER + HS_LIDAR_HEADER_QT_V1 + HS_LIDAR_TAIL_QT_V1
  + (HS_LIDAR_BODY_AZIMUTH_QT_V1 + HS_LIDAR_BODY_CHN_NNIT_QT_V1 * h.laser_num) * h.block_num
  - If(~h.has_seq, 4)

\* QT128
HS_LIDAR_BODY_AZIMUTH_QT_V2 == 2
HS_LIDAR_BODY_CHN_UNIT_QT_V2 == 2 + 1 + 1
HS_LIDAR_BODY_CHN_UNIT_NO_CONF_QT_V2 == 2 + 1
HS_LIDAR_BODY_CRC_QT_V2 == 4
HS_LIDAR_FUNCTION_SAFETY == 1 + 1 + 1 + 2 + 8 + 4
HS_LIDAR_TAIL_QT_V2 ==
  ReservedInfo1 + 2 + 1 + ReservedInfo3 + 2 + 1 + 1 + 2 + 6 + 4 + 1
HS_LIDAR_TAIL_SEQ_NUM_QT_V2 == 4
HS_LIDAR_TAIL_CRC_QT_V2 == 4
HS_LIDAR_CYBER_SECURITY_QT_V2 == 32
HS_LIDAR_HEADER_QT_V2 == 6
PacketSize_QT_V2(h) ==
  HS_LIDAR_PRE_HEADER + HS_LIDAR_HEADER_QT_V2
  + (HS_LIDAR_BODY_AZIMUTH_QT_V2
     + (IF h.conf THEN HS_LIDAR_BODY_CHN_UNIT_QT_V2 ELSE HS_LIDAR_BODY_CHN_UNIT_NO_CONF_QT_V2)
       * h.laser_num) * h.block_num
  + HS_LIDAR_BODY_CRC_QT_V2 + If(h.safety, HS_LIDAR_FUNCTION_SAFETY) + HS_LIDAR_TAIL_QT_V2
  + If(h.has_seq, HS_LIDAR_TAIL_SEQ_NUM_QT_V2) + HS_LIDAR_TAIL_CRC_QT_V2
  + If(h.cyber, HS_LIDAR_CYBER_SECURITY_QT_V2)

\* AT128
HS_LIDAR_BODY_AZIMUTH_ST_V3 == 2
HS_LIDAR_BODY_FINE_AZIMUTH_ST_V3 == 1
HS_LIDAR_BODY_CHN_NNIT_ST_V3 == 2 + 1 + 1
HS_LIDAR_BODY_CRC_ST_V3 == 4
HS_LIDAR_TAIL_ST_V3 == ReservedInfo1 + ReservedInfo2 + 1 + ReservedInfo3 + 8 + 2 + 4 + 1 + 1 + 6
HS_LIDAR_TAIL_SEQ_NUM_ST_V3 == 4
HS_LIDAR_TAIL_CRC_ST_V3 == 4
HS_LIDAR_CYBER_SECURITY_ST_V3 == 32
HS_LIDAR_HEADER_ST_V3 == 6
PacketSize_ST_V3(h) ==
  HS_LIDAR_PRE_HEADER + HS_LIDAR_HEADER_ST_V3
  + (HS_LIDAR_BODY_AZIMUTH_ST_V3 + HS_LIDAR_BODY_FINE_AZIMUTH_ST_V3
     + HS_LIDAR_BODY_CHN_NNIT_ST_V3 * h.laser_num) * h.block_num
  + HS_LIDAR_BODY_CRC_ST_V3 + HS_LIDAR_TAIL_ST_V3 + If(h.has_seq, HS_LIDAR_TAIL_SEQ_NUM_ST_V3)
  + HS_LIDAR_TAIL_CRC_ST_V3 + If(h.cyber, HS_LIDAR_CYBER_SECURITY_ST_V3)

\* PandarXT
HsLidarXTV1BodyAzimuth == 2
HsLidarXTV1BodyChannelData == 2 + 1 + 1
HsLidarXTV1Tail == ReservedInfo1 + ReservedInfo2 + ReservedInfo3 + 1 + 1 + 2 + 6 + 4 + 1 + 4
HsLidarXTV1Header == 6
PacketSize_XTV1(h) ==
  HS_LIDAR_PRE_HEADER + HsLidarXTV1Header + HsLidarXTV1Tail
  + (HsLidarXTV1BodyAzimuth + HsLidarXTV1BodyChannelData * h.laser_num) * h.block_num

\* PandarFT120
HS_LIDAR_BODY_CHN_UNIT_FT_V2 == 2 + 1 + 1 + 1
HS_LIDAR_TAIL_FT_V2 == ReservedInfo1 + ReservedInfo2 + 1 + 2 + 1 + 1 + 1 + 2 + 6 + 4 + 1 + 4
HS_LIDAR_HEADER_FT_V2 == 2 + 2 + 1 + 1 + 1 + 1 + 1 + 2 + 8

\* Pandar64 and Pandar40
HS_LIDAR_L64_Header == 2 + 6 * 1
HS_LIDAR_BODY_CHN_UNIT_L64 == 2 + 1
HS_LIDAR_BODY_AZIMUTH_L64 == 2
HS_LIDAR_TAIL_L64 == ReservedInfo1 + 2 + 1 + 2 + 2 + 4 + 1 + 1 + 6
HS_LIDAR_BODY_CHN_UNIT_L40 == 2 + 1
HS_LIDAR_BODY_AZIMUTH_L40 == 2 + 2
HS_LIDAR_TAIL_L40 == ReservedInfo1 + 2 + 1 + 2 + 2 + 4 + 1 + 1 + 6
BLOCKNUM == 10
LASERNUM == 40

-----------------------------------------------------------------------------
(* The count of lost packets *)

\* uint32_t: TLC's integers are narrower, so 2^30 stands for 2^32.
U32(n) == n % 2^30

\* c: start, last, loss, total_loss, total_start; late records that a number
\* was smaller than the one before.  A second has passed since the last
\* report iff tick.
CalPktLoss(c, seq, tick) ==
  IF c.start = 0
  THEN [start |-> seq, last |-> seq, loss |-> 0, total_loss |-> 0, total_start |-> seq, late |-> c.late]
  ELSE LET step == U32(seq - c.last)
           lost == IF step > 1 THEN step - 1 ELSE 0
       IN  [start |-> IF tick THEN seq ELSE c.start,
            last |-> seq,
            loss |-> IF tick THEN 0 ELSE U32(c.loss + lost),
            total_loss |-> U32(c.total_loss + lost),
            total_start |-> c.total_start,
            late |-> c.late \/ seq < c.last]
=============================================================================
