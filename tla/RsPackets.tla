------------------------------ MODULE RsPackets ------------------------------
(***************************************************************************)
(* The packets of the RoboSense lidars: the size of every packed structure *)
(* that rs_driver lays over the bytes it received, and the constant        *)
(* parameters (getConstParam) its decoders test and index those bytes by.  *)
(* A structure is its size in bytes; the sums follow the fields in order.  *)
(***************************************************************************)
EXTENDS Integers

RSTimestampYMD == 6 + 2 * 2
RSTimestampUTC == 6 + 4
RSTemperature == 2
RSCalibrationAngle == 1 + 2

\* decoder.hpp
RSMsopHeaderV1 == 8 + 12 + RSTimestampYMD + 3 + 5 + RSTemperature + 2
RSMsopHeaderV2 == 4 + 2 + 2 + RSTemperature + RSTimestampUTC + 10 + 2 + 48
RSChannel == 2 + 1
RSEthNetV1 == 4 + 4 + 6 + 4 * 2
RSEthNetV2 == 4 + 4 + 6 + 4 * 2
RSFOV == 2 + 2
RSVersionV1 == 5 + 5
RSVersionV2 == 4 * 5 + 3
RSSN == 6
RSStatusV1 == 3 + 3 + 9 * 2
RSStatusV2 == 6 * 2 + 12
RSDiagnoV1 == 9 + 3 * 2 + 1 + 5 * 2 + 5 + 2 + 7
RSDiagnoV2 == 6 * 2 + 1 + 2 * 2 + 1 + 22
RSTimeInfo == 2 + RSTimestampUTC

-----------------------------------------------------------------------------
(* Mechanical lidars.  A decoder's constants:                              *)
(*   block_id_len       how many bytes of the block's id are compared      *)
(*   BLOCK_DURATION     ns between two firings                             *)
(*   CHAN_TSS           ns from a block's first channel to its last        *)

RSBP_Packets ==
  [msop  |-> RSMsopHeaderV1 + 12 * (2 + 2 + 32 * RSChannel) + 4 + 2,
   difop |-> 8 + 2 + RSEthNetV1 + RSFOV + 2 + 2 + RSVersionV1 + 242 + RSSN + 2 + 1 + 2
             + RSTimestampYMD + RSStatusV1 + 5 + RSDiagnoV1 + 86
             + 2 * 32 * RSCalibrationAngle + 586 + 2]

RSBP_ConstParam ==
  [MSOP_LEN |-> 1248, DIFOP_LEN |-> 1248, MSOP_ID_LEN |-> 8, block_id_len |-> 2,
   LASER_NUM |-> 32, BLOCKS_PER_PKT |-> 12, CHANNELS_PER_BLOCK |-> 32,
   DISTANCE_RES |-> 50, BLOCK_DURATION |-> 55520, CHAN_TSS |-> 44880]

RS16_Packets ==
  [msop  |-> RSMsopHeaderV1 + 12 * (2 + 2 + 32 * RSChannel) + 4 + 2,
   difop |-> 8 + 2 + RSEthNetV1 + RSFOV + 2 + 2 + RSVersionV1 + 242 + RSSN + 2 + 1 + 2
             + RSTimestampYMD + RSStatusV1 + 5 + RSDiagnoV1 + 86 + 697 + 48 + 33 + 2]

\* CHAN_TSS is calcParam's.
RS16_ConstParam ==
  [MSOP_LEN |-> 1248, DIFOP_LEN |-> 1248, MSOP_ID_LEN |-> 8, block_id_len |-> 2,
   LASER_NUM |-> 16, BLOCKS_PER_PKT |-> 12, CHANNELS_PER_BLOCK |-> 32,
   DISTANCE_RES |-> 50, BLOCK_DURATION |-> 55500, CHAN_TSS |-> 0]

RS32_Packets ==
  [msop  |-> RSMsopHeaderV1 + 12 * (2 + 2 + 32 * RSChannel) + 4 + 2,
   difop |-> 8 + 2 + RSEthNetV1 + RSFOV + 2 + 2 + RSVersionV1 + 242 + RSSN + 2 + 1 + 2
             + RSTimestampYMD + RSStatusV1 + 5 + RSDiagnoV1 + 86
             + 2 * 32 * RSCalibrationAngle + 586 + 2]

RS32_ConstParam ==
  [MSOP_LEN |-> 1248, DIFOP_LEN |-> 1248, MSOP_ID_LEN |-> 8, block_id_len |-> 2,
   LASER_NUM |-> 32, BLOCKS_PER_PKT |-> 12, CHANNELS_PER_BLOCK |-> 32,
   DISTANCE_RES |-> 50, BLOCK_DURATION |-> 55520, CHAN_TSS |-> 46080]

\* The DIFOP packet that RS80, RS128, RSP48, RSP80 and RSP128 each declare.
DifopV2 ==
  8 + 2 + RSEthNetV2 + RSFOV + 2 + 2 + RSVersionV2 + 229 + RSSN + 2 + 1 + RSTimeInfo
  + RSStatusV1 + 5 + RSDiagnoV1 + 86 + 2 * 128 * RSCalibrationAngle + 10 + 2

RSP48_Packets ==
  [msop  |-> RSMsopHeaderV2 + 8 * (1 + 1 + 2 + 48 * RSChannel) + 4, difop |-> DifopV2]

RSP48_ConstParam ==
  [MSOP_LEN |-> 1268, DIFOP_LEN |-> 1248, MSOP_ID_LEN |-> 4, block_id_len |-> 1,
   LASER_NUM |-> 48, BLOCKS_PER_PKT |-> 8, CHANNELS_PER_BLOCK |-> 48,
   DISTANCE_RES |-> 50, BLOCK_DURATION |-> 55560, CHAN_TSS |-> 40666]

\* RS48 reads RSP48's packets.
RS48_ConstParam ==
  [MSOP_LEN |-> 1268, DIFOP_LEN |-> 1248, MSOP_ID_LEN |-> 4, block_id_len |-> 1,
   LASER_NUM |-> 48, BLOCKS_PER_PKT |-> 8, CHANNELS_PER_BLOCK |-> 48,
   DISTANCE_RES |-> 50, BLOCK_DURATION |-> 55552, CHAN_TSS |-> 48540]

RS80_Packets ==
  [msop  |-> RSMsopHeaderV2 + 4 * (1 + 1 + 2 + 80 * RSChannel) + 192, difop |-> DifopV2]

RS80_ConstParam ==
  [MSOP_LEN |-> 1248, DIFOP_LEN |-> 1248, MSOP_ID_LEN |-> 4, block_id_len |-> 1,
   LASER_NUM |-> 80, BLOCKS_PER_PKT |-> 4, CHANNELS_PER_BLOCK |-> 80,
   DISTANCE_RES |-> 50, BLOCK_DURATION |-> 55552, CHAN_TSS |-> 48540]

RSP80_Packets ==
  [msop  |-> RSMsopHeaderV2 + 4 * (1 + 1 + 2 + 80 * RSChannel) + 192, difop |-> DifopV2]

RSP80_ConstParam ==
  [MSOP_LEN |-> 1248, DIFOP_LEN |-> 1248, MSOP_ID_LEN |-> 4, block_id_len |-> 1,
   LASER_NUM |-> 80, BLOCKS_PER_PKT |-> 4, CHANNELS_PER_BLOCK |-> 80,
   DISTANCE_RES |-> 50, BLOCK_DURATION |-> 55560, CHAN_TSS |-> 0]

RS128_Packets ==
  [msop  |-> RSMsopHeaderV2 + 3 * (1 + 1 + 2 + 128 * RSChannel) + 4, difop |-> DifopV2]

RS128_ConstParam ==
  [MSOP_LEN |-> 1248, DIFOP_LEN |-> 1248, MSOP_ID_LEN |-> 4, block_id_len |-> 1,
   LASER_NUM |-> 128, BLOCKS_PER_PKT |-> 3, CHANNELS_PER_BLOCK |-> 128,
   DISTANCE_RES |-> 50, BLOCK_DURATION |-> 55550, CHAN_TSS |-> 48540]

RSP128_Packets ==
  [msop  |-> RSMsopHeaderV2 + 3 * (1 + 1 + 2 + 128 * RSChannel) + 4, difop |-> DifopV2]

RSP128_ConstParam ==
  [MSOP_LEN |-> 1248, DIFOP_LEN |-> 1248, MSOP_ID_LEN |-> 4, block_id_len |-> 1,
   LASER_NUM |-> 128, BLOCKS_PER_PKT |-> 3, CHANNELS_PER_BLOCK |-> 128,
   DISTANCE_RES |-> 50, BLOCK_DURATION |-> 55560, CHAN_TSS |-> 53771]

RSHELIOS_Packets ==
  [msop  |-> (4 + 2 + 14 + RSTimestampUTC + 1 + 7 + RSTemperature + 2)
             + 12 * (2 + 2 + 32 * RSChannel) + 4 + 2,
   difop |-> 8 + 2 + RSEthNetV2 + RSFOV + 2 + 2 + RSVersionV2 + 229 + RSSN + 2 + 1 + RSTimeInfo
             + RSStatusV2 + 5 + RSDiagnoV2 + 86 + 2 * 32 * RSCalibrationAngle + 586 + 2]

RSHELIOS_ConstParam ==
  [MSOP_LEN |-> 1248, DIFOP_LEN |-> 1248, MSOP_ID_LEN |-> 4, block_id_len |-> 2,
   LASER_NUM |-> 32, BLOCKS_PER_PKT |-> 12, CHANNELS_PER_BLOCK |-> 32,
   DISTANCE_RES |-> 25, BLOCK_DURATION |-> 55560, CHAN_TSS |-> 45150]

\* RSHELIOS_16P reads RSHELIOS's packets; CHAN_TSS is calcParam's.
RSHELIOS_16P_ConstParam ==
  [MSOP_LEN |-> 1248, DIFOP_LEN |-> 1248, MSOP_ID_LEN |-> 4, block_id_len |-> 2,
   LASER_NUM |-> 16, BLOCKS_PER_PKT |-> 12, CHANNELS_PER_BLOCK |-> 32,
   DISTANCE_RES |-> 25, BLOCK_DURATION |-> 55560, CHAN_TSS |-> 0]

-----------------------------------------------------------------------------
(* Lidars with a micro mirror *)

RSM1_MsopHeader == 4 + 2 + 2 + 1 + 1 + RSTimestampUTC + 10 + 1 + 1

RSM1_Packets ==
  [msop  |-> RSM1_MsopHeader + 25 * (1 + 1 + 5 * (3 * 2 + 3)) + 3,
   difop |-> 8 + 1 + 1 + (4 + 4 + 6 + 2 + 2) + 4 * 2 + 2 * 5 + RSSN + 1 + RSTimeInfo
             + (3 + 3 + 2 + 2 + 10) + 40 + 20 * (1 + 2) + 71]

RSM1_ConstParam ==
  [MSOP_LEN |-> 1210, DIFOP_LEN |-> 256, MSOP_ID_LEN |-> 4, LASER_NUM |-> 5,
   BLOCKS_PER_PKT |-> 25, CHANNELS_PER_BLOCK |-> 5, SINGLE_PKT_NUM |-> 630]

RSM1_Jumbo_SubPacket == RSM1_MsopHeader + 25 * (1 + 1 + 5 * (3 * 2 + 1)) + 11 + 16

RSM1_Jumbo_Packets ==
  [msop |-> 63 * RSM1_Jumbo_SubPacket + 160, difop |-> RSM1_Packets.difop]

RSM1_Jumbo_ConstParam ==
  [MSOP_LEN |-> 62152, DIFOP_LEN |-> 256, MSOP_ID_LEN |-> 4, LASER_NUM |-> 5,
   BLOCKS_PER_PKT |-> 25, CHANNELS_PER_BLOCK |-> 5, SINGLE_PKT_NUM |-> 630]

RSM2_Packets ==
  [msop  |-> (4 + 2 + 2 + 1 + 1 + RSTimestampUTC + 10 + 1 + 1)
             + 25 * (1 + 1 + 5 * (4 * 2 + 2)) + 4 + 4 + 2,
   difop |-> RSM1_Packets.difop]

RSM2_ConstParam ==
  [MSOP_LEN |-> 1342, DIFOP_LEN |-> 256, MSOP_ID_LEN |-> 4, LASER_NUM |-> 5,
   BLOCKS_PER_PKT |-> 25, CHANNELS_PER_BLOCK |-> 5, SINGLE_PKT_NUM |-> 1260]

RSE1_Packets ==
  [msop  |-> (4 + 2 + 2 + 1 + 1 + RSTimestampUTC + 10 + 1 + 1) + 96 * (2 + (4 * 2 + 2)) + 16,
   difop |-> 256]

RSE1_ConstParam ==
  [MSOP_LEN |-> 1200, DIFOP_LEN |-> 256, MSOP_ID_LEN |-> 4, LASER_NUM |-> 1,
   BLOCKS_PER_PKT |-> 96, CHANNELS_PER_BLOCK |-> 1, SINGLE_PKT_NUM |-> 112]

-----------------------------------------------------------------------------

\* RS48 and RSHELIOS_16P include the packets of RSP48 and RSHELIOS.
PacketsOf(lidar) ==
  CASE lidar = "RSBP"   -> RSBP_Packets
    [] lidar = "RS16"   -> RS16_Packets
    [] lidar = "RS32"   -> RS32_Packets
    [] lidar \in {"RSP48", "RS48"} -> RSP48_Packets
    [] lidar = "RS80"   -> RS80_Packets
    [] lidar = "RSP80"  -> RSP80_Packets
    [] lidar = "RS128"  -> RS128_Packets
    [] lidar = "RSP128" -> RSP128_Packets
    [] lidar \in {"RSHELIOS", "RSHELIOS_16P"} -> RSHELIOS_Packets
    [] lidar = "RSM1"       -> RSM1_Packets
    [] lidar = "RSM1_JUMBO" -> RSM1_Jumbo_Packets
    [] lidar = "RSM2"       -> RSM2_Packets
    [] lidar = "RSE1"       -> RSE1_Packets
=============================================================================
