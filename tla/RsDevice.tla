------------------------------ MODULE RsDevice ------------------------------
(***************************************************************************)
(* A RoboSense lidar and the network in front of one decoder.  A           *)
(* mechanical lidar fires at fixed steps across its field of view, jumps   *)
(* over the blind rest of the round, and sends a packet per                *)
(* BLOCKS_PER_PKT blocks; a lidar with a micro mirror numbers the packets  *)
(* of a frame from 1.  The network loses, cuts and reorders packets within *)
(* the bounds named below, and repeats DIFOP packets at will.              *)
(***************************************************************************)
EXTENDS RsDecoder

CONSTANTS Lidars_,        \* the lidars tried
          Params,         \* the users' parameters tried
          Rpms,           \* the speeds tried
          Firings,        \* the numbers of firings in a round tried
          MaxPackets,     \* packets of a mechanical lidar
          MaxFaults,      \* of these, lost or cut, never two in a row
          FrameLen,       \* packets in the frame of a micro mirror
          JumboFrameLen,  \* jumbo packets in a frame
          MaxBurst        \* packets in the one burst of losses

\* A burst of losses is short against a frame of a micro mirror.
ASSUME RsDeviceAssumption ==
  /\ Lidars_ \subseteq Lidars
  /\ \A rpm \in Rpms : rpm \in Nat /\ rpm >= 60
  /\ Firings \subseteq Nat
  /\ \A param \in Params :
       /\ {"split_frame_mode", "num_blks_split", "split_angle", "wait_for_difop", "config_from_file", "dense_points"}
            \subseteq DOMAIN param
       /\ param.split_frame_mode \in {"angle", "fixed", "custom"}
       /\ param.num_blks_split \in Nat \ {0} /\ param.split_angle \in Nat
       /\ {param.wait_for_difop, param.config_from_file, param.dense_points} \subseteq BOOLEAN
       /\ param.start_angle \in Int /\ param.end_angle \in Int
  /\ {MaxPackets, MaxFaults, MaxBurst, FrameLen} \subseteq Nat /\ JumboFrameLen \in Nat \ {0}
  /\ MaxBurst < RANGE /\ FrameLen > MaxBurst + RANGE + 3 /\ PACKET_NUM > RANGE + 1

VARIABLES dec,      \* the decoder
          device,   \* [mode, rps, firings, split]: the lidar's settings and the user's cut
          sent,     \* packets the lidar has sent
          faults,   \* [count, last]: packets lost or cut; was the last one
          difops    \* DIFOP packets received

rsVars == <<dec, device, sent, faults, difops>>

-----------------------------------------------------------------------------
(* A mechanical lidar *)

FiringsPerRound == device.firings

\* RS16 and RSHELIOS_16P put two firings into a block in single return mode.
FiringsPerBlock ==
  IF dec.lidar \in {"RS16", "RSHELIOS_16P"} /\ device.mode = "single" THEN 2 ELSE 1

Step == 2 * device.rps * FiringsPerBlock
FirstAz == RS_ONE_ROUND - Step * (FiringsPerRound \div 2)
LastAz == (FirstAz + Step * (FiringsPerRound - 1)) % RS_ONE_ROUND

\* The firing of block b, its angle since the start and its time in ns.
Firing(b) == IF device.mode = "dual" THEN b \div 2 ELSE b
AngleOf(f) == FirstAz + (f \div FiringsPerRound) * RS_ONE_ROUND + (f % FiringsPerRound) * Step
TimeOf(f) == (f \div FiringsPerRound) * (1000000000 \div device.rps)
             + (f % FiringsPerRound) * dec.P.BLOCK_DURATION * FiringsPerBlock

MechBlockOf(b) ==
  LET angle == AngleOf(Firing(b))
  IN  [id_ok |-> TRUE, az |-> angle % RS_ONE_ROUND,
       round |-> (angle - device.split) \div RS_ONE_ROUND, early |-> device.split <= angle % RS_ONE_ROUND,
       valid |-> (dec.P.CHANNELS_PER_BLOCK + 1) \div 2]

MechMsop(p) ==
  LET n == dec.P.BLOCKS_PER_PKT
      t == TimeOf(Firing(p * n)) \div 1000
  IN  [len |-> dec.P.MSOP_LEN, id_ok |-> TRUE, host |-> TimeOf(Firing(p * n + n)),
       temp |-> <<0, 0>>, utc |-> createTimeUTCWithUs(t), ymd |-> createTimeYMD(t),
       lidar_type |-> 3, lidar_model |-> 4, blocks |-> [i \in 1 .. n |-> MechBlockOf(p * n + i - 1)]]

Cut(pkt, j) == [pkt EXCEPT !.blocks[j].id_ok = FALSE]

-----------------------------------------------------------------------------
(* A lidar with a micro mirror *)

MemsMsop(p) ==
  [len |-> dec.P.MSOP_LEN, id_ok |-> TRUE, host |-> p * 159000, temp |-> 80,
   utc |-> createTimeUTCWithUs(p * 159), pkt_seq |-> (p % FrameLen) + 1,
   round |-> p \div FrameLen, valid |-> (dec.P.CHANNELS_PER_BLOCK + 1) \div 2, offset |-> 150]

JumboSub(p) ==
  LET frame == JumboFrameLen * PACKET_NUM
  IN  [id_ok |-> TRUE, host |-> p * 159000, temp |-> 80, utc |-> createTimeUTCWithUs(p * 159),
       pkt_seq |-> (p % frame) + 1, round |-> p \div frame,
       valid |-> (dec.P.CHANNELS_PER_BLOCK + 1) \div 2, offset |-> 150]

JumboMsop(p) ==
  [len |-> RSM1_Jumbo_Packets.msop, id_ok |-> TRUE,
   pkts |-> [i \in 1 .. PACKET_NUM |-> JumboSub(p * PACKET_NUM + i - 1)]]

-----------------------------------------------------------------------------

Msop(p) == CASE dec.lidar \in MechLidars -> MechMsop(p)
             [] dec.lidar \in MemsLidars -> MemsMsop(p)
             [] OTHER -> JumboMsop(p)

\* The code of the return mode in a DIFOP packet differs between the lidars.
ReturnMode ==
  CASE dec.lidar \in {"RS48", "RS80", "RS128", "RSP48", "RSP80", "RSP128"} ->
         IF device.mode = "dual" THEN 3 ELSE 1
    [] OTHER -> IF device.mode = "dual" THEN 0 ELSE 1

Difop(calibrated) ==
  [len |-> dec.P.DIFOP_LEN, id_ok |-> TRUE, rpm |-> device.rps * 60, return_mode |-> ReturnMode,
   fov_start |-> FirstAz, fov_end |-> LastAz,
   vert  |-> [c \in 1 .. CaliChans |-> [sign |-> IF calibrated THEN c % 2 ELSE 255, value |-> 100 * c]],
   horiz |-> [c \in 1 .. CaliChans |-> [sign |-> 0, value |-> 10 * c]],
   pitch |-> [c \in 1 .. CaliChans |-> IF calibrated THEN 100000 * c ELSE 1500000]]

\* The firings fit into a round, and a lost packet does not skip all of them.
FieldOfView ==
  dec.lidar \in MechLidars =>
    dec.P.BLOCKS_PER_PKT + 1 < FiringsPerRound /\ Step * FiringsPerRound <= RS_ONE_ROUND

RsInit ==
  \E lidar \in Lidars_, param \in Params, mode \in {"single", "dual"}, rpm \in Rpms :
  \E firings \in (IF lidar \in MechLidars THEN Firings ELSE {0}) :
    /\ dec = createDecoder(lidar, param)
    /\ device = [mode |-> mode, rps |-> rpm \div 60, firings |-> firings, split |-> param.split_angle]
    /\ FieldOfView
    /\ sent \in (IF lidar \in MechLidars THEN {0} ELSE IF lidar \in MemsLidars THEN {0, 16} ELSE {0, 2})
    /\ faults = [count |-> 0, last |-> FALSE]
    /\ difops = 0

\* The bound of a behaviour: two frames and a half of a micro mirror.
Room(n) == sent + n <= (CASE dec.lidar \in MechLidars -> MaxPackets
                          [] dec.lidar \in MemsLidars -> 2 * FrameLen + FrameLen \div 2
                          [] OTHER -> 2 * JumboFrameLen + 1)

Receive ==
  /\ Room(1)
  /\ dec' = processMsopPkt(dec, Msop(sent))
  /\ sent' = sent + 1
  /\ faults' = [faults EXCEPT !.last = FALSE]
  /\ UNCHANGED <<device, difops>>

MayFail == faults.count < MaxFaults /\ ~faults.last

\* A packet whose j-th block has a wrong id is decoded up to that block.
ReceiveCut ==
  /\ Room(1) /\ MayFail /\ dec.lidar \in MechLidars
  /\ \E j \in {1, dec.P.BLOCKS_PER_PKT} : dec' = processMsopPkt(dec, Cut(Msop(sent), j))
  /\ sent' = sent + 1
  /\ faults' = [count |-> faults.count + 1, last |-> TRUE]
  /\ UNCHANGED <<device, difops>>

\* Packets that are lost, or have a wrong length or id: nothing is decoded,
\* but a cloud that is too large goes.
Lose ==
  /\ \E n \in 1 .. MaxBurst, arrives \in BOOLEAN :
       /\ Room(n)
       /\ dec.lidar \in MemsLidars \/ n = 1
       /\ IF dec.lidar \in MechLidars THEN MayFail ELSE faults.count = 0
       /\ dec' = IF arrives THEN processMsopPkt(dec, [Msop(sent) EXCEPT !.id_ok = FALSE]) ELSE dec
       /\ sent' = sent + n
  /\ faults' = [count |-> faults.count + 1, last |-> TRUE]
  /\ UNCHANGED <<device, difops>>

\* A packet overtakes the one before it in its frame.
Overtake ==
  /\ dec.lidar \in MemsLidars /\ Room(2) /\ sent \div FrameLen = (sent + 1) \div FrameLen
  /\ faults.count < MaxFaults
  /\ dec' = processMsopPkt(processMsopPkt(dec, Msop(sent + 1)), Msop(sent))
  /\ sent' = sent + 2
  /\ faults' = [count |-> faults.count + 1, last |-> FALSE]
  /\ UNCHANGED <<device, difops>>

ReceiveDifop ==
  /\ difops < 2
  /\ \E calibrated \in BOOLEAN : dec' = processDifopPkt(dec, Difop(calibrated))
  /\ difops' = difops + 1
  /\ UNCHANGED <<device, sent, faults>>

RsNext == Receive \/ ReceiveCut \/ Lose \/ Overtake \/ ReceiveDifop

RsSpec == RsInit /\ [][RsNext]_rsVars

-----------------------------------------------------------------------------

\* The structures laid over a packet have the length that the decoder tests,
\* and a packet has no more blocks than the iterator's arrays: TLC evaluates it
\* for every decoder before a run.
ASSUME PacketsFit ==
  \A l \in Lidars_, param \in Params :
    LET d == createDecoder(l, param) size == PacketsOf(l)
    IN  /\ d.P.MSOP_LEN = size.msop /\ d.P.DIFOP_LEN = size.difop
        /\ l \in MechLidars => d.P.BLOCKS_PER_PKT <= MAX_BLOCKS_PER_PKT

Clouds == {dec.out[i].cloud : i \in DOMAIN dec.out} \cup {dec.point_cloud_}

\* How many blocks the user lets into a cloud.
MaxBlks == CASE dec.param.split_frame_mode = "custom" -> dec.param.num_blks_split
             [] OTHER -> 2 * BlksPerFrame(dec.P, IF device.rps < 10 THEN device.rps ELSE 10)

\* The user cuts by a number of blocks.
CutByBlocks == dec.lidar \in MechLidars /\ dec.param.split_frame_mode # "angle"

\* A cloud holds the points of one round, from the cut angle to the cut angle
\* or from one rewind of the packet numbers to the next (no more than the
\* user's number of blocks in the modes that count them), whatever packet was
\* lost, cut or overtaken: split_strategy.hpp with newBlock and split of
\* decoder.hpp.  A round is joined to the one before it only if none of its
\* points between the cut and zero reached the cloud: a step from one decoded
\* block to the next that crosses the cut and then zero is not taken for a cut.
CloudIsOneRound ==
  \A cloud \in Clouds :
    IF CutByBlocks THEN cloud.blks <= MaxBlks
    ELSE \A r, s \in cloud.rounds : r < s => s \notin cloud.early

\* What the SDK's introduction says of the cut by the angle: a step across
\* zero is taken into account, so a cloud never holds points of two rounds
\* (rs_driver_intro_CN.md, 4.6.3.1; SplitStrategyByAngle::newBlock).
EveryCutIsSeen == \A cloud \in Clouds : CutByBlocks \/ Cardinality(cloud.rounds) <= 1

\* The lidar's time stamps can be compared once the return mode is known.
TimeTrusted ==
  /\ dec.param.use_lidar_clock
  /\ dec.lidar \in MechLidars => device.mode = "single" \/ dec.param.wait_for_difop

\* Clouds are handed over in the order of their rounds, each round once, with
\* consecutive sequence numbers and as many points as height and width say
\* (setPointCloudHeader in lidar_driver_impl.hpp, split in decoder.hpp).
RoundsInOrder ==
  \A i \in DOMAIN dec.out :
    /\ dec.out[i].seq = i - 1
    /\ dec.out[i].height * dec.out[i].width = dec.out[i].cloud.size
    /\ i > 1 => \A r \in dec.out[i - 1].cloud.rounds, s \in dec.out[i].cloud.rounds :
                  IF CutByBlocks THEN r <= s ELSE r < s

\* Their time stamps rise (cloudTs in decoder.hpp).
StampsRise ==
  \A i \in DOMAIN dec.out :
    i > 1 /\ TimeTrusted => dec.out[i - 1].timestamp < dec.out[i].timestamp

\* The clouds come in order, by their rounds and by their time stamps.
CloudsInOrder == RoundsInOrder /\ StampsRise
=============================================================================
