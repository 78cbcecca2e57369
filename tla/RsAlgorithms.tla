---------------------------- MODULE RsAlgorithms ----------------------------
(***************************************************************************)
(* The pure algorithms of rs_driver's decoders: where a stream of blocks   *)
(* or packets is cut into frames (split_strategy.hpp), when each block of  *)
(* a packet was fired (block_iterator.hpp), the calibration of the         *)
(* channels (chan_angles.hpp), the section a point must lie in             *)
(* (section.hpp) and the fields of a packet's header (basic_attr.hpp).     *)
(*                                                                         *)
(* Angles are integers of 0.01 degree, as in the code; times are integers  *)
(* of a nanosecond where the code has doubles of a second.                 *)
(***************************************************************************)
EXTENDS Integers, Sequences, FiniteSets

RS_ONE_ROUND == 36000

-----------------------------------------------------------------------------
(* split_strategy.hpp.  A strategy is a record; each New... returns the    *)
(* strategy after the call, with the answer in its field split.            *)

ByAngle(angle) == [kind |-> "angle", split |-> FALSE,
                   split_angle |-> angle, prev_angle |-> angle]

\* Mutant: the previous angle is not unrolled past zero.
NewBlockRolled(s, angle) ==
  [s EXCEPT !.split = s.prev_angle < s.split_angle /\ s.split_angle <= angle, !.prev_angle = angle]

NewBlockByAngle(s, angle) ==
  LET prev == IF angle < s.prev_angle THEN s.prev_angle - RS_ONE_ROUND
                                      ELSE s.prev_angle
  IN  [s EXCEPT !.split = prev < s.split_angle /\ s.split_angle <= angle,
                !.prev_angle = angle]

ByNum(source) == [kind |-> "num", split |-> FALSE, source |-> source, blks |-> 0]

\* max_blks is *max_blks_: the decoder's own number or the user's.
NewBlockByNum(s, max_blks) ==
  LET full == s.blks + 1 >= max_blks
  IN  [s EXCEPT !.split = full, !.blks = IF full THEN 0 ELSE s.blks + 1]

RANGE == 10

SafeSeqMin(prev) == IF prev > RANGE THEN prev - RANGE ELSE 0
SafeSeqMax(prev) == prev + RANGE

BySeq == [kind |-> "seq", split |-> FALSE, prev_seq |-> 0]

NewPacketBySeq(s, seq) ==
  LET rewind == seq < SafeSeqMin(s.prev_seq)
      next   == /\ seq >= s.prev_seq
                /\ seq <= SafeSeqMax(s.prev_seq) \/ s.prev_seq = 0
  IN  [s EXCEPT !.split = rewind,
                !.prev_seq = IF rewind \/ next THEN seq ELSE s.prev_seq]

-----------------------------------------------------------------------------
(* block_iterator.hpp: the offset of every block from the packet's time    *)
(* stamp.  p has the packet's number of blocks, the time between two       *)
(* firings and the time across the blind section.  The differences of      *)
(* azimuth, which only place a point between two blocks, are left out but  *)
(* for the test that finds the blind section.                              *)

MAX_BLOCKS_PER_PKT == 12

AzDiff(blocks, i, j) == (blocks[j].az - blocks[i].az) % RS_ONE_ROUND

Gap(p, blocks, i, j, firing) == IF AzDiff(blocks, i, j) > 100 THEN p.blind ELSE firing

\* A block after the other; a firing lasts `firing' ticks.
OffsetsInTurn(p, blocks, firing) ==
  LET tss[i \in 1 .. p.n] ==
        IF i = 1 THEN 0 ELSE tss[i - 1] + Gap(p, blocks, i - 1, i, firing)
  IN  tss

SingleReturnOffsets(p, blocks) == OffsetsInTurn(p, blocks, p.duration)

Rs16SingleReturnOffsets(p, blocks) == OffsetsInTurn(p, blocks, 2 * p.duration)

Rs16DualReturnOffsets(p, blocks) == OffsetsInTurn(p, blocks, p.duration)

\* The two returns of a firing are neighbours.
DualReturnOffsets(p, blocks) ==
  LET tss[i \in 1 .. p.n] ==
        IF i <= 2 THEN 0
        ELSE IF i % 2 = 0 THEN tss[i - 1]
        ELSE tss[i - 2] + Gap(p, blocks, i - 2, i, p.duration)
  IN  tss

\* Three blocks hold one firing and a half: AAB or ABB.
ABDualReturnOffsets(p, blocks) ==
  LET gap == Gap(p, blocks, 1, 3, p.duration)
  IN  IF blocks[1].az = blocks[2].az THEN <<0, 0, gap>> ELSE <<0, gap, gap>>

-----------------------------------------------------------------------------
(* chan_angles.hpp.  A calibration is a sign and a value.                  *)

angleCheck(v) == -9000 <= v /\ v < 9000

CalibratedAngle(cali) == IF cali.sign = 0 THEN cali.value ELSE -cali.value

CalibrationOk(vert, horiz) ==
  /\ Len(vert) > 0
  /\ \A i \in 1 .. Len(vert) : /\ vert[i].sign # 255
                               /\ angleCheck(CalibratedAngle(vert[i]))
                               /\ angleCheck(CalibratedAngle(horiz[i]))

\* The rank of a channel by its vertical angle.
genUserChan(vert_angles) ==
  [i \in DOMAIN vert_angles |->
     Cardinality({j \in DOMAIN vert_angles : vert_angles[j] < vert_angles[i]})]

NoAngles(n) == [vert_angles |-> [i \in 1 .. n |-> 0], horiz_angles |-> [i \in 1 .. n |-> 0],
                user_chans |-> [i \in 1 .. n |-> 0]]

LoadAngles(vert, horiz) ==
  [vert_angles |-> vert, horiz_angles |-> horiz, user_chans |-> genUserChan(vert)]

loadFromDifop(vert, horiz) ==
  LoadAngles([i \in 1 .. Len(vert) |-> CalibratedAngle(vert[i])],
             [i \in 1 .. Len(vert) |-> CalibratedAngle(horiz[i])])

\* A line of the file holds the vertical and the horizontal angle; a file
\* with fewer lines than channels is refused.
FileOk(lines, chan_num) == Len(lines) >= chan_num

loadFromFile(lines, chan_num) ==
  LoadAngles([i \in 1 .. chan_num |-> lines[i].vert], [i \in 1 .. chan_num |-> lines[i].horiz])

toUserChan(angles, chan) == angles.user_chans[chan]

-----------------------------------------------------------------------------
(* section.hpp *)

AzimuthSection(start, end) ==
  [full_round |-> start = 0 /\ end = RS_ONE_ROUND,
   start |-> start % RS_ONE_ROUND, end |-> end % RS_ONE_ROUND]

InAzimuthSection(s, angle) ==
  \/ s.full_round
  \/ s.start > s.end /\ (angle >= s.start \/ angle < s.end)
  \/ s.start <= s.end /\ angle >= s.start /\ angle < s.end

-----------------------------------------------------------------------------
(* basic_attr.hpp.  mktime and localtime, which map a calendar date to a   *)
(* second and back, are kept as that second.                               *)

parseTimeUTCWithUs(ts) == ts.sec * 1000000 + ts.us

createTimeUTCWithUs(us) == [sec |-> us \div 1000000, us |-> us % 1000000]

parseTimeYMD(ts) == ts.sec * 1000000 + ts.ms * 1000 + ts.us

createTimeYMD(usec) ==
  LET tot_ms == (usec - (usec % 1000)) \div 1000
  IN  [sec |-> tot_ms \div 1000, ms |-> tot_ms % 1000, us |-> usec % 1000]

Signed(byte, t) == IF byte >= 128 THEN -t ELSE t

\* | lsb 5 | padding 3 | neg 1 | msb 7 |
parseTempInLe(tt) == Signed(tt[2], (tt[2] % 128) * 32 + tt[1] \div 8)

\* | neg 1 | msb 7 | lsb 4 | padding 4 |
parseTempInBe(tt) == Signed(tt[1], (tt[1] % 128) * 16 + tt[2] \div 16)
=============================================================================
