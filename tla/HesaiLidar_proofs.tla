------------------------- MODULE HesaiLidar_proofs -------------------------
(***************************************************************************)
(* Proofs about the AT128's threads: the frame that Run publishes is the   *)
(* packets it handed to the parser, and a snapshot is of one given frame.  *)
(*                                                                         *)
(* The parser works through the packets of handed in order: Done of them   *)
(* are in frame_, one is in its hands, the rest in the ring.  HInv says so *)
(* while rough is false, and that Run, once it has seen the number of the  *)
(* last packet, finds all of them Done.  Two states escape that number and *)
(* are why the property asks for a frame with points: the first frame,     *)
(* whose packet_num is 0 before anything was parsed, and an empty one.     *)
(***************************************************************************)
EXTENDS At128Converter, FiniteSetTheorems, TLAPS

Count == Nat \cup {-1}

Datagram == [kind : {"data", "bad", "fault", "timeout"}, n : Nat]
Decodeds == [scan_complete : BOOLEAN, valid : BOOLEAN, n : Nat, packet_index : Nat]

\* A datagram of measurements has a number.
GoodDatagram(pkt) == pkt \in Datagram /\ (pkt.kind = "data" => pkt.n # 0)

\* A decoded packet has points iff it has a number.
GoodPacket(p) == p \in Decodeds /\ (p.valid <=> p.n # 0)

HTypes ==
  /\ mainPc \in {"idle", "running", "joinRun", "joinReceive", "joinParser", "done", "lost"}
  /\ runPc \in {"none", "new", "loop", "wait", "publish", "store", "reset", "exited"}
  /\ parserPc \in {"none", "pop", "points", "numbers", "exited"}
  /\ sent \in Nat /\ last \in Nat /\ use_angle_ \in BOOLEAN
  /\ packet_index \in Nat /\ rough \in BOOLEAN
  /\ handed \in Seq(Nat)
  /\ GoodDatagram(udp_packet)
  /\ origin_packets_buffer_ \in Seq(Datagram)
  /\ \A i \in DOMAIN origin_packets_buffer_ : GoodDatagram(origin_packets_buffer_[i])
  /\ GoodPacket(decoded_packet) /\ GoodPacket(parserPacket)
  /\ decoded_packets_buffer_ \in Seq(Decodeds)
  /\ \A i \in DOMAIN decoded_packets_buffer_ : GoodPacket(decoded_packets_buffer_[i])
  /\ frame_ \in [points : [0 .. kMaxPacketNumPerFrame - 1 -> Nat], packets : Nat, packet_num : Count]

Parses == parserPc \in {"points", "numbers"}
InHands == IF Parses THEN 1 ELSE 0
Done == Len(handed) - Len(decoded_packets_buffer_) - InHands

\* Run's own variables: the index it counts with, and main's place.
RunInv ==
  /\ packet_index = Len(handed)
  /\ runPc \in {"none", "new"} => handed = <<>>
  /\ runPc = "none" <=> mainPc = "idle"
  /\ mainPc \in {"joinReceive", "joinParser", "done", "lost"} => runPc = "exited"
  /\ runPc # "reset" => Len(handed) <= kMaxPacketNumPerFrame
  /\ runPc = "reset" => Len(handed) <= kMaxPacketNumPerFrame + 1
  /\ runPc = "store" /\ decoded_packet.scan_complete => handed = <<>>
  /\ handed # <<>> => decoded_packet.packet_index = Len(handed) - 1

\* The packets of a frame are of one field as long as jumps of the azimuth split.
FieldInv ==
  use_angle_ =>
    /\ \A i, j \in DOMAIN handed :
         handed[i] # 0 /\ handed[j] # 0 => FieldOf(handed[i]) = FieldOf(handed[j])
    /\ runPc \notin {"wait", "publish"} =>
         \A i \in DOMAIN handed : handed[i] # 0 => last # 0 /\ FieldOf(handed[i]) = FieldOf(last)
    /\ runPc \in {"wait", "publish", "store"} /\ decoded_packet.n # 0 => decoded_packet.n = last

\* The packets in the ring and in the parser's hands are the last of handed, in order.
QueueInv ==
  /\ Done \in Nat
  /\ \A j \in DOMAIN decoded_packets_buffer_ :
       /\ decoded_packets_buffer_[j].packet_index = Done + InHands + j - 1
       /\ decoded_packets_buffer_[j].n = handed[Done + InHands + j]
  /\ Parses => parserPacket.packet_index = Done /\ parserPacket.n = handed[Done + 1]

\* What frame_ holds: the points of the packets that are Done, and how many they are.
FrameInv ==
  /\ \A i \in 1 .. Done :
       handed[i] # 0 /\ i <= kMaxPacketNumPerFrame => frame_.points[i - 1] = handed[i]
  /\ parserPc = "numbers" /\ handed[Done + 1] # 0 /\ Done < kMaxPacketNumPerFrame =>
       frame_.points[Done] = handed[Done + 1]
  /\ (\A i \in 1 .. Done : handed[i] # 0) => frame_.packets = Done
  /\ frame_.packets <= Done
  /\ frame_.packet_num = Done - 1 \/ (Done = 0 /\ frame_.packet_num = 0)

\* Run has waited for the parser, but for a frame that is the first packet alone.
WaitInv == runPc = "publish" => Done = Len(handed) \/ Len(handed) <= 1

HInv == HTypes /\ RunInv /\ FieldInv /\ (~rough => QueueInv /\ FrameInv /\ WaitInv)

\* What the array under the converter's frame holds, while clean.
ArrayInv ==
  \A i \in 0 .. _frame.packets - 1 :
    i < kMaxPacketNumPerFrame /\ frame_.points[i] \in _frame.given \cup ToSet(handed)

CTypes ==
  /\ _frame \in [packets : Nat, given : SUBSET Int, clean : BOOLEAN]
  /\ snapPc \in {"idle", "reading"} /\ snapshot \in Seq(Int)

CInv == /\ CTypes
        /\ _frame.clean => ~rough
        /\ _frame.clean /\ mainPc # "done" => ArrayInv
        /\ TornOnceAtMost

-----------------------------------------------------------------------------
(* The parts that a step leaves alone *)

LEMMA SameRun ==
  ASSUME RunInv, UNCHANGED <<packet_index, handed, runPc, mainPc, last, decoded_packet>>
  PROVE  RunInv'
BY DEF RunInv

LEMMA SameField ==
  ASSUME FieldInv, UNCHANGED <<use_angle_, handed, runPc, last, decoded_packet>>
  PROVE  FieldInv'
BY DEF FieldInv, FieldOf

LEMMA SameQueue ==
  ASSUME QueueInv, UNCHANGED <<handed, decoded_packets_buffer_, parserPc, parserPacket>>
  PROVE  QueueInv'
BY DEF QueueInv, Done, InHands, Parses

LEMMA SameFrame ==
  ASSUME FrameInv, UNCHANGED <<handed, decoded_packets_buffer_, parserPc, frame_>>
  PROVE  FrameInv'
BY DEF FrameInv, Done, InHands, Parses

LEMMA SameWait ==
  ASSUME WaitInv, UNCHANGED <<runPc, handed, decoded_packets_buffer_, parserPc>>
  PROVE  WaitInv'
BY DEF WaitInv, Done, InHands, Parses

LEMMA SameParser ==
  ASSUME ~rough => QueueInv /\ FrameInv /\ WaitInv,
         UNCHANGED <<rough, runPc, handed, decoded_packets_buffer_, parserPc, parserPacket, frame_>>
  PROVE  (~rough => QueueInv /\ FrameInv /\ WaitInv)'
BY SameQueue, SameFrame, SameWait

-----------------------------------------------------------------------------
(* The initial states *)

LEMMA LidarStarts == LidarInit => HInv
<1> SUFFICES ASSUME LidarInit PROVE HInv
  OBVIOUS
<1> USE HesaiLidarConstants
<1>1. parserPc \in {"none", "pop"}
  BY DEF LidarInit, SetThreadNum
<1>2. HTypes
  <2>1. frame_ \in [points : [0 .. kMaxPacketNumPerFrame - 1 -> Nat], packets : Nat, packet_num : Count]
    BY DEF LidarInit, NewLidarFrame, Count
  <2>2. GoodDatagram(NoPacket) /\ GoodPacket(Zeros)
    BY DEF GoodDatagram, GoodPacket, Datagram, Decodeds, Zeros, NoPacket
  <2>3. sent \in Nat
    BY DEF LidarInit
  <2>4. origin_packets_buffer_ = <<>> /\ decoded_packets_buffer_ = <<>> /\ handed = <<>>
    BY DEF LidarInit
  <2>5. /\ origin_packets_buffer_ \in Seq(Datagram) /\ decoded_packets_buffer_ \in Seq(Decodeds)
        /\ handed \in Seq(Nat)
        /\ \A i \in DOMAIN origin_packets_buffer_ : GoodDatagram(origin_packets_buffer_[i])
        /\ \A i \in DOMAIN decoded_packets_buffer_ : GoodPacket(decoded_packets_buffer_[i])
    BY <2>4
  <2> QED
    BY <1>1, <2>1, <2>2, <2>3, <2>5 DEF LidarInit, HTypes
<1>3. RunInv
  BY DEF LidarInit, RunInv
<1>4. FieldInv
  BY DEF LidarInit, FieldInv
<1>5. handed = <<>> /\ decoded_packets_buffer_ = <<>> /\ runPc = "none"
  BY DEF LidarInit
<1>6. ~Parses /\ InHands = 0 /\ Done = 0
  <2>1. ~Parses
    BY <1>1 DEF Parses
  <2>2. Len(handed) = 0 /\ Len(decoded_packets_buffer_) = 0
    BY <1>5
  <2>3. InHands = 0
    BY <2>1 DEF InHands
  <2> QED
    BY <2>1, <2>2, <2>3 DEF Done
<1>7. frame_.packets = 0 /\ frame_.packet_num = 0
  BY DEF LidarInit, NewLidarFrame
<1>8. QueueInv /\ FrameInv /\ WaitInv
  BY <1>1, <1>5, <1>6, <1>7 DEF QueueInv, FrameInv, WaitInv
<1> QED
  BY <1>2, <1>3, <1>4, <1>8 DEF HInv

-----------------------------------------------------------------------------
(* The receiver *)

LEMMA ReceiverKeeps ==
  ASSUME HInv, Receiving \/ DatagramLost
  PROVE  HInv'
<1> USE DEF HInv
<1>1. UNCHANGED <<mainVars_, decoded_packets_buffer_, decoderVars, runVars, parserVars, frame_, rough>>
  BY DEF Receiving, ReceiveStops, ReceiveSome, ReceiveNone, ReceiveQueue, DatagramLost
<1> USE DEF mainVars_, decoderVars, runVars, parserVars
<1>2. sent' \in Nat
  BY DEF Receiving, ReceiveStops, ReceiveSome, ReceiveNone, ReceiveQueue, DatagramLost, HTypes
<1>3. GoodDatagram(udp_packet')
  BY DEF Receiving, ReceiveStops, ReceiveSome, ReceiveNone, ReceiveQueue, DatagramLost, HTypes,
     GoodDatagram, Datagram, NoPacket
<1>4. /\ origin_packets_buffer_' \in Seq(Datagram)
      /\ \A i \in DOMAIN origin_packets_buffer_' : GoodDatagram(origin_packets_buffer_'[i])
  <2>1. CASE UNCHANGED origin_packets_buffer_
    BY <2>1 DEF HTypes, GoodDatagram, Datagram
  <2>2. CASE origin_packets_buffer_' = Append(origin_packets_buffer_, udp_packet)
    BY <2>2 DEF HTypes, GoodDatagram
  <2> QED
    BY <2>1, <2>2 DEF Receiving, ReceiveStops, ReceiveSome, ReceiveNone, ReceiveQueue, DatagramLost
<1>5. HTypes'
  BY <1>1, <1>2, <1>3, <1>4 DEF HTypes, GoodPacket
<1> QED
  BY <1>1, <1>5, SameRun, SameField, SameParser

-----------------------------------------------------------------------------
(* Run *)

\* What decoding a datagram gives: a packet with points iff it has a number, and then it is
\* the last one, of the same field as the one before unless the frame is complete.
LEMMA DecodedIs ==
  ASSUME HTypes, NEW pkt, GoodDatagram(pkt),
         Decoded(pkt, decoded_packet', use_angle_', last')
  PROVE  /\ GoodPacket(decoded_packet')
         /\ decoded_packet'.packet_index = decoded_packet.packet_index
         /\ use_angle_' \in BOOLEAN /\ (use_angle_' => use_angle_)
         /\ last' \in Nat
         /\ decoded_packet'.n # 0 => decoded_packet'.n = last'
         /\ use_angle_' /\ ~decoded_packet'.scan_complete /\ last # 0 =>
              last' # 0 /\ FieldOf(last') = FieldOf(last)
<1> USE DEF HTypes, GoodDatagram, GoodPacket, Datagram, Decodeds
<1>1. CASE pkt.kind = "data"
  <2>1. /\ decoded_packet' = [scan_complete |-> use_angle_ /\ last # 0 /\ Jumps(last, pkt.n),
                              valid |-> TRUE, n |-> pkt.n, packet_index |-> decoded_packet.packet_index]
        /\ use_angle_' = use_angle_ /\ last' = pkt.n
    BY <1>1 DEF Decoded
  <2>2. (use_angle_ /\ last # 0 /\ Jumps(last, pkt.n)) \in BOOLEAN
    BY DEF Jumps
  <2>3. use_angle_ /\ ~decoded_packet'.scan_complete /\ last # 0 => FieldOf(pkt.n) = FieldOf(last)
    BY <2>1 DEF Jumps
  <2> QED
    BY <1>1, <2>1, <2>2, <2>3
<1>2. CASE pkt.kind # "data"
  <2>1. last' = last
    BY <1>2 DEF Decoded
  <2>2. CASE /\ decoded_packet' = [decoded_packet EXCEPT !.scan_complete = FALSE, !.valid = FALSE, !.n = 0]
             /\ use_angle_' = use_angle_
    BY <2>1, <2>2
  <2>3. CASE /\ decoded_packet' = [decoded_packet EXCEPT !.scan_complete = TRUE, !.valid = FALSE, !.n = 0]
             /\ use_angle_' = FALSE
    BY <2>1, <2>3
  <2>4. CASE /\ decoded_packet' = [decoded_packet EXCEPT !.scan_complete = FALSE, !.valid = TRUE, !.n = last]
             /\ use_angle_' = use_angle_ /\ last # 0
    BY <2>1, <2>4
  <2> QED
    BY <1>2, <2>2, <2>3, <2>4 DEF Decoded
<1> QED
  BY <1>1, <1>2

LEMMA RunBeginsKeeps == ASSUME HInv, RunBegins PROVE HInv'
<1> USE DEF HInv
<1>1. /\ UNCHANGED <<mainPc, sent, udp_packet, origin_packets_buffer_, decoded_packets_buffer_,
                     use_angle_, last, handed, parserPc, parserPacket, frame_, rough>>
      /\ runPc = "new" /\ runPc' = "loop" /\ decoded_packet' = Zeros /\ packet_index' = 0
  BY DEF RunBegins, receiveVars, decoderVars, parserVars
<1>2. HTypes'
  BY <1>1 DEF HTypes, GoodPacket, GoodDatagram, Decodeds, Zeros
<1>3. handed = <<>> /\ Len(handed) = 0
  BY <1>1 DEF RunInv
<1>4. RunInv'
  BY <1>1, <1>3, HesaiLidarConstants DEF RunInv
<1>5. FieldInv'
  BY <1>1, <1>3 DEF FieldInv
<1>6. WaitInv'
  BY <1>1 DEF WaitInv
<1> QED
  BY <1>1, <1>2, <1>4, <1>5, <1>6, SameQueue, SameFrame

LEMMA RunStopsKeeps == ASSUME HInv, RunStops PROVE HInv'
<1> USE DEF HInv
<1>1. /\ UNCHANGED <<mainPc, sent, udp_packet, origin_packets_buffer_, decoded_packets_buffer_,
                     use_angle_, last, decoded_packet, packet_index, handed, parserPc,
                     parserPacket, frame_, rough>>
      /\ runPc = "loop" /\ runPc' = "exited"
  BY DEF RunStops, mainVars_, receiveVars, decoderVars, parserVars
<1>2. HTypes'
  BY <1>1 DEF HTypes, GoodPacket, GoodDatagram
<1>3. RunInv'
  BY <1>1 DEF RunInv
<1>4. FieldInv'
  BY <1>1 DEF FieldInv, FieldOf
<1>5. WaitInv'
  BY <1>1 DEF WaitInv
<1> QED
  BY <1>1, <1>2, <1>3, <1>4, <1>5, SameQueue, SameFrame

LEMMA RunTakesKeeps == ASSUME HInv, RunTakes PROVE HInv'
<1> USE DEF HInv
<1>1. /\ UNCHANGED <<mainPc, sent, udp_packet, decoded_packets_buffer_, packet_index, handed,
                     parserPc, parserPacket, frame_, rough>>
      /\ runPc = "loop" /\ origin_packets_buffer_ # <<>>
      /\ origin_packets_buffer_' = Tail(origin_packets_buffer_)
  BY DEF RunTakes, mainVars_, receiveVars, parserVars
<1>2. /\ origin_packets_buffer_' \in Seq(Datagram)
      /\ \A i \in DOMAIN origin_packets_buffer_' : GoodDatagram(origin_packets_buffer_'[i])
      /\ GoodDatagram(Head(origin_packets_buffer_))
  BY <1>1 DEF HTypes, GoodDatagram
<1>4. CASE UNCHANGED <<runPc, decoded_packet, use_angle_, last>>
  <2>1. HTypes'
    BY <1>1, <1>2, <1>4 DEF HTypes, GoodPacket, GoodDatagram
  <2> QED
    BY <1>1, <1>4, <2>1, SameRun, SameField, SameParser
<1>5. CASE /\ Decoded(Head(origin_packets_buffer_), decoded_packet', use_angle_', last')
           /\ runPc' = IF decoded_packet'.scan_complete THEN "wait" ELSE "store"
  <2>1. /\ GoodPacket(decoded_packet')
        /\ decoded_packet'.packet_index = decoded_packet.packet_index
        /\ use_angle_' \in BOOLEAN /\ (use_angle_' => use_angle_)
        /\ last' \in Nat
        /\ decoded_packet'.n # 0 => decoded_packet'.n = last'
        /\ use_angle_' /\ ~decoded_packet'.scan_complete /\ last # 0 =>
             last' # 0 /\ FieldOf(last') = FieldOf(last)
    BY <1>2, <1>5, DecodedIs
  <2>2. HTypes'
    BY <1>1, <1>2, <1>5, <2>1 DEF HTypes, GoodDatagram, GoodPacket
  <2>3. RunInv'
    BY <1>1, <1>5, <2>1 DEF RunInv
  <2>4. FieldInv'
    <3>1. CASE decoded_packet'.scan_complete
      BY <1>1, <1>5, <2>1, <3>1 DEF FieldInv
    <3>2. CASE ~decoded_packet'.scan_complete
      BY <1>1, <1>5, <2>1, <3>2 DEF FieldInv
    <3> QED
      BY <3>1, <3>2
  <2>5. WaitInv'
    BY <1>5 DEF WaitInv
  <2> QED
    BY <1>1, <2>2, <2>3, <2>4, <2>5, SameQueue, SameFrame
<1> QED
  BY <1>4, <1>5 DEF RunTakes

LEMMA RunWaitsKeeps == ASSUME HInv, RunWaits PROVE HInv'
<1> USE DEF HInv
<1>1. /\ UNCHANGED <<mainPc, sent, udp_packet, origin_packets_buffer_, decoded_packets_buffer_,
                     use_angle_, last, decoded_packet, packet_index, handed, parserPc,
                     parserPacket, frame_, rough>>
      /\ runPc = "wait" /\ runPc' = "publish"
      /\ frame_.packet_num = decoded_packet.packet_index
  BY DEF RunWaits, ComputeXYZIComplete, mainVars_, receiveVars, decoderVars, parserVars
<1>2. HTypes'
  BY <1>1 DEF HTypes, GoodPacket, GoodDatagram
<1>3. RunInv'
  BY <1>1 DEF RunInv
<1>4. FieldInv'
  BY <1>1 DEF FieldInv, FieldOf
\* The number of the last packet is seen: all are Done, or none is and the last is the first.
<1>5. ASSUME ~rough PROVE Done = Len(handed) \/ Len(handed) <= 1
  <2>1. Len(handed) \in Nat /\ (handed = <<>> => Len(handed) = 0)
    BY DEF HTypes
  <2>2. handed # <<>> => frame_.packet_num = Len(handed) - 1
    BY <1>1 DEF RunInv
  <2>3. Done \in Nat /\ (frame_.packet_num = Done - 1 \/ (Done = 0 /\ frame_.packet_num = 0))
    BY <1>5 DEF QueueInv, FrameInv
  <2> QED
    BY <2>1, <2>2, <2>3
<1>6. ~rough => WaitInv'
  BY <1>1, <1>5 DEF WaitInv, Done, InHands, Parses
<1> QED
  BY <1>1, <1>2, <1>3, <1>4, <1>6, SameQueue, SameFrame

\* A frame begun anew, nothing handed and the parser idle, is in order.
LEMMA EmptyFrame ==
  ASSUME handed' = <<>>, decoded_packets_buffer_' = <<>>, parserPc' \in {"none", "pop"},
         frame_' = Updated(frame_), HTypes
  PROVE  QueueInv' /\ FrameInv' /\ WaitInv'
<1>1. ~Parses'
  BY DEF Parses
<1>2. Len(handed') = 0 /\ Len(decoded_packets_buffer_') = 0
  OBVIOUS
<1>3. InHands' = 0
  BY <1>1 DEF InHands
<1>4. Done' = 0
  BY <1>2, <1>3 DEF Done
<1>5. frame_'.packets = 0 /\ frame_'.packet_num = -1
  BY DEF Updated, HTypes
<1>6. QueueInv'
  BY <1>1, <1>2, <1>4 DEF QueueInv
<1>7. FrameInv'
  BY <1>4, <1>5 DEF FrameInv
<1> QED
  BY <1>2, <1>4, <1>6, <1>7 DEF WaitInv

LEMMA UpdatedTypes == ASSUME HTypes PROVE
  Updated(frame_) \in [points : [0 .. kMaxPacketNumPerFrame - 1 -> Nat], packets : Nat, packet_num : Count]
BY DEF Updated, HTypes, Count

LEMMA RunPublishesKeeps == ASSUME HInv, RunPublishes PROVE HInv'
<1> USE DEF HInv
<1>1. /\ UNCHANGED <<mainPc, sent, udp_packet, origin_packets_buffer_, decoded_packets_buffer_,
                     use_angle_, last, decoded_packet, parserPc, parserPacket>>
      /\ runPc = "publish" /\ runPc' = IF decoded_packet.valid THEN "store" ELSE "loop"
      /\ frame_' = Updated(frame_)
      /\ packet_index' = 0 /\ handed' = <<>>
      /\ rough' = ~ParserIsQuiet
  BY DEF RunPublishes, mainVars_, receiveVars, decoderVars, parserVars
<1>2. HTypes'
  BY <1>1, UpdatedTypes DEF HTypes, GoodPacket, GoodDatagram, ParserIsQuiet
<1>3. RunInv'
  BY <1>1, HesaiLidarConstants DEF RunInv, HTypes
<1>4. FieldInv'
  BY <1>1 DEF FieldInv
<1>5. ~rough' => QueueInv' /\ FrameInv' /\ WaitInv'
  BY <1>1, EmptyFrame DEF ParserIsQuiet
<1> QED
  BY <1>2, <1>3, <1>4, <1>5

LEMMA RunResetsKeeps == ASSUME HInv, RunResets PROVE HInv'
<1> USE DEF HInv
<1>1. /\ UNCHANGED <<mainPc, sent, udp_packet, origin_packets_buffer_, decoded_packets_buffer_,
                     use_angle_, last, decoded_packet, parserPc, parserPacket>>
      /\ runPc = "reset" /\ runPc' = "loop"
      /\ frame_' = Updated(frame_)
      /\ packet_index' = 0 /\ handed' = <<>> /\ rough' = TRUE
  BY DEF RunResets, mainVars_, receiveVars, decoderVars, parserVars
<1>2. HTypes'
  BY <1>1, UpdatedTypes DEF HTypes, GoodPacket, GoodDatagram
<1>3. RunInv'
  BY <1>1, HesaiLidarConstants DEF RunInv, HTypes
<1>4. FieldInv'
  BY <1>1 DEF FieldInv
<1> QED
  BY <1>1, <1>2, <1>3, <1>4

\* Places in the ring and in handed.
LEMMA Places ==
  ASSUME NEW done \in Nat, NEW held \in Nat, NEW ring \in Nat, NEW all \in Nat, NEW j \in Nat,
         done + held + ring = all
  PROVE  /\ j = ring + 1 => done + held + j = all + 1 /\ done + held + j - 1 = all
         /\ 1 <= j /\ j <= ring => done + held + j \in 1 .. all
         /\ held = 1 => done + 1 \in 1 .. all
  OBVIOUS

LEMMA RunStoresKeeps == ASSUME HInv, RunStores PROVE HInv'
<1> USE DEF HInv
<1> DEFINE packet == [decoded_packet EXCEPT !.packet_index = packet_index]
<1>1. /\ UNCHANGED <<mainPc, sent, udp_packet, origin_packets_buffer_, use_angle_, last,
                     parserPc, parserPacket, frame_, rough>>
      /\ runPc = "store"
      /\ decoded_packet' = packet
      /\ decoded_packets_buffer_' = Append(decoded_packets_buffer_, packet)
      /\ handed' = Append(handed, packet.n)
      /\ packet_index' = packet_index + 1
      /\ runPc' = IF ~packet.scan_complete /\ packet_index' >= kMaxPacketNumPerFrame
                  THEN "reset" ELSE "loop"
  BY DEF RunStores, mainVars_, receiveVars, decoderVars, parserVars, HTypes, GoodPacket, Decodeds
<1>2. /\ GoodPacket(packet) /\ packet.packet_index = Len(handed)
      /\ packet.n = decoded_packet.n /\ packet.scan_complete = decoded_packet.scan_complete
      /\ packet.n \in Nat
  BY DEF HTypes, GoodPacket, Decodeds, RunInv
<1> HIDE DEF packet
<1>3. /\ handed \in Seq(Nat) /\ handed' \in Seq(Nat) /\ Len(handed') = Len(handed) + 1
      /\ \A i \in 1 .. Len(handed) : handed'[i] = handed[i]
      /\ handed'[Len(handed) + 1] = packet.n
      /\ Len(handed) \in Nat
  BY <1>1, <1>2 DEF HTypes
<1>4. /\ decoded_packets_buffer_' \in Seq(Decodeds)
      /\ Len(decoded_packets_buffer_') = Len(decoded_packets_buffer_) + 1
      /\ Len(decoded_packets_buffer_) \in Nat
      /\ \A i \in 1 .. Len(decoded_packets_buffer_) : decoded_packets_buffer_'[i] = decoded_packets_buffer_[i]
      /\ decoded_packets_buffer_'[Len(decoded_packets_buffer_) + 1] = packet
  BY <1>1, <1>2 DEF HTypes, GoodPacket
<1>5. HTypes'
  <2>1. \A i \in DOMAIN decoded_packets_buffer_' : GoodPacket(decoded_packets_buffer_'[i])
    BY <1>2, <1>4 DEF HTypes
  <2>2. runPc' \in {"reset", "loop"}
    BY <1>1
  <2> QED
    BY <1>1, <1>2, <1>3, <1>4, <2>1, <2>2 DEF HTypes, GoodDatagram
<1>6. RunInv'
  <2>1. Len(handed) <= kMaxPacketNumPerFrame /\ (packet.scan_complete => Len(handed) = 0)
    BY <1>1, <1>2 DEF RunInv
  <2>2. /\ packet_index' = Len(handed')
        /\ runPc' # "reset" => Len(handed') <= kMaxPacketNumPerFrame
        /\ runPc' = "reset" => Len(handed') <= kMaxPacketNumPerFrame + 1
    BY <1>1, <1>3, <2>1, HesaiLidarConstants DEF RunInv
  <2>3. decoded_packet'.packet_index = Len(handed') - 1
    BY <1>1, <1>2, <1>3
  <2>4. mainPc \notin {"idle", "joinReceive", "joinParser", "done", "lost"}
    BY <1>1 DEF RunInv
  <2>5. runPc' \in {"reset", "loop"}
    BY <1>1
  <2> QED
    BY <1>1, <2>2, <2>3, <2>4, <2>5 DEF RunInv
<1>7. FieldInv'
  <2>1. DOMAIN handed' = 1 .. Len(handed) + 1 /\ DOMAIN handed = 1 .. Len(handed)
    BY <1>3
  <2>2. use_angle_ => \A i \in DOMAIN handed' : handed'[i] # 0 => last # 0 /\ FieldOf(handed'[i]) = FieldOf(last)
    <3> SUFFICES ASSUME use_angle_, NEW i \in DOMAIN handed', handed'[i] # 0
                 PROVE  last # 0 /\ FieldOf(handed'[i]) = FieldOf(last)
      OBVIOUS
    <3>1. CASE i \in 1 .. Len(handed)
      BY <1>1, <1>3, <2>1, <3>1 DEF FieldInv
    <3>2. CASE i = Len(handed) + 1
      BY <1>1, <1>2, <1>3, <3>2 DEF FieldInv
    <3> QED
      BY <1>3, <2>1, <3>1, <3>2
  <2>3. runPc' \in {"reset", "loop"}
    BY <1>1
  <2> QED
    BY <1>1, <2>2, <2>3 DEF FieldInv, FieldOf
<1>8. Done' = Done /\ InHands' = InHands /\ Parses' = Parses
  BY <1>1, <1>3, <1>4 DEF Done, InHands, Parses
<1>9. InHands \in {0, 1} /\ (Parses => InHands = 1)
  BY DEF InHands
<1>10. ASSUME ~rough PROVE QueueInv' /\ FrameInv' /\ WaitInv'
  <2>0. /\ Len(handed) \in Nat /\ Len(decoded_packets_buffer_) \in Nat
        /\ InHands \in Nat /\ Done \in Nat
    BY <1>3, <1>4, <1>9, <1>10 DEF QueueInv
  <2>1. Done \in Nat /\ Done + InHands + Len(decoded_packets_buffer_) = Len(handed)
    BY <1>3, <1>4, <1>9, <1>10 DEF QueueInv, Done
  <2>2. ASSUME NEW j \in DOMAIN decoded_packets_buffer_'
        PROVE  /\ decoded_packets_buffer_'[j].packet_index = Done + InHands + j - 1
               /\ decoded_packets_buffer_'[j].n = handed'[Done + InHands + j]
    <3>1. CASE j \in 1 .. Len(decoded_packets_buffer_)
      <4>1. /\ decoded_packets_buffer_[j].packet_index = Done + InHands + j - 1
            /\ decoded_packets_buffer_[j].n = handed[Done + InHands + j]
        BY <1>4, <1>10, <3>1 DEF QueueInv, HTypes
      <4>2. Done + InHands + j \in 1 .. Len(handed)
        <5>1. j \in Nat /\ 1 <= j /\ j <= Len(decoded_packets_buffer_)
          BY <1>4, <3>1
        <5> QED
          BY <2>0, <2>1, <5>1, Places
      <4>3. handed'[Done + InHands + j] = handed[Done + InHands + j]
        BY <1>3, <4>2
      <4> QED
        BY <1>4, <3>1, <4>1, <4>3
    <3>2. CASE j = Len(decoded_packets_buffer_) + 1
      <4>1. Done + InHands + j = Len(handed) + 1 /\ Done + InHands + j - 1 = Len(handed)
        <5>1. j = Len(decoded_packets_buffer_) + 1 /\ j \in Nat
          BY <1>4, <3>2
        <5> QED
          BY <2>0, <2>1, <5>1, Places
      <4>2. decoded_packets_buffer_'[j] = packet
        BY <1>4, <3>2
      <4> QED
        BY <1>2, <1>3, <4>1, <4>2
    <3> QED
      BY <1>4, <3>1, <3>2
  <2>3. Parses => parserPacket.packet_index = Done /\ parserPacket.n = handed'[Done + 1]
    <3>1. InHands = 1 => Done + 1 \in 1 .. Len(handed)
      BY <1>3, <1>4, <2>1
    <3> QED
      BY <1>3, <1>9, <1>10, <3>1 DEF QueueInv
  <2>4. QueueInv'
    BY <1>1, <1>8, <2>1, <2>2, <2>3 DEF QueueInv
  <2>5. \A i \in 1 .. Done : handed'[i] = handed[i]
    BY <1>3, <1>4, <1>9, <2>1
  <2>6. parserPc = "numbers" => handed'[Done + 1] = handed[Done + 1]
    <3>1. parserPc = "numbers" => InHands = 1
      BY DEF InHands, Parses
    <3>2. InHands = 1 => Done + 1 \in 1 .. Len(handed)
      BY <1>3, <1>4, <2>1
    <3> QED
      BY <1>3, <3>1, <3>2
  <2>7. FrameInv'
    BY <1>1, <1>8, <1>10, <2>1, <2>5, <2>6 DEF FrameInv
  <2>8. WaitInv'
    BY <1>1 DEF WaitInv
  <2> QED
    BY <2>4, <2>7, <2>8
<1> QED
  BY <1>1, <1>5, <1>6, <1>7, <1>10

-----------------------------------------------------------------------------
(* The parser *)

\* The parser does not touch what Run and main keep.
LEMMA ParserLeaves ==
  ASSUME HInv, Parsing
  PROVE  /\ UNCHANGED <<mainPc, sent, udp_packet, origin_packets_buffer_, use_angle_, last, runPc,
                       decoded_packet, packet_index, handed>>
         /\ RunInv' /\ FieldInv'
<1>1. UNCHANGED <<mainPc, sent, udp_packet, origin_packets_buffer_, use_angle_, last, runPc,
                  decoded_packet, packet_index, handed>>
  BY DEF Parsing, ParserStops, ParserPops, ParserTimesOut, ParserPoints, ParserNumbers,
     mainVars_, receiveVars, decoderVars, runVars
<1> QED
  BY <1>1, SameRun, SameField DEF HInv

\* Types and the places of the packets, for the steps below.
LEMMA QueueTypes ==
  ASSUME HTypes, QueueInv
  PROVE  /\ Len(handed) \in Nat /\ Len(decoded_packets_buffer_) \in Nat
         /\ InHands \in Nat /\ Done \in Nat
         /\ Done + InHands + Len(decoded_packets_buffer_) = Len(handed)
         /\ Parses => InHands = 1
         /\ ~Parses => InHands = 0
<1>1. Len(handed) \in Nat /\ Len(decoded_packets_buffer_) \in Nat
  BY DEF HTypes
<1>2. InHands \in {0, 1} /\ (Parses => InHands = 1) /\ (~Parses => InHands = 0)
  BY DEF InHands
<1>3. Done \in Nat
  BY DEF QueueInv
<1> QED
  BY <1>1, <1>2, <1>3 DEF Done

LEMMA ParserStopsKeeps == ASSUME HInv, ParserStops PROVE HInv'
<1> USE DEF HInv
<1>1. /\ UNCHANGED <<decoded_packets_buffer_, parserPacket, frame_, rough>>
      /\ parserPc = "pop" /\ parserPc' = "exited"
  BY DEF ParserStops, runVars
<1>2. /\ UNCHANGED <<mainPc, sent, udp_packet, origin_packets_buffer_, use_angle_, last, runPc,
                     decoded_packet, packet_index, handed>>
      /\ RunInv' /\ FieldInv'
  BY ParserLeaves DEF Parsing
<1>3. HTypes'
  BY <1>1, <1>2 DEF HTypes, GoodPacket, GoodDatagram
<1>4. Parses' = FALSE /\ Parses = FALSE /\ InHands' = 0 /\ InHands = 0
  BY <1>1 DEF Parses, InHands
<1>5. Done' = Done
  BY <1>1, <1>2, <1>4 DEF Done
<1>6. ~rough => QueueInv' /\ FrameInv' /\ WaitInv'
  BY <1>1, <1>2, <1>4, <1>5 DEF QueueInv, FrameInv, WaitInv
<1> QED
  BY <1>1, <1>2, <1>3, <1>6

LEMMA ParserPopsKeeps == ASSUME HInv, ParserPops PROVE HInv'
<1> USE DEF HInv
<1>1. /\ UNCHANGED <<frame_, rough>>
      /\ parserPc = "pop" /\ parserPc' = "points" /\ decoded_packets_buffer_ # <<>>
      /\ parserPacket' = Head(decoded_packets_buffer_)
      /\ decoded_packets_buffer_' = Tail(decoded_packets_buffer_)
  BY DEF ParserPops
<1>2. /\ UNCHANGED <<mainPc, sent, udp_packet, origin_packets_buffer_, use_angle_, last, runPc,
                     decoded_packet, packet_index, handed>>
      /\ RunInv' /\ FieldInv'
  BY ParserLeaves DEF Parsing
<1>3. /\ decoded_packets_buffer_ \in Seq(Decodeds) /\ decoded_packets_buffer_' \in Seq(Decodeds)
      /\ Len(decoded_packets_buffer_) \in Nat \ {0}
      /\ Len(decoded_packets_buffer_') = Len(decoded_packets_buffer_) - 1
      /\ \A j \in 1 .. Len(decoded_packets_buffer_') :
            decoded_packets_buffer_'[j] = decoded_packets_buffer_[j + 1]
      /\ parserPacket' = decoded_packets_buffer_[1]
  BY <1>1 DEF HTypes
<1>4. HTypes'
  <2>1. ASSUME NEW j \in DOMAIN decoded_packets_buffer_' PROVE GoodPacket(decoded_packets_buffer_'[j])
    <3>1. j \in 1 .. Len(decoded_packets_buffer_') /\ j + 1 \in DOMAIN decoded_packets_buffer_
      BY <1>3
    <3> QED
      BY <1>3, <3>1 DEF HTypes
  <2>2. GoodPacket(parserPacket')
    BY <1>3 DEF HTypes
  <2> QED
    BY <1>1, <1>2, <1>3, <2>1, <2>2 DEF HTypes, GoodPacket, GoodDatagram
<1>5. Parses' /\ ~Parses /\ InHands' = 1 /\ InHands = 0
  BY <1>1 DEF Parses, InHands
<1>6. ASSUME ~rough PROVE QueueInv' /\ FrameInv' /\ WaitInv'
  <2>1. /\ Len(handed) \in Nat /\ Done \in Nat
        /\ Done + Len(decoded_packets_buffer_) = Len(handed)
    BY <1>5, <1>6, QueueTypes
  <2>2. Done' = Done
    BY <1>2, <1>3, <1>5, <2>1 DEF Done
  <2>3. \A j \in DOMAIN decoded_packets_buffer_ :
          /\ decoded_packets_buffer_[j].packet_index = Done + j - 1
          /\ decoded_packets_buffer_[j].n = handed[Done + j]
    BY <1>3, <1>5, <1>6, <2>1 DEF QueueInv
  <2>4. ASSUME NEW j \in DOMAIN decoded_packets_buffer_'
        PROVE  /\ decoded_packets_buffer_'[j].packet_index = Done + 1 + j - 1
               /\ decoded_packets_buffer_'[j].n = handed[Done + 1 + j]
    <3>1. j + 1 \in DOMAIN decoded_packets_buffer_ /\ j \in Nat
      BY <1>3
    <3>2. Done + (j + 1) - 1 = Done + 1 + j - 1 /\ Done + (j + 1) = Done + 1 + j
      BY <2>1, <3>1
    <3> QED
      BY <1>3, <2>3, <3>1, <3>2
  <2>5. parserPacket'.packet_index = Done /\ parserPacket'.n = handed[Done + 1]
    <3>1. 1 \in DOMAIN decoded_packets_buffer_ /\ Done + 1 - 1 = Done
      BY <1>3, <2>1
    <3> QED
      BY <1>3, <2>3, <3>1
  <2>6. QueueInv'
    BY <1>2, <1>5, <2>1, <2>2, <2>4, <2>5 DEF QueueInv
  <2>7. FrameInv'
    BY <1>1, <1>2, <1>6, <2>2 DEF FrameInv
  <2> QED
    BY <1>2, <1>6, <2>2, <2>6, <2>7 DEF WaitInv
<1> QED
  BY <1>1, <1>2, <1>4, <1>6

LEMMA ParserTimesOutKeeps == ASSUME HInv, ParserTimesOut PROVE HInv'
<1> USE DEF HInv
<1>1. /\ UNCHANGED <<decoded_packets_buffer_, parserPacket, frame_>>
      /\ parserPc' = "points" /\ rough' = TRUE
  BY DEF ParserTimesOut
<1>2. /\ UNCHANGED <<mainPc, sent, udp_packet, origin_packets_buffer_, use_angle_, last, runPc,
                     decoded_packet, packet_index, handed>>
      /\ RunInv' /\ FieldInv'
  BY ParserLeaves DEF Parsing
<1>3. HTypes'
  BY <1>1, <1>2 DEF HTypes, GoodPacket, GoodDatagram
<1> QED
  BY <1>1, <1>2, <1>3

LEMMA ParserPointsKeeps == ASSUME HInv, ParserPoints PROVE HInv'
<1> USE DEF HInv
<1>1. /\ UNCHANGED <<decoded_packets_buffer_, parserPacket, rough>>
      /\ parserPc = "points" /\ parserPc' = "numbers"
      /\ frame_' = IF parserPacket.valid
                   THEN [frame_ EXCEPT !.points[parserPacket.packet_index] = parserPacket.n] ELSE frame_
  BY DEF ParserPoints
<1>2. /\ UNCHANGED <<mainPc, sent, udp_packet, origin_packets_buffer_, use_angle_, last, runPc,
                     decoded_packet, packet_index, handed>>
      /\ RunInv' /\ FieldInv'
  BY ParserLeaves DEF Parsing
<1>3. /\ frame_' \in [points : [0 .. kMaxPacketNumPerFrame - 1 -> Nat], packets : Nat, packet_num : Count]
      /\ frame_'.packets = frame_.packets /\ frame_'.packet_num = frame_.packet_num
      /\ \A i \in 0 .. kMaxPacketNumPerFrame - 1 :
           frame_'.points[i] = IF parserPacket.valid /\ i = parserPacket.packet_index
                               THEN parserPacket.n ELSE frame_.points[i]
  BY <1>1 DEF HTypes, GoodPacket, Decodeds
<1>4. HTypes'
  BY <1>1, <1>2, <1>3 DEF HTypes, GoodPacket, GoodDatagram
<1>5. Parses' /\ Parses /\ InHands' = InHands
  BY <1>1 DEF Parses, InHands
<1>6. Done' = Done
  BY <1>1, <1>2, <1>5 DEF Done
<1>7. ASSUME ~rough PROVE QueueInv' /\ FrameInv' /\ WaitInv'
  <2>1. QueueInv'
    BY <1>1, <1>2, <1>5, <1>6, <1>7 DEF QueueInv
  <2>2. /\ Done \in Nat
        /\ parserPacket.packet_index = Done /\ parserPacket.n = handed[Done + 1]
        /\ parserPacket.valid <=> parserPacket.n # 0
    BY <1>5, <1>7 DEF QueueInv, HTypes, GoodPacket
  <2>3. ASSUME NEW i \in 1 .. Done, handed[i] # 0, i <= kMaxPacketNumPerFrame
        PROVE  frame_'.points[i - 1] = handed[i]
    <3>1. frame_.points[i - 1] = handed[i]
      BY <1>7, <2>3 DEF FrameInv
    <3>2. i - 1 \in 0 .. kMaxPacketNumPerFrame - 1 /\ i - 1 # Done
      BY <2>2, <2>3, HesaiLidarConstants
    <3> QED
      BY <1>3, <2>2, <3>1, <3>2
  <2>4. ASSUME handed[Done + 1] # 0, Done < kMaxPacketNumPerFrame
        PROVE  frame_'.points[Done] = handed[Done + 1]
    BY <1>3, <2>2, <2>4, HesaiLidarConstants
  <2>5. FrameInv'
    BY <1>2, <1>3, <1>6, <1>7, <2>3, <2>4 DEF FrameInv
  <2> QED
    BY <1>2, <1>6, <1>7, <2>1, <2>5 DEF WaitInv
<1> QED
  BY <1>1, <1>2, <1>4, <1>7

LEMMA ParserNumbersKeeps == ASSUME HInv, ParserNumbers PROVE HInv'
<1> USE DEF HInv
<1>1. /\ UNCHANGED <<decoded_packets_buffer_, parserPacket, rough>>
      /\ parserPc = "numbers" /\ parserPc' = "pop"
      /\ frame_' = [frame_ EXCEPT !.packets = IF parserPacket.valid /\ @ <= kMaxPacketNumPerFrame
                                              THEN @ + 1 ELSE @,
                                  !.packet_num = parserPacket.packet_index]
  BY DEF ParserNumbers
<1>2. /\ UNCHANGED <<mainPc, sent, udp_packet, origin_packets_buffer_, use_angle_, last, runPc,
                     decoded_packet, packet_index, handed>>
      /\ RunInv' /\ FieldInv'
  BY ParserLeaves DEF Parsing
<1>3. /\ frame_' \in [points : [0 .. kMaxPacketNumPerFrame - 1 -> Nat], packets : Nat, packet_num : Count]
      /\ frame_'.points = frame_.points /\ frame_'.packet_num = parserPacket.packet_index
      /\ frame_'.packets = IF parserPacket.valid /\ frame_.packets <= kMaxPacketNumPerFrame
                           THEN frame_.packets + 1 ELSE frame_.packets
  <2> DEFINE more == IF parserPacket.valid /\ frame_.packets <= kMaxPacketNumPerFrame
                     THEN frame_.packets + 1 ELSE frame_.packets
  <2>1. /\ frame_ \in [points : [0 .. kMaxPacketNumPerFrame - 1 -> Nat], packets : Nat, packet_num : Count]
        /\ parserPacket.packet_index \in Count
    BY DEF HTypes, GoodPacket, Decodeds, Count
  <2>2. more \in Nat
    BY <2>1
  <2>3. frame_' = [frame_ EXCEPT !.packets = more, !.packet_num = parserPacket.packet_index]
    BY <1>1, <2>1
  <2> HIDE DEF more
  <2>4. /\ frame_' \in [points : [0 .. kMaxPacketNumPerFrame - 1 -> Nat], packets : Nat, packet_num : Count]
        /\ frame_'.points = frame_.points /\ frame_'.packet_num = parserPacket.packet_index
        /\ frame_'.packets = more
    BY <2>1, <2>2, <2>3
  <2> QED
    BY <2>4 DEF more
<1>4. HTypes'
  BY <1>1, <1>2, <1>3 DEF HTypes, GoodPacket, GoodDatagram
<1>5. ~Parses' /\ Parses /\ InHands' = 0 /\ InHands = 1
  BY <1>1 DEF Parses, InHands
<1>6. ASSUME ~rough PROVE QueueInv' /\ FrameInv' /\ WaitInv'
  <2>1. /\ Len(handed) \in Nat /\ Done \in Nat /\ Len(decoded_packets_buffer_) \in Nat
        /\ Done + 1 + Len(decoded_packets_buffer_) = Len(handed)
    BY <1>5, <1>6, QueueTypes
  <2>2. Done' = Done + 1
    BY <1>1, <1>2, <1>5, <2>1 DEF Done
  <2>3. /\ parserPacket.packet_index = Done /\ parserPacket.n = handed[Done + 1]
        /\ parserPacket.valid <=> parserPacket.n # 0
    BY <1>5, <1>6 DEF QueueInv, HTypes, GoodPacket
  <2>4. \A j \in DOMAIN decoded_packets_buffer_ :
          /\ decoded_packets_buffer_[j].packet_index = Done + 1 + j - 1
          /\ decoded_packets_buffer_[j].n = handed[Done + 1 + j]
    BY <1>5, <1>6 DEF QueueInv
  <2>5. \A j \in DOMAIN decoded_packets_buffer_ :
           Done + 1 + 0 + j - 1 = Done + 1 + j - 1 /\ Done + 1 + 0 + j = Done + 1 + j
    BY <2>1 DEF HTypes
  <2>6. QueueInv'
    BY <1>1, <1>2, <1>5, <2>1, <2>2, <2>4, <2>5 DEF QueueInv
  <2>7. Done <= kMaxPacketNumPerFrame /\ frame_.packets \in Nat /\ frame_.packets <= Done
    <3>1. Len(handed) <= kMaxPacketNumPerFrame + 1
      BY <2>1, HesaiLidarConstants DEF RunInv
    <3>2. frame_.packets \in Nat /\ frame_.packets <= Done
      BY <1>6 DEF FrameInv, HTypes
    <3> QED
      BY <2>1, <3>1, <3>2, HesaiLidarConstants
  <2>8. ASSUME NEW i \in 1 .. Done + 1, handed[i] # 0, i <= kMaxPacketNumPerFrame
        PROVE  frame_.points[i - 1] = handed[i]
    <3>1. CASE i \in 1 .. Done
      BY <1>6, <2>8, <3>1 DEF FrameInv
    <3>2. CASE i = Done + 1
      <4>1. i - 1 = Done /\ Done < kMaxPacketNumPerFrame
        BY <2>1, <2>8, <3>2, HesaiLidarConstants
      <4> QED
        BY <1>1, <1>6, <2>8, <3>2, <4>1 DEF FrameInv
    <3> QED
      BY <2>1, <3>1, <3>2
  <2>9. ASSUME \A i \in 1 .. Done + 1 : handed[i] # 0
        PROVE  frame_'.packets = Done + 1
    <3>1. frame_.packets = Done
      BY <1>6, <2>1, <2>9 DEF FrameInv
    <3>2. parserPacket.valid
      BY <2>1, <2>3, <2>9
    <3> QED
      BY <1>3, <2>7, <3>1, <3>2
  <2>10. frame_'.packets <= Done + 1 /\ frame_'.packet_num = Done + 1 - 1
    BY <1>3, <2>1, <2>3, <2>7
  <2>11. FrameInv'
    <3>1. parserPc' # "numbers"
      BY <1>1
    <3>2. \A i \in 1 .. Done' :
             handed'[i] # 0 /\ i <= kMaxPacketNumPerFrame => frame_'.points[i - 1] = handed'[i]
      BY <1>2, <1>3, <2>2, <2>8
    <3>3. (\A i \in 1 .. Done' : handed'[i] # 0) => frame_'.packets = Done'
      BY <1>2, <2>2, <2>9
    <3>4. frame_'.packets <= Done' /\ frame_'.packet_num = Done' - 1
      BY <1>3, <2>1, <2>2, <2>10
    <3> QED
      BY <3>1, <3>2, <3>3, <3>4 DEF FrameInv
  <2>12. WaitInv'
    BY <1>2, <1>6, <2>1, <2>2 DEF WaitInv
  <2> QED
    BY <2>6, <2>11, <2>12
<1> QED
  BY <1>1, <1>2, <1>4, <1>6

-----------------------------------------------------------------------------
(* main *)

\* The steps of main move main, and Run to its beginning.
MainMoves == StartRun \/ StopRun \/ JoinRun \/ JoinReceive \/ JoinParser

LEMMA MainKeeps == ASSUME HInv, MainMoves PROVE HInv'
<1> USE DEF HInv
<1>1. UNCHANGED <<sent, udp_packet, origin_packets_buffer_, decoded_packets_buffer_, use_angle_, last,
                  decoded_packet, packet_index, handed, parserPc, parserPacket, frame_, rough>>
  BY DEF MainMoves, StartRun, StopRun, JoinRun, JoinReceive, JoinParser, receiveVars, decoderVars,
     runVars, parserVars
<1>2. \/ mainPc = "idle" /\ mainPc' = "running" /\ runPc' = "new"
      \/ mainPc = "running" /\ mainPc' = "joinRun" /\ runPc' = runPc
      \/ mainPc = "joinRun" /\ runPc = "exited" /\ mainPc' = "joinReceive" /\ runPc' = runPc
      \/ mainPc = "joinReceive" /\ mainPc' = "joinParser" /\ runPc' = runPc
      \/ mainPc = "joinParser" /\ mainPc' \in {"done", "lost"} /\ runPc' = runPc
  BY DEF MainMoves, StartRun, StopRun, JoinRun, JoinReceive, JoinParser, runVars
<1>3. HTypes'
  BY <1>1, <1>2 DEF HTypes, GoodPacket, GoodDatagram
<1>4. RunInv'
  BY <1>1, <1>2 DEF RunInv
<1>5. FieldInv'
  <2>1. CASE runPc' = runPc
    BY <1>1, <2>1, SameField
  <2>2. CASE runPc' # runPc
    BY <1>1, <1>2, <2>2 DEF FieldInv, RunInv
  <2> QED
    BY <2>1, <2>2
<1>6. WaitInv => WaitInv'
  <2>1. CASE runPc' = runPc
    BY <1>1, <2>1, SameWait
  <2>2. CASE runPc' = "new"
    BY <2>2 DEF WaitInv
  <2> QED
    BY <1>2, <2>1, <2>2
<1> QED
  BY <1>1, <1>3, <1>4, <1>5, <1>6, SameQueue, SameFrame

-----------------------------------------------------------------------------
(* The frame that is published *)

LEMMA LidarKeeps == ASSUME HInv, [LidarNext]_lidarVars PROVE HInv'
<1>1. CASE Receiving \/ DatagramLost
  BY <1>1, ReceiverKeeps
<1>2. CASE Running
  BY <1>2, RunBeginsKeeps, RunStopsKeeps, RunTakesKeeps, RunWaitsKeeps, RunPublishesKeeps,
     RunStoresKeeps, RunResetsKeeps DEF Running
<1>3. CASE Parsing
  BY <1>3, ParserStopsKeeps, ParserPopsKeeps, ParserTimesOutKeeps, ParserPointsKeeps,
     ParserNumbersKeeps DEF Parsing
<1>5. CASE StartRun \/ StopRun \/ Joining
  BY <1>5, MainKeeps DEF MainMoves, Joining
<1>6. CASE UNCHANGED lidarVars
  <2>1. HTypes'
    BY <1>6 DEF HInv, HTypes, GoodPacket, GoodDatagram, lidarVars, mainVars_, receiveVars,
       decoderVars, runVars, parserVars
  <2> QED
    BY <1>6, <2>1, SameRun, SameField, SameParser
       DEF HInv, lidarVars, mainVars_, receiveVars, decoderVars, runVars, parserVars
<1> QED
  BY <1>1, <1>2, <1>3, <1>5, <1>6 DEF LidarNext

\* At publish, with points and while nothing was rough, every packet handed is Done.
LEMMA FrameIsExact ==
  ASSUME HInv
  PROVE  FrameExact
<1> SUFFICES ASSUME runPc = "publish", frame_.packets > kMinPackets, ~rough,
                    \A i \in DOMAIN handed : handed[i] # 0
             PROVE  /\ frame_.packets = Len(handed)
                    /\ \A i \in DOMAIN handed : frame_.points[i - 1] = handed[i]
                    /\ use_angle_ => Cardinality({FieldOf(handed[i]) : i \in DOMAIN handed}) = 1
  BY DEF FrameExact
<1>1. HTypes /\ RunInv /\ FieldInv /\ QueueInv /\ FrameInv /\ WaitInv
  BY DEF HInv
<1>2. /\ Len(handed) \in Nat /\ Done \in Nat /\ Done <= Len(handed)
      /\ DOMAIN handed = 1 .. Len(handed)
  BY <1>1, QueueTypes DEF HTypes
<1>3. frame_.packets = Done
  BY <1>1, <1>2 DEF FrameInv
<1>4. Done >= 1
  BY <1>2, <1>3, HesaiLidarConstants
<1>5. Done = Len(handed)
  <2>1. Done = Len(handed) \/ Len(handed) <= 1
    BY <1>1 DEF WaitInv
  <2>2. \A d, l \in Nat : d <= l /\ d >= 1 /\ l <= 1 => d = l
    OBVIOUS
  <2>3. Len(handed) \in Nat /\ Done \in Nat /\ Done <= Len(handed)
    BY <1>2
  <2> QED
    BY <1>4, <2>1, <2>2, <2>3
<1>6. Len(handed) <= kMaxPacketNumPerFrame
  BY <1>1 DEF RunInv
<1>7. \A i \in DOMAIN handed : frame_.points[i - 1] = handed[i]
  BY <1>1, <1>2, <1>5, <1>6, HesaiLidarConstants DEF FrameInv
<1>8. ASSUME use_angle_ PROVE Cardinality({FieldOf(handed[i]) : i \in DOMAIN handed}) = 1
  <2>1. 1 \in DOMAIN handed
    BY <1>2, <1>4, <1>5
  <2>2. \A i \in DOMAIN handed : FieldOf(handed[i]) = FieldOf(handed[1])
    BY <1>1, <1>8, <2>1 DEF FieldInv
  <2>3. {FieldOf(handed[i]) : i \in DOMAIN handed} = {FieldOf(handed[1])}
    BY <2>1, <2>2
  <2> QED
    BY <2>3, FS_Singleton
<1> QED
  BY <1>3, <1>5, <1>7, <1>8

LEMMA LidarInvariance == LidarInit /\ [][LidarNext]_lidarVars => []HInv
<1>1. LidarInit => HInv
  BY LidarStarts
<1>2. HInv /\ [LidarNext]_lidarVars => HInv'
  BY LidarKeeps
<1> QED
  BY <1>1, <1>2, PTL

\* The frame that Run hands to the callback is the packets it gave the parser for it, each at
\* its place and of one field: what Run and ComputeXYZI share without a lock is whole.
THEOREM PublishedFrameIsExact == LidarSpec => []FrameExact
<1>1. HInv => FrameExact
  BY FrameIsExact
<1> QED
  BY <1>1, LidarInvariance, PTL DEF LidarSpec

-----------------------------------------------------------------------------
(* The converter and its snapshot *)

LEMMA ConverterStarts == ConverterInit => CInv
<1> SUFFICES ASSUME ConverterInit PROVE CInv
  OBVIOUS
<1>1. CTypes /\ _frame.clean = FALSE /\ snapPc = "idle"
  BY DEF ConverterInit, CTypes
<1> QED
  BY <1>1 DEF CInv, TornOnceAtMost

LEMMA ConverterStepsLidar ==
  ASSUME [ConverterNext]_allVars
  PROVE  [LidarNext]_lidarVars
<1>1. CASE LidarGoesOn
  BY <1>1 DEF LidarGoesOn, MainGoesOn, RunGoesOn, LidarNext, Running
<1>2. CASE PublishAndCall
  BY <1>2 DEF PublishAndCall, LidarNext, Running
<1>3. CASE BeginSnapshot \/ Reading
  BY <1>3 DEF BeginSnapshot, Reading, ReadPoints, EndSnapshot
<1>4. CASE UNCHANGED allVars
  BY <1>4 DEF allVars
<1> QED
  BY <1>1, <1>2, <1>3, <1>4 DEF ConverterNext

\* A lidar step that publishes nothing and is not rough keeps what was handed, and writes
\* into the array only what was.
LEMMA StepsWriteHanded ==
  ASSUME HInv, Receiving \/ DatagramLost \/ RunGoesOn \/ Parsing \/ MainGoesOn, ~rough'
  PROVE  /\ ToSet(handed) \subseteq ToSet(handed')
         /\ \A i \in 0 .. kMaxPacketNumPerFrame - 1 :
              frame_'.points[i] = frame_.points[i] \/ frame_'.points[i] \in ToSet(handed')
         /\ mainPc = "done" => mainPc' = "done"
<1>1. CASE /\ UNCHANGED <<handed, frame_>>
           /\ mainPc = "done" => mainPc' = "done"
  BY <1>1
<1>2. CASE Receiving \/ DatagramLost
  BY <1>1, <1>2 DEF Receiving, ReceiveStops, ReceiveSome, ReceiveNone, ReceiveQueue, DatagramLost,
     mainVars_, runVars
<1>3. CASE MainGoesOn
  BY <1>1, <1>3 DEF MainGoesOn, StartRun, StopRun, Joining, JoinRun, JoinReceive,
     JoinParser, runVars
<1>4. CASE RunBegins \/ RunStops \/ RunTakes \/ RunWaits \/ ParserStops \/ ParserPops
  BY <1>1, <1>4 DEF RunBegins, RunStops, RunTakes, RunWaits, ParserStops, ParserPops, mainVars_, runVars
<1>5. CASE RunResets \/ ParserTimesOut
  BY <1>5 DEF RunResets, ParserTimesOut
<1>6. CASE RunStores
  <2>1. /\ handed' = Append(handed, decoded_packet'.n) /\ decoded_packet'.n \in Nat
        /\ UNCHANGED <<frame_, mainPc>>
    BY <1>6 DEF RunStores, mainVars_, HInv, HTypes, GoodPacket, Decodeds
  <2>2. /\ DOMAIN handed = 1 .. Len(handed) /\ DOMAIN handed' = 1 .. Len(handed) + 1
        /\ \A i \in 1 .. Len(handed) : handed'[i] = handed[i]
        /\ Len(handed) \in Nat
    BY <2>1 DEF HInv, HTypes
  <2>3. DOMAIN handed \subseteq DOMAIN handed'
    BY <2>2
  <2>4. ToSet(handed) \subseteq ToSet(handed')
    BY <2>2, <2>3 DEF ToSet
  <2> QED
    BY <2>1, <2>4
<1>7. CASE ParserPoints
  <2>1. /\ UNCHANGED <<handed, mainPc, rough>> /\ parserPc = "points"
        /\ frame_' = IF parserPacket.valid
                     THEN [frame_ EXCEPT !.points[parserPacket.packet_index] = parserPacket.n] ELSE frame_
    BY <1>7 DEF ParserPoints, mainVars_, runVars
  <2>2. HTypes /\ QueueInv /\ Parses
    BY <2>1 DEF HInv, Parses
  <2>3. parserPacket.n = handed[Done + 1] /\ Done + 1 \in DOMAIN handed
    <3>1. /\ Len(handed) \in Nat /\ Len(decoded_packets_buffer_) \in Nat /\ InHands \in Nat /\ Done \in Nat
          /\ Done + InHands + Len(decoded_packets_buffer_) = Len(handed) /\ InHands = 1
      BY <2>2, QueueTypes
    <3>2. Done + 1 \in 1 .. Len(handed)
      BY <3>1, Places
    <3> QED
      BY <2>2, <3>2 DEF QueueInv, HTypes
  <2>4. parserPacket.n \in ToSet(handed)
    BY <2>3 DEF ToSet
  <2>5. \A i \in 0 .. kMaxPacketNumPerFrame - 1 :
           frame_'.points[i] = frame_.points[i] \/ frame_'.points[i] = parserPacket.n
    BY <2>1, <2>2 DEF HTypes, GoodPacket, Decodeds
  <2> QED
    BY <2>1, <2>4, <2>5
<1>8. CASE ParserNumbers
  <2>1. UNCHANGED <<handed, mainPc>> /\ frame_'.points = frame_.points
    BY <1>8 DEF ParserNumbers, mainVars_, runVars, HInv, HTypes
  <2> QED
    BY <2>1
<1> QED
  BY <1>2, <1>3, <1>4, <1>5, <1>6, <1>7, <1>8 DEF RunGoesOn, Parsing

LEMMA LidarGoesOnKeeps == ASSUME HInv, CInv, LidarGoesOn PROVE CInv'
<1> USE DEF CInv
<1>1. UNCHANGED <<snapPc, snapshot>> /\ Spoil(rough')
  BY DEF LidarGoesOn
<1>2. CASE rough'
  <2>1. _frame' = [_frame EXCEPT !.clean = FALSE, !.given = {}]
    BY <1>1, <1>2 DEF Spoil
  <2>2. CTypes' /\ _frame'.clean = FALSE
    BY <1>1, <2>1 DEF CTypes
  <2> QED
    BY <2>2 DEF TornOnceAtMost
<1>3. CASE ~rough'
  <2>1. _frame' = _frame
    BY <1>1, <1>3 DEF Spoil
  <2>2. CTypes'
    BY <1>1, <2>1 DEF CTypes
  <2>3. /\ ToSet(handed) \subseteq ToSet(handed')
        /\ \A i \in 0 .. kMaxPacketNumPerFrame - 1 :
             frame_'.points[i] = frame_.points[i] \/ frame_'.points[i] \in ToSet(handed')
        /\ mainPc = "done" => mainPc' = "done"
    BY <1>3, StepsWriteHanded DEF LidarGoesOn
  <2>4. ASSUME _frame.clean, mainPc' # "done" PROVE ArrayInv'
    <3>1. ArrayInv
      BY <2>3, <2>4
    <3>2. ASSUME NEW i \in 0 .. _frame.packets - 1
          PROVE  i < kMaxPacketNumPerFrame /\ frame_'.points[i] \in _frame.given \cup ToSet(handed')
      <4>1. i < kMaxPacketNumPerFrame /\ frame_.points[i] \in _frame.given \cup ToSet(handed)
        BY <3>1 DEF ArrayInv
      <4>2. i \in 0 .. kMaxPacketNumPerFrame - 1
        BY <4>1, HesaiLidarConstants DEF CTypes
      <4> QED
        BY <2>3, <4>1, <4>2
    <3> QED
      BY <2>1, <3>2 DEF ArrayInv
  <2>5. TornOnceAtMost'
    BY <1>1, <2>1, <2>3 DEF TornOnceAtMost
  <2> QED
    BY <1>3, <2>1, <2>2, <2>4, <2>5
<1> QED
  BY <1>2, <1>3

LEMMA PublishAndCallKeeps == ASSUME HInv, CInv, PublishAndCall PROVE CInv'
<1> USE DEF CInv
<1>1. /\ UNCHANGED <<snapPc, snapshot, mainPc>> /\ runPc = "publish" /\ handed' = <<>>
      /\ frame_' = Updated(frame_) /\ Callback
  BY DEF PublishAndCall, RunPublishes, mainVars_
<1>2. frame_'.points = frame_.points
  BY <1>1 DEF Updated, HInv, HTypes
<1>3. mainPc # "done"
  BY <1>1 DEF HInv, RunInv
<1>4. ASSUME NEW i \in Nat PROVE PointAt(i) \in Int
  BY HesaiLidarConstants DEF PointAt, Junk, HInv, HTypes
<1>5. CASE frame_.packets > kMinPackets
  <2>1. snapPc # "reading" /\ _frame' = Copy(Untouched /\ ~rough')
    BY <1>1, <1>5 DEF Callback
  <2>2. /\ _frame'.packets = frame_.packets
        /\ _frame'.clean = (Untouched /\ ~rough')
        /\ _frame'.given = IF Untouched /\ ~rough' THEN {PointAt(i) : i \in 0 .. frame_.packets - 1} ELSE {}
    BY <2>1 DEF Copy
  <2>3. frame_.packets \in Nat
    BY DEF HInv, HTypes
  <2>4. CTypes'
    <3>1. {PointAt(i) : i \in 0 .. frame_.packets - 1} \in SUBSET Int
      BY <1>4, <2>3
    <3>2. (Untouched /\ ~rough') \in BOOLEAN
      BY DEF Untouched
    <3> QED
      BY <1>1, <2>1, <2>3, <3>1, <3>2 DEF CTypes, Copy
  <2>5. ASSUME Untouched, ~rough' PROVE ArrayInv'
    <3>1. frame_.packets = Len(handed)
      BY <1>1, <1>5, <2>5, FrameIsExact DEF FrameExact, Untouched
    <3>2. Len(handed) <= kMaxPacketNumPerFrame
      BY <1>1 DEF HInv, RunInv
    <3>3. ASSUME NEW i \in 0 .. frame_.packets - 1
          PROVE  i < kMaxPacketNumPerFrame /\ frame_.points[i] = PointAt(i)
      BY <1>3, <2>3, <3>1, <3>2, <3>3, HesaiLidarConstants DEF PointAt
    <3> QED
      BY <1>2, <2>2, <2>5, <3>3 DEF ArrayInv
  <2> QED
    BY <1>1, <2>1, <2>2, <2>4, <2>5 DEF TornOnceAtMost
<1>6. CASE ~(frame_.packets > kMinPackets)
  <2>1. PassOver(Untouched /\ ~rough')
    BY <1>1, <1>6 DEF Callback
  <2>2. CASE Untouched /\ ~rough' /\ _frame.clean
    <3>1. _frame' = [_frame EXCEPT !.given = @ \union ToSet(handed)]
      BY <2>1, <2>2 DEF PassOver
    <3>2. ToSet(handed) \in SUBSET Int
      BY DEF ToSet, HInv, HTypes
    <3>3. CTypes' /\ _frame'.given = _frame.given \cup ToSet(handed) /\ _frame'.packets = _frame.packets
      BY <1>1, <3>1, <3>2 DEF CTypes
    <3>4. ArrayInv'
      BY <1>2, <1>3, <2>2, <3>3 DEF ArrayInv
    <3>5. TornOnceAtMost'
      BY <1>1, <1>3, <2>2, <3>3 DEF TornOnceAtMost
    <3> QED
      BY <2>2, <3>3, <3>4, <3>5
  <2>3. CASE ~(Untouched /\ ~rough' /\ _frame.clean)
    <3>1. _frame' = [_frame EXCEPT !.clean = FALSE, !.given = {}]
      BY <2>1, <2>3 DEF PassOver
    <3>2. CTypes' /\ _frame'.clean = FALSE
      BY <1>1, <3>1 DEF CTypes
    <3> QED
      BY <3>2 DEF TornOnceAtMost
  <2> QED
    BY <2>2, <2>3
<1> QED
  BY <1>5, <1>6

LEMMA SnapshotKeeps == ASSUME HInv, CInv, BeginSnapshot \/ Reading PROVE CInv'
<1> USE DEF CInv
<1>1. UNCHANGED <<lidarVars, _frame>>
  BY DEF BeginSnapshot, Reading, ReadPoints, EndSnapshot
<1>2. UNCHANGED <<mainPc, rough, handed, frame_>>
  BY <1>1 DEF lidarVars, mainVars_, runVars
<1>3. ArrayInv' = ArrayInv
  BY <1>1, <1>2 DEF ArrayInv
<1>4. CASE BeginSnapshot
  <2>1. snapPc' = "reading" /\ snapshot' = <<>>
    BY <1>4 DEF BeginSnapshot
  <2>2. ToSet(snapshot') = {}
    BY <2>1 DEF ToSet
  <2>3. CTypes' /\ TornOnceAtMost'
    BY <1>1, <2>1, <2>2 DEF CTypes, TornOnceAtMost
  <2> QED
    BY <1>1, <1>2, <1>3, <2>3
<1>5. CASE ReadPoints
  <2>1. /\ snapPc = "reading" /\ snapPc' = snapPc /\ Len(snapshot) < _frame.packets
        /\ snapshot' = Append(snapshot, PointAt(Len(snapshot)))
    BY <1>5 DEF ReadPoints
  <2>2. Len(snapshot) \in Nat /\ snapshot \in Seq(Int) /\ DOMAIN snapshot = 1 .. Len(snapshot)
    BY DEF CTypes
  <2>3. PointAt(Len(snapshot)) \in Int
    BY <2>2, HesaiLidarConstants DEF PointAt, Junk, HInv, HTypes
  <2>4. CTypes'
    BY <1>1, <2>1, <2>2, <2>3 DEF CTypes
  <2>5. ToSet(snapshot') \subseteq ToSet(snapshot) \cup {PointAt(Len(snapshot))}
    <3>1. /\ DOMAIN snapshot' = 1 .. Len(snapshot) + 1
          /\ \A i \in 1 .. Len(snapshot) : snapshot'[i] = snapshot[i]
          /\ snapshot'[Len(snapshot) + 1] = PointAt(Len(snapshot))
      BY <2>1, <2>2, <2>3
    <3>2. 1 .. Len(snapshot) + 1 = (1 .. Len(snapshot)) \cup {Len(snapshot) + 1}
      BY <2>2
    <3> QED
      BY <2>2, <3>1, <3>2 DEF ToSet
  <2>6. ASSUME _frame.clean, mainPc # "done"
        PROVE  PointAt(Len(snapshot)) \in _frame.given \cup ToSet(handed)
    <3>1. _frame.packets \in Nat
      BY DEF CTypes
    <3>2. Len(snapshot) \in 0 .. _frame.packets - 1
      BY <2>1, <2>2, <3>1
    <3>3. /\ Len(snapshot) < kMaxPacketNumPerFrame
          /\ frame_.points[Len(snapshot)] \in _frame.given \cup ToSet(handed)
      BY <2>6, <3>2 DEF ArrayInv
    <3> QED
      BY <2>2, <2>6, <3>3, HesaiLidarConstants DEF PointAt
  <2>7. TornOnceAtMost'
    BY <1>1, <1>2, <2>1, <2>5, <2>6 DEF TornOnceAtMost
  <2> QED
    BY <1>1, <1>2, <1>3, <2>4, <2>7
<1>6. CASE EndSnapshot
  <2>1. snapPc' = "idle" /\ snapshot' = <<>>
    BY <1>6 DEF EndSnapshot
  <2>2. CTypes' /\ TornOnceAtMost'
    BY <1>1, <2>1 DEF CTypes, TornOnceAtMost
  <2> QED
    BY <1>1, <1>2, <1>3, <2>2
<1> QED
  BY <1>4, <1>5, <1>6 DEF Reading

LEMMA ConverterInvariance == ConverterInit /\ [][ConverterNext]_allVars => [](HInv /\ CInv)
<1>1. ConverterInit => HInv /\ CInv
  BY LidarStarts, ConverterStarts DEF ConverterInit
<1>2. HInv /\ CInv /\ [ConverterNext]_allVars => HInv' /\ CInv'
  <2> SUFFICES ASSUME HInv, CInv, [ConverterNext]_allVars PROVE HInv' /\ CInv'
    OBVIOUS
  <2>1. HInv'
    BY ConverterStepsLidar, LidarKeeps
  <2>2. ASSUME ConverterNext PROVE CInv'
    BY <2>2, LidarGoesOnKeeps, PublishAndCallKeeps, SnapshotKeeps DEF ConverterNext
  <2>3. ASSUME UNCHANGED allVars PROVE CInv'
    BY <2>3 DEF CInv, CTypes, ArrayInv, TornOnceAtMost, allVars, converterVars, lidarVars, mainVars_, runVars
  <2> QED
    BY <2>1, <2>2, <2>3
<1> QED
  BY <1>1, <1>2, PTL

\* What snapshot_pcd reads from the array it shares with the parser is of one frame that the
\* callback was given, of what Run passed over since, and of what it fills now: its mutex
\* keeps a second given frame out.
THEOREM SnapshotIsOfOneGivenFrame == ConverterSpec => []TornOnceAtMost
<1>1. CInv => TornOnceAtMost
  BY DEF CInv
<1> QED
  BY <1>1, ConverterInvariance, PTL DEF ConverterSpec

\* The converter and its snapshots do not spoil the frames that Run publishes.
THEOREM ConvertedFrameIsExact == ConverterSpec => []FrameExact
<1>1. HInv => FrameExact
  BY FrameIsExact
<1> QED
  BY <1>1, ConverterInvariance, PTL DEF ConverterSpec

=============================================================================
