----------------------------- MODULE HesaiLidar -----------------------------
(***************************************************************************)
(* The threads between an AT128 and the renderer: Lidar (lidar.cc of the   *)
(* Hesai SDK), the loop HesaiLidarSdk::Run of this repository, and the     *)
(* At128Converter that owns them.                                          *)
(*                                                                         *)
(*   receive  datagrams go to a ring, and one empty packet per silence;    *)
(*   run      takes them, decodes them, hands each to the parser over a    *)
(*            second ring, and publishes the frame once it is complete;    *)
(*   parser   computes the points of each packet into the frame;           *)
(*   main     constructs, starts and stops.                                *)
(*                                                                         *)
(* run and parser share frame_ without a lock.  A measurement packet is    *)
(* its number n; a field of the lidar has FieldSize of them.  What one     *)
(* packet decodes to is HesaiParser's: here, whether it ends a frame.      *)
(***************************************************************************)
EXTENDS Integers, Sequences, FiniteSets

CONSTANTS FieldSize,               \* packets of a field
          RING_SIZE,               \* kPacketBufferSize, 36000 in the code
          kMaxPacketNumPerFrame,   \* 4000 in the code
          kMinPackets,             \* kMinPointsOfOneFrame, in packets
          kAzimuthTolerance,       \* 10 degrees, in packets: a gap beyond it ends a frame
          CpuNums,                 \* processors of the host
          Before,                  \* packets of the lidar's before the first that is sent here
          MaxDatagrams,            \* bound: datagrams that are sent, with those before
          MaxOthers                \* bound: of these, lost or not of measurements

ASSUME HesaiLidarConstants ==
  /\ FieldSize \in Nat \ {0} /\ RING_SIZE \in Nat \ {0} /\ kMaxPacketNumPerFrame \in Nat \ {0}
  /\ kMinPackets \in Nat /\ kAzimuthTolerance \in Nat /\ CpuNums \subseteq Nat
  /\ Before \in Nat /\ MaxDatagrams \in Nat /\ MaxOthers \in Nat

VARIABLES mainPc, running_, is_thread_runing_,
          receivePc, udp_packet, is_timeout_, sent, others,
          origin_packets_buffer_, decoded_packets_buffer_,
          use_angle_, last,     \* last: the last packet decoded, 0 at first
          runPc, decoded_packet, packet_index,
          parserPc, parserPacket,
          frame_,
          handed,       \* the packets handed to the parser since the last Update
          rough         \* the parser has been late, or early, for this frame

mainVars_ == <<mainPc, running_, is_thread_runing_>>
receiveVars == <<receivePc, udp_packet, is_timeout_, sent, others>>
decoderVars == <<use_angle_, last>>
runVars == <<runPc, decoded_packet, packet_index, handed>>
parserVars == <<parserPc, parserPacket>>

lidarVars == <<mainVars_, receiveVars, origin_packets_buffer_, decoded_packets_buffer_, decoderVars,
               runVars, parserVars, frame_, rough>>

\* A decoded packet: does it complete a frame, has it points, which, and its index.
\* The stack of a new thread is zero.
Zeros == [scan_complete |-> FALSE, valid |-> FALSE, n |-> 0, packet_index |-> 0]

NoPacket == [kind |-> "bad", n |-> 0]

NewLidarFrame == [points |-> [i \in 0 .. kMaxPacketNumPerFrame - 1 |-> 0],
                  packets |-> 0,               \* points_num, in packets
                  packet_num |-> 0]

Updated(frame) == [frame EXCEPT !.packets = 0, !.packet_num = -1]

FieldOf(n) == (n + FieldSize - 1) \div FieldSize
Jumps(m, n) == FieldOf(n) # FieldOf(m) \/ n > m + kAzimuthTolerance
EndsField(n) == n # 0 /\ n % FieldSize = 0

\* The rings (try_pop_front is Head and Tail, where there is one).
Full(ring) == Len(ring) >= RING_SIZE

-----------------------------------------------------------------------------
\* RecieveUdpThread

ReceiveStops ==
  /\ receivePc = "receive" /\ ~running_
  /\ receivePc' = "exited"
  /\ UNCHANGED <<mainVars_, udp_packet, is_timeout_, sent, others, origin_packets_buffer_,
                 decoded_packets_buffer_, decoderVars, runVars, parserVars, frame_, rough>>

\* A datagram: of measurements, undecodable, or a fault message.  (A receive that fails and
\* a GPS datagram are stuttering steps.)
ReceiveSome ==
  /\ receivePc = "receive" /\ running_ /\ sent < MaxDatagrams
  /\ \E kind \in {"data", "bad", "fault"} :
       /\ udp_packet' = [kind |-> kind, n |-> IF kind = "data" THEN sent + 1 ELSE 0]
       /\ others' = IF kind = "data" THEN others ELSE others + 1
       /\ others' <= MaxOthers
  /\ sent' = sent + 1
  /\ receivePc' = "queue"
  /\ UNCHANGED <<mainVars_, is_timeout_, origin_packets_buffer_, decoded_packets_buffer_,
                 decoderVars, runVars, parserVars, frame_, rough>>

\* select's time is up: the first time since the last datagram it counts as a packet.
ReceiveNone ==
  /\ receivePc = "receive" /\ running_ /\ ~is_timeout_
  /\ udp_packet' = [kind |-> "timeout", n |-> 0]
  /\ receivePc' = "queue"
  /\ UNCHANGED <<mainVars_, is_timeout_, sent, others, origin_packets_buffer_, decoded_packets_buffer_,
                 decoderVars, runVars, parserVars, frame_, rough>>

\* It waits while the ring is full, unless it is to end.  (Its own copy is not read again.)
ReceiveQueue ==
  /\ receivePc = "queue" /\ (running_ => ~Full(origin_packets_buffer_))
  /\ udp_packet' = NoPacket
  /\ IF running_
     THEN /\ origin_packets_buffer_' = Append(origin_packets_buffer_, udp_packet)
          /\ receivePc' = "receive"
          /\ is_timeout_' = IF udp_packet.kind = "fault" THEN is_timeout_
                            ELSE udp_packet.kind = "timeout"
     ELSE receivePc' = "exited" /\ UNCHANGED <<origin_packets_buffer_, is_timeout_>>
  /\ UNCHANGED <<mainVars_, sent, others, decoded_packets_buffer_, decoderVars, runVars,
                 parserVars, frame_, rough>>

\* The network loses a datagram (fewer in a row than a turn of the lidar has).
DatagramLost ==
  /\ receivePc = "receive" /\ running_ /\ sent < MaxDatagrams /\ others < MaxOthers
  /\ sent' = sent + 1 /\ others' = others + 1
  /\ UNCHANGED <<mainVars_, receivePc, udp_packet, is_timeout_, origin_packets_buffer_,
                 decoded_packets_buffer_, decoderVars, runVars, parserVars, frame_, rough>>

Receiving == ReceiveStops \/ ReceiveSome \/ ReceiveNone \/ ReceiveQueue

-----------------------------------------------------------------------------
\* HesaiLidarSdk::Run

\* DecodePacket of the AT128 (HesaiParser!Decode4_3), as far as frames depend on it: d is
\* the result, angle whether jumps of the azimuth still split, l the last packet.
Decoded(pkt, d, angle, l) ==
  \/ /\ pkt.kind = "data"
     /\ d = [scan_complete |-> use_angle_ /\ last # 0 /\ Jumps(last, pkt.n),
             valid |-> TRUE, n |-> pkt.n, packet_index |-> decoded_packet.packet_index]
     /\ angle = use_angle_ /\ l = pkt.n
  \/ /\ pkt.kind = "bad" \/ (pkt.kind = "timeout" /\ ~EndsField(last))
     /\ d = [decoded_packet EXCEPT !.scan_complete = FALSE, !.valid = FALSE, !.n = 0]
     /\ angle = use_angle_ /\ l = last
  \/ /\ pkt.kind = "timeout" /\ EndsField(last)
     /\ d = [decoded_packet EXCEPT !.scan_complete = TRUE, !.valid = FALSE, !.n = 0]
     /\ angle = FALSE /\ l = last
  \/ \* a silence within a field, decoded from the last datagram's bytes
     /\ pkt.kind = "timeout" /\ last # 0 /\ ~EndsField(last)
     /\ d = [decoded_packet EXCEPT !.scan_complete = FALSE, !.valid = TRUE, !.n = last]
     /\ angle = use_angle_ /\ l = last

RunBegins ==
  /\ runPc = "new"
  /\ is_thread_runing_' = TRUE
  /\ decoded_packet' = Zeros /\ packet_index' = 0
  /\ runPc' = "loop"
  /\ UNCHANGED <<mainPc, running_, receiveVars, origin_packets_buffer_, decoded_packets_buffer_,
                 decoderVars, handed, parserVars, frame_, rough>>

RunStops ==
  /\ runPc = "loop" /\ ~is_thread_runing_
  /\ runPc' = "exited"
  /\ UNCHANGED <<mainVars_, receiveVars, origin_packets_buffer_, decoded_packets_buffer_,
                 decoderVars, decoded_packet, packet_index, handed, parserVars, frame_, rough>>

\* GetOnePacket and DecodePacket.  (Without a packet the loop begins anew.)
RunTakes ==
  /\ runPc = "loop" /\ is_thread_runing_ /\ origin_packets_buffer_ # <<>>
  /\ origin_packets_buffer_' = Tail(origin_packets_buffer_)
  /\ \/ /\ Head(origin_packets_buffer_).kind = "fault"        \* FaultMessageCallback
        /\ UNCHANGED <<runPc, decoded_packet, use_angle_, last>>
     \/ /\ Decoded(Head(origin_packets_buffer_), decoded_packet', use_angle_', last')
        /\ runPc' = IF decoded_packet'.scan_complete THEN "wait" ELSE "store"
  /\ UNCHANGED <<mainVars_, receiveVars, decoded_packets_buffer_, packet_index, handed, parserVars,
                 frame_, rough>>

\* Mutant: the frame is published without waiting for the parser.
CompleteAtOnce(index) == TRUE

ComputeXYZIComplete(index) == frame_.packet_num = index

RunWaits ==
  /\ runPc = "wait" /\ ComputeXYZIComplete(decoded_packet.packet_index)
  /\ runPc' = "publish"
  /\ UNCHANGED <<mainVars_, receiveVars, origin_packets_buffer_, decoded_packets_buffer_,
                 decoderVars, decoded_packet, packet_index, handed, parserVars, frame_, rough>>

ParserIsQuiet == decoded_packets_buffer_ = <<>> /\ parserPc \in {"none", "pop"}

\* The callback takes the frame if there is enough in it; then it is emptied for the next
\* one, whose first packet is the one that completed this one, if it has points.
RunPublishes ==
  /\ runPc = "publish"
  /\ frame_' = Updated(frame_)
  /\ packet_index' = 0 /\ handed' = <<>>
  /\ rough' = ~ParserIsQuiet
  /\ runPc' = IF decoded_packet.valid THEN "store" ELSE "loop"
  /\ UNCHANGED <<mainVars_, receiveVars, origin_packets_buffer_, decoded_packets_buffer_,
                 decoderVars, decoded_packet, parserVars>>

\* Lidar::ComputeXYZI: it waits while the ring is full.
RunStores ==
  /\ runPc = "store" /\ ~Full(decoded_packets_buffer_)
  /\ LET packet == [decoded_packet EXCEPT !.packet_index = packet_index]
     IN  /\ decoded_packet' = packet
         /\ decoded_packets_buffer_' = Append(decoded_packets_buffer_, packet)
         /\ handed' = Append(handed, packet.n)
  /\ packet_index' = packet_index + 1
  /\ runPc' = IF ~decoded_packet.scan_complete /\ packet_index' >= kMaxPacketNumPerFrame
              THEN "reset" ELSE "loop"
  /\ UNCHANGED <<mainVars_, receiveVars, origin_packets_buffer_, decoderVars, parserVars, frame_,
                 rough>>

\* "fail to start a new frame": the parser is not waited for.
RunResets ==
  /\ runPc = "reset"
  /\ frame_' = Updated(frame_)
  /\ packet_index' = 0 /\ handed' = <<>>
  /\ rough' = TRUE
  /\ runPc' = "loop"
  /\ UNCHANGED <<mainVars_, receiveVars, origin_packets_buffer_, decoded_packets_buffer_,
                 decoderVars, decoded_packet, parserVars>>

Running == RunBegins \/ RunStops \/ RunTakes \/ RunWaits \/ RunPublishes \/ RunStores \/ RunResets

-----------------------------------------------------------------------------
\* ParserThread

ParserStops ==
  /\ parserPc = "pop" /\ ~running_
  /\ parserPc' = "exited"
  /\ UNCHANGED <<mainVars_, receiveVars, origin_packets_buffer_, decoded_packets_buffer_,
                 decoderVars, runVars, parserPacket, frame_, rough>>

ParserPops ==
  /\ parserPc = "pop" /\ running_ /\ decoded_packets_buffer_ # <<>>
  /\ parserPacket' = Head(decoded_packets_buffer_)
  /\ decoded_packets_buffer_' = Tail(decoded_packets_buffer_)
  /\ parserPc' = "points"
  /\ UNCHANGED <<mainVars_, receiveVars, origin_packets_buffer_, decoderVars, runVars, frame_, rough>>

\* Mutant: nothing is computed when there is no packet.
SkipsStale == FALSE /\ UNCHANGED lidarVars

\* 100 ms without a packet: decoded_packet, declared anew but in its old place, still holds
\* the last one, which is computed again.
ParserTimesOut ==
  /\ parserPc = "pop" /\ running_ /\ decoded_packets_buffer_ = <<>>
  /\ parserPc' = "points"
  /\ rough' = TRUE
  /\ UNCHANGED <<mainVars_, receiveVars, origin_packets_buffer_, decoded_packets_buffer_,
                 decoderVars, runVars, parserPacket, frame_>>

\* ComputeXYZI: the points first, then the two numbers.
ParserPoints ==
  /\ parserPc = "points"
  /\ frame_' = IF parserPacket.valid
               THEN [frame_ EXCEPT !.points[parserPacket.packet_index] = parserPacket.n] ELSE frame_
  /\ parserPc' = "numbers"
  /\ UNCHANGED <<mainVars_, receiveVars, origin_packets_buffer_, decoded_packets_buffer_,
                 decoderVars, runVars, parserPacket, rough>>

\* The number of points is capped here where it is beyond what the frame holds.
ParserNumbers ==
  /\ parserPc = "numbers"
  /\ frame_' = [frame_ EXCEPT !.packets = IF parserPacket.valid /\ @ <= kMaxPacketNumPerFrame
                                          THEN @ + 1 ELSE @,
                              !.packet_num = parserPacket.packet_index]
  /\ parserPc' = "pop"
  /\ UNCHANGED <<mainVars_, receiveVars, origin_packets_buffer_, decoded_packets_buffer_,
                 decoderVars, runVars, parserPacket, rough>>

Parsing == ParserStops \/ ParserPops \/ ParserTimesOut \/ ParserPoints \/ ParserNumbers

-----------------------------------------------------------------------------
\* At128Converter: Lidar::Init, Start, Stop and ~Lidar

\* SetThreadNum(1): where there are two processors the count is already right, and no
\* thread is started.
SetThreadNum(cpus) ==
  LET started == cpus # 2
  IN  /\ receivePc = IF started THEN "receive" ELSE "none"
      /\ parserPc = IF started THEN "pop" ELSE "none"

\* After Init, which waits for no packet: SetLidarType has made the AT128's parser before.
LidarInit ==
  /\ mainPc = "idle" /\ running_ = TRUE /\ is_thread_runing_ = FALSE
  /\ \E cpus \in CpuNums : SetThreadNum(cpus)
  /\ udp_packet = NoPacket /\ is_timeout_ = FALSE /\ sent = Before /\ others = 0
  /\ origin_packets_buffer_ = <<>> /\ decoded_packets_buffer_ = <<>>
  /\ use_angle_ = TRUE /\ last = 0
  /\ runPc = "none" /\ decoded_packet = Zeros /\ packet_index = 0
  /\ parserPacket = Zeros
  /\ frame_ = NewLidarFrame
  /\ handed = <<>> /\ rough = FALSE

StartRun ==
  /\ mainPc = "idle"
  /\ mainPc' = "running" /\ runPc' = "new"
  /\ UNCHANGED <<running_, is_thread_runing_, receiveVars, origin_packets_buffer_,
                 decoded_packets_buffer_, decoderVars, decoded_packet, packet_index, handed,
                 parserVars, frame_, rough>>

StopRun ==
  /\ mainPc = "running"
  /\ mainPc' = "joinRun" /\ is_thread_runing_' = FALSE
  /\ UNCHANGED <<running_, receiveVars, origin_packets_buffer_, decoded_packets_buffer_,
                 decoderVars, runVars, parserVars, frame_, rough>>

JoinRun ==
  /\ mainPc = "joinRun" /\ runPc = "exited"
  /\ mainPc' = "joinReceive" /\ running_' = FALSE
  /\ UNCHANGED <<is_thread_runing_, receiveVars, origin_packets_buffer_, decoded_packets_buffer_,
                 decoderVars, runVars, parserVars, frame_, rough>>

\* recieve_packet_thread_ptr_ is null where no thread was started.
JoinReceive ==
  /\ mainPc = "joinReceive" /\ receivePc \in {"none", "exited"}
  /\ mainPc' = "joinParser"
  /\ UNCHANGED <<running_, is_thread_runing_, receiveVars, origin_packets_buffer_,
                 decoded_packets_buffer_, decoderVars, runVars, parserVars, frame_, rough>>

\* But parser_thread_ptr_ has no value there: the destructor finds a null, or it joins and
\* deletes what was never a thread, and nothing is known of it ("lost").
JoinParser ==
  /\ mainPc = "joinParser" /\ parserPc \in {"none", "exited"}
  /\ \/ mainPc' = "done"
     \/ parserPc = "none" /\ mainPc' = "lost"
  /\ UNCHANGED <<running_, is_thread_runing_, receiveVars, origin_packets_buffer_,
                 decoded_packets_buffer_, decoderVars, runVars, parserVars, frame_, rough>>

Joining == JoinRun \/ JoinReceive \/ JoinParser

LidarNext == \/ Receiving \/ DatagramLost \/ Running \/ Parsing
             \/ StartRun \/ StopRun \/ Joining

\* The scheduler runs every thread, and receiving and popping have time limits.
LidarSpec == /\ LidarInit /\ [][LidarNext]_lidarVars
             /\ WF_lidarVars(Receiving) /\ WF_lidarVars(Running) /\ WF_lidarVars(Parsing)
             /\ WF_lidarVars(Joining)

-----------------------------------------------------------------------------
\* Properties

\* The frame the callback gets has the points of exactly the packets handed to the parser
\* for it, each at its place, and of one field as long as the azimuth splits, although the
\* two threads share it without a lock: packet_num is what orders them.  Not so where the
\* parser was late for 100 ms, where a frame was given up, and where a packet had no points.
FrameExact ==
  runPc = "publish" /\ frame_.packets > kMinPackets /\ ~rough /\ (\A i \in DOMAIN handed : handed[i] # 0) =>
    /\ frame_.packets = Len(handed)
    /\ \A i \in DOMAIN handed : frame_.points[i - 1] = handed[i]
    /\ use_angle_ => Cardinality({FieldOf(handed[i]) : i \in DOMAIN handed}) = 1

\* stop returns once Run has begun, whatever arrives: nobody waits for ever for a place in a
\* ring, for a packet, or for the parser to reach the packet that Run waits for.  Not so on a
\* host with two processors, where it may follow a pointer that nobody set.
StopReturns ==
  (mainPc = "joinRun" /\ runPc # "new" /\ ~is_thread_runing_) ~>
     (mainPc = "done" \/ (mainPc = "lost" /\ parserPc = "none"))

=============================================================================
