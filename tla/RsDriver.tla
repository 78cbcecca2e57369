------------------------------ MODULE RsDriver ------------------------------
(***************************************************************************)
(* The threads between a RoboSense lidar and the renderer: LidarDriverImpl *)
(* with its inputs (rs_driver-1.5.10) and the RSBPConverter that owns it.  *)
(*                                                                         *)
(*   recv    reads datagrams or a capture file into packet buffers;        *)
(*   handle  decodes the buffers into the point cloud, hands every         *)
(*           complete cloud over and gives the buffers back;               *)
(*   conv    copies each cloud into the frame the snapshots show and gives *)
(*           the cloud back;                                               *)
(*   main    starts and stops the three.                                   *)
(*                                                                         *)
(* Buffers and clouds are shared pointers that go round between two queues *)
(* each; one nobody holds is freed, and its address may be used again.     *)
(* What the decoder makes of a packet is RsDecoder's; here a measurement   *)
(* packet is its number n, at position Pos(n) of a turn of TurnSize ones.  *)
(***************************************************************************)
EXTENDS Integers, Sequences, FiniteSets

CONSTANTS Buffers, CloudAddrs,  \* the addresses of packet buffers and clouds
          NoBuffer, NoCloud,    \* null pointers
          Inputs,               \* tried: "sock", "pcap", "pcap_jumbo", "raw"
          TurnSize,             \* packets in a turn of the lidar
          PACKET_POOL_MAX,      \* 1024 in the code
          MaxMsops,             \* bound: measurement packets received
          MaxOthers,            \* bound: other packets received
          MaxSessions           \* bound: calls of start

ASSUME RsDriverConstants ==
  /\ NoBuffer \notin Buffers /\ NoCloud \notin CloudAddrs
  /\ IsFiniteSet(CloudAddrs) /\ CloudAddrs # {}
  /\ TurnSize \in Nat \ {0} /\ PACKET_POOL_MAX \in Nat \ {0}
  /\ MaxMsops \in Nat /\ MaxOthers \in Nat /\ MaxSessions \in Nat

VARIABLES inputType, repeat,        \* the input and its pcap_repeat
          init_flag_, start_flag_, inputStarted,
          mainPc,                   \* "idle", then where stop waits, or "crashed"
          sessions,
          to_exit_recv_, to_exit_handle_, _is_exit,
          pcap_,                    \* is the capture file open?
          recvPc, ready, recvPkt,   \* ready: sockets still to be read in this pass
          overflow,                 \* is a queue past its limit about to be emptied?
          handlePc, handlePkt,
          free_pkt_queue_, pkt_queue_,
          data,                     \* what each buffer holds
          angles_ready_,
          prev,                     \* position of the last packet decoded
          point_cloud_, points,     \* the decoder's cloud; the packets in each cloud
          convPc, convCloud, frameMutex, _frame,
          free_cloud_queue, stuffed_cloud_queue,
          msops, others,            \* packets received: of measurement, and others
          lost                      \* measurement packets given up since

recvVars == <<to_exit_recv_, pcap_, recvPc, ready, recvPkt, overflow, msops, others>>
handleVars == <<to_exit_handle_, handlePc, handlePkt, angles_ready_, prev>>
cloudVars == <<point_cloud_, points, free_cloud_queue, stuffed_cloud_queue>>
convVars == <<_is_exit, convPc, convCloud, frameMutex, _frame>>
mainVars == <<inputType, repeat, init_flag_, start_flag_, inputStarted, mainPc, sessions>>
pktVars == <<free_pkt_queue_, pkt_queue_, data>>

driverVars == <<recvVars, handleVars, cloudVars, convVars, mainVars, pktVars, lost>>

Contents == [id : {"msop"}, n : 1 .. MaxMsops] \cup [id : {"difop", "other"}, n : {0}]
DifopPacket == [id |-> "difop", n |-> 0]
Other == [id |-> "other", n |-> 0]
MsopPacket(n) == [id |-> "msop", n |-> n]

Pos(n) == 1 + ((n - 1) % TurnSize)

Elements(q) == {q[i] : i \in DOMAIN q}

\* The packets numbered in a sequence of contents.
Numbers(contents) == {c.n : c \in {d \in contents : d.id = "msop"}}

-----------------------------------------------------------------------------
\* Buffers and clouds

BuffersHeld == Elements(free_pkt_queue_) \cup Elements(pkt_queue_) \cup {recvPkt, handlePkt}

CloudsHeld == Elements(free_cloud_queue) \cup Elements(stuffed_cloud_queue)
                \cup {point_cloud_, convCloud}

\* make_shared: any address that is not in use will do.
New(unused) == CHOOSE a \in unused : TRUE

\* packetGet: the oldest free buffer, or a new one; b is what the caller gets.
packetGet(b) ==
  \/ /\ free_pkt_queue_ # <<>>
     /\ b = Head(free_pkt_queue_)
     /\ free_pkt_queue_' = Tail(free_pkt_queue_)
  \/ /\ free_pkt_queue_ = <<>>
     /\ Buffers \ BuffersHeld # {}
     /\ b = New(Buffers \ BuffersHeld)
     /\ UNCHANGED free_pkt_queue_

\* packetPut of a stuffed buffer, up to the size that push returns.
packetPut(b) ==
  LET q == Append(pkt_queue_, b)
  IN  pkt_queue_' = q /\ overflow' = (Len(q) > PACKET_POOL_MAX)

\* The rest of packetPut: a queue that was past its limit is emptied, in a lock section of
\* its own; the handle thread may have taken packets since.
PacketClear ==
  /\ overflow /\ overflow' = FALSE
  /\ pkt_queue_' = <<>>
  /\ lost' = lost \cup Numbers({data[b] : b \in Elements(pkt_queue_)})
  /\ UNCHANGED <<to_exit_recv_, pcap_, recvPc, ready, recvPkt, msops, others, handleVars, cloudVars,
                 convVars, mainVars, free_pkt_queue_, data>>

\* Mutant: a recycled cloud keeps its points.
KeepsPoints ==
  \/ /\ free_cloud_queue # <<>>
     /\ point_cloud_' = Head(free_cloud_queue)
     /\ free_cloud_queue' = Tail(free_cloud_queue)
     /\ UNCHANGED points
  \/ /\ free_cloud_queue = <<>>
     /\ CloudAddrs \ CloudsHeld # {}
     /\ point_cloud_' = New(CloudAddrs \ CloudsHeld)
     /\ UNCHANGED <<free_cloud_queue, points>>

\* getPointCloud with the converter's callback: a free cloud or a new one, emptied.
getPointCloud ==
  /\ \/ /\ free_cloud_queue # <<>>
        /\ point_cloud_' = Head(free_cloud_queue)
        /\ free_cloud_queue' = Tail(free_cloud_queue)
     \/ /\ free_cloud_queue = <<>>
        /\ CloudAddrs \ CloudsHeld # {}
        /\ point_cloud_' = New(CloudAddrs \ CloudsHeld)
        /\ UNCHANGED free_cloud_queue
  /\ points' = [points EXCEPT ![point_cloud_'] = <<>>]

-----------------------------------------------------------------------------
\* The recv thread: InputSock (epoll and select) and InputPcap::recvPacket

RecvStops ==
  /\ recvPc = "loop" /\ to_exit_recv_
  /\ recvPc' = "exited"
  /\ UNCHANGED <<to_exit_recv_, overflow, pcap_, ready, recvPkt, msops, others, handleVars, cloudVars, convVars,
                 mainVars, pktVars, lost>>

\* epoll_wait or select finds sockets to be read, or fails.  (When its time is up, or on an
\* interrupt, the loop begins anew: a stuttering step, as in the other threads' waits.)
SockWait ==
  /\ recvPc = "loop" /\ ~to_exit_recv_ /\ inputType = "sock"
  /\ \/ recvPc' = "read" /\ ready' \in SUBSET {"msop", "difop"} \ {{}}
     \/ recvPc' = "exited" /\ UNCHANGED ready
  /\ UNCHANGED <<to_exit_recv_, overflow, pcap_, recvPkt, msops, others, handleVars, cloudVars, convVars,
                 mainVars, pktVars, lost>>

\* The next socket to be read, or the next wait.
AfterRead(sockets) == IF sockets = {} THEN "loop" ELSE "read"

\* What comes in at a port of the lidar.
Arrives(port, c) ==
  \/ port = "msop" /\ msops < MaxMsops /\ c = MsopPacket(msops + 1)
  \/ port = "difop" /\ others < MaxOthers /\ c \in {DifopPacket, Other}

Counted(c) == IF c.id = "msop" THEN msops' = c.n /\ UNCHANGED others
                               ELSE others' = others + 1 /\ UNCHANGED msops

\* recvfrom fills the buffer.
SockReceive ==
  /\ recvPc = "read"
  /\ \E port \in ready, b \in Buffers, c \in Contents :
       /\ Arrives(port, c)
       /\ packetGet(b)
       /\ data' = [data EXCEPT ![b] = c]
       /\ recvPkt' = b
       /\ ready' = ready \ {port}
       /\ Counted(c)
  /\ recvPc' = "push"
  /\ UNCHANGED <<to_exit_recv_, overflow, pcap_, handleVars, cloudVars, convVars, mainVars, pkt_queue_, lost>>

\* An empty datagram: the buffer is dropped.
SockEmpty ==
  /\ recvPc = "read"
  /\ \E port \in ready, b \in Buffers :
       /\ packetGet(b)
       /\ ready' = ready \ {port}
       /\ recvPc' = AfterRead(ready \ {port})
  /\ UNCHANGED <<to_exit_recv_, overflow, pcap_, recvPkt, msops, others, handleVars, cloudVars, convVars,
                 mainVars, pkt_queue_, data, lost>>

\* recvfrom fails and the buffer is dropped: the thread built with epoll ends, the
\* one built with select goes on.
SockFails ==
  /\ recvPc = "read"
  /\ \E port \in ready, b \in Buffers : packetGet(b)
  /\ recvPc' \in {"exited", "loop"}
  /\ ready' = {}
  /\ UNCHANGED <<to_exit_recv_, overflow, pcap_, recvPkt, msops, others, handleVars, cloudVars, convVars,
                 mainVars, pkt_queue_, data, lost>>

RecvPush ==
  /\ recvPc = "push"
  /\ packetPut(recvPkt)
  /\ recvPkt' = NoBuffer
  /\ recvPc' = AfterRead(ready)
  /\ UNCHANGED <<to_exit_recv_, pcap_, ready, msops, others, handleVars, cloudVars, convVars, mainVars,
                 free_pkt_queue_, data, lost>>

PcapInputs == {"pcap", "pcap_jumbo"}

PcapCopy ==
  /\ \E port \in {"msop", "difop"}, b \in Buffers, c \in Contents :
       /\ Arrives(port, c)
       /\ packetGet(b)
       /\ data' = [data EXCEPT ![b] = c]
       /\ recvPkt' = b
       /\ Counted(c)
  /\ recvPc' = "push"
  /\ UNCHANGED <<to_exit_recv_, overflow, pcap_, ready, handleVars, cloudVars, convVars, mainVars,
                 pkt_queue_, lost>>

\* A packet of the capture that one of the filters lets through (the others are skipped).
PcapPacket ==
  /\ recvPc = "loop" /\ ~to_exit_recv_ /\ inputType = "pcap" /\ pcap_
  /\ PcapCopy

\* A fragment that completes a message to one of the ports (RsJumbo).
PcapJumboPacket ==
  /\ recvPc = "loop" /\ ~to_exit_recv_ /\ inputType = "pcap_jumbo" /\ pcap_
  /\ PcapCopy

\* The end of the file: it is opened anew, which may fail unnoticed, or the thread ends.
PcapEnd ==
  /\ recvPc = "loop" /\ ~to_exit_recv_ /\ inputType \in PcapInputs /\ pcap_
  /\ \/ repeat /\ pcap_' \in BOOLEAN /\ recvPc' = "loop"
     \/ ~repeat /\ pcap_' = FALSE /\ recvPc' = "exited"
  /\ UNCHANGED <<to_exit_recv_, overflow, ready, recvPkt, msops, others, handleVars, cloudVars, convVars,
                 mainVars, pktVars, lost>>

\* pcap_next_ex of a capture that is closed.
PcapCrash ==
  /\ recvPc = "loop" /\ ~to_exit_recv_ /\ inputType \in PcapInputs /\ ~pcap_
  /\ mainPc' = "crashed"
  /\ UNCHANGED <<recvVars, handleVars, cloudVars, convVars, inputType, repeat, init_flag_,
                 start_flag_, inputStarted, sessions, pktVars, lost>>

\* decodePacket in a thread of the caller: InputRaw::feedPacket, started or not.
FeedPacket ==
  /\ inputType = "raw" /\ init_flag_ /\ recvPkt = NoBuffer
  /\ \E port \in {"msop", "difop"}, b \in Buffers, c \in Contents :
       /\ Arrives(port, c)
       /\ packetGet(b)
       /\ data' = [data EXCEPT ![b] = c]
       /\ recvPkt' = b
       /\ Counted(c)
  /\ UNCHANGED <<to_exit_recv_, overflow, pcap_, recvPc, ready, handleVars, cloudVars, convVars, mainVars,
                 pkt_queue_, lost>>

FeedPush ==
  /\ inputType = "raw" /\ recvPkt # NoBuffer
  /\ packetPut(recvPkt)
  /\ recvPkt' = NoBuffer
  /\ UNCHANGED <<to_exit_recv_, pcap_, recvPc, ready, msops, others, handleVars, cloudVars, convVars,
                 mainVars, free_pkt_queue_, data, lost>>

Recv == \/ RecvStops \/ SockWait \/ SockReceive \/ SockEmpty \/ SockFails \/ RecvPush
        \/ PcapPacket \/ PcapJumboPacket \/ PcapEnd \/ PcapCrash

-----------------------------------------------------------------------------
\* The handle thread: processPacket

HandleStops ==
  /\ handlePc = "loop" /\ to_exit_handle_
  /\ handlePc' = "exited"
  /\ UNCHANGED <<to_exit_handle_, handlePkt, angles_ready_, prev, recvVars, cloudVars, convVars,
                 mainVars, pktVars, lost>>

\* popWait gives a packet.
HandlePop ==
  /\ handlePc = "loop" /\ ~to_exit_handle_ /\ pkt_queue_ # <<>>
  /\ handlePkt' = Head(pkt_queue_) /\ pkt_queue_' = Tail(pkt_queue_)
  /\ handlePc' = "decode"
  /\ UNCHANGED <<to_exit_handle_, angles_ready_, prev, recvVars, cloudVars, convVars, mainVars,
                 free_pkt_queue_, data, lost>>

\* internalProcessPacket up to the split: a device packet makes the angles known; a
\* measurement packet before that is refused, and one that begins a turn splits, which
\* hands the cloud over if there are points in it.
HandleDecode ==
  /\ handlePc = "decode"
  /\ LET c == data[handlePkt]
         isMsop == c.id = "msop" /\ angles_ready_
         split == isMsop /\ Pos(c.n) <= prev
     IN  /\ angles_ready_' = (angles_ready_ \/ c.id = "difop")
         /\ lost' = IF c.id = "msop" /\ ~angles_ready_ THEN lost \cup {c.n} ELSE lost
         /\ prev' = IF isMsop THEN Pos(c.n) ELSE prev
         /\ IF split /\ points[point_cloud_] # <<>>
            THEN /\ stuffed_cloud_queue' = Append(stuffed_cloud_queue, point_cloud_)
                 /\ handlePc' = "split"
            ELSE /\ UNCHANGED stuffed_cloud_queue
                 /\ handlePc' = IF isMsop THEN "points" ELSE "release"
  /\ UNCHANGED <<to_exit_handle_, handlePkt, recvVars, point_cloud_, points, free_cloud_queue,
                 convVars, mainVars, pktVars>>

\* Mutant: the decoder goes on writing to the cloud it has handed over.
SplitKeepsCloud ==
  /\ handlePc = "split"
  /\ handlePc' = "points"
  /\ UNCHANGED <<to_exit_handle_, handlePkt, angles_ready_, prev, recvVars, cloudVars,
                 convVars, mainVars, pktVars, lost>>

\* The rest of splitFrame: until now the decoder's cloud is the one handed over.
HandleSplit ==
  /\ handlePc = "split"
  /\ getPointCloud
  /\ handlePc' = "points"
  /\ UNCHANGED <<to_exit_handle_, handlePkt, angles_ready_, prev, recvVars, stuffed_cloud_queue,
                 convVars, mainVars, pktVars, lost>>

HandlePoints ==
  /\ handlePc = "points"
  /\ points' = [points EXCEPT ![point_cloud_] = Append(@, data[handlePkt].n)]
  /\ handlePc' = "release"
  /\ UNCHANGED <<to_exit_handle_, handlePkt, angles_ready_, prev, recvVars, point_cloud_,
                 free_cloud_queue, stuffed_cloud_queue, convVars, mainVars, pktVars, lost>>

HandleRelease ==
  /\ handlePc = "release"
  /\ free_pkt_queue_' = Append(free_pkt_queue_, handlePkt)
  /\ handlePkt' = NoBuffer
  /\ handlePc' = "loop"
  /\ UNCHANGED <<to_exit_handle_, angles_ready_, prev, recvVars, cloudVars, convVars, mainVars,
                 pkt_queue_, data, lost>>

Handle == \/ HandleStops \/ HandlePop \/ HandleDecode \/ HandleSplit \/ HandlePoints
          \/ HandleRelease

-----------------------------------------------------------------------------
\* The converter's thread: process_points

ConvStops ==
  /\ convPc = "loop" /\ _is_exit
  /\ convPc' = "exited"
  /\ UNCHANGED <<_is_exit, convCloud, frameMutex, _frame, recvVars, handleVars, cloudVars,
                 mainVars, pktVars, lost>>

ConvPop ==
  /\ convPc = "loop" /\ ~_is_exit /\ stuffed_cloud_queue # <<>>
  /\ convCloud' = Head(stuffed_cloud_queue)
  /\ stuffed_cloud_queue' = Tail(stuffed_cloud_queue)
  /\ convPc' = "clear"
  /\ UNCHANGED <<_is_exit, frameMutex, _frame, recvVars, handleVars, point_cloud_, points,
                 free_cloud_queue, mainVars, pktVars, lost>>

ConvClear ==
  /\ convPc = "clear" /\ frameMutex = "free"
  /\ frameMutex' = "conv" /\ _frame' = <<>> /\ convPc' = "fill"
  /\ UNCHANGED <<_is_exit, convCloud, recvVars, handleVars, cloudVars, mainVars, pktVars, lost>>

\* One packet's points at a time.
ConvFill ==
  /\ convPc = "fill"
  /\ IF Len(_frame) < Len(points[convCloud])
     THEN /\ _frame' = Append(_frame, points[convCloud][Len(_frame) + 1])
          /\ UNCHANGED <<convPc, frameMutex>>
     ELSE convPc' = "release" /\ frameMutex' = "free" /\ UNCHANGED _frame
  /\ UNCHANGED <<_is_exit, convCloud, recvVars, handleVars, cloudVars, mainVars, pktVars, lost>>

ConvRelease ==
  /\ convPc = "release"
  /\ free_cloud_queue' = Append(free_cloud_queue, convCloud)
  /\ convCloud' = NoCloud
  /\ convPc' = "loop"
  /\ UNCHANGED <<_is_exit, frameMutex, _frame, recvVars, handleVars, point_cloud_, points,
                 stuffed_cloud_queue, mainVars, pktVars, lost>>

Conv == ConvStops \/ ConvPop \/ ConvClear \/ ConvFill \/ ConvRelease

-----------------------------------------------------------------------------
\* RSBPConverter, LidarDriverImpl and Input: init, start, stop

createSocket == BOOLEAN          \* no socket, or a port in use

SockInit == \E msop, difop \in createSocket : init_flag_ = (msop /\ difop)
PcapInit == init_flag_ \in BOOLEAN          \* no such file
PcapJumboInit == init_flag_ \in BOOLEAN

createInput ==
  /\ inputType \in Inputs
  /\ inputType = "sock" => SockInit
  /\ inputType = "pcap" => PcapInit
  /\ inputType = "pcap_jumbo" => PcapJumboInit
  /\ inputType = "raw" => init_flag_ = TRUE

DriverInit ==
  /\ createInput
  /\ repeat \in BOOLEAN /\ (repeat => inputType \in PcapInputs)
  /\ start_flag_ = FALSE /\ inputStarted = FALSE /\ mainPc = "idle" /\ sessions = 0
  /\ to_exit_recv_ = FALSE /\ to_exit_handle_ = FALSE /\ _is_exit = FALSE
  /\ pcap_ = (inputType \in PcapInputs /\ init_flag_)
  /\ recvPc = "none" /\ ready = {} /\ recvPkt = NoBuffer /\ overflow = FALSE
  /\ handlePc = "none" /\ handlePkt = NoBuffer
  /\ free_pkt_queue_ = <<>> /\ pkt_queue_ = <<>>
  /\ data = [b \in Buffers |-> Other]
  /\ angles_ready_ = FALSE /\ prev = 0
  /\ point_cloud_ = New(CloudAddrs) /\ points = [c \in CloudAddrs |-> <<>>]
  /\ convPc = "none" /\ convCloud = NoCloud /\ frameMutex = "free" /\ _frame = <<>>
  /\ free_cloud_queue = <<>> /\ stuffed_cloud_queue = <<>>
  /\ msops \in 0 .. TurnSize - 1       \* the lidar is anywhere in its turn
  /\ others = 0 /\ lost = 1 .. msops

\* RSBPConverter::start: the driver's threads, unless init failed, and the converter's.
Start ==
  /\ mainPc = "idle"
  /\ sessions < MaxSessions /\ sessions' = sessions + 1
  /\ mainPc' = "running"
  /\ IF init_flag_
     THEN /\ to_exit_handle_' = FALSE /\ handlePc' = "loop" /\ start_flag_' = TRUE
          /\ IF inputType = "raw"
             THEN UNCHANGED <<to_exit_recv_, recvPc, inputStarted>>
             ELSE to_exit_recv_' = FALSE /\ recvPc' = "loop" /\ inputStarted' = TRUE
     ELSE UNCHANGED <<to_exit_handle_, handlePc, start_flag_, to_exit_recv_, recvPc, inputStarted>>
  /\ convPc' = "loop"
  /\ UNCHANGED <<inputType, repeat, init_flag_, pcap_, ready, recvPkt, overflow, msops, others, handlePkt,
                 angles_ready_, prev, cloudVars, _is_exit, convCloud, frameMutex, _frame,
                 pktVars, lost>>

\* Input::stop, the first thing stop does.
StopInput ==
  /\ mainPc = "running"
  /\ mainPc' = IF ~start_flag_ THEN "joinConv"
               ELSE IF inputStarted THEN "joinRecv" ELSE "joinHandle"
  /\ to_exit_recv_' = (to_exit_recv_ \/ inputStarted)
  /\ to_exit_handle_' = (to_exit_handle_ \/ (start_flag_ /\ ~inputStarted))
  /\ _is_exit' = (_is_exit \/ ~start_flag_)
  /\ UNCHANGED <<inputType, repeat, init_flag_, start_flag_, inputStarted, sessions, pcap_, recvPc,
                 ready, recvPkt, overflow, msops, others, handlePc, handlePkt, angles_ready_, prev, cloudVars,
                 convPc, convCloud, frameMutex, _frame, pktVars, lost>>

\* recv_thread_.join() returns.
JoinRecv ==
  /\ mainPc = "joinRecv" /\ recvPc = "exited"
  /\ recvPc' = "none" /\ inputStarted' = FALSE
  /\ to_exit_handle_' = TRUE /\ mainPc' = "joinHandle"
  /\ UNCHANGED <<inputType, repeat, init_flag_, start_flag_, sessions, to_exit_recv_, pcap_, ready,
                 recvPkt, overflow, msops, others, handlePc, handlePkt, angles_ready_, prev, cloudVars, convVars,
                 pktVars, lost>>

\* handle_thread_.join() returns; the points are cleared, the packets queued are not.
JoinHandle ==
  /\ mainPc = "joinHandle" /\ handlePc = "exited"
  /\ handlePc' = "none"
  /\ points' = [points EXCEPT ![point_cloud_] = <<>>]
  /\ lost' = lost \cup Elements(points[point_cloud_])
  /\ start_flag_' = FALSE
  /\ _is_exit' = TRUE /\ mainPc' = "joinConv"
  /\ UNCHANGED <<inputType, repeat, init_flag_, inputStarted, sessions, recvVars, to_exit_handle_,
                 handlePkt, angles_ready_, prev, point_cloud_, free_cloud_queue,
                 stuffed_cloud_queue, convPc, convCloud, frameMutex, _frame, pktVars>>

JoinConv ==
  /\ mainPc = "joinConv" /\ convPc = "exited"
  /\ convPc' = "none" /\ mainPc' = "idle"
  /\ UNCHANGED <<inputType, repeat, init_flag_, start_flag_, inputStarted, sessions, recvVars,
                 handleVars, cloudVars, _is_exit, convCloud, frameMutex, _frame, pktVars, lost>>

Join == JoinRecv \/ JoinHandle \/ JoinConv

DriverNext ==
  /\ mainPc # "crashed"
  /\ \/ ~overflow /\ (Recv \/ FeedPacket \/ FeedPush)
     \/ PacketClear \/ Handle \/ Conv
     \/ Start \/ StopInput \/ Join

DriverSpec == DriverInit /\ [][DriverNext]_driverVars

-----------------------------------------------------------------------------
\* Properties

TypeOK ==
  /\ inputType \in Inputs
  /\ start_flag_ \in BOOLEAN /\ inputStarted \in BOOLEAN
  /\ mainPc \in {"idle", "running", "joinRecv", "joinHandle", "joinConv", "crashed"}
  /\ recvPc \in {"none", "loop", "read", "push", "exited"}
  /\ handlePc \in {"none", "loop", "decode", "split", "points", "release", "exited"}
  /\ convPc \in {"none", "loop", "clear", "fill", "release", "exited"}
  /\ free_pkt_queue_ \in Seq(Buffers) /\ pkt_queue_ \in Seq(Buffers)
  /\ free_cloud_queue \in Seq(CloudAddrs) /\ stuffed_cloud_queue \in Seq(CloudAddrs)
  /\ recvPkt \in Buffers \cup {NoBuffer} /\ handlePkt \in Buffers \cup {NoBuffer}
  /\ point_cloud_ \in CloudAddrs /\ convCloud \in CloudAddrs \cup {NoCloud}

NoRepeats(q) == \A i, j \in DOMAIN q : q[i] = q[j] => i = j

Disjoint(A, B) == A \cap B = {}

\* A buffer is in one place: waiting in a queue, being filled, or being decoded.
BufferHasOneHolder ==
  /\ NoRepeats(free_pkt_queue_) /\ NoRepeats(pkt_queue_)
  /\ Disjoint(Elements(free_pkt_queue_), Elements(pkt_queue_))
  /\ Disjoint(Elements(free_pkt_queue_) \cup Elements(pkt_queue_), {recvPkt, handlePkt})
  /\ recvPkt # NoBuffer => recvPkt # handlePkt

\* The cloud the decoder writes to; none while splitFrame asks for the next one.
Decoding == IF handlePc = "split" THEN {} ELSE {point_cloud_}

CloudHasOneHolder ==
  /\ NoRepeats(free_cloud_queue) /\ NoRepeats(stuffed_cloud_queue)
  /\ Disjoint(Elements(free_cloud_queue), Elements(stuffed_cloud_queue))
  /\ Disjoint(Elements(free_cloud_queue) \cup Elements(stuffed_cloud_queue),
              Decoding \cup {convCloud})
  /\ convCloud \notin Decoding

\* Whatever the four threads do, no packet buffer is refilled while it is queued or
\* decoded, and no cloud is written to while it is queued or shown: each has one holder,
\* although both are recycled through lock-protected queues the holders hand them over by
\* (packetGet, packetPut and splitFrame, lidar_driver_impl.hpp:332-412).
OneHolder == BufferHasOneHolder /\ CloudHasOneHolder

\* The packet in a buffer, if there is one of measurement.
Measured(b) == IF b # NoBuffer /\ data[b].id = "msop" THEN {data[b].n} ELSE {}

\* The packets in the pipeline, from the frame that is shown to the last one received.
InFrame == IF convPc = "fill" THEN {} ELSE Elements(_frame)
InCopy == IF convPc \in {"clear", "fill"} THEN Elements(points[convCloud]) ELSE {}
InStuffed == UNION {Elements(points[c]) : c \in Elements(stuffed_cloud_queue)}
InCloud == IF handlePc = "split" THEN {} ELSE Elements(points[point_cloud_])
InHand == IF handlePc = "decode" \/ (handlePc \in {"split", "points"} /\ angles_ready_)
            THEN Measured(handlePkt) ELSE {}
InQueue == UNION {Measured(b) : b \in Elements(pkt_queue_)}
InBuffer == Measured(recvPkt)

Stages == <<InFrame, InCopy, InStuffed, InCloud, InHand, InQueue, InBuffer>>

Pipeline == UNION Elements(Stages)

Before(A, B) == \A a \in A, b \in B : a < b

\* No packet twice or out of order from stage to stage and within the two queues.
InOrder ==
  /\ \A i, j \in DOMAIN Stages : i < j => Before(Stages[i], Stages[j])
  /\ \A i, j \in DOMAIN stuffed_cloud_queue :
       i < j => Before(Elements(points[stuffed_cloud_queue[i]]), Elements(points[stuffed_cloud_queue[j]]))
  /\ \A i, j \in DOMAIN pkt_queue_ : i < j => Before(Measured(pkt_queue_[i]), Measured(pkt_queue_[j]))

Increasing(q) == \A i \in 1 .. Len(q) - 1 : q[i] < q[i + 1]

OfOneTurn(q) == \A i \in 1 .. Len(q) - 1 : Pos(q[i]) < Pos(q[i + 1])

\* From the network to the snapshot no packet is shown twice, out of its order, or under
\* another turn's frame: what is shown, queued and in hand keeps the order of receipt; a
\* packet that is none of this is older than the frame or was given up (no angles yet, pool
\* overflow, stop); and no cloud holds the end of a turn before the beginning of it.
PacketsInOrder ==
  /\ InOrder
  /\ \A n \in 1 .. msops :
       n \in Pipeline \cup lost \/ (Pipeline # {} /\ \A m \in Pipeline : n < m)
  /\ \A q \in {points[c] : c \in CloudAddrs} \cup {_frame} : Increasing(q) /\ OfOneTurn(q)
=============================================================================
