--------------------------- MODULE RsDriver_proofs ---------------------------
(***************************************************************************)
(* No packet buffer and no cloud of RsDriver has two holders, and the      *)
(* packets keep their order, for any number of addresses, any input, any   *)
(* size of the pool and any number of packets and sessions.                *)
(***************************************************************************)
EXTENDS RsDriver, SequenceTheorems, TLAPS

-----------------------------------------------------------------------------
(* Queues: what a put and a take do to the set of a queue's elements.       *)

LEMMA PutElements ==
  ASSUME NEW S, NEW q \in Seq(S), NEW x \in S
  PROVE  /\ Append(q, x) \in Seq(S)
         /\ Elements(Append(q, x)) = Elements(q) \cup {x}
         /\ NoRepeats(q) /\ x \notin Elements(q) => NoRepeats(Append(q, x))
<1> DEFINE p == Append(q, x)
<1>1. /\ p \in Seq(S) /\ Len(p) = Len(q) + 1 /\ Len(q) \in Nat
      /\ DOMAIN q = 1 .. Len(q) /\ DOMAIN p = 1 .. Len(p)
      /\ \A i \in 1 .. Len(q) : p[i] = q[i]
      /\ p[Len(q) + 1] = x
  BY AppendProperties, LenProperties
<1>2. DOMAIN p = DOMAIN q \cup {Len(q) + 1} /\ Len(q) + 1 \notin DOMAIN q
  BY <1>1
<1> HIDE DEF p
<1>3. Elements(p) = Elements(q) \cup {x}
  BY <1>1, <1>2 DEF Elements
<1>4. NoRepeats(q) /\ x \notin Elements(q) => NoRepeats(p)
  BY <1>1, <1>2 DEF Elements, NoRepeats
<1> QED
  BY <1>1, <1>3, <1>4 DEF p

LEMMA TakeElements ==
  ASSUME NEW S, NEW q \in Seq(S), q # <<>>
  PROVE  /\ Head(q) \in S /\ Tail(q) \in Seq(S)
         /\ Elements(q) = {Head(q)} \cup Elements(Tail(q))
         /\ NoRepeats(q) => NoRepeats(Tail(q)) /\ Head(q) \notin Elements(Tail(q))
<1> DEFINE t == Tail(q)
<1>1. /\ Head(q) \in S /\ t \in Seq(S) /\ Len(t) = Len(q) - 1
      /\ \A i \in 1 .. Len(t) : t[i] = q[i + 1]
  BY HeadTailProperties
<1>2. /\ Len(q) \in Nat \ {0} /\ DOMAIN q = 1 .. Len(q) /\ DOMAIN t = 1 .. Len(t)
      /\ Head(q) = q[1]
  BY <1>1, LenProperties, EmptySeq
<1> HIDE DEF t
<1>3. /\ 1 \in DOMAIN q
      /\ \A i \in DOMAIN t : i + 1 \in DOMAIN q /\ i + 1 # 1 /\ t[i] = q[i + 1]
      /\ \A i \in DOMAIN q : i # 1 => i - 1 \in DOMAIN t /\ t[i - 1] = q[i]
  BY <1>1, <1>2
<1>4. Elements(q) = {Head(q)} \cup Elements(t)
  BY <1>2, <1>3 DEF Elements
<1>5. ASSUME NoRepeats(q)
      PROVE  NoRepeats(t) /\ Head(q) \notin Elements(t)
  <2>1. \A i, j \in DOMAIN t : t[i] = t[j] => i = j
    BY <1>2, <1>3, <1>5 DEF NoRepeats
  <2>2. \A i \in DOMAIN t : t[i] # q[1]
    BY <1>2, <1>3, <1>5 DEF NoRepeats
  <2> QED
    BY <1>2, <2>1, <2>2 DEF NoRepeats, Elements
<1> QED
  BY <1>1, <1>4, <1>5 DEF t

LEMMA NoElements ==
  ASSUME NEW S
  PROVE  <<>> \in Seq(S) /\ Elements(<<>>) = {} /\ NoRepeats(<<>>)
  BY DEF Elements, NoRepeats

LEMMA ElementsIn ==
  ASSUME NEW S, NEW q \in Seq(S)
  PROVE  Elements(q) \subseteq S
  BY DEF Elements

\* An address nobody uses.
LEMMA NewIsUnused ==
  ASSUME NEW S, S # {}
  PROVE  New(S) \in S
  BY DEF New

-----------------------------------------------------------------------------
(* Where the threads are: a thread that holds something is at a place where *)
(* it does, and main joins a thread before it starts another.              *)

HandleHolds == {"decode", "split", "points", "release"}

ConvHolds == {"clear", "fill", "release"}

Hands ==
  /\ recvPc = "push" => recvPkt # NoBuffer
  /\ handlePkt # NoBuffer <=> handlePc \in HandleHolds
  /\ convCloud # NoCloud <=> convPc \in ConvHolds

Joined ==
  /\ inputType = "raw" => recvPc = "none"
  /\ inputStarted => start_flag_
  /\ ~inputStarted => recvPc = "none"
  /\ ~start_flag_ => handlePc = "none"
  /\ mainPc \in {"idle", "joinConv"} => ~start_flag_
  /\ mainPc = "joinHandle" => ~inputStarted
  /\ mainPc = "idle" => convPc = "none"

IInv == TypeOK /\ Hands /\ Joined /\ OneHolder

LEMMA InitIInv == DriverInit => IInv
<1> SUFFICES ASSUME DriverInit
             PROVE  IInv
  OBVIOUS
<1> USE RsDriverConstants DEF DriverInit
<1>1. New(CloudAddrs) \in CloudAddrs
  BY NewIsUnused
<1>2. TypeOK
  BY <1>1, NoElements DEF TypeOK, createInput, SockInit, PcapInit, PcapJumboInit
<1>3. Hands /\ Joined
  BY DEF Hands, Joined, HandleHolds, ConvHolds
<1>4. BufferHasOneHolder
  BY NoElements DEF BufferHasOneHolder, Disjoint
<1>5. CloudHasOneHolder
  BY <1>1, NoElements DEF CloudHasOneHolder, Disjoint, Decoding
<1> QED
  BY <1>2, <1>3, <1>4, <1>5 DEF IInv, OneHolder

-----------------------------------------------------------------------------
(* The parts of the state a step leaves alone.                             *)

bufferPart == <<free_pkt_queue_, pkt_queue_, recvPkt, handlePkt>>
cloudPart == <<free_cloud_queue, stuffed_cloud_queue, point_cloud_, convCloud>>
placePart == <<inputType, start_flag_, inputStarted, mainPc, recvPc, handlePc, convPc>>

LEMMA BuffersKept ==
  ASSUME IInv, UNCHANGED bufferPart
  PROVE  BufferHasOneHolder'
  BY DEF IInv, OneHolder, BufferHasOneHolder, bufferPart, NoRepeats, Disjoint, Elements

LEMMA CloudsKept ==
  ASSUME IInv, UNCHANGED cloudPart, handlePc' = "split" \/ handlePc # "split"
  PROVE  CloudHasOneHolder'
  BY DEF IInv, OneHolder, CloudHasOneHolder, cloudPart, NoRepeats, Disjoint, Elements, Decoding

-----------------------------------------------------------------------------
(* The recv thread's use of the buffers.                                   *)

\* packetGet gives a buffer that is not queued and not decoded.
LEMMA GetBuffer ==
  ASSUME IInv, NEW b, packetGet(b)
  PROVE  /\ b \in Buffers /\ free_pkt_queue_' \in Seq(Buffers)
         /\ Elements(free_pkt_queue_') \subseteq Elements(free_pkt_queue_)
         /\ NoRepeats(free_pkt_queue_')
         /\ b \notin Elements(free_pkt_queue_') \cup Elements(pkt_queue_) \cup {handlePkt}
         /\ NoBuffer \notin Elements(free_pkt_queue_') /\ b # NoBuffer
<1> USE RsDriverConstants DEF IInv, TypeOK, OneHolder, BufferHasOneHolder
<1>1. CASE /\ free_pkt_queue_ # <<>>
           /\ b = Head(free_pkt_queue_)
           /\ free_pkt_queue_' = Tail(free_pkt_queue_)
  <2>1. /\ b \in Buffers /\ free_pkt_queue_' \in Seq(Buffers)
        /\ Elements(free_pkt_queue_) = {b} \cup Elements(free_pkt_queue_')
        /\ NoRepeats(free_pkt_queue_') /\ b \notin Elements(free_pkt_queue_')
    BY <1>1, TakeElements
  <2> QED
    BY <2>1, ElementsIn DEF Disjoint
<1>2. CASE /\ free_pkt_queue_ = <<>>
           /\ Buffers \ BuffersHeld # {}
           /\ b = New(Buffers \ BuffersHeld)
           /\ UNCHANGED free_pkt_queue_
  <2>1. b \in Buffers \ BuffersHeld
    BY <1>2, NewIsUnused
  <2> QED
    BY <1>2, <2>1, NoElements, ElementsIn DEF BuffersHeld
<1> QED
  BY <1>1, <1>2 DEF packetGet

\* packetPut leaves a queue of what was queued and the new buffer.
LEMMA PutBuffer ==
  ASSUME IInv, recvPkt # NoBuffer, packetPut(recvPkt)
  PROVE  /\ pkt_queue_' \in Seq(Buffers)
         /\ Elements(pkt_queue_') \subseteq Elements(pkt_queue_) \cup {recvPkt}
         /\ NoRepeats(pkt_queue_')
<1> USE DEF IInv, TypeOK, OneHolder, BufferHasOneHolder
<1> DEFINE q == Append(pkt_queue_, recvPkt)
<1>1. q \in Seq(Buffers) /\ Elements(q) = Elements(pkt_queue_) \cup {recvPkt} /\ NoRepeats(q)
  BY PutElements DEF Disjoint
<1>2. pkt_queue_' = q
  BY DEF packetPut
<1> HIDE DEF q
<1> QED
  BY <1>1, <1>2

LEMMA BufferFilled ==
  ASSUME IInv, NEW b, packetGet(b), recvPkt' = b, UNCHANGED <<pkt_queue_, handlePkt>>
  PROVE  BufferHasOneHolder'
<1> USE RsDriverConstants DEF IInv, OneHolder, BufferHasOneHolder, Disjoint
<1> QED
  BY GetBuffer

LEMMA BufferDropped ==
  ASSUME IInv, NEW b, packetGet(b), UNCHANGED <<pkt_queue_, recvPkt, handlePkt>>
  PROVE  BufferHasOneHolder'
  BY GetBuffer DEF IInv, OneHolder, BufferHasOneHolder, Disjoint

LEMMA BufferQueued ==
  ASSUME IInv, recvPkt # NoBuffer, packetPut(recvPkt), recvPkt' = NoBuffer,
         UNCHANGED <<free_pkt_queue_, handlePkt>>
  PROVE  BufferHasOneHolder'
<1>1. /\ NoBuffer \notin Elements(free_pkt_queue_)
      /\ NoBuffer \notin Elements(pkt_queue_) \cup {recvPkt}
  BY RsDriverConstants DEF IInv, TypeOK, Elements
<1> QED
  BY <1>1, PutBuffer DEF IInv, OneHolder, BufferHasOneHolder, Disjoint

-----------------------------------------------------------------------------
(* The recv thread, or the caller that feeds packets.                      *)

\* What every step that fills a buffer, or lets one go, does besides.
LEMMA RecvRest ==
  ASSUME IInv, UNCHANGED <<handleVars, cloudVars, convVars, mainVars, pkt_queue_>>,
         BufferHasOneHolder', free_pkt_queue_' \in Seq(Buffers),
         recvPkt' \in Buffers \cup {NoBuffer},
         recvPc' = recvPc \/ (recvPc # "none" /\ recvPc' \in {"loop", "read", "push", "exited"}),
         recvPc' = "push" => recvPkt' # NoBuffer
  PROVE  IInv'
<1> USE DEF IInv, handleVars, cloudVars, convVars, mainVars
<1>1. TypeOK'
  BY DEF TypeOK
<1>2. Hands' /\ Joined'
  BY DEF Hands, Joined
<1>3. CloudHasOneHolder'
  <2>1. UNCHANGED cloudPart /\ (handlePc' = "split" \/ handlePc # "split")
    BY DEF cloudPart
  <2> QED
    BY <2>1, CloudsKept
<1> QED
  BY <1>1, <1>2, <1>3 DEF OneHolder

LEMMA RecvFills ==
  ASSUME IInv, NEW b, packetGet(b), recvPkt' = b,
         recvPc' = recvPc \/ (recvPc # "none" /\ recvPc' = "push"),
         UNCHANGED <<handleVars, cloudVars, convVars, mainVars, pkt_queue_>>
  PROVE  IInv'
<1>1. UNCHANGED <<pkt_queue_, handlePkt>>
  BY DEF handleVars
<1>2. BufferHasOneHolder'
  BY <1>1, BufferFilled
<1> QED
  BY <1>2, GetBuffer, RecvRest

LEMMA RecvDrops ==
  ASSUME IInv, NEW b, packetGet(b), UNCHANGED recvPkt,
         recvPc # "none" /\ recvPc' \in {"loop", "read", "exited"},
         UNCHANGED <<handleVars, cloudVars, convVars, mainVars, pkt_queue_>>
  PROVE  IInv'
<1>1. UNCHANGED <<pkt_queue_, recvPkt, handlePkt>>
  BY DEF handleVars
<1>2. BufferHasOneHolder' /\ recvPkt' \in Buffers \cup {NoBuffer}
  BY <1>1, BufferDropped DEF IInv, TypeOK
<1> QED
  BY <1>2, GetBuffer, RecvRest

LEMMA RecvQueues ==
  ASSUME IInv, recvPkt # NoBuffer, packetPut(recvPkt), recvPkt' = NoBuffer,
         recvPc' = recvPc \/ (recvPc # "none" /\ recvPc' \in {"loop", "read"}),
         recvPc' # "push",
         UNCHANGED <<handleVars, cloudVars, convVars, mainVars, free_pkt_queue_>>
  PROVE  IInv'
<1> USE DEF handleVars, cloudVars, convVars, mainVars
<1>1. BufferHasOneHolder'
  BY BufferQueued
<1>2. TypeOK'
  BY PutBuffer DEF IInv, TypeOK
<1>3. Hands' /\ Joined'
  BY DEF IInv, Hands, Joined
<1>4. CloudHasOneHolder'
  <2>1. UNCHANGED cloudPart /\ (handlePc' = "split" \/ handlePc # "split")
    BY DEF cloudPart
  <2> QED
    BY <2>1, CloudsKept
<1> QED
  BY <1>1, <1>2, <1>3, <1>4 DEF IInv, OneHolder

\* A step that leaves the buffers alone.
LEMMA RecvMoves ==
  ASSUME IInv, UNCHANGED <<handleVars, cloudVars, convVars, pktVars, recvPkt,
                           inputType, start_flag_, inputStarted>>,
         mainPc' \in {mainPc, "crashed"},
         recvPc' = recvPc \/ (recvPc # "none" /\ recvPc' \in {"loop", "read", "exited"})
  PROVE  IInv'
<1> USE DEF handleVars, cloudVars, convVars, pktVars
<1>1. TypeOK'
  BY DEF IInv, TypeOK
<1>2. Hands' /\ Joined'
  BY DEF IInv, Hands, Joined
<1>3. BufferHasOneHolder'
  <2>1. UNCHANGED bufferPart
    BY DEF bufferPart
  <2> QED
    BY <2>1, BuffersKept
<1>4. CloudHasOneHolder'
  <2>1. UNCHANGED cloudPart /\ (handlePc' = "split" \/ handlePc # "split")
    BY DEF cloudPart
  <2> QED
    BY <2>1, CloudsKept
<1> QED
  BY <1>1, <1>2, <1>3, <1>4 DEF IInv, OneHolder

\* The queue that was too long is emptied.
LEMMA RecvClears ==
  ASSUME IInv, PacketClear
  PROVE  IInv'
<1> USE DEF PacketClear, handleVars, cloudVars, convVars, mainVars
<1>1. TypeOK'
  BY DEF IInv, TypeOK
<1>2. Hands' /\ Joined'
  BY DEF IInv, Hands, Joined
<1>3. BufferHasOneHolder'
  BY NoElements DEF IInv, OneHolder, BufferHasOneHolder, Disjoint
<1>4. CloudHasOneHolder'
  <2>1. UNCHANGED cloudPart /\ (handlePc' = "split" \/ handlePc # "split")
    BY DEF cloudPart
  <2> QED
    BY <2>1, CloudsKept
<1> QED
  BY <1>1, <1>2, <1>3, <1>4 DEF IInv, OneHolder

LEMMA RecvStep ==
  ASSUME IInv, Recv \/ FeedPacket \/ FeedPush \/ PacketClear
  PROVE  IInv'
<1>1. CASE RecvStops
  BY <1>1, RecvMoves DEF RecvStops, mainVars
<1>2. CASE SockWait
  BY <1>2, RecvMoves DEF SockWait, mainVars
<1>3. CASE SockReceive
  <2>1. PICK b \in Buffers : packetGet(b) /\ recvPkt' = b
    BY <1>3 DEF SockReceive
  <2> QED
    BY <1>3, <2>1, RecvFills DEF SockReceive
<1>4. CASE SockEmpty
  <2>1. PICK b \in Buffers : packetGet(b)
    BY <1>4 DEF SockEmpty
  <2>2. recvPc' \in {"loop", "read"}
    BY <1>4 DEF SockEmpty, AfterRead
  <2> QED
    BY <1>4, <2>1, <2>2, RecvDrops DEF SockEmpty
<1>5. CASE SockFails
  <2>1. PICK b \in Buffers : packetGet(b)
    BY <1>5 DEF SockFails
  <2> QED
    BY <1>5, <2>1, RecvDrops DEF SockFails
<1>6. CASE RecvPush
  <2>1. recvPkt # NoBuffer /\ recvPc' \in {"loop", "read"}
    BY <1>6 DEF RecvPush, AfterRead, IInv, Hands
  <2> QED
    BY <1>6, <2>1, RecvQueues DEF RecvPush
<1>7. CASE PcapPacket \/ PcapJumboPacket
  <2>1. PcapCopy /\ recvPc = "loop"
    BY <1>7 DEF PcapPacket, PcapJumboPacket
  <2>2. PICK b \in Buffers : packetGet(b) /\ recvPkt' = b
    BY <2>1 DEF PcapCopy
  <2> QED
    BY <2>1, <2>2, RecvFills DEF PcapCopy
<1>8. CASE PcapEnd
  BY <1>8, RecvMoves DEF PcapEnd, mainVars
<1>9. CASE PcapCrash
  BY <1>9, RecvMoves DEF PcapCrash, recvVars
<1>10. CASE FeedPacket
  <2>1. PICK b \in Buffers : packetGet(b) /\ recvPkt' = b
    BY <1>10 DEF FeedPacket
  <2> QED
    BY <1>10, <2>1, RecvFills DEF FeedPacket
<1>11. CASE FeedPush
  <2>1. recvPc # "push" /\ recvPc' = recvPc
    BY <1>11 DEF FeedPush, IInv, Joined
  <2> QED
    BY <1>11, <2>1, RecvQueues DEF FeedPush
<1>12. CASE PacketClear
  BY <1>12, RecvClears
<1> QED
  BY <1>1, <1>2, <1>3, <1>4, <1>5, <1>6, <1>7, <1>8, <1>9, <1>10, <1>11, <1>12 DEF Recv

-----------------------------------------------------------------------------
(* The handle thread.                                                      *)

LEMMA HandleControl ==
  ASSUME IInv, UNCHANGED <<recvVars, convVars, mainVars>>,
         handlePc # "none", handlePc' \in HandleHolds \cup {"loop", "exited"},
         handlePkt' # NoBuffer <=> handlePc' \in HandleHolds
  PROVE  Hands' /\ Joined'
<1> USE DEF IInv, recvVars, convVars, mainVars, HandleHolds
<1>1. Hands'
  BY DEF Hands
<1>2. Joined'
  BY DEF Joined
<1> QED
  BY <1>1, <1>2

\* getPointCloud gives a cloud that is neither queued nor shown.
LEMMA GetCloud ==
  ASSUME IInv, getPointCloud
  PROVE  /\ point_cloud_' \in CloudAddrs /\ free_cloud_queue' \in Seq(CloudAddrs)
         /\ Elements(free_cloud_queue') \subseteq Elements(free_cloud_queue)
         /\ NoRepeats(free_cloud_queue')
         /\ point_cloud_' \notin Elements(free_cloud_queue') \cup Elements(stuffed_cloud_queue)
                                   \cup {convCloud}
<1> USE DEF IInv, TypeOK, OneHolder, CloudHasOneHolder
<1>1. CASE /\ free_cloud_queue # <<>>
           /\ point_cloud_' = Head(free_cloud_queue)
           /\ free_cloud_queue' = Tail(free_cloud_queue)
  <2>1. /\ point_cloud_' \in CloudAddrs /\ free_cloud_queue' \in Seq(CloudAddrs)
        /\ Elements(free_cloud_queue) = {point_cloud_'} \cup Elements(free_cloud_queue')
        /\ NoRepeats(free_cloud_queue') /\ point_cloud_' \notin Elements(free_cloud_queue')
    BY <1>1, TakeElements
  <2> QED
    BY <2>1 DEF Disjoint
<1>2. CASE /\ free_cloud_queue = <<>>
           /\ CloudAddrs \ CloudsHeld # {}
           /\ point_cloud_' = New(CloudAddrs \ CloudsHeld)
           /\ UNCHANGED free_cloud_queue
  <2>1. point_cloud_' \in CloudAddrs \ CloudsHeld
    BY <1>2, NewIsUnused
  <2> QED
    BY <1>2, <2>1 DEF CloudsHeld
<1> QED
  BY <1>1, <1>2 DEF getPointCloud

LEMMA HandleStep ==
  ASSUME IInv, Handle
  PROVE  IInv'
<1> USE RsDriverConstants
        DEF IInv, OneHolder, recvVars, convVars, mainVars, HandleHolds
<1>1. CASE HandleStops
  <2>1. UNCHANGED bufferPart /\ UNCHANGED cloudPart /\ handlePc = "loop"
    BY <1>1 DEF HandleStops, bufferPart, cloudPart, cloudVars, pktVars
  <2>2. Hands' /\ Joined'
    BY <1>1, HandleControl DEF HandleStops, Hands
  <2>3. TypeOK'
    BY <1>1, <2>1 DEF TypeOK, HandleStops, bufferPart, cloudPart
  <2> QED
    BY <2>1, <2>2, <2>3, BuffersKept, CloudsKept
<1>2. CASE HandlePop
  <2>1. /\ handlePkt' \in Buffers /\ pkt_queue_' \in Seq(Buffers)
        /\ Elements(pkt_queue_) = {handlePkt'} \cup Elements(pkt_queue_')
        /\ NoRepeats(pkt_queue_') /\ handlePkt' \notin Elements(pkt_queue_')
        /\ UNCHANGED <<free_pkt_queue_, recvPkt>>
    BY <1>2, TakeElements DEF HandlePop, TypeOK, BufferHasOneHolder
  <2>2. BufferHasOneHolder'
    BY <2>1 DEF BufferHasOneHolder, Disjoint
  <2>3. UNCHANGED cloudPart /\ handlePc = "loop"
    BY <1>2 DEF HandlePop, cloudPart, cloudVars
  <2>4. Hands' /\ Joined'
    BY <1>2, <2>1, HandleControl DEF HandlePop
  <2>5. TypeOK'
    BY <1>2, <2>1, <2>3 DEF TypeOK, HandlePop, cloudPart
  <2> QED
    BY <2>2, <2>3, <2>4, <2>5, CloudsKept
<1>3. CASE HandleDecode
  <2>1. /\ UNCHANGED <<free_cloud_queue, point_cloud_, convCloud>>
        /\ UNCHANGED bufferPart /\ handlePc = "decode"
        /\ handlePc' \in {"split", "points", "release"}
        /\ \/ handlePc' = "split" /\ stuffed_cloud_queue' = Append(stuffed_cloud_queue, point_cloud_)
           \/ handlePc' # "split" /\ UNCHANGED stuffed_cloud_queue
    BY <1>3 DEF HandleDecode, bufferPart, pktVars
  <2>2. Hands' /\ Joined'
    BY <1>3, <2>1, HandleControl DEF HandleDecode, Hands
  <2>3. CloudHasOneHolder' /\ stuffed_cloud_queue' \in Seq(CloudAddrs)
    <3>1. CASE handlePc' = "split"
      <4>1. /\ stuffed_cloud_queue' \in Seq(CloudAddrs)
            /\ Elements(stuffed_cloud_queue') = Elements(stuffed_cloud_queue) \cup {point_cloud_}
            /\ NoRepeats(stuffed_cloud_queue')
        <5>1. /\ stuffed_cloud_queue \in Seq(CloudAddrs) /\ point_cloud_ \in CloudAddrs
              /\ NoRepeats(stuffed_cloud_queue)
              /\ point_cloud_ \notin Elements(stuffed_cloud_queue)
          BY <2>1 DEF TypeOK, CloudHasOneHolder, Disjoint, Decoding
        <5>2. stuffed_cloud_queue' = Append(stuffed_cloud_queue, point_cloud_)
          BY <2>1, <3>1
        <5> QED
          BY <5>1, <5>2, PutElements
      <4> QED
        BY <2>1, <3>1, <4>1 DEF CloudHasOneHolder, Disjoint, Decoding
    <3>2. CASE handlePc' # "split"
      BY <2>1, <3>2, CloudsKept DEF cloudPart, TypeOK
    <3> QED
      BY <3>1, <3>2
  <2>4. TypeOK'
    BY <1>3, <2>1, <2>3 DEF TypeOK, HandleDecode, bufferPart
  <2> QED
    BY <2>1, <2>2, <2>3, <2>4, BuffersKept
<1>4. CASE HandleSplit
  <2>1. /\ UNCHANGED <<stuffed_cloud_queue, convCloud>> /\ UNCHANGED bufferPart
        /\ handlePc = "split" /\ handlePc' = "points"
    BY <1>4 DEF HandleSplit, bufferPart, pktVars
  <2>2. Hands' /\ Joined'
    BY <1>4, <2>1, HandleControl DEF HandleSplit, Hands
  <2>3. /\ point_cloud_' \in CloudAddrs /\ free_cloud_queue' \in Seq(CloudAddrs)
        /\ Elements(free_cloud_queue') \subseteq Elements(free_cloud_queue)
        /\ NoRepeats(free_cloud_queue')
        /\ point_cloud_' \notin Elements(free_cloud_queue') \cup Elements(stuffed_cloud_queue)
                                  \cup {convCloud}
    BY <1>4, GetCloud DEF HandleSplit
  <2>4. CloudHasOneHolder'
    BY <2>1, <2>3 DEF CloudHasOneHolder, Disjoint, Decoding
  <2>5. TypeOK'
    BY <1>4, <2>1, <2>3 DEF TypeOK, HandleSplit, bufferPart
  <2> QED
    BY <2>1, <2>2, <2>4, <2>5, BuffersKept
<1>5. CASE HandlePoints
  <2>1. UNCHANGED bufferPart /\ UNCHANGED cloudPart /\ handlePc = "points"
    BY <1>5 DEF HandlePoints, bufferPart, cloudPart, pktVars
  <2>2. Hands' /\ Joined'
    BY <1>5, <2>1, HandleControl DEF HandlePoints, Hands
  <2>3. TypeOK'
    BY <1>5, <2>1 DEF TypeOK, HandlePoints, bufferPart, cloudPart
  <2> QED
    BY <2>1, <2>2, <2>3, BuffersKept, CloudsKept
<1>6. CASE HandleRelease
  <2>1. handlePkt \in Buffers
    BY <1>6 DEF HandleRelease, Hands, TypeOK
  <2>2. /\ free_pkt_queue_' \in Seq(Buffers)
        /\ Elements(free_pkt_queue_') = Elements(free_pkt_queue_) \cup {handlePkt}
        /\ NoRepeats(free_pkt_queue_')
    BY <1>6, <2>1, PutElements DEF HandleRelease, TypeOK, BufferHasOneHolder, Disjoint
  <2>3. Elements(free_pkt_queue_) \cup Elements(pkt_queue_) \subseteq Buffers
    BY ElementsIn DEF TypeOK
  <2>4. BufferHasOneHolder'
    BY <1>6, <2>1, <2>2, <2>3 DEF HandleRelease, BufferHasOneHolder, Disjoint
  <2>5. UNCHANGED cloudPart /\ handlePc = "release"
    BY <1>6 DEF HandleRelease, cloudPart, cloudVars
  <2>6. Hands' /\ Joined'
    BY <1>6, <2>5, HandleControl DEF HandleRelease
  <2>7. TypeOK'
    BY <1>6, <2>2, <2>5 DEF TypeOK, HandleRelease, cloudPart
  <2> QED
    BY <2>4, <2>5, <2>6, <2>7, CloudsKept
<1> QED
  BY <1>1, <1>2, <1>3, <1>4, <1>5, <1>6 DEF Handle

-----------------------------------------------------------------------------
(* The converter's thread.                                                 *)

LEMMA ConvControl ==
  ASSUME IInv, UNCHANGED <<recvVars, handleVars, mainVars>>,
         convPc # "none", convPc' \in ConvHolds \cup {"loop", "exited"},
         convCloud' # NoCloud <=> convPc' \in ConvHolds
  PROVE  Hands' /\ Joined'
<1> USE DEF IInv, recvVars, handleVars, mainVars, ConvHolds
<1>1. Hands'
  BY DEF Hands
<1>2. Joined'
  BY DEF Joined
<1> QED
  BY <1>1, <1>2

LEMMA ConvStep ==
  ASSUME IInv, Conv
  PROVE  IInv'
<1> USE RsDriverConstants
        DEF IInv, OneHolder, recvVars, handleVars, mainVars, ConvHolds
<1>1. UNCHANGED bufferPart /\ handlePc' = handlePc
  BY DEF Conv, ConvStops, ConvPop, ConvClear, ConvFill, ConvRelease, bufferPart, pktVars
<1>2. BufferHasOneHolder'
  BY <1>1, BuffersKept
<1>3. CASE ConvStops \/ ConvClear \/ ConvFill
  <2>1. UNCHANGED cloudPart
    BY <1>3 DEF ConvStops, ConvClear, ConvFill, cloudPart, cloudVars
  <2>2. /\ UNCHANGED <<recvVars, handleVars, mainVars>>
        /\ \/ convPc = "loop" /\ convPc' = "exited"
           \/ convPc \in ConvHolds /\ convPc' \in ConvHolds
    BY <1>3 DEF ConvStops, ConvClear, ConvFill
  <2>3. Hands' /\ Joined'
    BY <2>1, <2>2, ConvControl DEF Hands, cloudPart
  <2>4. TypeOK'
    BY <1>1, <2>1, <2>2 DEF TypeOK, bufferPart, cloudPart
  <2> QED
    BY <1>1, <1>2, <2>1, <2>3, <2>4, CloudsKept
<1>4. CASE ConvPop
  <2>1. /\ convCloud' \in CloudAddrs /\ stuffed_cloud_queue' \in Seq(CloudAddrs)
        /\ Elements(stuffed_cloud_queue) = {convCloud'} \cup Elements(stuffed_cloud_queue')
        /\ NoRepeats(stuffed_cloud_queue') /\ convCloud' \notin Elements(stuffed_cloud_queue')
        /\ UNCHANGED <<free_cloud_queue, point_cloud_>>
    BY <1>4, TakeElements DEF ConvPop, TypeOK, CloudHasOneHolder
  <2>2. CloudHasOneHolder'
    BY <1>1, <2>1 DEF CloudHasOneHolder, Disjoint, Decoding
  <2>3. Hands' /\ Joined'
    BY <1>4, <2>1, ConvControl DEF ConvPop
  <2>4. TypeOK'
    BY <1>1, <1>4, <2>1 DEF TypeOK, ConvPop, bufferPart
  <2> QED
    BY <1>2, <2>2, <2>3, <2>4
<1>5. CASE ConvRelease
  <2>1. convCloud \in CloudAddrs
    BY <1>5 DEF ConvRelease, Hands, TypeOK
  <2>2. /\ free_cloud_queue' \in Seq(CloudAddrs)
        /\ Elements(free_cloud_queue') = Elements(free_cloud_queue) \cup {convCloud}
        /\ NoRepeats(free_cloud_queue')
    <3>1. /\ free_cloud_queue \in Seq(CloudAddrs) /\ NoRepeats(free_cloud_queue)
          /\ convCloud \notin Elements(free_cloud_queue)
      BY DEF TypeOK, CloudHasOneHolder, Disjoint
    <3> QED
      BY <1>5, <2>1, <3>1, PutElements DEF ConvRelease
  <2>3. /\ UNCHANGED <<stuffed_cloud_queue, point_cloud_>> /\ convCloud' = NoCloud
        /\ Elements(stuffed_cloud_queue) \cup Elements(free_cloud_queue) \subseteq CloudAddrs
    BY <1>5, ElementsIn DEF ConvRelease, TypeOK
  <2>4. CloudHasOneHolder'
    BY <1>1, <2>1, <2>2, <2>3 DEF CloudHasOneHolder, Disjoint, Decoding, TypeOK
  <2>5. Hands' /\ Joined'
    BY <1>5, <2>3, ConvControl DEF ConvRelease
  <2>6. TypeOK'
    BY <1>1, <1>5, <2>2, <2>3 DEF TypeOK, ConvRelease, bufferPart
  <2> QED
    BY <1>2, <2>4, <2>5, <2>6
<1> QED
  BY <1>3, <1>4, <1>5 DEF Conv

-----------------------------------------------------------------------------
(* start and stop.                                                         *)

LEMMA MainStep ==
  ASSUME IInv, Start \/ StopInput \/ Join
  PROVE  IInv'
<1> USE DEF IInv, OneHolder, HandleHolds, ConvHolds
<1>1. CASE Start
  <2>1. UNCHANGED bufferPart /\ UNCHANGED cloudPart /\ handlePc # "split"
    BY <1>1 DEF Start, bufferPart, cloudPart, cloudVars, pktVars, Joined
  <2>2. Hands' /\ Joined'
    BY <1>1 DEF Start, Hands, Joined
  <2>3. TypeOK'
    BY <1>1, <2>1 DEF TypeOK, Start, bufferPart, cloudPart
  <2> QED
    BY <2>1, <2>2, <2>3, BuffersKept, CloudsKept
<1>2. CASE StopInput
  <2>1. UNCHANGED bufferPart /\ UNCHANGED cloudPart /\ handlePc' = handlePc
    BY <1>2 DEF StopInput, bufferPart, cloudPart, cloudVars, pktVars
  <2>2. Hands' /\ Joined'
    BY <1>2 DEF StopInput, Hands, Joined, TypeOK
  <2>3. TypeOK'
    BY <1>2, <2>1 DEF TypeOK, StopInput, bufferPart, cloudPart
  <2> QED
    BY <2>1, <2>2, <2>3, BuffersKept, CloudsKept
<1>3. CASE JoinRecv
  <2>1. UNCHANGED bufferPart /\ UNCHANGED cloudPart /\ handlePc' = handlePc
    BY <1>3 DEF JoinRecv, bufferPart, cloudPart, cloudVars, convVars, pktVars
  <2>2. Hands' /\ Joined'
    BY <1>3 DEF JoinRecv, Hands, Joined, convVars
  <2>3. TypeOK'
    BY <1>3, <2>1 DEF TypeOK, JoinRecv, bufferPart, cloudPart, convVars
  <2> QED
    BY <2>1, <2>2, <2>3, BuffersKept, CloudsKept
<1>4. CASE JoinHandle
  <2>1. UNCHANGED bufferPart /\ UNCHANGED cloudPart /\ handlePc = "exited"
    BY <1>4 DEF JoinHandle, bufferPart, cloudPart, recvVars, pktVars
  <2>2. Hands' /\ Joined'
    BY <1>4 DEF JoinHandle, Hands, Joined, recvVars
  <2>3. TypeOK'
    BY <1>4, <2>1 DEF TypeOK, JoinHandle, bufferPart, cloudPart, recvVars
  <2> QED
    BY <2>1, <2>2, <2>3, BuffersKept, CloudsKept
<1>5. CASE JoinConv
  <2>1. UNCHANGED bufferPart /\ UNCHANGED cloudPart /\ handlePc' = handlePc
    BY <1>5 DEF JoinConv, bufferPart, cloudPart, cloudVars, pktVars, recvVars, handleVars
  <2>2. Hands' /\ Joined'
    BY <1>5 DEF JoinConv, Hands, Joined, recvVars, handleVars
  <2>3. TypeOK'
    BY <1>5, <2>1 DEF TypeOK, JoinConv, bufferPart, cloudPart, recvVars, handleVars
  <2> QED
    BY <2>1, <2>2, <2>3, BuffersKept, CloudsKept
<1> QED
  BY <1>1, <1>2, <1>3, <1>4, <1>5 DEF Join

-----------------------------------------------------------------------------

LEMMA DriverStutters ==
  ASSUME IInv, UNCHANGED driverVars
  PROVE  IInv'
<1> USE DEF driverVars, recvVars, handleVars, cloudVars, convVars, mainVars, pktVars, IInv, OneHolder
<1>1. UNCHANGED bufferPart /\ UNCHANGED cloudPart /\ handlePc' = handlePc
  BY DEF bufferPart, cloudPart
<1>2. Hands' /\ Joined'
  BY DEF Hands, Joined
<1>3. TypeOK'
  BY DEF TypeOK
<1> QED
  BY <1>1, <1>2, <1>3, BuffersKept, CloudsKept

\* OneHolder with where the threads are is inductive.
THEOREM DriverInvariant == DriverSpec => []IInv
<1>1. DriverInit => IInv
  BY InitIInv
<1>2. IInv /\ [DriverNext]_driverVars => IInv'
  BY RecvStep, HandleStep, ConvStep, MainStep, DriverStutters DEF DriverNext
<1> QED
  BY <1>1, <1>2, PTL DEF DriverSpec

\* Every variable of the driver keeps its type: every pointer in a queue or in a thread's
\* hands is the address of a buffer or of a cloud, whatever the four threads do.
THEOREM DriverTypeCorrect == DriverSpec => []TypeOK
  BY DriverInvariant, PTL DEF IInv

\* For any number of addresses, packets and sessions and any input, no packet buffer is
\* refilled while it is queued or decoded, and no cloud is written to while it is queued or
\* shown (lidar_driver_impl.hpp:332-412).
THEOREM EveryAddressHasOneHolder == DriverSpec => []OneHolder
  BY DriverInvariant, PTL DEF IInv

-----------------------------------------------------------------------------
(* The order of the packets: the invariants.                               *)

Nums == 1 .. MaxMsops

DataInv ==
  /\ data \in [Buffers -> Contents] /\ msops \in Nat /\ prev \in Nat
  /\ points \in [CloudAddrs -> Seq(Nums)] /\ _frame \in Seq(Nums)
  /\ \A n \in Pipeline : n <= msops

\* A packet whose points are to come was accepted, and its position noted; those in the cloud
\* were at earlier ones.
HandInv ==
  /\ recvPkt # NoBuffer => recvPc = "push" \/ inputType = "raw"
  /\ handlePc \in {"split", "points"} =>
       angles_ready_ /\ data[handlePkt].id = "msop" /\ prev = Pos(data[handlePkt].n)
  /\ handlePc # "split" /\ points[point_cloud_] # <<>> =>
       LET last == points[point_cloud_][Len(points[point_cloud_])]
       IN  IF handlePc = "points" THEN Pos(last) < prev ELSE Pos(last) <= prev

\* What is handed over is not empty; the frame that is filled is a part of its cloud.
PartOf(f, q) == Len(f) <= Len(q) /\ \A i \in 1 .. Len(f) : f[i] = q[i]

FullInv ==
  /\ \A c \in Elements(stuffed_cloud_queue) : points[c] # <<>>
  /\ convPc \in {"clear", "fill"} => points[convCloud] # <<>>
  /\ convPc = "fill" => PartOf(_frame, points[convCloud])

\* There is a packet to see from the first frame on, so that "older than the frame" is said
\* of a frame.
Older(n) == InFrame \cup InCopy # {} /\ \A m \in Pipeline : n < m

KeptInv == \A n \in 1 .. msops : n \in Pipeline \cup lost \/ Older(n)

InTurn(q) == Increasing(q) /\ OfOneTurn(q)

TurnInv == (\A c \in CloudAddrs : InTurn(points[c])) /\ InTurn(_frame)

OInv == DataInv /\ HandInv /\ FullInv /\ KeptInv /\ TurnInv /\ InOrder

-----------------------------------------------------------------------------
(* The stages.                                                             *)

LEMMA PipelineIs ==
  Pipeline = InFrame \cup InCopy \cup InStuffed \cup InCloud \cup InHand \cup InQueue \cup InBuffer
<1> DEFINE s == Stages
<1>1. /\ s[1] = InFrame /\ s[2] = InCopy /\ s[3] = InStuffed /\ s[4] = InCloud /\ s[5] = InHand
      /\ s[6] = InQueue /\ s[7] = InBuffer
      /\ DOMAIN s = {1, 2, 3, 4, 5, 6, 7}
  BY DEF Stages
<1> HIDE DEF s
<1>2. Elements(s) = {InFrame, InCopy, InStuffed, InCloud, InHand, InQueue, InBuffer}
  BY <1>1 DEF Elements
<1> QED
  BY <1>2 DEF Pipeline, s

\* The order of the stages, each against all that follow it.
Staged ==
  /\ Before(InFrame, InCopy \cup InStuffed \cup InCloud \cup InHand \cup InQueue \cup InBuffer)
  /\ Before(InCopy, InStuffed \cup InCloud \cup InHand \cup InQueue \cup InBuffer)
  /\ Before(InStuffed, InCloud \cup InHand \cup InQueue \cup InBuffer)
  /\ Before(InCloud, InHand \cup InQueue \cup InBuffer)
  /\ Before(InHand, InQueue \cup InBuffer)
  /\ Before(InQueue, InBuffer)

CloudsInLine ==
  \A i, j \in DOMAIN stuffed_cloud_queue :
    i < j => Before(Elements(points[stuffed_cloud_queue[i]]), Elements(points[stuffed_cloud_queue[j]]))

PacketsInLine ==
  \A i, j \in DOMAIN pkt_queue_ : i < j => Before(Measured(pkt_queue_[i]), Measured(pkt_queue_[j]))

LEMMA InOrderIs == InOrder <=> Staged /\ CloudsInLine /\ PacketsInLine
<1> DEFINE s == Stages
<1>1. /\ s[1] = InFrame /\ s[2] = InCopy /\ s[3] = InStuffed /\ s[4] = InCloud /\ s[5] = InHand
      /\ s[6] = InQueue /\ s[7] = InBuffer
      /\ DOMAIN s = {1, 2, 3, 4, 5, 6, 7}
  BY DEF Stages
<1> HIDE DEF s
<1>2. (\A i, j \in DOMAIN s : i < j => Before(s[i], s[j])) <=> Staged
  <2>1. ASSUME \A i, j \in DOMAIN s : i < j => Before(s[i], s[j])
        PROVE  Staged
    <3>1. /\ Before(InFrame, InCopy) /\ Before(InFrame, InStuffed) /\ Before(InFrame, InCloud)
          /\ Before(InFrame, InHand) /\ Before(InFrame, InQueue) /\ Before(InFrame, InBuffer)
          /\ Before(InCopy, InStuffed) /\ Before(InCopy, InCloud) /\ Before(InCopy, InHand)
          /\ Before(InCopy, InQueue) /\ Before(InCopy, InBuffer)
          /\ Before(InStuffed, InCloud) /\ Before(InStuffed, InHand) /\ Before(InStuffed, InQueue)
          /\ Before(InStuffed, InBuffer)
          /\ Before(InCloud, InHand) /\ Before(InCloud, InQueue) /\ Before(InCloud, InBuffer)
          /\ Before(InHand, InQueue) /\ Before(InHand, InBuffer) /\ Before(InQueue, InBuffer)
      BY <1>1, <2>1
    <3> QED
      BY <3>1 DEF Staged, Before
  <2>2. ASSUME Staged
        PROVE  \A i, j \in DOMAIN s : i < j => Before(s[i], s[j])
    <3> SUFFICES ASSUME NEW i \in {1, 2, 3, 4, 5, 6, 7}, NEW j \in {1, 2, 3, 4, 5, 6, 7}, i < j
                 PROVE  Before(s[i], s[j])
      BY <1>1
    <3>1. CASE i = 1
      BY <1>1, <2>2, <3>1 DEF Staged, Before
    <3>2. CASE i = 2
      BY <1>1, <2>2, <3>2 DEF Staged, Before
    <3>3. CASE i = 3
      BY <1>1, <2>2, <3>3 DEF Staged, Before
    <3>4. CASE i = 4
      BY <1>1, <2>2, <3>4 DEF Staged, Before
    <3>5. CASE i \in {5, 6, 7}
      BY <1>1, <2>2, <3>5 DEF Staged, Before
    <3> QED
      BY <3>1, <3>2, <3>3, <3>4, <3>5
  <2> QED
    BY <2>1, <2>2
<1> QED
  BY <1>2 DEF InOrder, CloudsInLine, PacketsInLine, s

\* The same of the next state.
LEMMA NextPipelineIs ==
  (Pipeline = InFrame \cup InCopy \cup InStuffed \cup InCloud \cup InHand \cup InQueue \cup InBuffer)'
  BY PipelineIs, PTL

LEMMA NextInOrderIs == (InOrder <=> Staged /\ CloudsInLine /\ PacketsInLine)'
  BY InOrderIs, PTL

\* The stages' numbers.
LEMMA NumbersOfBuffers ==
  ASSUME IInv, DataInv, NEW b \in Buffers \cup {NoBuffer}
  PROVE  /\ Measured(b) \subseteq Nums
         /\ b # NoBuffer => data[b].id \in {"msop", "difop", "other"}
         /\ b # NoBuffer /\ data[b].id = "msop" => data[b].n \in Nums /\ Measured(b) = {data[b].n}
         /\ b = NoBuffer \/ data[b].id # "msop" => Measured(b) = {}
  BY DEF DataInv, Measured, Contents, Nums

LEMMA PositionsAreNumbers ==
  ASSUME NEW n \in Nums
  PROVE  Pos(n) \in Nat /\ Pos(n) > 0
<1>1. n \in Int /\ n - 1 \in Nat /\ TurnSize \in Nat \ {0}
  BY RsDriverConstants DEF Nums
<1>2. (n - 1) % TurnSize \in Nat
  BY <1>1
<1> QED
  BY <1>2 DEF Pos

LEMMA PipelineNumbers ==
  ASSUME IInv, OInv
  PROVE  /\ Pipeline \subseteq Nums
         /\ \A q \in {points[c] : c \in CloudAddrs} \cup {_frame} : Elements(q) \subseteq Nums
<1>1. \A q \in {points[c] : c \in CloudAddrs} \cup {_frame} : Elements(q) \subseteq Nums
  BY ElementsIn DEF OInv, DataInv
<1>2. InFrame \subseteq Nums /\ InCloud \subseteq Nums
  BY <1>1 DEF InFrame, InCloud, IInv, TypeOK
<1>3. InCopy \subseteq Nums
  BY <1>1 DEF InCopy, IInv, TypeOK, Hands, ConvHolds
<1>4. InStuffed \subseteq Nums
  BY <1>1, ElementsIn DEF InStuffed, IInv, TypeOK
<1>5. InHand \subseteq Nums /\ InBuffer \subseteq Nums
  BY NumbersOfBuffers DEF InHand, InBuffer, IInv, TypeOK, OInv
<1>6. InQueue \subseteq Nums
  BY NumbersOfBuffers, ElementsIn DEF InQueue, IInv, TypeOK, OInv
<1> QED
  BY <1>1, <1>2, <1>3, <1>4, <1>5, <1>6, PipelineIs

LEMMA InTurnGrows ==
  ASSUME NEW q \in Seq(Nums), NEW x \in Nums, InTurn(q),
         q # <<>> => q[Len(q)] < x /\ Pos(q[Len(q)]) < Pos(x)
  PROVE  InTurn(Append(q, x))
<1> DEFINE p == Append(q, x)
<1>1. /\ p \in Seq(Nums) /\ Len(p) = Len(q) + 1 /\ Len(q) \in Nat
      /\ \A i \in 1 .. Len(q) : p[i] = q[i]
      /\ p[Len(q) + 1] = x
      /\ q # <<>> <=> Len(q) # 0
  BY AppendProperties, LenProperties, EmptySeq
<1> HIDE DEF p
<1>2. ASSUME NEW i \in 1 .. Len(p) - 1
      PROVE  p[i] < p[i + 1] /\ Pos(p[i]) < Pos(p[i + 1])
  <2>1. CASE i = Len(q)
    <3>1. p[i] = q[Len(q)] /\ p[i + 1] = x /\ q # <<>>
      BY <1>1, <1>2, <2>1
    <3> QED
      BY <3>1
  <2>2. CASE i # Len(q)
    <3>1. i \in 1 .. Len(q) - 1 /\ i \in 1 .. Len(q) /\ i + 1 \in 1 .. Len(q)
      BY <1>1, <1>2, <2>2
    <3>2. p[i] = q[i] /\ p[i + 1] = q[i + 1]
      BY <1>1, <3>1
    <3> QED
      BY <3>1, <3>2 DEF InTurn, Increasing, OfOneTurn
  <2> QED
    BY <2>1, <2>2
<1> QED
  BY <1>2 DEF InTurn, Increasing, OfOneTurn, p

LEMMA NoneInTurn == InTurn(<<>>)
<1>1. Len(<<>>) = 0 /\ 1 .. 0 - 1 = {}
  BY EmptySeq
<1> QED
  BY <1>1 DEF InTurn, Increasing, OfOneTurn

LEMMA InitOInv == DriverInit => OInv
<1> SUFFICES ASSUME DriverInit
             PROVE  OInv
  OBVIOUS
<1> USE RsDriverConstants DEF DriverInit
<1>1. /\ InFrame = {} /\ InCopy = {} /\ InStuffed = {} /\ InCloud = {} /\ InHand = {} /\ InQueue = {}
      /\ InBuffer = {}
  BY NewIsUnused, NoElements DEF InFrame, InCopy, InStuffed, InCloud, InHand, InQueue, InBuffer, Measured
<1>2. Pipeline = {}
  BY <1>1, PipelineIs
<1>3. DataInv
  BY <1>2 DEF DataInv, Contents, Other
<1>4. HandInv
  BY NewIsUnused DEF HandInv
<1>5. FullInv
  BY NoElements DEF FullInv
<1>6. KeptInv
  BY DEF KeptInv
<1>7. TurnInv
  BY NoneInTurn DEF TurnInv
<1>8. InOrder
  <2>1. DOMAIN stuffed_cloud_queue = {} /\ DOMAIN pkt_queue_ = {}
    OBVIOUS
  <2>2. Staged /\ CloudsInLine /\ PacketsInLine
    BY <1>1, <2>1 DEF Staged, CloudsInLine, PacketsInLine, Before
  <2> QED
    BY <2>2, InOrderIs
<1> QED
  BY <1>3, <1>4, <1>5, <1>6, <1>7, <1>8 DEF OInv

-----------------------------------------------------------------------------
(* Steps that move no packet.                                              *)

LEMMA AsideKeeps ==
  ASSUME OInv,
         UNCHANGED <<inputType, _frame, points, data, msops, lost, prev, stuffed_cloud_queue, point_cloud_,
                     pkt_queue_, recvPkt, angles_ready_>>,
         recvPkt # NoBuffer /\ inputType # "raw" => recvPc' = recvPc,
         \/ UNCHANGED <<handlePc, handlePkt>>
         \/ {handlePc, handlePc'} \cap {"decode", "split", "points"} = {},
         \/ UNCHANGED <<convPc, convCloud>>
         \/ {convPc, convPc'} \cap {"clear", "fill"} = {}
  PROVE  OInv'
<1>1. UNCHANGED <<InFrame, InCopy, InStuffed, InCloud, InHand, InQueue, InBuffer>>
  <2>1. UNCHANGED <<InFrame, InCopy>>
    BY DEF InFrame, InCopy, Elements
  <2>2. UNCHANGED <<InStuffed, InCloud>>
    <3>1. UNCHANGED InStuffed
      BY DEF InStuffed, Elements
    <3>2. UNCHANGED InCloud
      BY DEF InCloud, Elements
    <3> QED
      BY <3>1, <3>2
  <2>3. UNCHANGED InHand
    BY DEF InHand, Measured
  <2>4. UNCHANGED <<InQueue, InBuffer>>
    BY DEF InQueue, InBuffer, Measured, Elements
  <2> QED
    BY <2>1, <2>2, <2>3, <2>4
<1>2. UNCHANGED Stages /\ UNCHANGED Pipeline
  BY <1>1 DEF Stages, Pipeline
<1>3. InOrder'
  BY <1>2 DEF OInv, InOrder, Measured
<1>4. HandInv'
  BY DEF OInv, HandInv
<1>5. FullInv'
  BY DEF OInv, FullInv, Elements
<1>6. DataInv' /\ KeptInv' /\ TurnInv'
  BY <1>1, <1>2 DEF OInv, DataInv, KeptInv, Older, TurnInv
<1> QED
  BY <1>3, <1>4, <1>5, <1>6 DEF OInv

-----------------------------------------------------------------------------
(* Steps of the recv thread.                                               *)

\* A packet is received: it is behind all others.
LEMMA FillOrder ==
  ASSUME IInv, OInv, NEW b, NEW c \in Contents, packetGet(b), recvPkt = NoBuffer,
         data' = [data EXCEPT ![b] = c], recvPkt' = b, Counted(c),
         c.id = "msop" => c.n = msops + 1,
         recvPc' = "push" \/ inputType = "raw",
         UNCHANGED <<handleVars, cloudVars, convVars, mainVars, pkt_queue_, lost>>
  PROVE  OInv'
<1> USE DEF handleVars, cloudVars, convVars, mainVars
<1>1. /\ b \in Buffers /\ b # NoBuffer /\ b # handlePkt /\ b \notin Elements(pkt_queue_)
      /\ handlePkt \in Buffers \cup {NoBuffer} /\ Elements(pkt_queue_) \subseteq Buffers
  BY GetBuffer, ElementsIn DEF IInv, TypeOK
<1>2. \A e \in Buffers \ {b} : data'[e] = data[e]
  BY DEF OInv, DataInv
<1>3. data'[b] = c /\ data' \in [Buffers -> Contents]
  BY <1>1 DEF OInv, DataInv
<1>4. \A e \in (Buffers \cup {NoBuffer}) \ {b} : Measured(e)' = Measured(e)
  BY <1>2 DEF Measured
<1>5. UNCHANGED <<InFrame, InCopy, InStuffed, InCloud>>
  BY DEF InFrame, InCopy, InStuffed, InCloud
<1>6. UNCHANGED <<InHand, InQueue>>
  <2>1. UNCHANGED InHand
    BY <1>1, <1>4 DEF InHand
  <2>2. UNCHANGED InQueue
    BY <1>1, <1>4 DEF InQueue
  <2> QED
    BY <2>1, <2>2
<1>7. InBuffer = {} /\ InBuffer' = IF c.id = "msop" THEN {msops + 1} ELSE {}
  BY <1>1, <1>3 DEF InBuffer, Measured
<1>8. msops \in Nat /\ msops' = IF c.id = "msop" THEN msops + 1 ELSE msops
  BY DEF Counted, OInv, DataInv
<1>9. Pipeline' = Pipeline \cup InBuffer'
  BY <1>5, <1>6, <1>7, PipelineIs, NextPipelineIs
<1>10. Pipeline \subseteq Nat /\ \A n \in Pipeline : n <= msops
  BY PipelineNumbers DEF OInv, DataInv, Nums
<1>11. Staged'
  <2>1. Before(Pipeline, InBuffer')
    BY <1>7, <1>8, <1>10 DEF Before
  <2>2. Staged
    BY InOrderIs DEF OInv
  <2> QED
    BY <1>5, <1>6, <2>1, <2>2, PipelineIs DEF Staged, Before
<1>12. CloudsInLine' /\ PacketsInLine'
  <2>1. CloudsInLine /\ PacketsInLine
    BY InOrderIs DEF OInv
  <2>2. \A i \in DOMAIN pkt_queue_ : Measured(pkt_queue_[i])' = Measured(pkt_queue_[i])
    BY <1>1, <1>4 DEF Elements
  <2>3. CloudsInLine'
    BY <2>1 DEF CloudsInLine
  <2>4. PacketsInLine'
    BY <2>1, <2>2 DEF PacketsInLine
  <2> QED
    BY <2>3, <2>4
<1>13. InOrder'
  BY <1>11, <1>12, NextInOrderIs
<1>14. DataInv'
  BY <1>3, <1>7, <1>8, <1>9, <1>10 DEF OInv, DataInv
<1>15. HandInv'
  <2>1. handlePc \in {"split", "points"} => handlePkt \in Buffers \ {b}
    BY <1>1 DEF IInv, Hands, HandleHolds
  <2> QED
    BY <1>2, <2>1 DEF OInv, HandInv
<1>16. FullInv' /\ TurnInv'
  BY DEF OInv, FullInv, TurnInv
<1>17. KeptInv'
  <2> SUFFICES ASSUME NEW n \in 1 .. msops', n \notin Pipeline' \cup lost'
               PROVE  Older(n)'
    BY DEF KeptInv
  <2>1. n \in 1 .. msops /\ n \notin Pipeline \cup lost
    BY <1>7, <1>8, <1>9
  <2>2. Older(n)
    BY <2>1 DEF OInv, KeptInv
  <2>3. \A m \in InBuffer' : n < m
    BY <1>7, <1>8, <2>1
  <2> QED
    BY <1>5, <1>9, <2>2, <2>3 DEF Older
<1> QED
  BY <1>13, <1>14, <1>15, <1>16, <1>17 DEF OInv

\* A packet is queued behind the others.
LEMMA PushOrder ==
  ASSUME IInv, OInv, recvPkt # NoBuffer, packetPut(recvPkt), recvPkt' = NoBuffer,
         UNCHANGED <<msops, handleVars, cloudVars, convVars, mainVars, data, lost>>
  PROVE  OInv'
<1> USE DEF handleVars, cloudVars, convVars, mainVars
<1> DEFINE q == Append(pkt_queue_, recvPkt)
<1>1. /\ pkt_queue_ \in Seq(Buffers) /\ recvPkt \in Buffers
      /\ \A e : Measured(e)' = Measured(e)
  BY DEF IInv, TypeOK, Measured
<1>2. /\ Len(q) = Len(pkt_queue_) + 1 /\ Len(pkt_queue_) \in Nat
      /\ DOMAIN q = 1 .. Len(q) /\ DOMAIN pkt_queue_ = 1 .. Len(pkt_queue_)
      /\ \A i \in 1 .. Len(pkt_queue_) : q[i] = pkt_queue_[i]
      /\ q[Len(pkt_queue_) + 1] = recvPkt
      /\ Elements(q) = Elements(pkt_queue_) \cup {recvPkt}
      /\ Elements(q) \subseteq Buffers
  BY <1>1, PutElements, AppendProperties, LenProperties, ElementsIn
<1>3. UNCHANGED <<InFrame, InCopy, InStuffed, InCloud, InHand>>
  BY <1>1 DEF InFrame, InCopy, InStuffed, InCloud, InHand
<1>4. InBuffer' = {}
  BY DEF InBuffer, Measured
<1>5. pkt_queue_' = q
  BY DEF packetPut
<1> HIDE DEF q
<1>6. InQueue' = InQueue \cup InBuffer
  BY <1>1, <1>2, <1>5 DEF InQueue, InBuffer
<1>7. Pipeline' = Pipeline
  BY <1>3, <1>4, <1>6, PipelineIs, NextPipelineIs
<1>8. Staged /\ CloudsInLine /\ PacketsInLine
  BY InOrderIs DEF OInv
<1>9. Staged'
  BY <1>3, <1>4, <1>6, <1>8 DEF Staged, Before
<1>10. PacketsInLine'
  <2> SUFFICES ASSUME NEW i \in DOMAIN q, NEW j \in DOMAIN q, i < j
               PROVE  Before(Measured(q[i]), Measured(q[j]))
    BY <1>1, <1>5 DEF PacketsInLine
  <2>1. CASE j = Len(pkt_queue_) + 1
    <3>1. i \in DOMAIN pkt_queue_ /\ q[j] = recvPkt /\ q[i] = pkt_queue_[i]
      BY <1>2, <2>1
    <3>2. Measured(q[i]) \subseteq InQueue /\ Measured(q[j]) = InBuffer
      BY <3>1 DEF InQueue, InBuffer, Elements
    <3> QED
      BY <1>8, <3>2 DEF Staged, Before
  <2>2. CASE j # Len(pkt_queue_) + 1
    <3>1. i \in DOMAIN pkt_queue_ /\ j \in DOMAIN pkt_queue_ /\ q[i] = pkt_queue_[i] /\ q[j] = pkt_queue_[j]
      BY <1>2, <2>2
    <3> QED
      BY <1>8, <3>1 DEF PacketsInLine
  <2> QED
    BY <2>1, <2>2
<1>11. InOrder'
  <2>1. CloudsInLine'
    BY <1>8 DEF CloudsInLine
  <2> QED
    BY <1>9, <1>10, <2>1, NextInOrderIs
<1>12. DataInv' /\ HandInv' /\ FullInv' /\ TurnInv'
  BY <1>7 DEF OInv, DataInv, HandInv, FullInv, TurnInv
<1>13. KeptInv'
  BY <1>3, <1>7 DEF OInv, KeptInv, Older
<1> QED
  BY <1>11, <1>12, <1>13 DEF OInv

\* The queue is emptied: its packets are given up.
LEMMA ClearOrder ==
  ASSUME IInv, OInv, PacketClear
  PROVE  OInv'
<1> USE DEF PacketClear, handleVars, cloudVars, convVars, mainVars
<1>1. /\ pkt_queue_ \in Seq(Buffers) /\ Elements(pkt_queue_) \subseteq Buffers
      /\ \A e : Measured(e)' = Measured(e)
  BY ElementsIn DEF IInv, TypeOK, Measured
<1>2. UNCHANGED <<InFrame, InCopy, InStuffed, InCloud, InHand, InBuffer>>
  BY <1>1 DEF InFrame, InCopy, InStuffed, InCloud, InHand, InBuffer
<1>3. InQueue' = {}
  BY NoElements DEF InQueue
<1>4. Numbers({data[b] : b \in Elements(pkt_queue_)}) = InQueue
  <2>1. \A e \in Elements(pkt_queue_) : e # NoBuffer
    BY <1>1, RsDriverConstants
  <2>2. ASSUME NEW n
        PROVE  n \in Numbers({data[b] : b \in Elements(pkt_queue_)})
                 <=> \E e \in Elements(pkt_queue_) : n \in Measured(e)
    BY <2>1 DEF Numbers, Measured
  <2> QED
    BY <2>2 DEF InQueue
<1>5. Pipeline' \subseteq Pipeline /\ Pipeline \cup lost \subseteq Pipeline' \cup lost'
  BY <1>2, <1>3, <1>4, PipelineIs, NextPipelineIs
<1>6. Staged /\ CloudsInLine
  BY InOrderIs DEF OInv
<1>7. InOrder'
  <2>1. Staged'
    BY <1>2, <1>3, <1>6 DEF Staged, Before
  <2>2. PacketsInLine'
    <3>1. DOMAIN pkt_queue_' = {}
      OBVIOUS
    <3> QED
      BY <3>1 DEF PacketsInLine
  <2>3. CloudsInLine'
    BY <1>6 DEF CloudsInLine
  <2> QED
    BY <2>1, <2>2, <2>3, NextInOrderIs
<1>8. DataInv' /\ HandInv' /\ FullInv' /\ TurnInv'
  BY <1>5 DEF OInv, DataInv, HandInv, FullInv, TurnInv
<1>9. KeptInv'
  BY <1>2, <1>5 DEF OInv, KeptInv, Older
<1> QED
  BY <1>7, <1>8, <1>9 DEF OInv

-----------------------------------------------------------------------------
(* Steps of the handle thread.                                             *)

LEMMA PopOrder ==
  ASSUME IInv, OInv, HandlePop
  PROVE  OInv'
<1> USE DEF HandlePop, recvVars, convVars, mainVars, cloudVars
<1> DEFINE h == Head(pkt_queue_)
           t == Tail(pkt_queue_)
<1>1. /\ pkt_queue_ \in Seq(Buffers) /\ pkt_queue_ # <<>> /\ handlePkt' = h /\ pkt_queue_' = t
      /\ \A e : Measured(e)' = Measured(e)
  BY DEF IInv, TypeOK, Measured
<1>2. /\ h \in Buffers /\ Elements(pkt_queue_) = {h} \cup Elements(t)
      /\ h = pkt_queue_[1] /\ DOMAIN t = 1 .. Len(t) /\ DOMAIN pkt_queue_ = 1 .. Len(t) + 1
      /\ Len(t) \in Nat
      /\ \A i \in 1 .. Len(t) : t[i] = pkt_queue_[i + 1]
  <2>1. /\ h \in Buffers /\ t \in Seq(Buffers) /\ Elements(pkt_queue_) = {h} \cup Elements(t)
    BY <1>1, TakeElements
  <2>2. /\ Len(t) = Len(pkt_queue_) - 1 /\ \A i \in 1 .. Len(t) : t[i] = pkt_queue_[i + 1]
        /\ Len(pkt_queue_) \in Nat /\ DOMAIN pkt_queue_ = 1 .. Len(pkt_queue_)
    BY <1>1, HeadTailProperties, LenProperties
  <2>3. DOMAIN t = 1 .. Len(t) /\ Len(t) \in Nat
    BY <2>1, LenProperties
  <2>4. h = pkt_queue_[1]
    BY <1>1
  <2> HIDE DEF h, t
  <2>5. Len(pkt_queue_) = Len(t) + 1
    BY <2>2, <2>3
  <2> QED
    BY <2>1, <2>2, <2>3, <2>4, <2>5
<1> HIDE DEF h, t
<1>3. UNCHANGED <<InFrame, InCopy, InStuffed, InCloud, InBuffer>>
  BY <1>1 DEF InFrame, InCopy, InStuffed, InCloud, InBuffer
<1>4. InHand = {} /\ InHand' = Measured(h)
  BY <1>1 DEF InHand
<1>5. InQueue' = UNION {Measured(b) : b \in Elements(t)} /\ InQueue = InHand' \cup InQueue'
  BY <1>1, <1>2, <1>4 DEF InQueue
<1>6. Pipeline' = Pipeline
  BY <1>3, <1>4, <1>5, PipelineIs, NextPipelineIs
<1>7. Staged /\ CloudsInLine /\ PacketsInLine
  BY InOrderIs DEF OInv
<1>8. Before(InHand', InQueue')
  <2> SUFFICES ASSUME NEW i \in 1 .. Len(t)
               PROVE  Before(Measured(h), Measured(t[i]))
    BY <1>2, <1>4, <1>5 DEF Before, Elements
  <2>1. i + 1 \in DOMAIN pkt_queue_ /\ 1 \in DOMAIN pkt_queue_ /\ 1 < i + 1 /\ t[i] = pkt_queue_[i + 1]
    BY <1>2
  <2> QED
    BY <1>2, <1>7, <2>1 DEF PacketsInLine
<1>9. InOrder'
  <2>1. Staged'
    BY <1>3, <1>4, <1>5, <1>7, <1>8 DEF Staged, Before
  <2>2. PacketsInLine'
    <3> SUFFICES ASSUME NEW i \in 1 .. Len(t), NEW j \in 1 .. Len(t), i < j
                 PROVE  Before(Measured(t[i]), Measured(t[j]))
      BY <1>1, <1>2 DEF PacketsInLine
    <3>1. /\ i + 1 \in DOMAIN pkt_queue_ /\ j + 1 \in DOMAIN pkt_queue_ /\ i + 1 < j + 1
          /\ t[i] = pkt_queue_[i + 1] /\ t[j] = pkt_queue_[j + 1]
      BY <1>2
    <3> QED
      BY <1>7, <3>1 DEF PacketsInLine
  <2>3. CloudsInLine'
    BY <1>7 DEF CloudsInLine
  <2> QED
    BY <2>1, <2>2, <2>3, NextInOrderIs
<1>10. DataInv' /\ FullInv' /\ TurnInv'
  BY <1>6 DEF OInv, DataInv, FullInv, TurnInv
<1>11. HandInv'
  BY DEF OInv, HandInv
<1>12. KeptInv'
  BY <1>3, <1>6 DEF OInv, KeptInv, Older
<1> QED
  BY <1>9, <1>10, <1>11, <1>12 DEF OInv

\* A packet is refused, accepted, or begins a turn: then the cloud is handed over.
LEMMA DecodeOrder ==
  ASSUME IInv, OInv, HandleDecode
  PROVE  OInv'
<1> USE DEF recvVars, convVars, mainVars, pktVars
<1> DEFINE c == data[handlePkt]
           isMsop == c.id = "msop" /\ angles_ready_
           handed == isMsop /\ Pos(c.n) <= prev /\ points[point_cloud_] # <<>>
<1>1. /\ handlePc = "decode"
      /\ angles_ready_' = (angles_ready_ \/ c.id = "difop")
      /\ lost' = IF c.id = "msop" /\ ~angles_ready_ THEN lost \cup {c.n} ELSE lost
      /\ prev' = IF isMsop THEN Pos(c.n) ELSE prev
      /\ handed => stuffed_cloud_queue' = Append(stuffed_cloud_queue, point_cloud_) /\ handlePc' = "split"
      /\ ~handed => UNCHANGED stuffed_cloud_queue /\ handlePc' = IF isMsop THEN "points" ELSE "release"
      /\ UNCHANGED <<handlePkt, recvVars, point_cloud_, points, free_cloud_queue, convVars, mainVars, pktVars>>
  BY DEF HandleDecode
<1>2. handlePkt \in Buffers /\ handlePkt # NoBuffer /\ \A e : Measured(e)' = Measured(e)
  BY <1>1 DEF IInv, Hands, HandleHolds, TypeOK, Measured
<1>3. /\ c.id = "msop" => c.n \in Nums /\ Pos(c.n) \in Nat /\ Measured(handlePkt) = {c.n}
      /\ c.id # "msop" => Measured(handlePkt) = {}
      /\ prev \in Nat
  BY <1>2, NumbersOfBuffers, PositionsAreNumbers DEF OInv, DataInv
<1> HIDE DEF c
<1>4. UNCHANGED <<InFrame, InCopy, InQueue, InBuffer>>
  BY <1>1, <1>2 DEF InFrame, InCopy, InQueue, InBuffer
<1>5. InHand = Measured(handlePkt) /\ InHand' = IF isMsop THEN InHand ELSE {}
  BY <1>1, <1>2, <1>3 DEF InHand
<1>6. /\ point_cloud_ \in CloudAddrs /\ stuffed_cloud_queue \in Seq(CloudAddrs)
      /\ InCloud = Elements(points[point_cloud_])
  BY <1>1 DEF IInv, TypeOK, InCloud
<1>7. IF handed THEN InStuffed' = InStuffed \cup InCloud /\ InCloud' = {}
                ELSE UNCHANGED <<InStuffed, InCloud>>
  <2>1. CASE handed
    <3>1. Elements(stuffed_cloud_queue') = Elements(stuffed_cloud_queue) \cup {point_cloud_}
      <4>1. stuffed_cloud_queue' = Append(stuffed_cloud_queue, point_cloud_)
        BY <1>1, <2>1
      <4> QED
        BY ONLY <1>6, <4>1, PutElements
    <3>2. InStuffed' = InStuffed \cup InCloud
      BY <1>1, <1>6, <3>1 DEF InStuffed
    <3>3. InCloud' = {}
      BY <1>1, <2>1 DEF InCloud
    <3> QED
      BY <2>1, <3>2, <3>3
  <2>2. CASE ~handed
    <3>1. UNCHANGED InStuffed
      BY <1>1, <2>2 DEF InStuffed
    <3>2. UNCHANGED InCloud
      BY <1>1, <2>2 DEF InCloud
    <3> QED
      BY <2>2, <3>1, <3>2
  <2> QED
    BY <2>1, <2>2
<1>8. Pipeline' \subseteq Pipeline /\ Pipeline \cup lost \subseteq Pipeline' \cup lost'
  <2>1. InHand \cup lost \subseteq InHand' \cup lost'
    BY <1>1, <1>3, <1>5
  <2>2. lost \subseteq lost' /\ InHand' \subseteq InHand /\ InStuffed' \cup InCloud' = InStuffed \cup InCloud
    BY <1>1, <1>5, <1>7
  <2> QED
    BY <1>4, <2>1, <2>2, PipelineIs, NextPipelineIs
<1>9. Staged /\ CloudsInLine /\ PacketsInLine
  BY InOrderIs DEF OInv
<1>10. Staged'
  BY <1>4, <1>5, <1>7, <1>9 DEF Staged, Before
<1>11. CloudsInLine'
  <2>1. CASE handed
    <3> DEFINE q == Append(stuffed_cloud_queue, point_cloud_)
               k == Len(stuffed_cloud_queue)
    <3>1. /\ k \in Nat /\ DOMAIN stuffed_cloud_queue = 1 .. k /\ DOMAIN q = 1 .. k + 1
          /\ \A i \in 1 .. k : q[i] = stuffed_cloud_queue[i]
          /\ q[k + 1] = point_cloud_ /\ stuffed_cloud_queue' = q
      BY <1>1, <1>6, <2>1, AppendProperties, LenProperties
    <3> HIDE DEF q, k
    <3> SUFFICES ASSUME NEW i \in 1 .. k + 1, NEW j \in 1 .. k + 1, i < j
                 PROVE  Before(Elements(points[q[i]]), Elements(points[q[j]]))
      BY <1>1, <3>1 DEF CloudsInLine
    <3>2. CASE j = k + 1
      <4>1. i \in DOMAIN stuffed_cloud_queue /\ q[i] = stuffed_cloud_queue[i] /\ q[j] = point_cloud_
        BY <3>1, <3>2
      <4>2. Elements(points[q[i]]) \subseteq InStuffed /\ Elements(points[q[j]]) = InCloud
        BY <1>6, <4>1 DEF InStuffed, Elements
      <4> QED
        BY <1>9, <4>2 DEF Staged, Before
    <3>3. CASE j # k + 1
      <4>1. /\ i \in DOMAIN stuffed_cloud_queue /\ j \in DOMAIN stuffed_cloud_queue
            /\ q[i] = stuffed_cloud_queue[i] /\ q[j] = stuffed_cloud_queue[j]
        BY <3>1, <3>3
      <4> QED
        BY <1>9, <4>1 DEF CloudsInLine
    <3> QED
      BY <3>2, <3>3
  <2>2. CASE ~handed
    BY <1>1, <1>9, <2>2 DEF CloudsInLine
  <2> QED
    BY <2>1, <2>2
<1>12. PacketsInLine'
  BY <1>1, <1>2, <1>9 DEF PacketsInLine
<1>13. DataInv'
  BY <1>1, <1>3, <1>8 DEF OInv, DataInv
<1>14. HandInv'
  <2> DEFINE q == points[point_cloud_]
  <2>1. handlePc' \in {"split", "points"} => isMsop
    BY <1>1
  <2>2. q # <<>> => Pos(q[Len(q)]) <= prev /\ Pos(q[Len(q)]) \in Nat
    <3>1. q # <<>> => q[Len(q)] \in Nums
      BY <1>6, LenProperties, EmptySeq, ElementOfSeq DEF OInv, DataInv
    <3> QED
      BY <1>1, <3>1, PositionsAreNumbers DEF OInv, HandInv
  <2>3. handlePc' = "points" /\ q # <<>> => Pos(q[Len(q)]) < Pos(c.n)
    <3> SUFFICES ASSUME handlePc' = "points", q # <<>>
                 PROVE  Pos(q[Len(q)]) < Pos(c.n)
      OBVIOUS
    <3>1. isMsop /\ ~handed
      BY <1>1, <2>1
    <3>2. ~(Pos(c.n) <= prev)
      BY <3>1
    <3> HIDE DEF q
    <3>3. Pos(c.n) \in Nat /\ prev \in Nat /\ Pos(q[Len(q)]) \in Nat /\ Pos(q[Len(q)]) <= prev
      BY <1>3, <2>2, <3>1
    <3> QED
      BY ONLY <3>2, <3>3
  <2>4. handlePc' # "split" /\ handlePc' # "points" => prev' = prev
    BY <1>1
  <2> HIDE DEF q
  <2>5. /\ recvPkt' # NoBuffer => recvPc' = "push" \/ inputType' = "raw"
        /\ handlePc' \in {"split", "points"} => angles_ready_' /\ data'[handlePkt'].id = "msop" /\ prev' = Pos(data'[handlePkt'].n)
    BY <1>1, <2>1 DEF OInv, HandInv, c
  <2>6. handlePc' # "split" /\ q # <<>> => IF handlePc' = "points" THEN Pos(q[Len(q)]) < prev' ELSE Pos(q[Len(q)]) <= prev'
    BY <1>1, <2>1, <2>2, <2>3, <2>4
  <2> QED
    BY <1>1, <2>5, <2>6 DEF HandInv, q
<1>15. FullInv'
  <2>1. \A d \in Elements(stuffed_cloud_queue') : points[d] # <<>>
    <3>1. CASE handed
      <4>1. Elements(stuffed_cloud_queue') = Elements(stuffed_cloud_queue) \cup {point_cloud_}
        <5>1. stuffed_cloud_queue' = Append(stuffed_cloud_queue, point_cloud_)
          BY <1>1, <3>1
        <5> QED
          BY ONLY <1>6, <5>1, PutElements
      <4> QED
        BY <3>1, <4>1 DEF OInv, FullInv
    <3>2. CASE ~handed
      BY <1>1, <3>2 DEF OInv, FullInv
    <3> QED
      BY <3>1, <3>2
  <2> QED
    BY <1>1, <2>1 DEF OInv, FullInv
<1>16. TurnInv'
  BY <1>1 DEF OInv, TurnInv
<1>17. KeptInv'
  BY <1>1, <1>4, <1>8 DEF OInv, KeptInv, Older
<1> QED
  BY <1>10, <1>11, <1>12, <1>13, <1>14, <1>15, <1>16, <1>17, NextInOrderIs DEF OInv

\* The next cloud is nobody's, and empty.
LEMMA SplitOrder ==
  ASSUME IInv, OInv, HandleSplit
  PROVE  OInv'
<1> USE DEF recvVars, convVars, mainVars, pktVars
<1> DEFINE d == point_cloud_'
<1>1. /\ handlePc = "split" /\ handlePc' = "points"
      /\ UNCHANGED <<handlePkt, angles_ready_, prev, recvVars, stuffed_cloud_queue, convVars, mainVars, pktVars, lost>>
      /\ d \in CloudAddrs /\ d \notin Elements(stuffed_cloud_queue) /\ d # convCloud
  BY GetCloud DEF HandleSplit
<1>2. /\ points' \in [CloudAddrs -> Seq(Nums)] /\ points'[d] = <<>>
      /\ \A c \in CloudAddrs : c # d => points'[c] = points[c]
  BY <1>1 DEF HandleSplit, getPointCloud, OInv, DataInv
<1> HIDE DEF d
<1>3. /\ Elements(stuffed_cloud_queue) \subseteq CloudAddrs \ {d}
      /\ \A i \in DOMAIN stuffed_cloud_queue : points'[stuffed_cloud_queue[i]] = points[stuffed_cloud_queue[i]]
  <2>1. Elements(stuffed_cloud_queue) \subseteq CloudAddrs \ {d}
    BY <1>1, ElementsIn DEF IInv, TypeOK
  <2> QED
    BY <1>2, <2>1 DEF Elements
<1>4. convPc \in {"clear", "fill"} => points'[convCloud] = points[convCloud]
  BY <1>1, <1>2 DEF IInv, TypeOK, Hands, ConvHolds
<1>5. UNCHANGED <<InFrame, InCopy, InStuffed, InCloud, InHand, InQueue, InBuffer>>
  <2>1. UNCHANGED <<InFrame, InCopy>>
    BY <1>1, <1>4 DEF InFrame, InCopy
  <2>2. UNCHANGED InStuffed
    BY <1>1, <1>2, <1>3 DEF InStuffed
  <2>3. UNCHANGED InCloud
    <3>1. Elements(points'[d]) = {}
      BY <1>2, NoElements
    <3> QED
      BY <1>1, <3>1 DEF InCloud, d
  <2>4. UNCHANGED InHand
    BY <1>1 DEF InHand, Measured
  <2>5. UNCHANGED <<InQueue, InBuffer>>
    BY <1>1 DEF InQueue, InBuffer, Measured
  <2> QED
    BY <2>1, <2>2, <2>3, <2>4, <2>5
<1>6. UNCHANGED Stages /\ UNCHANGED Pipeline
  BY <1>5 DEF Stages, Pipeline
<1>7. InOrder'
  BY <1>1, <1>3, <1>6 DEF OInv, InOrder, Measured
<1>8. DataInv'
  BY <1>1, <1>2, <1>6 DEF OInv, DataInv
<1>9. HandInv'
  BY <1>1, <1>2 DEF OInv, HandInv, d
<1>10. FullInv'
  BY <1>1, <1>2, <1>3, <1>4 DEF OInv, FullInv
<1>11. KeptInv'
  BY <1>1, <1>5, <1>6 DEF OInv, KeptInv, Older
<1>12. TurnInv'
  BY <1>1, <1>2, NoneInTurn DEF OInv, TurnInv
<1> QED
  BY <1>7, <1>8, <1>9, <1>10, <1>11, <1>12 DEF OInv

LEMMA PointsOrder ==
  ASSUME IInv, OInv, HandlePoints
  PROVE  OInv'
<1> USE DEF recvVars, convVars, mainVars, pktVars
<1> DEFINE n == data[handlePkt].n
           q == points[point_cloud_]
<1>1. /\ handlePc = "points" /\ handlePc' = "release"
      /\ points' = [points EXCEPT ![point_cloud_] = Append(q, n)]
      /\ UNCHANGED <<handlePkt, angles_ready_, prev, recvVars, point_cloud_, free_cloud_queue, stuffed_cloud_queue,
                     convVars, mainVars, pktVars, lost>>
  BY DEF HandlePoints
<1>2. /\ handlePkt \in Buffers /\ handlePkt # NoBuffer /\ angles_ready_ /\ data[handlePkt].id = "msop" /\ prev = Pos(n)
      /\ q # <<>> => Pos(q[Len(q)]) < prev
  BY <1>1 DEF IInv, Hands, HandleHolds, TypeOK, OInv, HandInv
<1>3. n \in Nums /\ Measured(handlePkt) = {n}
  BY <1>2, NumbersOfBuffers DEF OInv
<1>4. /\ point_cloud_ \in CloudAddrs /\ q \in Seq(Nums) /\ point_cloud_ \notin Elements(stuffed_cloud_queue)
      /\ point_cloud_ # convCloud
  BY <1>1 DEF IInv, TypeOK, OneHolder, CloudHasOneHolder, Decoding, Disjoint, OInv, DataInv
<1>5. InHand = {n} /\ InHand' = {} /\ InCloud = Elements(q) /\ InCloud' = Elements(q) \cup {n}
  <2>1. InHand = {n} /\ InHand' = {} /\ InCloud = Elements(q)
    BY <1>1, <1>2, <1>3 DEF InHand, InCloud
  <2>2. Elements(Append(q, n)) = Elements(q) \cup {n}
    BY ONLY <1>3, <1>4, PutElements
  <2>3. points'[point_cloud_'] = Append(q, n)
    BY <1>1, <1>4 DEF OInv, DataInv
  <2> QED
    BY <1>1, <2>1, <2>2, <2>3 DEF InCloud
<1>6. /\ points' \in [CloudAddrs -> Seq(Nums)] /\ points'[point_cloud_] = Append(q, n)
      /\ \A c \in CloudAddrs : c # point_cloud_ => points'[c] = points[c]
  <2>1. Append(q, n) \in Seq(Nums)
    BY ONLY <1>3, <1>4, PutElements
  <2> QED
    BY <1>1, <1>4, <2>1 DEF OInv, DataInv
<1>7. /\ Elements(stuffed_cloud_queue) \subseteq CloudAddrs \ {point_cloud_}
      /\ \A i \in DOMAIN stuffed_cloud_queue : points'[stuffed_cloud_queue[i]] = points[stuffed_cloud_queue[i]]
  <2>1. Elements(stuffed_cloud_queue) \subseteq CloudAddrs \ {point_cloud_}
    BY <1>4, ElementsIn DEF IInv, TypeOK
  <2> QED
    BY <1>6, <2>1 DEF Elements
<1>8. convPc \in {"clear", "fill"} => points'[convCloud] = points[convCloud]
  BY <1>4, <1>6 DEF IInv, TypeOK, Hands, ConvHolds
<1>9. UNCHANGED <<InFrame, InCopy, InStuffed, InQueue, InBuffer>>
  <2>1. UNCHANGED <<InFrame, InCopy>>
    BY <1>1, <1>8 DEF InFrame, InCopy
  <2>2. UNCHANGED InStuffed
    BY <1>1, <1>6, <1>7 DEF InStuffed
  <2>3. UNCHANGED <<InQueue, InBuffer>>
    BY <1>1 DEF InQueue, InBuffer, Measured
  <2> QED
    BY <2>1, <2>2, <2>3
<1>10. UNCHANGED Pipeline
  BY <1>5, <1>9, PipelineIs, NextPipelineIs
<1>11. Staged /\ CloudsInLine /\ PacketsInLine
  BY InOrderIs DEF OInv
<1>12. InOrder'
  <2>1. Staged'
    BY <1>5, <1>9, <1>11 DEF Staged, Before
  <2>2. CloudsInLine'
    BY <1>1, <1>7, <1>11 DEF CloudsInLine
  <2>3. PacketsInLine'
    BY <1>1, <1>11 DEF PacketsInLine, Measured
  <2> QED
    BY <2>1, <2>2, <2>3, NextInOrderIs
<1>13. InTurn(Append(q, n))
  <2>1. q # <<>> => q[Len(q)] < n
    <3>1. q # <<>> => q[Len(q)] \in Elements(q)
      BY <1>4, LenProperties, EmptySeq DEF Elements
    <3> QED
      BY <1>5, <1>11, <3>1 DEF Staged, Before
  <2>2. InTurn(q)
    BY <1>4 DEF OInv, TurnInv
  <2> QED
    BY <1>2, <1>3, <1>4, <2>1, <2>2, InTurnGrows
<1>14. Append(q, n) # <<>> /\ Append(q, n)[Len(Append(q, n))] = n
  BY <1>3, <1>4, AppendProperties
<1> HIDE DEF n, q
<1>15. DataInv'
  BY <1>1, <1>6, <1>10 DEF OInv, DataInv
<1>16. HandInv'
  <2>1. prev \in Nat
    BY DEF OInv, DataInv
  <2> QED
    BY <1>1, <1>2, <1>6, <1>14, <2>1 DEF OInv, HandInv
<1>17. FullInv'
  BY <1>1, <1>6, <1>7, <1>8 DEF OInv, FullInv
<1>18. KeptInv'
  BY <1>1, <1>9, <1>10 DEF OInv, KeptInv, Older
<1>19. TurnInv'
  BY <1>1, <1>6, <1>13 DEF OInv, TurnInv
<1> QED
  BY <1>12, <1>15, <1>16, <1>17, <1>18, <1>19 DEF OInv

\* stop clears the decoder's cloud.
LEMMA JoinHandleOrder ==
  ASSUME IInv, OInv, JoinHandle
  PROVE  OInv'
<1> USE DEF recvVars, pktVars
<1>1. /\ handlePc = "exited" /\ handlePc' = "none"
      /\ points' = [points EXCEPT ![point_cloud_] = <<>>]
      /\ lost' = lost \cup Elements(points[point_cloud_])
      /\ UNCHANGED <<inputType, recvVars, handlePkt, angles_ready_, prev, point_cloud_, stuffed_cloud_queue,
                     convPc, convCloud, _frame, pktVars>>
  BY DEF JoinHandle
<1>2. /\ point_cloud_ \in CloudAddrs /\ point_cloud_ \notin Elements(stuffed_cloud_queue)
      /\ point_cloud_ # convCloud
  BY <1>1 DEF IInv, TypeOK, OneHolder, CloudHasOneHolder, Decoding, Disjoint
<1>3. /\ points' \in [CloudAddrs -> Seq(Nums)] /\ points'[point_cloud_] = <<>>
      /\ \A c \in CloudAddrs : c # point_cloud_ => points'[c] = points[c]
  BY <1>1, <1>2 DEF OInv, DataInv
<1>4. /\ Elements(stuffed_cloud_queue) \subseteq CloudAddrs \ {point_cloud_}
      /\ \A i \in DOMAIN stuffed_cloud_queue : points'[stuffed_cloud_queue[i]] = points[stuffed_cloud_queue[i]]
  <2>1. Elements(stuffed_cloud_queue) \subseteq CloudAddrs \ {point_cloud_}
    BY <1>2, ElementsIn DEF IInv, TypeOK
  <2> QED
    BY <1>3, <2>1 DEF Elements
<1>5. convPc \in {"clear", "fill"} => points'[convCloud] = points[convCloud]
  BY <1>2, <1>3 DEF IInv, TypeOK, Hands, ConvHolds
<1>6. UNCHANGED <<InFrame, InCopy, InStuffed, InHand, InQueue, InBuffer>>
  <2>1. UNCHANGED <<InFrame, InCopy>>
    BY <1>1, <1>5 DEF InFrame, InCopy
  <2>2. UNCHANGED InStuffed
    BY <1>1, <1>3, <1>4 DEF InStuffed
  <2>3. UNCHANGED InHand
    BY <1>1 DEF InHand
  <2>4. UNCHANGED <<InQueue, InBuffer>>
    BY <1>1 DEF InQueue, InBuffer, Measured
  <2> QED
    BY <2>1, <2>2, <2>3, <2>4
<1>7. InCloud' = {} /\ lost' = lost \cup InCloud
  <2>1. InCloud = Elements(points[point_cloud_])
    BY <1>1 DEF InCloud
  <2>2. points'[point_cloud_'] = <<>>
    BY <1>1, <1>3
  <2> QED
    BY <1>1, <2>1, <2>2, NoElements DEF InCloud
<1>8. Pipeline' \subseteq Pipeline /\ Pipeline \cup lost \subseteq Pipeline' \cup lost'
  BY <1>6, <1>7, PipelineIs, NextPipelineIs
<1>9. Staged /\ CloudsInLine /\ PacketsInLine
  BY InOrderIs DEF OInv
<1>10. InOrder'
  <2>1. Staged'
    BY <1>6, <1>7, <1>9 DEF Staged, Before
  <2>2. CloudsInLine'
    BY <1>1, <1>4, <1>9 DEF CloudsInLine
  <2>3. PacketsInLine'
    BY <1>1, <1>9 DEF PacketsInLine, Measured
  <2> QED
    BY <2>1, <2>2, <2>3, NextInOrderIs
<1>11. DataInv'
  BY <1>1, <1>3, <1>8 DEF OInv, DataInv
<1>12. HandInv'
  BY <1>1, <1>3 DEF OInv, HandInv
<1>13. FullInv'
  BY <1>1, <1>3, <1>4, <1>5 DEF OInv, FullInv
<1>14. KeptInv'
  BY <1>1, <1>6, <1>8 DEF OInv, KeptInv, Older
<1>15. TurnInv'
  BY <1>1, <1>3, NoneInTurn DEF OInv, TurnInv
<1> QED
  BY <1>10, <1>11, <1>12, <1>13, <1>14, <1>15 DEF OInv

-----------------------------------------------------------------------------
(* Steps of the converter's thread.                                        *)

LEMMA ConvPopOrder ==
  ASSUME IInv, OInv, ConvPop
  PROVE  OInv'
<1> USE DEF recvVars, handleVars, mainVars, pktVars
<1> DEFINE h == Head(stuffed_cloud_queue)
           t == Tail(stuffed_cloud_queue)
<1>1. /\ convPc = "loop" /\ convPc' = "clear" /\ convCloud' = h /\ stuffed_cloud_queue' = t
      /\ stuffed_cloud_queue # <<>> /\ stuffed_cloud_queue \in Seq(CloudAddrs)
      /\ UNCHANGED <<_frame, recvVars, handleVars, point_cloud_, points, mainVars, pktVars, lost>>
  BY DEF ConvPop, IInv, TypeOK
<1>2. /\ h \in CloudAddrs /\ Elements(stuffed_cloud_queue) = {h} \cup Elements(t)
      /\ h = stuffed_cloud_queue[1] /\ DOMAIN t = 1 .. Len(t)
      /\ DOMAIN stuffed_cloud_queue = 1 .. Len(t) + 1 /\ Len(t) \in Nat
      /\ \A i \in 1 .. Len(t) : t[i] = stuffed_cloud_queue[i + 1]
  <2>1. /\ h \in CloudAddrs /\ t \in Seq(CloudAddrs) /\ Elements(stuffed_cloud_queue) = {h} \cup Elements(t)
    BY <1>1, TakeElements
  <2>2. /\ Len(t) = Len(stuffed_cloud_queue) - 1 /\ \A i \in 1 .. Len(t) : t[i] = stuffed_cloud_queue[i + 1]
        /\ Len(stuffed_cloud_queue) \in Nat /\ DOMAIN stuffed_cloud_queue = 1 .. Len(stuffed_cloud_queue)
    BY <1>1, HeadTailProperties, LenProperties
  <2>3. DOMAIN t = 1 .. Len(t) /\ Len(t) \in Nat
    BY <2>1, LenProperties
  <2>4. h = stuffed_cloud_queue[1]
    BY <1>1
  <2> HIDE DEF h, t
  <2>5. Len(stuffed_cloud_queue) = Len(t) + 1
    BY <2>2, <2>3
  <2> QED
    BY <2>1, <2>2, <2>3, <2>4, <2>5
<1> HIDE DEF h, t
<1>3. UNCHANGED <<InFrame, InCloud, InHand, InQueue, InBuffer>>
  <2>1. UNCHANGED <<InFrame, InCloud>>
    BY <1>1 DEF InFrame, InCloud
  <2>2. UNCHANGED InHand
    BY <1>1 DEF InHand, Measured
  <2>3. UNCHANGED <<InQueue, InBuffer>>
    BY <1>1 DEF InQueue, InBuffer, Measured
  <2> QED
    BY <2>1, <2>2, <2>3
<1>4. InCopy = {} /\ InCopy' = Elements(points[h])
  BY <1>1 DEF InCopy
<1>5. InStuffed' = UNION {Elements(points[c]) : c \in Elements(t)} /\ InStuffed = InCopy' \cup InStuffed'
  BY <1>1, <1>2, <1>4 DEF InStuffed
<1>6. UNCHANGED Pipeline
  BY <1>3, <1>4, <1>5, PipelineIs, NextPipelineIs
<1>7. Staged /\ CloudsInLine /\ PacketsInLine
  BY InOrderIs DEF OInv
<1>8. Before(InCopy', InStuffed')
  <2> SUFFICES ASSUME NEW i \in 1 .. Len(t)
               PROVE  Before(Elements(points[h]), Elements(points[t[i]]))
    BY <1>2, <1>4, <1>5 DEF Before, Elements
  <2>1. /\ i + 1 \in DOMAIN stuffed_cloud_queue /\ 1 \in DOMAIN stuffed_cloud_queue /\ 1 < i + 1
        /\ t[i] = stuffed_cloud_queue[i + 1]
    BY <1>2
  <2> QED
    BY <1>2, <1>7, <2>1 DEF CloudsInLine
<1>9. InOrder'
  <2>1. Staged'
    BY <1>3, <1>4, <1>5, <1>7, <1>8 DEF Staged, Before
  <2>2. CloudsInLine'
    <3> SUFFICES ASSUME NEW i \in 1 .. Len(t), NEW j \in 1 .. Len(t), i < j
                 PROVE  Before(Elements(points[t[i]]), Elements(points[t[j]]))
      BY <1>1, <1>2 DEF CloudsInLine
    <3>1. /\ i + 1 \in DOMAIN stuffed_cloud_queue /\ j + 1 \in DOMAIN stuffed_cloud_queue /\ i + 1 < j + 1
          /\ t[i] = stuffed_cloud_queue[i + 1] /\ t[j] = stuffed_cloud_queue[j + 1]
      BY <1>2
    <3> QED
      BY <1>7, <3>1 DEF CloudsInLine
  <2>3. PacketsInLine'
    BY <1>1, <1>7 DEF PacketsInLine, Measured
  <2> QED
    BY <2>1, <2>2, <2>3, NextInOrderIs
<1>10. DataInv' /\ HandInv' /\ TurnInv'
  BY <1>1, <1>6 DEF OInv, DataInv, HandInv, TurnInv
<1>11. FullInv'
  BY <1>1, <1>2 DEF OInv, FullInv
<1>12. KeptInv'
  BY <1>1, <1>3, <1>4, <1>6 DEF OInv, KeptInv, Older
<1> QED
  BY <1>9, <1>10, <1>11, <1>12 DEF OInv

\* The frame that was shown is dropped: every packet of it is older than the cloud's.
LEMMA ConvClearOrder ==
  ASSUME IInv, OInv, ConvClear
  PROVE  OInv'
<1> USE DEF recvVars, handleVars, mainVars, pktVars, cloudVars
<1>1. /\ convPc = "clear" /\ convPc' = "fill" /\ _frame' = <<>>
      /\ UNCHANGED <<convCloud, recvVars, handleVars, cloudVars, mainVars, pktVars, lost>>
  BY DEF ConvClear
<1>2. UNCHANGED <<InCopy, InStuffed, InCloud, InHand, InQueue, InBuffer>>
  <2>1. UNCHANGED <<InCopy, InStuffed, InCloud>>
    BY <1>1 DEF InCopy, InStuffed, InCloud
  <2>2. UNCHANGED InHand
    BY <1>1 DEF InHand, Measured
  <2>3. UNCHANGED <<InQueue, InBuffer>>
    BY <1>1 DEF InQueue, InBuffer, Measured
  <2> QED
    BY <2>1, <2>2, <2>3
<1>3. InFrame' = {}
  BY <1>1 DEF InFrame
<1>4. Pipeline = Pipeline' \cup InFrame
  BY <1>2, <1>3, PipelineIs, NextPipelineIs
<1>5. Staged /\ CloudsInLine /\ PacketsInLine
  BY InOrderIs DEF OInv
<1>6. Before(InFrame, Pipeline')
  BY <1>2, <1>3, <1>5, NextPipelineIs DEF Staged, Before
<1>7. InOrder'
  <2>1. Staged'
    BY <1>2, <1>3, <1>5 DEF Staged, Before
  <2>2. CloudsInLine'
    BY <1>1, <1>5 DEF CloudsInLine
  <2>3. PacketsInLine'
    BY <1>1, <1>5 DEF PacketsInLine, Measured
  <2> QED
    BY <2>1, <2>2, <2>3, NextInOrderIs
<1>8. DataInv'
  BY <1>1, <1>4 DEF OInv, DataInv
<1>9. HandInv' /\ TurnInv'
  BY <1>1, NoneInTurn DEF OInv, HandInv, TurnInv
<1>10. convCloud \in CloudAddrs /\ points[convCloud] \in Seq(Nums) /\ points[convCloud] # <<>>
  BY <1>1 DEF IInv, TypeOK, Hands, ConvHolds, OInv, DataInv, FullInv
<1>11. FullInv'
  <2>1. PartOf(<<>>, points[convCloud])
    BY <1>10, LenProperties, EmptySeq DEF PartOf
  <2> QED
    BY <1>1, <2>1 DEF OInv, FullInv
<1>12. KeptInv'
  <2>1. InCopy # {}
    <3>1. InCopy = Elements(points[convCloud])
      BY <1>1 DEF InCopy
    <3>2. 1 \in DOMAIN points[convCloud]
      BY <1>10, LenProperties, EmptySeq
    <3> QED
      BY <3>1, <3>2 DEF Elements
  <2> SUFFICES ASSUME NEW n \in 1 .. msops, n \notin Pipeline' \cup lost
               PROVE  Older(n)'
    BY <1>1 DEF KeptInv
  <2>2. \A m \in Pipeline' : n < m
    <3>1. CASE n \in InFrame
      BY <1>6, <3>1 DEF Before
    <3>2. CASE n \notin InFrame
      BY <1>4, <3>2 DEF OInv, KeptInv, Older
    <3> QED
      BY <3>1, <3>2
  <2> QED
    BY <1>2, <2>1, <2>2 DEF Older
<1> QED
  BY <1>7, <1>8, <1>9, <1>11, <1>12 DEF OInv

\* The frame grows to a copy of its cloud, and is shown when it is one.
LEMMA ConvFillOrder ==
  ASSUME IInv, OInv, ConvFill
  PROVE  OInv'
<1> USE DEF recvVars, handleVars, mainVars, pktVars, cloudVars
<1> DEFINE q == points[convCloud]
<1>1. /\ convPc = "fill"
      /\ UNCHANGED <<convCloud, recvVars, handleVars, cloudVars, mainVars, pktVars, lost>>
      /\ IF Len(_frame) < Len(q)
         THEN _frame' = Append(_frame, q[Len(_frame) + 1]) /\ convPc' = "fill"
         ELSE convPc' = "release" /\ UNCHANGED _frame
  BY DEF ConvFill
<1>2. /\ convCloud \in CloudAddrs /\ q \in Seq(Nums) /\ _frame \in Seq(Nums) /\ PartOf(_frame, q)
      /\ InTurn(q) /\ InTurn(_frame)
  BY <1>1 DEF IInv, TypeOK, Hands, ConvHolds, OInv, DataInv, FullInv, TurnInv
<1>3. /\ Len(q) \in Nat /\ Len(_frame) \in Nat /\ DOMAIN q = 1 .. Len(q) /\ DOMAIN _frame = 1 .. Len(_frame)
      /\ \A i \in 1 .. Len(q) : q[i] \in Nums
  BY <1>2, LenProperties, ElementOfSeq
<1>4. InCopy = Elements(q) /\ InFrame = {}
  BY <1>1 DEF InCopy, InFrame
<1>5. UNCHANGED <<InStuffed, InCloud, InHand, InQueue, InBuffer>>
  <2>1. UNCHANGED <<InStuffed, InCloud>>
    BY <1>1 DEF InStuffed, InCloud
  <2>2. UNCHANGED InHand
    BY <1>1 DEF InHand, Measured
  <2>3. UNCHANGED <<InQueue, InBuffer>>
    BY <1>1 DEF InQueue, InBuffer, Measured
  <2> QED
    BY <2>1, <2>2, <2>3
<1> HIDE DEF q
<1>6. \/ InFrame' = {} /\ InCopy' = InCopy
      \/ InFrame' = InCopy /\ InCopy' = {}
  <2>1. CASE Len(_frame) < Len(q)
    BY <1>1, <2>1 DEF InFrame, InCopy
  <2>2. CASE ~(Len(_frame) < Len(q))
    <3>1. Len(_frame) = Len(q)
      <4>1. Len(_frame) <= Len(q)
        BY <1>2 DEF PartOf
      <4>2. Len(_frame) \in Nat /\ Len(q) \in Nat /\ ~(Len(_frame) < Len(q))
        BY <1>3, <2>2
      <4> QED
        <5>1. \A m, n \in Nat : m <= n /\ ~(m < n) => m = n
          OBVIOUS
        <5> QED
          BY ONLY <4>1, <4>2, <5>1
    <3>2. Elements(_frame) = Elements(q)
      BY <1>2, <1>3, <3>1 DEF PartOf, Elements
    <3> QED
      BY <1>1, <1>4, <2>2, <3>2 DEF InFrame, InCopy
  <2> QED
    BY <2>1, <2>2
<1>7. UNCHANGED Pipeline /\ InFrame' \cup InCopy' = InFrame \cup InCopy
  BY <1>4, <1>5, <1>6, PipelineIs, NextPipelineIs
<1>8. InOrder'
  <2>1. Staged /\ CloudsInLine /\ PacketsInLine
    BY InOrderIs DEF OInv
  <2>2. Staged'
    BY <1>4, <1>5, <1>6, <2>1 DEF Staged, Before
  <2>3. CloudsInLine'
    BY <1>1, <2>1 DEF CloudsInLine
  <2>4. PacketsInLine'
    BY <1>1, <2>1 DEF PacketsInLine, Measured
  <2> QED
    BY <2>2, <2>3, <2>4, NextInOrderIs
<1>9. /\ _frame' \in Seq(Nums) /\ InTurn(_frame')
      /\ convPc' = "fill" => PartOf(_frame', q)
  <2>1. CASE Len(_frame) < Len(q)
    <3> DEFINE x == q[Len(_frame) + 1]
               p == Append(_frame, x)
    <3>1. x \in Nums /\ _frame' = p
      BY <1>1, <1>3, <2>1
    <3>2. /\ p \in Seq(Nums) /\ Len(p) = Len(_frame) + 1
          /\ \A i \in 1 .. Len(_frame) : p[i] = _frame[i]
          /\ p[Len(_frame) + 1] = x
      BY <1>2, <3>1, AppendProperties
    <3>3. _frame # <<>> => _frame[Len(_frame)] < x /\ Pos(_frame[Len(_frame)]) < Pos(x)
      <4> SUFFICES ASSUME _frame # <<>>
                   PROVE  _frame[Len(_frame)] < x /\ Pos(_frame[Len(_frame)]) < Pos(x)
        OBVIOUS
      <4>1. Len(_frame) \in 1 .. Len(q) - 1 /\ Len(_frame) \in 1 .. Len(_frame)
        BY <1>2, <1>3, <2>1, EmptySeq
      <4>2. _frame[Len(_frame)] = q[Len(_frame)]
        BY <1>2, <4>1 DEF PartOf
      <4> QED
        BY <1>2, <4>1, <4>2 DEF InTurn, Increasing, OfOneTurn
    <3>4. InTurn(p)
      BY <1>2, <3>1, <3>3, InTurnGrows
    <3>5. PartOf(p, q)
      <4> HIDE DEF p
      <4>1. Len(p) <= Len(q)
        BY <1>3, <2>1, <3>2
      <4>2. ASSUME NEW i \in 1 .. Len(p)
            PROVE  p[i] = q[i]
        <5>1. CASE i = Len(_frame) + 1
          BY <3>2, <5>1
        <5>2. CASE i # Len(_frame) + 1
          <6>1. i \in 1 .. Len(_frame)
            BY <1>3, <3>2, <5>2
          <6> QED
            BY <1>2, <3>2, <6>1 DEF PartOf
        <5> QED
          BY <5>1, <5>2
      <4> QED
        BY <4>1, <4>2 DEF PartOf
    <3> HIDE DEF p
    <3> QED
      BY <3>1, <3>2, <3>4, <3>5
  <2>2. CASE ~(Len(_frame) < Len(q))
    BY <1>1, <1>2, <2>2
  <2> QED
    BY <2>1, <2>2
<1>10. DataInv'
  BY <1>1, <1>7, <1>9 DEF OInv, DataInv
<1>11. HandInv' /\ TurnInv'
  BY <1>1, <1>9 DEF OInv, HandInv, TurnInv
<1>12. FullInv'
  BY <1>1, <1>9 DEF OInv, FullInv, q
<1>13. KeptInv'
  BY <1>1, <1>7 DEF OInv, KeptInv, Older
<1> QED
  BY <1>8, <1>10, <1>11, <1>12, <1>13 DEF OInv

-----------------------------------------------------------------------------
(* All steps.                                                              *)

LEMMA RecvOrder ==
  ASSUME IInv, OInv, Recv \/ FeedPacket \/ FeedPush \/ PacketClear
  PROVE  OInv'
<1> USE DEF mainVars, handleVars, cloudVars, convVars, pktVars, recvVars
<1>1. /\ recvPc \in {"loop", "read"} => recvPkt = NoBuffer
      /\ recvPc = "push" => recvPkt # NoBuffer
  BY DEF OInv, HandInv, IInv, Hands, Joined
<1>2. \A port, c : Arrives(port, c) /\ c.id = "msop" => c.n = msops + 1
  BY DEF Arrives, MsopPacket, DifopPacket, Other
<1>3. CASE RecvStops \/ SockWait \/ PcapEnd
  BY <1>1, <1>3, AsideKeeps DEF RecvStops, SockWait, PcapEnd
<1>4. CASE SockEmpty \/ SockFails
  BY <1>1, <1>4, AsideKeeps DEF SockEmpty, SockFails
<1>5. CASE PcapCrash
  BY <1>5, AsideKeeps DEF PcapCrash
<1>6. CASE SockReceive
  <2>1. PICK b \in Buffers, c \in Contents, port \in ready :
          /\ Arrives(port, c) /\ packetGet(b) /\ data' = [data EXCEPT ![b] = c] /\ recvPkt' = b /\ Counted(c)
    BY <1>6 DEF SockReceive
  <2> QED
    BY <1>1, <1>2, <1>6, <2>1, FillOrder DEF SockReceive
<1>7. CASE PcapPacket \/ PcapJumboPacket
  <2>1. PcapCopy /\ recvPc = "loop"
    BY <1>7 DEF PcapPacket, PcapJumboPacket
  <2>2. PICK b \in Buffers, c \in Contents, port \in {"msop", "difop"} :
          /\ Arrives(port, c) /\ packetGet(b) /\ data' = [data EXCEPT ![b] = c] /\ recvPkt' = b /\ Counted(c)
    BY <2>1 DEF PcapCopy
  <2> QED
    BY <1>1, <1>2, <2>1, <2>2, FillOrder DEF PcapCopy
<1>8. CASE FeedPacket
  <2>1. PICK b \in Buffers, c \in Contents, port \in {"msop", "difop"} :
          /\ Arrives(port, c) /\ packetGet(b) /\ data' = [data EXCEPT ![b] = c] /\ recvPkt' = b /\ Counted(c)
    BY <1>8 DEF FeedPacket
  <2> QED
    BY <1>2, <1>8, <2>1, FillOrder DEF FeedPacket
<1>9. CASE RecvPush
  BY <1>1, <1>9, PushOrder DEF RecvPush
<1>10. CASE FeedPush
  BY <1>10, PushOrder DEF FeedPush
<1>11. CASE PacketClear
  BY <1>11, ClearOrder
<1> QED
  BY <1>3, <1>4, <1>5, <1>6, <1>7, <1>8, <1>9, <1>10, <1>11 DEF Recv

LEMMA OtherOrder ==
  ASSUME IInv, OInv, Handle \/ Conv \/ Start \/ StopInput \/ Join \/ UNCHANGED driverVars
  PROVE  OInv'
<1> USE DEF mainVars, handleVars, cloudVars, convVars, pktVars, recvVars
<1>1. CASE HandleStops \/ HandleRelease
  BY <1>1, AsideKeeps DEF HandleStops, HandleRelease
<1>2. CASE HandlePop \/ HandleDecode \/ HandleSplit \/ HandlePoints
  BY <1>2, PopOrder, DecodeOrder, SplitOrder, PointsOrder
<1>3. CASE ConvStops \/ ConvRelease
  BY <1>3, AsideKeeps DEF ConvStops, ConvRelease
<1>4. CASE ConvPop \/ ConvClear \/ ConvFill
  BY <1>4, ConvPopOrder, ConvClearOrder, ConvFillOrder
<1>5. CASE Start
  BY <1>5, AsideKeeps DEF Start, IInv, Joined, OInv, HandInv
<1>6. CASE StopInput \/ JoinRecv \/ JoinConv
  BY <1>6, AsideKeeps DEF StopInput, JoinRecv, JoinConv, OInv, HandInv
<1>7. CASE JoinHandle
  BY <1>7, JoinHandleOrder
<1>8. CASE UNCHANGED driverVars
  BY <1>8, AsideKeeps DEF driverVars
<1> QED
  BY <1>1, <1>2, <1>3, <1>4, <1>5, <1>6, <1>7, <1>8 DEF Handle, Conv, Join

\* From the network to the snapshot no packet is shown twice, out of its order or under another
\* turn's frame, and none disappears that was not given up: for any number of addresses,
\* packets, sessions and positions in a turn, any input and any limit of the queue.
THEOREM PacketsStayInOrder == DriverSpec => []PacketsInOrder
<1>1. IInv /\ OInv => PacketsInOrder
  BY PipelineIs DEF OInv, KeptInv, Older, TurnInv, InTurn, PacketsInOrder
<1>2. DriverInit => OInv
  BY InitOInv
<1>3. IInv /\ OInv /\ [DriverNext]_driverVars => OInv'
  BY RecvOrder, OtherOrder DEF DriverNext
<1> QED
  BY <1>1, <1>2, <1>3, DriverInvariant, PTL DEF DriverSpec
=============================================================================
