---------------------------- MODULE DriverThreads ----------------------------
(***************************************************************************)
(* The threads that the service's Python drivers leave running, and the    *)
(* on_stop that ends them one after the other: the BynavX1's reader of the *)
(* data port, bridge to the NTRIP caster, poll thread and web socket, the  *)
(* AP500CAN's packet counter and reader, and the two lidars' converter and *)
(* poll thread.  A thread's step is what it does between two waits; the    *)
(* peers (device, caster, CAN gateway, network) answer, stay silent, close *)
(* or reset at any moment, and an exception nobody catches ends a thread.  *)
(* What is received matters only as far as a thread waits for it.          *)
(***************************************************************************)
EXTENDS Integers, Sequences

CONSTANT ReadRetry            \* NtripBridge's read_retry

ASSUME DriverThreadsConstants == ReadRetry \in Nat

VARIABLES driver,             \* whose threads they are
          threadPc,           \* where each thread is; "ended" also if it never was started
          stopEvent,          \* each thread's stop event
          stopPc, stopAt,     \* on_stop: its place, and the position in its order
          socket,             \* the Bynav reader's: connected or None
          readerSocket, writerSocket, tries,   \* NtripBridge; tries: retry_count
          result,             \* BynavX1Proxy has parsed a first position
          keepAlive,
          clientSocket        \* the CAN reader's

bridgeVars == <<readerSocket, writerSocket, tries>>
proxyVars == <<result, keepAlive>>
threadsVars == <<driver, threadPc, stopEvent, stopPc, stopAt, socket, bridgeVars, proxyVars, clientSocket>>

\* The order in which on_stop goes through the threads.
StopOrder ==
  [BynavX1 |-> <<"fakeRecv", "bridge", "reqBuffer", "proxy">>,
   AP500CAN |-> <<"counter", "canRecv">>,
   lidar |-> <<"conv", "reqBuffer">>]

Threads == {"fakeRecv", "bridge", "reqBuffer", "proxy", "keepAlive", "counter", "canRecv", "conv"}

\* The fake readers and the bridge are there if they are configured.
Optional == {"fakeRecv", "bridge", "canRecv"}
FirstPlace(t) == CASE t = "proxy" -> "connect" [] t = "canRecv" -> "connect"
                      [] t = "conv" -> "start" [] OTHER -> "test"

\* on_start has started them.
ThreadsInit ==
  /\ driver \in DOMAIN StopOrder
  /\ \E configured \in SUBSET Optional :
       threadPc = [t \in Threads |->
                     IF (\E i \in DOMAIN StopOrder[driver] : StopOrder[driver][i] = t)
                        /\ (t \in Optional => t \in configured)
                     THEN FirstPlace(t) ELSE "ended"]
  /\ stopEvent = [t \in Threads |-> FALSE]
  /\ stopPc = "idle" /\ stopAt = 1
  /\ socket = FALSE /\ readerSocket = "none" /\ writerSocket = FALSE /\ tries = 0
  /\ result = FALSE /\ keepAlive = FALSE /\ clientSocket = "none"

Goes(t, place) == threadPc' = [threadPc EXCEPT ![t] = place]
stopVars == <<driver, stopEvent, stopPc, stopAt>>

\* The loop's condition, for the threads that begin a round with it.
RoundBegins(t, place) ==
  /\ threadPc[t] = "test"
  /\ Goes(t, IF stopEvent[t] THEN "ended" ELSE place)

-----------------------------------------------------------------------------
\* FakeReceiver of the Bynav: every wait has a timeout.

FakeTest ==
  /\ RoundBegins("fakeRecv", IF socket THEN "recv" ELSE "connect")
  /\ UNCHANGED <<stopVars, socket, bridgeVars, proxyVars, clientSocket>>

FakeConnect ==
  /\ threadPc["fakeRecv"] = "connect"
  /\ \E connects \in BOOLEAN :
       socket' = connects /\ Goes("fakeRecv", IF connects THEN "recv" ELSE "test")
  /\ UNCHANGED <<stopVars, bridgeVars, proxyVars, clientSocket>>

\* Data or the end of the stream; the timeout, which closes the socket; an error nobody catches.
FakeRead ==
  /\ threadPc["fakeRecv"] = "recv"
  /\ \/ Goes("fakeRecv", "test") /\ socket' \in BOOLEAN
     \/ Goes("fakeRecv", "ended") /\ UNCHANGED socket
  /\ UNCHANGED <<stopVars, bridgeVars, proxyVars, clientSocket>>

FakeRecv == FakeTest \/ FakeConnect \/ FakeRead

-----------------------------------------------------------------------------
\* NtripBridge: read from the caster, write to the device.

\* Mutant: the event is not looked at before there is a connection.
RetriesUntilConnected ==
  /\ threadPc["bridge"] = "test"
  /\ Goes("bridge", CASE readerSocket = "none" -> "connect"
                      [] stopEvent["bridge"] -> "ended" [] OTHER -> "read")
  /\ UNCHANGED <<stopVars, socket, bridgeVars, proxyVars, clientSocket>>

BridgeTest ==
  /\ RoundBegins("bridge", IF readerSocket = "none" THEN "connect" ELSE "read")
  /\ UNCHANGED <<stopVars, socket, bridgeVars, proxyVars, clientSocket>>

BridgeConnect ==
  /\ threadPc["bridge"] = "connect"
  /\ \/ Goes("bridge", "test") /\ UNCHANGED readerSocket
     \/ Goes("bridge", "login") /\ readerSocket' = "open"
  /\ UNCHANGED <<stopVars, socket, writerSocket, tries, proxyVars, clientSocket>>

\* RtkReader._close: shutdown raises on a socket its peer has reset, which ends the thread.
CloseReader ==
  \/ readerSocket' = "none" /\ Goes("bridge", "test")
  \/ Goes("bridge", "ended") /\ UNCHANGED readerSocket

\* Two selects of a second; a refused login closes.
BridgeLogin ==
  /\ threadPc["bridge"] = "login"
  /\ \/ Goes("bridge", "read") /\ UNCHANGED readerSocket
     \/ CloseReader
  /\ UNCHANGED <<stopVars, socket, writerSocket, tries, proxyVars, clientSocket>>

\* Data; the end of the stream, which recv answers with no bytes from now on and at once.
BridgeReads ==
  /\ threadPc["bridge"] = "read"
  /\ \/ readerSocket = "open" /\ Goes("bridge", "write") /\ UNCHANGED readerSocket
     \/ readerSocket' = "closed" /\ Goes("bridge", "test")
  /\ tries' = 0
  /\ UNCHANGED <<stopVars, socket, writerSocket, proxyVars, clientSocket>>

\* Nothing within a second, once more or once too often; or select raises.
BridgeWaits ==
  /\ threadPc["bridge"] = "read" /\ readerSocket = "open"
  /\ \/ tries <= ReadRetry /\ tries' = tries + 1 /\ UNCHANGED <<threadPc, readerSocket>>
     \/ CloseReader /\ tries' = 0
  /\ UNCHANGED <<stopVars, socket, writerSocket, proxyVars, clientSocket>>

\* RtkWriter.write, with its own connection and its own _close.
BridgeWrites ==
  /\ threadPc["bridge"] = "write"
  /\ \/ Goes("bridge", "test") /\ writerSocket' \in BOOLEAN
     \/ Goes("bridge", "ended") /\ writerSocket' = TRUE
  /\ UNCHANGED <<stopVars, socket, readerSocket, tries, proxyVars, clientSocket>>

Bridge == BridgeTest \/ BridgeConnect \/ BridgeLogin \/ BridgeReads \/ BridgeWaits \/ BridgeWrites

-----------------------------------------------------------------------------
\* ReqBufferBynavX1, ReqBufferAT128, ReqBufferRSBP

BufferTest ==
  /\ RoundBegins("reqBuffer", "connection")
  /\ UNCHANGED <<stopVars, socket, bridgeVars, proxyVars, clientSocket>>

\* A ping, or a sniff with its timeout; neither is caught when it raises.
PollConnection ==
  /\ threadPc["reqBuffer"] = "connection"
  /\ \E place \in {"health", "ended"} : Goes("reqBuffer", place)
  /\ UNCHANGED <<stopVars, socket, bridgeVars, proxyVars, clientSocket>>

\* The Bynav's polls until the proxy has a position; the lidars' ask the device's web server,
\* and only DriverWarn and DriverError are caught.
PollHealth ==
  /\ threadPc["reqBuffer"] = "health"
  /\ \/ (driver = "BynavX1" => result) /\ Goes("reqBuffer", "test")
     \/ driver = "lidar" /\ Goes("reqBuffer", "ended")
  /\ UNCHANGED <<stopVars, socket, bridgeVars, proxyVars, clientSocket>>

ReqBuffer == BufferTest \/ PollConnection \/ PollHealth

-----------------------------------------------------------------------------
\* BynavX1Proxy and its timer

\* (A connection that is refused leaves everything as it is.)
ProxyConnects ==
  /\ threadPc["proxy"] = "connect" /\ ~stopEvent["proxy"]
  /\ Goes("proxy", "handshake")
  /\ UNCHANGED <<stopVars, socket, bridgeVars, proxyVars, clientSocket>>

\* The device answers the upgrade to a web socket, refuses it or closes; it may do neither,
\* and connect has no timeout.
Handshake ==
  /\ threadPc["proxy"] = "handshake"
  /\ \E place \in {"open", "connect"} : Goes("proxy", place)
  /\ UNCHANGED <<stopVars, socket, bridgeVars, proxyVars, clientSocket>>

\* Told to end before: the loop is left without a connection, and on_open raises.
ProxyGivesUp ==
  /\ threadPc["proxy"] = "connect" /\ stopEvent["proxy"]
  /\ Goes("proxy", "ended")
  /\ UNCHANGED <<stopVars, socket, bridgeVars, proxyVars, clientSocket>>

\* Two sends, either of which may raise; the second starts the timer.
OnOpen ==
  /\ threadPc["proxy"] = "open"
  /\ \/ threadPc' = [threadPc EXCEPT !["proxy"] = "test", !["keepAlive"] = "wait"] /\ keepAlive' = TRUE
     \/ Goes("proxy", "ended") /\ keepAlive' \in BOOLEAN
  /\ UNCHANGED <<stopVars, socket, bridgeVars, result, clientSocket>>

ProxyTest ==
  /\ RoundBegins("proxy", "recv")
  /\ keepAlive' = (keepAlive /\ ~stopEvent["proxy"])
  /\ UNCHANGED <<stopVars, socket, bridgeVars, result, clientSocket>>

\* recv has no timeout.  A position, another message, or one that parse_best cannot take and
\* a closed connection, which end the thread.
ProxyReceives ==
  /\ threadPc["proxy"] = "recv"
  /\ \/ Goes("proxy", "test") /\ result' \in {result, TRUE}
     \/ Goes("proxy", "ended") /\ UNCHANGED result
  /\ UNCHANGED <<stopVars, socket, bridgeVars, keepAlive, clientSocket>>

\* web_sock_keep_alive starts the next timer unless send raises.
KeepAlive ==
  /\ threadPc["keepAlive"] = "wait"
  /\ \E raises \in BOOLEAN : Goes("keepAlive", IF raises \/ ~keepAlive THEN "ended" ELSE "wait")
  /\ UNCHANGED <<stopVars, socket, bridgeVars, proxyVars, clientSocket>>

-----------------------------------------------------------------------------
\* PacketCounter and FakeReceiver of the AP500CAN, and the lidars' PcdConv

\* sniff has a timeout; it may raise.
Count ==
  /\ \/ RoundBegins("counter", "sniff")
     \/ threadPc["counter"] = "sniff" /\ \E place \in {"test", "ended"} : Goes("counter", place)
  /\ UNCHANGED <<stopVars, socket, bridgeVars, proxyVars, clientSocket>>

\* bind, listen and connect, each of which may raise.
CanConnects ==
  /\ threadPc["canRecv"] = "connect"
  /\ \E place \in {"test", "ended"} : Goes("canRecv", place)
  /\ UNCHANGED <<stopVars, socket, bridgeVars, proxyVars, clientSocket>>

\* (With the event set and no client, close is called of None: the thread ends all the same.)
CanTest ==
  /\ RoundBegins("canRecv", IF clientSocket = "none" THEN "accept" ELSE "recv")
  /\ UNCHANGED <<stopVars, socket, bridgeVars, proxyVars, clientSocket>>

\* The CAN gateway connects; its data; its reset.  Neither accept nor recv has a timeout.
CanAccepts ==
  /\ threadPc["canRecv"] = "accept"
  /\ clientSocket' = "open" /\ Goes("canRecv", "recv")
  /\ UNCHANGED <<stopVars, socket, bridgeVars, proxyVars>>

CanReceives ==
  /\ threadPc["canRecv"] = "recv" /\ clientSocket = "open"
  /\ \/ Goes("canRecv", "test") /\ clientSocket' \in {"open", "closed"}
     \/ Goes("canRecv", "ended") /\ UNCHANGED clientSocket
  /\ UNCHANGED <<stopVars, socket, bridgeVars, proxyVars>>

\* The end of the stream is received again and again, at once.
CanReadsEnd ==
  /\ threadPc["canRecv"] = "recv" /\ clientSocket = "closed"
  /\ Goes("canRecv", "test")
  /\ UNCHANGED <<stopVars, socket, bridgeVars, proxyVars, clientSocket>>

\* converter.start; the converter then runs by itself (HesaiLidar, RsDriver) and this
\* thread only sleeps.
Conv ==
  /\ \/ threadPc["conv"] = "start" /\ Goes("conv", "test")
     \/ RoundBegins("conv", "sleep")
     \/ threadPc["conv"] = "sleep" /\ Goes("conv", "test")
  /\ UNCHANGED <<stopVars, socket, bridgeVars, proxyVars, clientSocket>>

-----------------------------------------------------------------------------
\* on_stop, behind the stop of the acquisition

CallOnStop ==
  /\ stopPc = "idle"
  /\ stopPc' = "next"
  /\ UNCHANGED <<driver, threadPc, stopEvent, stopAt, socket, bridgeVars, proxyVars, clientSocket>>

Told == StopOrder[driver][stopAt]

\* A thread that lives is told to end, one that has ended is passed over; before a PcdConv
\* is told, its converter is stopped.
StopThread ==
  /\ stopPc = "next" /\ stopAt <= Len(StopOrder[driver])
  /\ IF threadPc[Told] = "ended"
     THEN stopAt' = stopAt + 1 /\ UNCHANGED <<stopPc, stopEvent>>
     ELSE IF Told = "conv"
     THEN stopPc' = "converter" /\ UNCHANGED <<stopAt, stopEvent>>
     ELSE /\ stopEvent' = [stopEvent EXCEPT ![Told] = TRUE]
          /\ stopPc' = "join" /\ UNCHANGED stopAt
  /\ UNCHANGED <<driver, threadPc, socket, bridgeVars, proxyVars, clientSocket>>

\* converter.stop returns, if HesaiLidar's or RsDriver's StopReturns says so.  The RSBP's
\* raises when the thread has not started it; the AT128's, then started behind its stop, is
\* not followed.
ConverterStopped ==
  /\ stopPc = "converter"
  /\ \/ stopEvent' = [stopEvent EXCEPT !["conv"] = TRUE] /\ stopPc' = "join"
     \/ threadPc["conv"] = "start" /\ stopPc' = "raised" /\ UNCHANGED stopEvent
  /\ UNCHANGED <<driver, threadPc, stopAt, socket, bridgeVars, proxyVars, clientSocket>>

JoinThread ==
  /\ stopPc = "join" /\ threadPc[Told] = "ended"
  /\ stopPc' = "next" /\ stopAt' = stopAt + 1
  /\ UNCHANGED <<driver, threadPc, stopEvent, socket, bridgeVars, proxyVars, clientSocket>>

OnStopReturned ==
  /\ stopPc = "next" /\ stopAt > Len(StopOrder[driver])
  /\ stopPc' = "returned"
  /\ UNCHANGED <<driver, threadPc, stopEvent, stopAt, socket, bridgeVars, proxyVars, clientSocket>>

OnStop == StopThread \/ JoinThread \/ OnStopReturned

-----------------------------------------------------------------------------
\* The threads' own steps, which wait for nobody or for a time at most, one thread each.
Proxy == ProxyGivesUp \/ OnOpen \/ ProxyTest
CanRecv == CanConnects \/ CanTest \/ CanReadsEnd

ThreadsNext ==
  \/ FakeRecv \/ Bridge \/ ReqBuffer \/ Proxy \/ KeepAlive \/ Count \/ CanRecv \/ Conv
  \/ ProxyConnects \/ Handshake \/ ProxyReceives \/ CanAccepts \/ CanReceives
  \/ ConverterStopped
  \/ CallOnStop \/ OnStop

\* The waits that nothing bounds: for a first position that never comes, for a handshake or
\* a message of a device that is connected and silent, for a CAN gateway that does not
\* connect or send; and for a converter that does not stop.
WaitsForPeer ==
  \/ stopPc = "converter"
  \/ /\ stopPc = "join"
     /\ \/ Told = "reqBuffer" /\ driver = "BynavX1" /\ threadPc["reqBuffer"] = "health" /\ ~result
        \/ Told = "proxy" /\ threadPc["proxy"] \in {"handshake", "recv"}
        \/ Told = "canRecv" /\ threadPc["canRecv"] = "accept"
        \/ Told = "canRecv" /\ threadPc["canRecv"] = "recv" /\ clientSocket = "open"

\* on_stop comes to its end, whatever threads have died and whatever the caster, the data
\* port and the network do, or it stands for ever in one of these waits
\* (BynavX1/driver.py:173-187, AP500CAN/driver.py:30-37, AT128/driver.py:194-203).
OnStopReturns == stopPc # "idle" ~> (stopPc \in {"returned", "raised"} \/ []WaitsForPeer)
=============================================================================
