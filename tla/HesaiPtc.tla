------------------------------ MODULE HesaiPtc ------------------------------
(***************************************************************************)
(* PtcClient of the Hesai SDK (PtcClient/src): one command is sent over    *)
(* TCP and its answer, a header and a payload, is read from a stream that  *)
(* comes in pieces of any size and may still hold what earlier commands    *)
(* have left there.  A unit of the stream is a record: unit n of a header  *)
(* or of a payload; units 1 and 2 of a header are its identifiers, the     *)
(* others carry the command, the return code and the payload's length.     *)
(***************************************************************************)
EXTENDS Naturals, Sequences, FiniteSets

CONSTANTS Commands,          \* the commands asked (kPTCGetLidarCalibration, ...)
          HEADER_SIZE,       \* units in a header (8 or 12 bytes in the code)
          PAYLOAD_LEN,       \* of the answer to each command
          MaxQueries         \* commands asked in a behaviour

ASSUME PtcConstants ==
  /\ HEADER_SIZE \in Nat /\ HEADER_SIZE > 2 /\ MaxQueries \in Nat
  /\ PAYLOAD_LEN \in [Commands -> Nat]

VARIABLES client_mode_,        \* "tcp" or "tcp_ssl"
          m_bLidarConnected,
          m_sServerIP,         \* is the address kept?
          queryPc,             \* "idle", "header", "body", "crashed"
          u8Cmd, nLeft,
          pHeaderBuf,          \* what is valid in it; empty until bHeaderFound
          pBodyBuf,
          answer,              \* [ret, byteStreamOut] of the last command
          asked,               \* commands the lidar has not answered yet
          stream,              \* units sent by the lidar and not received
          queries

ptcVars == <<client_mode_, m_bLidarConnected, m_sServerIP, queryPc, u8Cmd, nLeft, pHeaderBuf,
             pBodyBuf, answer, asked, stream, queries>>

NoCommand == "none"

HeaderUnit(c, code, n) == [part |-> "header", cmd |-> c, code |-> code, n |-> n]
BodyUnit(c, n) == [part |-> "body", cmd |-> c, code |-> 0, n |-> n]

\* SetPayloadLen and what follows the header.
Payload(c) == [n \in 1 .. PAYLOAD_LEN[c] |-> BodyUnit(c, n)]

Answer(c, code) == [n \in 1 .. HEADER_SIZE |-> HeaderUnit(c, code, n)] \o Payload(c)

\* IsValidReturnCode, which looks at the identifiers too.
IsValidReturnCode(header) ==
  /\ header[1].part = "header" /\ header[1].n = 1
  /\ header[2].part = "header" /\ header[2].n = 2
  /\ header[3].code = 0

GetCmd(header) == header[3].cmd
GetPayloadLen(header) == Len(Payload(header[3].cmd))

-----------------------------------------------------------------------------

PInit ==
  /\ client_mode_ \in {"tcp", "tcp_ssl"}
  /\ m_bLidarConnected = TRUE /\ m_sServerIP = TRUE
  /\ queryPc = "idle" /\ u8Cmd = NoCommand /\ nLeft = 0
  /\ pHeaderBuf = <<>> /\ pBodyBuf = <<>>
  /\ answer = [ret |-> 1, byteStreamOut |-> <<>>]
  /\ asked = <<>> /\ stream = <<>> /\ queries = 0

Fail == queryPc' = "idle" /\ answer' = [ret |-> 1, byteStreamOut |-> <<>>]

Succeed(out) == queryPc' = "idle" /\ answer' = [ret |-> 0, byteStreamOut |-> out]

\* TcpClient's Receive and Send close the socket alone; TcpSslClient::Close
\* forgets the address as well.
Disconnect ==
  /\ m_bLidarConnected' = FALSE
  /\ m_sServerIP' = (m_sServerIP /\ client_mode_ = "tcp")
  /\ stream' = <<>> /\ asked' = <<>>

\* Send, which opens the connection again if it is closed.
QueryCommand(c) ==
  /\ queryPc = "idle" /\ queries < MaxQueries
  /\ m_bLidarConnected \/ m_sServerIP
  /\ queries' = queries + 1
  /\ u8Cmd' = c /\ queryPc' = "header" /\ nLeft' = HEADER_SIZE
  /\ pHeaderBuf' = <<>> /\ pBodyBuf' = <<>>
  /\ m_bLidarConnected' = TRUE
  /\ asked' = Append(asked, c)
  /\ UNCHANGED <<client_mode_, m_sServerIP, stream, answer>>

\* Send writes less than the command, or nothing: the socket is closed but
\* for EAGAIN, EWOULDBLOCK and EINTR, and the lidar has no command to answer.
SendFails(c) ==
  /\ queryPc = "idle" /\ queries < MaxQueries
  /\ m_bLidarConnected \/ m_sServerIP
  /\ queries' = queries + 1 /\ u8Cmd' = c
  /\ Fail
  /\ \/ Disconnect
     \/ m_bLidarConnected /\ UNCHANGED <<m_bLidarConnected, m_sServerIP, stream, asked>>
  /\ UNCHANGED <<client_mode_, nLeft, pHeaderBuf, pBodyBuf>>

\* Without its address TcpSslClient::Open fails, and its Close frees the
\* context a second time: the process may go on or end.
OpenFails(c) ==
  /\ queryPc = "idle" /\ queries < MaxQueries
  /\ ~m_bLidarConnected /\ ~m_sServerIP
  /\ queries' = queries + 1 /\ u8Cmd' = c
  /\ \/ Fail
     \/ queryPc' = "crashed" /\ UNCHANGED answer
  /\ UNCHANGED <<client_mode_, m_bLidarConnected, m_sServerIP, nLeft, pHeaderBuf, pBodyBuf,
                 asked, stream>>

\* What a call of Receive may return: any beginning of the stream, or with
\* SSL all that was asked for.
Pieces ==
  {SubSeq(stream, 1, n) : n \in IF client_mode_ = "tcp_ssl" THEN {nLeft} \cap 1 .. Len(stream)
                                ELSE {k \in 1 .. Len(stream) : k <= nLeft}}

IsIdentifier(unit, n) == unit.part = "header" /\ unit.n = n

\* The places of the two identifiers in one piece.
Found(piece) ==
  {i \in 1 .. Len(piece) - 1 : IsIdentifier(piece[i], 1) /\ IsIdentifier(piece[i + 1], 2)}

\* What the piece adds to the header buffer: all of it once the identifiers
\* were found, all from the first identifiers on, or nothing.
ToHeader(piece) ==
  IF pHeaderBuf # <<>> THEN piece
  ELSE IF Found(piece) = {} THEN <<>>
  ELSE SubSeq(piece, CHOOSE i \in Found(piece) : \A j \in Found(piece) : i <= j, Len(piece))

\* Mutant: an answer to any command will do.
AnyAnswerOk(header) == IsValidReturnCode(header)

HeaderOk(header) == IsValidReturnCode(header) /\ GetCmd(header) = u8Cmd

ReceiveHeader ==
  /\ queryPc = "header" /\ m_bLidarConnected
  /\ \E piece \in Pieces :
       LET header == pHeaderBuf \o ToHeader(piece)
           left   == HEADER_SIZE - Len(header)
       IN  /\ stream' = SubSeq(stream, Len(piece) + 1, Len(stream))
           /\ pHeaderBuf' = header
           /\ IF left > 0
              THEN nLeft' = left /\ UNCHANGED <<queryPc, answer>>
              ELSE IF ~HeaderOk(header) THEN Fail /\ nLeft' = 0
              ELSE IF GetPayloadLen(header) = 0 THEN Succeed(<<>>) /\ nLeft' = 0
              ELSE queryPc' = "body" /\ nLeft' = GetPayloadLen(header) /\ UNCHANGED answer
  /\ UNCHANGED <<client_mode_, m_bLidarConnected, m_sServerIP, u8Cmd, pBodyBuf, asked, queries>>

ReceiveBody ==
  /\ queryPc = "body" /\ m_bLidarConnected
  /\ \E piece \in Pieces :
       /\ stream' = SubSeq(stream, Len(piece) + 1, Len(stream))
       /\ pBodyBuf' = pBodyBuf \o piece
       /\ nLeft' = nLeft - Len(piece)
       /\ IF nLeft' = 0 THEN Succeed(pBodyBuf') ELSE UNCHANGED <<queryPc, answer>>
  /\ UNCHANGED <<client_mode_, m_bLidarConnected, m_sServerIP, u8Cmd, pHeaderBuf, asked, queries>>

\* recv runs into the socket's timeout: the call fails and what comes later
\* stays in the stream.  TcpSslClient::Receive closes instead.
ReceiveTimeout ==
  /\ queryPc \in {"header", "body"} /\ client_mode_ = "tcp"
  /\ Fail
  /\ UNCHANGED <<client_mode_, m_bLidarConnected, m_sServerIP, u8Cmd, nLeft, pHeaderBuf,
                 pBodyBuf, asked, stream, queries>>

\* recv returns 0 or an error, or SSL could not read all that was asked for.
ReceiveClosed ==
  /\ queryPc \in {"header", "body"}
  /\ Fail /\ Disconnect
  /\ UNCHANGED <<client_mode_, u8Cmd, nLeft, pHeaderBuf, pBodyBuf, queries>>

\* The lidar answers the commands in turn, whenever it likes; its payloads
\* hold no pair of identifiers.
LidarAnswers ==
  /\ asked # <<>>
  /\ \E code \in {0, 1} : stream' = stream \o Answer(Head(asked), code)
  /\ asked' = Tail(asked)
  /\ UNCHANGED <<client_mode_, m_bLidarConnected, m_sServerIP, queryPc, u8Cmd, nLeft,
                 pHeaderBuf, pBodyBuf, answer, queries>>

PNext ==
  \/ \E c \in Commands : QueryCommand(c) \/ SendFails(c) \/ OpenFails(c)
  \/ ReceiveHeader \/ ReceiveBody \/ ReceiveTimeout \/ ReceiveClosed \/ LidarAnswers

PSpec == PInit /\ [][PNext]_ptcVars

-----------------------------------------------------------------------------

\* A command that succeeds returns the whole payload of an answer to that
\* command, never what an earlier command that timed out or was refused has
\* left in the stream, however the stream is cut (QueryCommand reads without
\* TcpFlushIn in ptc_client.cc).
PtcAnswer ==
  queryPc = "idle" /\ answer.ret = 0 => answer.byteStreamOut = Payload(u8Cmd)
=============================================================================
