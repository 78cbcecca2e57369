------------------------------- MODULE RsJumbo -------------------------------
(***************************************************************************)
(* Jumbo of rs_driver (driver/input/jumbo.hpp): the fragments of UDP       *)
(* datagrams, in the order in which a capture holds them, become the       *)
(* datagrams.  A fragment's data is a sequence of units <<datagram, n>>,   *)
(* n counting from the start of the datagram; offsets count these units.   *)
(***************************************************************************)
EXTENDS Naturals, Sequences, FiniteSets

CONSTANTS Datagrams,      \* of which SizeOf and IdOf tell the rest
          IdOf,           \* the identification in the IP header, of 16 bits: it may repeat
          SizeOf,         \* units
          FRAGMENT,       \* units in a fragment that is not the last
          MaxArrivals     \* fragments in the capture

ASSUME JumboConstants ==
  /\ FRAGMENT \in Nat \ {0} /\ MaxArrivals \in Nat
  /\ IdOf \in [Datagrams -> Nat] /\ SizeOf \in [Datagrams -> Nat \ {0}]

VARIABLES ip_id_, buf_, buf_off_,   \* the members of Jumbo
          received,                 \* the last datagram handed on
          arrivals

jumboVars == <<ip_id_, buf_, buf_off_, received, arrivals>>

Unit(d, n) == <<d, n>>
DatagramOf(unit) == unit[1]
PlaceOf(unit) == unit[2]
Content(d) == [n \in 1 .. SizeOf[d] |-> Unit(d, n)]

Fragment(d, off) ==
  LET end == IF off + FRAGMENT < SizeOf[d] THEN off + FRAGMENT ELSE SizeOf[d]
  IN  [ip_id |-> IdOf[d], frag_off |-> off, more |-> end < SizeOf[d], udp |-> TRUE,
       data |-> SubSeq(Content(d), off + 1, end)]

\* The places where a datagram is cut.
Offsets(d) == {off \in 0 .. SizeOf[d] - 1 : \E k \in 0 .. off : off = FRAGMENT * k}

Fragments == UNION {{Fragment(d, off) : off \in Offsets(d)} : d \in Datagrams}

NoData == <<>>

-----------------------------------------------------------------------------

JInit == ip_id_ = 0 /\ buf_ = <<>> /\ buf_off_ = 0 /\ received = NoData /\ arrivals = 0

\* memcpy (buf_ + off, data): what lies behind stays.
Copy(off, data) ==
  [n \in 1 .. (IF off + Len(data) > Len(buf_) THEN off + Len(data) ELSE Len(buf_)) |->
     IF n > off /\ n <= off + Len(data) THEN data[n - off] ELSE buf_[n]]

\* Mutant: a fragment of the datagram in hand is appended whatever its offset.
AppendAnywhere(f) ==
  /\ f.ip_id = ip_id_ /\ f.frag_off # 0
  /\ buf_' = Copy(buf_off_, f.data)
  /\ buf_off_' = buf_off_ + Len(f.data)
  /\ IF f.more
     THEN ip_id_' = ip_id_ /\ received' = NoData
     ELSE ip_id_' = 0 /\ received' = SubSeq(buf_', 1, buf_off_')

\* The fragment goes on where the datagram in hand ends.
Append_(f) ==
  /\ f.ip_id = ip_id_ /\ f.frag_off = buf_off_
  /\ buf_' = Copy(buf_off_, f.data)
  /\ buf_off_' = buf_off_ + Len(f.data)
  /\ IF f.more
     THEN ip_id_' = ip_id_ /\ received' = NoData
     ELSE ip_id_' = 0 /\ received' = SubSeq(buf_', 1, buf_off_')

\* The first fragment of another datagram takes the place of the one in hand.
Begin(f) ==
  /\ f.ip_id # ip_id_ /\ f.frag_off = 0 /\ f.more
  /\ ip_id_' = f.ip_id
  /\ buf_' = Copy(0, f.data)
  /\ buf_off_' = Len(f.data)
  /\ received' = NoData

\* A datagram of one piece passes by the one in hand.
Single(f) ==
  /\ f.ip_id # ip_id_ /\ f.frag_off = 0 /\ ~f.more
  /\ received' = f.data
  /\ UNCHANGED <<ip_id_, buf_, buf_off_>>

Ignore(f) ==
  /\ \/ ~f.udp
     \/ f.ip_id = ip_id_ /\ f.frag_off # buf_off_
     \/ f.ip_id # ip_id_ /\ f.frag_off # 0
  /\ received' = NoData
  /\ UNCHANGED <<ip_id_, buf_, buf_off_>>

new_fragment(f) ==
  \/ f.udp /\ (Append_(f) \/ Begin(f) \/ Single(f))
  \/ Ignore(f)

\* The network loses, repeats and reorders the fragments.
JNext ==
  /\ arrivals < MaxArrivals
  /\ arrivals' = arrivals + 1
  /\ \E f \in Fragments, udp \in BOOLEAN : new_fragment([f EXCEPT !.udp = udp])

JSpec == JInit /\ [][JNext]_jumboVars

-----------------------------------------------------------------------------

\* The last unit of its datagram.
Ends(unit) == PlaceOf(unit) = SizeOf[DatagramOf(unit)]

\* In what is handed on every unit is at its place and the last one ends a
\* datagram, without a hole, in whatever order and however often the fragments
\* come.  So it is one datagram, whole, but where another one has the same
\* identification, or the identification 0, with which Jumbo says that it has
\* none in hand: a fragment of that one may go on where the first one ends
\* (new_fragment in jumbo.hpp).
JumboExact ==
  received # NoData =>
    /\ \A n \in DOMAIN received : PlaceOf(received[n]) = n
    /\ Ends(received[Len(received)])
    /\ \A m, n \in DOMAIN received :
         LET id1 == IdOf[DatagramOf(received[m])] id2 == IdOf[DatagramOf(received[n])]
         IN  id1 # id2 => 0 \in {id1, id2}
=============================================================================
