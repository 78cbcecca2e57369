------------------------- MODULE Reassembly_proofs -------------------------
(***************************************************************************)
(* What the lidars' messages are put together from.  Jumbo hands on whole  *)
(* datagrams only, for any datagrams, any size of the fragments and any    *)
(* capture; PtcClient returns whole answers to its own command only, for   *)
(* any commands, payloads and cuts of the stream.                          *)
(***************************************************************************)
EXTENDS RsJumbo, HesaiPtc, Integers, SequenceTheorems, WellFoundedInduction, TLAPS

-----------------------------------------------------------------------------
(* RsJumbo.                                                                *)

Units == Datagrams \X Nat

\* The first n units of q are at their places, and those with an identification have k.
InPlace(q, n, k) ==
  \A i \in 1 .. n : PlaceOf(q[i]) = i /\ IdOf[DatagramOf(q[i])] \in {k, 0}

\* The identification of what has been put together; of the datagram in hand it is the one noted.
JInv ==
  /\ ip_id_ \in Nat /\ buf_ \in Seq(Units) /\ received \in Seq(Units) /\ buf_off_ \in Nat /\ buf_off_ <= Len(buf_)
  /\ \E k \in Nat : InPlace(buf_, buf_off_, k) /\ ip_id_ \in {k, 0}
  /\ JumboExact

LEMMA InitJInv == JInit => JInv
  BY EmptySeq DEF JInit, JInv, InPlace, JumboExact, NoData

-----------------------------------------------------------------------------
(* Fragments.                                                              *)

LEMMA ContentUnits ==
  ASSUME NEW d \in Datagrams
  PROVE  /\ SizeOf[d] \in Nat \ {0} /\ Content(d) \in Seq(Units)
         /\ Len(Content(d)) = SizeOf[d] /\ DOMAIN Content(d) = 1 .. SizeOf[d]
         /\ \A i \in 1 .. SizeOf[d] : Content(d)[i] = Unit(d, i)
<1> DEFINE c == Content(d)
<1>1. SizeOf[d] \in Nat \ {0}
  BY JumboConstants
<1>2. c \in [1 .. SizeOf[d] -> Units] /\ \A i \in 1 .. SizeOf[d] : c[i] = Unit(d, i)
  BY <1>1 DEF Content, Unit, Units
<1>3. c \in Seq(Units)
  BY <1>1, <1>2, SeqDef
<1> HIDE DEF c
<1>4. Len(c) \in Nat /\ 1 .. Len(c) = 1 .. SizeOf[d]
  BY <1>2, <1>3, LenProperties
<1>5. \A m, k \in Nat : 1 .. m = 1 .. k => m = k
  BY SMT
<1> QED
  BY <1>1, <1>2, <1>3, <1>4, <1>5 DEF c

\* What a fragment holds and says of itself.
IsFragment(f, d) ==
  /\ f.ip_id = IdOf[d]
  /\ f.frag_off \in 0 .. SizeOf[d] - 1
  /\ f.data \in Seq(Units) /\ Len(f.data) \in Nat \ {0}
  /\ f.frag_off + Len(f.data) <= SizeOf[d]
  /\ f.more <=> f.frag_off + Len(f.data) < SizeOf[d]
  /\ \A i \in 1 .. Len(f.data) : f.data[i] = Unit(d, f.frag_off + i)

LEMMA FragmentsAreFragments ==
  ASSUME NEW f \in Fragments, NEW udp \in BOOLEAN
  PROVE  \E d \in Datagrams : IsFragment([f EXCEPT !.udp = udp], d)
<1>0. PICK d \in Datagrams : f \in {Fragment(d, off) : off \in Offsets(d)}
  BY DEF Fragments
<1>1. PICK off \in Offsets(d) : f = Fragment(d, off)
  BY <1>0
<1> DEFINE end == IF off + FRAGMENT < SizeOf[d] THEN off + FRAGMENT ELSE SizeOf[d]
           data == SubSeq(Content(d), off + 1, end)
           g == [f EXCEPT !.udp = udp]
<1>2. /\ FRAGMENT \in Nat \ {0} /\ SizeOf[d] \in Nat \ {0}
      /\ off \in 0 .. SizeOf[d] - 1
      /\ off + 1 \in Int /\ end \in Int /\ off + 1 <= end /\ end <= SizeOf[d]
  BY JumboConstants, ContentUnits DEF Offsets
<1>3. \A i \in off + 1 .. end : i \in 1 .. SizeOf[d] /\ Content(d)[i] \in Units
  <2> SUFFICES ASSUME NEW i \in off + 1 .. end
               PROVE  i \in 1 .. SizeOf[d] /\ Content(d)[i] \in Units
    OBVIOUS
  <2>1. i \in 1 .. SizeOf[d]
    BY <1>2
  <2> QED
    BY <2>1, ContentUnits DEF Units, Unit
<1>4. /\ data \in Seq(Units) /\ Len(data) = end - off
      /\ \A i \in 1 .. end - off : data[i] = Content(d)[off + i]
  <2>1. /\ data \in Seq(Units)
        /\ Len(data) = IF off + 1 <= end THEN end - (off + 1) + 1 ELSE 0
        /\ \A i \in 1 .. end - (off + 1) + 1 : data[i] = Content(d)[off + 1 + i - 1]
    BY <1>2, <1>3, SubSeqProperties
  <2> QED
    BY <1>2, <2>1
<1>5. \A i \in 1 .. end - off : data[i] = Unit(d, off + i)
  <2> SUFFICES ASSUME NEW i \in 1 .. end - off
               PROVE  data[i] = Unit(d, off + i)
    OBVIOUS
  <2>1. off + i \in 1 .. SizeOf[d]
    BY <1>2
  <2> QED
    BY <1>4, <2>1, ContentUnits
<1>6. /\ g.ip_id = IdOf[d] /\ g.frag_off = off /\ g.data = data
      /\ g.more <=> end < SizeOf[d]
  BY <1>1 DEF Fragment
<1> HIDE DEF data, end, g
<1>8. IsFragment(g, d)
  <2>1. g.frag_off \in 0 .. SizeOf[d] - 1
    BY <1>2, <1>6
  <2>2. Len(g.data) = end - off /\ end - off \in Nat \ {0}
    BY <1>2, <1>4, <1>6
  <2>3. /\ g.frag_off + Len(g.data) = end
        /\ g.more <=> g.frag_off + Len(g.data) < SizeOf[d]
    BY <1>2, <1>6, <2>2
  <2>4. \A i \in 1 .. Len(g.data) : g.data[i] = Unit(d, g.frag_off + i)
    BY <1>5, <1>6, <2>2
  <2> QED
    BY <1>2, <1>4, <1>6, <2>1, <2>2, <2>3, <2>4 DEF IsFragment
<1> QED
  BY <1>8 DEF g

-----------------------------------------------------------------------------
(* memcpy, and what is handed on.                                          *)

LEMMA CopyUnits ==
  ASSUME NEW off \in Nat, NEW data \in Seq(Units), buf_ \in Seq(Units), off <= Len(buf_)
  PROVE  /\ Copy(off, data) \in Seq(Units)
         /\ off + Len(data) <= Len(Copy(off, data))
         /\ \A i \in 1 .. off : Copy(off, data)[i] = buf_[i]
         /\ \A i \in 1 .. Len(data) : Copy(off, data)[off + i] = data[i]
<1> DEFINE n == IF off + Len(data) > Len(buf_) THEN off + Len(data) ELSE Len(buf_)
           c == Copy(off, data)
<1>1. /\ Len(data) \in Nat /\ Len(buf_) \in Nat /\ n \in Nat
      /\ off + Len(data) <= n /\ Len(buf_) <= n /\ off <= n
      /\ n > Len(buf_) => n = off + Len(data)
      /\ \A i \in 1 .. Len(data) : data[i] \in Units
      /\ \A i \in 1 .. Len(buf_) : buf_[i] \in Units
  BY LenProperties, ElementOfSeq
<1>2. c = [i \in 1 .. n |-> IF i > off /\ i <= off + Len(data) THEN data[i - off] ELSE buf_[i]]
  BY DEF Copy
<1> HIDE DEF c, n
<1>3. \A i \in 1 .. n : IF i > off /\ i <= off + Len(data)
                          THEN i - off \in 1 .. Len(data) ELSE i \in 1 .. Len(buf_)
  BY <1>1
<1>4. c \in [1 .. n -> Units]
  BY <1>1, <1>2, <1>3
<1>5. c \in Seq(Units)
  BY <1>1, <1>4, SeqDef
<1>6. Len(c) = n
  <2>1. Len(c) \in Nat /\ 1 .. Len(c) = 1 .. n
    BY <1>4, <1>5, LenProperties
  <2>2. \A m, k \in Nat : 1 .. m = 1 .. k => m = k
    BY SMT
  <2> QED
    BY <1>1, <2>1, <2>2
<1>7. \A i \in 1 .. off : i \in 1 .. n /\ ~(i > off)
  BY <1>1
<1>8. \A i \in 1 .. Len(data) :
        /\ off + i \in 1 .. n /\ off + i > off /\ off + i <= off + Len(data)
        /\ (off + i) - off = i
  BY <1>1
<1> QED
  BY <1>1, <1>2, <1>5, <1>6, <1>7, <1>8 DEF c

\* A fragment copied where the units put together end, of their identification or of none.
LEMMA CopyInPlace ==
  ASSUME NEW f, NEW d \in Datagrams, IsFragment(f, d), NEW k \in Nat, IdOf[d] \in {k, 0},
         buf_ \in Seq(Units), f.frag_off <= Len(buf_), InPlace(buf_, f.frag_off, k)
  PROVE  LET c == Copy(f.frag_off, f.data)
             end == f.frag_off + Len(f.data)
         IN  InPlace(c, end, k) /\ c[end] = Unit(d, end) /\ end \in Nat \ {0}
<1> DEFINE off == f.frag_off
           c == Copy(off, f.data)
           end == off + Len(f.data)
<1>1. /\ off \in Nat /\ Len(f.data) \in Nat \ {0} /\ f.data \in Seq(Units)
      /\ SizeOf[d] \in Nat /\ end <= SizeOf[d]
  BY ContentUnits DEF IsFragment
<1>2. /\ \A i \in 1 .. off : c[i] = buf_[i]
      /\ \A i \in 1 .. Len(f.data) : c[off + i] = Unit(d, off + i)
  <2>1. off <= Len(buf_) /\ \A i \in 1 .. Len(f.data) : f.data[i] = Unit(d, off + i)
    BY DEF IsFragment
  <2>2. /\ \A i \in 1 .. off : c[i] = buf_[i]
        /\ \A i \in 1 .. Len(f.data) : c[off + i] = f.data[i]
    BY <1>1, <2>1, CopyUnits
  <2> QED
    BY <2>1, <2>2
<1> HIDE DEF c
<1>3. ASSUME NEW i \in 1 .. end
      PROVE  (i <= off /\ c[i] = buf_[i]) \/ c[i] = Unit(d, i)
  <2>1. CASE i <= off
    BY <1>1, <1>2, <2>1
  <2>2. CASE i > off
    <3>1. i - off \in 1 .. Len(f.data) /\ off + (i - off) = i
      BY <1>1, <2>2
    <3> QED
      BY <1>2, <3>1
  <2> QED
    BY <1>1, <2>1, <2>2
<1>4. ASSUME NEW i \in 1 .. end
      PROVE  PlaceOf(c[i]) = i /\ IdOf[DatagramOf(c[i])] \in {k, 0}
  <2>1. CASE i <= off /\ c[i] = buf_[i]
    BY <1>1, <2>1 DEF InPlace
  <2>2. CASE c[i] = Unit(d, i)
    BY <2>2 DEF Unit, PlaceOf, DatagramOf
  <2> QED
    BY <1>3, <2>1, <2>2
<1>5. c[end] = Unit(d, end) /\ end \in Nat \ {0}
  BY <1>1, <1>2
<1> QED
  BY <1>4, <1>5 DEF InPlace, c

\* What is handed on of the units put together.
LEMMA HandedOn ==
  ASSUME NEW q \in Seq(Units), NEW n \in Nat \ {0}, n <= Len(q), NEW k \in Nat, InPlace(q, n, k), Ends(q[n]),
         received' = SubSeq(q, 1, n)
  PROVE  JumboExact' /\ received' \in Seq(Units)
<1> DEFINE s == SubSeq(q, 1, n)
<1>1. \A i \in 1 .. n : i \in 1 .. Len(q) /\ q[i] \in Units
  BY LenProperties, ElementOfSeq
<1>2. s \in Seq(Units) /\ Len(s) = n /\ \A i \in 1 .. n : s[i] = q[i]
  <2>1. /\ s \in Seq(Units) /\ Len(s) = IF 1 <= n THEN n - 1 + 1 ELSE 0
        /\ \A i \in 1 .. n - 1 + 1 : s[i] = q[1 + i - 1]
    BY <1>1, SubSeqProperties
  <2> HIDE DEF s
  <2> QED
    BY <2>1
<1> HIDE DEF s
<1>3. DOMAIN s = 1 .. n
  BY <1>2, LenProperties
<1>4. \A i \in DOMAIN s : PlaceOf(s[i]) = i /\ IdOf[DatagramOf(s[i])] \in {k, 0}
  BY <1>2, <1>3 DEF InPlace
<1>5. Ends(s[Len(s)])
  BY <1>2
<1>6. received' = s
  BY DEF s
<1> QED
  BY <1>2, <1>4, <1>5, <1>6 DEF JumboExact, Ends

-----------------------------------------------------------------------------
(* One fragment.                                                           *)

\* It goes on where the units put together end, and has the identification noted.
LEMMA AppendJInv ==
  ASSUME JInv, NEW f, NEW d \in Datagrams, IsFragment(f, d), Append_(f)
  PROVE  JInv'
<1> DEFINE c == Copy(buf_off_, f.data)
           end == buf_off_ + Len(f.data)
<1>1. /\ f.frag_off = buf_off_ /\ f.ip_id = ip_id_ /\ f.ip_id = IdOf[d]
      /\ buf_' = c /\ buf_off_' = end
      /\ end \in Nat /\ end <= SizeOf[d] /\ (f.more <=> end < SizeOf[d])
      /\ SizeOf[d] \in Nat /\ buf_off_ <= Len(buf_) /\ buf_ \in Seq(Units)
      /\ f.data \in Seq(Units) /\ buf_off_ \in Nat /\ ip_id_ \in Nat
  BY ContentUnits DEF JInv, IsFragment, Append_
<1>2. PICK k \in Nat : InPlace(buf_, buf_off_, k) /\ ip_id_ \in {k, 0}
  BY DEF JInv
<1>3. c \in Seq(Units) /\ end <= Len(c)
  BY <1>1, CopyUnits
<1>4. InPlace(c, end, k) /\ c[end] = Unit(d, end) /\ end \in Nat \ {0}
  BY <1>1, <1>2, CopyInPlace
<1> HIDE DEF c, end
<1>5. CASE f.more
  <2>1. ip_id_' = ip_id_ /\ received' = NoData
    BY <1>5 DEF Append_
  <2> QED
    BY <1>1, <1>2, <1>3, <1>4, <2>1, EmptySeq DEF JInv, JumboExact, NoData
<1>6. CASE ~f.more
  <2>1. ip_id_' = 0 /\ received' = SubSeq(buf_', 1, buf_off_') /\ end = SizeOf[d]
    BY <1>1, <1>6 DEF Append_
  <2>2. Ends(c[end])
    BY <1>4, <2>1 DEF Ends, Unit, PlaceOf, DatagramOf
  <2>3. JumboExact' /\ received' \in Seq(Units)
    BY <1>1, <1>3, <1>4, <2>1, <2>2, HandedOn
  <2> QED
    BY <1>1, <1>3, <1>4, <2>1, <2>3 DEF JInv
<1> QED
  BY <1>5, <1>6

LEMMA BeginJInv ==
  ASSUME JInv, NEW f, NEW d \in Datagrams, IsFragment(f, d), Begin(f)
  PROVE  JInv'
<1> DEFINE c == Copy(0, f.data)
<1>1. /\ f.frag_off = 0 /\ f.ip_id = IdOf[d] /\ IdOf[d] \in Nat
      /\ ip_id_' = f.ip_id /\ buf_' = c /\ buf_off_' = Len(f.data) /\ received' = NoData
      /\ Len(f.data) \in Nat /\ 0 + Len(f.data) = Len(f.data)
      /\ buf_ \in Seq(Units) /\ 0 <= Len(buf_)
      /\ f.data \in Seq(Units)
  BY LenProperties, JumboConstants DEF JInv, IsFragment, Begin
<1>2. c \in Seq(Units) /\ Len(f.data) <= Len(c)
  BY <1>1, CopyUnits
<1>3. InPlace(buf_, 0, IdOf[d])
  BY DEF InPlace
<1>4. InPlace(c, Len(f.data), IdOf[d])
  BY <1>1, <1>3, CopyInPlace
<1> HIDE DEF c
<1> QED
  BY <1>1, <1>2, <1>4, EmptySeq DEF JInv, JumboExact, NoData

LEMMA SingleJInv ==
  ASSUME JInv, NEW f, NEW d \in Datagrams, IsFragment(f, d), Single(f)
  PROVE  JInv'
<1>1. /\ f.frag_off = 0 /\ Len(f.data) = SizeOf[d] /\ SizeOf[d] \in Nat \ {0} /\ received' = f.data
      /\ f.data \in Seq(Units) /\ \A i \in 1 .. SizeOf[d] : f.data[i] = Unit(d, i)
  BY ContentUnits DEF IsFragment, Single
<1>2. DOMAIN f.data = 1 .. SizeOf[d]
  BY <1>1, LenProperties
<1>3. \A i \in 1 .. SizeOf[d] : PlaceOf(f.data[i]) = i /\ DatagramOf(f.data[i]) = d
  BY <1>1 DEF Unit, PlaceOf, DatagramOf
<1>4. JumboExact'
  BY <1>1, <1>2, <1>3 DEF JumboExact, Ends
<1>5. UNCHANGED <<ip_id_, buf_, buf_off_>>
  BY DEF Single
<1> QED
  BY <1>1, <1>4, <1>5 DEF JInv

\* The invariant of the reassembly.
LEMMA JInvHolds == JSpec => []JInv
<1>1. JInit => JInv
  BY InitJInv
<1>2. JInv /\ [JNext]_jumboVars => JInv'
  <2> SUFFICES ASSUME JInv, [JNext]_jumboVars
               PROVE  JInv'
    OBVIOUS
  <2>1. CASE UNCHANGED jumboVars
    BY <2>1 DEF jumboVars, JInv, JumboExact
  <2>2. CASE JNext
    <3>1. PICK f0 \in Fragments, udp \in BOOLEAN : new_fragment([f0 EXCEPT !.udp = udp])
      BY <2>2 DEF JNext
    <3> DEFINE f == [f0 EXCEPT !.udp = udp]
    <3>2. PICK d \in Datagrams : IsFragment(f, d)
      BY FragmentsAreFragments
    <3>3. new_fragment(f)
      BY <3>1
    <3> HIDE DEF f
    <3>4. CASE Ignore(f)
      BY <3>4, EmptySeq DEF Ignore, JInv, JumboExact, NoData
    <3> QED
      BY <3>2, <3>3, <3>4, AppendJInv, BeginJInv, SingleJInv DEF new_fragment
  <2> QED
    BY <2>1, <2>2
<1> QED
  BY <1>1, <1>2, PTL DEF JSpec

\* For any datagrams, sizes and identifications and any capture of their fragments, whatever is
\* lost, repeated or reordered in it, what is handed on has every unit at its place and ends with
\* a datagram, and it is put together of one identification and 0 (new_fragment, jumbo.hpp:92-181).
THEOREM UnitsInPlace == JSpec => []JumboExact
<1>1. JInv => JumboExact
  BY DEF JInv
<1> QED
  BY <1>1, JInvHolds, PTL

\* Every datagram of the capture has an identification of its own, and not the 0 of none.
DistinctIds ==
  /\ \A d, e \in Datagrams : IdOf[d] = IdOf[e] => d = e
  /\ \A d \in Datagrams : IdOf[d] # 0

LEMMA OfOneDatagram ==
  ASSUME JInv, DistinctIds, received # NoData
  PROVE  \E d \in Datagrams : received = Content(d)
<1> DEFINE n == Len(received)
           d == DatagramOf(received[n])
<1>1. /\ received \in Seq(Units) /\ n \in Nat \ {0} /\ DOMAIN received = 1 .. n
      /\ \A i \in 1 .. n : received[i] \in Units
  BY LenProperties, ElementOfSeq, EmptySeq DEF JInv, NoData
<1>2. ASSUME NEW i \in 1 .. n
      PROVE  /\ DatagramOf(received[i]) \in Datagrams
             /\ received[i] = Unit(DatagramOf(received[i]), PlaceOf(received[i]))
  BY <1>1 DEF Units, Unit, DatagramOf, PlaceOf
<1> HIDE DEF n
<1>3. d \in Datagrams /\ IdOf[d] # 0
  BY <1>1, <1>2 DEF DistinctIds
<1>4. ASSUME NEW i \in 1 .. n
      PROVE  received[i] = Unit(d, i)
  <2>1. PlaceOf(received[i]) = i /\ (IdOf[DatagramOf(received[i])] = IdOf[d] \/ IdOf[DatagramOf(received[i])] = 0)
    BY <1>1, <1>3 DEF JInv, JumboExact
  <2>2. DatagramOf(received[i]) = d
    BY <1>2, <1>3, <2>1 DEF DistinctIds
  <2> QED
    BY <1>2, <2>1, <2>2
<1>5. n = SizeOf[d]
  <2>1. PlaceOf(received[n]) = n /\ Ends(received[n])
    BY <1>1 DEF JInv, JumboExact, n
  <2> QED
    BY <2>1 DEF Ends
<1> HIDE DEF d
<1>6. \A i \in 1 .. Len(received) : received[i] = Content(d)[i]
  BY <1>3, <1>4, <1>5, ContentUnits DEF n
<1>7. received = Content(d)
  BY <1>1, <1>3, <1>5, <1>6, ContentUnits, SeqEqual DEF n
<1> QED
  BY <1>3, <1>7

\* With distinct identifications what is handed on is one datagram, whole.
THEOREM WholeDatagramsOnly == JSpec => [](DistinctIds /\ received # NoData => \E d \in Datagrams : received = Content(d))
<1>1. JInv => (DistinctIds /\ received # NoData => \E d \in Datagrams : received = Content(d))
  BY OfOneDatagram
<1> QED
  BY <1>1, JInvHolds, PTL

-----------------------------------------------------------------------------
(* HesaiPtc: the invariants.                                               *)

PtcUnits ==
  [part : {"header", "body"}, cmd : Commands, code : {0, 1}, n : Nat]

\* Unit m of an answer, and how many it has.
AnswerUnit(c, code, m) == IF m <= HEADER_SIZE THEN HeaderUnit(c, code, m) ELSE BodyUnit(c, m - HEADER_SIZE)

Size(c) == HEADER_SIZE + PAYLOAD_LEN[c]

\* From place i on, s holds an answer from its unit m to its end.
RestAt(s, i, c, code, m) ==
  /\ i + (Size(c) - m) <= Len(s)
  /\ \A j \in m .. Size(c) : s[i + (j - m)] = AnswerUnit(c, code, j)

\* Whatever unit of an answer is in the stream, the rest of it follows.
Coherent(s) ==
  \A i \in 1 .. Len(s) : \E c \in Commands, code \in {0, 1} : \E m \in 1 .. Size(c) : RestAt(s, i, c, code, m)

StreamInv ==
  /\ stream \in Seq(PtcUnits) /\ asked \in Seq(Commands)
  /\ Coherent(stream)

\* A header that was begun is one answer's, and goes on at the head of the stream.
HeaderInv ==
  queryPc = "header" =>
    /\ u8Cmd \in Commands /\ pBodyBuf = <<>>
    /\ pHeaderBuf \in Seq(PtcUnits) /\ Len(pHeaderBuf) < HEADER_SIZE
    /\ nLeft = HEADER_SIZE - Len(pHeaderBuf)
    /\ pHeaderBuf # <<>> =>
         \E c \in Commands, code \in {0, 1} :
           /\ \A j \in 1 .. Len(pHeaderBuf) : pHeaderBuf[j] = AnswerUnit(c, code, j)
           /\ RestAt(stream, 1, c, code, Len(pHeaderBuf) + 1)

\* So does a payload, which is that of the command.
BodyInv ==
  queryPc = "body" =>
    /\ u8Cmd \in Commands
    /\ pBodyBuf \in Seq(PtcUnits) /\ Len(pBodyBuf) < PAYLOAD_LEN[u8Cmd]
    /\ nLeft = PAYLOAD_LEN[u8Cmd] - Len(pBodyBuf)
    /\ \A j \in 1 .. Len(pBodyBuf) : pBodyBuf[j] = BodyUnit(u8Cmd, j)
    /\ \E code \in {0, 1} : RestAt(stream, 1, u8Cmd, code, HEADER_SIZE + Len(pBodyBuf) + 1)

PInv == StreamInv /\ HeaderInv /\ BodyInv /\ PtcAnswer

LEMMA InitPInv == PInit => PInv
<1> SUFFICES ASSUME PInit
             PROVE  PInv
  OBVIOUS
<1>1. stream \in Seq(PtcUnits) /\ asked \in Seq(Commands) /\ Len(stream) = 0
  BY EmptySeq DEF PInit
<1>2. Coherent(stream)
  BY <1>1 DEF Coherent
<1> QED
  BY <1>1, <1>2 DEF PInit, PInv, StreamInv, HeaderInv, BodyInv, PtcAnswer

-----------------------------------------------------------------------------
(* Answers.                                                                *)

LEMMA Sizes ==
  ASSUME NEW c \in Commands
  PROVE  /\ PAYLOAD_LEN[c] \in Nat /\ HEADER_SIZE \in Nat /\ HEADER_SIZE > 2
         /\ Size(c) \in Nat /\ Size(c) = HEADER_SIZE + PAYLOAD_LEN[c]
  BY PtcConstants DEF Size

LEMMA AnswerUnits ==
  ASSUME NEW c \in Commands, NEW code \in {0, 1}, NEW m \in Nat
  PROVE  AnswerUnit(c, code, m) \in PtcUnits
<1>1. CASE m <= HEADER_SIZE
  BY <1>1 DEF AnswerUnit, HeaderUnit, PtcUnits
<1>2. CASE ~(m <= HEADER_SIZE)
  <2>1. m - HEADER_SIZE \in Nat
    BY <1>2, PtcConstants
  <2> QED
    BY <1>2, <2>1 DEF AnswerUnit, BodyUnit, PtcUnits
<1> QED
  BY <1>1, <1>2

LEMMA Payloads ==
  ASSUME NEW c \in Commands
  PROVE  /\ Payload(c) \in Seq(PtcUnits) /\ Len(Payload(c)) = PAYLOAD_LEN[c]
         /\ \A i \in 1 .. PAYLOAD_LEN[c] : Payload(c)[i] = BodyUnit(c, i)
<1> DEFINE p == Payload(c)
           l == PAYLOAD_LEN[c]
<1>1. l \in Nat
  BY Sizes
<1>2. p \in [1 .. l -> PtcUnits] /\ \A i \in 1 .. l : p[i] = BodyUnit(c, i)
  BY <1>1 DEF Payload, BodyUnit, PtcUnits
<1> HIDE DEF p, l
<1>3. p \in Seq(PtcUnits)
  BY <1>1, <1>2, SeqDef
<1>4. Len(p) \in Nat /\ 1 .. Len(p) = 1 .. l
  BY <1>2, <1>3, LenProperties
<1>5. \A m, k \in Nat : 1 .. m = 1 .. k => m = k
  BY SMT
<1> QED
  BY <1>1, <1>2, <1>3, <1>4, <1>5 DEF p, l

LEMMA WholeAnswer ==
  ASSUME NEW c \in Commands, NEW code \in {0, 1}
  PROVE  /\ Answer(c, code) \in Seq(PtcUnits) /\ Len(Answer(c, code)) = Size(c)
         /\ \A m \in 1 .. Size(c) : Answer(c, code)[m] = AnswerUnit(c, code, m)
<1> DEFINE h == [n \in 1 .. HEADER_SIZE |-> HeaderUnit(c, code, n)]
           p == Payload(c)
<1>1. h \in [1 .. HEADER_SIZE -> PtcUnits] /\ \A i \in 1 .. HEADER_SIZE : h[i] = HeaderUnit(c, code, i)
  BY Sizes DEF HeaderUnit, PtcUnits
<1>2. p \in Seq(PtcUnits) /\ Len(p) = PAYLOAD_LEN[c] /\ \A i \in 1 .. PAYLOAD_LEN[c] : p[i] = BodyUnit(c, i)
  BY Payloads
<1>3. Answer(c, code) = h \o p
  BY DEF Answer
<1> HIDE DEF h, p
<1>4. h \in Seq(PtcUnits) /\ Len(h) = HEADER_SIZE
  <2>1. h \in Seq(PtcUnits)
    BY <1>1, Sizes, SeqDef
  <2>2. Len(h) \in Nat /\ 1 .. Len(h) = 1 .. HEADER_SIZE
    BY <1>1, <2>1, LenProperties
  <2>3. \A m, k \in Nat : 1 .. m = 1 .. k => m = k
    BY SMT
  <2> QED
    BY <2>1, <2>2, <2>3, Sizes
<1>5. /\ h \o p \in Seq(PtcUnits) /\ Len(h \o p) = Len(h) + Len(p)
      /\ \A i \in 1 .. Len(h) + Len(p) : (h \o p)[i] = IF i <= Len(h) THEN h[i] ELSE p[i - Len(h)]
  BY <1>2, <1>4, ConcatProperties
<1>6. ASSUME NEW m \in 1 .. Size(c)
      PROVE  (h \o p)[m] = AnswerUnit(c, code, m)
  <2>1. CASE m <= HEADER_SIZE
    <3>1. m \in 1 .. HEADER_SIZE /\ m \in 1 .. Len(h) + Len(p) /\ m <= Len(h)
      BY <1>2, <1>4, <2>1, Sizes
    <3> QED
      BY <1>1, <1>5, <2>1, <3>1 DEF AnswerUnit
  <2>2. CASE ~(m <= HEADER_SIZE)
    <3>1. /\ m - HEADER_SIZE \in 1 .. PAYLOAD_LEN[c] /\ m \in 1 .. Len(h) + Len(p)
          /\ ~(m <= Len(h)) /\ m - Len(h) = m - HEADER_SIZE
      BY <1>2, <1>4, <2>2, Sizes
    <3> QED
      BY <1>2, <1>5, <2>2, <3>1 DEF AnswerUnit
  <2> QED
    BY <2>1, <2>2
<1> QED
  BY <1>2, <1>3, <1>4, <1>5, <1>6, Sizes

-----------------------------------------------------------------------------
(* What a piece leaves of the stream, and what the lidar adds to it.       *)

LEMMA Cut ==
  ASSUME NEW s \in Seq(PtcUnits), NEW n \in 0 .. Len(s)
  PROVE  /\ SubSeq(s, 1, n) \in Seq(PtcUnits) /\ Len(SubSeq(s, 1, n)) = n
         /\ \A i \in 1 .. n : SubSeq(s, 1, n)[i] = s[i]
         /\ SubSeq(s, n + 1, Len(s)) \in Seq(PtcUnits) /\ Len(SubSeq(s, n + 1, Len(s))) = Len(s) - n
         /\ \A i \in 1 .. Len(s) - n : SubSeq(s, n + 1, Len(s))[i] = s[n + i]
<1> DEFINE p == SubSeq(s, 1, n)
           t == SubSeq(s, n + 1, Len(s))
<1>1. /\ Len(s) \in Nat /\ n \in Int /\ 1 \in Int /\ n + 1 \in Int /\ Len(s) \in Int
      /\ \A i \in 1 .. Len(s) : s[i] \in PtcUnits
  BY LenProperties, ElementOfSeq
<1>2. /\ p \in Seq(PtcUnits) /\ Len(p) = IF 1 <= n THEN n - 1 + 1 ELSE 0
      /\ \A i \in 1 .. n - 1 + 1 : p[i] = s[1 + i - 1]
  <2>1. \A i \in 1 .. n : s[i] \in PtcUnits
    BY <1>1
  <2> QED
    BY <1>1, <2>1, SubSeqProperties
<1>3. /\ t \in Seq(PtcUnits) /\ Len(t) = IF n + 1 <= Len(s) THEN Len(s) - (n + 1) + 1 ELSE 0
      /\ \A i \in 1 .. Len(s) - (n + 1) + 1 : t[i] = s[n + 1 + i - 1]
  <2>1. \A i \in n + 1 .. Len(s) : s[i] \in PtcUnits
    BY <1>1
  <2> QED
    BY <1>1, <2>1, SubSeqProperties
<1> HIDE DEF p, t
<1>4. Len(p) = n /\ \A i \in 1 .. n : p[i] = s[i]
  BY <1>1, <1>2
<1>5. Len(t) = Len(s) - n
  <2>1. Len(t) = IF n + 1 <= Len(s) THEN Len(s) - (n + 1) + 1 ELSE 0
    BY <1>3
  <2> QED
    BY <1>1, <2>1
<1>6. \A i \in 1 .. Len(s) - n : t[i] = s[n + i]
  <2>1. \A i \in 1 .. Len(s) - n : i \in 1 .. Len(s) - (n + 1) + 1 /\ n + 1 + i - 1 = n + i
    BY <1>1
  <2> QED
    BY <1>3, <2>1
<1> QED
  BY <1>2, <1>3, <1>4, <1>5, <1>6 DEF p, t

\* An answer in the stream is there when n units were taken: whole, or from where they end.
LEMMA RestOfRest ==
  ASSUME NEW s \in Seq(PtcUnits), NEW n \in 0 .. Len(s), NEW c \in Commands, NEW code,
         NEW m \in 1 .. Size(c), NEW i \in 1 .. Len(s), RestAt(s, i, c, code, m)
  PROVE  /\ n < i => RestAt(SubSeq(s, n + 1, Len(s)), i - n, c, code, m)
         /\ n >= i /\ m + (n - i + 1) <= Size(c)
              => RestAt(SubSeq(s, n + 1, Len(s)), 1, c, code, m + (n - i + 1))
<1> DEFINE t == SubSeq(s, n + 1, Len(s))
<1>1. /\ Len(s) \in Nat /\ Size(c) \in Nat
      /\ Len(t) = Len(s) - n /\ \A k \in 1 .. Len(s) - n : t[k] = s[n + k]
  BY Cut, Sizes, LenProperties
<1>2. /\ i + (Size(c) - m) <= Len(s)
      /\ \A j \in m .. Size(c) : s[i + (j - m)] = AnswerUnit(c, code, j)
  BY DEF RestAt
<1> HIDE DEF t
<1>3. ASSUME n < i
      PROVE  RestAt(t, i - n, c, code, m)
  <2>1. i - n + (Size(c) - m) <= Len(t)
    BY <1>1, <1>2
  <2>2. ASSUME NEW j \in m .. Size(c)
        PROVE  t[i - n + (j - m)] = AnswerUnit(c, code, j)
    <3>1. i - n + (j - m) \in 1 .. Len(s) - n /\ n + (i - n + (j - m)) = i + (j - m)
      BY <1>1, <1>2, <1>3
    <3> QED
      BY <1>1, <1>2, <3>1
  <2> QED
    BY <2>1, <2>2 DEF RestAt
<1>4. ASSUME n >= i, m + (n - i + 1) <= Size(c)
      PROVE  RestAt(t, 1, c, code, m + (n - i + 1))
  <2> DEFINE k == m + (n - i + 1)
  <2>1. 1 + (Size(c) - k) <= Len(t)
    BY <1>1, <1>2, <1>4
  <2>2. ASSUME NEW j \in k .. Size(c)
        PROVE  t[1 + (j - k)] = AnswerUnit(c, code, j)
    <3>1. 1 + (j - k) \in 1 .. Len(s) - n /\ n + (1 + (j - k)) = i + (j - m) /\ j \in m .. Size(c)
      BY <1>1, <1>2, <1>4
    <3> QED
      BY <1>1, <1>2, <3>1
  <2> QED
    BY <2>1, <2>2 DEF RestAt
<1> QED
  BY <1>3, <1>4 DEF t

LEMMA StreamCut ==
  ASSUME StreamInv, NEW n \in 0 .. Len(stream)
  PROVE  /\ SubSeq(stream, n + 1, Len(stream)) \in Seq(PtcUnits)
         /\ Coherent(SubSeq(stream, n + 1, Len(stream)))
<1> DEFINE t == SubSeq(stream, n + 1, Len(stream))
<1>1. stream \in Seq(PtcUnits) /\ Len(stream) \in Nat /\ t \in Seq(PtcUnits) /\ Len(t) = Len(stream) - n
  BY Cut, LenProperties DEF StreamInv
<1>2. ASSUME NEW i \in 1 .. Len(t)
      PROVE  \E c \in Commands, code \in {0, 1} : \E m \in 1 .. Size(c) : RestAt(t, i, c, code, m)
  <2>1. n + i \in 1 .. Len(stream) /\ n < n + i /\ n + i - n = i
    BY <1>1
  <2>2. PICK c \in Commands, code \in {0, 1} : \E m \in 1 .. Size(c) : RestAt(stream, n + i, c, code, m)
    BY <2>1 DEF StreamInv, Coherent
  <2>3. PICK m \in 1 .. Size(c) : RestAt(stream, n + i, c, code, m)
    BY <2>2
  <2>4. RestAt(t, n + i - n, c, code, m)
    BY <1>1, <2>1, <2>3, RestOfRest
  <2> QED
    BY <2>1, <2>4
<1> QED
  BY <1>1, <1>2 DEF Coherent

\* The lidar's answer comes behind what is in the stream, which stays what it was.
LEMMA StreamGrows ==
  ASSUME StreamInv, NEW d \in Commands, NEW ret \in {0, 1}
  PROVE  /\ stream \o Answer(d, ret) \in Seq(PtcUnits)
         /\ Coherent(stream \o Answer(d, ret))
         /\ \A c \in Commands, code \in {0, 1}, i \in Nat \ {0} : \A m \in 1 .. Size(c) :
              RestAt(stream, i, c, code, m) => RestAt(stream \o Answer(d, ret), i, c, code, m)
<1> DEFINE a == Answer(d, ret)
           t == stream \o a
<1>1. /\ a \in Seq(PtcUnits) /\ Len(a) = Size(d) /\ \A m \in 1 .. Size(d) : a[m] = AnswerUnit(d, ret, m)
      /\ stream \in Seq(PtcUnits)
  BY WholeAnswer DEF StreamInv
<1> HIDE DEF a
<1>2. /\ t \in Seq(PtcUnits) /\ Len(t) = Len(stream) + Len(a)
      /\ \A i \in 1 .. Len(stream) + Len(a) : t[i] = IF i <= Len(stream) THEN stream[i] ELSE a[i - Len(stream)]
  BY <1>1, ConcatProperties
<1>3. Len(stream) \in Nat /\ Size(d) \in Nat
  BY <1>1, Sizes, LenProperties
<1> HIDE DEF t
<1>4. /\ \A i \in 1 .. Len(stream) : t[i] = stream[i]
      /\ \A i \in 1 .. Size(d) : t[Len(stream) + i] = a[i]
  <2>1. ASSUME NEW i \in 1 .. Size(d)
        PROVE  t[Len(stream) + i] = a[i]
    <3>1. /\ Len(stream) + i \in 1 .. Len(stream) + Len(a) /\ ~(Len(stream) + i <= Len(stream))
          /\ Len(stream) + i - Len(stream) = i
      BY <1>1, <1>3
    <3> QED
      BY <1>2, <3>1
  <2>2. ASSUME NEW i \in 1 .. Len(stream)
        PROVE  t[i] = stream[i]
    <3>1. i \in 1 .. Len(stream) + Len(a) /\ i <= Len(stream)
      BY <1>1, <1>3
    <3> QED
      BY <1>2, <3>1
  <2> QED
    BY <2>1, <2>2
<1>5. ASSUME NEW c \in Commands, NEW code \in {0, 1}, NEW i \in Nat \ {0}, NEW m \in 1 .. Size(c),
             RestAt(stream, i, c, code, m)
      PROVE  RestAt(t, i, c, code, m)
  <2>1. /\ i + (Size(c) - m) <= Len(stream) /\ Size(c) \in Nat
        /\ \A j \in m .. Size(c) : stream[i + (j - m)] = AnswerUnit(c, code, j)
    BY <1>5, Sizes DEF RestAt
  <2>2. \A j \in m .. Size(c) : i + (j - m) \in 1 .. Len(stream)
    BY <1>3, <2>1
  <2>3. i + (Size(c) - m) <= Len(t)
    BY <1>1, <1>2, <1>3, <2>1
  <2> QED
    BY <1>4, <2>1, <2>2, <2>3 DEF RestAt
<1>6. ASSUME NEW i \in 1 .. Len(t)
      PROVE  \E c \in Commands, code \in {0, 1} : \E m \in 1 .. Size(c) : RestAt(t, i, c, code, m)
  <2>1. CASE i <= Len(stream)
    <3>1. i \in 1 .. Len(stream) /\ i \in Nat \ {0}
      BY <1>3, <2>1
    <3>2. PICK c \in Commands, code \in {0, 1} : \E m \in 1 .. Size(c) : RestAt(stream, i, c, code, m)
      BY <3>1 DEF StreamInv, Coherent
    <3>3. PICK m \in 1 .. Size(c) : RestAt(stream, i, c, code, m)
      BY <3>2
    <3> QED
      BY <1>5, <3>1, <3>3
  <2>2. CASE ~(i <= Len(stream))
    <3> DEFINE m == i - Len(stream)
    <3>1. /\ m \in 1 .. Size(d) /\ i + (Size(d) - m) <= Len(t)
          /\ \A j \in m .. Size(d) : j \in 1 .. Size(d) /\ Len(stream) + j = i + (j - m)
      BY <1>1, <1>2, <1>3, <2>2
    <3>2. \A j \in m .. Size(d) : t[i + (j - m)] = AnswerUnit(d, ret, j)
      BY <1>1, <1>4, <3>1
    <3>3. RestAt(t, i, d, ret, m)
      BY <3>1, <3>2 DEF RestAt
    <3> QED
      BY <3>1, <3>3
  <2> QED
    BY <2>1, <2>2
<1> QED
  BY <1>2, <1>5, <1>6 DEF Coherent, t, a

-----------------------------------------------------------------------------
(* The header.                                                             *)

\* Of the places where the identifiers are, one is the first.
LEMMA LeastOf ==
  ASSUME NEW T, T \subseteq Nat, T # {}
  PROVE  \E x \in T : \A y \in T : x <= y
<1> DEFINE R == OpToRel(<, Nat)
<1>1. IsWellFoundedOn(R, Nat)
  BY NatLessThanWellFounded
<1>2. \A x, y \in Nat : <<x, y>> \in R <=> x < y
  BY DEF OpToRel
<1> HIDE DEF R
<1>3. PICK x \in T : \A y \in T : ~ (<<y, x>> \in R)
  BY <1>1, WFMin
<1>4. ASSUME NEW y \in T
      PROVE  x <= y
  <2>1. x \in Nat /\ y \in Nat
    OBVIOUS
  <2>2. ~(y < x)
    BY <1>2, <1>3, <2>1
  <2> QED
    BY <2>1, <2>2
<1> QED
  BY <1>4

\* An answer's first identifier begins it.
LEMMA IdentifierBegins ==
  ASSUME NEW c \in Commands, NEW code \in {0, 1}, NEW m \in 1 .. Size(c),
         IsIdentifier(AnswerUnit(c, code, m), 1)
  PROVE  m = 1
<1>1. CASE m <= HEADER_SIZE
  BY <1>1 DEF IsIdentifier, AnswerUnit, HeaderUnit
<1>2. CASE ~(m <= HEADER_SIZE)
  BY <1>2 DEF IsIdentifier, AnswerUnit, BodyUnit
<1> QED
  BY <1>1, <1>2

\* The header that is read, k units of it: one answer's, which goes on in what is left of the stream.
Read(q, s, c, code) ==
  /\ \A j \in 1 .. Len(q) : q[j] = AnswerUnit(c, code, j)
  /\ Len(q) < Size(c) => RestAt(s, 1, c, code, Len(q) + 1)

LEMMA HeaderGoesOn ==
  ASSUME PInv, queryPc = "header", NEW n \in 1 .. Len(stream), n <= nLeft,
         NEW header, header = pHeaderBuf \o ToHeader(SubSeq(stream, 1, n))
  PROVE  /\ header \in Seq(PtcUnits) /\ Len(header) <= HEADER_SIZE
         /\ header # <<>> =>
              \E c \in Commands, code \in {0, 1} : Read(header, SubSeq(stream, n + 1, Len(stream)), c, code)
<1> DEFINE piece == SubSeq(stream, 1, n)
           t == SubSeq(stream, n + 1, Len(stream))
           k == Len(pHeaderBuf)
<1>1. /\ stream \in Seq(PtcUnits) /\ Len(stream) \in Nat /\ n \in 0 .. Len(stream)
      /\ piece \in Seq(PtcUnits) /\ Len(piece) = n /\ \A i \in 1 .. n : piece[i] = stream[i]
  BY Cut, LenProperties DEF PInv, StreamInv
<1>2. /\ pHeaderBuf \in Seq(PtcUnits) /\ k \in Nat /\ k < HEADER_SIZE /\ n <= HEADER_SIZE - k
      /\ HEADER_SIZE \in Nat /\ HEADER_SIZE > 2
  BY PtcConstants, LenProperties DEF PInv, HeaderInv
<1> HIDE DEF piece, t, k
<1>6. n \in Nat \ {0} /\ k \in Nat /\ HEADER_SIZE \in Nat /\ k < HEADER_SIZE /\ k + n <= HEADER_SIZE
  BY <1>1, <1>2
<1>3. CASE pHeaderBuf # <<>>
  <2>1. header = pHeaderBuf \o piece
    BY <1>3 DEF ToHeader, piece
  <2>2. /\ header \in Seq(PtcUnits) /\ Len(header) = k + n
        /\ \A i \in 1 .. k + n : header[i] = IF i <= k THEN pHeaderBuf[i] ELSE piece[i - k]
    <3>1. /\ pHeaderBuf \o piece \in Seq(PtcUnits) /\ Len(pHeaderBuf \o piece) = Len(pHeaderBuf) + Len(piece)
          /\ \A i \in 1 .. Len(pHeaderBuf) + Len(piece) :
               (pHeaderBuf \o piece)[i] = IF i <= Len(pHeaderBuf) THEN pHeaderBuf[i] ELSE piece[i - Len(pHeaderBuf)]
      BY ONLY <1>1, <1>2, ConcatProperties
    <3>2. Len(pHeaderBuf) = k /\ Len(piece) = n
      BY <1>1 DEF k
    <3> QED
      BY ONLY <2>1, <3>1, <3>2
  <2>3. PICK c \in Commands, code \in {0, 1} :
           /\ \A j \in 1 .. k : pHeaderBuf[j] = AnswerUnit(c, code, j)
           /\ RestAt(stream, 1, c, code, k + 1)
    BY <1>3 DEF PInv, HeaderInv, k
  <2>4. Size(c) \in Nat /\ HEADER_SIZE <= Size(c) /\ k + 1 \in 1 .. Size(c) /\ k + n <= Size(c)
    BY <1>6, Sizes
  <2>5. \A j \in k + 1 .. Size(c) : stream[1 + (j - (k + 1))] = AnswerUnit(c, code, j)
    BY <2>3 DEF RestAt
  <2>6. ASSUME NEW j \in 1 .. k + n
        PROVE  header[j] = AnswerUnit(c, code, j)
    <3>1. CASE j <= k
      BY <1>2, <2>2, <2>3, <3>1
    <3>2. CASE ~(j <= k)
      <4>1. j - k \in 1 .. n /\ j \in k + 1 .. Size(c) /\ 1 + (j - (k + 1)) = j - k
        BY <1>6, <2>4, <3>2
      <4> QED
        BY <1>1, <2>2, <2>5, <3>2, <4>1
    <3> QED
      BY <3>1, <3>2
  <2>7. k + n < Size(c) => RestAt(t, 1, c, code, k + n + 1)
    <3>1. /\ 1 \in 1 .. Len(stream) /\ n >= 1 /\ (k + 1) + (n - 1 + 1) = k + n + 1
          /\ k + n < Size(c) => (k + 1) + (n - 1 + 1) <= Size(c)
      <4>1. 1 \in 1 .. Len(stream)
        BY <1>1, <1>6
      <4> QED
        BY <1>6, <2>4, <4>1
    <3> QED
      BY <1>1, <2>3, <2>4, <3>1, RestOfRest DEF t
  <2>8. Read(header, t, c, code)
    BY <2>2, <2>6, <2>7 DEF Read
  <2> QED
    BY <1>1, <1>2, <2>2, <2>8 DEF t
<1>4. CASE pHeaderBuf = <<>> /\ Found(piece) = {}
  <2>1. header = <<>> \o <<>>
    BY <1>4 DEF ToHeader, piece
  <2>2. header = <<>> /\ header \in Seq(PtcUnits) /\ Len(header) = 0
    <3>1. <<>> \o <<>> = <<>>
      BY EmptySeq, ConcatEmptySeq
    <3> QED
      BY <2>1, <3>1, EmptySeq
  <2> QED
    BY <1>2, <2>2
<1>5. CASE pHeaderBuf = <<>> /\ Found(piece) # {}
  <2> DEFINE b == CHOOSE i \in Found(piece) : \A j \in Found(piece) : i <= j
             q == SubSeq(piece, b, Len(piece))
  <2>1. Found(piece) \subseteq 1 .. n - 1 /\ Found(piece) \subseteq Nat
    BY <1>1 DEF Found
  <2>2. b \in Found(piece)
    BY <1>5, <2>1, LeastOf
  <2>3. header = <<>> \o q
    BY <1>5 DEF ToHeader, piece
  <2>4. b \in 1 .. n - 1 /\ IsIdentifier(piece[b], 1)
    BY <1>1, <2>2 DEF Found
  <2> HIDE DEF b
  <2>5. /\ q \in Seq(PtcUnits) /\ Len(q) = n - b + 1
        /\ \A i \in 1 .. n - b + 1 : q[i] = stream[b + i - 1]
    <3>1. b - 1 \in 0 .. n /\ b - 1 \in 0 .. Len(piece) /\ (b - 1) + 1 = b /\ Len(piece) - (b - 1) = n - b + 1
      BY <1>1, <2>4
    <3>2. /\ q \in Seq(PtcUnits) /\ Len(q) = Len(piece) - (b - 1)
          /\ \A i \in 1 .. Len(piece) - (b - 1) : q[i] = piece[(b - 1) + i]
      BY <1>1, <3>1, Cut
    <3>3. \A i \in 1 .. n - b + 1 : (b - 1) + i = b + i - 1 /\ (b - 1) + i \in 1 .. n
      BY <1>1, <2>4
    <3> QED
      BY <1>1, <3>1, <3>2, <3>3
  <2> HIDE DEF q
  <2>6. header = q
    <3>1. <<>> \o q = q
      BY <2>5, ConcatEmptySeq
    <3> QED
      BY <2>3, <3>1
  <2>7. b \in 1 .. Len(stream) /\ b \in 1 .. n /\ IsIdentifier(stream[b], 1)
    BY <1>1, <2>4
  <2>8. PICK c \in Commands, code \in {0, 1} : \E m \in 1 .. Size(c) : RestAt(stream, b, c, code, m)
    BY <2>7 DEF PInv, StreamInv, Coherent
  <2>9. PICK m \in 1 .. Size(c) : RestAt(stream, b, c, code, m)
    BY <2>8
  <2>10. Size(c) \in Nat /\ HEADER_SIZE <= Size(c) /\ n - b + 1 <= Size(c)
    BY <1>1, <1>2, <2>4, Sizes
  <2>11. \A j \in m .. Size(c) : stream[b + (j - m)] = AnswerUnit(c, code, j)
    BY <2>9 DEF RestAt
  <2>12. m = 1
    <3>1. m \in m .. Size(c) /\ b + (m - m) = b
      BY <2>7, <2>10
    <3>2. stream[b] = AnswerUnit(c, code, m)
      BY <2>11, <3>1
    <3> QED
      BY <2>7, <3>2, IdentifierBegins
  <2>13. ASSUME NEW j \in 1 .. n - b + 1
         PROVE  q[j] = AnswerUnit(c, code, j)
    <3>1. j \in m .. Size(c) /\ b + (j - m) = b + j - 1
      BY <1>1, <2>4, <2>10, <2>12
    <3> QED
      BY <2>5, <2>11, <3>1
  <2>14. n - b + 1 < Size(c) => RestAt(t, 1, c, code, n - b + 2)
    <3>1. /\ n >= b /\ m + (n - b + 1) = n - b + 2
          /\ n - b + 1 < Size(c) => m + (n - b + 1) <= Size(c)
      BY <1>1, <2>4, <2>10, <2>12
    <3> QED
      BY <1>1, <2>7, <2>9, <3>1, RestOfRest DEF t
  <2>15. Read(q, t, c, code)
    <3>1. n - b + 2 = Len(q) + 1
      BY <1>1, <2>4, <2>5
    <3> QED
      BY <2>5, <2>13, <2>14, <3>1 DEF Read
  <2>16. Len(q) <= HEADER_SIZE
    <3>1. k = 0
      BY <1>5, EmptySeq DEF k
    <3> QED
      BY <1>6, <2>4, <2>5, <3>1
  <2> QED
    BY <2>5, <2>6, <2>15, <2>16 DEF t
<1> QED
  BY <1>3, <1>4, <1>5

LEMMA ReceiveHeaderKeeps ==
  ASSUME PInv, ReceiveHeader
  PROVE  PInv'
<1>1. PICK piece \in Pieces :
        LET header == pHeaderBuf \o ToHeader(piece)
            left   == HEADER_SIZE - Len(header)
        IN  /\ stream' = SubSeq(stream, Len(piece) + 1, Len(stream))
            /\ pHeaderBuf' = header
            /\ IF left > 0
               THEN nLeft' = left /\ UNCHANGED <<queryPc, answer>>
               ELSE IF ~HeaderOk(header) THEN Fail /\ nLeft' = 0
               ELSE IF GetPayloadLen(header) = 0 THEN Succeed(<<>>) /\ nLeft' = 0
               ELSE queryPc' = "body" /\ nLeft' = GetPayloadLen(header) /\ UNCHANGED answer
  BY DEF ReceiveHeader
<1>2. PICK n \in 1 .. Len(stream) : n <= nLeft /\ piece = SubSeq(stream, 1, n)
  BY DEF Pieces, PInv, HeaderInv, ReceiveHeader
<1> DEFINE header == pHeaderBuf \o ToHeader(piece)
           t == SubSeq(stream, n + 1, Len(stream))
<1>3. /\ queryPc = "header" /\ UNCHANGED <<u8Cmd, pBodyBuf, asked>>
      /\ u8Cmd \in Commands /\ pBodyBuf = <<>> /\ HEADER_SIZE \in Nat /\ HEADER_SIZE > 2
  BY PtcConstants DEF ReceiveHeader, PInv, HeaderInv
<1>4. /\ n \in 0 .. Len(stream) /\ Len(piece) = n /\ stream' = t
  <2>1. n \in 0 .. Len(stream) /\ Len(piece) = n
    BY <1>2, Cut, LenProperties DEF PInv, StreamInv
  <2> QED
    BY <1>1, <2>1
<1>5. /\ header \in Seq(PtcUnits) /\ Len(header) <= HEADER_SIZE
      /\ header # <<>> => \E c \in Commands, code \in {0, 1} : Read(header, t, c, code)
  BY <1>2, <1>3, HeaderGoesOn
<1>6. Len(header) \in Nat
  BY <1>5, LenProperties
<1>7. pHeaderBuf' = header
  BY <1>1
<1>8. /\ HEADER_SIZE - Len(header) > 0 => nLeft' = HEADER_SIZE - Len(header) /\ UNCHANGED <<queryPc, answer>>
      /\ ~(HEADER_SIZE - Len(header) > 0) =>
           \/ Fail
           \/ HeaderOk(header) /\ GetPayloadLen(header) = 0 /\ Succeed(<<>>)
           \/ HeaderOk(header) /\ GetPayloadLen(header) # 0 /\ queryPc' = "body" /\ nLeft' = GetPayloadLen(header)
              /\ UNCHANGED answer
  BY <1>1
<1> HIDE DEF header, t
<1>9. StreamInv'
  BY <1>3, <1>4, StreamCut DEF t, PInv, StreamInv
<1>10. CASE HEADER_SIZE - Len(header) > 0
  <2>1. Len(header) < HEADER_SIZE
    BY <1>3, <1>6, <1>10
  <2>2. header # <<>> =>
          \E c \in Commands, code \in {0, 1} :
            /\ \A j \in 1 .. Len(header) : header[j] = AnswerUnit(c, code, j)
            /\ RestAt(t, 1, c, code, Len(header) + 1)
    <3> SUFFICES ASSUME header # <<>>
                 PROVE  \E c \in Commands, code \in {0, 1} :
                          /\ \A j \in 1 .. Len(header) : header[j] = AnswerUnit(c, code, j)
                          /\ RestAt(t, 1, c, code, Len(header) + 1)
      OBVIOUS
    <3>1. PICK c \in Commands, code \in {0, 1} : Read(header, t, c, code)
      BY <1>5
    <3>2. Len(header) < Size(c)
      BY <1>3, <1>6, <2>1, Sizes
    <3> QED
      BY <3>1, <3>2 DEF Read
  <2>3. HeaderInv'
    BY <1>3, <1>4, <1>5, <1>7, <1>8, <1>10, <2>1, <2>2 DEF HeaderInv
  <2> QED
    BY <1>3, <1>8, <1>9, <1>10, <2>3 DEF PInv, BodyInv, PtcAnswer
<1>11. CASE ~(HEADER_SIZE - Len(header) > 0) /\ Fail
  BY <1>9, <1>11 DEF PInv, HeaderInv, BodyInv, PtcAnswer, Fail
<1>12. CASE ~(HEADER_SIZE - Len(header) > 0) /\ HeaderOk(header)
  <2>1. Len(header) = HEADER_SIZE
    BY <1>3, <1>5, <1>6, <1>12
  <2>2. header # <<>>
    BY <1>3, <2>1, EmptySeq
  <2>3. PICK c \in Commands, code \in {0, 1} : Read(header, t, c, code)
    BY <1>5, <2>2
  <2>4. header[3].cmd = c
    <3>1. header[3] = AnswerUnit(c, code, 3)
      BY <1>3, <2>1, <2>3 DEF Read
    <3> QED
      BY <1>3, <3>1 DEF AnswerUnit, HeaderUnit
  <2>5. c = u8Cmd /\ GetPayloadLen(header) = PAYLOAD_LEN[u8Cmd] /\ PAYLOAD_LEN[u8Cmd] \in Nat
    BY <1>12, <2>4, Payloads, Sizes DEF HeaderOk, GetCmd, GetPayloadLen
  <2>6. CASE PAYLOAD_LEN[u8Cmd] = 0 /\ Succeed(<<>>)
    <3>1. Payload(u8Cmd) = <<>>
      BY <1>3, <2>6, Payloads, EmptySeq, SeqEqual
    <3> QED
      BY <1>3, <1>9, <2>6, <3>1 DEF PInv, HeaderInv, BodyInv, PtcAnswer, Succeed
  <2>7. CASE /\ PAYLOAD_LEN[u8Cmd] # 0 /\ queryPc' = "body" /\ nLeft' = PAYLOAD_LEN[u8Cmd]
             /\ UNCHANGED answer
    <3>1. RestAt(t, 1, u8Cmd, code, HEADER_SIZE + 0 + 1)
      <4>1. Len(header) < Size(c) /\ Len(header) + 1 = HEADER_SIZE + 0 + 1
        BY <1>3, <2>1, <2>5, <2>7, Sizes
      <4> QED
        BY <2>3, <2>5, <4>1 DEF Read
    <3>2. /\ <<>> \in Seq(PtcUnits) /\ Len(<<>>) = 0 /\ 0 < PAYLOAD_LEN[u8Cmd]
          /\ PAYLOAD_LEN[u8Cmd] = PAYLOAD_LEN[u8Cmd] - 0
      BY <2>5, <2>7, EmptySeq
    <3>3. \A j \in 1 .. 0 : <<>>[j] = BodyUnit(u8Cmd, j)
      OBVIOUS
    <3>4. BodyInv'
      BY <1>3, <1>4, <2>7, <3>1, <3>2, <3>3 DEF BodyInv
    <3> QED
      BY <1>9, <2>7, <3>4 DEF PInv, HeaderInv, PtcAnswer
  <2> QED
    BY <1>8, <1>11, <1>12, <2>5, <2>6, <2>7
<1> QED
  BY <1>8, <1>10, <1>11, <1>12

-----------------------------------------------------------------------------
(* The payload.                                                            *)

LEMMA ReceiveBodyKeeps ==
  ASSUME PInv, ReceiveBody
  PROVE  PInv'
<1>1. PICK piece \in Pieces :
        /\ stream' = SubSeq(stream, Len(piece) + 1, Len(stream))
        /\ pBodyBuf' = pBodyBuf \o piece
        /\ nLeft' = nLeft - Len(piece)
        /\ IF nLeft' = 0 THEN Succeed(pBodyBuf') ELSE UNCHANGED <<queryPc, answer>>
  BY DEF ReceiveBody
<1>2. PICK n \in 1 .. Len(stream) : n <= nLeft /\ piece = SubSeq(stream, 1, n)
  BY DEF Pieces, PInv, BodyInv, ReceiveBody
<1> DEFINE t == SubSeq(stream, n + 1, Len(stream))
           k == Len(pBodyBuf)
           l == PAYLOAD_LEN[u8Cmd]
           body == pBodyBuf \o piece
<1>3. /\ queryPc = "body" /\ UNCHANGED <<u8Cmd, asked>> /\ u8Cmd \in Commands
      /\ pBodyBuf \in Seq(PtcUnits) /\ k < l /\ nLeft = l - k
      /\ \A j \in 1 .. k : pBodyBuf[j] = BodyUnit(u8Cmd, j)
  BY DEF ReceiveBody, PInv, BodyInv
<1>4. PICK code \in {0, 1} : RestAt(stream, 1, u8Cmd, code, HEADER_SIZE + k + 1)
  BY <1>3 DEF PInv, BodyInv
<1>5. /\ stream \in Seq(PtcUnits) /\ Len(stream) \in Nat /\ n \in 0 .. Len(stream) /\ Len(piece) = n
      /\ piece \in Seq(PtcUnits) /\ \A i \in 1 .. n : piece[i] = stream[i]
  BY <1>2, Cut, LenProperties DEF PInv, StreamInv
<1>6. stream' = t /\ pBodyBuf' = body /\ nLeft' = nLeft - n
  BY <1>1, <1>5
<1>7. body \in Seq(PtcUnits) /\ Len(body) = k + n
      /\ \A i \in 1 .. k + n : body[i] = IF i <= k THEN pBodyBuf[i] ELSE piece[i - k]
  <2>1. /\ body \in Seq(PtcUnits) /\ Len(body) = Len(pBodyBuf) + Len(piece)
        /\ \A i \in 1 .. Len(pBodyBuf) + Len(piece) :
             body[i] = IF i <= Len(pBodyBuf) THEN pBodyBuf[i] ELSE piece[i - Len(pBodyBuf)]
    BY ONLY <1>3, <1>5, ConcatProperties
  <2> HIDE DEF body
  <2> QED
    BY <1>5, <2>1
<1>8. /\ k \in Nat /\ l \in Nat /\ HEADER_SIZE \in Nat /\ Size(u8Cmd) = HEADER_SIZE + l /\ n \in Nat \ {0}
      /\ k < l /\ k + n <= l
  <2>1. k \in Nat /\ l \in Nat /\ HEADER_SIZE \in Nat /\ Size(u8Cmd) = HEADER_SIZE + l
    BY <1>3, Sizes, LenProperties
  <2>2. n \in Nat \ {0} /\ n <= l - k /\ k < l
    BY <1>2, <1>3, <1>5
  <2> HIDE DEF k, l
  <2> QED
    BY <2>1, <2>2
<1> HIDE DEF t, k, l, body
<1>9. StreamInv'
  BY <1>3, <1>5, <1>6, StreamCut DEF t, PInv, StreamInv
<1>10. ASSUME NEW j \in 1 .. k + n
       PROVE  body[j] = BodyUnit(u8Cmd, j)
  <2>1. CASE j <= k
    <3>1. j \in 1 .. k
      BY <1>8, <2>1
    <3> QED
      BY <1>3, <1>7, <2>1, <3>1
  <2>2. CASE ~(j <= k)
    <3> DEFINE m == HEADER_SIZE + k + 1
    <3>1. /\ j - k \in 1 .. n /\ HEADER_SIZE + j \in m .. Size(u8Cmd)
          /\ 1 + ((HEADER_SIZE + j) - m) = j - k
          /\ ~(HEADER_SIZE + j <= HEADER_SIZE) /\ (HEADER_SIZE + j) - HEADER_SIZE = j
      BY <1>8, <2>2
    <3> HIDE DEF m
    <3>2. stream[j - k] = AnswerUnit(u8Cmd, code, HEADER_SIZE + j)
      BY <1>4, <3>1 DEF RestAt, m
    <3>3. AnswerUnit(u8Cmd, code, HEADER_SIZE + j) = BodyUnit(u8Cmd, j)
      BY <3>1 DEF AnswerUnit
    <3> QED
      BY <1>5, <1>7, <2>2, <3>1, <3>2, <3>3
  <2> QED
    BY <2>1, <2>2
<1>11. CASE nLeft' = 0
  <2>1. Len(body) = l
    BY <1>3, <1>6, <1>7, <1>8, <1>11 DEF k, l
  <2>2. body = Payload(u8Cmd)
    BY <1>3, <1>7, <1>10, <2>1, Payloads, SeqEqual DEF l
  <2> QED
    BY <1>1, <1>3, <1>6, <1>9, <1>11, <2>2 DEF PInv, HeaderInv, BodyInv, PtcAnswer, Succeed
<1>12. CASE nLeft' # 0
  <2>1. /\ Len(body) < l /\ nLeft' = l - Len(body)
        /\ 1 \in 1 .. Len(stream) /\ n >= 1 /\ HEADER_SIZE + k + 1 \in 1 .. Size(u8Cmd)
        /\ (HEADER_SIZE + k + 1) + (n - 1 + 1) = HEADER_SIZE + Len(body) + 1
        /\ (HEADER_SIZE + k + 1) + (n - 1 + 1) <= Size(u8Cmd)
    <3>1. nLeft = l - k /\ nLeft' = nLeft - n /\ Len(body) = k + n
      BY <1>3, <1>6, <1>7 DEF k, l
    <3>2. 1 \in 1 .. Len(stream)
      BY <1>5, <1>8
    <3> QED
      BY ONLY <1>8, <1>12, <3>1, <3>2
  <2>2. RestAt(t, 1, u8Cmd, code, HEADER_SIZE + Len(body) + 1)
    BY <1>3, <1>4, <1>5, <2>1, RestOfRest DEF t
  <2>3. queryPc' = "body" /\ UNCHANGED answer
    BY <1>1, <1>3, <1>12
  <2>4. BodyInv'
    BY <1>3, <1>6, <1>7, <1>10, <2>1, <2>2 DEF BodyInv, l
  <2> QED
    BY <1>9, <2>3, <2>4 DEF PInv, HeaderInv, PtcAnswer
<1> QED
  BY <1>11, <1>12

-----------------------------------------------------------------------------
(* The other steps, and the theorem.                                       *)

LEMMA LidarAnswersKeeps ==
  ASSUME PInv, LidarAnswers
  PROVE  PInv'
<1> DEFINE d == Head(asked)
<1>1. /\ asked \in Seq(Commands) /\ asked # <<>> /\ asked' = Tail(asked)
      /\ UNCHANGED <<queryPc, u8Cmd, nLeft, pHeaderBuf, pBodyBuf, answer>>
  BY DEF LidarAnswers, PInv, StreamInv
<1>2. d \in Commands /\ asked' \in Seq(Commands)
  BY <1>1, HeadTailProperties
<1>3. PICK ret \in {0, 1} : stream' = stream \o Answer(d, ret)
  BY DEF LidarAnswers
<1> HIDE DEF d
<1>4. /\ stream' \in Seq(PtcUnits) /\ Coherent(stream')
      /\ \A c \in Commands, code \in {0, 1} : \A m \in 1 .. Size(c) :
           RestAt(stream, 1, c, code, m) => RestAt(stream', 1, c, code, m)
  BY <1>2, <1>3, StreamGrows DEF PInv
<1>5. HeaderInv'
  <2> SUFFICES ASSUME queryPc = "header"
               PROVE  HeaderInv'
    BY <1>1 DEF HeaderInv
  <2>1. /\ Len(pHeaderBuf) \in Nat /\ Len(pHeaderBuf) < HEADER_SIZE /\ HEADER_SIZE \in Nat
    BY PtcConstants, LenProperties DEF PInv, HeaderInv
  <2>2. \A c \in Commands : Len(pHeaderBuf) + 1 \in 1 .. Size(c)
    BY <2>1, Sizes
  <2> QED
    BY <1>1, <1>4, <2>2 DEF PInv, HeaderInv
<1>6. BodyInv'
  <2> SUFFICES ASSUME queryPc = "body"
               PROVE  BodyInv'
    BY <1>1 DEF BodyInv
  <2>1. /\ u8Cmd \in Commands /\ Len(pBodyBuf) \in Nat /\ Len(pBodyBuf) < PAYLOAD_LEN[u8Cmd]
        /\ HEADER_SIZE \in Nat /\ PAYLOAD_LEN[u8Cmd] \in Nat
        /\ Size(u8Cmd) = HEADER_SIZE + PAYLOAD_LEN[u8Cmd]
    BY PtcConstants, Sizes, LenProperties DEF PInv, BodyInv
  <2>2. HEADER_SIZE + Len(pBodyBuf) + 1 \in 1 .. Size(u8Cmd)
    BY <2>1
  <2> QED
    BY <1>1, <1>4, <2>1, <2>2 DEF PInv, BodyInv
<1> QED
  BY <1>1, <1>2, <1>4, <1>5, <1>6 DEF PInv, StreamInv, PtcAnswer

LEMMA NothingStreamed ==
  /\ <<>> \in Seq(PtcUnits) /\ <<>> \in Seq(Commands) /\ Coherent(<<>>)
<1>1. Len(<<>>) = 0
  BY EmptySeq
<1> QED
  BY <1>1, EmptySeq DEF Coherent

LEMMA QueryKeeps ==
  ASSUME PInv, NEW c \in Commands, QueryCommand(c) \/ SendFails(c) \/ OpenFails(c)
  PROVE  PInv'
<1>1. CASE QueryCommand(c)
  <2>1. asked' \in Seq(Commands) /\ UNCHANGED stream
    BY <1>1, AppendProperties DEF QueryCommand, PInv, StreamInv
  <2>2. Len(<<>>) = 0 /\ <<>> \in Seq(PtcUnits) /\ 0 < HEADER_SIZE /\ HEADER_SIZE = HEADER_SIZE - 0
    BY EmptySeq, PtcConstants
  <2>3. HeaderInv'
    BY <1>1, <2>2 DEF QueryCommand, HeaderInv
  <2> QED
    BY <1>1, <2>1, <2>3 DEF QueryCommand, PInv, StreamInv, BodyInv, PtcAnswer
<1>2. CASE SendFails(c) \/ OpenFails(c)
  <2>1. StreamInv'
    BY <1>2, NothingStreamed DEF SendFails, OpenFails, Disconnect, PInv, StreamInv
  <2>2. queryPc' \in {"idle", "crashed"} /\ (queryPc' = "idle" => answer'.ret = 1)
    BY <1>2 DEF SendFails, OpenFails, Fail
  <2> QED
    BY <2>1, <2>2 DEF PInv, HeaderInv, BodyInv, PtcAnswer
<1> QED
  BY <1>1, <1>2

LEMMA ReceiveFailsKeeps ==
  ASSUME PInv, ReceiveTimeout \/ ReceiveClosed
  PROVE  PInv'
<1>1. StreamInv'
  BY NothingStreamed DEF ReceiveTimeout, ReceiveClosed, Disconnect, PInv, StreamInv
<1>2. queryPc' = "idle" /\ answer'.ret = 1
  BY DEF ReceiveTimeout, ReceiveClosed, Fail
<1> QED
  BY <1>1, <1>2 DEF PInv, HeaderInv, BodyInv, PtcAnswer

\* A command of PtcClient that succeeds returns the payload of an answer to that command, whole:
\* for any commands and payloads, over a plain or an encrypted connection, however the stream is
\* cut and whatever commands that timed out or failed have left in it (ptc_client.cc:106-241).
THEOREM AnswersAreWhole == PSpec => []PtcAnswer
<1>1. PInit => PInv
  BY InitPInv
<1>2. PInv /\ [PNext]_ptcVars => PInv'
  <2> SUFFICES ASSUME PInv, [PNext]_ptcVars
               PROVE  PInv'
    OBVIOUS
  <2>1. CASE UNCHANGED ptcVars
    BY <2>1 DEF ptcVars, PInv, StreamInv, HeaderInv, BodyInv, PtcAnswer
  <2>2. CASE PNext
    BY <2>2, QueryKeeps, ReceiveHeaderKeeps, ReceiveBodyKeeps, ReceiveFailsKeeps, LidarAnswersKeeps DEF PNext
  <2> QED
    BY <2>1, <2>2
<1>3. PInv => PtcAnswer
  BY DEF PInv
<1> QED
  BY <1>1, <1>2, <1>3, PTL DEF PSpec
=============================================================================
