-------------------------- MODULE Iax2OrderProofs --------------------------
(***************************************************************************)
(* InvOrder under reception, and what follows from it: frames are          *)
(* delivered in order and once.                                            *)
(***************************************************************************)
EXTENDS Iax2SendProofs

-----------------------------------------------------------------------------
(* Order, reception.                                                       *)

\* reading[p] is processed and forgotten.
Processes(p) == reading[p] # NoPacket /\ reading' = [reading EXCEPT ![p] = NoPacket]

LEMMA ReadingFacts ==
  ASSUME TypeOK, NEW p \in Peers, Processes(p)
  PROVE  /\ reading[p] \in Packet /\ reading' \in [Peers -> Packet \cup {NoPacket}]
         /\ \A r \in Peers : reading'[r] \in net[r] \cup {reading[r], NoPacket}
  BY Zenon DEF TypeOK, Processes

\* The sequence test lets exactly the next frame through: fewer than 256 can be
\* meant by an octet.
LEMMA NextFrame ==
  ASSUME InvOrder, NEW p \in Peers, iaxs[p], Numbered(reading[p]), ~OutOfOrder(p, reading[p])
  PROVE  /\ reading[p].n = Len(delivered[p]) + 1
         /\ Len(delivered[p]) + 1 <= sent[Other(p)]
         /\ Octet(iseqno[p] + 1) = Octet(start + Len(delivered[p]) + 1)
<1> USE DEF InvOrder
<1> DEFINE q == Other(p)
           m == reading[p]
           d == Len(delivered[p])
<1>1. q \in Peers
  BY OtherEnd, Zenon
<1>2. start \in Nat /\ sent[q] \in Nat /\ d \in Nat /\ MaxSends[q + 1] \in 0..254
  BY <1>1, MaxSendsType DEF TypeOK
<1>3. d <= sent[q] /\ sent[q] <= MaxSends[q + 1] + 1
  BY <1>1, Zenon DEF InOrderOnce, Bounds
<1>4. m.n \in 1..sent[q] /\ m.oseqno = Octet(start + m.n - 1)
  BY Zenon DEF PacketsNumbered, Numbers
<1>5. iseqno[p] = Octet(start + d) /\ m.oseqno = iseqno[p]
  BY Zenon DEF Bounds, OutOfOrder
<1> HIDE DEF q, m, d
<1>6. start + d \in Nat /\ start + m.n - 1 \in Nat
      /\ start + m.n - 1 < start + d + 256 /\ start + d < start + m.n - 1 + 256
  BY <1>2, <1>3, <1>4
<1>7. start + m.n - 1 = start + d
  BY <1>4, <1>5, <1>6, OctetInjective, Zenon
<1>8. m.n = d + 1 /\ d + 1 <= sent[q]
  <2>1. m.n \in Nat /\ m.n <= sent[q]
    BY <1>2, <1>4
  <2>2. m.n = d + 1
    BY <1>2, <1>7, <2>1
  <2> QED  BY <2>1, <2>2, Zenon
<1>9. Octet(iseqno[p] + 1) = Octet(start + d + 1)
  <2>1. Octet(Octet(start + d) + 1) = Octet(start + d + 1)
    BY <1>6, OctetSucc, Zenon
  <2> QED  BY <1>5, <2>1, Zenon
<1> QED  BY <1>8, <1>9, Zenon DEF q, m, d

\* What is sent at once carries no number of a frame.
LEMMA ImmediateFacts ==
  ASSUME TypeOK, NEW p \in Peers, NEW kind \in {"ack", "vnak"}, NEW o \in Octets, NEW i \in Octets,
         Immediate(p, kind, o, i)
  PROVE  /\ net' \in [Peers -> SUBSET Packet] /\ aseqno' \in [Peers -> Octets]
         /\ \A r \in Peers : \A m \in net'[r] :
              m \in net[r] \/ (r = Other(p) /\ ~Numbered(m) /\ m.iseqno = i)
<1> DEFINE k == [kind |-> kind, n |-> 0, oseqno |-> o, iseqno |-> i]
<1>1. k \in Packet /\ ~Numbered(k) /\ k.iseqno = i
  BY Zenon DEF Packet, Kinds, Numbered
<1>2. send_packet(p, {k}) /\ aseqno' = [aseqno EXCEPT ![p] = i]
  BY Zenon DEF Immediate
<1> HIDE DEF k
<1>3. {k} \in SUBSET Packet
  BY <1>1, Zenon
<1>4. /\ net' \in [Peers -> SUBSET Packet]
      /\ \A r \in Peers : \A m \in net'[r] : m \in net[r] \/ (r = Other(p) /\ m \in {k})
  BY <1>2, <1>3, PacketsSent, Zenon
<1>5. aseqno' \in [Peers -> Octets]
  BY <1>2, Zenon DEF TypeOK
<1> QED  BY <1>1, <1>4, <1>5, Zenon

\* Packets that carry no number of a frame disturb no frame.
LEMMA UnnumberedKept ==
  ASSUME TypeOK, TypeOK', Grows, PacketsNumbered, NEW p \in Peers,
         \A r \in Peers : \A m \in net'[r] : m \in net[r] \/ ~Numbered(m),
         \A r \in Peers : reading'[r] \in net[r] \cup {reading[r], NoPacket}
  PROVE  PacketsNumbered'
<1> SUFFICES ASSUME NEW r \in Peers, NEW m \in net'[r] \cup {reading'[r]}, Numbered(m)
             PROVE  m.n \in 1..sent'[Other(r)] /\ m.oseqno = Octet(start' + m.n - 1)
  BY Zenon DEF PacketsNumbered, Numbers, Numbered
<1>1. ~Numbered(NoPacket)
  BY Zenon DEF Numbered, NoPacket
<1>2. Numbers(Other(r), m)
  BY <1>1, OtherEnd, Zenon DEF PacketsNumbered
<1> QED  BY <1>2, NumbersKept, OtherEnd, Zenon

\* The window of end p and the history of what was called off.
LEMMA WindowType ==
  ASSUME TypeOK, NEW p \in Peers, NEW i \in Octets
  PROVE  /\ NoteAcked(p, i) => acked' \in [Peers -> SUBSET Nat]
         /\ NoteWindow(p, i) => rseqno' \in [Peers -> Octets] /\ acked' \in [Peers -> SUBSET Nat]
<1>1. \A f \in AckedBy(p, i) : f.n \in Nat
  BY DEF TypeOK, AckedBy, Frame
<1>2. {f.n : f \in AckedBy(p, i)} \subseteq Nat
  BY <1>1, Zenon
<1>3. NoteAcked(p, i) => acked' \in [Peers -> SUBSET Nat]
  BY <1>2 DEF TypeOK, NoteAcked
<1>4. ASSUME NoteWindow(p, i)  PROVE rseqno' \in [Peers -> Octets]
  <2>1. rseqno' = [rseqno EXCEPT ![p] = IF InWindow(p, i) THEN i ELSE rseqno[p]]
    BY <1>4, Zenon DEF NoteWindow
  <2> QED  BY <2>1, Zenon DEF TypeOK
<1> QED  BY <1>3, <1>4, Zenon DEF NoteWindow

\* The frames while an acknowledgement is noted and nothing is sent.
LEMMA MarkedOrder ==
  ASSUME InvOrder, NEW p \in Peers, NEW i, queue' = [queue EXCEPT ![p] = Marked(p, i)], TypeOK', Grows
  PROVE  \A r \in Peers : \A f \in queue'[r] :
            f.n \in 1..sent'[r] /\ f.oseqno = Octet(start' + f.n - 1) /\ (f.final => ~owner'[r])
<1> USE DEF InvOrder
<1>1. \A f \in Marked(p, i) : \E g \in queue[p] : Same(f, g)
  BY MarkedSame, Zenon
<1>2. \A r \in Peers : \A f \in queue'[r] : \E g \in queue[r] : SameNumber(f, g)
  BY <1>1, SameGivesNumber, Zenon DEF TypeOK
<1> QED  BY <1>2, QueueKept, Zenon

LEMMA UnknownOrder ==
  ASSUME InvOrder, NEW p \in Peers, Processes(p), ProcessUnknown(p, reading[p])
  PROVE  InvOrder'
<1> USE DEF InvOrder
<1> DEFINE k == [kind |-> "inval", n |-> 0, oseqno |-> 0, iseqno |-> 0]
<1>1. /\ UNCHANGED <<iaxs, known, owner, gone, error, prodded, destroying, tx, queue>>
      /\ UNCHANGED <<oseqno, iseqno, rseqno, aseqno>>
      /\ UNCHANGED <<start, sent, delivered, acked>>
  BY Zenon DEF ProcessUnknown, pvt, seqnos, history
<1>2. k \in Packet /\ ~Numbered(k)
  BY DEF Packet, Kinds, Octets, Numbered
<1>3. net' = net \/ net' = [net EXCEPT ![Other(p)] = net[Other(p)] \cup {k}]
  BY Zenon DEF ProcessUnknown
<1> HIDE DEF k
<1>4. TypeOK'
  <2>1. net' \in [Peers -> SUBSET Packet]
    <3>1. net \in [Peers -> SUBSET Packet] /\ Other(p) \in Peers
      BY OtherEnd, Zenon DEF TypeOK
    <3> QED  BY <1>2, <1>3, <3>1, Zenon
  <2> QED  BY <1>1, <2>1, ReadingFacts, Zenon DEF TypeOK
<1>5. Grows
  BY <1>1 DEF Grows, TypeOK
<1>6. \A r \in Peers : \A m \in net'[r] : m \in net[r] \/ ~Numbered(m)
  <2>1. net \in [Peers -> SUBSET Packet] /\ Other(p) \in Peers
    BY OtherEnd, Zenon DEF TypeOK
  <2> QED  BY <1>2, <1>3, <2>1, Zenon
<1>7. PacketsNumbered'
  BY <1>4, <1>5, <1>6, UnnumberedKept, ReadingFacts, Zenon
<1> QED  BY <1>1, <1>4, <1>7, Zenon DEF Bounds, FramesNumbered, Numbers, InOrderOnce

LEMMA OutOfOrderOrder ==
  ASSUME InvOrder, NEW p \in Peers, Processes(p), ProcessOutOfOrder(p, reading[p])
  PROVE  InvOrder'
<1> USE DEF InvOrder
<1>1. /\ UNCHANGED <<iaxs, known, owner, gone, error, prodded, destroying, tx, queue>>
      /\ UNCHANGED <<oseqno, iseqno, rseqno>>
      /\ UNCHANGED <<start, sent, delivered, acked>>
  BY Zenon DEF ProcessOutOfOrder, pvt, history
<1>2. reading[p].iseqno \in Octets /\ iseqno[p] \in Octets
  BY ReadingFacts, Zenon DEF Packet, TypeOK
<1>3. \E kind \in {"ack", "vnak"}, o \in Octets : Immediate(p, kind, o, iseqno[p])
  BY <1>2, Zenon DEF ProcessOutOfOrder
<1>4. PICK kind \in {"ack", "vnak"}, o \in Octets : Immediate(p, kind, o, iseqno[p])
  BY <1>3, Zenon
<1>5. /\ net' \in [Peers -> SUBSET Packet] /\ aseqno' \in [Peers -> Octets]
      /\ \A r \in Peers : \A m \in net'[r] : m \in net[r] \/ ~Numbered(m)
  BY <1>2, <1>4, ImmediateFacts, Zenon
<1>6. TypeOK'
  BY <1>1, <1>5, ReadingFacts, Zenon DEF TypeOK
<1>7. Grows
  BY <1>1 DEF Grows, TypeOK
<1>8. PacketsNumbered'
  BY <1>5, <1>6, <1>7, UnnumberedKept, ReadingFacts, Zenon
<1> QED  BY <1>1, <1>6, <1>8, Zenon DEF Bounds, FramesNumbered, Numbers, InOrderOnce

LEMMA FinalAckOrder ==
  ASSUME InvOrder, NEW p \in Peers, Processes(p), ProcessFinalAck(p, reading[p])
  PROVE  InvOrder'
<1> USE DEF InvOrder
<1> DEFINE i == reading[p].iseqno
           q == Marked(p, i)
<1>1. /\ UNCHANGED <<owner, gone, error, destroying, oseqno, rseqno, aseqno, tx, net>>
      /\ UNCHANGED <<start, sent, delivered>>
  BY Zenon DEF ProcessFinalAck
<1>2. i \in Octets
  BY ReadingFacts, Zenon DEF Packet
<1>3. NoteAcked(p, i) /\ iax2_destroy(p, q) /\ FinalAcked(p, i)
  BY Zenon DEF ProcessFinalAck
<1>4. iseqno' = [iseqno EXCEPT ![p] = IF Numbered(reading[p]) THEN Octet(iseqno[p] + 1) ELSE iseqno[p]]
  BY Zenon DEF ProcessFinalAck
<1>5. q \in SUBSET Frame /\ \A f \in q : \E g \in queue[p] : Same(f, g)
  BY MarkedSame, Zenon
<1>6. ~owner[p]
  BY <1>3, Zenon DEF FinalAcked, AckedBy, FramesNumbered
<1>7. iseqno' \in [Peers -> Octets]
  <2>1. iseqno[p] \in Octets
    BY Zenon DEF TypeOK
  <2>2. Octet(iseqno[p] + 1) \in Octets
    BY <2>1 DEF Octet, Octets
  <2> QED  BY <1>4, <2>1, <2>2, Zenon DEF TypeOK
<1> HIDE DEF q, i
<1>8. TypeOK'
  BY <1>1, <1>2, <1>3, <1>5, <1>7, DestroyFacts, WindowType, ReadingFacts, Zenon DEF TypeOK
<1>9. FramesNumbered' /\ Grows
  BY <1>1, <1>3, <1>5, <1>8, DestroyOrder, Zenon
<1>10. \A r \in Peers : (owner'[r] => iaxs'[r]) /\ (iaxs'[r] => iaxs[r] /\ iseqno'[r] = iseqno[r])
  BY <1>1, <1>3, <1>4, <1>5, <1>6, DestroyFacts, Zenon DEF TypeOK
<1>11. Bounds'
  BY <1>1, <1>10, BoundsStay, Zenon
<1> QED  BY <1>1, <1>8, <1>9, <1>11, PacketsStay, OrderStays, ReadingFacts, Zenon

LEMMA InvalOrder ==
  ASSUME InvOrder, NEW p \in Peers, Processes(p), ProcessInval(p, reading[p])
  PROVE  InvOrder'
<1> USE DEF InvOrder
<1>1. /\ UNCHANGED <<owner, gone, destroying, oseqno, iseqno, rseqno, aseqno, tx, net>>
      /\ UNCHANGED <<start, sent, delivered, acked>>
      /\ error' = [error EXCEPT ![p] = TRUE] /\ iax2_destroy(p, queue[p])
  BY Zenon DEF ProcessInval, seqnos, history
<1>2. queue[p] \in SUBSET Frame /\ \A f \in queue[p] : \E g \in queue[p] : Same(f, g)
  BY SameGivesNumber, Zenon DEF TypeOK
<1>3. TypeOK'
  BY <1>1, <1>2, DestroyFacts, ReadingFacts, Zenon DEF TypeOK
<1>4. FramesNumbered' /\ Grows
  BY <1>1, <1>2, <1>3, DestroyOrder, Zenon
<1>5. Bounds'
  BY <1>1, <1>2, DestroyFacts, BoundsStay, Zenon
<1> QED  BY <1>1, <1>3, <1>4, <1>5, PacketsStay, OrderStays, ReadingFacts, Zenon

LEMMA AckOrder ==
  ASSUME InvOrder, NEW p \in Peers, Processes(p), ProcessAck(p, reading[p])
  PROVE  InvOrder'
<1> USE DEF InvOrder
<1> DEFINE i == reading[p].iseqno
<1>1. /\ UNCHANGED <<iaxs, known, owner, gone, error, prodded, destroying>>
      /\ UNCHANGED <<oseqno, iseqno, aseqno, tx, net, start, sent, delivered>>
      /\ NoteWindow(p, i) /\ queue' = [queue EXCEPT ![p] = Marked(p, i)]
  BY Zenon DEF ProcessAck, pvt
<1>2. i \in Octets
  BY ReadingFacts, Zenon DEF Packet
<1> HIDE DEF i
<1>3. Marked(p, i) \subseteq Frame
  BY MarkedSame, Zenon
<1>4. TypeOK'
  BY <1>1, <1>2, <1>3, WindowType, ReadingFacts, Zenon DEF TypeOK
<1>5. Grows
  BY <1>1 DEF Grows, TypeOK
<1>6. FramesNumbered'
  <2>1. \A r \in Peers : \A j \in 1..Len(tx'[r]) : \E k \in 1..Len(tx[r]) : tx'[r][j] = tx[r][k]
    BY <1>1, Zenon
  <2> QED  BY <1>1, <1>4, <1>5, <2>1, MarkedOrder, TxKept, Zenon DEF FramesNumbered, Numbers
<1>7. Bounds'
  BY <1>1, Zenon DEF Bounds
<1> QED  BY <1>1, <1>4, <1>5, <1>6, <1>7, PacketsStay, OrderStays, ReadingFacts, Zenon

LEMMA VnakOrder ==
  ASSUME InvOrder, NEW p \in Peers, Processes(p), ProcessVnak(p, reading[p])
  PROVE  InvOrder'
<1> USE DEF InvOrder
<1> DEFINE i == reading[p].iseqno
           again == {g \in Marked(p, i) : Octet(g.oseqno - i) < 128 /\ g.retries >= 0}
           ms == {OnWire(f) : f \in again}
<1>1. /\ UNCHANGED <<iaxs, known, owner, gone, error, prodded, destroying>>
      /\ UNCHANGED <<oseqno, iseqno, aseqno, tx, start, sent, delivered>>
      /\ NoteWindow(p, i) /\ queue' = [queue EXCEPT ![p] = Marked(p, i)]
      /\ send_packet(p, ms)
  BY Zenon DEF ProcessVnak, pvt
<1>2. i \in Octets
  BY ReadingFacts, Zenon DEF Packet
<1>3. again \subseteq Marked(p, i)
  OBVIOUS
<1> HIDE DEF i, again
<1>4. Marked(p, i) \subseteq Frame /\ \A f \in Marked(p, i) : \E g \in queue[p] : Same(f, g)
  BY MarkedSame, Zenon
<1>5. ASSUME NEW f \in again  PROVE OnWire(f) \in Packet /\ Numbers(p, OnWire(f))
  <2>1. PICK g \in queue[p] : Same(f, g)
    BY <1>3, <1>4, Zenon
  <2>2. Numbers(p, f)
    BY <2>1, Zenon DEF FramesNumbered, Numbers, Same
  <2> QED  BY <1>3, <1>4, <2>2, WireNumbers, Zenon
<1>6. ms \in SUBSET Packet /\ \A m \in ms : Numbers(p, m)
  BY <1>5, Zenon
<1> HIDE DEF ms
<1>7. TypeOK'
  BY <1>1, <1>2, <1>4, <1>6, WindowType, ReadingFacts, PacketsSent, Zenon DEF TypeOK
<1>8. Grows
  BY <1>1 DEF Grows, TypeOK
<1>9. FramesNumbered'
  <2>1. \A r \in Peers : \A j \in 1..Len(tx'[r]) : \E k \in 1..Len(tx[r]) : tx'[r][j] = tx[r][k]
    BY <1>1, Zenon
  <2> QED  BY <1>1, <1>7, <1>8, <2>1, MarkedOrder, TxKept, Zenon DEF FramesNumbered, Numbers
<1>10. PacketsNumbered'
  <2>1. \A r \in Peers : \A m \in net'[r] : m \in net[r] \/ (r = Other(p) /\ m \in ms)
    BY <1>1, <1>6, PacketsSent, Zenon
  <2> QED  BY <1>6, <1>7, <1>8, <2>1, PacketsKept, ReadingFacts, Zenon
<1>11. Bounds'
  BY <1>1, Zenon DEF Bounds
<1> QED  BY <1>1, <1>7, <1>8, <1>9, <1>10, <1>11, OrderStays, Zenon

\* The next frame is given to the end that expects it.
LEMMA DeliveryOrder ==
  ASSUME InvOrder, TypeOK', Grows, NEW p \in Peers, iaxs[p], Numbered(reading[p]),
         ~OutOfOrder(p, reading[p]),
         delivered' = [delivered EXCEPT ![p] = Append(delivered[p], reading[p].n)],
         iseqno' = [iseqno EXCEPT ![p] = Octet(iseqno[p] + 1)],
         \A r \in Peers : iaxs'[r] => iaxs[r]
  PROVE  /\ InOrderOnce'
         /\ \A r \in Peers : iaxs'[r] => iseqno'[r] = Octet(start' + Len(delivered'[r]))
<1> USE DEF InvOrder
<1> DEFINE d == delivered[p]
           n == reading[p].n
<1>1. /\ n = Len(d) + 1 /\ Len(d) + 1 <= sent[Other(p)]
      /\ Octet(iseqno[p] + 1) = Octet(start + Len(d) + 1)
  BY NextFrame, Zenon
<1>2. d \in Seq(Nat) /\ Len(d) \in Nat /\ start \in Nat /\ start' = start /\ Other(p) \in Peers
  BY OtherEnd DEF TypeOK, Grows
<1>3. delivered'[p] = Append(d, n)
  BY Zenon DEF TypeOK
<1>4. \A r \in Peers : r # p => delivered'[r] = delivered[r] /\ iseqno'[r] = iseqno[r]
  BY Zenon DEF TypeOK
<1>5. iseqno'[p] = Octet(iseqno[p] + 1)
  BY Zenon DEF TypeOK
<1>6. \A k \in 1..Len(d) : d[k] = k
  BY Zenon DEF InOrderOnce
<1> HIDE DEF d, n
<1>7. n \in Nat
  BY <1>1, <1>2
<1>8. Len(Append(d, n)) = Len(d) + 1 /\ \A k \in 1..Len(Append(d, n)) : Append(d, n)[k] = k
  BY <1>1, <1>2, <1>6, <1>7
<1>9. ASSUME NEW r \in Peers, iaxs'[r]  PROVE iseqno'[r] = Octet(start' + Len(delivered'[r]))
  <2>1. CASE r = p
    <3>1. start' + Len(delivered'[p]) = start + Len(d) + 1
      <4>1. Len(delivered'[p]) = Len(d) + 1
        BY <1>3, <1>8, Zenon
      <4>2. start + (Len(d) + 1) = start + Len(d) + 1
        BY <1>2
      <4> QED  BY <1>2, <4>1, <4>2, Zenon
    <3> QED  BY <1>1, <1>5, <2>1, <3>1, Zenon
  <2>2. CASE r # p
    BY <1>2, <1>4, <1>9, <2>2, Zenon DEF Bounds
  <2> QED  BY <2>1, <2>2, Zenon
<1>10. ASSUME NEW r \in Peers
       PROVE  /\ Len(delivered'[r]) <= sent'[Other(r)]
              /\ \A k \in 1..Len(delivered'[r]) : delivered'[r][k] = k
  <2>1. Other(r) \in Peers
    BY OtherEnd, Zenon
  <2>2. sent[Other(r)] \in Nat /\ sent'[Other(r)] \in Nat /\ sent[Other(r)] <= sent'[Other(r)]
    BY <2>1, Zenon DEF TypeOK, Grows
  <2>3. CASE r = p
    <3>1. Len(delivered'[p]) = Len(d) + 1 /\ \A k \in 1..Len(delivered'[p]) : delivered'[p][k] = k
      BY <1>3, <1>8, Zenon
    <3>2. Len(d) + 1 <= sent'[Other(p)]
      BY <1>1, <1>2, <2>2, <2>3
    <3> QED  BY <2>3, <3>1, <3>2, Zenon
  <2>4. CASE r # p
    <3>1. Len(delivered[r]) \in Nat /\ Len(delivered[r]) <= sent[Other(r)]
          /\ \A k \in 1..Len(delivered[r]) : delivered[r][k] = k
      BY DEF TypeOK, InOrderOnce
    <3> QED  BY <1>4, <2>2, <2>4, <3>1
  <2> QED  BY <2>3, <2>4, Zenon
<1> QED  BY <1>9, <1>10, Zenon DEF InOrderOnce

LEMMA ProcessHangupOrder ==
  ASSUME InvOrder, NEW p \in Peers, Processes(p), ProcessHangup(p, reading[p])
  PROVE  InvOrder'
<1> USE DEF InvOrder
<1> DEFINE i == reading[p].iseqno
           q == Marked(p, i)
           e == Octet(iseqno[p] + 1)
<1>1. /\ UNCHANGED <<owner, error, destroying, oseqno, tx, start, sent>>
      /\ iseqno' = [iseqno EXCEPT ![p] = e]
      /\ delivered' = [delivered EXCEPT ![p] = Append(delivered[p], reading[p].n)]
      /\ gone' = [gone EXCEPT ![p] = TRUE]
      /\ NoteWindow(p, i) /\ Immediate(p, "ack", i, e) /\ iax2_destroy(p, q)
  BY Zenon DEF ProcessHangup
<1>2. iaxs[p] /\ Numbered(reading[p]) /\ ~OutOfOrder(p, reading[p])
  BY Zenon DEF ProcessHangup, InOrder, Numbered
<1>3. i \in Octets /\ reading[p].n \in Nat
  BY ReadingFacts, Zenon DEF Packet
<1>4. e \in Octets
  <2>1. iseqno[p] \in Octets
    BY Zenon DEF TypeOK
  <2> QED  BY <2>1 DEF Octet, Octets
<1>5. q \in SUBSET Frame /\ \A f \in q : \E g \in queue[p] : Same(f, g)
  BY MarkedSame, Zenon
<1>6. delivered' \in [Peers -> Seq(Nat)]
  BY <1>1, <1>3 DEF TypeOK
<1> HIDE DEF i, q, e
<1>7. /\ net' \in [Peers -> SUBSET Packet] /\ aseqno' \in [Peers -> Octets]
      /\ \A r \in Peers : \A m \in net'[r] : m \in net[r] \/ ~Numbered(m)
  BY <1>1, <1>3, <1>4, ImmediateFacts, Zenon
<1>8. /\ known' \in [Peers -> BOOLEAN] /\ iaxs' \in [Peers -> BOOLEAN]
      /\ prodded' \in [Peers -> BOOLEAN] /\ queue' \in [Peers -> SUBSET Frame]
      /\ \A r \in Peers : (owner'[r] => iaxs'[r]) /\ (iaxs'[r] => iaxs[r])
  BY <1>1, <1>5, DestroyFacts, Zenon
<1>9. TypeOK'
  BY <1>1, <1>3, <1>4, <1>6, <1>7, <1>8, WindowType, ReadingFacts, Zenon DEF TypeOK
<1>10. FramesNumbered' /\ Grows
  BY <1>1, <1>5, <1>9, DestroyOrder, Zenon
<1>11. InOrderOnce' /\ \A r \in Peers : iaxs'[r] => iseqno'[r] = Octet(start' + Len(delivered'[r]))
  BY <1>1, <1>2, <1>8, <1>9, <1>10, DeliveryOrder, Zenon DEF e
<1>12. Bounds'
  BY <1>1, <1>8, <1>11, Zenon DEF Bounds
<1>13. PacketsNumbered'
  BY <1>7, <1>9, <1>10, UnnumberedKept, ReadingFacts, Zenon
<1> QED  BY <1>9, <1>10, <1>11, <1>12, <1>13, Zenon

LEMMA DataOrder ==
  ASSUME InvOrder, NEW p \in Peers, Processes(p), ProcessData(p, reading[p])
  PROVE  InvOrder'
<1> USE DEF InvOrder
<1> DEFINE i == reading[p].iseqno
           e == Octet(iseqno[p] + 1)
<1>1. /\ UNCHANGED <<iaxs, known, owner, gone, error, prodded, destroying, start>>
      /\ iseqno' = [iseqno EXCEPT ![p] = e]
      /\ delivered' = [delivered EXCEPT ![p] = Append(delivered[p], reading[p].n)]
      /\ NoteWindow(p, i) /\ queue' = [queue EXCEPT ![p] = Marked(p, i)]
  BY Zenon DEF ProcessData, pvt
<1>2. iaxs[p] /\ Numbered(reading[p]) /\ ~OutOfOrder(p, reading[p])
  BY Zenon DEF ProcessData, InOrder, Numbered
<1>3. \/ MayWrite(p) /\ iax2_send(p, FALSE, e) /\ UNCHANGED net
      \/ (Immediate(p, "ack", i, e) \/ UNCHANGED <<net, aseqno>>) /\ UNCHANGED <<oseqno, tx, sent>>
  BY Zenon DEF ProcessData
<1>4. i \in Octets /\ reading[p].n \in Nat
  BY ReadingFacts, Zenon DEF Packet
<1>5. e \in Octets
  <2>1. iseqno[p] \in Octets
    BY Zenon DEF TypeOK
  <2> QED  BY <2>1 DEF Octet, Octets
<1>6. delivered' \in [Peers -> Seq(Nat)]
  BY <1>1, <1>4 DEF TypeOK
<1> HIDE DEF i
<1>7. Marked(p, i) \subseteq Frame
  BY MarkedSame, Zenon
<1>8. /\ iseqno' \in [Peers -> Octets] /\ queue' \in [Peers -> SUBSET Frame]
      /\ rseqno' \in [Peers -> Octets] /\ acked' \in [Peers -> SUBSET Nat]
  BY <1>1, <1>4, <1>5, <1>7, WindowType, Zenon DEF TypeOK
<1>9. CASE MayWrite(p) /\ iax2_send(p, FALSE, e) /\ UNCHANGED net
  <2>1. sent' = [sent EXCEPT ![p] = sent[p] + 1] /\ sent[p] < MaxSends[p + 1]
    BY <1>9, SendCounts, Zenon DEF MayWrite
  <2>2. /\ tx' \in [Peers -> Seq(Frame)] /\ oseqno' \in [Peers -> Octets]
        /\ aseqno' \in [Peers -> Octets] /\ sent' \in [Peers -> Nat]
    BY <1>5, <1>9, SendType, Zenon
  <2>3. TypeOK'
    BY <1>1, <1>6, <1>8, <1>9, <2>2, ReadingFacts, Zenon DEF TypeOK
  <2>4. Grows
    BY <1>1, <2>1 DEF Grows, TypeOK
  <2>5. /\ \A r \in Peers : oseqno'[r] = Octet(start' + sent'[r])
        /\ \A r \in Peers : \A j \in 1..Len(tx'[r]) :
              /\ tx'[r][j].n \in 1..sent'[r]
              /\ tx'[r][j].oseqno = Octet(start' + tx'[r][j].n - 1)
              /\ tx'[r][j].final => ~owner'[r]
    BY <1>5, <1>9, <2>3, <2>4, SendOrder, Zenon
  <2>6. FramesNumbered'
    BY <1>1, <2>3, <2>4, <2>5, MarkedOrder, Zenon DEF FramesNumbered, Numbers
  <2>7. InOrderOnce' /\ \A r \in Peers : iaxs'[r] => iseqno'[r] = Octet(start' + Len(delivered'[r]))
    BY <1>1, <1>2, <2>3, <2>4, DeliveryOrder, Zenon
  <2>8. \A r \in Peers : sent'[r] <= MaxSends[r + 1] + 1 /\ (owner'[r] => sent'[r] <= MaxSends[r + 1])
    <3>1. \A r \in Peers : sent[r] \in Nat /\ MaxSends[r + 1] \in 0..254
      BY MaxSendsType, Zenon DEF TypeOK
    <3>2. sent'[p] = sent[p] + 1 /\ \A r \in Peers : r # p => sent'[r] = sent[r]
      BY <2>1, Zenon DEF TypeOK
    <3>3. sent'[p] <= MaxSends[p + 1] /\ sent'[p] <= MaxSends[p + 1] + 1
      BY <2>1, <3>1, <3>2
    <3> QED  BY <1>1, <3>2, <3>3, Zenon DEF Bounds
  <2>9. Bounds'
    BY <1>1, <2>5, <2>7, <2>8, Zenon DEF Bounds
  <2>10. PacketsNumbered'
    BY <1>9, <2>3, <2>4, PacketsStay, ReadingFacts, Zenon
  <2> QED  BY <2>3, <2>6, <2>7, <2>9, <2>10, Zenon
<1>10. CASE (Immediate(p, "ack", i, e) \/ UNCHANGED <<net, aseqno>>) /\ UNCHANGED <<oseqno, tx, sent>>
  <2>1. /\ net' \in [Peers -> SUBSET Packet] /\ aseqno' \in [Peers -> Octets]
        /\ \A r \in Peers : \A m \in net'[r] : m \in net[r] \/ ~Numbered(m)
    <3>1. CASE Immediate(p, "ack", i, e)
      BY <1>4, <1>5, <3>1, ImmediateFacts, Zenon
    <3>2. CASE UNCHANGED <<net, aseqno>>
      BY <3>2, Zenon DEF TypeOK
    <3> QED  BY <1>10, <3>1, <3>2, Zenon
  <2>2. TypeOK'
    BY <1>1, <1>6, <1>8, <1>10, <2>1, ReadingFacts, Zenon DEF TypeOK
  <2>3. Grows
    BY <1>1, <1>10 DEF Grows, TypeOK
  <2>4. FramesNumbered'
    <3>1. \A r \in Peers : \A j \in 1..Len(tx'[r]) : \E k \in 1..Len(tx[r]) : tx'[r][j] = tx[r][k]
      BY <1>10, Zenon
    <3> QED  BY <1>1, <2>2, <2>3, <3>1, MarkedOrder, TxKept, Zenon DEF FramesNumbered, Numbers
  <2>5. InOrderOnce' /\ \A r \in Peers : iaxs'[r] => iseqno'[r] = Octet(start' + Len(delivered'[r]))
    BY <1>1, <1>2, <2>2, <2>3, DeliveryOrder, Zenon
  <2>6. Bounds'
    BY <1>1, <1>10, <2>5, Zenon DEF Bounds
  <2>7. PacketsNumbered'
    BY <2>1, <2>2, <2>3, UnnumberedKept, ReadingFacts, Zenon
  <2> QED  BY <2>2, <2>4, <2>5, <2>6, <2>7, Zenon
<1> QED  BY <1>3, <1>9, <1>10, Zenon

LEMMA InitOrder == Init => InvOrder
<1> SUFFICES ASSUME Init  PROVE InvOrder
  OBVIOUS
<1>1. start \in Nat /\ Octet(start) \in Octets
  BY Iax2Constants, OctetSucc, Zenon DEF Init
<1>2. TypeOK
  BY <1>1 DEF Init, TypeOK
<1>3. Bounds
  <2> SUFFICES ASSUME NEW p \in Peers
               PROVE  /\ sent[p] <= MaxSends[p + 1] + 1 /\ sent[p] <= MaxSends[p + 1]
                      /\ iaxs[p] /\ oseqno[p] = Octet(start + sent[p])
                      /\ iseqno[p] = Octet(start + Len(delivered[p]))
    BY Zenon DEF Bounds
  <2>1. sent[p] = 0 /\ Len(delivered[p]) = 0 /\ iaxs[p]
        /\ oseqno[p] = Octet(start) /\ iseqno[p] = Octet(start)
    BY Zenon DEF Init
  <2>2. start + 0 = start
    BY <1>1
  <2>3. MaxSends[p + 1] \in 0..254
    BY MaxSendsType, Zenon
  <2>4. sent[p] <= MaxSends[p + 1] + 1 /\ sent[p] <= MaxSends[p + 1]
    <3>1. sent[p] = 0
      BY <2>1, Zenon
    <3> QED  BY <2>3, <3>1
  <2> QED  BY <2>1, <2>2, <2>4, Zenon
<1>4. FramesNumbered /\ InOrderOnce
  BY OtherEnd DEF Init, FramesNumbered, InOrderOnce
<1>5. PacketsNumbered
  BY Zenon DEF Init, PacketsNumbered, Numbered, NoPacket
<1> QED  BY <1>2, <1>3, <1>4, <1>5, Zenon DEF InvOrder

LEMMA NextOrder == InvOrder /\ [Next]_vars => InvOrder'
<1> SUFFICES ASSUME InvOrder, [Next]_vars  PROVE InvOrder'
  OBVIOUS
<1>1. CASE UNCHANGED vars
  BY <1>1, Zenon DEF vars, pvt, seqnos, history, InvOrder, TypeOK, Bounds, FramesNumbered, PacketsNumbered,
              Numbers, InOrderOnce
<1>2. ASSUME NEW p \in Peers, socket_process(p)  PROVE InvOrder'
  <2>1. Processes(p)
    BY <1>2, Zenon DEF socket_process, Processes
  <2> QED  BY <1>2, <2>1, UnknownOrder, OutOfOrderOrder, FinalAckOrder, DataOrder,
              ProcessHangupOrder, AckOrder, VnakOrder, InvalOrder, Zenon DEF socket_process
<1>3. ASSUME NEW p \in Peers, attempt_transmit(p)  PROVE InvOrder'
  BY <1>3, TimerFreesOrder, RetransmitsOrder, GivesUpOrder, Zenon DEF attempt_transmit
<1> QED  BY <1>1, <1>2, <1>3, WriteOrder, HangupOrder, ScheduledDestroyOrder, TransmitOrder,
            FindCallnoOrder, Zenon DEF Next

\* Whatever the network loses, duplicates, delays or reorders, and for every number
\* of frames that an octet tells apart, wherever the octets stand at the start:
\* each end is given the frames of the other in order, each once (socket_process).
THEOREM InOrderOnceHolds == Spec => []InOrderOnce
<1>1. InvOrder => InOrderOnce
  BY Zenon DEF InvOrder
<1> QED  BY <1>1, InitOrder, NextOrder, PTL DEF Spec
=============================================================================
