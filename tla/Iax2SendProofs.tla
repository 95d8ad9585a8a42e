-------------------------- MODULE Iax2SendProofs ---------------------------
(***************************************************************************)
(* Frames are delivered in order and once, for every number of frames an   *)
(* octet can tell apart, every number of retries and every number of       *)
(* frames exchanged before.  InvOrder is inductive: what each end numbered *)
(* and what it expects are the octets of what it sent and was given, and   *)
(* every frame and packet carries the octet of its place.                  *)
(***************************************************************************)
EXTENDS Iax2, TLAPS

\* Frame f of end p is one of those p has sent, under its own number.
Numbers(p, f) ==
  /\ f.n \in 1..sent[p]
  /\ f.oseqno = Octet(start + f.n - 1)

Bounds ==
  \A p \in Peers :
    /\ sent[p] <= MaxSends[p + 1] + 1
    /\ owner[p] => sent[p] <= MaxSends[p + 1]
    /\ owner[p] => iaxs[p]
    /\ oseqno[p] = Octet(start + sent[p])
    /\ iaxs[p] => iseqno[p] = Octet(start + Len(delivered[p]))

FramesNumbered ==
  \A p \in Peers :
    /\ \A f \in queue[p] : Numbers(p, f) /\ (f.final => ~owner[p])
    /\ \A j \in 1..Len(tx[p]) : Numbers(p, tx[p][j]) /\ (tx[p][j].final => ~owner[p])

PacketsNumbered ==
  \A p \in Peers :
    /\ \A m \in net[p] : Numbered(m) => Numbers(Other(p), m)
    /\ Numbered(reading[p]) => Numbers(Other(p), reading[p])

InvOrder == TypeOK /\ Bounds /\ FramesNumbered /\ PacketsNumbered /\ InOrderOnce

-----------------------------------------------------------------------------
(* Octets, ends and frames.                                                *)

\* The successor of an octet is the octet of the successor.
LEMMA OctetSucc ==
  ASSUME NEW x \in Nat
  PROVE  Octet(x) \in Octets /\ Octet(Octet(x) + 1) = Octet(x + 1)
  BY DEF Octet, Octets

\* Fewer than 256 consecutive numbers are told apart by an octet.
LEMMA OctetInjective ==
  ASSUME NEW a \in Nat, NEW b \in Nat, a < b + 256, b < a + 256, Octet(a) = Octet(b)
  PROVE  a = b
  BY DEF Octet

\* The two ends are each other's other end.
LEMMA OtherEnd ==
  ASSUME NEW p \in Peers
  PROVE  Other(p) \in Peers /\ Other(p) # p /\ Other(Other(p)) = p
  BY DEF Peers, Other

\* Frame f is frame g, but for the number of times it was sent.
Same(f, g) == f.n = g.n /\ f.oseqno = g.oseqno /\ f.iseqno = g.iseqno /\ f.final = g.final

\* Cancelling what pvt_destructor cancels changes no number.
LEMMA CancelledSame ==
  ASSUME NEW q \in SUBSET Frame
  PROVE  Cancelled(q) \subseteq Frame /\ \A f \in Cancelled(q) : \E g \in q : Same(f, g)
  BY DEF Cancelled, Frame, Same

\* An acknowledgement changes no number either.
LEMMA MarkedSame ==
  ASSUME TypeOK, NEW p \in Peers, NEW i
  PROVE  Marked(p, i) \subseteq Frame /\ \A f \in Marked(p, i) : \E g \in queue[p] : Same(f, g)
<1>1. queue[p] \in SUBSET Frame /\ AckedBy(p, i) \in SUBSET Frame /\ AckedBy(p, i) \subseteq queue[p]
  BY Zenon DEF TypeOK, AckedBy
<1>2. Cancelled(AckedBy(p, i)) \subseteq Frame
      /\ \A f \in Cancelled(AckedBy(p, i)) : \E g \in AckedBy(p, i) : Same(f, g)
  BY <1>1, CancelledSame, Zenon
<1>3. \A f \in queue[p] : Same(f, f)
  BY Zenon DEF Same
<1> QED  BY <1>1, <1>2, <1>3, Zenon DEF Marked

-----------------------------------------------------------------------------
(* Order.                                                                  *)

\* What is sent stays sent, and an owner that went away stays away.
Grows ==
  /\ start' = start
  /\ \A r \in Peers : sent[r] <= sent'[r] /\ (owner'[r] => owner[r])

\* A frame that has its number keeps it.
LEMMA NumbersKept ==
  ASSUME TypeOK, TypeOK', Grows, NEW r \in Peers
  PROVE  \A f : Numbers(r, f) => /\ f.n \in 1..sent'[r]
                                 /\ f.oseqno = Octet(start' + f.n - 1)
  BY DEF TypeOK, Grows, Numbers

\* Frame f has the numbers of frame g.
SameNumber(f, g) == f.n = g.n /\ f.oseqno = g.oseqno /\ f.final = g.final

\* The frames waiting for an acknowledgement keep their numbers when they are
\* marked, sent again, freed, or come from transmit_processor.
LEMMA QueueKept ==
  ASSUME TypeOK, TypeOK', Grows, FramesNumbered,
         \A r \in Peers : \A f \in queue'[r] :
            \/ \E g \in queue[r] : SameNumber(f, g)
            \/ \E j \in 1..Len(tx[r]) : SameNumber(f, tx[r][j])
  PROVE  \A r \in Peers : \A f \in queue'[r] :
            f.n \in 1..sent'[r] /\ f.oseqno = Octet(start' + f.n - 1) /\ (f.final => ~owner'[r])
<1> SUFFICES ASSUME NEW r \in Peers, NEW f \in queue'[r]
             PROVE  f.n \in 1..sent'[r] /\ f.oseqno = Octet(start' + f.n - 1) /\ (f.final => ~owner'[r])
  OBVIOUS
<1>1. \E g : SameNumber(f, g) /\ Numbers(r, g) /\ (g.final => ~owner[r])
  BY Zenon DEF FramesNumbered
<1>2. PICK g : SameNumber(f, g) /\ Numbers(r, g) /\ (g.final => ~owner[r])
  BY <1>1, Zenon
<1>3. g.n \in 1..sent'[r] /\ g.oseqno = Octet(start' + g.n - 1) /\ (g.final => ~owner'[r])
  BY <1>2, NumbersKept, Zenon DEF Grows
<1> QED  BY <1>2, <1>3, Zenon DEF SameNumber

\* So do the frames transmit_processor has yet to send.
LEMMA TxKept ==
  ASSUME TypeOK, TypeOK', Grows, FramesNumbered,
         \A r \in Peers : \A j \in 1..Len(tx'[r]) : \E k \in 1..Len(tx[r]) : tx'[r][j] = tx[r][k]
  PROVE  \A r \in Peers : \A j \in 1..Len(tx'[r]) :
            /\ tx'[r][j].n \in 1..sent'[r]
            /\ tx'[r][j].oseqno = Octet(start' + tx'[r][j].n - 1)
            /\ tx'[r][j].final => ~owner'[r]
<1> SUFFICES ASSUME NEW r \in Peers, NEW j \in 1..Len(tx'[r])
             PROVE  /\ tx'[r][j].n \in 1..sent'[r]
                    /\ tx'[r][j].oseqno = Octet(start' + tx'[r][j].n - 1)
                    /\ tx'[r][j].final => ~owner'[r]
  OBVIOUS
<1>1. PICK k \in 1..Len(tx[r]) : tx'[r][j] = tx[r][k]
  OBVIOUS
<1>2. Numbers(r, tx[r][k]) /\ (tx[r][k].final => ~owner[r])
  BY Zenon DEF FramesNumbered
<1> QED  BY <1>1, <1>2, NumbersKept, Zenon DEF Grows

\* And the packets, when end p adds those of ms to what the other end may get.
LEMMA PacketsKept ==
  ASSUME TypeOK, TypeOK', Grows, PacketsNumbered, NEW p \in Peers, NEW ms,
         \A m \in ms : Numbered(m) => Numbers(p, m),
         \A r \in Peers : \A m \in net'[r] : m \in net[r] \/ (r = Other(p) /\ m \in ms),
         \A r \in Peers : reading'[r] \in net[r] \cup {reading[r], NoPacket}
  PROVE  PacketsNumbered'
<1> SUFFICES ASSUME NEW r \in Peers, NEW m \in net'[r] \cup {reading'[r]}, Numbered(m)
             PROVE  m.n \in 1..sent'[Other(r)] /\ m.oseqno = Octet(start' + m.n - 1)
  BY Zenon DEF PacketsNumbered, Numbers, Numbered
<1>1. ~Numbered(NoPacket)
  BY Zenon DEF Numbered, NoPacket
<1>2. Numbers(Other(r), m)
  BY <1>1, OtherEnd DEF PacketsNumbered
<1> QED  BY <1>2, NumbersKept, OtherEnd, Zenon

\* Nothing is added: they are those that were there.
LEMMA PacketsStay ==
  ASSUME TypeOK, TypeOK', Grows, PacketsNumbered, net' = net,
         \A r \in Peers : reading'[r] \in net[r] \cup {reading[r], NoPacket}
  PROVE  PacketsNumbered'
<1> DEFINE ms == {}
<1>1. 0 \in Peers
  BY Zenon DEF Peers
<1>2. \A m \in ms : Numbered(m) => Numbers(0, m)
  OBVIOUS
<1>3. \A r \in Peers : \A m \in net'[r] : m \in net[r] \/ (r = Other(0) /\ m \in ms)
  OBVIOUS
<1> HIDE DEF ms
<1> QED  BY <1>1, <1>2, <1>3, PacketsKept, Zenon

\* An end that is given nothing was given what it should.
LEMMA OrderStays ==
  ASSUME TypeOK, TypeOK', Grows, InOrderOnce, delivered' = delivered
  PROVE  InOrderOnce'
<1> SUFFICES ASSUME NEW r \in Peers
             PROVE  /\ Len(delivered[r]) <= sent'[Other(r)]
                    /\ \A i \in 1..Len(delivered[r]) : delivered[r][i] = i
  BY Zenon DEF InOrderOnce
<1>1. Other(r) \in Peers
  BY OtherEnd, Zenon
<1>2. Len(delivered[r]) \in Nat /\ sent[Other(r)] \in Nat /\ sent'[Other(r)] \in Nat
  BY <1>1 DEF TypeOK
<1>3. Len(delivered[r]) <= sent[Other(r)] /\ sent[Other(r)] <= sent'[Other(r)]
  BY <1>1, Zenon DEF InOrderOnce, Grows
<1>4. \A i \in 1..Len(delivered[r]) : delivered[r][i] = i
  BY Zenon DEF InOrderOnce
<1> QED  BY <1>2, <1>3, <1>4

\* The bound on what an end sends.
LEMMA MaxSendsType ==
  ASSUME NEW p \in Peers
  PROVE  MaxSends[p + 1] \in 0..254
  BY Iax2Constants DEF Peers

\* iax2_write and the HANGUP of iax2_hangup: a frame with the next number.
LEMMA SendType ==
  ASSUME TypeOK, NEW p \in Peers, NEW final \in BOOLEAN, NEW i \in Octets, iax2_send(p, final, i)
  PROVE  /\ tx' \in [Peers -> Seq(Frame)] /\ oseqno' \in [Peers -> Octets]
         /\ aseqno' \in [Peers -> Octets] /\ sent' \in [Peers -> Nat]
<1>1. [n |-> sent[p] + 1, oseqno |-> oseqno[p], iseqno |-> i, final |-> final, retries |-> 0] \in Frame
  BY DEF TypeOK, Frame
<1>2. tx' \in [Peers -> Seq(Frame)]
  <2> DEFINE f == [n |-> sent[p] + 1, oseqno |-> oseqno[p], iseqno |-> i, final |-> final, retries |-> 0]
  <2>1. tx' = [tx EXCEPT ![p] = Append(tx[p], f)] /\ tx \in [Peers -> Seq(Frame)] /\ f \in Frame
    BY <1>1, Zenon DEF TypeOK, iax2_send
  <2> HIDE DEF f
  <2> QED  BY <2>1
<1>3. oseqno' \in [Peers -> Octets]
  <2>1. oseqno' = [oseqno EXCEPT ![p] = Octet(oseqno[p] + 1)]
    BY Zenon DEF iax2_send
  <2>2. oseqno[p] \in Octets /\ oseqno \in [Peers -> Octets]
    BY Zenon DEF TypeOK
  <2>3. Octet(oseqno[p] + 1) \in Octets
    BY <2>2 DEF Octet, Octets
  <2> QED  BY <2>1, <2>2, <2>3, Zenon
<1> QED  BY <1>2, <1>3 DEF TypeOK, iax2_send

LEMMA SendCounts ==
  ASSUME TypeOK, NEW p \in Peers, NEW final, NEW i, iax2_send(p, final, i)
  PROVE  sent' = [sent EXCEPT ![p] = sent[p] + 1]
  BY Zenon DEF iax2_send

LEMMA SendOrder ==
  ASSUME InvOrder, TypeOK', Grows, NEW p \in Peers, NEW final \in BOOLEAN, NEW i \in Octets,
         iax2_send(p, final, i), final => ~owner'[p]
  PROVE  /\ \A r \in Peers : oseqno'[r] = Octet(start' + sent'[r])
         /\ \A r \in Peers : \A j \in 1..Len(tx'[r]) :
              /\ tx'[r][j].n \in 1..sent'[r]
              /\ tx'[r][j].oseqno = Octet(start' + tx'[r][j].n - 1)
              /\ tx'[r][j].final => ~owner'[r]
<1> DEFINE f == [n |-> sent[p] + 1, oseqno |-> oseqno[p], iseqno |-> i, final |-> final, retries |-> 0]
<1>1. start + sent[p] \in Nat /\ oseqno[p] = Octet(start + sent[p])
  BY DEF InvOrder, TypeOK, Bounds
<1>2. \A r \in Peers : oseqno'[r] = Octet(start' + sent'[r])
  <2> SUFFICES ASSUME NEW r \in Peers  PROVE oseqno'[r] = Octet(start' + sent'[r])
    OBVIOUS
  <2>1. CASE r = p
    <3>1. oseqno'[p] = Octet(oseqno[p] + 1) /\ sent'[p] = sent[p] + 1 /\ start' = start
      BY DEF iax2_send, InvOrder, TypeOK, Grows
    <3>2. Octet(Octet(start + sent[p]) + 1) = Octet(start + sent[p] + 1)
      BY <1>1, OctetSucc, Zenon
    <3>3. start + sent[p] + 1 = start' + sent'[p]
      BY <3>1 DEF InvOrder, TypeOK
    <3> QED  BY <1>1, <2>1, <3>1, <3>2, <3>3, Zenon
  <2>2. CASE r # p
    BY <2>2, Zenon DEF iax2_send, InvOrder, TypeOK, Bounds, Grows
  <2> QED  BY <2>1, <2>2, Zenon
<1>3. ASSUME NEW r \in Peers, NEW j \in 1..Len(tx'[r])
      PROVE  /\ tx'[r][j].n \in 1..sent'[r]
             /\ tx'[r][j].oseqno = Octet(start' + tx'[r][j].n - 1)
             /\ tx'[r][j].final => ~owner'[r]
  <2>1. CASE r = p /\ j = Len(tx[p]) + 1
    <3>1. tx'[p] = Append(tx[p], f) /\ tx[p] \in Seq(Frame) /\ sent'[p] = sent[p] + 1
      BY Zenon DEF iax2_send, InvOrder, TypeOK
    <3>2. tx'[r][j] = f
      BY <2>1, <3>1
    <3>3. f.n = sent[p] + 1 /\ f.oseqno = oseqno[p] /\ f.final = final
      OBVIOUS
    <3>4. f.oseqno = Octet(start' + f.n - 1)
      <4>1. start' = start /\ start \in Nat /\ sent[p] \in Nat
        BY Zenon DEF Grows, InvOrder, TypeOK
      <4>2. start' + (sent[p] + 1) - 1 = start + sent[p]
        BY <4>1
      <4> QED  BY <1>1, <3>3, <4>2, Zenon
    <3> HIDE DEF f
    <3> QED  BY <2>1, <3>1, <3>2, <3>3, <3>4 DEF InvOrder, TypeOK
  <2>2. CASE ~(r = p /\ j = Len(tx[p]) + 1)
    <3>1. j \in 1..Len(tx[r]) /\ tx'[r][j] = tx[r][j]
      <4>1. tx' = [tx EXCEPT ![p] = Append(tx[p], f)] /\ tx \in [Peers -> Seq(Frame)]
        BY Zenon DEF iax2_send, InvOrder, TypeOK
      <4> HIDE DEF f
      <4> QED  BY <2>2, <4>1
    <3>2. Numbers(r, tx[r][j]) /\ (tx[r][j].final => ~owner[r])
      BY <3>1, Zenon DEF InvOrder, FramesNumbered
    <3> QED  BY <3>1, <3>2, NumbersKept, Zenon DEF InvOrder, Grows
  <2> QED  BY <2>1, <2>2, Zenon
<1> QED  BY <1>2, <1>3, Zenon

\* send_packet adds nothing but the packets it is given, for the other end.
LEMMA PacketsSent ==
  ASSUME TypeOK, NEW p \in Peers, NEW ms \in SUBSET Packet, send_packet(p, ms)
  PROVE  /\ net' \in [Peers -> SUBSET Packet]
         /\ \A r \in Peers : \A m \in net'[r] : m \in net[r] \/ (r = Other(p) /\ m \in ms)
  BY OtherEnd, Zenon DEF TypeOK, send_packet

\* A frame goes on the wire under its own number.
LEMMA WireNumbers ==
  ASSUME NEW p \in Peers, NEW f \in Frame
  PROVE  /\ OnWire(f) \in Packet
         /\ OnWire(f).iseqno = f.iseqno
         /\ Numbers(p, f) => Numbers(p, OnWire(f))
  BY Zenon DEF OnWire, Frame, Packet, Kinds, Numbers

\* iax2_destroy keeps the call exactly while it has an owner.
LEMMA DestroyFacts ==
  ASSUME TypeOK, Bounds, NEW p \in Peers, NEW q \in SUBSET Frame, iax2_destroy(p, q), owner' = owner,
         \A f \in q : \E g \in queue[p] : Same(f, g)
  PROVE  /\ known' \in [Peers -> BOOLEAN] /\ iaxs' \in [Peers -> BOOLEAN]
         /\ prodded' \in [Peers -> BOOLEAN] /\ queue' \in [Peers -> SUBSET Frame]
         /\ \A r \in Peers : owner'[r] => iaxs'[r]
         /\ \A r \in Peers : iaxs'[r] => iaxs[r]
         /\ iaxs'[p] => owner[p]
         /\ \A r \in Peers : \A f \in queue'[r] : \E g \in queue[r] : Same(f, g)
<1>1. /\ known' \in [Peers -> BOOLEAN] /\ iaxs' \in [Peers -> BOOLEAN]
      /\ prodded' \in [Peers -> BOOLEAN]
  BY Zenon DEF TypeOK, iax2_destroy
<1>2. /\ \A r \in Peers : owner'[r] => iaxs'[r]
      /\ \A r \in Peers : iaxs'[r] => iaxs[r]
      /\ iaxs'[p] => owner[p]
  BY Zenon DEF TypeOK, Bounds, iax2_destroy
<1>3. Cancelled(q) \subseteq Frame /\ \A f \in Cancelled(q) : \E g \in q : Same(f, g)
  BY CancelledSame, Zenon
<1>4. \A f, g, h : Same(f, g) /\ Same(g, h) => Same(f, h)
  BY Zenon DEF Same
<1>5. \A f : Same(f, f)
  BY Zenon DEF Same
<1>6. queue' = [queue EXCEPT ![p] = IF owner[p] THEN q ELSE Cancelled(q)]
  BY Zenon DEF iax2_destroy
<1>7. queue' \in [Peers -> SUBSET Frame]
  BY <1>3, <1>6, Zenon DEF TypeOK
<1>8. ASSUME NEW r \in Peers, NEW f \in queue'[r]  PROVE \E g \in queue[r] : Same(f, g)
  <2>1. CASE r = p
    BY <2>1, <1>3, <1>4, <1>6, Zenon DEF TypeOK
  <2>2. CASE r # p
    BY <2>2, <1>5, <1>6, Zenon DEF TypeOK
  <2> QED  BY <2>1, <2>2, Zenon
<1> QED  BY <1>1, <1>2, <1>7, <1>8, Zenon

\* A frame is the same frame as itself, with the same number.
LEMMA SameGivesNumber ==
  /\ \A f : Same(f, f) /\ SameNumber(f, f)
  /\ \A f, g : Same(f, g) => SameNumber(f, g)
  BY Zenon DEF Same, SameNumber

LEMMA WriteOrder ==
  ASSUME InvOrder, NEW p \in Peers, iax2_write(p)
  PROVE  InvOrder'
<1> USE DEF InvOrder
<1>1. iseqno[p] \in Octets /\ iax2_send(p, FALSE, iseqno[p])
  BY Zenon DEF TypeOK, iax2_write
<1>2. TypeOK'
  BY <1>1, SendType, Zenon DEF TypeOK, iax2_write, pvt
<1>3. Grows
  BY <1>1 DEF Grows, TypeOK, iax2_write, iax2_send, pvt
<1>4. /\ \A r \in Peers : oseqno'[r] = Octet(start' + sent'[r])
      /\ \A r \in Peers : \A j \in 1..Len(tx'[r]) :
              /\ tx'[r][j].n \in 1..sent'[r]
              /\ tx'[r][j].oseqno = Octet(start' + tx'[r][j].n - 1)
              /\ tx'[r][j].final => ~owner'[r]
  BY <1>1, <1>2, <1>3, SendOrder, Zenon
<1>5. \A r \in Peers : \A f \in queue'[r] :
         f.n \in 1..sent'[r] /\ f.oseqno = Octet(start' + f.n - 1) /\ (f.final => ~owner'[r])
  BY <1>2, <1>3, QueueKept, SameGivesNumber, Zenon DEF iax2_write
<1>6. Bounds'
  <2>1. MaxSends[p + 1] \in Nat /\ sent' = [sent EXCEPT ![p] = sent[p] + 1] /\ owner[p]
        /\ sent[p] < MaxSends[p + 1]
    <3>1. MaxSends[p + 1] \in Nat
      BY MaxSendsType
    <3>2. sent' = [sent EXCEPT ![p] = sent[p] + 1]
      BY <1>1, SendCounts, Zenon
    <3> QED  BY <3>1, <3>2, Zenon DEF iax2_write, MayWrite
  <2>2. UNCHANGED <<owner, iaxs, iseqno, start, delivered>>
    BY Zenon DEF iax2_write, pvt
  <2>3. \A r \in Peers : sent'[r] <= MaxSends[r + 1] + 1 /\ (owner[r] => sent'[r] <= MaxSends[r + 1])
    <3>1. sent[p] \in Nat /\ sent'[p] = sent[p] + 1 /\ \A r \in Peers : r # p => sent'[r] = sent[r]
      BY <2>1, Zenon DEF TypeOK
    <3>2. sent'[p] <= MaxSends[p + 1] /\ sent'[p] <= MaxSends[p + 1] + 1
      BY <2>1, <3>1
    <3> QED  BY <3>1, <3>2, Zenon DEF Bounds
  <2> QED  BY <2>2, <2>3, <1>4, Zenon DEF Bounds
<1>7. FramesNumbered'
  BY <1>4, <1>5, Zenon DEF FramesNumbered, Numbers
<1>8. PacketsNumbered'
  <2>1. UNCHANGED <<net, reading>>
    BY Zenon DEF iax2_write
  <2> QED  BY <2>1, <1>2, <1>3, PacketsStay, Zenon
<1>9. InOrderOnce'
  <2>1. UNCHANGED delivered
    BY Zenon DEF iax2_write
  <2> QED  BY <2>1, <1>2, <1>3, OrderStays, Zenon
<1> QED  BY <1>2, <1>6, <1>7, <1>8, <1>9, Zenon

LEMMA HangupOrder ==
  ASSUME InvOrder, NEW p \in Peers, iax2_hangup(p)
  PROVE  InvOrder'
<1> USE DEF InvOrder
<1>1. /\ owner' = [owner EXCEPT ![p] = FALSE] /\ owner[p] /\ iaxs[p]
      /\ gone' = [gone EXCEPT ![p] = TRUE] /\ prodded' = [prodded EXCEPT ![p] = FALSE]
      /\ UNCHANGED <<error, iseqno, rseqno, reading, net, start, delivered, acked>>
  BY Zenon DEF iax2_hangup
<1>2. CASE gone[p]
  <2>1. /\ iaxs' = [iaxs EXCEPT ![p] = FALSE] /\ known' = [known EXCEPT ![p] = FALSE]
        /\ queue' = [queue EXCEPT ![p] = Cancelled(queue[p])]
        /\ UNCHANGED <<destroying, tx, oseqno, aseqno, sent>>
    BY <1>2, Zenon DEF iax2_hangup
  <2>2. Cancelled(queue[p]) \subseteq Frame
        /\ \A f \in Cancelled(queue[p]) : \E g \in queue[p] : Same(f, g)
    BY CancelledSame, Zenon DEF TypeOK
  <2>3. TypeOK'
    BY <1>1, <2>1, <2>2, Zenon DEF TypeOK
  <2>4. Grows
    BY <1>1, <2>1 DEF Grows, TypeOK
  <2>5. Bounds'
    BY <1>1, <2>1, MaxSendsType, Zenon DEF Bounds, TypeOK
  <2>6. \A r \in Peers : \A f \in queue'[r] : \E g \in queue[r] : SameNumber(f, g)
    BY <2>1, <2>2, SameGivesNumber, Zenon DEF TypeOK
  <2>7. FramesNumbered'
    <3>1. \A r \in Peers : \A f \in queue'[r] :
            f.n \in 1..sent'[r] /\ f.oseqno = Octet(start' + f.n - 1) /\ (f.final => ~owner'[r])
      BY <2>3, <2>4, <2>6, QueueKept, Zenon
    <3>2. \A r \in Peers : \A j \in 1..Len(tx'[r]) : \E k \in 1..Len(tx[r]) : tx'[r][j] = tx[r][k]
      BY <2>1, Zenon
    <3> QED  BY <2>3, <2>4, <3>1, <3>2, TxKept, Zenon DEF FramesNumbered, Numbers
  <2>8. PacketsNumbered'
    BY <1>1, <2>3, <2>4, PacketsStay, Zenon
  <2> QED  BY <1>1, <2>3, <2>4, <2>5, <2>7, <2>8, OrderStays, Zenon
<1>3. CASE ~gone[p] /\ error[p]
  <2>1. /\ destroying' = [destroying EXCEPT ![p] = TRUE]
        /\ UNCHANGED <<iaxs, known, queue, tx, oseqno, aseqno, sent>>
    BY <1>3, Zenon DEF iax2_hangup
  <2>3. TypeOK'
    BY <1>1, <2>1, Zenon DEF TypeOK
  <2>4. Grows
    BY <1>1, <2>1 DEF Grows, TypeOK
  <2>5. Bounds'
    BY <1>1, <2>1, MaxSendsType, Zenon DEF Bounds, TypeOK
  <2>7. FramesNumbered'
    <3>1. \A r \in Peers : \A f \in queue'[r] :
            f.n \in 1..sent'[r] /\ f.oseqno = Octet(start' + f.n - 1) /\ (f.final => ~owner'[r])
      BY <2>1, <2>3, <2>4, QueueKept, SameGivesNumber, Zenon
    <3>2. \A r \in Peers : \A j \in 1..Len(tx'[r]) : \E k \in 1..Len(tx[r]) : tx'[r][j] = tx[r][k]
      BY <2>1, Zenon
    <3> QED  BY <2>3, <2>4, <3>1, <3>2, TxKept, Zenon DEF FramesNumbered, Numbers
  <2>8. PacketsNumbered'
    BY <1>1, <2>3, <2>4, PacketsStay, Zenon
  <2> QED  BY <1>1, <2>3, <2>4, <2>5, <2>7, <2>8, OrderStays, Zenon
<1>4. CASE ~gone[p] /\ ~error[p]
  <2>1. /\ destroying' = [destroying EXCEPT ![p] = TRUE]
        /\ UNCHANGED <<iaxs, known, queue>>
        /\ iax2_send(p, TRUE, iseqno[p])
    BY <1>4, Zenon DEF iax2_hangup
  <2>2. iseqno[p] \in Octets /\ sent' = [sent EXCEPT ![p] = sent[p] + 1]
    BY <2>1, SendCounts, Zenon DEF TypeOK
  <2>3. TypeOK'
    BY <1>1, <2>1, <2>2, SendType, Zenon DEF TypeOK
  <2>4. Grows
    BY <1>1, <2>2 DEF Grows, TypeOK
  <2>5. ~owner'[p]
    BY <1>1, Zenon DEF TypeOK
  <2>6. /\ \A r \in Peers : oseqno'[r] = Octet(start' + sent'[r])
        /\ \A r \in Peers : \A j \in 1..Len(tx'[r]) :
              /\ tx'[r][j].n \in 1..sent'[r]
              /\ tx'[r][j].oseqno = Octet(start' + tx'[r][j].n - 1)
              /\ tx'[r][j].final => ~owner'[r]
    BY <2>1, <2>2, <2>3, <2>4, <2>5, SendOrder, Zenon
  <2>7. Bounds'
    <3> SUFFICES ASSUME NEW r \in Peers
                 PROVE  /\ sent'[r] <= MaxSends[r + 1] + 1
                        /\ owner'[r] => sent'[r] <= MaxSends[r + 1]
                        /\ owner'[r] => iaxs'[r]
                        /\ oseqno'[r] = Octet(start' + sent'[r])
                        /\ iaxs'[r] => iseqno'[r] = Octet(start' + Len(delivered'[r]))
      BY Zenon DEF Bounds
    <3>1. UNCHANGED <<iaxs, iseqno, start, delivered>>
      BY <1>1, <2>1, Zenon
    <3>2. CASE r = p
      <4>1. sent[p] <= MaxSends[p + 1] /\ sent'[p] = sent[p] + 1
        BY <1>1, <2>2, Zenon DEF Bounds, TypeOK
      <4>2. sent'[p] <= MaxSends[p + 1] + 1
        <5>1. sent[p] \in Nat
          BY Zenon DEF TypeOK
        <5>2. MaxSends[p + 1] \in Nat
          BY MaxSendsType
        <5> QED  BY <4>1, <5>1, <5>2
      <4>3. iaxs'[p] => iseqno'[p] = Octet(start' + Len(delivered'[p]))
        BY <3>1, Zenon DEF Bounds
      <4> QED  BY <2>5, <2>6, <3>2, <4>2, <4>3, Zenon
    <3>3. CASE r # p
      <4>1. sent'[r] = sent[r] /\ owner'[r] = owner[r]
        BY <1>1, <2>2, <3>3, Zenon DEF TypeOK
      <4> QED  BY <2>6, <3>1, <4>1, Zenon DEF Bounds
    <3> QED  BY <3>2, <3>3, Zenon
  <2>8. FramesNumbered'
    <3>1. \A r \in Peers : \A f \in queue'[r] :
            f.n \in 1..sent'[r] /\ f.oseqno = Octet(start' + f.n - 1) /\ (f.final => ~owner'[r])
      BY <2>1, <2>3, <2>4, QueueKept, SameGivesNumber, Zenon
    <3> QED  BY <3>1, <2>6, Zenon DEF FramesNumbered, Numbers
  <2>9. PacketsNumbered'
    BY <1>1, <2>3, <2>4, PacketsStay, Zenon
  <2> QED  BY <1>1, <2>3, <2>4, <2>7, <2>8, <2>9, OrderStays, Zenon
<1> QED  BY <1>2, <1>3, <1>4, Zenon

\* The bounds hold while nothing is sent or delivered.
LEMMA BoundsStay ==
  ASSUME TypeOK, Bounds, UNCHANGED <<owner, start, sent, oseqno, delivered>>,
         \A r \in Peers : (owner'[r] => iaxs'[r]) /\ (iaxs'[r] => iaxs[r] /\ iseqno'[r] = iseqno[r])
  PROVE  Bounds'
  BY Zenon DEF Bounds

\* What iax2_destroy alone does to the frames.
LEMMA DestroyOrder ==
  ASSUME InvOrder, NEW p \in Peers, NEW q \in SUBSET Frame, iax2_destroy(p, q), TypeOK',
         \A f \in q : \E g \in queue[p] : Same(f, g),
         UNCHANGED <<owner, start, sent, tx>>
  PROVE  FramesNumbered' /\ Grows
<1> USE DEF InvOrder
<1>1. \A r \in Peers : \A f \in queue'[r] : \E g \in queue[r] : Same(f, g)
  BY DestroyFacts, Zenon
<1>2. Grows
  BY DEF Grows, TypeOK
<1>3. \A r \in Peers : \A f \in queue'[r] :
        f.n \in 1..sent'[r] /\ f.oseqno = Octet(start' + f.n - 1) /\ (f.final => ~owner'[r])
  BY <1>1, <1>2, QueueKept, SameGivesNumber, Zenon
<1>4. \A r \in Peers : \A j \in 1..Len(tx'[r]) : \E k \in 1..Len(tx[r]) : tx'[r][j] = tx[r][k]
  OBVIOUS
<1> QED  BY <1>2, <1>3, <1>4, TxKept, Zenon DEF FramesNumbered, Numbers

LEMMA ScheduledDestroyOrder ==
  ASSUME InvOrder, NEW p \in Peers, scheduled_destroy(p)
  PROVE  InvOrder'
<1> USE DEF InvOrder
<1>1. /\ UNCHANGED <<owner, gone, error, oseqno, iseqno, rseqno, aseqno, tx, reading, net>>
      /\ UNCHANGED <<start, sent, delivered, acked>>
      /\ destroying' = [destroying EXCEPT ![p] = FALSE]
  BY Zenon DEF scheduled_destroy, seqnos, history
<1>2. \A f \in queue[p] : \E g \in queue[p] : Same(f, g)
  BY SameGivesNumber, Zenon
<1>3. queue[p] \in SUBSET Frame
  BY Zenon DEF TypeOK
<1>4. CASE iaxs[p]
  <2>1. iax2_destroy(p, queue[p])
    BY <1>4, Zenon DEF scheduled_destroy
  <2>2. TypeOK'
    BY <1>1, <1>2, <1>3, <2>1, DestroyFacts, Zenon DEF TypeOK
  <2>3. FramesNumbered' /\ Grows
    BY <1>1, <1>2, <1>3, <2>1, <2>2, DestroyOrder, Zenon
  <2>4. Bounds'
    BY <1>1, <1>2, <1>3, <2>1, DestroyFacts, BoundsStay, Zenon
  <2> QED  BY <1>1, <2>2, <2>3, <2>4, PacketsStay, OrderStays, Zenon
<1>5. CASE ~iaxs[p]
  <2>1. UNCHANGED <<iaxs, known, prodded, queue>>
    BY <1>5, Zenon DEF scheduled_destroy
  <2>2. TypeOK'
    BY <1>1, <2>1, Zenon DEF TypeOK
  <2> QED  BY <1>1, <2>1, <2>2, Zenon DEF Bounds, FramesNumbered, PacketsNumbered, Numbers, InOrderOnce
<1> QED  BY <1>4, <1>5, Zenon

LEMMA TransmitOrder ==
  ASSUME InvOrder, NEW p \in Peers, transmit_frame(p)
  PROVE  InvOrder'
<1> USE DEF InvOrder
<1> DEFINE f == Head(tx[p])
           g == [f EXCEPT !.retries = 1]
<1>1. /\ UNCHANGED <<iaxs, known, owner, gone, error, prodded, destroying>>
      /\ UNCHANGED <<oseqno, iseqno, rseqno, aseqno, reading>>
      /\ UNCHANGED <<start, sent, delivered, acked>>
  BY Zenon DEF transmit_frame, pvt, seqnos, history
<1>2. /\ tx[p] # <<>> /\ send_packet(p, {OnWire(f)}) /\ tx' = [tx EXCEPT ![p] = Tail(tx[p])]
      /\ queue' = [queue EXCEPT ![p] = queue[p] \cup {g}]
  BY Zenon DEF transmit_frame
<1>3. tx[p] \in Seq(Frame) /\ Len(tx[p]) > 0 /\ f = tx[p][1] /\ f \in Frame
  BY <1>2 DEF TypeOK
<1>4. g \in Frame /\ Same(g, f)
  BY <1>3 DEF Frame, Same
<1>5. Numbers(p, f)
  BY <1>3 DEF FramesNumbered
<1>6. OnWire(f) \in Packet /\ Numbers(p, OnWire(f))
  BY <1>3, <1>5, WireNumbers, Zenon
<1> HIDE DEF f, g
<1>7. TypeOK'
  <2>1. tx' \in [Peers -> Seq(Frame)]
    BY <1>2, <1>3 DEF TypeOK
  <2>2. queue' \in [Peers -> SUBSET Frame]
    BY <1>2, <1>4, Zenon DEF TypeOK
  <2>3. net' \in [Peers -> SUBSET Packet]
    BY <1>2, <1>6, PacketsSent, Zenon
  <2> QED  BY <1>1, <2>1, <2>2, <2>3, Zenon DEF TypeOK
<1>8. Grows
  BY <1>1 DEF Grows, TypeOK
<1>9. FramesNumbered'
  <2>1. \A r \in Peers : \A h \in queue'[r] :
            \/ \E k \in queue[r] : SameNumber(h, k)
            \/ \E j \in 1..Len(tx[r]) : SameNumber(h, tx[r][j])
    <3>1. SameNumber(g, tx[p][1]) /\ 1 \in 1..Len(tx[p])
      BY <1>3, <1>4, SameGivesNumber
    <3>2. \A r \in Peers : \A h \in queue'[r] : h \in queue[r] \/ (r = p /\ h = g)
      BY <1>2, Zenon DEF TypeOK
    <3> QED  BY <3>1, <3>2, SameGivesNumber, Zenon
  <2>2. \A r \in Peers : \A j \in 1..Len(tx'[r]) : \E k \in 1..Len(tx[r]) : tx'[r][j] = tx[r][k]
    <3> SUFFICES ASSUME NEW r \in Peers, NEW j \in 1..Len(tx'[r])
                 PROVE  \E k \in 1..Len(tx[r]) : tx'[r][j] = tx[r][k]
      OBVIOUS
    <3>1. CASE r = p
      BY <1>2, <1>3, <3>1 DEF TypeOK
    <3>2. CASE r # p
      BY <1>2, <3>2, Zenon DEF TypeOK
    <3> QED  BY <3>1, <3>2, Zenon
  <2> QED  BY <1>7, <1>8, <2>1, <2>2, QueueKept, TxKept, Zenon DEF FramesNumbered, Numbers
<1>10. PacketsNumbered'
  <2> DEFINE ms == {OnWire(f)}
  <2>1. \A m \in ms : Numbered(m) => Numbers(p, m)
    BY <1>6, Zenon
  <2>2. \A r \in Peers : \A m \in net'[r] : m \in net[r] \/ (r = Other(p) /\ m \in ms)
    BY <1>2, <1>6, PacketsSent, Zenon
  <2> HIDE DEF ms
  <2> QED  BY <1>1, <1>7, <1>8, <2>1, <2>2, PacketsKept, Zenon
<1>11. Bounds'
  BY <1>1, Zenon DEF Bounds
<1> QED  BY <1>1, <1>7, <1>8, <1>9, <1>10, <1>11, OrderStays, Zenon

LEMMA TimerFreesOrder ==
  ASSUME InvOrder, NEW p \in Peers, NEW f \in queue[p], TimerFrees(p, f)
  PROVE  InvOrder'
<1> USE DEF InvOrder
<1>1. /\ UNCHANGED <<iaxs, known, owner, gone, error, prodded, destroying, tx, net>>
      /\ UNCHANGED <<oseqno, iseqno, rseqno, aseqno, reading>>
      /\ UNCHANGED <<start, sent, delivered, acked>>
      /\ queue' = [queue EXCEPT ![p] = queue[p] \ {f}]
  BY Zenon DEF TimerFrees, pvt, seqnos, history
<1>2. TypeOK'
  BY <1>1, Zenon DEF TypeOK
<1>3. \A r \in Peers : queue'[r] \subseteq queue[r]
  BY <1>1, Zenon DEF TypeOK
<1>4. FramesNumbered'
  BY <1>1, <1>3, Zenon DEF FramesNumbered, Numbers
<1> QED  BY <1>1, <1>2, <1>4, Zenon DEF Bounds, PacketsNumbered, Numbers, InOrderOnce

LEMMA RetransmitsOrder ==
  ASSUME InvOrder, NEW p \in Peers, NEW f \in queue[p], TimerRetransmits(p, f)
  PROVE  InvOrder'
<1> USE DEF InvOrder
<1> DEFINE g == [f EXCEPT !.iseqno = iseqno[p], !.retries = @ + 1]
<1>1. /\ UNCHANGED <<iaxs, known, owner, gone, error, prodded, destroying, tx>>
      /\ UNCHANGED <<oseqno, iseqno, rseqno, aseqno, reading>>
      /\ UNCHANGED <<start, sent, delivered, acked>>
      /\ queue' = [queue EXCEPT ![p] = (queue[p] \ {f}) \cup {g}]
      /\ send_packet(p, {OnWire(g)})
  BY Zenon DEF TimerRetransmits, pvt, seqnos, history
<1>2. f \in Frame /\ iseqno[p] \in Octets
  BY Zenon DEF TypeOK
<1>3. g \in Frame /\ SameNumber(g, f)
  <2>1. f.retries + 1 \in Int
    BY <1>2 DEF Frame
  <2>2. g = [[f EXCEPT !.iseqno = iseqno[p]] EXCEPT !.retries = f.retries + 1]
    BY <1>2, Zenon DEF Frame
  <2> QED  BY <1>2, <2>1, <2>2, Zenon DEF Frame, SameNumber
<1>4. Numbers(p, f)
  BY Zenon DEF FramesNumbered
<1>5. Numbers(p, g)
  BY <1>3, <1>4, Zenon DEF Numbers, SameNumber
<1> HIDE DEF g
<1>6. OnWire(g) \in Packet /\ Numbers(p, OnWire(g))
  BY <1>3, <1>5, WireNumbers, Zenon
<1>7. TypeOK'
  <2>1. queue' \in [Peers -> SUBSET Frame]
    BY <1>1, <1>3, Zenon DEF TypeOK
  <2>2. net' \in [Peers -> SUBSET Packet]
    BY <1>1, <1>6, PacketsSent, Zenon
  <2> QED  BY <1>1, <2>1, <2>2, Zenon DEF TypeOK
<1>8. Grows
  BY <1>1 DEF Grows, TypeOK
<1>9. FramesNumbered'
  <2>1. \A r \in Peers : \A h \in queue'[r] : h \in queue[r] \/ (r = p /\ h = g)
    BY <1>1, Zenon DEF TypeOK
  <2>2. \A r \in Peers : \A h \in queue'[r] : \E k \in queue[r] : SameNumber(h, k)
    BY <1>3, <2>1, SameGivesNumber, Zenon
  <2>3. \A r \in Peers : \A j \in 1..Len(tx'[r]) : \E k \in 1..Len(tx[r]) : tx'[r][j] = tx[r][k]
    BY <1>1, Zenon
  <2> QED  BY <1>7, <1>8, <2>2, <2>3, QueueKept, TxKept, Zenon DEF FramesNumbered, Numbers
<1>10. PacketsNumbered'
  <2> DEFINE ms == {OnWire(g)}
  <2>1. \A m \in ms : Numbered(m) => Numbers(p, m)
    BY <1>6, Zenon
  <2>2. \A r \in Peers : \A m \in net'[r] : m \in net[r] \/ (r = Other(p) /\ m \in ms)
    BY <1>1, <1>6, PacketsSent, Zenon
  <2> HIDE DEF ms
  <2> QED  BY <1>1, <1>7, <1>8, <2>1, <2>2, PacketsKept, Zenon
<1>11. Bounds'
  BY <1>1, Zenon DEF Bounds
<1> QED  BY <1>1, <1>7, <1>8, <1>9, <1>10, <1>11, OrderStays, Zenon

LEMMA GivesUpOrder ==
  ASSUME InvOrder, NEW p \in Peers, NEW f \in queue[p], TimerGivesUp(p, f)
  PROVE  InvOrder'
<1> USE DEF InvOrder
<1> DEFINE q == queue[p] \ {f}
<1>1. /\ UNCHANGED <<owner, gone, destroying, oseqno, iseqno, rseqno, aseqno, tx, reading, net>>
      /\ UNCHANGED <<start, sent, delivered, acked>>
      /\ error' = [error EXCEPT ![p] = error[p] \/ ~f.final]
  BY Zenon DEF TimerGivesUp, seqnos, history
<1>2. error' \in [Peers -> BOOLEAN]
  BY <1>1, Zenon DEF TypeOK
<1>3. q \in SUBSET Frame /\ \A g \in q : \E h \in queue[p] : Same(g, h)
  BY SameGivesNumber, Zenon DEF TypeOK
<1>4. CASE owner[p] /\ ~f.final
  <2>1. /\ prodded' = [prodded EXCEPT ![p] = TRUE] /\ UNCHANGED <<iaxs, known>>
        /\ queue' = [queue EXCEPT ![p] = q]
    BY <1>4, Zenon DEF TimerGivesUp
  <2>2. TypeOK'
    BY <1>1, <1>2, <2>1, Zenon DEF TypeOK
  <2>3. \A r \in Peers : queue'[r] \subseteq queue[r]
    BY <2>1, Zenon DEF TypeOK
  <2>4. FramesNumbered'
    BY <1>1, <2>3, Zenon DEF FramesNumbered, Numbers
  <2> QED  BY <1>1, <2>1, <2>2, <2>4, Zenon DEF Bounds, PacketsNumbered, Numbers, InOrderOnce
<1>5. CASE ~(owner[p] /\ ~f.final)
  <2>1. iax2_destroy(p, q)
    BY <1>5, Zenon DEF TimerGivesUp
  <2> HIDE DEF q
  <2>2. TypeOK'
    BY <1>1, <1>2, <1>3, <2>1, DestroyFacts, Zenon DEF TypeOK
  <2>3. FramesNumbered' /\ Grows
    BY <1>1, <1>3, <2>1, <2>2, DestroyOrder, Zenon
  <2>4. Bounds'
    BY <1>1, <1>3, <2>1, DestroyFacts, BoundsStay, Zenon
  <2> QED  BY <1>1, <2>2, <2>3, <2>4, PacketsStay, OrderStays, Zenon
<1> QED  BY <1>4, <1>5, Zenon

LEMMA FindCallnoOrder ==
  ASSUME InvOrder, NEW p \in Peers, find_callno(p)
  PROVE  InvOrder'
<1> USE DEF InvOrder
<1>1. /\ UNCHANGED <<iaxs, known, owner, gone, error, prodded, destroying, tx, queue, net>>
      /\ UNCHANGED <<oseqno, iseqno, rseqno, aseqno>>
      /\ UNCHANGED <<start, sent, delivered, acked>>
  BY Zenon DEF find_callno, pvt, seqnos, history
<1>2. PICK m \in net[p] : reading' = [reading EXCEPT ![p] = m]
  BY Zenon DEF find_callno
<1>3. TypeOK'
  BY <1>1, <1>2, Zenon DEF TypeOK
<1>4. Grows
  BY <1>1 DEF Grows, TypeOK
<1>5. PacketsNumbered'
  BY <1>1, <1>2, <1>3, <1>4, PacketsStay, Zenon DEF TypeOK
<1> QED  BY <1>1, <1>3, <1>5, Zenon DEF Bounds, FramesNumbered, Numbers, InOrderOnce
=============================================================================
