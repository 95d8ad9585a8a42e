--------------------------- MODULE Iax2AckProofs ---------------------------
(***************************************************************************)
(* Acknowledgements of chan_iax2.c are good until the numbers of an end    *)
(* come round: the window test of socket_process compares octets as        *)
(* integers, and MCIax2Wrap shows what happens after.                      *)
(***************************************************************************)
EXTENDS Iax2OrderProofs

\* The numbers of end p have not come round.
Unwrapped(p) == start + sent[p] <= 255

\* What end p may acknowledge: no more than it was given.
MayAcknowledge(p, i) == start <= i /\ i <= start + Len(delivered[p])

Acknowledges(m) == m.kind \notin {"inval", "none"}

\* All that acknowledges frames of end p acknowledges frames that were delivered.
AckFor(p) ==
  LET q == Other(p)
  IN /\ MayAcknowledge(q, rseqno[p])
     /\ \A m \in net[p] : Acknowledges(m) => MayAcknowledge(q, m.iseqno)
     /\ Acknowledges(reading[p]) => MayAcknowledge(q, reading[p].iseqno)
     /\ \A f \in queue[q] : MayAcknowledge(q, f.iseqno)
     /\ \A j \in 1..Len(tx[q]) : MayAcknowledge(q, tx[q][j].iseqno)
     /\ \A n \in acked[p] : n <= Len(delivered[q])

InvAck == \A p \in Peers : Unwrapped(p) => AckFor(p)

\* After the step, end q may acknowledge i.
Fresh(q, i) == Unwrapped(Other(q)) => start <= i /\ i <= start + Len(delivered'[q])

\* The numbers packets and frames carry are numbers.
LEMMA Stamps ==
  /\ \A i \in Octets : i \in Nat
  /\ \A m \in Packet : m.iseqno \in Nat
  /\ NoPacket.iseqno \in Nat
  /\ \A f \in Frame : f.iseqno \in Nat
<1>1. \A i \in Octets : i \in Nat
  BY DEF Octets
<1>2. \A m \in Packet : m.iseqno \in Octets
  BY Zenon DEF Packet
<1>3. \A f \in Frame : f.iseqno \in Octets
  BY Zenon DEF Frame
<1>4. NoPacket.iseqno \in Nat
  BY Zenon DEF NoPacket
<1> QED  BY <1>1, <1>2, <1>3, <1>4, Zenon

\* A step keeps InvAck when all it adds is fresh.
LEMMA AckKept ==
  ASSUME InvOrder, InvOrder', InvAck, Grows,
         \A q \in Peers : Len(delivered[q]) <= Len(delivered'[q]),
         \A q \in Peers : rseqno'[q] = rseqno[q] \/ Fresh(Other(q), rseqno'[q]),
         \A q \in Peers : \A m \in net'[q] :
            m \in net[q] \/ ~Acknowledges(m) \/ Fresh(Other(q), m.iseqno),
         \A q \in Peers : reading'[q] \in net[q] \cup {reading[q], NoPacket},
         \A q \in Peers : \A f \in queue'[q] :
            \/ \E g \in queue[q] : f.iseqno = g.iseqno
            \/ \E j \in 1..Len(tx[q]) : f.iseqno = tx[q][j].iseqno
            \/ Fresh(q, f.iseqno),
         \A q \in Peers : \A j \in 1..Len(tx'[q]) :
            \/ \E k \in 1..Len(tx[q]) : tx'[q][j].iseqno = tx[q][k].iseqno
            \/ Fresh(q, tx'[q][j].iseqno),
         \A q \in Peers : \A n \in acked'[q] :
            n \in acked[q] \/ (Unwrapped(q) => n <= Len(delivered'[Other(q)]))
  PROVE  InvAck'
<1> SUFFICES ASSUME NEW p \in Peers, start' + sent'[p] <= 255
             PROVE  AckFor(p)'
  BY Zenon DEF InvAck, Unwrapped
<1> DEFINE q == Other(p)
           Good(i) == start <= i /\ i <= start + Len(delivered[q])
           Good1(i) == start <= i /\ i <= start + Len(delivered'[q])
<1>1. q \in Peers /\ Other(q) = p
  BY OtherEnd, Zenon
<1>2. start' = start /\ start \in Nat /\ sent[p] \in Nat /\ sent'[p] \in Nat /\ sent[p] <= sent'[p]
      /\ Len(delivered[q]) \in Nat /\ Len(delivered'[q]) \in Nat
      /\ Len(delivered[q]) <= Len(delivered'[q])
  BY <1>1 DEF InvOrder, TypeOK, Grows
<1>3. Unwrapped(p) /\ AckFor(p)
  BY <1>2 DEF Unwrapped, InvAck
<1>4. \A i \in Nat : Good(i) => Good1(i)
  BY <1>2
<1>5. \A i : Fresh(q, i) => Good1(i)
  BY <1>1, <1>3, Zenon DEF Fresh
<1>6. /\ Good(rseqno[p]) /\ rseqno[p] \in Nat
      /\ \A m \in net[p] : m.iseqno \in Nat /\ (Acknowledges(m) => Good(m.iseqno))
      /\ Acknowledges(reading[p]) => Good(reading[p].iseqno)
      /\ reading[p].iseqno \in Nat
      /\ \A f \in queue[q] : f.iseqno \in Nat /\ Good(f.iseqno)
      /\ \A j \in 1..Len(tx[q]) : tx[q][j].iseqno \in Nat /\ Good(tx[q][j].iseqno)
      /\ \A n \in acked[p] : n \in Nat /\ n <= Len(delivered[q])
  <2>1. rseqno[p] \in Nat
    BY Stamps, Zenon DEF InvOrder, TypeOK
  <2>2. \A m \in net[p] : m.iseqno \in Nat
    BY Stamps, Zenon DEF InvOrder, TypeOK
  <2>3. reading[p].iseqno \in Nat
    BY Stamps, Zenon DEF InvOrder, TypeOK
  <2>4. \A f \in queue[q] : f.iseqno \in Nat
    BY <1>1, Stamps, Zenon DEF InvOrder, TypeOK
  <2>5. \A j \in 1..Len(tx[q]) : tx[q][j].iseqno \in Nat
    <3>1. \A j \in 1..Len(tx[q]) : tx[q][j] \in Frame
      <4>1. tx[q] \in Seq(Frame)
        BY <1>1, Zenon DEF InvOrder, TypeOK
      <4> QED  BY <4>1
    <3> QED  BY <3>1, Stamps, Zenon
  <2>6. \A n \in acked[p] : n \in Nat
    BY Zenon DEF InvOrder, TypeOK
  <2> QED  BY <1>3, <2>1, <2>2, <2>3, <2>4, <2>5, <2>6, Zenon DEF AckFor, MayAcknowledge
<1> HIDE DEF q, Good, Good1
<1>7. Good1(rseqno'[p])
  BY <1>4, <1>5, <1>6, Zenon DEF q
<1>8. \A m \in net'[p] : Acknowledges(m) => Good1(m.iseqno)
  BY <1>4, <1>5, <1>6, Zenon DEF q
<1>9. Acknowledges(reading'[p]) => Good1(reading'[p].iseqno)
  <2>1. ~Acknowledges(NoPacket)
    BY Zenon DEF Acknowledges, NoPacket
  <2> QED  BY <1>4, <1>6, <2>1, Zenon
<1>10. \A f \in queue'[q] : Good1(f.iseqno)
  BY <1>1, <1>4, <1>5, <1>6, Zenon
<1>11. \A j \in 1..Len(tx'[q]) : Good1(tx'[q][j].iseqno)
  BY <1>1, <1>4, <1>5, <1>6, Zenon
<1>12. \A n \in acked'[p] : n <= Len(delivered'[q])
  <2> SUFFICES ASSUME NEW n \in acked'[p]  PROVE n <= Len(delivered'[q])
    OBVIOUS
  <2>1. CASE n \in acked[p]
    <3>1. n \in Nat /\ n <= Len(delivered[q])
      BY <1>6, <2>1, Zenon
    <3> QED  BY <1>2, <3>1
  <2>2. CASE n \notin acked[p]
    BY <1>3, <2>2, Zenon DEF q
  <2> QED  BY <2>1, <2>2, Zenon
<1>13. \A i : Good1(i) => start' <= i /\ i <= start' + Len(delivered'[q])
  BY <1>2, Zenon DEF Good1
<1> QED  BY <1>7, <1>8, <1>9, <1>10, <1>11, <1>12, <1>13, Zenon DEF AckFor, MayAcknowledge, Acknowledges, q

-----------------------------------------------------------------------------
(* What is acknowledged, and what an acknowledgement covers.               *)

\* The number an end expects acknowledges no more than it was given.
LEMMA ExpectedFresh ==
  ASSUME InvOrder, NEW p \in Peers, iaxs[p], Unwrapped(Other(p))
  PROVE  MayAcknowledge(p, iseqno[p])
<1> DEFINE d == Len(delivered[p])
           s == sent[Other(p)]
<1>1. start \in Nat /\ d \in Nat /\ s \in Nat
  BY OtherEnd DEF InvOrder, TypeOK
<1>2. d <= s /\ start + s <= 255
  BY Zenon DEF InvOrder, InOrderOnce, Unwrapped
<1>3. iseqno[p] = Octet(start + d)
  BY Zenon DEF InvOrder, Bounds
<1> HIDE DEF d, s
<1>4. Octet(start + d) = start + d
  BY <1>1, <1>2 DEF Octet
<1> QED  BY <1>1, <1>3, <1>4 DEF MayAcknowledge, d

\* Nor does the number it expects once it was given the next frame.
LEMMA NextFresh ==
  ASSUME InvOrder, NEW p \in Peers, iaxs[p], Numbered(reading[p]), ~OutOfOrder(p, reading[p]),
         delivered' = [delivered EXCEPT ![p] = Append(delivered[p], reading[p].n)]
  PROVE  /\ Fresh(p, Octet(iseqno[p] + 1))
         /\ \A q \in Peers : Len(delivered[q]) <= Len(delivered'[q])
<1> DEFINE d == Len(delivered[p])
           s == sent[Other(p)]
<1>1. start \in Nat /\ d \in Nat /\ s \in Nat /\ delivered[p] \in Seq(Nat)
  BY OtherEnd DEF InvOrder, TypeOK
<1>2. d + 1 <= s /\ Octet(iseqno[p] + 1) = Octet(start + d + 1) /\ reading[p].n = d + 1
  BY NextFrame, Zenon
<1>3. delivered'[p] = Append(delivered[p], reading[p].n)
      /\ \A q \in Peers : q # p => delivered'[q] = delivered[q]
  BY Zenon DEF InvOrder, TypeOK
<1>4. reading[p].n \in Nat
  BY <1>1, <1>2
<1>5. Len(delivered'[p]) = d + 1
  BY <1>1, <1>3, <1>4
<1>6. ASSUME NEW q \in Peers  PROVE Len(delivered[q]) <= Len(delivered'[q])
  <2>1. CASE q = p
    BY <1>1, <1>5, <2>1
  <2>2. CASE q # p
    BY <1>3, <2>2 DEF InvOrder, TypeOK
  <2> QED  BY <2>1, <2>2, Zenon
<1>7. ASSUME Unwrapped(Other(p))  PROVE start + s <= 255
  BY <1>7, Zenon DEF Unwrapped
<1> HIDE DEF d, s
<1>8. ASSUME Unwrapped(Other(p))  PROVE Octet(start + d + 1) = start + d + 1
  <2>1. start + s <= 255
    BY <1>7, <1>8, Zenon
  <2> QED  BY <1>1, <1>2, <2>1 DEF Octet
<1>9. Fresh(p, Octet(iseqno[p] + 1))
  BY <1>1, <1>2, <1>5, <1>8 DEF Fresh
<1> QED  BY <1>6, <1>9, Zenon

\* The window test: while the numbers have not come round, what an end has
\* acknowledged covers no frame that the end was not given.
LEMMA CoversDelivered ==
  ASSUME InvOrder, InvAck, NEW p \in Peers, Unwrapped(p), NEW i \in Octets, MayAcknowledge(Other(p), i),
         NEW f \in AckedBy(p, i)
  PROVE  f.n <= Len(delivered[Other(p)])
<1> DEFINE d == Len(delivered[Other(p)])
           s == sent[p]
           r == rseqno[p]
           o == oseqno[p]
<1>1. /\ start \in Nat /\ d \in Nat /\ s \in Nat /\ start + s <= 255 /\ r \in Octets
      /\ start <= i /\ i <= start + d /\ start <= r /\ r <= start + d
  BY OtherEnd DEF InvOrder, TypeOK, Unwrapped, MayAcknowledge, InvAck, AckFor
<1>2. d <= s
  BY OtherEnd, Zenon DEF InvOrder, InOrderOnce
<1>3. o = Octet(start + s)
  BY Zenon DEF InvOrder, Bounds
<1>4. f \in queue[p] /\ InWindow(p, i) /\ Covered(p, i, f.oseqno)
  BY Zenon DEF AckedBy
<1>5. f.n \in 1..s /\ f.oseqno = Octet(start + f.n - 1)
  BY <1>4, Zenon DEF InvOrder, FramesNumbered, Numbers
<1>6. (r >= o \/ (i >= r /\ i < o)) \/ o = i
  BY <1>4, Zenon DEF InWindow
<1>7. Octet(f.oseqno - r) < Octet(i - r)
  BY <1>4, Zenon DEF Covered
<1> DEFINE n == f.n
           x == f.oseqno
<1> HIDE DEF d, s, r, o, n, x
<1>8. o = start + s
  BY <1>1, <1>3 DEF Octet
<1>9. n \in Nat /\ 1 <= n /\ n <= s /\ x = start + n - 1
  <2>1. n \in Nat /\ 1 <= n /\ n <= s
    BY <1>1, <1>5 DEF n
  <2>2. x = Octet(start + n - 1)
    BY <1>5, Zenon DEF x, n
  <2> QED  BY <1>1, <2>1, <2>2 DEF Octet
<1>10. r \in Nat /\ r <= 255 /\ i \in Nat /\ i <= 255
  BY <1>1 DEF Octets
<1>11. (x - r) % 256 < (i - r) % 256
  BY <1>7, Zenon DEF Octet, x
<1>12. CASE r <= i
  <2>1. (i - r) % 256 = i - r
    BY <1>10, <1>12
  <2>2. x >= r => (x - r) % 256 = x - r
    BY <1>1, <1>9, <1>10
  <2>3. x < i
    BY <1>1, <1>9, <1>10, <1>11, <1>12, <2>1, <2>2
  <2>4. n <= d
    BY <1>1, <1>9, <1>10, <2>3
  <2> QED  BY <2>4, Zenon DEF n, d
<1>13. CASE i < r
  <2>1. r = o
    BY <1>1, <1>2, <1>6, <1>8, <1>10, <1>13
  <2>2. d = s
    BY <1>1, <1>2, <1>8, <2>1
  <2>3. n <= d
    BY <1>1, <1>9, <2>2, Zenon
  <2> QED  BY <2>3, Zenon DEF n, d
<1> QED  BY <1>10, <1>12, <1>13

\* An acknowledgement that is noted: window and history stay good.
LEMMA NotedFresh ==
  ASSUME InvOrder, InvAck, NEW p \in Peers, Processes(p), Acknowledges(reading[p]),
         \A q \in Peers : Len(delivered[q]) <= Len(delivered'[q]), TypeOK'
  PROVE  /\ NoteAcked(p, reading[p].iseqno) =>
              \A q \in Peers : \A n \in acked'[q] :
                 n \in acked[q] \/ (Unwrapped(q) => n <= Len(delivered'[Other(q)]))
         /\ NoteWindow(p, reading[p].iseqno) =>
              \A q \in Peers : rseqno'[q] = rseqno[q] \/ Fresh(Other(q), rseqno'[q])
<1> DEFINE i == reading[p].iseqno
           o == Other(p)
<1>1. i \in Octets
  BY ReadingFacts, Zenon DEF InvOrder, Packet
<1>2. o \in Peers /\ Other(o) = p
  BY OtherEnd, Zenon
<1>3. Unwrapped(p) => MayAcknowledge(o, i)
  BY Zenon DEF InvAck, AckFor
<1>4. /\ start \in Nat /\ Len(delivered[o]) \in Nat /\ Len(delivered'[o]) \in Nat
      /\ Len(delivered[o]) <= Len(delivered'[o])
  BY <1>2 DEF InvOrder, TypeOK
<1>5. Fresh(o, i)
  BY <1>1, <1>2, <1>3, <1>4, Stamps DEF Fresh, MayAcknowledge
<1>6. ASSUME NoteAcked(p, i), NEW q \in Peers, NEW n \in acked'[q], n \notin acked[q], Unwrapped(q)
      PROVE  n <= Len(delivered'[Other(q)])
  <2>1. q = p /\ \E f \in AckedBy(p, i) : n = f.n
    BY <1>6, Zenon DEF NoteAcked, InvOrder, TypeOK
  <2>2. PICK f \in AckedBy(p, i) : n = f.n
    BY <2>1, Zenon
  <2>3. n <= Len(delivered[o])
    BY <1>1, <1>3, <1>6, <2>1, <2>2, CoversDelivered, Zenon
  <2>4. n \in Nat
    BY <1>6, <2>1, Zenon DEF TypeOK
  <2> QED  BY <1>4, <2>1, <2>3, <2>4
<1>7. ASSUME NoteWindow(p, i), NEW q \in Peers  PROVE rseqno'[q] = rseqno[q] \/ Fresh(Other(q), rseqno'[q])
  <2>1. rseqno' = [rseqno EXCEPT ![p] = IF InWindow(p, i) THEN i ELSE rseqno[p]]
    BY <1>7, Zenon DEF NoteWindow
  <2>2. CASE q # p
    BY <2>1, <2>2, Zenon DEF InvOrder, TypeOK
  <2>3. CASE q = p
    <3>1. rseqno'[p] = i \/ rseqno'[p] = rseqno[p]
      BY <2>1, Zenon DEF InvOrder, TypeOK
    <3> QED  BY <1>5, <2>3, <3>1, Zenon
  <2> QED  BY <2>2, <2>3, Zenon
<1> QED  BY <1>6, <1>7, Zenon

\* A step that adds nothing which acknowledges.
LEMMA AckQuiet ==
  ASSUME InvOrder, InvOrder', InvAck, UNCHANGED <<start, sent, delivered, rseqno, net, tx, acked>>,
         \A q \in Peers : owner'[q] => owner[q],
         \A q \in Peers : reading'[q] \in net[q] \cup {reading[q], NoPacket},
         \A q \in Peers : \A f \in queue'[q] : \E g \in queue[q] : f.iseqno = g.iseqno
  PROVE  InvAck'
<1>1. Grows
  BY DEF Grows, InvOrder, TypeOK
<1>2. \A q \in Peers : Len(delivered[q]) <= Len(delivered'[q])
  BY DEF InvOrder, TypeOK
<1>3. \A q \in Peers : \A j \in 1..Len(tx'[q]) : \E k \in 1..Len(tx[q]) : tx'[q][j].iseqno = tx[q][k].iseqno
  OBVIOUS
<1> QED  BY <1>1, <1>2, <1>3, AckKept, Zenon

\* iax2_destroy, the timer and the marks of an acknowledgement leave the stamps.
LEMMA SameStamp ==
  /\ \A f, g : Same(f, g) => f.iseqno = g.iseqno
  /\ \A f : Same(f, f)
  BY Zenon DEF Same

LEMMA DestroyAck ==
  ASSUME InvOrder, NEW p \in Peers, NEW q \in SUBSET Frame, iax2_destroy(p, q), owner' = owner,
         \A f \in q : \E g \in queue[p] : Same(f, g)
  PROVE  \A r \in Peers : \A f \in queue'[r] : \E g \in queue[r] : f.iseqno = g.iseqno
  BY DestroyFacts, SameStamp DEF InvOrder

LEMMA MarkedAck ==
  ASSUME InvOrder, NEW p \in Peers, NEW i, queue' = [queue EXCEPT ![p] = Marked(p, i)]
  PROVE  \A r \in Peers : \A f \in queue'[r] : \E g \in queue[r] : f.iseqno = g.iseqno
<1>1. \A f \in Marked(p, i) : \E g \in queue[p] : Same(f, g)
  BY MarkedSame, Zenon DEF InvOrder
<1> QED  BY <1>1, SameStamp, Zenon DEF InvOrder, TypeOK

\* A frame that is sent is stamped with what its sender expects.
LEMMA SendAck ==
  ASSUME InvOrder, NEW p \in Peers, NEW final, NEW i, iax2_send(p, final, i), Fresh(p, i)
  PROVE  \A q \in Peers : \A j \in 1..Len(tx'[q]) :
            \/ \E k \in 1..Len(tx[q]) : tx'[q][j].iseqno = tx[q][k].iseqno
            \/ Fresh(q, tx'[q][j].iseqno)
<1> DEFINE f == [n |-> sent[p] + 1, oseqno |-> oseqno[p], iseqno |-> i, final |-> final, retries |-> 0]
<1>1. tx' = [tx EXCEPT ![p] = Append(tx[p], f)] /\ tx \in [Peers -> Seq(Frame)]
  BY Zenon DEF iax2_send, InvOrder, TypeOK
<1>2. f.iseqno = i
  OBVIOUS
<1> HIDE DEF f
<1> SUFFICES ASSUME NEW q \in Peers, NEW j \in 1..Len(tx'[q])
             PROVE  \/ \E k \in 1..Len(tx[q]) : tx'[q][j].iseqno = tx[q][k].iseqno
                    \/ Fresh(q, tx'[q][j].iseqno)
  OBVIOUS
<1>3. CASE q = p /\ j = Len(tx[p]) + 1
  <2>1. tx'[q][j] = f
    BY <1>1, <1>3
  <2> QED  BY <1>2, <1>3, <2>1, Zenon
<1>4. CASE ~(q = p /\ j = Len(tx[p]) + 1)
  <2>1. j \in 1..Len(tx[q]) /\ tx'[q][j] = tx[q][j]
    BY <1>1, <1>4
  <2> QED  BY <2>1, Zenon
<1> QED  BY <1>3, <1>4, Zenon

LEMMA ExpectedFreshStill ==
  ASSUME InvOrder, NEW p \in Peers, iaxs[p], delivered' = delivered
  PROVE  Fresh(p, iseqno[p])
  BY ExpectedFresh, Zenon DEF Fresh, MayAcknowledge

-----------------------------------------------------------------------------
(* The actions.                                                            *)

LEMMA WriteAck ==
  ASSUME InvOrder, InvOrder', InvAck, NEW p \in Peers, iax2_write(p)
  PROVE  InvAck'
<1>1. /\ iax2_send(p, FALSE, iseqno[p]) /\ iaxs[p]
      /\ UNCHANGED <<owner, rseqno, queue, reading, net, start, delivered, acked>>
  BY Zenon DEF iax2_write, pvt
<1>2. sent' = [sent EXCEPT ![p] = sent[p] + 1]
  BY <1>1, SendCounts, Zenon DEF InvOrder
<1>3. Grows /\ \A q \in Peers : Len(delivered[q]) <= Len(delivered'[q])
  BY <1>1, <1>2 DEF Grows, InvOrder, TypeOK
<1>4. \A q \in Peers : \A j \in 1..Len(tx'[q]) :
            \/ \E k \in 1..Len(tx[q]) : tx'[q][j].iseqno = tx[q][k].iseqno
            \/ Fresh(q, tx'[q][j].iseqno)
  BY <1>1, ExpectedFreshStill, SendAck, Zenon
<1> QED  BY <1>1, <1>3, <1>4, AckKept, Zenon

LEMMA HangupAck ==
  ASSUME InvOrder, InvOrder', InvAck, NEW p \in Peers, iax2_hangup(p)
  PROVE  InvAck'
<1>1. /\ owner' = [owner EXCEPT ![p] = FALSE] /\ iaxs[p]
      /\ UNCHANGED <<rseqno, reading, net, start, delivered, acked>>
  BY Zenon DEF iax2_hangup
<1>2. \A q \in Peers : owner'[q] => owner[q]
  BY <1>1, Zenon DEF InvOrder, TypeOK
<1>3. CASE gone[p]
  <2>1. queue' = [queue EXCEPT ![p] = Cancelled(queue[p])] /\ UNCHANGED <<tx, sent>>
    BY <1>3, Zenon DEF iax2_hangup
  <2>2. \A f \in Cancelled(queue[p]) : \E g \in queue[p] : Same(f, g)
    BY CancelledSame, Zenon DEF InvOrder, TypeOK
  <2>3. \A q \in Peers : \A f \in queue'[q] : \E g \in queue[q] : f.iseqno = g.iseqno
    <3>1. queue'[p] = Cancelled(queue[p]) /\ \A q \in Peers : q # p => queue'[q] = queue[q]
      BY <2>1, Zenon DEF InvOrder, TypeOK
    <3> QED  BY <2>2, <3>1, SameStamp, Zenon
  <2> QED  BY <1>1, <1>2, <2>1, <2>3, AckQuiet, Zenon
<1>4. CASE ~gone[p] /\ error[p]
  <2>1. UNCHANGED <<queue, tx, sent>>
    BY <1>4, Zenon DEF iax2_hangup
  <2> QED  BY <1>1, <1>2, <2>1, AckQuiet, Zenon
<1>5. CASE ~gone[p] /\ ~error[p]
  <2>1. iax2_send(p, TRUE, iseqno[p]) /\ UNCHANGED queue
    BY <1>5, Zenon DEF iax2_hangup
  <2>2. sent' = [sent EXCEPT ![p] = sent[p] + 1]
    BY <2>1, SendCounts, Zenon DEF InvOrder
  <2>3. Grows /\ \A q \in Peers : Len(delivered[q]) <= Len(delivered'[q])
    BY <1>1, <1>2, <2>2 DEF Grows, InvOrder, TypeOK
  <2>4. \A q \in Peers : \A j \in 1..Len(tx'[q]) :
            \/ \E k \in 1..Len(tx[q]) : tx'[q][j].iseqno = tx[q][k].iseqno
            \/ Fresh(q, tx'[q][j].iseqno)
    BY <1>1, <2>1, ExpectedFreshStill, SendAck, Zenon
  <2> QED  BY <1>1, <2>1, <2>3, <2>4, AckKept, Zenon
<1> QED  BY <1>3, <1>4, <1>5, Zenon

LEMMA ScheduledDestroyAck ==
  ASSUME InvOrder, InvOrder', InvAck, NEW p \in Peers, scheduled_destroy(p)
  PROVE  InvAck'
<1>1. UNCHANGED <<owner, start, sent, delivered, rseqno, net, tx, acked, reading>>
  BY Zenon DEF scheduled_destroy, seqnos, history
<1>2. queue[p] \in SUBSET Frame /\ \A f \in queue[p] : \E g \in queue[p] : Same(f, g)
  BY SameStamp, Zenon DEF InvOrder, TypeOK
<1>3. iax2_destroy(p, queue[p]) \/ UNCHANGED queue
  BY Zenon DEF scheduled_destroy
<1>4. \A q \in Peers : \A f \in queue'[q] : \E g \in queue[q] : f.iseqno = g.iseqno
  BY <1>1, <1>2, <1>3, DestroyAck, Zenon
<1> QED  BY <1>1, <1>4, AckQuiet, Zenon

LEMMA TransmitAck ==
  ASSUME InvOrder, InvOrder', InvAck, NEW p \in Peers, transmit_frame(p)
  PROVE  InvAck'
<1> DEFINE f == Head(tx[p])
           g == [f EXCEPT !.retries = 1]
<1>1. UNCHANGED <<owner, start, sent, delivered, rseqno, acked, reading>>
  BY Zenon DEF transmit_frame, pvt, seqnos, history
<1>2. /\ tx[p] # <<>> /\ send_packet(p, {OnWire(f)}) /\ tx' = [tx EXCEPT ![p] = Tail(tx[p])]
      /\ queue' = [queue EXCEPT ![p] = queue[p] \cup {g}]
  BY Zenon DEF transmit_frame
<1>3. tx[p] \in Seq(Frame) /\ Len(tx[p]) > 0 /\ f = tx[p][1] /\ f \in Frame
  BY <1>2 DEF InvOrder, TypeOK
<1>4. g.iseqno = f.iseqno
  BY <1>3, Zenon DEF Frame
<1>5. {OnWire(f)} \in SUBSET Packet /\ OnWire(f).iseqno = f.iseqno
  BY <1>3, WireNumbers, Zenon
<1> HIDE DEF f, g
<1>6. Grows /\ \A q \in Peers : Len(delivered[q]) <= Len(delivered'[q])
  BY <1>1 DEF Grows, InvOrder, TypeOK
<1>7. \A q \in Peers : \A h \in queue'[q] :
         \/ \E k \in queue[q] : h.iseqno = k.iseqno
         \/ \E j \in 1..Len(tx[q]) : h.iseqno = tx[q][j].iseqno
  <2>1. \A q \in Peers : \A h \in queue'[q] : h \in queue[q] \/ (q = p /\ h = g)
    BY <1>2, Zenon DEF InvOrder, TypeOK
  <2>2. 1 \in 1..Len(tx[p])
    BY <1>3
  <2> QED  BY <1>3, <1>4, <2>1, <2>2, Zenon
<1>8. \A q \in Peers : \A j \in 1..Len(tx'[q]) : \E k \in 1..Len(tx[q]) : tx'[q][j].iseqno = tx[q][k].iseqno
  <2> SUFFICES ASSUME NEW q \in Peers, NEW j \in 1..Len(tx'[q])
               PROVE  \E k \in 1..Len(tx[q]) : tx'[q][j] = tx[q][k]
    OBVIOUS
  <2>1. CASE q = p
    BY <1>2, <1>3, <2>1 DEF InvOrder, TypeOK
  <2>2. CASE q # p
    BY <1>2, <2>2, Zenon DEF InvOrder, TypeOK
  <2> QED  BY <2>1, <2>2, Zenon
<1>9. Fresh(p, f.iseqno)
  <2>1. Other(p) \in Peers /\ Other(Other(p)) = p
    BY OtherEnd, Zenon
  <2>2. 1 \in 1..Len(tx[p])
    BY <1>3
  <2> QED  BY <1>1, <1>3, <2>1, <2>2, Zenon DEF Fresh, InvAck, AckFor, MayAcknowledge
<1>10. \A q \in Peers : \A m \in net'[q] : m \in net[q] \/ Fresh(Other(q), m.iseqno)
  <2>1. \A q \in Peers : \A m \in net'[q] : m \in net[q] \/ (q = Other(p) /\ m = OnWire(f))
    BY <1>2, <1>5, PacketsSent DEF InvOrder
  <2> QED  BY <1>5, <1>9, <2>1, OtherEnd, Zenon
<1> QED  BY <1>1, <1>6, <1>7, <1>8, <1>10, AckKept, Zenon

LEMMA TimerFreesAck ==
  ASSUME InvOrder, InvOrder', InvAck, NEW p \in Peers, NEW f \in queue[p], TimerFrees(p, f)
  PROVE  InvAck'
<1>1. /\ UNCHANGED <<owner, start, sent, delivered, rseqno, net, tx, acked, reading>>
      /\ queue' = [queue EXCEPT ![p] = queue[p] \ {f}]
  BY Zenon DEF TimerFrees, pvt, seqnos, history
<1>2. \A q \in Peers : queue'[q] \subseteq queue[q]
  BY <1>1, Zenon DEF InvOrder, TypeOK
<1> QED  BY <1>1, <1>2, AckQuiet, Zenon

LEMMA GivesUpAck ==
  ASSUME InvOrder, InvOrder', InvAck, NEW p \in Peers, NEW f \in queue[p], TimerGivesUp(p, f)
  PROVE  InvAck'
<1> DEFINE q == queue[p] \ {f}
<1>1. UNCHANGED <<owner, start, sent, delivered, rseqno, net, tx, acked, reading>>
  BY Zenon DEF TimerGivesUp, seqnos, history
<1>2. q \in SUBSET Frame /\ \A g \in q : \E h \in queue[p] : Same(g, h)
  BY SameStamp, Zenon DEF InvOrder, TypeOK
<1>3. iax2_destroy(p, q) \/ queue' = [queue EXCEPT ![p] = q]
  BY Zenon DEF TimerGivesUp
<1>4. CASE iax2_destroy(p, q)
  <2> HIDE DEF q
  <2>1. \A r \in Peers : \A g \in queue'[r] : \E h \in queue[r] : g.iseqno = h.iseqno
    BY <1>1, <1>2, <1>4, DestroyAck, Zenon
  <2> QED  BY <1>1, <2>1, AckQuiet, Zenon
<1>5. CASE queue' = [queue EXCEPT ![p] = q]
  <2>1. \A r \in Peers : queue'[r] \subseteq queue[r]
    BY <1>5, Zenon DEF InvOrder, TypeOK
  <2> QED  BY <1>1, <2>1, AckQuiet, Zenon
<1> QED  BY <1>3, <1>4, <1>5, Zenon

LEMMA FindCallnoAck ==
  ASSUME InvOrder, InvOrder', InvAck, NEW p \in Peers, find_callno(p)
  PROVE  InvAck'
<1>1. UNCHANGED <<owner, start, sent, delivered, rseqno, net, tx, acked, queue>>
  BY Zenon DEF find_callno, pvt, seqnos, history
<1>2. PICK m \in net[p] : reading' = [reading EXCEPT ![p] = m]
  BY Zenon DEF find_callno
<1>3. \A q \in Peers : reading'[q] \in net[q] \cup {reading[q], NoPacket}
  BY <1>2, Zenon DEF InvOrder, TypeOK
<1> QED  BY <1>1, <1>3, AckQuiet, Zenon

LEMMA RetransmitsAck ==
  ASSUME InvOrder, InvOrder', InvAck, NEW p \in Peers, NEW f \in queue[p], TimerRetransmits(p, f)
  PROVE  InvAck'
<1> DEFINE g == [f EXCEPT !.iseqno = iseqno[p], !.retries = @ + 1]
<1>1. /\ UNCHANGED <<owner, start, sent, delivered, rseqno, tx, acked, reading>> /\ iaxs[p]
      /\ queue' = [queue EXCEPT ![p] = (queue[p] \ {f}) \cup {g}]
      /\ send_packet(p, {OnWire(g)})
  BY Zenon DEF TimerRetransmits, pvt, seqnos, history
<1>2. g.iseqno = iseqno[p] /\ g \in Frame
  <2>1. f \in Frame /\ iseqno[p] \in Octets
    BY Zenon DEF InvOrder, TypeOK
  <2>2. f.retries + 1 \in Int
    BY <2>1 DEF Frame
  <2>3. g = [[f EXCEPT !.iseqno = iseqno[p]] EXCEPT !.retries = f.retries + 1]
    BY <2>1, Zenon DEF Frame
  <2> QED  BY <2>1, <2>2, <2>3, Zenon DEF Frame
<1>3. {OnWire(g)} \in SUBSET Packet /\ OnWire(g).iseqno = g.iseqno
  BY <1>2, WireNumbers, Zenon
<1> HIDE DEF g
<1>4. Grows /\ \A q \in Peers : Len(delivered[q]) <= Len(delivered'[q])
  BY <1>1 DEF Grows, InvOrder, TypeOK
<1>5. Fresh(p, g.iseqno)
  BY <1>1, <1>2, ExpectedFreshStill, Zenon
<1>6. \A q \in Peers : \A h \in queue'[q] : (\E k \in queue[q] : h.iseqno = k.iseqno) \/ Fresh(q, h.iseqno)
  <2>1. \A q \in Peers : \A h \in queue'[q] : h \in queue[q] \/ (q = p /\ h = g)
    BY <1>1, Zenon DEF InvOrder, TypeOK
  <2> QED  BY <1>5, <2>1, Zenon
<1>7. \A q \in Peers : \A m \in net'[q] : m \in net[q] \/ Fresh(Other(q), m.iseqno)
  <2>1. \A q \in Peers : \A m \in net'[q] : m \in net[q] \/ (q = Other(p) /\ m = OnWire(g))
    BY <1>1, <1>3, PacketsSent DEF InvOrder
  <2> QED  BY <1>3, <1>5, <2>1, OtherEnd, Zenon
<1>8. \A q \in Peers : \A j \in 1..Len(tx'[q]) : \E k \in 1..Len(tx[q]) : tx'[q][j].iseqno = tx[q][k].iseqno
  BY <1>1, Zenon
<1> QED  BY <1>1, <1>4, <1>6, <1>7, <1>8, AckKept, Zenon

LEMMA UnknownAck ==
  ASSUME InvOrder, InvOrder', InvAck, NEW p \in Peers, Processes(p), ProcessUnknown(p, reading[p])
  PROVE  InvAck'
<1> DEFINE k == [kind |-> "inval", n |-> 0, oseqno |-> 0, iseqno |-> 0]
<1>1. UNCHANGED <<owner, start, sent, delivered, rseqno, tx, acked, queue>>
  BY Zenon DEF ProcessUnknown, pvt, seqnos, history
<1>2. ~Acknowledges(k)
  BY Zenon DEF Acknowledges
<1>3. net' = net \/ net' = [net EXCEPT ![Other(p)] = net[Other(p)] \cup {k}]
  BY Zenon DEF ProcessUnknown
<1> HIDE DEF k
<1>4. \A q \in Peers : \A m \in net'[q] : m \in net[q] \/ ~Acknowledges(m)
  <2>1. net \in [Peers -> SUBSET Packet] /\ Other(p) \in Peers
    BY OtherEnd, Zenon DEF InvOrder, TypeOK
  <2> QED  BY <1>2, <1>3, <2>1, Zenon
<1>5. Grows /\ \A q \in Peers : Len(delivered[q]) <= Len(delivered'[q])
  BY <1>1 DEF Grows, InvOrder, TypeOK
<1>6. \A q \in Peers : \A j \in 1..Len(tx'[q]) : \E l \in 1..Len(tx[q]) : tx'[q][j].iseqno = tx[q][l].iseqno
  BY <1>1, Zenon
<1> QED  BY <1>1, <1>4, <1>5, <1>6, AckKept, ReadingFacts, Zenon DEF InvOrder

LEMMA OutOfOrderAck ==
  ASSUME InvOrder, InvOrder', InvAck, NEW p \in Peers, Processes(p), ProcessOutOfOrder(p, reading[p])
  PROVE  InvAck'
<1>1. UNCHANGED <<owner, start, sent, delivered, rseqno, tx, acked, queue>> /\ iaxs[p]
  BY Zenon DEF ProcessOutOfOrder, pvt, history
<1>2. reading[p].iseqno \in Octets /\ iseqno[p] \in Octets
  BY ReadingFacts, Zenon DEF Packet, InvOrder, TypeOK
<1>3. \E kind \in {"ack", "vnak"}, o \in Octets : Immediate(p, kind, o, iseqno[p])
  BY <1>2, Zenon DEF ProcessOutOfOrder
<1>4. PICK kind \in {"ack", "vnak"}, o \in Octets : Immediate(p, kind, o, iseqno[p])
  BY <1>3, Zenon
<1>5. \A q \in Peers : \A m \in net'[q] : m \in net[q] \/ (q = Other(p) /\ m.iseqno = iseqno[p])
  BY <1>2, <1>4, ImmediateFacts DEF InvOrder
<1>6. \A q \in Peers : \A m \in net'[q] : m \in net[q] \/ Fresh(Other(q), m.iseqno)
  BY <1>1, <1>5, OtherEnd, ExpectedFreshStill, Zenon
<1>7. Grows /\ \A q \in Peers : Len(delivered[q]) <= Len(delivered'[q])
  BY <1>1 DEF Grows, InvOrder, TypeOK
<1>8. \A q \in Peers : \A j \in 1..Len(tx'[q]) : \E l \in 1..Len(tx[q]) : tx'[q][j].iseqno = tx[q][l].iseqno
  BY <1>1, Zenon
<1> QED  BY <1>1, <1>6, <1>7, <1>8, AckKept, ReadingFacts, Zenon DEF InvOrder

LEMMA FinalAckAck ==
  ASSUME InvOrder, InvOrder', InvAck, NEW p \in Peers, Processes(p), ProcessFinalAck(p, reading[p])
  PROVE  InvAck'
<1> DEFINE i == reading[p].iseqno
           s == Marked(p, i)
<1>1. /\ UNCHANGED <<owner, start, sent, delivered, rseqno, tx, net>>
      /\ NoteAcked(p, i) /\ iax2_destroy(p, s)
  BY Zenon DEF ProcessFinalAck
<1>2. Acknowledges(reading[p])
  BY ReadingFacts, Zenon DEF ProcessFinalAck, Acknowledges, InvOrder, Packet, Kinds
<1>3. s \in SUBSET Frame /\ \A f \in s : \E g \in queue[p] : Same(f, g)
  BY MarkedSame, Zenon DEF InvOrder
<1> HIDE DEF s
<1>4. \A r \in Peers : \A f \in queue'[r] : \E g \in queue[r] : f.iseqno = g.iseqno
  BY <1>1, <1>3, DestroyAck, Zenon
<1>5. Grows /\ \A q \in Peers : Len(delivered[q]) <= Len(delivered'[q])
  BY <1>1 DEF Grows, InvOrder, TypeOK
<1>6. \A q \in Peers : \A n \in acked'[q] :
         n \in acked[q] \/ (Unwrapped(q) => n <= Len(delivered'[Other(q)]))
  BY <1>1, <1>2, <1>5, NotedFresh, Zenon DEF InvOrder
<1>7. \A q \in Peers : \A j \in 1..Len(tx'[q]) : \E l \in 1..Len(tx[q]) : tx'[q][j].iseqno = tx[q][l].iseqno
  BY <1>1, Zenon
<1> QED  BY <1>1, <1>4, <1>5, <1>6, <1>7, AckKept, ReadingFacts, Zenon DEF InvOrder

LEMMA InvalAck ==
  ASSUME InvOrder, InvOrder', InvAck, NEW p \in Peers, Processes(p), ProcessInval(p, reading[p])
  PROVE  InvAck'
<1>1. /\ UNCHANGED <<owner, start, sent, delivered, rseqno, net, tx, acked>>
      /\ iax2_destroy(p, queue[p])
  BY Zenon DEF ProcessInval, seqnos, history
<1>2. queue[p] \in SUBSET Frame /\ \A f \in queue[p] : \E g \in queue[p] : Same(f, g)
  BY SameStamp, Zenon DEF InvOrder, TypeOK
<1>3. \A q \in Peers : \A f \in queue'[q] : \E g \in queue[q] : f.iseqno = g.iseqno
  BY <1>1, <1>2, DestroyAck, Zenon
<1> QED  BY <1>1, <1>3, AckQuiet, ReadingFacts, Zenon DEF InvOrder

LEMMA AckAck ==
  ASSUME InvOrder, InvOrder', InvAck, NEW p \in Peers, Processes(p), ProcessAck(p, reading[p])
  PROVE  InvAck'
<1> DEFINE i == reading[p].iseqno
<1>1. /\ UNCHANGED <<owner, start, sent, delivered, tx, net>>
      /\ NoteWindow(p, i) /\ NoteAcked(p, i) /\ queue' = [queue EXCEPT ![p] = Marked(p, i)]
  BY Zenon DEF ProcessAck, NoteWindow, pvt
<1>2. Acknowledges(reading[p])
  BY Zenon DEF ProcessAck, InOrder, Acknowledges
<1>3. \A r \in Peers : \A f \in queue'[r] : \E g \in queue[r] : f.iseqno = g.iseqno
  BY <1>1, MarkedAck, Zenon
<1>4. Grows /\ \A q \in Peers : Len(delivered[q]) <= Len(delivered'[q])
  BY <1>1 DEF Grows, InvOrder, TypeOK
<1>5. /\ \A q \in Peers : \A n \in acked'[q] :
           n \in acked[q] \/ (Unwrapped(q) => n <= Len(delivered'[Other(q)]))
      /\ \A q \in Peers : rseqno'[q] = rseqno[q] \/ Fresh(Other(q), rseqno'[q])
  BY <1>1, <1>2, <1>4, NotedFresh, Zenon DEF InvOrder
<1>6. \A q \in Peers : \A j \in 1..Len(tx'[q]) : \E l \in 1..Len(tx[q]) : tx'[q][j].iseqno = tx[q][l].iseqno
  BY <1>1, Zenon
<1> QED  BY <1>1, <1>3, <1>4, <1>5, <1>6, AckKept, ReadingFacts, Zenon DEF InvOrder

LEMMA VnakAck ==
  ASSUME InvOrder, InvOrder', InvAck, NEW p \in Peers, Processes(p), ProcessVnak(p, reading[p])
  PROVE  InvAck'
<1> DEFINE i == reading[p].iseqno
           again == {g \in Marked(p, i) : Octet(g.oseqno - i) < 128 /\ g.retries >= 0}
           ms == {OnWire(f) : f \in again}
<1>1. /\ UNCHANGED <<owner, start, sent, delivered, tx>>
      /\ NoteWindow(p, i) /\ NoteAcked(p, i) /\ queue' = [queue EXCEPT ![p] = Marked(p, i)]
      /\ send_packet(p, ms)
  BY Zenon DEF ProcessVnak, NoteWindow, pvt
<1>2. Acknowledges(reading[p])
  BY Zenon DEF ProcessVnak, InOrder, Acknowledges
<1>3. again \subseteq Marked(p, i)
  OBVIOUS
<1>4. \A r \in Peers : \A f \in queue'[r] : \E g \in queue[r] : f.iseqno = g.iseqno
  BY <1>1, MarkedAck, Zenon
<1>5. Grows /\ \A q \in Peers : Len(delivered[q]) <= Len(delivered'[q])
  BY <1>1 DEF Grows, InvOrder, TypeOK
<1>6. /\ \A q \in Peers : \A n \in acked'[q] :
           n \in acked[q] \/ (Unwrapped(q) => n <= Len(delivered'[Other(q)]))
      /\ \A q \in Peers : rseqno'[q] = rseqno[q] \/ Fresh(Other(q), rseqno'[q])
  BY <1>1, <1>2, <1>5, NotedFresh, Zenon DEF InvOrder
<1> HIDE DEF i, again
<1>7. ASSUME NEW f \in again  PROVE OnWire(f) \in Packet /\ Fresh(p, OnWire(f).iseqno)
  <2>1. Marked(p, i) \subseteq Frame /\ \E g \in queue[p] : Same(f, g)
    BY <1>3, MarkedSame, Zenon DEF InvOrder
  <2>2. OnWire(f) \in Packet /\ OnWire(f).iseqno = f.iseqno
    BY <1>3, <2>1, WireNumbers, Zenon
  <2>3. PICK g \in queue[p] : f.iseqno = g.iseqno
    BY <2>1, SameStamp, Zenon
  <2>4. Other(p) \in Peers /\ Other(Other(p)) = p
    BY OtherEnd, Zenon
  <2>5. Fresh(p, f.iseqno)
    BY <1>1, <2>3, <2>4, Zenon DEF Fresh, InvAck, AckFor, MayAcknowledge
  <2> QED  BY <2>2, <2>5, Zenon
<1>8. ms \in SUBSET Packet /\ \A m \in ms : Fresh(p, m.iseqno)
  BY <1>7, Zenon
<1> HIDE DEF ms
<1>9. \A q \in Peers : \A m \in net'[q] : m \in net[q] \/ Fresh(Other(q), m.iseqno)
  <2>1. \A q \in Peers : \A m \in net'[q] : m \in net[q] \/ (q = Other(p) /\ m \in ms)
    BY <1>1, <1>8, PacketsSent, Zenon DEF InvOrder
  <2> QED  BY <1>8, <2>1, OtherEnd, Zenon
<1>10. \A q \in Peers : \A j \in 1..Len(tx'[q]) : \E l \in 1..Len(tx[q]) : tx'[q][j].iseqno = tx[q][l].iseqno
  BY <1>1, Zenon
<1> QED  BY <1>1, <1>4, <1>5, <1>6, <1>9, <1>10, AckKept, ReadingFacts, Zenon DEF InvOrder

LEMMA ProcessHangupAck ==
  ASSUME InvOrder, InvOrder', InvAck, NEW p \in Peers, Processes(p), ProcessHangup(p, reading[p])
  PROVE  InvAck'
<1> DEFINE i == reading[p].iseqno
           s == Marked(p, i)
           e == Octet(iseqno[p] + 1)
<1>1. /\ UNCHANGED <<owner, start, sent, tx>>
      /\ delivered' = [delivered EXCEPT ![p] = Append(delivered[p], reading[p].n)]
      /\ NoteWindow(p, i) /\ NoteAcked(p, i) /\ Immediate(p, "ack", i, e) /\ iax2_destroy(p, s)
  BY Zenon DEF ProcessHangup, NoteWindow
<1>2. iaxs[p] /\ Numbered(reading[p]) /\ ~OutOfOrder(p, reading[p]) /\ Acknowledges(reading[p])
  BY Zenon DEF ProcessHangup, InOrder, Numbered, Acknowledges
<1>3. i \in Octets /\ e \in Octets
  <2>1. iseqno[p] \in Octets
    BY Zenon DEF InvOrder, TypeOK
  <2>2. e \in Octets
    BY <2>1 DEF Octet, Octets
  <2> QED  BY <2>2, ReadingFacts, Zenon DEF InvOrder, Packet
<1>4. Fresh(p, e) /\ \A q \in Peers : Len(delivered[q]) <= Len(delivered'[q])
  BY <1>1, <1>2, NextFresh, Zenon
<1>5. s \in SUBSET Frame /\ \A f \in s : \E g \in queue[p] : Same(f, g)
  BY MarkedSame, Zenon DEF InvOrder
<1>6. /\ \A q \in Peers : \A n \in acked'[q] :
           n \in acked[q] \/ (Unwrapped(q) => n <= Len(delivered'[Other(q)]))
      /\ \A q \in Peers : rseqno'[q] = rseqno[q] \/ Fresh(Other(q), rseqno'[q])
  BY <1>1, <1>2, <1>4, NotedFresh, Zenon DEF InvOrder
<1> HIDE DEF i, s, e
<1>7. \A r \in Peers : \A f \in queue'[r] : \E g \in queue[r] : f.iseqno = g.iseqno
  BY <1>1, <1>5, DestroyAck, Zenon
<1>8. Grows
  BY <1>1 DEF Grows, InvOrder, TypeOK
<1>9. \A q \in Peers : \A m \in net'[q] : m \in net[q] \/ Fresh(Other(q), m.iseqno)
  <2>1. \A q \in Peers : \A m \in net'[q] : m \in net[q] \/ (q = Other(p) /\ m.iseqno = e)
    BY <1>1, <1>3, ImmediateFacts, Zenon DEF InvOrder
  <2> QED  BY <1>4, <2>1, OtherEnd, Zenon
<1>10. \A q \in Peers : \A j \in 1..Len(tx'[q]) : \E l \in 1..Len(tx[q]) : tx'[q][j].iseqno = tx[q][l].iseqno
  BY <1>1, Zenon
<1> QED  BY <1>1, <1>4, <1>6, <1>7, <1>8, <1>9, <1>10, AckKept, ReadingFacts, Zenon DEF InvOrder

LEMMA DataAck ==
  ASSUME InvOrder, InvOrder', InvAck, NEW p \in Peers, Processes(p), ProcessData(p, reading[p])
  PROVE  InvAck'
<1> DEFINE i == reading[p].iseqno
           e == Octet(iseqno[p] + 1)
<1>1. /\ UNCHANGED <<owner, start>>
      /\ delivered' = [delivered EXCEPT ![p] = Append(delivered[p], reading[p].n)]
      /\ NoteWindow(p, i) /\ NoteAcked(p, i) /\ queue' = [queue EXCEPT ![p] = Marked(p, i)]
  BY Zenon DEF ProcessData, NoteWindow, pvt
<1>2. iaxs[p] /\ Numbered(reading[p]) /\ ~OutOfOrder(p, reading[p]) /\ Acknowledges(reading[p])
  BY Zenon DEF ProcessData, InOrder, Numbered, Acknowledges
<1>3. i \in Octets /\ e \in Octets
  <2>1. iseqno[p] \in Octets
    BY Zenon DEF InvOrder, TypeOK
  <2>2. e \in Octets
    BY <2>1 DEF Octet, Octets
  <2> QED  BY <2>2, ReadingFacts, Zenon DEF InvOrder, Packet
<1>4. Fresh(p, e) /\ \A q \in Peers : Len(delivered[q]) <= Len(delivered'[q])
  BY <1>1, <1>2, NextFresh, Zenon
<1>5. \A r \in Peers : \A f \in queue'[r] : \E g \in queue[r] : f.iseqno = g.iseqno
  BY <1>1, MarkedAck, Zenon
<1>6. /\ \A q \in Peers : \A n \in acked'[q] :
           n \in acked[q] \/ (Unwrapped(q) => n <= Len(delivered'[Other(q)]))
      /\ \A q \in Peers : rseqno'[q] = rseqno[q] \/ Fresh(Other(q), rseqno'[q])
  BY <1>1, <1>2, <1>4, NotedFresh, Zenon DEF InvOrder
<1>7. \/ iax2_send(p, FALSE, e) /\ UNCHANGED net
      \/ (Immediate(p, "ack", i, e) \/ UNCHANGED <<net, aseqno>>) /\ UNCHANGED <<oseqno, tx, sent>>
  BY Zenon DEF ProcessData
<1> HIDE DEF i, e
<1>8. CASE iax2_send(p, FALSE, e) /\ UNCHANGED net
  <2>1. sent' = [sent EXCEPT ![p] = sent[p] + 1]
    BY <1>8, SendCounts, Zenon DEF InvOrder
  <2>2. Grows
    BY <1>1, <2>1 DEF Grows, InvOrder, TypeOK
  <2>3. \A q \in Peers : \A j \in 1..Len(tx'[q]) :
            \/ \E k \in 1..Len(tx[q]) : tx'[q][j].iseqno = tx[q][k].iseqno
            \/ Fresh(q, tx'[q][j].iseqno)
    BY <1>4, <1>8, SendAck, Zenon
  <2> QED  BY <1>4, <1>5, <1>6, <1>8, <2>2, <2>3, AckKept, ReadingFacts, Zenon DEF InvOrder
<1>9. CASE (Immediate(p, "ack", i, e) \/ UNCHANGED <<net, aseqno>>) /\ UNCHANGED <<oseqno, tx, sent>>
  <2>1. Grows
    BY <1>1, <1>9 DEF Grows, InvOrder, TypeOK
  <2>2. \A q \in Peers : \A m \in net'[q] : m \in net[q] \/ Fresh(Other(q), m.iseqno)
    <3>1. CASE Immediate(p, "ack", i, e)
      <4>1. \A q \in Peers : \A m \in net'[q] : m \in net[q] \/ (q = Other(p) /\ m.iseqno = e)
        BY <1>3, <3>1, ImmediateFacts, Zenon DEF InvOrder
      <4> QED  BY <1>4, <4>1, OtherEnd, Zenon
    <3>2. CASE UNCHANGED <<net, aseqno>>
      BY <3>2, Zenon
    <3> QED  BY <1>9, <3>1, <3>2, Zenon
  <2>3. \A q \in Peers : \A j \in 1..Len(tx'[q]) : \E l \in 1..Len(tx[q]) : tx'[q][j].iseqno = tx[q][l].iseqno
    BY <1>9, Zenon
  <2> QED  BY <1>4, <1>5, <1>6, <2>1, <2>2, <2>3, AckKept, ReadingFacts, Zenon DEF InvOrder
<1> QED  BY <1>7, <1>8, <1>9, Zenon

LEMMA InitAck == Init => InvAck
<1> SUFFICES ASSUME Init, NEW p \in Peers, Unwrapped(p)  PROVE AckFor(p)
  BY Zenon DEF InvAck
<1>1. start \in Nat /\ sent[p] = 0 /\ Other(p) \in Peers
  BY OtherEnd, Iax2Constants, Zenon DEF Init
<1>2. Octet(start) = start
  <2>1. start + 0 <= 255
    BY <1>1, Zenon DEF Unwrapped
  <2> QED  BY <1>1, <2>1 DEF Octet
<1>3. rseqno[p] = start /\ Len(delivered[Other(p)]) = 0
  BY <1>1, <1>2, Zenon DEF Init
<1>4. MayAcknowledge(Other(p), rseqno[p])
  BY <1>1, <1>3 DEF MayAcknowledge
<1>5. reading[p] = NoPacket /\ net[p] = {} /\ queue[Other(p)] = {} /\ tx[Other(p)] = <<>> /\ acked[p] = {}
  BY <1>1, Zenon DEF Init
<1>6. ~Acknowledges(reading[p])
  BY <1>5 DEF Acknowledges, NoPacket
<1> QED  BY <1>4, <1>5, <1>6 DEF AckFor

LEMMA NextAck == InvOrder /\ InvOrder' /\ InvAck /\ [Next]_vars => InvAck'
<1> SUFFICES ASSUME InvOrder, InvOrder', InvAck, [Next]_vars  PROVE InvAck'
  OBVIOUS
<1>1. CASE UNCHANGED vars
  BY <1>1, AckQuiet, Zenon DEF vars, pvt, seqnos, history
<1>2. ASSUME NEW p \in Peers, socket_process(p)  PROVE InvAck'
  <2>1. Processes(p)
    BY <1>2, Zenon DEF socket_process, Processes
  <2> QED  BY <1>2, <2>1, UnknownAck, OutOfOrderAck, FinalAckAck, DataAck, ProcessHangupAck,
              AckAck, VnakAck, InvalAck, Zenon DEF socket_process
<1>3. ASSUME NEW p \in Peers, attempt_transmit(p)  PROVE InvAck'
  BY <1>3, TimerFreesAck, RetransmitsAck, GivesUpAck, Zenon DEF attempt_transmit
<1> QED  BY <1>1, <1>2, <1>3, WriteAck, HangupAck, ScheduledDestroyAck, TransmitAck,
            FindCallnoAck, Zenon DEF Next

\* Until the numbers of an end come round, a frame whose retransmission was called
\* off had been given to the other end, whatever the network does: the window test
\* of socket_process lets no stale acknowledgement through.  With MCIax2Wrap: the
\* condition cannot be dropped.
THEOREM AckedWasReceivedUntilWrap == Spec => []((\A p \in Peers : Unwrapped(p)) => AckedWasReceived)
<1>1. InvAck => ((\A p \in Peers : Unwrapped(p)) => AckedWasReceived)
  BY Zenon DEF InvAck, AckFor, AckedWasReceived
<1> QED  BY <1>1, InitOrder, NextOrder, InitAck, NextAck, PTL DEF Spec
=============================================================================
