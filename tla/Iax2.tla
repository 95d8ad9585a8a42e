-------------------------------- MODULE Iax2 --------------------------------
(***************************************************************************)
(* Reliable full frames of chan_iax2.c: the two ends of one established    *)
(* call, joined by a network that loses, duplicates, delays and reorders.  *)
(*                                                                         *)
(* A full frame carries two octets: its own number (oseqno) and the number *)
(* its sender expects next (iseqno), which acknowledges all before it.     *)
(* Frames are kept in frame_queue and sent again from a timer until they   *)
(* are acknowledged (retries -1) or max_retries is reached; a gap makes    *)
(* the receiver ask for everything from it on (VNAK).  iaxsl[callno] is    *)
(* held during each action, and never between two.                         *)
(*                                                                         *)
(* A packet stays in net once it was sent: it may arrive at any later      *)
(* time, any number of times, or never.                                    *)
(***************************************************************************)
EXTENDS Integers, Sequences, FiniteSets

CONSTANTS MaxSends,    \* bound: frames each end sends before its HANGUP, indexed by end + 1
          Writers,     \* bound: the ends that send frames which answer nothing
          Leavers,     \* bound: the ends whose owner hangs up of its own accord
          max_retries, \* transmissions of a frame before the call is given up
          Starts       \* frames already exchanged and acknowledged in each direction

ASSUME Iax2Constants ==
  /\ MaxSends \in [1..2 -> 0..254]  \* no packet meets a frame 256 numbers younger
  /\ Leavers \subseteq {0, 1} /\ Writers \subseteq {0, 1}
  /\ max_retries \in Nat \ {0}
  /\ Starts \subseteq Nat

Peers == {0, 1}
Other(p) == 1 - p

VARIABLES
  iaxs,      \* iaxs[callno] is there
  known,     \* the call is in iax_peercallno_pvts, where find_callno looks
  owner,     \* pvt->owner: there is a channel
  gone,      \* IAX_ALREADYGONE
  error,     \* pvt->error
  prodded,   \* a hangup was queued on the owner
  destroying,\* scheduled_destroy is scheduled
  oseqno, iseqno, rseqno, aseqno,
  tx,        \* frames handed to transmit_processor
  queue,     \* frame_queue[callno]
  reading,   \* the packet for which find_callno found the call
  net        \* packets on their way to each end

\* History, read by the properties only.
VARIABLES
  start,     \* frames exchanged before the first state, in each direction
  sent,      \* number of frames each end has sent
  delivered, \* payloads each end was given, in order
  acked      \* frames whose retransmission an acknowledgement called off

pvt == <<iaxs, known, owner, gone, error, prodded, destroying>>
seqnos == <<oseqno, iseqno, rseqno, aseqno>>
history == <<start, sent, delivered, acked>>
vars == <<pvt, seqnos, tx, queue, reading, net, history>>

Octet(x) == x % 256
Octets == 0..255

\* The payload of a frame is its place in what its sender has to say.
Frame == [n : Nat, oseqno : Octets, iseqno : Octets, final : BOOLEAN, retries : Int]
Kinds == {"data", "hangup", "ack", "vnak", "inval"}
Packet == [kind : Kinds, n : Nat, oseqno : Octets, iseqno : Octets]
NoPacket == [kind |-> "none", n |-> 0, oseqno |-> 0, iseqno |-> 0]

Init ==
  /\ iaxs = [p \in Peers |-> TRUE] /\ known = [p \in Peers |-> TRUE]
  /\ owner = [p \in Peers |-> TRUE]
  /\ gone = [p \in Peers |-> FALSE] /\ error = [p \in Peers |-> FALSE]
  /\ prodded = [p \in Peers |-> FALSE] /\ destroying = [p \in Peers |-> FALSE]
  /\ start \in Starts
  /\ oseqno = [p \in Peers |-> Octet(start)] /\ iseqno = [p \in Peers |-> Octet(start)]
  /\ rseqno = [p \in Peers |-> Octet(start)] /\ aseqno = [p \in Peers |-> Octet(start)]
  /\ tx = [p \in Peers |-> <<>>] /\ queue = [p \in Peers |-> {}]
  /\ reading = [p \in Peers |-> NoPacket] /\ net = [p \in Peers |-> {}]
  /\ sent = [p \in Peers |-> 0]
  /\ delivered = [p \in Peers |-> <<>>] /\ acked = [p \in Peers |-> {}]

-----------------------------------------------------------------------------
(* The call.                                                               *)

\* pvt_destructor cancels what is still to be transmitted.
Cancelled(q) == {[f EXCEPT !.retries = -1] : f \in q}

\* iax2_destroy with frame_queue holding q: while there is an owner it is only
\* told to hang up, and the call is not found by its peer's number any more.
iax2_destroy(p, q) ==
  /\ known' = [known EXCEPT ![p] = FALSE]
  /\ iaxs' = [iaxs EXCEPT ![p] = owner[p]]
  /\ prodded' = [prodded EXCEPT ![p] = owner[p]]
  /\ queue' = [queue EXCEPT ![p] = IF owner[p] THEN q ELSE Cancelled(q)]

\* iax2_send of a full frame: numbered, stamped with i, left to transmit_processor.
iax2_send(p, final, i) ==
  /\ tx' = [tx EXCEPT ![p] = Append(@, [n |-> sent[p] + 1, oseqno |-> oseqno[p], iseqno |-> i,
                                         final |-> final, retries |-> 0])]
  /\ oseqno' = [oseqno EXCEPT ![p] = Octet(@ + 1)]
  /\ aseqno' = [aseqno EXCEPT ![p] = i]
  /\ sent' = [sent EXCEPT ![p] = @ + 1]

\* send_packet transmits nothing for a call that is gone or failed.
send_packet(p, ms) ==
  net' = [net EXCEPT ![Other(p)] = IF iaxs[p] /\ ~error[p] THEN @ \cup ms ELSE @]

MayWrite(p) == sent[p] < MaxSends[p + 1]

\* iax2_write, and every other frame the channel's thread sends.
iax2_write(p) ==
  /\ iaxs[p] /\ owner[p] /\ ~error[p] /\ ~gone[p]
  /\ p \in Writers /\ MayWrite(p)
  /\ iax2_send(p, FALSE, iseqno[p])
  /\ UNCHANGED <<pvt, iseqno, rseqno, queue, reading, net, start, delivered, acked>>

\* Variant of iax2_hangup: nothing is scheduled to destroy the call.
iax2_hangup_NoSchedule(p) ==
  /\ iaxs[p] /\ owner[p] /\ (prodded[p] \/ p \in Leavers)
  /\ owner' = [owner EXCEPT ![p] = FALSE]
  /\ gone' = [gone EXCEPT ![p] = TRUE]
  /\ prodded' = [prodded EXCEPT ![p] = FALSE]
  /\ \/ /\ gone[p]
        /\ iaxs' = [iaxs EXCEPT ![p] = FALSE] /\ known' = [known EXCEPT ![p] = FALSE]
        /\ queue' = [queue EXCEPT ![p] = Cancelled(@)]
        /\ UNCHANGED <<destroying, tx, oseqno, aseqno, sent>>
     \/ /\ ~gone[p]
        /\ IF error[p] THEN UNCHANGED <<tx, oseqno, aseqno, sent>>
                       ELSE iax2_send(p, TRUE, iseqno[p])
        /\ UNCHANGED <<iaxs, known, queue, destroying>>
  /\ UNCHANGED <<error, iseqno, rseqno, reading, net, start, delivered, acked>>

\* iax2_hangup, called once by the owner: iax2_predestroy takes the owner away;
\* HANGUP is sent unless the call failed or the peer hung up first.
iax2_hangup(p) ==
  /\ iaxs[p] /\ owner[p] /\ (prodded[p] \/ p \in Leavers)
  /\ owner' = [owner EXCEPT ![p] = FALSE]
  /\ gone' = [gone EXCEPT ![p] = TRUE]
  /\ prodded' = [prodded EXCEPT ![p] = FALSE]
  /\ \/ /\ gone[p]
        /\ iaxs' = [iaxs EXCEPT ![p] = FALSE] /\ known' = [known EXCEPT ![p] = FALSE]
        /\ queue' = [queue EXCEPT ![p] = Cancelled(@)]
        /\ UNCHANGED <<destroying, tx, oseqno, aseqno, sent>>
     \/ /\ ~gone[p]
        /\ destroying' = [destroying EXCEPT ![p] = TRUE]
        /\ IF error[p] THEN UNCHANGED <<tx, oseqno, aseqno, sent>>
                       ELSE iax2_send(p, TRUE, iseqno[p])
        /\ UNCHANGED <<iaxs, known, queue>>
  /\ UNCHANGED <<error, iseqno, rseqno, reading, net, start, delivered, acked>>

scheduled_destroy(p) ==
  /\ destroying[p]
  /\ destroying' = [destroying EXCEPT ![p] = FALSE]
  /\ IF iaxs[p] THEN iax2_destroy(p, queue[p])
                ELSE UNCHANGED <<iaxs, known, prodded, queue>>
  /\ UNCHANGED <<owner, gone, error, seqnos, tx, reading, net, history>>

-----------------------------------------------------------------------------
(* Transmission.                                                           *)

OnWire(f) == [kind |-> IF f.final THEN "hangup" ELSE "data",
              n |-> f.n, oseqno |-> f.oseqno, iseqno |-> f.iseqno]

\* transmit_frame, run by transmit_processor: first transmission.
transmit_frame(p) ==
  /\ tx[p] # <<>>
  /\ LET f == Head(tx[p])
     IN /\ send_packet(p, {OnWire(f)})
        /\ queue' = [queue EXCEPT ![p] = @ \cup {[f EXCEPT !.retries = 1]}]
  /\ tx' = [tx EXCEPT ![p] = Tail(@)]
  /\ UNCHANGED <<pvt, seqnos, reading, history>>

\* The timer of frame f: acknowledged, or of a call that is gone.
TimerFrees(p, f) ==
  /\ ~iaxs[p] \/ f.retries < 0
  /\ queue' = [queue EXCEPT ![p] = @ \ {f}]
  /\ UNCHANGED <<pvt, seqnos, tx, reading, net, history>>

\* Sent again, with what is expected by now (update_packet).
TimerRetransmits(p, f) ==
  /\ iaxs[p] /\ f.retries >= 0 /\ f.retries < max_retries
  /\ LET g == [f EXCEPT !.iseqno = iseqno[p], !.retries = @ + 1]
     IN /\ queue' = [queue EXCEPT ![p] = (@ \ {f}) \cup {g}]
        /\ send_packet(p, {OnWire(g)})
  /\ UNCHANGED <<pvt, seqnos, tx, reading, history>>

\* Variant of TimerGivesUp: the frame is dropped and the call goes on.
TimerGivesUp_Silent(p, f) ==
  /\ iaxs[p] /\ f.retries >= max_retries
  /\ queue' = [queue EXCEPT ![p] = @ \ {f}]
  /\ UNCHANGED <<pvt, seqnos, tx, reading, net, history>>

\* Too often: the call failed, unless it was over anyway.
TimerGivesUp(p, f) ==
  /\ iaxs[p] /\ f.retries >= max_retries
  /\ error' = [error EXCEPT ![p] = @ \/ ~f.final]
  /\ IF owner[p] /\ ~f.final
     THEN /\ prodded' = [prodded EXCEPT ![p] = TRUE]
          /\ queue' = [queue EXCEPT ![p] = @ \ {f}]
          /\ UNCHANGED <<iaxs, known>>
     ELSE iax2_destroy(p, queue[p] \ {f})
  /\ UNCHANGED <<owner, gone, destroying, seqnos, tx, reading, net, history>>

attempt_transmit(p) ==
  \E f \in queue[p] : TimerFrees(p, f) \/ TimerRetransmits(p, f) \/ TimerGivesUp(p, f)

-----------------------------------------------------------------------------
(* Reception.  One thread at a time processes the full frames of a call.   *)

\* socket_read, and find_callno in socket_process: a packet for a call that is
\* not found is dropped.
find_callno(p) ==
  /\ known[p] /\ reading[p] = NoPacket
  /\ \E m \in net[p] : reading' = [reading EXCEPT ![p] = m]
  /\ UNCHANGED <<pvt, seqnos, tx, queue, net, history>>

\* ACK, VNAK and INVAL are not numbered frames.
Numbered(m) == m.kind \in {"data", "hangup"}

\* send_command_immediate: sent once, with the number the caller chose.
Immediate(p, kind, o, i) ==
  /\ send_packet(p, {[kind |-> kind, n |-> 0, oseqno |-> o, iseqno |-> i]})
  /\ aseqno' = [aseqno EXCEPT ![p] = i]

\* raw_hangup: the call was destroyed after find_callno had found it.
ProcessUnknown(p, m) ==
  /\ ~iaxs[p]
  /\ net' = IF m.kind = "inval" THEN net
            ELSE [net EXCEPT ![Other(p)] =
                    @ \cup {[kind |-> "inval", n |-> 0, oseqno |-> 0, iseqno |-> 0]}]
  /\ UNCHANGED <<pvt, seqnos, tx, queue, history>>

\* Variant of OutOfOrder: an old frame is taken for the expected one.
OutOfOrder_OnlyAhead(p, m) == Numbered(m) /\ Octet(iseqno[p] - m.oseqno) >= 128

OutOfOrder(p, m) == Numbered(m) /\ m.oseqno # iseqno[p]

\* A frame that was seen already is acknowledged again, one that comes too early
\* makes us ask for the ones before it.
ProcessOutOfOrder(p, m) ==
  /\ iaxs[p] /\ OutOfOrder(p, m)
  /\ IF Octet(iseqno[p] - m.oseqno) < 128
     THEN Immediate(p, "ack", m.iseqno, iseqno[p])
     ELSE Immediate(p, "vnak", iseqno[p], iseqno[p])
  /\ UNCHANGED <<pvt, oseqno, iseqno, rseqno, tx, queue, history>>

\* Variant of InWindow: whatever is acknowledged counts.
InWindow_Any(p, i) == TRUE

\* The test that qualifies an acknowledgement: comparisons of octets.
InWindow(p, i) ==
  LET x == IF rseqno[p] >= oseqno[p] \/ (i >= rseqno[p] /\ i < oseqno[p])
           THEN i ELSE oseqno[p]
  IN x # oseqno[p] \/ oseqno[p] = i

\* for (x = rseqno; x != fr->iseqno; x++), x an octet.
Covered(p, i, x) == Octet(x - rseqno[p]) < Octet(i - rseqno[p])

\* The frames an acknowledgement of everything before i calls off.
AckedBy(p, i) == {f \in queue[p] : InWindow(p, i) /\ Covered(p, i, f.oseqno)}
Marked(p, i) == (queue[p] \ AckedBy(p, i)) \cup Cancelled(AckedBy(p, i))
FinalAcked(p, i) == \E f \in AckedBy(p, i) : f.final

NoteAcked(p, i) == acked' = [acked EXCEPT ![p] = @ \cup {f.n : f \in AckedBy(p, i)}]
NoteWindow(p, i) ==
  /\ rseqno' = [rseqno EXCEPT ![p] = IF InWindow(p, i) THEN i ELSE @]
  /\ NoteAcked(p, i)

\* The last frame of the call is acknowledged: nothing else is done with m.
ProcessFinalAck(p, m) ==
  /\ iaxs[p] /\ ~OutOfOrder(p, m) /\ m.kind # "inval"
  /\ FinalAcked(p, m.iseqno)
  /\ NoteAcked(p, m.iseqno)
  /\ iseqno' = [iseqno EXCEPT ![p] = IF Numbered(m) THEN Octet(@ + 1) ELSE @]
  /\ iax2_destroy(p, Marked(p, m.iseqno))
  /\ UNCHANGED <<owner, gone, error, destroying, oseqno, rseqno, aseqno, tx, net,
                 start, sent, delivered>>

InOrder(p, m, kind) ==
  /\ iaxs[p] /\ m.kind = kind /\ ~OutOfOrder(p, m)
  /\ ~FinalAcked(p, m.iseqno)

\* A frame in order: its handler may send a frame, which acknowledges it; else
\* an ACK is sent.
ProcessData(p, m) ==
  LET i == Octet(iseqno[p] + 1)
  IN /\ InOrder(p, m, "data")
     /\ iseqno' = [iseqno EXCEPT ![p] = i]
     /\ NoteWindow(p, m.iseqno)
     /\ queue' = [queue EXCEPT ![p] = Marked(p, m.iseqno)]
     /\ delivered' = [delivered EXCEPT ![p] = Append(@, m.n)]
     /\ \/ MayWrite(p) /\ iax2_send(p, FALSE, i) /\ UNCHANGED net
        \/ /\ IF aseqno[p] # i THEN Immediate(p, "ack", m.iseqno, i)
                               ELSE UNCHANGED <<net, aseqno>>
           /\ UNCHANGED <<oseqno, tx, sent>>
     /\ UNCHANGED <<pvt, start>>

\* IAX_COMMAND_HANGUP: acknowledged at once, then the call goes away.
ProcessHangup(p, m) ==
  LET i == Octet(iseqno[p] + 1)
  IN /\ InOrder(p, m, "hangup")
     /\ iseqno' = [iseqno EXCEPT ![p] = i]
     /\ NoteWindow(p, m.iseqno)
     /\ delivered' = [delivered EXCEPT ![p] = Append(@, m.n)]
     /\ gone' = [gone EXCEPT ![p] = TRUE]
     /\ Immediate(p, "ack", m.iseqno, i)
     /\ iax2_destroy(p, Marked(p, m.iseqno))
     /\ UNCHANGED <<owner, error, destroying, oseqno, tx, start, sent>>

ProcessAck(p, m) ==
  /\ InOrder(p, m, "ack")
  /\ NoteWindow(p, m.iseqno)
  /\ queue' = [queue EXCEPT ![p] = Marked(p, m.iseqno)]
  /\ UNCHANGED <<pvt, oseqno, iseqno, aseqno, tx, net, start, sent, delivered>>

\* vnak_retransmit sends the frames from m.iseqno on as they were last sent.
ProcessVnak(p, m) ==
  /\ InOrder(p, m, "vnak")
  /\ NoteWindow(p, m.iseqno)
  /\ queue' = [queue EXCEPT ![p] = Marked(p, m.iseqno)]
  /\ send_packet(p, {OnWire(f) : f \in {g \in Marked(p, m.iseqno) :
                        Octet(g.oseqno - m.iseqno) < 128 /\ g.retries >= 0}})
  /\ UNCHANGED <<pvt, oseqno, iseqno, aseqno, tx, start, sent, delivered>>

ProcessInval(p, m) ==
  /\ iaxs[p] /\ m.kind = "inval"
  /\ error' = [error EXCEPT ![p] = TRUE]
  /\ iax2_destroy(p, queue[p])
  /\ UNCHANGED <<owner, gone, destroying, seqnos, tx, net, history>>

socket_process(p) ==
  /\ reading[p] # NoPacket
  /\ LET m == reading[p]
     IN \/ ProcessUnknown(p, m) \/ ProcessOutOfOrder(p, m) \/ ProcessFinalAck(p, m)
        \/ ProcessData(p, m) \/ ProcessHangup(p, m)
        \/ ProcessAck(p, m) \/ ProcessVnak(p, m) \/ ProcessInval(p, m)
  /\ reading' = [reading EXCEPT ![p] = NoPacket]

Next ==
  \E p \in Peers :
    \/ iax2_write(p) \/ iax2_hangup(p) \/ scheduled_destroy(p)
    \/ transmit_frame(p) \/ attempt_transmit(p)
    \/ find_callno(p) \/ socket_process(p)

Spec == Init /\ [][Next]_vars

\* transmit_processor runs, timers fire, a thread that has a packet processes
\* it, and a channel that was told to hang up does.  Nothing is asked of the
\* network.
LiveSpec ==
  /\ Spec
  /\ \A p \in Peers :
       /\ WF_vars(transmit_frame(p)) /\ WF_vars(attempt_transmit(p))
       /\ WF_vars(scheduled_destroy(p)) /\ WF_vars(socket_process(p))
       /\ WF_vars(prodded[p] /\ iax2_hangup(p))

-----------------------------------------------------------------------------
(* Properties.                                                             *)

TypeOK ==
  /\ iaxs \in [Peers -> BOOLEAN] /\ known \in [Peers -> BOOLEAN] /\ owner \in [Peers -> BOOLEAN]
  /\ gone \in [Peers -> BOOLEAN] /\ error \in [Peers -> BOOLEAN]
  /\ prodded \in [Peers -> BOOLEAN] /\ destroying \in [Peers -> BOOLEAN]
  /\ oseqno \in [Peers -> Octets] /\ iseqno \in [Peers -> Octets]
  /\ rseqno \in [Peers -> Octets] /\ aseqno \in [Peers -> Octets]
  /\ tx \in [Peers -> Seq(Frame)] /\ queue \in [Peers -> SUBSET Frame]
  /\ reading \in [Peers -> Packet \cup {NoPacket}] /\ net \in [Peers -> SUBSET Packet]
  /\ start \in Nat /\ sent \in [Peers -> Nat]
  /\ delivered \in [Peers -> Seq(Nat)] /\ acked \in [Peers -> SUBSET Nat]

\* Whatever the network does, an end is given the frames of the other in the
\* order they were sent, each once and none left out, across the wrap of the
\* octets: the sequence test of socket_process, its ACK of old frames and its
\* VNAK of early ones.
InOrderOnce ==
  \A p \in Peers :
    /\ Len(delivered[p]) <= sent[Other(p)]
    /\ \A i \in 1..Len(delivered[p]) : delivered[p][i] = i

\* A frame whose retransmission was called off had been given to the other end:
\* an acknowledgement, however old, never covers a frame that may be lost.  This
\* is what the window test of socket_process is for.
AckedWasReceived ==
  \A p \in Peers : \A n \in acked[p] : n <= Len(delivered[Other(p)])

\* Without anything being asked of the network, a frame that was sent reaches the
\* other end or the sender's call is given up: no frame is silently lost in a
\* call that stays up.
SentIsDelivered ==
  \A p \in Peers : \A n \in 1..(MaxSends[p + 1] + 1) :
    (sent[p] >= n) ~> (Len(delivered[Other(p)]) >= n \/ ~iaxs[p] \/ error[p])

\* A call that failed, was hung up, or was hung up by the peer is destroyed:
\* iax2_destroy leaves it to the owner, iax2_hangup to scheduled_destroy.
CallIsDestroyed ==
  \A p \in Peers : (error[p] \/ gone[p]) ~> ~iaxs[p]
=============================================================================
