-------------------------------- MODULE Local --------------------------------
(***************************************************************************)
(* The Local proxy channel of channels/chan_local.c: a pair of channels    *)
(* "o" (p->owner, Local/...;1) and "c" (p->chan, Local/...;2) that share   *)
(* one reference counted pvt, "c" bridged to a channel "b" of another      *)
(* driver, and what main/channel.c does with them: ast_call, ast_read,     *)
(* ast_write, ast_hangup and ast_do_masquerade, which takes the pair out   *)
(* of the call.                                                            *)
(*                                                                         *)
(* Thread "O" called the pair and services "o"; thread "P" is the PBX that *)
(* local_call starts on "c", which dials "b" and bridges the two.  Every   *)
(* wait for the lock of a channel or of the container channels is a step   *)
(* of its own.  The pvt's lock is not a variable: no thread waits for      *)
(* another lock while it holds it (it only tries, or takes one it has), so *)
(* what is done under it is part of one step.                              *)
(***************************************************************************)
EXTENDS Naturals, Sequences, FiniteSets

CONSTANTS MaxFrames,  \* bound: voice frames the far end of "b" sends
          MaxBack,    \* bound: voice frames O sends
          NoOpts      \* whether the pair is created with "/n", as a set

ASSUME LocalConstants ==
  MaxFrames \in Nat /\ MaxBack \in Nat /\ NoOpts \subseteq BOOLEAN

Threads == {"O", "P"}
Chans == {"o", "c", "b"}
Locks == Chans \cup {"channels"}
None == "none"
HANGUP == MaxFrames + 1       \* the hangup control frame
NULLFRAME == MaxFrames + 2
BACK == MaxFrames + 3         \* a voice frame from O

VARIABLES
  lock,    \* who holds the lock of a channel, or of the container channels
  pvt,     \* struct local_pvt: owner, chan, its flags and references
  chan,    \* the channels: whose tech_pvt, references, zombie, _softhangup, readq
  bridged, \* c->_bridge and b->_bridge point at each other
  masq,    \* o->masq is b, and b->masqr is o
  pc,      \* where a thread is
  ast,     \* the channel its operation is about
  found,   \* the channels awesome_locking or local_queue_frame found in the pvt
  hand,    \* the frame it writes
  stack,   \* the calls it has to return from
  sent, back, heard  \* history: frames sent by the far end and by O, the last one O read

data == <<pvt, chan, bridged, masq>>
history == <<sent, back, heard>>
vars == <<lock, data, pc, ast, found, hand, stack, history>>

Unfound == [chan |-> None, owner |-> None]

Init ==
  /\ lock = [l \in Locks |-> None]
  /\ \E noopt \in NoOpts :
       pvt = [owner |-> "o", chan |-> "c", refs |-> 1, linked |-> TRUE,
              masqed |-> FALSE, launched |-> FALSE, noopt |-> noopt]
  /\ chan = [x \in Chans |->
               [tech |-> IF x = "b" THEN None ELSE "local", refs |-> IF x = "b" THEN 0 ELSE 1,
                zombie |-> FALSE, soft |-> FALSE, readq |-> <<>>]]
  /\ bridged = FALSE /\ masq = FALSE
  /\ pc = [t \in Threads |-> IF t = "O" THEN "call" ELSE "none"]
  /\ ast = [t \in Threads |-> IF t = "O" THEN "o" ELSE "c"]
  /\ found = [t \in Threads |-> Unfound]
  /\ hand = [t \in Threads |-> IF t = "O" THEN BACK ELSE NULLFRAME]
  /\ stack = [t \in Threads |-> <<>>]
  /\ sent = 0 /\ back = 0 /\ heard = 0

-----------------------------------------------------------------------------
\* Locks, references, queues and calls

Free(S) == \A l \in S : lock[l] = None
Take(t, S) == lock' = [l \in Locks |-> IF l \in S THEN t ELSE lock[l]]
Drop(S) == lock' = [l \in Locks |-> IF l \in S THEN None ELSE lock[l]]

\* The channels f once a reference was taken to, or dropped from, those in S.
Ref(f, S) == [x \in Chans |-> IF x \in S THEN [f[x] EXCEPT !.refs = @ + 1] ELSE f[x]]
Unref(f, S) == [x \in Chans |-> IF x \in S THEN [f[x] EXCEPT !.refs = @ - 1] ELSE f[x]]

\* The channels f once fr was queued on x: nothing is queued behind a hangup.
ast_queue_frame(f, x, fr) ==
  [f EXCEPT ![x].readq = IF @ # <<>> /\ @[Len(@)] = HANGUP THEN @ ELSE Append(@, fr)]

Goto(t, l) == pc' = [pc EXCEPT ![t] = l] /\ UNCHANGED <<ast, stack>>

\* t goes to l to work on x, and will then go on at each of the steps in turn.
Call(t, l, x, steps) ==
  /\ pc' = [pc EXCEPT ![t] = l]
  /\ ast' = [ast EXCEPT ![t] = x]
  /\ stack' = [stack EXCEPT ![t] = [i \in DOMAIN steps |->
                 [pc |-> steps[i], ast |-> IF i = Len(steps) THEN ast[t] ELSE x]] \o @]

Return(t) ==
  /\ pc' = [pc EXCEPT ![t] = Head(stack[t]).pc]
  /\ ast' = [ast EXCEPT ![t] = Head(stack[t]).ast]
  /\ stack' = [stack EXCEPT ![t] = Tail(@)]

Got(t) == {found[t].chan, found[t].owner} \ {None}
IS_OUTBOUND(x) == pvt.chan = x

-----------------------------------------------------------------------------
\* awesome_locking: both channels are locked, and are still the pvt's pair.

AwesomeLook(t) ==
  /\ pc[t] = "a_look"
  /\ found' = [found EXCEPT ![t] = [chan |-> pvt.chan, owner |-> pvt.owner]]
  /\ chan' = Ref(chan, {pvt.chan, pvt.owner})
  /\ Goto(t, "a_chan")
  /\ UNCHANGED <<lock, pvt, bridged, masq, hand, history>>

\* With both channels, the outbound one comes first.
AwesomeChan(t) ==
  /\ pc[t] = "a_chan"
  /\ LET both  == Cardinality(Got(t)) = 2
         first == IF both THEN {found[t].chan} ELSE Got(t)
     IN  /\ Free(first) /\ Take(t, first)
         /\ Goto(t, IF both THEN "a_owner" ELSE "a_pvt")
  /\ UNCHANGED <<data, found, hand, history>>

\* ast_channel_trylock, and CHANNEL_DEADLOCK_AVOIDANCE when it fails.
AwesomeOwner(t) ==
  /\ pc[t] = "a_owner"
  /\ \/ Free({found[t].owner}) /\ Take(t, {found[t].owner}) /\ Goto(t, "a_pvt")
     \/ ~Free({found[t].owner}) /\ Drop({found[t].chan}) /\ Goto(t, "a_chan")
  /\ UNCHANGED <<data, found, hand, history>>

\* What was found is not the pvt's pair any more: all starts over.
AwesomeRetry(t) ==
  /\ pc[t] = "a_pvt" /\ found[t] # [chan |-> pvt.chan, owner |-> pvt.owner]
  /\ Drop(Got(t))
  /\ chan' = Unref(chan, Got(t))
  /\ found' = [found EXCEPT ![t] = Unfound]
  /\ Goto(t, "a_look")
  /\ UNCHANGED <<pvt, bridged, masq, hand, history>>

\* awesome_locking has returned to the step l of its caller.
Locked(t, l) ==
  /\ pc[t] = "a_pvt" /\ found[t] = [chan |-> pvt.chan, owner |-> pvt.owner]
  /\ Head(stack[t]).pc = l

awesome_locking(t) == AwesomeLook(t) \/ AwesomeChan(t) \/ AwesomeOwner(t) \/ AwesomeRetry(t)

-----------------------------------------------------------------------------
\* local_hangup, entered with ast locked: the pvt gets a reference, ast is unlocked.

local_hangup(t, x, then) == Call(t, "a_look", x, <<"hangup", "back", then>>)

\* The pvt and the channels once ast has left the pair.
PvtLeft(x) ==
  IF IS_OUTBOUND(x) THEN [pvt EXCEPT !.chan = None, !.launched = FALSE]
                    ELSE [pvt EXCEPT !.owner = None]

\* The inbound channel's end is told to the outbound one with ast_queue_hangup.
ChansLeft(x) ==
  LET f == [chan EXCEPT ![x].tech = None]
  IN  IF IS_OUTBOUND(x) \/ pvt.chan = None THEN f
      ELSE ast_queue_frame([f EXCEPT ![pvt.chan].soft = TRUE], pvt.chan, HANGUP)

\* Nobody is left: the pvt goes.
HangupLast(t) ==
  /\ Locked(t, "hangup")
  /\ LET p == PvtLeft(ast[t])
     IN  /\ p.owner = None /\ p.chan = None
         /\ pvt' = [p EXCEPT !.linked = FALSE, !.refs = @ - 2]
  /\ chan' = Unref(ChansLeft(ast[t]), Got(t))
  /\ Drop(Got(t))
  /\ found' = [found EXCEPT ![t] = Unfound]
  /\ pc' = [pc EXCEPT ![t] = "back"]
  /\ stack' = [stack EXCEPT ![t] = Tail(Tail(@))]
  /\ UNCHANGED <<bridged, masq, ast, hand, history>>

\* There is no PBX on the outbound channel: it has to be hung up from here.
HangupAlone(t) ==
  /\ Locked(t, "hangup")
  /\ LET p == PvtLeft(ast[t])
     IN  /\ p.chan # None /\ ~p.launched
         /\ pvt' = [p EXCEPT !.refs = @ - 1]
  /\ chan' = Unref(ChansLeft(ast[t]), {found[t].owner})
  /\ Drop(Got(t))
  /\ found' = [found EXCEPT ![t] = Unfound]
  /\ pc' = [pc EXCEPT ![t] = "h_start"]
  /\ ast' = [ast EXCEPT ![t] = found[t].chan]
  /\ stack' = [stack EXCEPT ![t] = <<[pc |-> "unref", ast |-> ast[t]]>> \o Tail(@)]
  /\ UNCHANGED <<bridged, masq, hand, history>>

Other(x) == IF IS_OUTBOUND(x) THEN pvt.owner ELSE pvt.chan

\* Variant of ToldOther: the end of the outbound channel is not passed on.
ToldOther_NoFrame(x) == ChansLeft(x)

\* The other side gets a hangup frame, in local_queue_frame, which releases the pvt's lock.
ToldOther(x) == ast_queue_frame(ChansLeft(x), Other(x), HANGUP)

HangupOther(t) ==
  /\ Locked(t, "hangup")
  /\ LET p == PvtLeft(ast[t])
     IN  /\ {p.owner, p.chan} # {None} /\ (p.chan = None \/ p.launched)
         /\ pvt' = p
  /\ chan' = ToldOther(ast[t])
  /\ pc' = [pc EXCEPT ![t] = "cleanup"]
  /\ stack' = [stack EXCEPT ![t] = Tail(@)]
  /\ UNCHANGED <<lock, bridged, masq, ast, found, hand, history>>

HangupCleanup(t) ==
  /\ pc[t] = "cleanup"
  /\ pvt' = [pvt EXCEPT !.refs = @ - 1]
  /\ chan' = Unref(chan, Got(t))
  /\ Drop(Got(t))
  /\ found' = [found EXCEPT ![t] = Unfound]
  /\ Return(t)
  /\ UNCHANGED <<bridged, masq, hand, history>>

\* The outbound channel was hung up from here.
HangupUnref(t) ==
  /\ pc[t] = "unref"
  /\ chan' = Unref(chan, {"c"})
  /\ Return(t)
  /\ UNCHANGED <<lock, pvt, bridged, masq, found, hand, history>>

\* ast is locked again for the caller, who unlocks it.
HangupBack(t) ==
  /\ pc[t] = "back" /\ Free({ast[t]})
  /\ Return(t)
  /\ UNCHANGED <<lock, data, found, hand, history>>

LocalHangup(t) ==
  \/ HangupLast(t) \/ HangupAlone(t) \/ HangupOther(t)
  \/ HangupCleanup(t) \/ HangupUnref(t) \/ HangupBack(t)

-----------------------------------------------------------------------------
\* ast_hangup

\* A planned masquerade is done first; P never hangs "b" up while one is planned, since
\* only P plans it and then does it itself.
HangupStart(t) ==
  /\ pc[t] = "h_start" /\ Free({ast[t]})
  /\ IF ast[t] = "o" /\ masq
     THEN Call(t, "m_list", "o", <<"h_start">>) /\ UNCHANGED chan
     ELSE /\ Goto(t, IF chan[ast[t]].zombie THEN "u_zombie" ELSE "u_tech")
          /\ chan' = [chan EXCEPT ![ast[t]].zombie = TRUE]
  /\ UNCHANGED <<lock, pvt, bridged, masq, found, hand, history>>

\* The channel is unlinked from the container.
HangupUnlink(t) ==
  /\ pc[t] \in {"u_tech", "u_zombie"} /\ Free({"channels"})
  /\ Goto(t, IF pc[t] = "u_tech" THEN "h_tech" ELSE "h_zombie")
  /\ UNCHANGED <<lock, data, found, hand, history>>

\* It is locked again, and its driver hangs up; a zombie has none.
HangupTech(t) ==
  /\ pc[t] \in {"h_tech", "h_zombie"} /\ Free({ast[t]})
  /\ IF pc[t] = "h_tech" /\ chan[ast[t]].tech = "local"
     THEN /\ local_hangup(t, ast[t], "h_free")
          /\ pvt' = [pvt EXCEPT !.refs = @ + 1]
          /\ UNCHANGED chan
     ELSE /\ Goto(t, "h_free")
          /\ chan' = IF pc[t] = "h_tech" THEN [chan EXCEPT ![ast[t]].tech = None] ELSE chan
          /\ UNCHANGED pvt
  /\ UNCHANGED <<lock, bridged, masq, found, hand, history>>

HangupFree(t) ==
  /\ pc[t] = "h_free"
  /\ chan' = Unref(chan, {ast[t]})
  /\ Return(t)
  /\ UNCHANGED <<lock, pvt, bridged, masq, found, hand, history>>

ast_hangup(t) == HangupStart(t) \/ HangupUnlink(t) \/ HangupTech(t) \/ HangupFree(t)

-----------------------------------------------------------------------------
\* ast_do_masquerade of "o", into which "b" goes

MasqList(t) ==
  /\ pc[t] = "m_list" /\ Free({"channels"})
  /\ Take(t, {"channels"})
  /\ Goto(t, "m_look")
  /\ UNCHANGED <<data, found, hand, history>>

MasqLook(t) ==
  /\ pc[t] = "m_look" /\ Free({"o"})
  /\ \/ masq /\ chan' = Ref(chan, {"o", "b"}) /\ Goto(t, "m_swap") /\ UNCHANGED lock
     \/ ~masq /\ Drop({"channels"}) /\ Return(t) /\ UNCHANGED chan
  /\ UNCHANGED <<pvt, bridged, masq, found, hand, history>>

\* Variant of local_fixup: only the outbound channel is replaced.
local_fixup_ChanOnly(p, oldchan, newchan) ==
  IF p.chan = oldchan THEN [p EXCEPT !.chan = newchan] ELSE p

\* local_fixup, which lets a pair be bridged to itself only when newchan is hung up, as it is here.
local_fixup(p, oldchan, newchan) ==
  IF p.owner = oldchan THEN [p EXCEPT !.owner = newchan]
  ELSE IF p.chan = oldchan THEN [p EXCEPT !.chan = newchan] ELSE p

\* What the two channels are afterwards; the frames of the clone come first.
Swapped(f) ==
  [f EXCEPT !["o"].tech = f["b"].tech, !["o"].readq = f["b"].readq \o @,
            !["b"].tech = f["o"].tech, !["b"].readq = <<NULLFRAME>>,
            !["b"].soft = TRUE, !["b"].zombie = TRUE]

\* Both are locked while their contents are exchanged; then the clone's driver, which was
\* the original's, hangs up.
MasqSwap(t) ==
  /\ pc[t] = "m_swap" /\ Free({"o", "b"})
  /\ chan' = Swapped(chan)
  /\ pvt' = [local_fixup(pvt, "o", "b") EXCEPT !.refs = @ + 1]
  /\ masq' = FALSE
  /\ local_hangup(t, "b", "m_done")
  /\ UNCHANGED <<lock, bridged, found, hand, history>>

\* The original is locked once more, with the container still locked, to see whom it is bridged to.
MasqDone(t) ==
  /\ pc[t] = "m_done" /\ Free({"o"})
  /\ chan' = Unref(chan, {"o", "b"})
  /\ Drop({"channels"})
  /\ Return(t)
  /\ UNCHANGED <<pvt, bridged, masq, found, hand, history>>

ast_do_masquerade(t) == MasqList(t) \/ MasqLook(t) \/ MasqSwap(t) \/ MasqDone(t)

-----------------------------------------------------------------------------
\* local_call, which O enters and leaves with "o" locked

CallBegin ==
  /\ pc["O"] = "call" /\ Free({"o"})
  /\ pvt' = [pvt EXCEPT !.refs = @ + 1]
  /\ Call("O", "a_look", "o", <<"locked">>)
  /\ UNCHANGED <<lock, chan, bridged, masq, found, hand, history>>

\* The outbound channel has what it inherits, and is unlocked.  Both ends are there: only O has the
\* pair until the PBX starts.
CallLocked ==
  /\ Locked("O", "locked")
  /\ Drop({"c"})
  /\ pc' = [pc EXCEPT !["O"] = "pbx"]
  /\ stack' = [stack EXCEPT !["O"] = <<>>]
  /\ UNCHANGED <<data, ast, found, hand, history>>

\* return_cleanup
CallCleanup(p) ==
  /\ pvt' = [p EXCEPT !.refs = @ - 1]
  /\ chan' = Unref(chan, {"o", "c"})
  /\ Drop({"o"})
  /\ found' = [found EXCEPT !["O"] = Unfound]
  /\ UNCHANGED <<bridged, masq, hand, history>>

\* There is no such extension, or the PBX does not start: the caller hangs up.
CallFails ==
  /\ pc["O"] = "pbx"
  /\ CallCleanup(pvt)
  /\ Call("O", "h_start", "o", <<"done">>)

CallStarts ==
  /\ pc["O"] = "pbx"
  /\ pc' = [pc EXCEPT !["O"] = "flag", !["P"] = "dial"]
  /\ UNCHANGED <<lock, data, ast, found, hand, stack, history>>

\* Variant of Launched: the flag is not set.
Launched_NoFlag == pvt

Launched == [pvt EXCEPT !.launched = TRUE]

CallLaunched ==
  /\ pc["O"] = "flag"
  /\ CallCleanup(Launched)
  /\ Goto("O", "talk")

local_call == CallBegin \/ CallLocked \/ CallFails \/ CallStarts \/ CallLaunched

-----------------------------------------------------------------------------
\* local_write, reached from ast_write with ast locked

Written(t) == Goto(t, "talk") /\ hand' = [hand EXCEPT ![t] = IF t = "O" THEN BACK ELSE NULLFRAME]

\* Variant of UnlockUs: ast stays locked while the other side's lock is awaited.
UnlockUs_Not(t) == Take(t, {ast[t]})

UnlockUs(t) == Drop({ast[t]})

\* local_queue_frame, when the pair is still in the call and its other side is there: that side
\* gets a reference, and ast and the pvt are unlocked.  Otherwise local_write is over.
QueueStart(t, f, p) ==
  IF p.masqed \/ Other(ast[t]) = None
  THEN /\ pvt' = [p EXCEPT !.refs = @ - 1]
       /\ chan' = f
       /\ Drop({ast[t]})
       /\ Written(t)
       /\ UNCHANGED found
  ELSE /\ pvt' = p
       /\ chan' = Ref(f, {Other(ast[t])})
       /\ found' = [found EXCEPT ![t].owner = Other(ast[t])]
       /\ UnlockUs(t)
       /\ Goto(t, "w_other") /\ UNCHANGED hand

MayOptimize == ~pvt.noopt /\ ~pvt.masqed /\ pvt.chan # None /\ pvt.owner # None

\* ast_write: no frame is written to a channel that is a zombie, has a soft hangup, or does not
\* get unlocked in time; a planned masquerade is done first, after which the driver has it.
\* The first part of check_bridge looks whether the pair can be taken out of the call.
WriteStart(t) ==
  /\ pc[t] = "w_start"
  /\ LET x == ast[t]
     IN  \/ /\ ~Free({x}) \/ chan[x].zombie \/ chan[x].soft \/ chan[x].tech # "local"
            /\ Written(t)
            /\ UNCHANGED <<lock, pvt, chan, found>>
         \/ /\ Free({x}) /\ ~chan[x].zombie /\ ~chan[x].soft /\ x = "o" /\ masq
            /\ Call(t, "m_list", "o", <<"talk">>)
            /\ UNCHANGED <<lock, pvt, chan, found, hand>>
         \/ /\ Free({x}) /\ ~chan[x].zombie /\ ~chan[x].soft /\ chan[x].tech = "local"
            /\ ~(x = "o" /\ masq)
            /\ IF IS_OUTBOUND(x) /\ MayOptimize
               THEN /\ pvt' = [pvt EXCEPT !.refs = @ + 1]
                    /\ chan' = Ref(chan, {pvt.chan})
                    /\ Take(t, {x})
                    /\ Goto(t, "w_bridged")
                    /\ UNCHANGED <<found, hand>>
               ELSE QueueStart(t, chan, [pvt EXCEPT !.refs = @ + 1])
  /\ UNCHANGED <<bridged, masq, history>>

\* Variant of QuietOwner: frames that wait on the owner do not matter.
QuietOwner_Any == TRUE

\* Frames on the owner would come behind those of the bridged channel.
QuietOwner == chan[pvt.owner].readq = <<>>

\* The second part of check_bridge, with the pvt locked again and all else only tried.  The owner's
\* queue is looked at before its lock is tried: until the pair is masqueraded only t adds to it.
CanTry ==
  /\ MayOptimize /\ bridged
  /\ QuietOwner
  /\ Free({"b", pvt.owner}) /\ ~chan["b"].soft

\* The channels once a voice frame was flushed from the head of the outbound queue.
Flushed ==
  LET q == chan[pvt.chan].readq
  IN  IF q # <<>> /\ Head(q) = BACK THEN [chan EXCEPT ![pvt.chan].readq = Tail(q)] ELSE chan

CanMasquerade ==
  /\ Flushed[pvt.chan].readq = <<>>
  /\ ~chan[pvt.owner].soft /\ ~chan[pvt.owner].zombie /\ ~chan["b"].zombie

\* The masquerade is set up: both channels get a null frame to read.
Planned == ast_queue_frame(ast_queue_frame(Flushed, "o", NULLFRAME), "b", NULLFRAME)

WriteBridged(t) ==
  /\ pc[t] = "w_bridged"
  /\ IF CanTry /\ CanMasquerade
     THEN /\ masq' = TRUE
          /\ pvt' = [pvt EXCEPT !.masqed = TRUE]
          /\ chan' = Ref(Unref(Planned, {"c"}), {"o"})
          /\ Drop({"c"})
          /\ Call(t, "m_list", "o", <<"w_again">>)
          /\ UNCHANGED <<found, hand>>
     ELSE /\ QueueStart(t, Unref(IF CanTry THEN Flushed ELSE chan, {"c"}), pvt)
          /\ UNCHANGED masq
  /\ UNCHANGED <<bridged, history>>

\* The masquerade is done: local_write finds LOCAL_ALREADY_MASQED, and drops the frame.
WriteAgain(t) ==
  /\ pc[t] = "w_again" /\ Free({ast[t]})
  /\ pvt' = [pvt EXCEPT !.refs = @ - 1]
  /\ chan' = Unref(chan, {"o"})
  /\ Written(t)
  /\ UNCHANGED <<lock, bridged, masq, found, history>>

WriteOther(t) ==
  /\ pc[t] = "w_other" /\ Free({found[t].owner})
  /\ chan' = Unref(ast_queue_frame(chan, found[t].owner, hand[t]), {found[t].owner})
  /\ found' = [found EXCEPT ![t] = Unfound]
  /\ Goto(t, "w_back")
  /\ UNCHANGED <<lock, pvt, bridged, masq, hand, history>>

\* ast is locked again, for ast_write to unlock it.
WriteBack(t) ==
  /\ pc[t] = "w_back" /\ lock[ast[t]] \in {None, t}
  /\ pvt' = [pvt EXCEPT !.refs = @ - 1]
  /\ Drop({ast[t]})
  /\ Written(t)
  /\ UNCHANGED <<chan, bridged, masq, found, history>>

local_write(t) ==
  WriteStart(t) \/ WriteBridged(t) \/ WriteAgain(t) \/ WriteOther(t) \/ WriteBack(t)

Operation(t) ==
  \/ awesome_locking(t) \/ LocalHangup(t) \/ ast_hangup(t)
  \/ ast_do_masquerade(t) \/ local_write(t)

-----------------------------------------------------------------------------
\* The threads

Resting(t) == pc[t] \in {"call", "talk", "none", "done"}

\* The channels once x was read, and what was read.  A soft hangup marks the end of the queue (an
\* end-of-queue mark is read, and keeps others out, as a hangup does); frames before it are read.
Ending(x) == IF chan[x].soft THEN ast_queue_frame(chan, x, HANGUP) ELSE chan
NextFrame(x) == Head(Ending(x)[x].readq)
ast_read(x) ==
  [Ending(x) EXCEPT ![x].readq = Tail(@), ![x].soft = @ \/ NextFrame(x) = HANGUP]

\* O reads: a planned masquerade is done first; a hangup ends the call.
OwnerReads ==
  /\ pc["O"] = "talk" /\ Free({"o"})
  /\ \/ /\ masq
        /\ Call("O", "m_list", "o", <<"talk">>)
        /\ UNCHANGED <<chan, heard>>
     \/ /\ ~masq /\ chan["o"].readq # <<>>
        /\ chan' = ast_read("o")
        /\ IF NextFrame("o") = HANGUP THEN Call("O", "h_start", "o", <<"done">>)
                                      ELSE UNCHANGED <<pc, ast, stack>>
        /\ heard' = IF NextFrame("o") < HANGUP THEN NextFrame("o") ELSE heard
  /\ UNCHANGED <<lock, pvt, bridged, masq, found, hand, sent, back>>

OwnerWrites ==
  /\ pc["O"] = "talk" /\ back < MaxBack
  /\ back' = back + 1
  /\ Goto("O", "w_start")
  /\ UNCHANGED <<lock, data, found, hand, sent, heard>>

\* O ends the call, or does not place it at all.
OwnerHangsUp ==
  /\ pc["O"] \in {"call", "talk"}
  /\ Call("O", "h_start", "o", <<"done">>)
  /\ UNCHANGED <<lock, data, found, hand, history>>

\* P has dialled and bridges, or hangs up.
Dials ==
  /\ pc["P"] = "dial"
  /\ \/ /\ bridged' = TRUE
        /\ chan' = [chan EXCEPT !["b"].refs = 1, !["b"].tech = "driver"]
        /\ Goto("P", "talk")
     \/ /\ Call("P", "h_start", "c", <<"done">>)
        /\ UNCHANGED <<chan, bridged>>
  /\ UNCHANGED <<lock, pvt, masq, found, hand, history>>

\* The bridge reads one of its channels and writes to the other; a hangup ends it.
BridgeReads(x) ==
  /\ pc["P"] = "talk" /\ bridged /\ Free({x}) /\ chan[x].readq # <<>>
  /\ chan' = ast_read(x)
  /\ bridged' = (NextFrame(x) # HANGUP)
  /\ \/ /\ NextFrame(x) = HANGUP
        /\ Call("P", "h_start", "b", <<"talk">>)
        /\ UNCHANGED hand
     \/ /\ x = "b" /\ NextFrame(x) < HANGUP
        /\ Goto("P", "w_start")
        /\ hand' = [hand EXCEPT !["P"] = NextFrame(x)]
     \/ /\ NextFrame(x) # HANGUP /\ (x = "c" \/ NextFrame(x) = NULLFRAME)
        /\ UNCHANGED <<pc, ast, stack, hand>>
  /\ UNCHANGED <<lock, pvt, masq, found, history>>

\* ast_generic_bridge starts over, because a masquerade changed one of the channels, or for some
\* other reason, and ast_channel_bridge finds a zombie or a soft hangup.
BridgeEnds ==
  /\ pc["P"] = "talk" /\ bridged
  /\ \E x \in {"b", "c"} : Free({x}) /\ (chan[x].zombie \/ chan[x].soft)
  /\ bridged' = FALSE
  /\ Call("P", "h_start", "b", <<"talk">>)
  /\ UNCHANGED <<lock, pvt, chan, masq, found, hand, history>>

PbxEnds ==
  /\ pc["P"] = "talk" /\ ~bridged
  /\ Call("P", "h_start", "c", <<"done">>)
  /\ UNCHANGED <<lock, data, found, hand, history>>

Pbx == Dials \/ BridgeReads("b") \/ BridgeReads("c") \/ BridgeEnds \/ PbxEnds

-----------------------------------------------------------------------------
\* The driver's far end, and the manager

FarSends ==
  /\ sent < MaxFrames
  /\ \E x \in {"o", "b"} :
       /\ chan[x].tech = "driver" /\ Free({x})
       /\ chan' = ast_queue_frame(chan, x, sent + 1)
  /\ sent' = sent + 1
  /\ UNCHANGED <<lock, pvt, bridged, masq, pc, ast, found, hand, stack, back, heard>>

\* ast_queue_hangup: the soft hangup is set only when the lock is free at once.
FarHangsUp ==
  /\ sent < HANGUP
  /\ \E x \in {"o", "b"}, soft \in BOOLEAN :
       /\ chan[x].tech = "driver" /\ Free({x})
       /\ chan' = ast_queue_frame([chan EXCEPT ![x].soft = @ \/ soft], x, HANGUP)
  /\ sent' = HANGUP
  /\ UNCHANGED <<lock, pvt, bridged, masq, pc, ast, found, hand, stack, back, heard>>

manager_optimize_away ==
  /\ pvt.linked /\ pvt.noopt
  /\ pvt' = [pvt EXCEPT !.noopt = FALSE]
  /\ UNCHANGED <<lock, chan, bridged, masq, pc, ast, found, hand, stack, history>>

Next ==
  \/ \E t \in Threads : Operation(t)
  \/ local_call \/ OwnerReads \/ OwnerWrites \/ OwnerHangsUp \/ Pbx
  \/ FarSends \/ FarHangsUp \/ manager_optimize_away

Spec == Init /\ [][Next]_vars

\* Every thread runs, a thread gets a lock that stays free, and O and the bridge read what is there
\* to be read.  Nothing makes O call, write or hang up, or the far end do anything.
LiveSpec ==
  /\ Spec
  /\ \A t \in Threads : WF_vars(Operation(t))
  /\ WF_vars(CallLocked \/ CallFails \/ CallStarts \/ CallLaunched)
  /\ WF_vars(OwnerReads) /\ WF_vars(Pbx)

-----------------------------------------------------------------------------
\* Properties

\* The channels that t, or a call it has to return to, still works on.
InUse(t) ==
  (IF pc[t] \in {"none", "done"} THEN {} ELSE {IF t = "O" THEN "o" ELSE "c"})
  \cup (IF Resting(t) THEN {} ELSE {ast[t]})
  \cup Got(t)
  \cup (IF pc[t] = "unref" THEN {"c"} ELSE {})
  \cup {stack[t][i].ast : i \in DOMAIN stack[t]}

\* t is in chan_local's code, which goes on to use the pvt.
UsesPvt(t) ==
  LET steps == {"a_look", "a_chan", "a_owner", "a_pvt", "cleanup", "pbx", "flag",
                "w_bridged", "w_other", "w_back", "w_again"}
  IN  pc[t] \in steps \/ \E i \in DOMAIN stack[t] : stack[t][i].pc \in steps

\* No thread works on a channel or on the pvt, and neither points at the other, once it is destroyed:
\* what awesome_locking, local_queue_frame, check_bridge and ast_do_masquerade do without a lock is
\* covered by the references they took, and a channel without a PBX is hung up by one thread only.
NoUseAfterFree ==
  /\ \A t \in Threads : \A x \in InUse(t) : chan[x].refs > 0
  /\ \A x \in {pvt.owner, pvt.chan} \ {None} : chan[x].refs > 0
  /\ masq => chan["o"].refs > 0 /\ chan["b"].refs > 0
  /\ (\E t \in Threads : UsesPvt(t)) => pvt.refs > 0
  /\ (\E x \in Chans : chan[x].tech = "local") => pvt.refs > 0

\* The channels whose tech_pvt is the pvt are the ones it has as owner and chan, through a masquerade
\* that moves one end to another channel and through hangups of both ends at once: local_hangup always
\* finds its channel in the pair (chan_local.c's test "ast != chan && ast != owner" never fires).
PairAgrees ==
  {x \in Chans : chan[x].tech = "local"} = {pvt.owner, pvt.chan} \ {None}

\* O reads what the far end sent, in order and once, whether it came through the pair, through the
\* queues that the masquerade joined, or from the driver afterwards; frames may be lost on the way.
FramesInOrder ==
  LET IsVoice(fr) == fr < HANGUP
      waiting == <<heard>> \o SelectSeq(chan["o"].readq, IsVoice)
  IN  \A i, j \in DOMAIN waiting : i < j => waiting[i] < waiting[j]

\* Once an end of the call is gone, or the pair was optimized out, the pair goes: the pvt, the outbound
\* channel and the one that was bridged to it are destroyed.  Unless the call goes on without the pair,
\* the owner is destroyed too.  This holds when the PBX never started, and when both ends hang up at once.
PairGoes ==
  LET ended  == sent = HANGUP \/ chan["o"].zombie
      goesOn == pvt.masqed /\ ~ended
  IN  (ended \/ chan["c"].zombie \/ pvt.masqed) ~>
        (pvt.refs = 0 /\ \A x \in Chans : chan[x].refs = 0 \/ (x = "o" /\ goesOn))

\* Every call, read, write, hangup and masquerade returns, so that a thread is again and again done: the lock of a channel is not awaited with
\* another one held, except in the order of awesome_locking.
OperationsReturn ==
  \A t \in Threads : []<>Resting(t)
=============================================================================
