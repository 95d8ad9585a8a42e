----------------------------- MODULE Masquerade -----------------------------
(***************************************************************************)
(* The life of channels in main/channel.c: linking into the `channels'     *)
(* container, reference counts, ast_channel_masquerade, ast_do_masquerade, *)
(* ast_change_name and ast_hangup, run by several threads at once.         *)
(*                                                                         *)
(* Every channel has the thread that services it and calls ast_hangup on   *)
(* it exactly once; it has the channel's name.  Transferers are the other  *)
(* threads: they find channels in the container, plan a masquerade and may *)
(* perform it.  A section that holds a channel lock from beginning to end  *)
(* is one action, except ast_do_masquerade's, which unlocks the original   *)
(* first and hangs up the clone's physical side with only the clone        *)
(* locked.  The container lock is `lock'.                                  *)
(*                                                                         *)
(* The physical side a channel was created with (tech and tech_pvt) has    *)
(* the channel's name too.  A string name keeps what matters of it: which  *)
(* channel it was made for, and how it was decorated since.                *)
(***************************************************************************)
EXTENDS Naturals, FiniteSets

CONSTANTS Chans,        \* the channels, their servicing threads and their physical sides
          Transferers,  \* threads that plan masquerades of channels they look up
          None          \* the null pointer

ASSUME MasqueradeConstants ==
  /\ IsFiniteSet(Chans) /\ IsFiniteSet(Transferers)
  /\ Chans \cap Transferers = {}
  /\ None \notin Chans \cup Transferers

VARIABLES
  refs,      \* ao2 reference count of each channel; zero once it is destroyed
  bucket,    \* the name under which the container holds the channel, or None
  name,      \* chan->name
  zombie,    \* AST_FLAG_ZOMBIE
  masq,      \* chan->masq: the channel that will masquerade into this one
  masqr,     \* chan->masqr: the channel this one will masquerade into
  pvt,       \* the physical side behind the channel, None once it is hung up
  hangups,   \* how many times a driver's hangup was called for each side
  lock,      \* the thread that holds the container lock
  pc,        \* where each thread is
  hanging,   \* the channels whose thread is inside ast_hangup
  orig,      \* each thread's `original': of ast_do_masquerade and of the transfer
  clone,     \* clonechan of ast_do_masquerade
  waszombie, \* was_zombie of ast_hangup and clone_was_zombie of ast_do_masquerade
  other      \* the channel a transferer wants to move into `orig'

vars == <<refs, bucket, name, zombie, masq, masqr, pvt, hangups, lock,
          pc, hanging, orig, clone, waszombie, other>>
chanvars == <<refs, bucket, name, zombie, masq, masqr, pvt, hangups>>

Threads == Chans \cup Transferers
Names == [base : Chans, tag : {"plain", "renamed", "zombie"}]
NoName == [base |-> None, tag |-> "plain"]

MasqPcs == {"m_lock", "m_check", "m_shuffle", "m_hangup", "m_link", "m_unref1", "m_unref2"}
ChanPcs == {"serve", "hangup", "h_unlink", "h_close", "h_unref", "gone"}
XferPcs == {"idle", "t_find", "t_plan", "t_drop1", "t_drop2"}

\* A channel is born linked, with the reference its creator got and the container's.
Init ==
  /\ refs = [c \in Chans |-> 2]
  /\ name = [c \in Chans |-> [base |-> c, tag |-> "plain"]]
  /\ bucket = name
  /\ zombie = [c \in Chans |-> FALSE]
  /\ masq = [c \in Chans |-> None]
  /\ masqr = [c \in Chans |-> None]
  /\ pvt = [c \in Chans |-> c]
  /\ hangups = [c \in Chans |-> 0]
  /\ lock = None
  /\ pc = [p \in Threads |-> IF p \in Chans THEN "serve" ELSE "idle"]
  /\ hanging = {}
  /\ orig = [p \in Threads |-> IF p \in Chans THEN p ELSE None]
  /\ clone = [p \in Threads |-> None]
  /\ waszombie = [p \in Threads |-> FALSE]
  /\ other = [p \in Threads |-> None]

-----------------------------------------------------------------------------
\* The container

\* ao2_unlink finds the bucket by hashing the name the channel has now.
Found(c) == bucket[c] = name[c]
Linked(c) == bucket[c] # NoName

\* Another thread is hanging up the physical side of c, with c locked.
Locked(c) == \E p \in Threads : pc[p] = "m_hangup" /\ clone[p] = c

Goto(p, l) == pc' = [pc EXCEPT ![p] = l]

Hungup(side) == [hangups EXCEPT ![side] = @ + 1]

\* ast_change_name by the servicing thread: unlink, rename, link again.
ast_change_name(c) ==
  /\ pc[c] = "serve" /\ lock = None /\ ~Locked(c)
  /\ name[c].tag = "plain"
  /\ name' = [name EXCEPT ![c] = [base |-> @.base, tag |-> "renamed"]]
  /\ bucket' = [bucket EXCEPT ![c] = name'[c]]
  /\ refs' = [refs EXCEPT ![c] = IF Found(c) THEN @ ELSE @ + 1]
  /\ UNCHANGED <<zombie, masq, masqr, pvt, hangups, lock, hanging, pc, orig, clone, waszombie, other>>

-----------------------------------------------------------------------------
\* Planning a masquerade

\* ast_channel_get_by_name and its kin: a reference to a channel in the container.
FindOriginal(p, c) ==
  /\ p \in Transferers /\ pc[p] = "idle" /\ lock = None
  /\ Linked(c) /\ ~Locked(c)
  /\ refs' = [refs EXCEPT ![c] = @ + 1]
  /\ orig' = [orig EXCEPT ![p] = c]
  /\ Goto(p, "t_find")
  /\ UNCHANGED <<bucket, name, zombie, masq, masqr, pvt, hangups, lock, hanging, clone, waszombie, other>>

FindClone(p, c) ==
  /\ p \in Transferers /\ pc[p] = "t_find" /\ lock = None
  /\ Linked(c) /\ ~Locked(c)
  /\ refs' = [refs EXCEPT ![c] = @ + 1]
  /\ other' = [other EXCEPT ![p] = c]
  /\ Goto(p, "t_plan")
  /\ UNCHANGED <<bucket, name, zombie, masq, masqr, pvt, hangups, lock, hanging, orig, clone, waszombie>>

FindsNothing(p) ==
  /\ p \in Transferers /\ pc[p] = "t_find" /\ lock = None
  /\ Goto(p, "t_drop1")
  /\ UNCHANGED <<chanvars, lock, hanging, orig, clone, waszombie, other>>

\* What __ast_channel_masquerade refuses: a zombie, a channel and itself, and
\* a channel that already takes part in a planned masquerade.
MayMasquerade(o, c) ==
  /\ ~zombie[o] /\ ~zombie[c]
  /\ o # c
  /\ masq[o] = None /\ masqr[o] = None
  /\ masq[c] = None /\ masqr[c] = None

\* __ast_channel_masquerade with both channels locked.  Some callers go on to
\* perform the masquerade, the others leave it to the original's own thread.
ast_channel_masquerade(p) ==
  /\ p \in Transferers /\ pc[p] = "t_plan"
  /\ ~Locked(orig[p]) /\ ~Locked(other[p])
  /\ LET o == orig[p]
         c == other[p]
     IN  \/ /\ MayMasquerade(o, c)
            /\ masq' = [masq EXCEPT ![o] = c]
            /\ masqr' = [masqr EXCEPT ![c] = o]
            /\ \E l \in {"m_lock", "t_drop1"} : Goto(p, l)
         \/ /\ ~MayMasquerade(o, c)
            /\ Goto(p, "t_drop1")
            /\ UNCHANGED <<masq, masqr>>
  /\ UNCHANGED <<refs, bucket, name, zombie, pvt, hangups, lock, hanging, orig, clone, waszombie, other>>

\* The transferer drops the references it got from the container.
DropOriginal(p) ==
  /\ p \in Transferers /\ pc[p] = "t_drop1"
  /\ refs' = [refs EXCEPT ![orig[p]] = @ - 1]
  /\ orig' = [orig EXCEPT ![p] = None]
  /\ Goto(p, IF other[p] = None THEN "idle" ELSE "t_drop2")
  /\ UNCHANGED <<bucket, name, zombie, masq, masqr, pvt, hangups, lock, hanging, clone, waszombie, other>>

DropClone(p) ==
  /\ p \in Transferers /\ pc[p] = "t_drop2"
  /\ refs' = [refs EXCEPT ![other[p]] = @ - 1]
  /\ other' = [other EXCEPT ![p] = None]
  /\ Goto(p, "idle")
  /\ UNCHANGED <<bucket, name, zombie, masq, masqr, pvt, hangups, lock, hanging, orig, clone, waszombie>>

-----------------------------------------------------------------------------
\* ast_do_masquerade(orig[p])

\* Where ast_do_masquerade returns to: ast_hangup looks at masq again.
Return(p) ==
  IF p \in Transferers THEN "t_drop1"
  ELSE IF p \in hanging THEN "hangup" ELSE "serve"

\* ast_read, ast_write and ast_waitfor_nandfds perform a pending masquerade first.
ServicePending(c) ==
  /\ c \in Chans /\ pc[c] = "serve" /\ masq[c] # None
  /\ Goto(c, "m_lock")
  /\ UNCHANGED <<chanvars, lock, hanging, orig, clone, waszombie, other>>

LockContainer(p) ==
  /\ pc[p] = "m_lock" /\ lock = None
  /\ lock' = p
  /\ Goto(p, "m_check")
  /\ UNCHANGED <<chanvars, hanging, orig, clone, waszombie, other>>

\* Variant of NothingToDo: unlocks and starts over, as if the masquerade were
\* still to come.
NothingToDo_StartsOver(p) ==
  /\ pc[p] = "m_check" /\ ~Locked(orig[p])
  /\ masq[orig[p]] = None
  /\ lock' = None
  /\ Goto(p, "m_lock")
  /\ UNCHANGED <<chanvars, hanging, orig, clone, waszombie, other>>

\* Another thread has performed the masquerade meanwhile.
NothingToDo(p) ==
  /\ pc[p] = "m_check" /\ ~Locked(orig[p])
  /\ masq[orig[p]] = None
  /\ lock' = None
  /\ Goto(p, Return(p))
  /\ UNCHANGED <<chanvars, hanging, orig, clone, waszombie, other>>

\* Safety references, and both channels leave the container.
Unlink(p) ==
  /\ pc[p] = "m_check" /\ ~Locked(orig[p])
  /\ masq[orig[p]] # None
  /\ LET c == masq[orig[p]]
     IN  /\ clone' = [clone EXCEPT ![p] = c]
         /\ refs' = [x \in Chans |-> IF x \in {orig[p], c} /\ ~Found(x) THEN refs[x] + 1
                                                                       ELSE refs[x]]
         /\ bucket' = [x \in Chans |-> IF x \in {orig[p], c} /\ Found(x) THEN NoName
                                                                        ELSE bucket[x]]
  /\ Goto(p, "m_shuffle")
  /\ UNCHANGED <<name, zombie, masq, masqr, pvt, hangups, lock, hanging, orig, waszombie, other>>

\* With both channels locked: the clone's name and physical side move to the
\* original, the clone becomes a zombie, and the original is unlocked.
Shuffle(p) ==
  /\ pc[p] = "m_shuffle" /\ ~Locked(orig[p]) /\ ~Locked(clone[p])
  /\ LET o == orig[p]
         c == clone[p]
     IN  /\ name' = [name EXCEPT ![o] = name[c],
                                 ![c] = [base |-> name[o].base, tag |-> "zombie"]]
         /\ pvt' = [pvt EXCEPT ![o] = pvt[c], ![c] = pvt[o]]
         /\ waszombie' = [waszombie EXCEPT ![p] = zombie[c]]
         /\ zombie' = [zombie EXCEPT ![c] = TRUE]
         /\ masq' = [masq EXCEPT ![o] = None]
         /\ masqr' = [masqr EXCEPT ![c] = None]
  /\ Goto(p, "m_hangup")
  /\ UNCHANGED <<refs, bucket, hangups, lock, hanging, orig, clone, other>>

\* Variant of HangupClone: the physical side is not hung up.
HangupClone_Skipped(p) ==
  /\ pc[p] = "m_hangup"
  /\ hangups' = hangups
  /\ pvt' = pvt
  /\ Goto(p, "m_link")
  /\ UNCHANGED <<refs, bucket, name, zombie, masq, masqr, lock, hanging, orig, clone, waszombie, other>>

\* The driver hangs up what is now the clone's physical side.
HangupClone(p) ==
  /\ pc[p] = "m_hangup"
  /\ hangups' = Hungup(pvt[clone[p]])
  /\ pvt' = [pvt EXCEPT ![clone[p]] = None]
  /\ Goto(p, "m_link")
  /\ UNCHANGED <<refs, bucket, name, zombie, masq, masqr, lock, hanging, orig, clone, waszombie, other>>

\* Variant of Link: the clone is linked also when nobody will hang it up.
Link_Always(p) ==
  /\ pc[p] = "m_link" /\ ~Locked(orig[p])
  /\ LET o == orig[p]
         c == clone[p]
     IN  /\ refs' = [refs EXCEPT ![o] = @ + 1,
                                 ![c] = @ + 1]
         /\ bucket' = [bucket EXCEPT ![o] = name[o],
                                     ![c] = name[c]]
  /\ lock' = None
  /\ waszombie' = [waszombie EXCEPT ![p] = FALSE]
  /\ Goto(p, "m_unref1")
  /\ UNCHANGED <<name, zombie, masq, masqr, pvt, hangups, hanging, orig, clone, other>>

\* A clone nobody will hang up any more loses the system's reference; otherwise
\* it goes back into the container.  So does the original, under its new name.
Link(p) ==
  /\ pc[p] = "m_link" /\ ~Locked(orig[p])
  /\ LET o == orig[p]
         c == clone[p]
     IN  /\ refs' = [refs EXCEPT ![o] = @ + 1,
                                 ![c] = IF waszombie[p] THEN @ - 1 ELSE @ + 1]
         /\ bucket' = [bucket EXCEPT ![o] = name[o],
                                     ![c] = IF waszombie[p] THEN @ ELSE name[c]]
  /\ lock' = None
  /\ waszombie' = [waszombie EXCEPT ![p] = FALSE]
  /\ Goto(p, "m_unref1")
  /\ UNCHANGED <<name, zombie, masq, masqr, pvt, hangups, hanging, orig, clone, other>>

\* The safety references go.
UnrefOriginal(p) ==
  /\ pc[p] = "m_unref1"
  /\ refs' = [refs EXCEPT ![orig[p]] = @ - 1]
  /\ Goto(p, "m_unref2")
  /\ UNCHANGED <<bucket, name, zombie, masq, masqr, pvt, hangups, lock, hanging, orig, clone, waszombie, other>>

UnrefClone(p) ==
  /\ pc[p] = "m_unref2"
  /\ refs' = [refs EXCEPT ![clone[p]] = @ - 1]
  /\ clone' = [clone EXCEPT ![p] = None]
  /\ Goto(p, Return(p))
  /\ UNCHANGED <<bucket, name, zombie, masq, masqr, pvt, hangups, lock, hanging, orig, waszombie, other>>

-----------------------------------------------------------------------------
\* ast_hangup(c), called once by the thread that services c

StartHangup(c) ==
  /\ c \in Chans /\ pc[c] = "serve"
  /\ hanging' = hanging \cup {c}
  /\ Goto(c, "hangup")
  /\ UNCHANGED <<chanvars, lock, orig, clone, waszombie, other>>

\* Variant of ast_hangup: a planned masquerade into another channel does not matter.
ast_hangup_IgnoresMasqr(c) ==
  /\ c \in Chans /\ pc[c] = "hangup" /\ ~Locked(c)
  /\ \/ /\ masq[c] # None
        /\ Goto(c, "m_lock")
        /\ UNCHANGED <<zombie, hanging, waszombie>>
     \/ /\ masq[c] = None
        /\ waszombie' = [waszombie EXCEPT ![c] = zombie[c]]
        /\ zombie' = [zombie EXCEPT ![c] = TRUE]
        /\ Goto(c, "h_unlink")
        /\ UNCHANGED hanging
  /\ UNCHANGED <<refs, bucket, name, masq, masqr, pvt, hangups, lock, orig, clone, other>>

\* With the channel locked.  A pending masquerade into it is performed first; if
\* it will masquerade into another channel, ast_do_masquerade will destroy it.
ast_hangup(c) ==
  /\ c \in Chans /\ pc[c] = "hangup" /\ ~Locked(c)
  /\ \/ /\ masq[c] # None
        /\ Goto(c, "m_lock")
        /\ UNCHANGED <<zombie, hanging, waszombie>>
     \/ /\ masq[c] = None /\ masqr[c] # None
        /\ zombie' = [zombie EXCEPT ![c] = TRUE]
        /\ hanging' = hanging \ {c}
        /\ Goto(c, "gone")
        /\ UNCHANGED waszombie
     \/ /\ masq[c] = None /\ masqr[c] = None
        /\ waszombie' = [waszombie EXCEPT ![c] = zombie[c]]
        /\ zombie' = [zombie EXCEPT ![c] = TRUE]
        /\ Goto(c, "h_unlink")
        /\ UNCHANGED hanging
  /\ UNCHANGED <<refs, bucket, name, masq, masqr, pvt, hangups, lock, orig, clone, other>>

HangupUnlink(c) ==
  /\ c \in Chans /\ pc[c] = "h_unlink" /\ lock = None
  /\ refs' = [refs EXCEPT ![c] = IF Found(c) THEN @ - 1 ELSE @]
  /\ bucket' = [bucket EXCEPT ![c] = IF Found(c) THEN NoName ELSE @]
  /\ Goto(c, "h_close")
  /\ UNCHANGED <<name, zombie, masq, masqr, pvt, hangups, lock, hanging, orig, clone, waszombie, other>>

HangupClose(c) ==
  /\ c \in Chans /\ pc[c] = "h_close" /\ ~Locked(c)
  /\ IF waszombie[c] THEN UNCHANGED <<pvt, hangups>>
                     ELSE /\ hangups' = Hungup(pvt[c])
                          /\ pvt' = [pvt EXCEPT ![c] = None]
  /\ Goto(c, "h_unref")
  /\ UNCHANGED <<refs, bucket, name, zombie, masq, masqr, lock, hanging, orig, clone, waszombie, other>>

HangupUnref(c) ==
  /\ c \in Chans /\ pc[c] = "h_unref"
  /\ refs' = [refs EXCEPT ![c] = @ - 1]
  /\ hanging' = hanging \ {c}
  /\ waszombie' = [waszombie EXCEPT ![c] = FALSE]
  /\ Goto(c, "gone")
  /\ UNCHANGED <<bucket, name, zombie, masq, masqr, pvt, hangups, lock, orig, clone, other>>

-----------------------------------------------------------------------------
DoMasquerade(p) ==
  \/ LockContainer(p) \/ NothingToDo(p) \/ Unlink(p) \/ Shuffle(p)
  \/ HangupClone(p) \/ Link(p) \/ UnrefOriginal(p) \/ UnrefClone(p)

Hangup(c) ==
  \/ ast_hangup(c) \/ HangupUnlink(c) \/ HangupClose(c) \/ HangupUnref(c)

Transfer(p) ==
  \/ FindsNothing(p) \/ ast_channel_masquerade(p) \/ DropOriginal(p) \/ DropClone(p)

Next ==
  \/ \E p \in Threads : DoMasquerade(p)
  \/ \E p \in Transferers : Transfer(p) \/ \E c \in Chans : FindOriginal(p, c) \/ FindClone(p, c)
  \/ \E c \in Chans : Hangup(c) \/ StartHangup(c) \/ ServicePending(c) \/ ast_change_name(c)

Spec == Init /\ [][Next]_vars

\* Threads are scheduled, and every channel's thread ends by hanging it up.
Fairness ==
  /\ \A p \in Threads : WF_vars(DoMasquerade(p))
  /\ \A p \in Transferers : WF_vars(Transfer(p))
  /\ \A c \in Chans : WF_vars(Hangup(c)) /\ WF_vars(StartHangup(c))

LiveSpec == Spec /\ Fairness

-----------------------------------------------------------------------------
\* Properties

TypeOK ==
  /\ refs \in [Chans -> Nat]
  /\ bucket \in [Chans -> Names \cup {NoName}]
  /\ name \in [Chans -> Names]
  /\ zombie \in [Chans -> BOOLEAN]
  /\ masq \in [Chans -> Chans \cup {None}]
  /\ masqr \in [Chans -> Chans \cup {None}]
  /\ pvt \in [Chans -> Chans \cup {None}]
  /\ hangups \in [Chans -> Nat]
  /\ lock \in Threads \cup {None}
  /\ hanging \in SUBSET Chans
  /\ pc \in [Threads -> MasqPcs \cup ChanPcs \cup XferPcs]
  /\ \A c \in Chans : pc[c] \in MasqPcs \cup ChanPcs
  /\ \A p \in Transferers : pc[p] \in MasqPcs \cup XferPcs
  /\ orig \in [Threads -> Chans \cup {None}]
  /\ clone \in [Threads -> Chans \cup {None}]
  /\ waszombie \in [Threads -> BOOLEAN]
  /\ other \in [Threads -> Chans \cup {None}]

Destroyed(c) == refs[c] = 0

\* The channels a thread is going to touch.
Uses(p) ==
  IF pc[p] = "gone" THEN {} ELSE {orig[p], clone[p], other[p]} \ {None}

\* No thread holds on to a destroyed channel, the container holds none, and no
\* masq or masqr pointer leads to or from one, though the pointers ast_hangup
\* and __ast_channel_masquerade leave behind are not counted references.
NoUseAfterFree ==
  /\ \A p \in Threads : \A c \in Uses(p) : ~Destroyed(c)
  /\ \A c \in Chans : Destroyed(c) => ~Linked(c)
  /\ \A c \in Chans : masq[c] # None => ~Destroyed(c) /\ ~Destroyed(masq[c])
  /\ \A c \in Chans : masqr[c] # None => ~Destroyed(c) /\ ~Destroyed(masqr[c])

\* masq and masqr are each other's inverse and pair channels off.
PairedOff ==
  \A o, c \in Chans : /\ masq[o] = c <=> masqr[c] = o
                      /\ masq[o] = c => o # c /\ masqr[o] = None /\ masq[c] = None

\* A driver hangs up each physical side at most once, a channel is destroyed
\* only after its physical side was hung up ("Channel may not have been hung up
\* properly"), and no side that still serves a channel was hung up.
EachSideHungUpOnce ==
  /\ \A s \in Chans : hangups[s] = IF \E c \in Chans : pvt[c] = s THEN 0 ELSE 1
  /\ \A c, d \in Chans : pvt[c] # None /\ pvt[c] = pvt[d] => c = d
  /\ \A c \in Chans : Destroyed(c) => pvt[c] = None

\* The container finds every channel it holds: a name changes only while the
\* channel is out of it, and no two channels ever have the same name.
FoundByName ==
  /\ \A c \in Chans : Linked(c) => Found(c)
  /\ \A c, d \in Chans : name[c].base = name[d].base => c = d

\* Nothing is left of a channel whose thread is gone and that takes part in no
\* masquerade, once no other thread refers to it.
NothingLeaks ==
  \A c \in Chans :
     /\ pc[c] = "gone" /\ masqr[c] = None
     /\ \A p \in Threads \ {c} : c \notin Uses(p)
     => Destroyed(c)

\* Every channel is destroyed in the end, whatever masquerades were planned.
AllDestroyed == <>[](\A c \in Chans : Destroyed(c))
=============================================================================
