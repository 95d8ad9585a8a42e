--------------------------- MODULE MasqueradeInv ----------------------------
(*****************************************************************************)
(* The inductive invariant of Masquerade.  The reference count of a channel  *)
(* is the number of its holders (Counted); the other conjuncts say where the *)
(* threads are and what they and the container know.                         *)
(*****************************************************************************)
EXTENDS Masquerade, Integers

Locking == {"m_check", "m_shuffle", "m_hangup", "m_link"}
Moved == {"m_hangup", "m_link"}
Out == {"m_shuffle", "m_hangup", "m_link"}
KeepsOriginal == Out \cup {"m_unref1"}
KeepsClone == KeepsOriginal \cup {"m_unref2"}
Ending == {"h_unlink", "h_close", "h_unref"}
Unlinked == {"h_close", "h_unref"}

Types ==
  /\ refs \in [Chans -> Int]
  /\ bucket \in [Chans -> Names \cup {NoName}]
  /\ name \in [Chans -> Names]
  /\ zombie \in [Chans -> BOOLEAN]
  /\ masq \in [Chans -> Chans \cup {None}]
  /\ masqr \in [Chans -> Chans \cup {None}]
  /\ pvt \in [Chans -> Chans \cup {None}]
  /\ hangups \in [Chans -> Nat]
  /\ lock \in Threads \cup {None}
  /\ hanging \in SUBSET Chans
  /\ pc \in [Threads -> MasqPcs \cup ChanPcs \cup XferPcs]
  /\ \A c \in Chans : pc[c] \in MasqPcs \cup ChanPcs
  /\ \A p \in Transferers : pc[p] \in MasqPcs \cup XferPcs
  /\ orig \in [Threads -> Chans \cup {None}]
  /\ clone \in [Threads -> Chans \cup {None}]
  /\ waszombie \in [Threads -> BOOLEAN]
  /\ other \in [Threads -> Chans \cup {None}]

\* What a thread has in its local variables depends on where it is.
Locals ==
  /\ \A p \in Threads : pc[p] \in Locking <=> lock = p
  /\ \A p \in Threads : clone[p] # None <=> pc[p] \in KeepsClone
  /\ \A c \in Chans : orig[c] = c /\ other[c] = None
  /\ \A p \in Transferers : orig[p] # None <=> pc[p] \notin {"idle", "t_drop2"}
  /\ \A p \in Transferers : pc[p] \in MasqPcs \cup {"t_plan", "t_drop2"} => other[p] # None
  /\ \A p \in Transferers : pc[p] \in {"idle", "t_find"} => other[p] = None

\* A masquerade being performed was planned, and is between two channels.
Planned ==
  /\ PairedOff
  /\ \A p \in Threads : pc[p] = "m_shuffle" => masq[orig[p]] = clone[p]
  /\ \A p \in Threads : pc[p] \in KeepsClone => orig[p] # clone[p]

\* Zombies, and how the threads of channels become gone.
Zombies ==
  /\ \A c \in Chans : pc[c] \in Ending \cup {"gone"} => zombie[c]
  /\ \A c \in Chans : zombie[c] => masq[c] = None
  /\ \A c \in Chans : zombie[c] /\ masqr[c] # None => pc[c] = "gone"
  /\ \A p \in Threads : pc[p] \in Moved => zombie[clone[p]] /\ masqr[clone[p]] = None
  /\ \A p \in Threads : pc[p] \in Moved /\ waszombie[p] => pc[clone[p]] = "gone"
  /\ \A p \in Threads : pc[p] \in Moved /\ ~waszombie[p] => pc[clone[p]] \notin Unlinked \cup {"gone"}
  /\ \A p \in Threads : pc[p] = "m_hangup" => pc[clone[p]] \notin Ending

\* A channel that may not be in the container.
Leaving(c) == pc[c] \in Unlinked \/ (pc[c] = "gone" /\ masqr[c] = None)

\* The container finds what it holds; what ast_do_masquerade took out is out.
Container ==
  /\ FoundByName
  /\ \A p \in Threads : pc[p] \in Out => ~Linked(orig[p]) /\ ~Linked(clone[p])
  /\ \A p \in Threads : pc[p] \in Moved => ~Leaving(orig[p])
  /\ \A c \in Chans : Linked(c) => ~Leaving(c)

\* A side is behind one channel, or was hung up once.
SideOnce ==
  /\ \A s \in Chans : hangups[s] = IF \E c \in Chans : pvt[c] = s THEN 0 ELSE 1
  /\ \A c, d \in Chans : pvt[c] # None /\ pvt[c] = pvt[d] => c = d

\* The channels that have lost their physical side.
Sides ==
  /\ SideOnce
  /\ \A c \in Chans :
       pvt[c] = None <=> /\ zombie[c] /\ masqr[c] = None /\ ~Locked(c)
                         /\ ~(pc[c] \in {"h_unlink", "h_close"} /\ ~waszombie[c])

\* The system's reference: given back by ast_hangup or, for a channel that
\* was hung up before it masqueraded, by ast_do_masquerade.
System(c) ==
  \/ pc[c] # "gone"
  \/ masqr[c] # None
  \/ \E p \in Threads : pc[p] \in Moved /\ clone[p] = c /\ waszombie[p]

\* Who may hold a reference, and who holds one to channel c.
Holders == {"system", "container", "found", "other", "original", "clone"} \X Threads

Holds(h, c) ==
  \/ h = <<"system", c>> /\ System(c)
  \/ h = <<"container", c>> /\ Linked(c)
  \/ h[1] = "found" /\ h[2] \in Transferers /\ orig[h[2]] = c
  \/ h[1] = "other" /\ other[h[2]] = c
  \/ h[1] = "original" /\ pc[h[2]] \in KeepsOriginal /\ orig[h[2]] = c
  \/ h[1] = "clone" /\ clone[h[2]] = c

\* The holders of references to c.
HoldersOf(c) == {h \in Holders : Holds(h, c)}

\* ao2_ref was called with +1 once for every holder there is, and no more.
Counted == \A c \in Chans : refs[c] = Cardinality(HoldersOf(c))

\* Everything but the counts.
Control == Types /\ Locals /\ Planned /\ Zombies /\ Container /\ Sides

\* The inductive invariant: at every step of ast_do_masquerade, ast_hangup,
\* ast_change_name and a transfer the reference count of a channel is the number
\* of those that hold one, whatever the threads have in hand.
Inv == Control /\ Counted
=============================================================================
