------------------------- MODULE MasqueradeThreads --------------------------
(*****************************************************************************)
(* The steps of ast_change_name, of a transferring thread and of ast_hangup  *)
(* preserve everything but the counts, one lemma per action.                 *)
(*****************************************************************************)
EXTENDS MasqueradeLemmas

USE MasqueradeConstants
USE DEF Threads, Goto, MasqPcs, ChanPcs, XferPcs, Locking, Moved, Out,
        KeepsOriginal, KeepsClone, Ending, Unlinked

\* Control: ast_change_name unlinks, renames and links again under the
\* container lock.
LEMMA ast_change_nameStep ==
  ASSUME Types, Locals, Planned, Zombies, Container, Sides, NEW c \in Chans, ast_change_name(c)
  PROVE  Types' /\ Locals' /\ Planned' /\ Zombies' /\ Container' /\ Sides'
<1> USE DEF ast_change_name, Types
<1>1. Types'
  <2>1. name' \in [Chans -> Names]
    BY DEF Names
  <2>2. bucket' \in [Chans -> Names \cup {NoName}]
    BY <2>1
  <2>3. refs' \in [Chans -> Int]
    OBVIOUS
  <2> QED BY <2>1, <2>2, <2>3
<1>2. Locals'
  BY DEF Locals
<1>3. Planned'
  BY DEF Planned, PairedOff
<1>4. Zombies'
  BY DEF Zombies
<1>5. Container'
  BY NoNameNotName DEF Locals, Names, Container, FoundByName, Linked, Found, Leaving
<1>6. Sides'
  BY DEF Sides, SideOnce, Locked
<1> QED BY <1>1, <1>2, <1>3, <1>4, <1>5, <1>6

\* Control: a lookup only adds a reference.
LEMMA FindOriginalStep ==
  ASSUME Types, Locals, Planned, Zombies, Container, Sides, NEW p \in Transferers, NEW c \in Chans, FindOriginal(p, c)
  PROVE  Types' /\ Locals' /\ Planned' /\ Zombies' /\ Container' /\ Sides'
<1> USE DEF FindOriginal, Types
<1>1. Types'
  BY DEF Locals
<1>2. Locals'
  BY DEF Locals
<1>3. Planned'
  BY DEF Locals, Planned, PairedOff
<1>4. Zombies'
  BY DEF Locals, Zombies
<1>5. Container'
  BY NoNameNotName DEF Locals, Container, FoundByName, Linked, Found, Leaving
<1>6. Sides'
  BY DEF Locals, Sides, SideOnce, Locked
<1> QED BY <1>1, <1>2, <1>3, <1>4, <1>5, <1>6

\* Control: a lookup only adds a reference.
LEMMA FindCloneStep ==
  ASSUME Types, Locals, Planned, Zombies, Container, Sides, NEW p \in Transferers, NEW c \in Chans, FindClone(p, c)
  PROVE  Types' /\ Locals' /\ Planned' /\ Zombies' /\ Container' /\ Sides'
<1> USE DEF FindClone, Types
<1>1. Types'
  BY DEF Locals
<1>2. Locals'
  BY DEF Locals
<1>3. Planned'
  BY DEF Locals, Planned, PairedOff
<1>4. Zombies'
  BY DEF Locals, Zombies
<1>5. Container'
  BY NoNameNotName DEF Locals, Container, FoundByName, Linked, Found, Leaving
<1>6. Sides'
  BY DEF Locals, Sides, SideOnce, Locked
<1> QED BY <1>1, <1>2, <1>3, <1>4, <1>5, <1>6

\* Control: a failed lookup changes no channel.
LEMMA FindsNothingStep ==
  ASSUME Types, Locals, Planned, Zombies, Container, Sides, NEW p \in Transferers, FindsNothing(p)
  PROVE  Types' /\ Locals' /\ Planned' /\ Zombies' /\ Container' /\ Sides'
<1> USE DEF FindsNothing, Types, chanvars
<1>1. Types'
  BY DEF Locals
<1>2. Locals'
  BY DEF Locals
<1>3. Planned'
  BY DEF Locals, Planned, PairedOff
<1>4. Zombies'
  BY DEF Locals, Zombies
<1>5. Container'
  BY NoNameNotName DEF Locals, Container, FoundByName, Linked, Found, Leaving
<1>6. Sides'
  BY DEF Locals, Sides, SideOnce, Locked
<1> QED BY <1>1, <1>2, <1>3, <1>4, <1>5, <1>6

\* Control: __ast_channel_masquerade pairs two channels that take part in no
\* masquerade.
LEMMA ast_channel_masqueradeStep ==
  ASSUME Types, Locals, Planned, Zombies, Container, Sides, NEW p \in Transferers, ast_channel_masquerade(p)
  PROVE  Types' /\ Locals' /\ Planned' /\ Zombies' /\ Container' /\ Sides'
<1> USE DEF Types
<1>1. PICK o \in Chans, c \in Chans : o = orig[p] /\ c = other[p] /\ pc[p] = "t_plan"
  BY DEF ast_channel_masquerade, Locals
<1>2. PICK l \in {"m_lock", "t_drop1"} : pc' = [pc EXCEPT ![p] = l]
  BY DEF ast_channel_masquerade
<1>3. UNCHANGED <<refs, bucket, name, zombie, pvt, hangups, lock, hanging, orig, clone, waszombie, other>>
  BY DEF ast_channel_masquerade
<1>4. CASE MayMasquerade(o, c) /\ masq' = [masq EXCEPT ![o] = c] /\ masqr' = [masqr EXCEPT ![c] = o]
  <2>1. Types'
    BY <1>1, <1>2, <1>3, <1>4
  <2>2. Locals'
    BY <1>1, <1>2, <1>3 DEF Locals
  <2>3. Planned'
    BY <1>1, <1>2, <1>3, <1>4 DEF Locals, Planned, PairedOff, MayMasquerade
  <2>4. Zombies'
    BY <1>1, <1>2, <1>3, <1>4 DEF Locals, Zombies, MayMasquerade
  <2>5. Container'
    BY <1>1, <1>2, <1>3, <1>4 DEF Locals, Zombies, MayMasquerade, Container, FoundByName, Linked, Found, Leaving
  <2>6. Sides'
    BY <1>1, <1>2, <1>3, <1>4 DEF Locals, Zombies, MayMasquerade, Sides, SideOnce, Locked
  <2> QED BY <2>1, <2>2, <2>3, <2>4, <2>5, <2>6
<1>5. CASE UNCHANGED <<masq, masqr>>
  <2>1. Types' /\ Locals' /\ Planned'
    BY <1>1, <1>2, <1>3, <1>5 DEF Locals, Planned, PairedOff
  <2>2. Zombies' /\ Sides'
    BY <1>1, <1>2, <1>3, <1>5 DEF Locals, Zombies, Sides, SideOnce, Locked
  <2>3. Container'
    BY <1>1, <1>2, <1>3, <1>5 DEF Locals, Container, FoundByName, Linked, Found, Leaving
  <2> QED BY <2>1, <2>2, <2>3
<1> QED BY <1>1, <1>4, <1>5 DEF ast_channel_masquerade

\* Control: the transferer gives back its reference to the original.
LEMMA DropOriginalStep ==
  ASSUME Types, Locals, Planned, Zombies, Container, Sides, NEW p \in Transferers, DropOriginal(p)
  PROVE  Types' /\ Locals' /\ Planned' /\ Zombies' /\ Container' /\ Sides'
<1> USE DEF DropOriginal, Types
<1>1. Types'
  BY DEF Locals
<1>2. Locals'
  BY DEF Locals
<1>3. Planned'
  BY DEF Locals, Planned, PairedOff
<1>4. Zombies'
  BY DEF Locals, Zombies
<1>5. Container'
  BY NoNameNotName DEF Locals, Container, FoundByName, Linked, Found, Leaving
<1>6. Sides'
  BY DEF Locals, Sides, SideOnce, Locked
<1> QED BY <1>1, <1>2, <1>3, <1>4, <1>5, <1>6

\* Control: the transferer gives back its reference to the clone.
LEMMA DropCloneStep ==
  ASSUME Types, Locals, Planned, Zombies, Container, Sides, NEW p \in Transferers, DropClone(p)
  PROVE  Types' /\ Locals' /\ Planned' /\ Zombies' /\ Container' /\ Sides'
<1> USE DEF DropClone, Types
<1>1. Types'
  BY DEF Locals
<1>2. Locals'
  BY DEF Locals
<1>3. Planned'
  BY DEF Locals, Planned, PairedOff
<1>4. Zombies'
  BY DEF Locals, Zombies
<1>5. Container'
  BY NoNameNotName DEF Locals, Container, FoundByName, Linked, Found, Leaving
<1>6. Sides'
  BY DEF Locals, Sides, SideOnce, Locked
<1> QED BY <1>1, <1>2, <1>3, <1>4, <1>5, <1>6

\* Control: ast_read, ast_write and ast_waitfor go to ast_do_masquerade.
LEMMA ServicePendingStep ==
  ASSUME Types, Locals, Planned, Zombies, Container, Sides, NEW c \in Chans, ServicePending(c)
  PROVE  Types' /\ Locals' /\ Planned' /\ Zombies' /\ Container' /\ Sides'
<1> USE DEF ServicePending, Types, chanvars
<1>1. Types'
  BY DEF Locals
<1>2. Locals'
  BY DEF Locals
<1>3. Planned'
  BY DEF Locals, Planned, PairedOff
<1>4. Zombies'
  BY DEF Locals, Zombies
<1>5. Container'
  BY NoNameNotName DEF Locals, Container, FoundByName, Linked, Found, Leaving
<1>6. Sides'
  BY DEF Locals, Sides, SideOnce, Locked
<1> QED BY <1>1, <1>2, <1>3, <1>4, <1>5, <1>6

\* Control: the servicing thread calls ast_hangup.
LEMMA StartHangupStep ==
  ASSUME Types, Locals, Planned, Zombies, Container, Sides, NEW c \in Chans, StartHangup(c)
  PROVE  Types' /\ Locals' /\ Planned' /\ Zombies' /\ Container' /\ Sides'
<1> USE DEF StartHangup, Types, chanvars
<1>1. Types'
  BY DEF Locals
<1>2. Locals'
  BY DEF Locals
<1>3. Planned'
  BY DEF Locals, Planned, PairedOff
<1>4. Zombies'
  BY DEF Locals, Zombies
<1>5. Container'
  BY NoNameNotName DEF Locals, Container, FoundByName, Linked, Found, Leaving
<1>6. Sides'
  BY DEF Locals, Sides, SideOnce, Locked
<1> QED BY <1>1, <1>2, <1>3, <1>4, <1>5, <1>6

\* Control: ast_hangup turns to a pending masquerade, or makes the channel a
\* zombie.
LEMMA ast_hangupStep ==
  ASSUME Types, Locals, Planned, Zombies, Container, Sides, NEW c \in Chans, ast_hangup(c)
  PROVE  Types' /\ Locals' /\ Planned' /\ Zombies' /\ Container' /\ Sides'
<1> USE DEF Types
<1>1. /\ pc[c] = "hangup" /\ ~Locked(c)
      /\ UNCHANGED <<refs, bucket, name, masq, masqr, pvt, hangups, lock, orig, clone, other>>
  BY DEF ast_hangup
<1>2. CASE masq[c] # None /\ Goto(c, "m_lock") /\ UNCHANGED <<zombie, hanging, waszombie>>
  <2>1. Types'
    BY <1>1, <1>2
  <2>2. Locals' /\ Planned'
    BY <1>1, <1>2 DEF Locals, Planned, PairedOff
  <2>3. Zombies'
    BY <1>1, <1>2 DEF Locals, Zombies
  <2>4. Container'
    BY <1>1, <1>2 DEF Locals, Container, FoundByName, Linked, Found, Leaving
  <2>5. Sides'
    BY <1>1, <1>2 DEF Locals, Sides, SideOnce, Locked, Zombies
  <2> QED BY <2>1, <2>2, <2>3, <2>4, <2>5
<1>3. CASE /\ masq[c] = None /\ masqr[c] # None
           /\ zombie' = [zombie EXCEPT ![c] = TRUE]
           /\ hanging' = hanging \ {c}
           /\ Goto(c, "gone")
           /\ UNCHANGED waszombie
  <2>1. Types'
    BY <1>1, <1>3
  <2>2. Locals' /\ Planned'
    BY <1>1, <1>3 DEF Locals, Planned, PairedOff
  <2>3. Zombies'
    BY <1>1, <1>3 DEF Locals, Zombies
  <2>4. Container'
    BY <1>1, <1>3 DEF Locals, Container, FoundByName, Linked, Found, Leaving
  <2>5. Sides'
    BY <1>1, <1>3 DEF Locals, Sides, SideOnce, Locked, Zombies
  <2> QED BY <2>1, <2>2, <2>3, <2>4, <2>5
<1>4. CASE /\ masq[c] = None /\ masqr[c] = None
           /\ waszombie' = [waszombie EXCEPT ![c] = zombie[c]]
           /\ zombie' = [zombie EXCEPT ![c] = TRUE]
           /\ Goto(c, "h_unlink")
           /\ UNCHANGED hanging
  <2>1. Types'
    BY <1>1, <1>4
  <2>2. Locals' /\ Planned'
    BY <1>1, <1>4 DEF Locals, Planned, PairedOff
  <2>3. Zombies'
    BY <1>1, <1>4 DEF Locals, Zombies, Locked
  <2>4. Container'
    BY <1>1, <1>4 DEF Locals, Container, FoundByName, Linked, Found, Leaving
  <2>5. Sides'
    BY <1>1, <1>4 DEF Locals, Sides, SideOnce, Locked, Zombies
  <2> QED BY <2>1, <2>2, <2>3, <2>4, <2>5
<1> QED BY <1>2, <1>3, <1>4 DEF ast_hangup

\* Control: ast_hangup unlinks the channel.
LEMMA HangupUnlinkStep ==
  ASSUME Types, Locals, Planned, Zombies, Container, Sides, NEW c \in Chans, HangupUnlink(c)
  PROVE  Types' /\ Locals' /\ Planned' /\ Zombies' /\ Container' /\ Sides'
<1> USE DEF HangupUnlink, Types
<1>1. Types'
  BY DEF Locals
<1>2. Locals'
  BY DEF Locals
<1>3. Planned'
  BY DEF Locals, Planned, PairedOff
<1>4. Zombies'
  BY DEF Locals, Zombies
<1>5. Container'
  BY NoNameNotName DEF Locals, Container, FoundByName, Linked, Found, Leaving, Zombies
<1>6. Sides'
  BY DEF Locals, Sides, SideOnce, Locked
<1> QED BY <1>1, <1>2, <1>3, <1>4, <1>5, <1>6

\* Control: ast_hangup hangs up the physical side, unless the channel was a
\* zombie.
LEMMA HangupCloseStep ==
  ASSUME Types, Locals, Planned, Zombies, Container, Sides, NEW c \in Chans, HangupClose(c)
  PROVE  Types' /\ Locals' /\ Planned' /\ Zombies' /\ Container' /\ Sides'
<1>1. /\ pc[c] = "h_close" /\ ~Locked(c)
      /\ pc' = [pc EXCEPT ![c] = "h_unref"]
      /\ UNCHANGED <<refs, bucket, name, zombie, masq, masqr, lock, hanging, orig, clone, waszombie, other>>
  BY DEF HangupClose
<1>2. \A d \in Chans : Locked(d)' <=> Locked(d)
  BY <1>1 DEF Types, Locked
<1>3. Locals' /\ Planned'
  BY <1>1 DEF Types, Locals, Planned, PairedOff
<1>4. Zombies'
  BY <1>1 DEF Types, Zombies
<1>5. Container'
  <2>1. \A d \in Chans : Leaving(d)' <=> Leaving(d)
    BY <1>1 DEF Types, Leaving
  <2>2. \A q \in Threads : pc'[q] \in Moved \cup Out <=> pc[q] \in Moved \cup Out
    BY <1>1 DEF Types
  <2> QED BY <1>1, <2>1, <2>2 DEF Types, Container, FoundByName, Linked, Found, Leaving
<1>6. CASE waszombie[c] /\ UNCHANGED <<pvt, hangups>>
  <2>1. Types'
    BY <1>1, <1>6 DEF Types
  <2>2. Sides'
    BY <1>1, <1>2, <1>6 DEF Types, Sides, SideOnce, Locked
  <2> QED BY <2>1, <2>2, <1>3, <1>4, <1>5
<1>7. CASE ~waszombie[c] /\ hangups' = Hungup(pvt[c]) /\ pvt' = [pvt EXCEPT ![c] = None]
  <2>1. pvt[c] \in Chans
    BY <1>1, <1>7 DEF Types, Sides
  <2>2. SideOnce'
    BY <1>7, <2>1, SideHungUp, Zenon DEF Sides
  <2>3. Types'
    BY <1>1, <1>7, <2>1 DEF Types, Hungup
  <2>4. zombie[c] /\ masqr[c] = None
    BY <1>1 DEF Types, Zombies
  <2>5. ASSUME NEW d \in Chans
        PROVE  pvt'[d] = None <=> /\ zombie'[d] /\ masqr'[d] = None /\ ~Locked(d)'
                                  /\ ~(pc'[d] \in {"h_unlink", "h_close"} /\ ~waszombie'[d])
    BY <1>1, <1>2, <1>7, <2>4 DEF Types, Sides
  <2>6. Sides'
    BY <2>2, <2>5 DEF Sides, SideOnce, Locked
  <2> QED BY <2>3, <2>6, <1>3, <1>4, <1>5
<1> QED BY <1>6, <1>7 DEF HangupClose

\* Control: ast_hangup gives back the system's reference.
LEMMA HangupUnrefStep ==
  ASSUME Types, Locals, Planned, Zombies, Container, Sides, NEW c \in Chans, HangupUnref(c)
  PROVE  Types' /\ Locals' /\ Planned' /\ Zombies' /\ Container' /\ Sides'
<1> USE DEF HangupUnref, Types
<1>1. Types'
  BY DEF Locals
<1>2. Locals'
  BY DEF Locals
<1>3. Planned'
  BY DEF Locals, Planned, PairedOff
<1>4. Zombies'
  BY DEF Locals, Zombies
<1>5. Container'
  BY NoNameNotName DEF Locals, Container, FoundByName, Linked, Found, Leaving, Zombies
<1>6. Sides'
  BY DEF Locals, Sides, SideOnce, Locked
<1> QED BY <1>1, <1>2, <1>3, <1>4, <1>5, <1>6
=============================================================================
