---------------------------- MODULE MasqueradeDo ----------------------------
(*****************************************************************************)
(* The steps of ast_do_masquerade preserve everything but the counts, one    *)
(* lemma per action.                                                         *)
(*****************************************************************************)
EXTENDS MasqueradeLemmas

USE MasqueradeConstants
USE DEF Threads, Goto, MasqPcs, ChanPcs, XferPcs, Locking, Moved, Out,
        KeepsOriginal, KeepsClone, Ending, Unlinked

\* Control: ast_do_masquerade locks the container.
LEMMA LockContainerStep ==
  ASSUME Types, Locals, Planned, Zombies, Container, Sides, NEW p \in Threads, LockContainer(p)
  PROVE  Types' /\ Locals' /\ Planned' /\ Zombies' /\ Container' /\ Sides'
<1> USE DEF LockContainer, Types, chanvars
<1>1. Types'
  BY DEF Locals
<1>2. Locals'
  BY DEF Locals
<1>3. Planned'
  BY DEF Locals, Planned, PairedOff
<1>4. Zombies'
  BY DEF Locals, Zombies
<1>5. Container'
  BY NoNameNotName DEF Locals, Container, FoundByName, Linked, Found, Leaving
<1>6. Sides'
  BY DEF Locals, Sides, SideOnce, Locked
<1> QED BY <1>1, <1>2, <1>3, <1>4, <1>5, <1>6

\* Control: ast_do_masquerade returns when the masquerade was done already.
LEMMA NothingToDoStep ==
  ASSUME Types, Locals, Planned, Zombies, Container, Sides, NEW p \in Threads, NothingToDo(p)
  PROVE  Types' /\ Locals' /\ Planned' /\ Zombies' /\ Container' /\ Sides'
<1> USE DEF NothingToDo, Types, chanvars, Return
<1>1. Types'
  BY DEF Locals
<1>2. Locals'
  BY DEF Locals
<1>3. Planned'
  BY DEF Locals, Planned, PairedOff
<1>4. Zombies'
  BY DEF Locals, Zombies
<1>5. Container'
  BY NoNameNotName DEF Locals, Container, FoundByName, Linked, Found, Leaving
<1>6. Sides'
  BY DEF Locals, Sides, SideOnce, Locked
<1> QED BY <1>1, <1>2, <1>3, <1>4, <1>5, <1>6

\* Control: ast_do_masquerade takes its safety references and both channels
\* out of the container.
LEMMA UnlinkStep ==
  ASSUME Types, Locals, Planned, Zombies, Container, Sides, NEW p \in Threads, Unlink(p)
  PROVE  Types' /\ Locals' /\ Planned' /\ Zombies' /\ Container' /\ Sides'
<1> USE DEF Unlink, Types
<1>1. Types'
  BY DEF Locals
<1>2. Locals'
  BY DEF Locals
<1>3. Planned'
  BY DEF Locals, Planned, PairedOff
<1>4. Zombies'
  BY DEF Locals, Zombies
<1>5. Container'
  BY NoNameNotName DEF Locals, Container, FoundByName, Linked, Found, Leaving, Planned, PairedOff, Zombies
<1>6. Sides'
  BY DEF Locals, Sides, SideOnce, Locked
<1> QED BY <1>1, <1>2, <1>3, <1>4, <1>5, <1>6

\* Control: ast_do_masquerade swaps names and physical sides and makes the
\* clone a zombie.
LEMMA ShuffleStep ==
  ASSUME Types, Locals, Planned, Zombies, Container, Sides, NEW p \in Threads, Shuffle(p)
  PROVE  Types' /\ Locals' /\ Planned' /\ Zombies' /\ Container' /\ Sides'
<1> USE DEF Types
<1>1. PICK o \in Chans, c \in Chans :
      /\ o = orig[p] /\ c = clone[p] /\ o # c
      /\ lock = p /\ pc[p] = "m_shuffle" /\ ~Locked(o) /\ ~Locked(c)
      /\ masq[o] = c /\ masqr[c] = o /\ masqr[o] = None /\ masq[c] = None
  BY DEF Shuffle, Locals, Planned, PairedOff
<1>2. /\ name' = [name EXCEPT ![o] = name[c], ![c] = [base |-> name[o].base, tag |-> "zombie"]]
      /\ pvt' = [pvt EXCEPT ![o] = pvt[c], ![c] = pvt[o]]
      /\ waszombie' = [waszombie EXCEPT ![p] = zombie[c]]
      /\ zombie' = [zombie EXCEPT ![c] = TRUE]
      /\ masq' = [masq EXCEPT ![o] = None]
      /\ masqr' = [masqr EXCEPT ![c] = None]
      /\ pc' = [pc EXCEPT ![p] = "m_hangup"]
      /\ UNCHANGED <<refs, bucket, hangups, lock, hanging, orig, clone, other>>
  BY <1>1 DEF Shuffle
<1>3. Types'
  <2>1. name' \in [Chans -> Names]
    BY <1>1, <1>2 DEF Names
  <2> QED BY <1>1, <1>2, <2>1
<1>4. Locals'
  BY <1>1, <1>2 DEF Locals
<1>5. Planned'
  BY <1>1, <1>2 DEF Locals, Planned, PairedOff
<1>6. Zombies'
  BY <1>1, <1>2 DEF Locals, Planned, PairedOff, Zombies
<1>7. Container'
  <2>1. \A d \in Chans : d \in {o, c} => ~Linked(d)
    BY <1>1 DEF Container
  <2>2. \A d \in Chans : Linked(d)' => Found(d)'
    BY <1>1, <1>2, <2>1 DEF Container, FoundByName, Linked, Found
  <2>3. /\ name'[o].base = name[c].base
        /\ name'[c].base = name[o].base
        /\ \A d \in Chans \ {o, c} : name'[d].base = name[d].base
    BY <1>1, <1>2
  <2>4. \A d, e \in Chans : name'[d].base = name'[e].base => d = e
    BY <1>1, <2>3 DEF Container, FoundByName
  <2>5. ~Leaving(o)'
    BY <1>1, <1>2 DEF Zombies, Leaving
  <2>6. FoundByName'
    BY <2>2, <2>4 DEF FoundByName
  <2>7. \A q \in Threads \ {p} : pc'[q] \notin Out
    BY <1>1, <1>2 DEF Locals
  <2>8. ~Linked(o)' /\ ~Linked(c)'
    BY <1>1, <1>2, <2>1 DEF Linked
  <2>9. \A d \in Chans : Linked(d)' => ~Leaving(d)'
    BY <1>1, <1>2, <2>1 DEF Container, Linked, Leaving
  <2> QED BY <1>1, <1>2, <2>5, <2>6, <2>7, <2>8, <2>9 DEF Container
<1>8. Sides'
  <2>1. /\ pvt'[o] = pvt[c] /\ pvt'[c] = pvt[o]
        /\ \A d \in Chans \ {o, c} : pvt'[d] = pvt[d]
    BY <1>1, <1>2
  <2>2. \A s \in Chans : (\E d \in Chans : pvt'[d] = s) <=> (\E d \in Chans : pvt[d] = s)
    BY <1>1, <2>1
  <2>3. \A s \in Chans : hangups'[s] = IF \E d \in Chans : pvt'[d] = s THEN 0 ELSE 1
    BY <1>2, <2>2 DEF Sides, SideOnce
  <2>4. \A d, e \in Chans : pvt'[d] # None /\ pvt'[d] = pvt'[e] => d = e
    BY <1>1, <2>1 DEF Sides, SideOnce
  <2>5. pvt[o] # None /\ pvt[c] # None
    BY <1>1 DEF Sides, Zombies
  <2>6. ~Locked(o)' /\ Locked(c)' /\ ~zombie'[o]
    BY <1>1, <1>2 DEF Locals, Zombies, Locked
  <2>7. \A d \in Chans \ {o, c} : Locked(d)' <=> Locked(d)
    BY <1>1, <1>2 DEF Locals, Locked
  <2>8. ASSUME NEW d \in Chans \ {o, c}
        PROVE  zombie'[d] = zombie[d] /\ masqr'[d] = masqr[d] /\ pc'[d] = pc[d] /\ waszombie'[d] = waszombie[d]
    <3>1. d # p
      BY <1>1 DEF Locals
    <3>2. zombie'[d] = zombie[d] /\ masqr'[d] = masqr[d]
      BY <1>2, Zenon
    <3>3. pc'[d] = pc[d] /\ waszombie'[d] = waszombie[d]
      BY <1>2, <3>1
    <3> QED BY <3>2, <3>3
  <2>9. ASSUME NEW d \in Chans
        PROVE  pvt'[d] = None <=> /\ zombie'[d] /\ masqr'[d] = None /\ ~Locked(d)'
                                  /\ ~(pc'[d] \in {"h_unlink", "h_close"} /\ ~waszombie'[d])
    <3>1. CASE d = o
      BY <3>1, <2>1, <2>5, <2>6
    <3>2. CASE d = c
      BY <3>2, <2>1, <2>5, <2>6
    <3>3. CASE d \notin {o, c}
      BY <3>3, <2>1, <2>7, <2>8 DEF Sides
    <3> QED BY <3>1, <3>2, <3>3
  <2> QED BY <2>3, <2>4, <2>9 DEF Sides, SideOnce, Locked
<1> QED BY <1>3, <1>4, <1>5, <1>6, <1>7, <1>8

\* Control: ast_do_masquerade hangs up the clone's physical side.
LEMMA HangupCloneStep ==
  ASSUME Types, Locals, Planned, Zombies, Container, Sides, NEW p \in Threads, HangupClone(p)
  PROVE  Types' /\ Locals' /\ Planned' /\ Zombies' /\ Container' /\ Sides'
<1>1. PICK c \in Chans : c = clone[p] /\ pc[p] = "m_hangup" /\ Locked(c) /\ lock = p
  BY DEF HangupClone, Types, Locals, Locked
<1>2. pvt[c] \in Chans
  BY <1>1 DEF Types, Sides
<1>3. /\ hangups' = Hungup(pvt[c])
      /\ pvt' = [pvt EXCEPT ![c] = None]
      /\ pc' = [pc EXCEPT ![p] = "m_link"]
      /\ UNCHANGED <<refs, bucket, name, zombie, masq, masqr, lock, hanging, orig, clone, waszombie, other>>
  BY <1>1 DEF HangupClone
<1>4. SideOnce'
  BY <1>2, <1>3, SideHungUp, Zenon DEF Sides
<1> USE DEF Types
<1>5. Types'
  BY <1>1, <1>2, <1>3 DEF Hungup
<1>6. Locals'
  BY <1>1, <1>3 DEF Locals
<1>7. Planned'
  BY <1>1, <1>3 DEF Planned, PairedOff
<1>8. Zombies'
  BY <1>1, <1>3 DEF Zombies
<1>9. Container'
  BY <1>1, <1>3 DEF Container, FoundByName, Linked, Found, Leaving
<1>10. Sides'
  <2>1. \A d \in Chans : Locked(d)' <=> (Locked(d) /\ d # c)
    BY <1>1, <1>3 DEF Locals, Locked
  <2>2. \A d \in Chans : pc'[d] \in {"h_unlink", "h_close"} <=> pc[d] \in {"h_unlink", "h_close"}
    BY <1>1, <1>3
  <2>3. zombie[c] /\ masqr[c] = None /\ pc[c] \notin {"h_unlink", "h_close"}
    BY <1>1 DEF Zombies
  <2>4. pvt'[c] = None /\ \A d \in Chans \ {c} : pvt'[d] = pvt[d]
    BY <1>1, <1>3
  <2>5. ASSUME NEW d \in Chans
        PROVE  pvt'[d] = None <=> /\ zombie'[d] /\ masqr'[d] = None /\ ~Locked(d)'
                                  /\ ~(pc'[d] \in {"h_unlink", "h_close"} /\ ~waszombie'[d])
    BY <1>3, <2>1, <2>2, <2>3, <2>4 DEF Sides
  <2> QED BY <1>4, <2>5 DEF Sides, SideOnce, Locked
<1> QED BY <1>5, <1>6, <1>7, <1>8, <1>9, <1>10

\* Control: ast_do_masquerade links again what will still be hung up.
LEMMA LinkStep ==
  ASSUME Types, Locals, Planned, Zombies, Container, Sides, NEW p \in Threads, Link(p)
  PROVE  Types' /\ Locals' /\ Planned' /\ Zombies' /\ Container' /\ Sides'
<1> USE DEF Types
<1>1. PICK o \in Chans, c \in Chans :
        o = orig[p] /\ c = clone[p] /\ o # c /\ lock = p /\ pc[p] = "m_link"
  BY DEF Link, Locals, Planned
<1>2. /\ refs' = [refs EXCEPT ![o] = @ + 1, ![c] = IF waszombie[p] THEN @ - 1 ELSE @ + 1]
      /\ bucket' = [bucket EXCEPT ![o] = name[o], ![c] = IF waszombie[p] THEN @ ELSE name[c]]
      /\ lock' = None
      /\ waszombie' = [waszombie EXCEPT ![p] = FALSE]
      /\ pc' = [pc EXCEPT ![p] = "m_unref1"]
      /\ UNCHANGED <<name, zombie, masq, masqr, pvt, hangups, hanging, orig, clone, other>>
  BY <1>1 DEF Link
<1>3. Types'
  <2>1. refs' \in [Chans -> Int]
    BY <1>1, <1>2
  <2>2. bucket' \in [Chans -> Names \cup {NoName}]
    BY <1>1, <1>2
  <2> QED BY <1>1, <1>2, <2>1, <2>2
<1>4. Locals'
  BY <1>1, <1>2 DEF Locals
<1>5. Planned'
  BY <1>1, <1>2 DEF Planned, PairedOff
<1>6. Zombies'
  BY <1>1, <1>2 DEF Locals, Zombies
<1>7. Container'
  <2>1. /\ bucket'[o] = name[o]
        /\ bucket'[c] = IF waszombie[p] THEN bucket[c] ELSE name[c]
        /\ \A d \in Chans \ {o, c} : bucket'[d] = bucket[d]
    BY <1>1, <1>2
  <2>2. FoundByName'
    BY <1>1, <1>2, <2>1 DEF Container, FoundByName, Linked, Found
  <2>3. \A d \in Chans : Leaving(d)' <=> Leaving(d)
    BY <1>1, <1>2 DEF Leaving
  <2>4. ~waszombie[p] => ~Leaving(c)
    BY <1>1 DEF Zombies, Leaving
  <2>5. \A d \in Chans : Linked(d)' => ~Leaving(d)'
    BY <1>1, <2>1, <2>3, <2>4 DEF Container, Linked
  <2>6. \A q \in Threads : pc'[q] \notin Out
    BY <1>1, <1>2 DEF Locals
  <2> QED BY <2>2, <2>5, <2>6 DEF Container, Linked, Leaving
<1>8. Sides'
  BY <1>1, <1>2 DEF Sides, SideOnce, Locked
<1> QED BY <1>3, <1>4, <1>5, <1>6, <1>7, <1>8

\* Control: ast_do_masquerade drops its reference to the original.
LEMMA UnrefOriginalStep ==
  ASSUME Types, Locals, Planned, Zombies, Container, Sides, NEW p \in Threads, UnrefOriginal(p)
  PROVE  Types' /\ Locals' /\ Planned' /\ Zombies' /\ Container' /\ Sides'
<1> USE DEF UnrefOriginal, Types
<1>1. Types'
  BY DEF Locals
<1>2. Locals'
  BY DEF Locals
<1>3. Planned'
  BY DEF Locals, Planned, PairedOff
<1>4. Zombies'
  BY DEF Locals, Zombies
<1>5. Container'
  BY NoNameNotName DEF Locals, Container, FoundByName, Linked, Found, Leaving
<1>6. Sides'
  BY DEF Locals, Sides, SideOnce, Locked
<1> QED BY <1>1, <1>2, <1>3, <1>4, <1>5, <1>6

\* Control: ast_do_masquerade drops its reference to the clone.
LEMMA UnrefCloneStep ==
  ASSUME Types, Locals, Planned, Zombies, Container, Sides, NEW p \in Threads, UnrefClone(p)
  PROVE  Types' /\ Locals' /\ Planned' /\ Zombies' /\ Container' /\ Sides'
<1> USE DEF UnrefClone, Types, Return
<1>1. Types'
  BY DEF Locals
<1>2. Locals'
  BY DEF Locals
<1>3. Planned'
  BY DEF Locals, Planned, PairedOff
<1>4. Zombies'
  BY DEF Locals, Zombies
<1>5. Container'
  BY NoNameNotName DEF Locals, Container, FoundByName, Linked, Found, Leaving
<1>6. Sides'
  BY DEF Locals, Sides, SideOnce, Locked
<1> QED BY <1>1, <1>2, <1>3, <1>4, <1>5, <1>6
=============================================================================
