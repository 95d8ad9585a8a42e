-------------------------- MODULE MasqueradeCounts --------------------------
(*****************************************************************************)
(* Every step changes the reference count of a channel as it changes the     *)
(* set of its holders, one lemma per action.                                 *)
(*****************************************************************************)
EXTENDS MasqueradeLemmas

USE MasqueradeConstants
USE DEF Threads, Goto, MasqPcs, ChanPcs, XferPcs, Locking, Moved, Out,
        KeepsOriginal, KeepsClone, Ending, Unlinked

\* Counts: a failed lookup changes no channel.
LEMMA FindsNothingCounts ==
  ASSUME Types, Locals, Planned, Zombies, Container, Sides, Counted, NEW p \in Transferers, FindsNothing(p)
  PROVE  Counted'
<1>1. ASSUME NEW d \in Chans, NEW k \in Holders
      PROVE  Holds(k, d)' <=> Holds(k, d)
  BY DEF FindsNothing, Types, Locals, Holders, Holds, System, Linked, chanvars
<1>2. UNCHANGED refs
  BY DEF FindsNothing, chanvars
<1> QED BY <1>1, <1>2, Keeps DEF Counted

\* Counts: __ast_channel_masquerade pairs two channels that take part in no
\* masquerade.
LEMMA ast_channel_masqueradeCounts ==
  ASSUME Types, Locals, Planned, Zombies, Container, Sides, Counted, NEW p \in Transferers, ast_channel_masquerade(p)
  PROVE  Counted'
<1>1. ASSUME NEW d \in Chans, NEW k \in Holders
      PROVE  Holds(k, d)' <=> Holds(k, d)
  BY DEF ast_channel_masquerade, Types, Locals, Holders, Holds, System, Linked, Zombies, MayMasquerade
<1>2. UNCHANGED refs
  BY DEF ast_channel_masquerade
<1> QED BY <1>1, <1>2, Keeps DEF Counted

\* Counts: ast_read, ast_write and ast_waitfor go to ast_do_masquerade.
LEMMA ServicePendingCounts ==
  ASSUME Types, Locals, Planned, Zombies, Container, Sides, Counted, NEW c \in Chans, ServicePending(c)
  PROVE  Counted'
<1>1. ASSUME NEW d \in Chans, NEW k \in Holders
      PROVE  Holds(k, d)' <=> Holds(k, d)
  BY DEF ServicePending, Types, Locals, Holders, Holds, System, Linked, chanvars
<1>2. UNCHANGED refs
  BY DEF ServicePending, chanvars
<1> QED BY <1>1, <1>2, Keeps DEF Counted

\* Counts: ast_do_masquerade locks the container.
LEMMA LockContainerCounts ==
  ASSUME Types, Locals, Planned, Zombies, Container, Sides, Counted, NEW p \in Threads, LockContainer(p)
  PROVE  Counted'
<1>1. ASSUME NEW d \in Chans, NEW k \in Holders
      PROVE  Holds(k, d)' <=> Holds(k, d)
  BY DEF LockContainer, Types, Locals, Holders, Holds, System, Linked, chanvars
<1>2. UNCHANGED refs
  BY DEF LockContainer, chanvars
<1> QED BY <1>1, <1>2, Keeps DEF Counted

\* Counts: ast_do_masquerade returns when the masquerade was done already.
LEMMA NothingToDoCounts ==
  ASSUME Types, Locals, Planned, Zombies, Container, Sides, Counted, NEW p \in Threads, NothingToDo(p)
  PROVE  Counted'
<1>1. ASSUME NEW d \in Chans, NEW k \in Holders
      PROVE  Holds(k, d)' <=> Holds(k, d)
  BY DEF NothingToDo, Types, Locals, Holders, Holds, System, Linked, chanvars, Return
<1>2. UNCHANGED refs
  BY DEF NothingToDo, chanvars
<1> QED BY <1>1, <1>2, Keeps DEF Counted

\* Counts: ast_do_masquerade swaps names and physical sides and makes the
\* clone a zombie.
LEMMA ShuffleCounts ==
  ASSUME Types, Locals, Planned, Zombies, Container, Sides, Counted, NEW p \in Threads, Shuffle(p)
  PROVE  Counted'
<1>1. ASSUME NEW d \in Chans, NEW k \in Holders
      PROVE  Holds(k, d)' <=> Holds(k, d)
  BY DEF Shuffle, Types, Locals, Holders, Holds, System, Linked, Planned, PairedOff, Zombies
<1>2. UNCHANGED refs
  BY DEF Shuffle
<1> QED BY <1>1, <1>2, Keeps DEF Counted

\* Counts: ast_do_masquerade hangs up the clone's physical side.
LEMMA HangupCloneCounts ==
  ASSUME Types, Locals, Planned, Zombies, Container, Sides, Counted, NEW p \in Threads, HangupClone(p)
  PROVE  Counted'
<1>1. ASSUME NEW d \in Chans, NEW k \in Holders
      PROVE  Holds(k, d)' <=> Holds(k, d)
  BY DEF HangupClone, Types, Locals, Holders, Holds, System, Linked
<1>2. UNCHANGED refs
  BY <1>1 DEF HangupClone
<1> QED BY <1>1, <1>2, Keeps DEF Counted

\* Counts: the servicing thread calls ast_hangup.
LEMMA StartHangupCounts ==
  ASSUME Types, Locals, Planned, Zombies, Container, Sides, Counted, NEW c \in Chans, StartHangup(c)
  PROVE  Counted'
<1>1. ASSUME NEW d \in Chans, NEW k \in Holders
      PROVE  Holds(k, d)' <=> Holds(k, d)
  BY DEF StartHangup, Types, Locals, Holders, Holds, System, Linked, chanvars
<1>2. UNCHANGED refs
  BY DEF StartHangup, chanvars
<1> QED BY <1>1, <1>2, Keeps DEF Counted

\* Counts: ast_hangup hangs up the physical side, unless the channel was a
\* zombie.
LEMMA HangupCloseCounts ==
  ASSUME Types, Locals, Planned, Zombies, Container, Sides, Counted, NEW c \in Chans, HangupClose(c)
  PROVE  Counted'
<1>1. ASSUME NEW d \in Chans, NEW k \in Holders
      PROVE  Holds(k, d)' <=> Holds(k, d)
  BY DEF HangupClose, Types, Locals, Holders, Holds, System, Linked
<1>2. UNCHANGED refs
  BY DEF HangupClose
<1> QED BY <1>1, <1>2, Keeps DEF Counted

\* Counts: a lookup only adds a reference.
LEMMA FindOriginalCounts ==
  ASSUME Types, Locals, Planned, Zombies, Container, Sides, Counted, NEW p \in Transferers, NEW c \in Chans, FindOriginal(p, c)
  PROVE  Counted'
<1>0. c \in Chans /\ <<"found", p>> \in Holders
  BY DEF FindOriginal, Types, Locals, Holders
<1>1. PICK e \in Chans, h \in Holders : e = c /\ h = <<"found", p>>
  BY <1>0
<1>2. refs' = [refs EXCEPT ![e] = @ + 1]
  BY <1>1 DEF FindOriginal
<1>3. ~Holds(h, e) /\ Holds(h, e)'
  BY <1>1 DEF FindOriginal, Types, Locals, Planned, Zombies, Holders, Holds, System, Linked
<1>4. ASSUME NEW d \in Chans, NEW k \in Holders, d # e \/ k # h
      PROVE  Holds(k, d)' <=> Holds(k, d)
  BY <1>1, <1>4 DEF FindOriginal, Types, Locals, Planned, Zombies, Holders, Holds, System, Linked
<1>5. refs'[e] = Cardinality(HoldersOf(e))'
  BY <1>1, <1>2, <1>3, <1>4, Gains DEF Types
<1>6. \A d \in Chans \ {e} : refs'[d] = Cardinality(HoldersOf(d))'
  BY <1>1, <1>2, <1>4, Keeps DEF Types
<1> QED BY <1>5, <1>6 DEF Counted

\* Counts: a lookup only adds a reference.
LEMMA FindCloneCounts ==
  ASSUME Types, Locals, Planned, Zombies, Container, Sides, Counted, NEW p \in Transferers, NEW c \in Chans, FindClone(p, c)
  PROVE  Counted'
<1>0. c \in Chans /\ <<"other", p>> \in Holders
  BY DEF FindClone, Types, Locals, Holders
<1>1. PICK e \in Chans, h \in Holders : e = c /\ h = <<"other", p>>
  BY <1>0
<1>2. refs' = [refs EXCEPT ![e] = @ + 1]
  BY <1>1 DEF FindClone
<1>3. ~Holds(h, e) /\ Holds(h, e)'
  BY <1>1 DEF FindClone, Types, Locals, Planned, Zombies, Holders, Holds, System, Linked
<1>4. ASSUME NEW d \in Chans, NEW k \in Holders, d # e \/ k # h
      PROVE  Holds(k, d)' <=> Holds(k, d)
  BY <1>1, <1>4 DEF FindClone, Types, Locals, Planned, Zombies, Holders, Holds, System, Linked
<1>5. refs'[e] = Cardinality(HoldersOf(e))'
  BY <1>1, <1>2, <1>3, <1>4, Gains DEF Types
<1>6. \A d \in Chans \ {e} : refs'[d] = Cardinality(HoldersOf(d))'
  BY <1>1, <1>2, <1>4, Keeps DEF Types
<1> QED BY <1>5, <1>6 DEF Counted

\* Counts: the transferer gives back its reference to the original.
LEMMA DropOriginalCounts ==
  ASSUME Types, Locals, Planned, Zombies, Container, Sides, Counted, NEW p \in Transferers, DropOriginal(p)
  PROVE  Counted'
<1>0. orig[p] \in Chans /\ <<"found", p>> \in Holders
  BY DEF DropOriginal, Types, Locals, Holders
<1>1. PICK e \in Chans, h \in Holders : e = orig[p] /\ h = <<"found", p>>
  BY <1>0
<1>2. refs' = [refs EXCEPT ![e] = @ - 1]
  BY <1>1 DEF DropOriginal
<1>3. Holds(h, e) /\ ~Holds(h, e)'
  BY <1>1 DEF DropOriginal, Types, Locals, Planned, Zombies, Holders, Holds, System, Linked
<1>4. ASSUME NEW d \in Chans, NEW k \in Holders, d # e \/ k # h
      PROVE  Holds(k, d)' <=> Holds(k, d)
  BY <1>1, <1>4 DEF DropOriginal, Types, Locals, Planned, Zombies, Holders, Holds, System, Linked
<1>5. refs'[e] = Cardinality(HoldersOf(e))'
  BY <1>1, <1>2, <1>3, <1>4, Loses DEF Types
<1>6. \A d \in Chans \ {e} : refs'[d] = Cardinality(HoldersOf(d))'
  BY <1>1, <1>2, <1>4, Keeps DEF Types
<1> QED BY <1>5, <1>6 DEF Counted

\* Counts: the transferer gives back its reference to the clone.
LEMMA DropCloneCounts ==
  ASSUME Types, Locals, Planned, Zombies, Container, Sides, Counted, NEW p \in Transferers, DropClone(p)
  PROVE  Counted'
<1>0. other[p] \in Chans /\ <<"other", p>> \in Holders
  BY DEF DropClone, Types, Locals, Holders
<1>1. PICK e \in Chans, h \in Holders : e = other[p] /\ h = <<"other", p>>
  BY <1>0
<1>2. refs' = [refs EXCEPT ![e] = @ - 1]
  BY <1>1 DEF DropClone
<1>3. Holds(h, e) /\ ~Holds(h, e)'
  BY <1>1 DEF DropClone, Types, Locals, Planned, Zombies, Holders, Holds, System, Linked
<1>4. ASSUME NEW d \in Chans, NEW k \in Holders, d # e \/ k # h
      PROVE  Holds(k, d)' <=> Holds(k, d)
  BY <1>1, <1>4 DEF DropClone, Types, Locals, Planned, Zombies, Holders, Holds, System, Linked
<1>5. refs'[e] = Cardinality(HoldersOf(e))'
  BY <1>1, <1>2, <1>3, <1>4, Loses DEF Types
<1>6. \A d \in Chans \ {e} : refs'[d] = Cardinality(HoldersOf(d))'
  BY <1>1, <1>2, <1>4, Keeps DEF Types
<1> QED BY <1>5, <1>6 DEF Counted

\* Counts: ast_do_masquerade drops its reference to the original.
LEMMA UnrefOriginalCounts ==
  ASSUME Types, Locals, Planned, Zombies, Container, Sides, Counted, NEW p \in Threads, UnrefOriginal(p)
  PROVE  Counted'
<1>0. orig[p] \in Chans /\ <<"original", p>> \in Holders
  BY DEF UnrefOriginal, Types, Locals, Holders
<1>1. PICK e \in Chans, h \in Holders : e = orig[p] /\ h = <<"original", p>>
  BY <1>0
<1>2. refs' = [refs EXCEPT ![e] = @ - 1]
  BY <1>1 DEF UnrefOriginal
<1>3. Holds(h, e) /\ ~Holds(h, e)'
  BY <1>1 DEF UnrefOriginal, Types, Locals, Planned, Zombies, Holders, Holds, System, Linked
<1>4. ASSUME NEW d \in Chans, NEW k \in Holders, d # e \/ k # h
      PROVE  Holds(k, d)' <=> Holds(k, d)
  BY <1>1, <1>4 DEF UnrefOriginal, Types, Locals, Planned, Zombies, Holders, Holds, System, Linked
<1>5. refs'[e] = Cardinality(HoldersOf(e))'
  BY <1>1, <1>2, <1>3, <1>4, Loses DEF Types
<1>6. \A d \in Chans \ {e} : refs'[d] = Cardinality(HoldersOf(d))'
  BY <1>1, <1>2, <1>4, Keeps DEF Types
<1> QED BY <1>5, <1>6 DEF Counted

\* Counts: ast_do_masquerade drops its reference to the clone.
LEMMA UnrefCloneCounts ==
  ASSUME Types, Locals, Planned, Zombies, Container, Sides, Counted, NEW p \in Threads, UnrefClone(p)
  PROVE  Counted'
<1>0. clone[p] \in Chans /\ <<"clone", p>> \in Holders
  BY DEF UnrefClone, Types, Locals, Holders
<1>1. PICK e \in Chans, h \in Holders : e = clone[p] /\ h = <<"clone", p>>
  BY <1>0
<1>2. refs' = [refs EXCEPT ![e] = @ - 1]
  BY <1>1 DEF UnrefClone
<1>3. Holds(h, e) /\ ~Holds(h, e)'
  BY <1>1 DEF UnrefClone, Types, Locals, Planned, Zombies, Holders, Holds, System, Linked, Return
<1>4. ASSUME NEW d \in Chans, NEW k \in Holders, d # e \/ k # h
      PROVE  Holds(k, d)' <=> Holds(k, d)
  BY <1>1, <1>4 DEF UnrefClone, Types, Locals, Planned, Zombies, Holders, Holds, System, Linked, Return
<1>5. refs'[e] = Cardinality(HoldersOf(e))'
  BY <1>1, <1>2, <1>3, <1>4, Loses DEF Types
<1>6. \A d \in Chans \ {e} : refs'[d] = Cardinality(HoldersOf(d))'
  BY <1>1, <1>2, <1>4, Keeps DEF Types
<1> QED BY <1>5, <1>6 DEF Counted

\* Counts: ast_hangup gives back the system's reference.
LEMMA HangupUnrefCounts ==
  ASSUME Types, Locals, Planned, Zombies, Container, Sides, Counted, NEW c \in Chans, HangupUnref(c)
  PROVE  Counted'
<1>0. c \in Chans /\ <<"system", c>> \in Holders
  BY DEF HangupUnref, Types, Locals, Holders
<1>1. PICK e \in Chans, h \in Holders : e = c /\ h = <<"system", c>>
  BY <1>0
<1>2. refs' = [refs EXCEPT ![e] = @ - 1]
  BY <1>1 DEF HangupUnref
<1>3. Holds(h, e) /\ ~Holds(h, e)'
  BY <1>1 DEF HangupUnref, Types, Locals, Planned, Zombies, Holders, Holds, System, Linked
<1>4. ASSUME NEW d \in Chans, NEW k \in Holders, d # e \/ k # h
      PROVE  Holds(k, d)' <=> Holds(k, d)
  BY <1>1, <1>4 DEF HangupUnref, Types, Locals, Planned, Zombies, Holders, Holds, System, Linked
<1>5. refs'[e] = Cardinality(HoldersOf(e))'
  BY <1>1, <1>2, <1>3, <1>4, Loses DEF Types
<1>6. \A d \in Chans \ {e} : refs'[d] = Cardinality(HoldersOf(d))'
  BY <1>1, <1>2, <1>4, Keeps DEF Types
<1> QED BY <1>5, <1>6 DEF Counted

\* Counts: ast_hangup turns to a pending masquerade, or makes the channel a
\* zombie.
LEMMA ast_hangupCounts ==
  ASSUME Types, Locals, Planned, Zombies, Container, Sides, Counted, NEW c \in Chans, ast_hangup(c)
  PROVE  Counted'
<1>1. /\ pc[c] = "hangup"
      /\ pc' = [pc EXCEPT ![c] = pc'[c]] /\ pc'[c] \in {"m_lock", "h_unlink", "gone"}
      /\ pc'[c] = "gone" => masqr[c] # None
      /\ \A q \in Threads \ {c} : waszombie'[q] = waszombie[q]
      /\ UNCHANGED <<refs, bucket, masqr, orig, clone, other>>
  BY DEF ast_hangup, Types
<1>2. \A d \in Chans : System(d)' <=> System(d)
  BY <1>1 DEF Types, System
<1>3. ASSUME NEW d \in Chans, NEW k \in Holders
      PROVE  Holds(k, d)' <=> Holds(k, d)
  BY <1>1, <1>2 DEF Types, Holders, Holds, Linked
<1> QED BY <1>1, <1>3, Keeps DEF Counted

\* Counts: ast_change_name unlinks, renames and links again under the
\* container lock.
LEMMA ast_change_nameCounts ==
  ASSUME Types, Locals, Planned, Zombies, Container, Sides, Counted, NEW c \in Chans, ast_change_name(c)
  PROVE  Counted'
<1> DEFINE h == <<"container", c>>
<1>1. /\ bucket' = [bucket EXCEPT ![c] = name'[c]] /\ name'[c] \in Names
      /\ refs' = [refs EXCEPT ![c] = IF Found(c) THEN @ ELSE @ + 1]
      /\ UNCHANGED <<masqr, pc, orig, clone, waszombie, other>>
  BY DEF ast_change_name, Types, Names
<1>2. h \in Holders /\ Holds(h, c)' /\ (Holds(h, c) <=> Found(c))
  BY <1>1, NoNameNotName DEF Types, Container, FoundByName, Holders, Holds, Linked, Found
<1>3. ASSUME NEW d \in Chans, NEW k \in Holders, d # c \/ k # h
      PROVE  Holds(k, d)' <=> Holds(k, d)
  BY <1>1, <1>3 DEF Types, Holders, Holds, System, Linked
<1>4. \A d \in Chans \ {c} : refs'[d] = Cardinality(HoldersOf(d))'
  BY <1>1, <1>3, Keeps DEF Types
<1>5. CASE Found(c)
  BY <1>1, <1>2, <1>3, <1>4, <1>5, Keeps DEF Types, Counted
<1>6. CASE ~Found(c)
  BY <1>1, <1>2, <1>3, <1>4, <1>6, Gains DEF Types, Counted
<1> QED BY <1>5, <1>6

\* Counts: ast_hangup unlinks the channel.
LEMMA HangupUnlinkCounts ==
  ASSUME Types, Locals, Planned, Zombies, Container, Sides, Counted, NEW c \in Chans, HangupUnlink(c)
  PROVE  Counted'
<1> DEFINE h == <<"container", c>>
<1>1. /\ pc[c] = "h_unlink" /\ pc' = [pc EXCEPT ![c] = "h_close"]
      /\ bucket' = [bucket EXCEPT ![c] = IF Found(c) THEN NoName ELSE @]
      /\ refs' = [refs EXCEPT ![c] = IF Found(c) THEN @ - 1 ELSE @]
      /\ UNCHANGED <<masqr, orig, clone, waszombie, other>>
  BY DEF HangupUnlink
<1>2. h \in Holders /\ ~Holds(h, c)' /\ (Holds(h, c) <=> Found(c))
  BY <1>1, NoNameNotName DEF Types, Container, FoundByName, Holders, Holds, Linked, Found
<1>3. ASSUME NEW d \in Chans, NEW k \in Holders, d # c \/ k # h
      PROVE  Holds(k, d)' <=> Holds(k, d)
  BY <1>1, <1>3 DEF Types, Holders, Holds, System, Linked
<1>4. \A d \in Chans \ {c} : refs'[d] = Cardinality(HoldersOf(d))'
  BY <1>1, <1>3, Keeps DEF Types
<1>5. CASE Found(c)
  BY <1>1, <1>2, <1>3, <1>4, <1>5, Loses DEF Types, Counted
<1>6. CASE ~Found(c)
  BY <1>1, <1>2, <1>3, <1>4, <1>6, Keeps DEF Types, Counted
<1> QED BY <1>5, <1>6

\* Counts: ast_do_masquerade links again what will still be hung up.
LEMMA LinkCounts ==
  ASSUME Types, Locals, Planned, Zombies, Container, Sides, Counted, NEW p \in Threads, Link(p)
  PROVE  Counted'
<1>1. PICK o \in Chans, c \in Chans : o = orig[p] /\ c = clone[p] /\ o # c
  BY DEF Link, Types, Locals, Planned
<1>2. /\ refs' = [refs EXCEPT ![o] = @ + 1, ![c] = IF waszombie[p] THEN @ - 1 ELSE @ + 1]
      /\ bucket' = [bucket EXCEPT ![o] = name[o], ![c] = IF waszombie[p] THEN @ ELSE name[c]]
      /\ waszombie' = [waszombie EXCEPT ![p] = FALSE]
      /\ pc[p] = "m_link" /\ lock = p /\ pc' = [pc EXCEPT ![p] = "m_unref1"]
      /\ UNCHANGED <<name, masqr, orig, clone, other>>
  BY <1>1 DEF Link, Types, Locals
<1>3. ~Linked(o) /\ ~Linked(c) /\ Linked(o)' /\ (Linked(c)' <=> ~waszombie[p])
  BY <1>1, <1>2, NoNameNotName DEF Types, Container, Linked
<1>4. \A d \in Chans \ {o, c} : Linked(d)' <=> Linked(d)
  BY <1>1, <1>2 DEF Types, Linked
<1>5. \A d \in Chans \ {c} : System(d)' <=> System(d)
  BY <1>1, <1>2 DEF Types, System
<1>6. System(c) /\ (System(c)' <=> ~waszombie[p])
  BY <1>1, <1>2 DEF Types, Locals, Zombies, System
<1>7. ASSUME NEW d \in Chans, NEW k \in Holders, k \notin {<<"system", d>>, <<"container", d>>}
      PROVE  Holds(k, d)' <=> Holds(k, d)
  BY <1>1, <1>2, <1>7 DEF Types, Holders, Holds
<1>8. ASSUME NEW d \in Chans
      PROVE  /\ <<"system", d>> \in Holders /\ <<"container", d>> \in Holders
             /\ Holds(<<"system", d>>, d) <=> System(d)
             /\ Holds(<<"system", d>>, d)' <=> System(d)'
             /\ Holds(<<"container", d>>, d) <=> Linked(d)
             /\ Holds(<<"container", d>>, d)' <=> Linked(d)'
  BY DEF Holders, Holds
<1>9. ASSUME NEW d \in Chans, d \notin {o, c}
      PROVE  refs'[d] = Cardinality(HoldersOf(d))'
  <2>1. \A k \in Holders : Holds(k, d)' <=> Holds(k, d)
    BY <1>4, <1>5, <1>7, <1>8, <1>9, Zenon
  <2>2. refs'[d] = refs[d]
    BY <1>1, <1>2, <1>9 DEF Types
  <2> QED BY <2>1, <2>2, Keeps
<1>10. refs'[o] = Cardinality(HoldersOf(o))'
  <2>1. \A k \in Holders \ {<<"container", o>>} : Holds(k, o)' <=> Holds(k, o)
    BY <1>1, <1>5, <1>7, <1>8, Zenon
  <2>2. refs'[o] = refs[o] + 1
    BY <1>1, <1>2 DEF Types
  <2>3. <<"container", o>> \in Holders /\ ~Holds(<<"container", o>>, o) /\ Holds(<<"container", o>>, o)'
    BY <1>3, <1>8, Zenon
  <2> QED BY <2>1, <2>2, <2>3, Gains
<1>11. refs'[c] = Cardinality(HoldersOf(c))'
  <2>1. CASE waszombie[p]
    <3>1. \A k \in Holders \ {<<"system", c>>} : Holds(k, c)' <=> Holds(k, c)
      BY <1>3, <1>7, <1>8, <2>1, Zenon
    <3>2. refs'[c] = refs[c] - 1
      BY <1>1, <1>2, <2>1 DEF Types
    <3>3. <<"system", c>> \in Holders /\ Holds(<<"system", c>>, c) /\ ~Holds(<<"system", c>>, c)'
      BY <1>6, <1>8, <2>1, Zenon
    <3> QED BY <3>1, <3>2, <3>3, Loses
  <2>2. CASE ~waszombie[p]
    <3>1. \A k \in Holders \ {<<"container", c>>} : Holds(k, c)' <=> Holds(k, c)
      BY <1>6, <1>7, <1>8, <2>2, Zenon
    <3>2. refs'[c] = refs[c] + 1
      BY <1>1, <1>2, <2>2 DEF Types
    <3>3. <<"container", c>> \in Holders /\ ~Holds(<<"container", c>>, c) /\ Holds(<<"container", c>>, c)'
      BY <1>3, <1>8, <2>2, Zenon
    <3> QED BY <3>1, <3>2, <3>3, Gains
  <2> QED BY <2>1, <2>2
<1> QED BY <1>9, <1>10, <1>11 DEF Counted

\* Counts: ast_do_masquerade takes its safety references and both channels
\* out of the container.
LEMMA UnlinkCounts ==
  ASSUME Types, Locals, Planned, Zombies, Container, Sides, Counted, NEW p \in Threads, Unlink(p)
  PROVE  Counted'
<1>1. PICK o \in Chans, c \in Chans : o = orig[p] /\ c = masq[o] /\ o # c
  BY DEF Unlink, Types, Locals, Planned, PairedOff
<1>2. /\ clone' = [clone EXCEPT ![p] = c]
      /\ refs' = [x \in Chans |-> IF x \in {o, c} /\ ~Found(x) THEN refs[x] + 1 ELSE refs[x]]
      /\ bucket' = [x \in Chans |-> IF x \in {o, c} /\ Found(x) THEN NoName ELSE bucket[x]]
      /\ pc[p] = "m_check" /\ pc' = [pc EXCEPT ![p] = "m_shuffle"] /\ clone[p] = None
      /\ UNCHANGED <<name, masqr, orig, waszombie, other>>
  BY <1>1 DEF Unlink, Locals
<1>3. \A d \in {o, c} : ~Linked(d)' /\ (Linked(d) <=> Found(d))
  BY <1>1, <1>2, NoNameNotName DEF Types, Container, FoundByName, Linked, Found
<1>4. \A d \in Chans \ {o, c} : Linked(d)' <=> Linked(d)
  BY <1>1, <1>2 DEF Types, Linked
<1>5. \A d \in Chans : System(d)' <=> System(d)
  BY <1>1, <1>2 DEF Types, System
<1>6. PICK go \in Holders, gc \in Holders : go = <<"original", p>> /\ gc = <<"clone", p>>
  BY Zenon DEF Holders
<1>7. ~Holds(go, o) /\ Holds(go, o)' /\ ~Holds(gc, c) /\ Holds(gc, c)'
  BY <1>1, <1>2, <1>6 DEF Types, Holds
<1>8. ASSUME NEW d \in Chans, NEW k \in Holders, k # <<"container", d>>,
             d # o \/ k # go, d # c \/ k # gc
      PROVE  Holds(k, d)' <=> Holds(k, d)
  BY <1>1, <1>2, <1>5, <1>6, <1>8 DEF Types, Holders, Holds
<1>9. ASSUME NEW d \in Chans
      PROVE  /\ <<"container", d>> \in Holders
             /\ <<"container", d>> # go /\ <<"container", d>> # gc
             /\ Holds(<<"container", d>>, d) <=> Linked(d)
             /\ Holds(<<"container", d>>, d)' <=> Linked(d)'
  BY <1>6 DEF Holders, Holds
<1>10. \A d \in Chans \ {o, c} : refs'[d] = Cardinality(HoldersOf(d))'
  BY <1>1, <1>2, <1>4, <1>8, <1>9, Keeps DEF Types
<1>11. refs'[o] = Cardinality(HoldersOf(o))'
  <2>1. CASE Found(o)
    BY <1>1, <1>2, <1>3, <1>7, <1>8, <1>9, <2>1, Swaps, Zenon
  <2>2. CASE ~Found(o)
    <3>1. refs'[o] = refs[o] + 1
      BY <1>1, <1>2, <2>2, Zenon
    <3>2. Holds(<<"container", o>>, o)' <=> Holds(<<"container", o>>, o)
      BY <1>1, <1>3, <1>9, <2>2, Zenon
    <3>3. \A k \in Holders \ {go} : Holds(k, o)' <=> Holds(k, o)
      BY <1>1, <1>8, <3>2, Zenon
    <3> QED BY <1>7, <3>1, <3>3, Gains, Zenon
  <2> QED BY <2>1, <2>2
<1>12. refs'[c] = Cardinality(HoldersOf(c))'
  <2>1. CASE Found(c)
    BY <1>1, <1>2, <1>3, <1>7, <1>8, <1>9, <2>1, Swaps, Zenon
  <2>2. CASE ~Found(c)
    <3>1. refs'[c] = refs[c] + 1
      BY <1>1, <1>2, <2>2, Zenon
    <3>2. Holds(<<"container", c>>, c)' <=> Holds(<<"container", c>>, c)
      BY <1>1, <1>3, <1>9, <2>2, Zenon
    <3>3. \A k \in Holders \ {gc} : Holds(k, c)' <=> Holds(k, c)
      BY <1>1, <1>8, <3>2, Zenon
    <3> QED BY <1>7, <3>1, <3>3, Gains, Zenon
  <2> QED BY <2>1, <2>2
<1> QED BY <1>10, <1>11, <1>12 DEF Counted
=============================================================================
