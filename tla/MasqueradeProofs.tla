-------------------------- MODULE MasqueradeProofs --------------------------
(*****************************************************************************)
(* Theorems about Masquerade, for any finite sets of channels and of         *)
(* transferring threads: Inv is inductive, and it implies the properties.    *)
(*****************************************************************************)
EXTENDS MasqueradeThreads, MasqueradeDo, MasqueradeCounts

USE MasqueradeConstants
USE DEF Threads, Goto, MasqPcs, ChanPcs, XferPcs, Locking, Moved, Out,
        KeepsOriginal, KeepsClone, Ending, Unlinked

\* The channels __ast_channel_alloc_ap has made satisfy the invariant: each has
\* the references of its creator and of the container.
LEMMA InitInv == Init => Inv
<1> SUFFICES ASSUME Init PROVE Inv
  OBVIOUS
<1> USE DEF Init
<1>1. Types
  BY DEF Types, Names
<1>2. Locals
  BY DEF Locals
<1>3. Planned
  BY DEF Planned, PairedOff
<1>4. Zombies
  BY DEF Zombies
<1>5. Container
  <2>1. \A c \in Chans : Found(c) /\ ~Leaving(c)
    BY DEF Found, Leaving
  <2>2. \A c, d \in Chans : name[c].base = name[d].base => c = d
    OBVIOUS
  <2>3. \A p \in Threads : pc[p] \notin Out
    OBVIOUS
  <2> QED BY <2>1, <2>2, <2>3 DEF Container, FoundByName
<1>6. Sides
  BY DEF Sides, SideOnce, Locked
<1>7. Counted
  <2> SUFFICES ASSUME NEW c \in Chans
              PROVE  refs[c] = Cardinality(HoldersOf(c))
    BY DEF Counted
  <2>1. HoldersOf(c) = {<<"system", c>>} \cup {<<"container", c>>}
    <3>1. System(c) /\ Linked(c)
      BY <1>1, NoNameNotName DEF System, Linked, Types, Names
    <3>2. <<"system", c>> \in Holders /\ <<"container", c>> \in Holders
      BY DEF Holders
    <3>3. ASSUME NEW h \in Holders, Holds(h, c)
          PROVE  h = <<"system", c>> \/ h = <<"container", c>>
      BY <3>3 DEF Holds, Holders
    <3> QED BY <3>1, <3>2, <3>3, Zenon DEF HoldersOf, Holds
  <2>2. /\ IsFiniteSet({<<"system", c>>})
        /\ Cardinality({<<"system", c>>}) = 1
    BY FS_Singleton
  <2>3. <<"container", c>> \notin {<<"system", c>>}
    OBVIOUS
  <2>4. Cardinality(HoldersOf(c)) = Cardinality({<<"system", c>>}) + 1
    BY <2>1, <2>2, <2>3, FS_AddElement, Zenon
  <2> QED BY <2>2, <2>4
<1> QED BY <1>1, <1>2, <1>3, <1>4, <1>5, <1>6, <1>7 DEF Inv, Control

\* Every step of every thread preserves the invariant.
LEMMA NextInv == Inv /\ [Next]_vars => Inv'
<1> SUFFICES ASSUME Types, Locals, Planned, Zombies, Container, Sides, Counted, [Next]_vars
            PROVE  /\ Types' /\ Locals' /\ Planned' /\ Zombies' /\ Container' /\ Sides'
                   /\ Counted'
  BY DEF Inv, Control
<1>1. ASSUME NEW p \in Threads, LockContainer(p)
     PROVE  Types' /\ Locals' /\ Planned' /\ Zombies' /\ Container' /\ Sides' /\ Counted'
  BY <1>1, LockContainerStep, LockContainerCounts, Zenon
<1>2. ASSUME NEW p \in Threads, NothingToDo(p)
     PROVE  Types' /\ Locals' /\ Planned' /\ Zombies' /\ Container' /\ Sides' /\ Counted'
  BY <1>2, NothingToDoStep, NothingToDoCounts, Zenon
<1>3. ASSUME NEW p \in Threads, Unlink(p)
     PROVE  Types' /\ Locals' /\ Planned' /\ Zombies' /\ Container' /\ Sides' /\ Counted'
  BY <1>3, UnlinkStep, UnlinkCounts, Zenon
<1>4. ASSUME NEW p \in Threads, Shuffle(p)
     PROVE  Types' /\ Locals' /\ Planned' /\ Zombies' /\ Container' /\ Sides' /\ Counted'
  BY <1>4, ShuffleStep, ShuffleCounts, Zenon
<1>5. ASSUME NEW p \in Threads, HangupClone(p)
     PROVE  Types' /\ Locals' /\ Planned' /\ Zombies' /\ Container' /\ Sides' /\ Counted'
  BY <1>5, HangupCloneStep, HangupCloneCounts, Zenon
<1>6. ASSUME NEW p \in Threads, Link(p)
     PROVE  Types' /\ Locals' /\ Planned' /\ Zombies' /\ Container' /\ Sides' /\ Counted'
  BY <1>6, LinkStep, LinkCounts, Zenon
<1>7. ASSUME NEW p \in Threads, UnrefOriginal(p)
     PROVE  Types' /\ Locals' /\ Planned' /\ Zombies' /\ Container' /\ Sides' /\ Counted'
  BY <1>7, UnrefOriginalStep, UnrefOriginalCounts, Zenon
<1>8. ASSUME NEW p \in Threads, UnrefClone(p)
     PROVE  Types' /\ Locals' /\ Planned' /\ Zombies' /\ Container' /\ Sides' /\ Counted'
  BY <1>8, UnrefCloneStep, UnrefCloneCounts, Zenon
<1>9. ASSUME NEW p \in Transferers, FindsNothing(p)
     PROVE  Types' /\ Locals' /\ Planned' /\ Zombies' /\ Container' /\ Sides' /\ Counted'
  BY <1>9, FindsNothingStep, FindsNothingCounts, Zenon
<1>10. ASSUME NEW p \in Transferers, ast_channel_masquerade(p)
     PROVE  Types' /\ Locals' /\ Planned' /\ Zombies' /\ Container' /\ Sides' /\ Counted'
  BY <1>10, ast_channel_masqueradeStep, ast_channel_masqueradeCounts, Zenon
<1>11. ASSUME NEW p \in Transferers, DropOriginal(p)
     PROVE  Types' /\ Locals' /\ Planned' /\ Zombies' /\ Container' /\ Sides' /\ Counted'
  BY <1>11, DropOriginalStep, DropOriginalCounts, Zenon
<1>12. ASSUME NEW p \in Transferers, DropClone(p)
     PROVE  Types' /\ Locals' /\ Planned' /\ Zombies' /\ Container' /\ Sides' /\ Counted'
  BY <1>12, DropCloneStep, DropCloneCounts, Zenon
<1>13. ASSUME NEW p \in Transferers, NEW c \in Chans, FindOriginal(p, c)
     PROVE  Types' /\ Locals' /\ Planned' /\ Zombies' /\ Container' /\ Sides' /\ Counted'
  BY <1>13, FindOriginalStep, FindOriginalCounts, Zenon
<1>14. ASSUME NEW p \in Transferers, NEW c \in Chans, FindClone(p, c)
     PROVE  Types' /\ Locals' /\ Planned' /\ Zombies' /\ Container' /\ Sides' /\ Counted'
  BY <1>14, FindCloneStep, FindCloneCounts, Zenon
<1>15. ASSUME NEW c \in Chans, ast_hangup(c)
     PROVE  Types' /\ Locals' /\ Planned' /\ Zombies' /\ Container' /\ Sides' /\ Counted'
  BY <1>15, ast_hangupStep, ast_hangupCounts, Zenon
<1>16. ASSUME NEW c \in Chans, HangupUnlink(c)
     PROVE  Types' /\ Locals' /\ Planned' /\ Zombies' /\ Container' /\ Sides' /\ Counted'
  BY <1>16, HangupUnlinkStep, HangupUnlinkCounts, Zenon
<1>17. ASSUME NEW c \in Chans, HangupClose(c)
     PROVE  Types' /\ Locals' /\ Planned' /\ Zombies' /\ Container' /\ Sides' /\ Counted'
  BY <1>17, HangupCloseStep, HangupCloseCounts, Zenon
<1>18. ASSUME NEW c \in Chans, HangupUnref(c)
     PROVE  Types' /\ Locals' /\ Planned' /\ Zombies' /\ Container' /\ Sides' /\ Counted'
  BY <1>18, HangupUnrefStep, HangupUnrefCounts, Zenon
<1>19. ASSUME NEW c \in Chans, StartHangup(c)
     PROVE  Types' /\ Locals' /\ Planned' /\ Zombies' /\ Container' /\ Sides' /\ Counted'
  BY <1>19, StartHangupStep, StartHangupCounts, Zenon
<1>20. ASSUME NEW c \in Chans, ServicePending(c)
     PROVE  Types' /\ Locals' /\ Planned' /\ Zombies' /\ Container' /\ Sides' /\ Counted'
  BY <1>20, ServicePendingStep, ServicePendingCounts, Zenon
<1>21. ASSUME NEW c \in Chans, ast_change_name(c)
     PROVE  Types' /\ Locals' /\ Planned' /\ Zombies' /\ Container' /\ Sides' /\ Counted'
  BY <1>21, ast_change_nameStep, ast_change_nameCounts, Zenon
<1>22. CASE UNCHANGED vars
  <2> USE DEF vars
  <2>1. Types'
    BY <1>22 DEF Types
  <2>2. Locals'
    BY <1>22 DEF Locals
  <2>3. Planned'
    BY <1>22 DEF Planned, PairedOff
  <2>4. Zombies'
    BY <1>22 DEF Zombies
  <2>5. Container'
    BY <1>22 DEF Container, FoundByName, Linked, Found, Leaving
  <2>6. Sides'
    BY <1>22 DEF Sides, SideOnce, Locked
  <2>7. Counted'
    BY <1>22 DEF Counted, HoldersOf, Holds, System, Linked
  <2> QED BY <2>1, <2>2, <2>3, <2>4, <2>5, <2>6, <2>7
<1> QED
  BY <1>1, <1>2, <1>3, <1>4, <1>5, <1>6, <1>7, <1>8, <1>9, <1>10, <1>11, <1>12, <1>13, <1>14, <1>15, <1>16, <1>17, <1>18, <1>19, <1>20, <1>21, <1>22, Zenon
  DEF Next, DoMasquerade, Transfer, Hangup

\* Inv is an invariant of channels under any interleaving.
THEOREM InvHolds == Spec => []Inv
BY InitInv, NextInv, PTL DEF Spec

\* A destroyed channel has no holder, one that is not destroyed has one.
LEMMA DestroyedIsUnheld ==
  ASSUME Types, Counted, NEW c \in Chans
  PROVE  Destroyed(c) <=> \A h \in Holders : ~Holds(h, c)
<1>1. Destroyed(c) <=> Cardinality(HoldersOf(c)) = 0
  BY DEF Counted, Destroyed
<1>2. Cardinality(HoldersOf(c)) = 0 <=> HoldersOf(c) = {}
  BY HoldersFinite, FS_EmptySet, Zenon
<1> QED BY <1>1, <1>2, Zenon DEF HoldersOf

\* Who keeps a channel alive.
LEMMA HeldChannels ==
  ASSUME Types, Locals, Counted, NEW c \in Chans, Destroyed(c)
  PROVE  /\ ~System(c) /\ ~Linked(c)
         /\ \A p \in Transferers : orig[p] # c
         /\ \A p \in Threads : other[p] # c /\ clone[p] # c
<1>1. \A h \in Holders : ~Holds(h, c)
  BY DestroyedIsUnheld
<1>2. ~System(c) /\ ~Linked(c)
  <2>1. <<"system", c>> \in Holders /\ <<"container", c>> \in Holders
    BY DEF Holders
  <2> QED BY <1>1, <2>1, Zenon DEF Holds
<1>3. ASSUME NEW p \in Transferers PROVE orig[p] # c
  <2>1. <<"found", p>> \in Holders
    BY DEF Holders
  <2>2. ~Holds(<<"found", p>>, c)
    BY <1>1, <2>1
  <2> QED BY <2>2 DEF Holds
<1>4. ASSUME NEW p \in Threads PROVE other[p] # c /\ clone[p] # c
  <2>1. <<"other", p>> \in Holders /\ <<"clone", p>> \in Holders
    BY DEF Holders
  <2>2. ~Holds(<<"other", p>>, c) /\ ~Holds(<<"clone", p>>, c)
    BY <1>1, <2>1
  <2> QED BY <2>2 DEF Holds
<1> QED BY <1>2, <1>3, <1>4

\* Every variable of the channels and of the threads of channel.c keeps its
\* type; in particular no reference count is given back more often than it was
\* taken, so none becomes negative.
THEOREM TypeCorrect == Spec => []TypeOK
<1>1. Inv => TypeOK
  <2> SUFFICES ASSUME Types, Counted PROVE TypeOK
    BY DEF Inv, Control
  <2>1. \A c \in Chans : refs[c] \in Nat
    BY HoldersFinite, FS_CardinalityType, Zenon DEF Counted
  <2>2. refs \in [Chans -> Nat]
    BY <2>1 DEF Types
  <2> QED BY <2>2 DEF Types, TypeOK
<1> QED BY <1>1, InvHolds, PTL

\* In ast_do_masquerade, ast_hangup, ast_change_name and a transfer no thread
\* goes on to use a channel that was destroyed, the container holds none, and
\* the uncounted pointers masq and masqr lead to live channels only.
THEOREM NeverUsedAfterFree == Spec => []NoUseAfterFree
<1>1. Inv => NoUseAfterFree
  <2> SUFFICES ASSUME Types, Locals, Planned, Zombies, Counted PROVE NoUseAfterFree
    BY DEF Inv, Control
  <2>1. ASSUME NEW p \in Threads, NEW c \in Uses(p) PROVE ~Destroyed(c)
    <3>1. pc[p] # "gone" /\ c \in Chans /\ (c = orig[p] \/ c = clone[p] \/ c = other[p])
      BY <2>1 DEF Uses, Types
    <3>2. CASE p \in Transferers
      BY <3>1, <3>2, HeldChannels
    <3>3. CASE p \in Chans
      <4>1. orig[p] = p /\ System(p)
        BY <3>1, <3>3 DEF Locals, System
      <4> QED BY <3>1, <3>3, <4>1, HeldChannels
    <3> QED BY <3>2, <3>3
  <2>2. \A c \in Chans : Destroyed(c) => ~Linked(c)
    BY HeldChannels
  <2>3. ASSUME NEW o \in Chans, NEW c \in Chans, masq[o] = c
        PROVE  ~Destroyed(o) /\ ~Destroyed(c)
    <3>1. pc[o] # "gone" /\ masqr[c] # None
      BY <2>3 DEF Zombies, Planned, PairedOff
    <3> QED BY <3>1, HeldChannels DEF System
  <2>4. \A c \in Chans : masq[c] # None => ~Destroyed(c) /\ ~Destroyed(masq[c])
    BY <2>3 DEF Types
  <2>5. \A c \in Chans : masqr[c] # None => ~Destroyed(c) /\ ~Destroyed(masqr[c])
    BY <2>3 DEF Types, Planned, PairedOff
  <2> QED BY <2>1, <2>2, <2>4, <2>5 DEF NoUseAfterFree
<1> QED BY <1>1, InvHolds, PTL

\* __ast_channel_masquerade, ast_do_masquerade and ast_hangup keep masq and
\* masqr each other's inverse, and no channel takes part in two masquerades.
THEOREM AlwaysPairedOff == Spec => []PairedOff
<1>1. Inv => PairedOff
  BY DEF Inv, Control, Planned
<1> QED BY <1>1, InvHolds, PTL

\* Between ast_do_masquerade's hangup of the clone and ast_hangup's own, every
\* physical side is hung up at most once, never while a channel still has it,
\* and always before its channel is destroyed.
THEOREM SidesHungUpOnce == Spec => []EachSideHungUpOnce
<1>1. Inv => EachSideHungUpOnce
  <2> SUFFICES ASSUME Types, Locals, Zombies, Sides, Counted PROVE EachSideHungUpOnce
    BY DEF Inv, Control
  <2>1. ASSUME NEW c \in Chans, Destroyed(c) PROVE pvt[c] = None
    <3>1. pc[c] = "gone" /\ masqr[c] = None
      BY <2>1, HeldChannels DEF System
    <3>2. ~Locked(c)
      BY <2>1, HeldChannels DEF Locked
    <3> QED BY <3>1, <3>2 DEF Zombies, Sides
  <2> QED BY <2>1 DEF Sides, SideOnce, EachSideHungUpOnce
<1> QED BY <1>1, InvHolds, PTL

\* ast_change_name and ast_do_masquerade change a name only while the channel
\* is out of the container, and never give two channels the same name.
THEOREM AlwaysFoundByName == Spec => []FoundByName
<1>1. Inv => FoundByName
  BY DEF Inv, Control, Container
<1> QED BY <1>1, InvHolds, PTL

\* The references ast_do_masquerade and ast_hangup give back are all there
\* were: a channel that was hung up, that takes part in no masquerade and that
\* no thread refers to has been destroyed.
THEOREM NothingEverLeaks == Spec => []NothingLeaks
<1>1. Inv => NothingLeaks
  <2> SUFFICES ASSUME Types, Locals, Container, Counted,
                      NEW c \in Chans, pc[c] = "gone", masqr[c] = None,
                      \A p \in Threads \ {c} : c \notin Uses(p)
              PROVE  Destroyed(c)
    BY DEF Inv, Control, NothingLeaks
  <2>1. \A p \in Threads : clone[p] # c /\ other[p] # c
    BY DEF Locals, Types, Uses
  <2>2. ~System(c)
    BY <2>1 DEF System
  <2>3. ~Linked(c)
    BY DEF Container, Leaving
  <2>4. \A p \in Threads : orig[p] = c => p \notin Transferers /\ pc[p] \notin KeepsOriginal
    BY DEF Locals, Types, Uses
  <2>5. ASSUME NEW h \in Holders PROVE ~Holds(h, c)
    <3>1. h[2] \in Threads
      BY DEF Holders
    <3> QED BY <2>1, <2>2, <2>3, <2>4, <3>1 DEF Holds
  <2> QED BY <2>5, DestroyedIsUnheld
<1> QED BY <1>1, InvHolds, PTL
=============================================================================
