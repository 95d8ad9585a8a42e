-------------------------- MODULE MasqueradeLemmas --------------------------
(*****************************************************************************)
(* Facts the proofs about Masquerade share: about names, about hanging up a  *)
(* physical side, and about what a step does to a count of holders.          *)
(*****************************************************************************)
EXTENDS MasqueradeInv, FiniteSetTheorems, TLAPS

USE MasqueradeConstants
USE DEF Threads, Goto, MasqPcs, ChanPcs, XferPcs, Locking, Moved, Out,
        KeepsOriginal, KeepsClone, Ending, Unlinked

\* An unlinked channel is not linked under some name.
LEMMA NoNameNotName == NoName \notin Names
BY DEF NoName, Names

\* A driver hangs up the side of a channel that has one.
LEMMA SideHungUp ==
  ASSUME Types, SideOnce, NEW c \in Chans, pvt[c] \in Chans,
         hangups' = Hungup(pvt[c]), pvt' = [pvt EXCEPT ![c] = None]
  PROVE  SideOnce'
<1> USE DEF Types
<1>1. pvt'[c] = None /\ \A d \in Chans \ {c} : pvt'[d] = pvt[d]
  OBVIOUS
<1>2. \A s \in Chans : hangups'[s] = IF \E d \in Chans : pvt'[d] = s THEN 0 ELSE 1
  <2>1. \A d \in Chans : pvt'[d] # pvt[c]
    BY <1>1 DEF SideOnce
  <2>2. hangups[pvt[c]] = 0 /\ hangups'[pvt[c]] = 1
    BY DEF SideOnce, Hungup
  <2>3. \A s \in Chans \ {pvt[c]} :
          /\ hangups'[s] = hangups[s]
          /\ (\E d \in Chans : pvt'[d] = s) <=> (\E d \in Chans : pvt[d] = s)
    BY <1>1 DEF Hungup
  <2> QED BY <2>1, <2>2, <2>3 DEF SideOnce
<1>3. \A d, e \in Chans : pvt'[d] # None /\ pvt'[d] = pvt'[e] => d = e
  BY <1>1 DEF SideOnce
<1> QED BY <1>2, <1>3 DEF SideOnce

\* Only finitely many holders are possible.
LEMMA HoldersFinite == \A c : IsFiniteSet(HoldersOf(c))
<1>1. IsFiniteSet(Threads)
  BY FS_Union, Zenon
<1>2. IsFiniteSet({"system", "container", "found", "other", "original", "clone"})
  <2> DEFINE K2 == {"system"} \cup {"container"}
             K3 == K2 \cup {"found"}
             K4 == K3 \cup {"other"}
             K5 == K4 \cup {"original"}
             K6 == K5 \cup {"clone"}
  <2>1. IsFiniteSet(K2)
    BY FS_Singleton, FS_AddElement, Zenon
  <2>2. IsFiniteSet(K3)
    BY <2>1, FS_AddElement
  <2>3. IsFiniteSet(K4)
    BY <2>2, FS_AddElement, Zenon
  <2>4. IsFiniteSet(K5)
    BY <2>3, FS_AddElement
  <2>5. IsFiniteSet(K6)
    BY <2>4, FS_AddElement
  <2>6. K6 = {"system", "container", "found", "other", "original", "clone"}
    OBVIOUS
  <2> QED BY <2>5, <2>6
<1>3. IsFiniteSet(Holders)
  BY <1>1, <1>2, FS_Product DEF Holders
<1> QED BY <1>3, FS_Subset DEF HoldersOf

\* Nobody's reference to c comes or goes.
LEMMA Keeps ==
  ASSUME NEW c \in Chans, Counted,
         \A k \in Holders : Holds(k, c)' <=> Holds(k, c),
         refs'[c] = refs[c]
  PROVE  refs'[c] = Cardinality(HoldersOf(c))'
BY DEF Counted, HoldersOf

\* One holder more.
LEMMA Gains ==
  ASSUME NEW c \in Chans, NEW h \in Holders, Counted,
         ~Holds(h, c), Holds(h, c)',
         \A k \in Holders \ {h} : Holds(k, c)' <=> Holds(k, c),
         refs'[c] = refs[c] + 1
  PROVE  refs'[c] = Cardinality(HoldersOf(c))'
<1>1. HoldersOf(c)' = HoldersOf(c) \cup {h} /\ h \notin HoldersOf(c)
  BY DEF HoldersOf
<1> QED BY <1>1, HoldersFinite, FS_AddElement, Zenon DEF Counted

\* One holder less.
LEMMA Loses ==
  ASSUME NEW c \in Chans, NEW h \in Holders, Counted,
         Holds(h, c), ~Holds(h, c)',
         \A k \in Holders \ {h} : Holds(k, c)' <=> Holds(k, c),
         refs'[c] = refs[c] - 1
  PROVE  refs'[c] = Cardinality(HoldersOf(c))'
<1>1. HoldersOf(c)' = HoldersOf(c) \ {h} /\ h \in HoldersOf(c)
  BY DEF HoldersOf
<1> QED BY <1>1, HoldersFinite, FS_RemoveElement, Zenon DEF Counted

\* One holder hands its reference to another.
LEMMA Swaps ==
  ASSUME NEW c \in Chans, NEW g \in Holders, NEW h \in Holders, Counted, g # h,
         Holds(g, c), ~Holds(g, c)', ~Holds(h, c), Holds(h, c)',
         \A k \in Holders \ {g, h} : Holds(k, c)' <=> Holds(k, c),
         refs'[c] = refs[c]
  PROVE  refs'[c] = Cardinality(HoldersOf(c))'
<1> DEFINE S == HoldersOf(c) \ {g}
<1>1. g \in HoldersOf(c) /\ h \notin S /\ HoldersOf(c)' = S \cup {h}
  BY DEF HoldersOf
<1>2. IsFiniteSet(S) /\ Cardinality(S) = Cardinality(HoldersOf(c)) - 1
  BY <1>1, HoldersFinite, FS_RemoveElement, Zenon
<1>3. Cardinality(S \cup {h}) = Cardinality(S) + 1
  BY <1>1, <1>2, FS_AddElement, Zenon
<1>4. Cardinality(HoldersOf(c)) \in Nat
  BY HoldersFinite, FS_CardinalityType
<1> QED BY <1>1, <1>2, <1>3, <1>4 DEF Counted
=============================================================================
