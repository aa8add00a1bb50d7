------------------------------ MODULE Induction ------------------------------
(***************************************************************************)
(* Induction over numbers and over the subsets of a finite set, for the    *)
(* proofs about what the parts compute from sequences and sets of any      *)
(* size.  The claim to be proved is given as the set Good it holds in.     *)
(* Then what Append and EXCEPT do to a sequence.                           *)
(***************************************************************************)
EXTENDS Integers, Sequences, FiniteSetTheorems, WellFoundedInduction, TLAPS

(* Whatever holds of zero and goes over to the next number holds of all. *)
LEMMA CountingUp ==
    ASSUME NEW Good, 0 \in Good,
           ASSUME NEW n \in Nat, n \in Good PROVE n + 1 \in Good
    PROVE  Nat \subseteq Good
<1> DEFINE Bad == {n \in Nat : n \notin Good}
           less == OpToRel(<, Nat)
<1>1. SUFFICES ASSUME Bad # {} PROVE FALSE
  OBVIOUS
<1>2. IsWellFoundedOn(less, Nat)
  BY NatLessThanWellFounded
<1>3. \A m, n \in Nat : m < n => <<m, n>> \in less
  BY DEF OpToRel
<1>4. PICK n \in Bad : \A m \in Bad : ~ (<<m, n>> \in less)
  <2> HIDE DEF Bad, less
  <2>1. Bad \subseteq Nat
    BY DEF Bad
  <2>2. QED
    BY <1>1, <1>2, <2>1, WFMin
<1>5. n \in Nat /\ n # 0 /\ n - 1 \in Nat /\ n - 1 < n /\ (n - 1) + 1 = n
  <2>1. n \in Nat /\ n \notin Good
    BY <1>4
  <2>2. n # 0
    BY <2>1
  <2>3. QED
    BY <2>1, <2>2
<1>6. n - 1 \in Good
  BY <1>3, <1>4, <1>5
<1>7. QED
  BY <1>4, <1>5, <1>6

(* Whatever holds of a set as soon as it holds of all smaller ones holds   *)
(* of every subset of a finite set.                                        *)
LEMMA SubsetInduction ==
    ASSUME NEW S, IsFiniteSet(S), NEW Good,
           ASSUME NEW s \in SUBSET S, \A t \in SUBSET s : t # s => t \in Good
           PROVE  s \in Good
    PROVE  SUBSET S \subseteq Good
<1> DEFINE Bad == {s \in SUBSET S : s \notin Good}
           less == StrictSubsetOrdering(S)
<1>1. SUFFICES ASSUME Bad # {} PROVE FALSE
  OBVIOUS
<1>2. IsWellFoundedOn(less, SUBSET S)
  BY FS_StrictSubsetOrderingWellFounded, FS_FiniteSubsetsOfFinite
<1>3. PICK s \in Bad : \A t \in Bad : ~ (<<t, s>> \in less)
  <2> HIDE DEF Bad, less
  <2>1. Bad \subseteq SUBSET S
    BY DEF Bad
  <2>2. QED
    BY <1>1, <1>2, <2>1, WFMin
<1>4. \A t \in SUBSET s : t # s => t \in Good
  BY <1>3 DEF StrictSubsetOrdering
<1>5. QED
  BY <1>3, <1>4

------------------------------------------------------------------------------
(* A sequence with one element more. *)
LEMMA AppendedTo ==
    ASSUME NEW S, NEW s \in Seq(S), NEW x \in S
    PROVE  /\ Append(s, x) \in Seq(S)
           /\ DOMAIN s = 1 .. Len(s) /\ Len(s) \in Nat
           /\ DOMAIN Append(s, x) = 1 .. Len(s) + 1
           /\ \A i \in 1 .. Len(s) : Append(s, x)[i] = s[i]
           /\ Append(s, x)[Len(s) + 1] = x
OBVIOUS

(* A function on the first numbers is a sequence. *)
LEMMA FunctionIsSeq ==
    ASSUME NEW S, NEW n \in Nat, NEW f \in [1 .. n -> S]
    PROVE  f \in Seq(S) /\ Len(f) = n
OBVIOUS

(* A sequence with another last element. *)
LEMMA NewLast ==
    ASSUME NEW S, NEW s \in Seq(S), s # <<>>, NEW x \in S, NEW new,
           new = [s EXCEPT ![Len(s)] = x]
    PROVE  /\ new \in Seq(S) /\ Len(new) = Len(s) /\ Len(s) \in Nat /\ Len(s) \in 1 .. Len(s)
           /\ new[Len(s)] = x
           /\ \A k \in 1 .. Len(s) : k # Len(s) => new[k] = s[k] /\ k < Len(s)
<1>1. Len(s) \in Nat /\ DOMAIN s = 1 .. Len(s) /\ Len(s) \in 1 .. Len(s)
  OBVIOUS
<1>2. s \in [1 .. Len(s) -> S]
  OBVIOUS
<1>3. new \in [1 .. Len(s) -> S]
  BY <1>2
<1>4. new \in Seq(S) /\ Len(new) = Len(s)
  BY <1>1, <1>3, FunctionIsSeq
<1>5. new[Len(s)] = x /\ \A k \in 1 .. Len(s) : k # Len(s) => new[k] = s[k]
  BY <1>1
<1>6. \A k \in 1 .. Len(s) : k # Len(s) => k < Len(s)
  <2>1. \A n \in Nat : \A k \in 1 .. n : k # n => k < n
    OBVIOUS
  <2>2. QED
    BY ONLY <1>1, <2>1
<1>7. QED
  BY ONLY <1>1, <1>4, <1>5, <1>6
==============================================================================
