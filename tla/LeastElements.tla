---------------------------- MODULE LeastElements ----------------------------
(***************************************************************************)
(* A fact about linear searches that the proofs of several modules use.    *)
(***************************************************************************)
EXTENDS Integers, FiniteSetTheorems, WellFoundedInduction, TLAPS

\* A nonempty set of numbers up to n has a least element: the search for the
\* first free slot of msgQSend, and that for the first free block of
\* gp_fixed_size_malloc, find one whenever there is one.  (Among the initial
\* segments of T, ordered by inclusion, one is minimal.)
THEOREM LeastElement ==
  ASSUME NEW n \in Nat, NEW T \in SUBSET (1 .. n), T # {}
  PROVE  \E i \in T : \A j \in T : i <= j
<1> DEFINE Upto(i) == {j \in T : j <= i}
           Segments == {Upto(i) : i \in T}
<1>1. IsFiniteSet(1 .. n)
  BY FS_Interval
<1>2. IsFiniteSet(T)
  BY <1>1, FS_Subset
<1>3. Segments \subseteq FiniteSubsetsOf(T)
  <2> SUFFICES ASSUME NEW i \in T
               PROVE  Upto(i) \in FiniteSubsetsOf(T)
    OBVIOUS
  <2>1. Upto(i) \in SUBSET T
    OBVIOUS
  <2> QED
    BY <1>2, <2>1, FS_Subset DEF FiniteSubsetsOf
<1>4. Segments # {}
  OBVIOUS
<1>5. PICK s \in Segments :
           \A u \in Segments : ~ (<<u, s>> \in StrictSubsetOrdering(T))
  <2> HIDE DEF Segments
  <2> QED
    BY <1>3, <1>4, WFMin, FS_StrictSubsetOrderingWellFounded
<1>6. PICK i \in T : s = Upto(i)
  OBVIOUS
<1>7. ASSUME NEW j \in T, ~(i <= j)
      PROVE  FALSE
  <2>1. Upto(j) \subseteq Upto(i) /\ Upto(j) # Upto(i)
    <3>1. T \subseteq Nat /\ j < i
      BY <1>7
    <3>2. \A x \in T : x <= j => x <= i
      BY <3>1
    <3>3. i \notin Upto(j) /\ i \in Upto(i)
      BY <3>1
    <3> QED
      BY <3>2, <3>3
  <2>2. <<Upto(j), Upto(i)>> \in StrictSubsetOrdering(T)
    BY <2>1 DEF StrictSubsetOrdering
  <2> QED
    BY <1>5, <1>6, <2>2
<1> QED
  BY <1>7

=============================================================================
