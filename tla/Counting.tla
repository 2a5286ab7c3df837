------------------------------ MODULE Counting ------------------------------
(***************************************************************************)
(* A set that is counted against a bound: it may shrink for free, and may  *)
(* gain one element when the bound is raised by one.  The budgets of       *)
(* JobPipelineProofs and DispatchProofs rest on these two facts.           *)
(***************************************************************************)
EXTENDS FiniteSetTheorems, TLAPS

\* A part of a finite set is within every bound of the whole.
LEMMA StaysWithin ==
    ASSUME NEW S, IsFiniteSet(S), NEW n \in Nat, Cardinality(S) <= n,
           NEW T \in SUBSET S, NEW m \in Nat, n <= m
    PROVE  IsFiniteSet(T) /\ Cardinality(T) <= m
<1>1. IsFiniteSet(T) /\ Cardinality(T) <= Cardinality(S)
  BY FS_Subset
<1>2. Cardinality(S) \in Nat /\ Cardinality(T) \in Nat
  BY <1>1, FS_CardinalityType
<1> QED
  BY <1>1, <1>2

\* One more element needs one more in the bound.
LEMMA GainsOne ==
    ASSUME NEW S, IsFiniteSet(S), NEW n \in Nat, Cardinality(S) <= n,
           NEW x, NEW T \in SUBSET (S \cup {x})
    PROVE  IsFiniteSet(T) /\ Cardinality(T) <= n + 1
<1>1. /\ IsFiniteSet(S \cup {x})
      /\ \/ Cardinality(S \cup {x}) = Cardinality(S)
         \/ Cardinality(S \cup {x}) = Cardinality(S) + 1
  BY FS_AddElement
<1>2. Cardinality(S) \in Nat
  BY FS_CardinalityType
<1>3. Cardinality(S \cup {x}) <= n + 1
  BY <1>1, <1>2
<1> QED
  BY <1>1, <1>3, StaysWithin
=============================================================================
