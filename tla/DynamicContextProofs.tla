------------------------ MODULE DynamicContextProofs ------------------------
(***************************************************************************)
(* The promises of DynamicContext hold for any number of requests, any     *)
(* context size and any step size.                                         *)
(***************************************************************************)
EXTENDS DynamicContext, SharedFacts

LEMMA AdmittedFinite ==
    ASSUME TypeOK
    PROVE  /\ IsFiniteSet(Admitted)
           /\ Cardinality(Admitted) \in Nat
  BY DynamicContextAssumption, FS_Subset, FS_CardinalityType DEF TypeOK

LEMMA LimitType ==
    ASSUME TypeOK
    PROVE  Limit \in Nat
  BY AdmittedFinite, QuotaType, DynamicContextAssumption DEF Limit

(* The limit after an admission is the quota it was checked against.       *)
LEMMA LimitAfterAdmit ==
    ASSUME TypeOK, NEW r \in Requests, NEW prompt \in Nat, NEW p \in Nat, Admit(r, prompt, p)
    PROVE  /\ Admitted' = Admitted \cup {r}
           /\ position' \in [Admitted' -> Nat]
           /\ Limit' = for_active_requests(TotalContext, Cardinality(Admitted) + 1)
  <1>1. Admitted' = Admitted \cup {r} /\ position' \in [Admitted' -> Nat]
    BY DEF TypeOK, Admit, Admitted
  <1>2. Cardinality(Admitted') = Cardinality(Admitted) + 1
    BY <1>1, AdmittedFinite, FS_AddElement DEF Admit
  <1> QED
    BY <1>1, <1>2 DEF Limit

LEMMA LimitAfterRelease ==
    ASSUME TypeOK, NEW r \in Requests, Release(r)
    PROVE  /\ Admitted' = Admitted \ {r}
           /\ position' \in [Admitted' -> Nat]
           /\ Limit <= Limit'
  <1>1. Admitted' = Admitted \ {r} /\ position' \in [Admitted' -> Nat]
    BY DEF TypeOK, Release, Admitted
  <1>2. IsFiniteSet(Admitted') /\ Cardinality(Admitted') \in Nat
    BY <1>1, AdmittedFinite, FS_Subset, FS_CardinalityType
  <1>3. Cardinality(Admitted') <= Cardinality(Admitted)
    BY <1>1, AdmittedFinite, FS_Subset
  <1> QED
    BY <1>1, <1>2, <1>3, AdmittedFinite, QuotaAntitone, DynamicContextAssumption DEF Limit

LEMMA LimitAfterAdvance ==
    ASSUME TypeOK, NEW r \in Requests, NEW p \in Nat, Advance(r, p)
    PROVE  /\ Admitted' = Admitted
           /\ position' \in [Admitted' -> Nat]
           /\ Limit' = Limit
  <1>1. Admitted' = Admitted /\ position' \in [Admitted' -> Nat]
    BY DEF TypeOK, Advance, Admitted
  <1> QED
    BY <1>1 DEF Limit

(* The ranges Next chooses from are natural numbers.                       *)
LEMMA ChoicesAreNat ==
    0 .. TotalContext \subseteq Nat /\ 0 .. TotalContext + Overshoot \subseteq Nat
  BY DynamicContextAssumption

(***************************************************************************)
(* The admitted requests are requests, and their positions natural.        *)
(***************************************************************************)
THEOREM TypeCorrect == Spec => []TypeOK
  <1>1. Init => TypeOK
    BY DEF Init, TypeOK, Admitted
  <1>2. TypeOK /\ [Next]_position => TypeOK'
    <2> SUFFICES ASSUME TypeOK, [Next]_position PROVE TypeOK'
      OBVIOUS
    <2>1. ASSUME NEW r \in Requests, NEW prompt \in 0 .. TotalContext, NEW p \in 0 .. TotalContext,
                 Admit(r, prompt, p)
          PROVE  TypeOK'
      BY <2>1, LimitAfterAdmit, ChoicesAreNat DEF TypeOK
    <2>2. ASSUME NEW r \in Requests, NEW p \in 0 .. TotalContext + Overshoot, Advance(r, p)
          PROVE  TypeOK'
      BY <2>2, LimitAfterAdvance, ChoicesAreNat DEF TypeOK
    <2>3. ASSUME NEW r \in Requests, Release(r)
          PROVE  TypeOK'
      BY <2>3, LimitAfterRelease DEF TypeOK
    <2>4. CASE UNCHANGED position
      BY <2>4 DEF TypeOK, Admitted
    <2> QED
      BY <2>1, <2>2, <2>3, <2>4 DEF Next
  <1> QED
    BY <1>1, <1>2, PTL DEF Spec

(***************************************************************************)
(* Nobody admitted is past the common limit by more than one step.         *)
(***************************************************************************)
THEOREM LimitKept == Spec => []WithinLimit
  <1>1. Init => WithinLimit
    BY DEF Init, WithinLimit, Admitted
  <1>2. TypeOK /\ WithinLimit /\ [Next]_position => WithinLimit'
    <2> SUFFICES ASSUME TypeOK, WithinLimit, [Next]_position PROVE WithinLimit'
      OBVIOUS
    <2> USE DynamicContextAssumption
    <2>1. ASSUME NEW r \in Requests, NEW prompt \in 0 .. TotalContext, NEW p \in 0 .. TotalContext,
                 Admit(r, prompt, p)
          PROVE  WithinLimit'
      <3> DEFINE quota == for_active_requests(TotalContext, Cardinality(Admitted) + 1)
      <3>1. prompt <= quota /\ \A q \in Admitted : position[q] <= quota
        BY <2>1 DEF Admit, can_admit, positions_fit, Positions
      <3>2. Limit' = quota /\ Admitted' = Admitted \cup {r}
        BY <2>1, LimitAfterAdmit, ChoicesAreNat
      <3>3. quota \in Nat
        BY AdmittedFinite, QuotaType
      <3> HIDE DEF quota
      <3>4. \A q \in Admitted' : position'[q] = IF q = r THEN p ELSE position[q]
        BY <2>1, <3>2 DEF Admit
      <3> QED
        BY <2>1, <3>1, <3>2, <3>3, <3>4 DEF Admit, WithinLimit, TypeOK
    <2>2. ASSUME NEW r \in Requests, NEW p \in 0 .. TotalContext + Overshoot, Advance(r, p)
          PROVE  WithinLimit'
      <3>1. Limit' = Limit /\ Admitted' = Admitted /\ Limit \in Nat
        BY <2>2, LimitAfterAdvance, LimitType, ChoicesAreNat
      <3> QED
        BY <2>2, <3>1 DEF Advance, WithinLimit, TypeOK
    <2>3. ASSUME NEW r \in Requests, Release(r)
          PROVE  WithinLimit'
      <3>1. /\ Admitted' = Admitted \ {r}
            /\ Limit <= Limit'
            /\ \A q \in Admitted' : position'[q] = position[q]
        BY <2>3, LimitAfterRelease DEF Release
      <3>2. Limit \in Nat /\ Limit' \in Nat
        <4>1. TypeOK'
          BY <2>3, LimitAfterRelease DEF TypeOK
        <4> QED
          BY <4>1, LimitType, AdmittedFinite, QuotaType, FS_Subset, FS_CardinalityType DEF Limit, TypeOK
      <3> QED
        BY <3>1, <3>2 DEF WithinLimit, TypeOK
    <2>4. CASE UNCHANGED position
      BY <2>4 DEF WithinLimit, Limit, Admitted
    <2> QED
      BY <2>1, <2>2, <2>3, <2>4 DEF Next
  <1> QED
    BY <1>1, <1>2, TypeCorrect, PTL DEF Spec

(***************************************************************************)
(* When an admission lowers the limit, everyone admitted before keeps the  *)
(* tokens held and fits the lower limit.                                   *)
(***************************************************************************)
THEOREM HistoryKept == Spec => AdmissionKeepsHistory
  <1> DEFINE Kept == Limit' < Limit =>
                        \A r \in Admitted \cap Admitted' :
                            position'[r] = position[r] /\ position[r] <= Limit'
  <1>1. TypeOK /\ [Next]_position => [Kept]_position
    <2> SUFFICES ASSUME TypeOK, Next PROVE Kept
      OBVIOUS
    <2>1. ASSUME NEW r \in Requests, NEW prompt \in 0 .. TotalContext, NEW p \in 0 .. TotalContext,
                 Admit(r, prompt, p)
          PROVE  Kept
      <3>1. /\ Admitted' = Admitted \cup {r}
            /\ Limit' = for_active_requests(TotalContext, Cardinality(Admitted) + 1)
        BY <2>1, LimitAfterAdmit, ChoicesAreNat
      <3> QED
        BY <2>1, <3>1 DEF Admit, can_admit, positions_fit, Positions
    <2>2. ASSUME NEW r \in Requests, NEW p \in 0 .. TotalContext + Overshoot, Advance(r, p)
          PROVE  Kept
      BY <2>2, LimitAfterAdvance, LimitType, ChoicesAreNat
    <2>3. ASSUME NEW r \in Requests, Release(r)
          PROVE  Kept
      <3>1. Limit <= Limit' /\ Limit \in Nat /\ TypeOK'
        BY <2>3, LimitAfterRelease, LimitType DEF TypeOK
      <3>2. Limit' \in Nat
        BY <3>1, DynamicContextAssumption, QuotaType, FS_Subset, FS_CardinalityType DEF Limit, TypeOK
      <3> QED
        BY <3>1, <3>2
    <2> QED
      BY <2>1, <2>2, <2>3 DEF Next
  <1> QED
    BY <1>1, TypeCorrect, PTL DEF Spec, AdmissionKeepsHistory
=============================================================================
