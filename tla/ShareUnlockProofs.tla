------------------------- MODULE ShareUnlockProofs -------------------------
(***************************************************************************)
(* TLAPS proofs about ShareUnlock, for every finite set of visitors, every *)
(* limit and every cooldown.                                               *)
(***************************************************************************)
EXTENDS ShareUnlock, FiniteSetTheorems, TLAPS

(* The inductive invariant: the three conjuncts need one another.  The     *)
(* counter of reservations is exact, so "at the limit" leaves no room for  *)
(* a hash in flight; and no hash in flight is what keeps a cooldown from   *)
(* being forgiven by a late success.                                       *)
IInv == TypeOK /\ GuessesAreBounded /\ CooldownIsSettled

LEMMA HashingFinite == ASSUME TypeOK PROVE IsFiniteSet(Hashing) /\ Cardinality(Hashing) \in Nat
<1>1. IsFiniteSet(Hashing)
  BY VisitorsAssumption, FS_Subset DEF Hashing
<1> QED BY <1>1, FS_CardinalityType

(* Admitting a visitor adds exactly one attempt to those being hashed. *)
LEMMA StartHashing ==
  ASSUME TypeOK, NEW v \in Visitors, visitor[v] = "idle",
         visitor' = [visitor EXCEPT ![v] = "hashing"]
  PROVE  Cardinality(Hashing)' = Cardinality(Hashing) + 1
<1>1. Hashing' = Hashing \cup {v}
  BY DEF TypeOK, Hashing
<1>2. v \notin Hashing
  BY DEF Hashing
<1> QED BY <1>1, <1>2, HashingFinite, FS_AddElement

(* The end of an attempt takes exactly that one away. *)
LEMMA StopHashing ==
  ASSUME TypeOK, NEW v \in Visitors, visitor[v] = "hashing",
         visitor' = [visitor EXCEPT ![v] = "idle"]
  PROVE  Cardinality(Hashing)' = Cardinality(Hashing) - 1
<1>1. Hashing' = Hashing \ {v}
  BY DEF TypeOK, Hashing
<1>2. v \in Hashing
  BY DEF Hashing
<1> QED BY <1>1, <1>2, HashingFinite, FS_RemoveElement

LEMMA EmptyHashing == ASSUME TypeOK, Cardinality(Hashing) = 0 PROVE Hashing = {}
BY HashingFinite, FS_EmptySet

LEMMA Inductive == Spec => []IInv
<1> USE LimitsAssumption
<1>1. Init => IInv
  <2> SUFFICES ASSUME Init PROVE IInv
    OBVIOUS
  <2>1. TypeOK
    BY DEF Init, TypeOK, NotLocked
  <2>2. Hashing = {}
    BY DEF Init, Hashing
  <2>3. Cardinality(Hashing) = 0
    BY <2>2, FS_EmptySet
  <2> QED BY <2>1, <2>2, <2>3 DEF IInv, Init, GuessesAreBounded, CooldownIsSettled, NotLocked
<1>2. IInv /\ [Next]_vars => IInv'
  <2> SUFFICES ASSUME IInv, [Next]_vars PROVE IInv'
    OBVIOUS
  <2> USE DEF IInv, NotLocked
  <2>1. ASSUME NEW v \in Visitors, Reserve(v) PROVE IInv'
    <3>1. Cardinality(Hashing)' = Cardinality(Hashing) + 1
      BY <2>1, StartHashing DEF Reserve
    <3>2. failed' + pending' <= MaxFailedUnlocks /\ failed' # MaxFailedUnlocks
      BY <2>1 DEF TypeOK, GuessesAreBounded, Reserve, Refusing, Charged, CoolingDown
    <3>3. TypeOK'
      BY <2>1, <3>2 DEF TypeOK, Reserve
    <3>4. GuessesAreBounded'
      BY <2>1, <3>1, <3>2, <3>3 DEF TypeOK, GuessesAreBounded, Reserve
    <3>5. CooldownIsSettled'
      BY <2>1, <3>2 DEF CooldownIsSettled, Reserve
    <3> QED BY <3>3, <3>4, <3>5
  <2>2. ASSUME NEW v \in Visitors, Refuse(v) PROVE IInv'
    <3>1. locked # 0
      <4> SUFFICES ASSUME locked = 0 PROVE FALSE
        OBVIOUS
      <4>1. pending = 0
        BY FS_EmptySet DEF CooldownIsSettled, GuessesAreBounded
      <4> QED BY <2>2, <4>1 DEF Refuse, Refusing, Charged, CoolingDown
    <3>2. UNCHANGED vars
      BY <2>2, <3>1 DEF Refuse, vars
    <3> QED BY <3>2 DEF vars, TypeOK, GuessesAreBounded, CooldownIsSettled, Hashing
  <2>3. ASSUME NEW v \in Visitors, Accept(v) PROVE IInv'
    <3>1. Cardinality(Hashing)' = Cardinality(Hashing) - 1
      BY <2>3, StopHashing DEF Accept
    <3>2. locked = NotLocked
      BY <2>3 DEF CooldownIsSettled, Accept, Hashing
    <3>3. pending # 0
      BY <2>3, EmptyHashing DEF Accept, GuessesAreBounded, Hashing
    <3> QED BY <2>3, <3>1, <3>2, <3>3 DEF TypeOK, GuessesAreBounded, CooldownIsSettled, Accept
  <2>4. ASSUME NEW v \in Visitors, Reject(v) PROVE IInv'
    <3>1. Cardinality(Hashing)' = Cardinality(Hashing) - 1
      BY <2>4, StopHashing DEF Reject
    <3>2. locked = NotLocked
      BY <2>4 DEF CooldownIsSettled, Reject, Hashing
    <3>3. pending # 0
      BY <2>4, EmptyHashing DEF Reject, GuessesAreBounded, Hashing
    <3>4. TypeOK'
      BY <2>4, <3>2, <3>3 DEF TypeOK, GuessesAreBounded, Reject
    <3>5. GuessesAreBounded'
      BY <2>4, <3>1 DEF TypeOK, GuessesAreBounded, Reject
    <3>6. CooldownIsSettled'
      <4>1. CASE failed' >= MaxFailedUnlocks
        <5>1. Cardinality(Hashing)' = 0
          BY <3>4, <3>5, <4>1 DEF TypeOK, GuessesAreBounded
        <5>2. Hashing' = {}
          <6>1. IsFiniteSet(Hashing')
            BY VisitorsAssumption, FS_Subset DEF Hashing
          <6> QED BY <5>1, <6>1, FS_EmptySet
        <5> QED BY <2>4, <3>4, <4>1, <5>2 DEF TypeOK, CooldownIsSettled, Reject
      <4>2. CASE ~(failed' >= MaxFailedUnlocks)
        BY <2>4, <3>2, <3>4, <4>2 DEF TypeOK, CooldownIsSettled, Reject
      <4> QED BY <4>1, <4>2
    <3> QED BY <3>4, <3>5, <3>6
  <2>5. CASE Tick
    BY <2>5 DEF TypeOK, GuessesAreBounded, CooldownIsSettled, Tick, CoolingDown, Hashing
  <2>6. CASE UNCHANGED vars
    BY <2>6 DEF vars, TypeOK, GuessesAreBounded, CooldownIsSettled, Hashing
  <2> QED BY <2>1, <2>2, <2>3, <2>4, <2>5, <2>6 DEF Next
<1> QED BY <1>1, <1>2, PTL DEF Spec

(* However many visitors guess at once, the wrong guesses counted and the  *)
(* guesses being hashed never exceed the limit together.                   *)
THEOREM GuessesBounded == Spec => []GuessesAreBounded
BY Inductive, PTL DEF IInv

(* A share is at its limit exactly while a cooldown says so, and nothing   *)
(* is in flight then: no share refuses without an end in sight.            *)
THEOREM CooldownSettled == Spec => []CooldownIsSettled
BY Inductive, PTL DEF IInv
=============================================================================
