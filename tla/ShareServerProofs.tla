-------------------------- MODULE ShareServerProofs --------------------------
(***************************************************************************)
(* TLAPS proofs about ShareServer, for every set of tokens and of callers. *)
(***************************************************************************)
EXTENDS ShareServer, TLAPS

(* The two locks are held together, and exactly while a listener that was  *)
(* asked to exit has not been cleared; nobody can register a share then.   *)
StopIsExclusive ==
    /\ orchestration = lifecycle
    /\ listener = "stopping" => lifecycle # Nobody
    /\ lifecycle # Nobody => Live = {} /\ listener # "serving"

IInv == TypeOK /\ LiveIsServed /\ StopIsExclusive

LEMMA Started == Init => IInv
BY DEF Init, IInv, TypeOK, LiveIsServed, StopIsExclusive, Live

LEMMA CreateKeeps == ASSUME IInv, Create PROVE IInv'
BY DEF IInv, Create, Start, Register, TypeOK, LiveIsServed, StopIsExclusive, Live

LEMMA RevokeKeeps == ASSUME IInv, NEW c \in Callers, NEW t \in Tokens, Revoke(c, t) PROVE IInv'
<1>1. Live' = Live \ {t}
  BY DEF IInv, TypeOK, Revoke, Live
<1>2. TypeOK'
  BY DEF IInv, TypeOK, Revoke
<1>3. CASE Live \ {t} # {}
  BY <1>1, <1>2, <1>3 DEF IInv, Revoke, LiveIsServed, StopIsExclusive
<1>4. CASE Live \ {t} = {}
  BY <1>1, <1>2, <1>4, NobodyAssumption DEF IInv, Revoke, LiveIsServed, StopIsExclusive
<1> QED BY <1>3, <1>4

LEMMA ListenerKeeps ==
    ASSUME IInv, CreateFails \/ TaskEnds \/ TaskDies \/ OnServeDone \/ \E c \in Callers : FinishStop(c)
    PROVE  IInv'
<1>1. Live' = Live /\ UNCHANGED share
  BY DEF CreateFails, TaskEnds, TaskDies, OnServeDone, FinishStop, Live
<1>2. CASE CreateFails
  BY <1>1, <1>2 DEF IInv, TypeOK, LiveIsServed, StopIsExclusive, CreateFails
<1>3. CASE TaskEnds
  BY <1>1, <1>3 DEF IInv, TypeOK, LiveIsServed, StopIsExclusive, TaskEnds
<1>4. CASE TaskDies
  BY <1>1, <1>4 DEF IInv, TypeOK, LiveIsServed, StopIsExclusive, TaskDies
<1>5. CASE OnServeDone
  BY <1>1, <1>5 DEF IInv, TypeOK, LiveIsServed, StopIsExclusive, OnServeDone
<1>6. ASSUME NEW c \in Callers, FinishStop(c) PROVE IInv'
  BY <1>1, <1>6, NobodyAssumption DEF IInv, TypeOK, LiveIsServed, StopIsExclusive, FinishStop
<1> QED BY <1>2, <1>3, <1>4, <1>5, <1>6

LEMMA ExpiryKeeps == ASSUME IInv, NEW t \in Tokens, Expire(t) \/ DropExpired(t) PROVE IInv'
<1>1. Live' \subseteq Live
  BY DEF IInv, TypeOK, Expire, DropExpired, Live
<1>2. TypeOK'
  BY DEF IInv, TypeOK, Expire, DropExpired
<1> QED BY <1>1, <1>2 DEF IInv, LiveIsServed, StopIsExclusive, Expire, DropExpired

LEMMA Inductive == Spec => []IInv
<1>1. IInv /\ [Next]_vars => IInv'
  <2> SUFFICES ASSUME IInv, [Next]_vars PROVE IInv'
    OBVIOUS
  <2>1. CASE UNCHANGED vars
    BY <2>1 DEF vars, IInv, TypeOK, LiveIsServed, StopIsExclusive, Live
  <2> QED BY <2>1, CreateKeeps, RevokeKeeps, ListenerKeeps, ExpiryKeeps DEF Next
<1> QED BY <1>1, Started, PTL DEF Spec

(* While a listener that was asked to exit has not been cleared, no share  *)
(* is live and none can become so.                                         *)
THEOREM StopsAreExclusive == Spec => []StopIsExclusive
BY Inductive, PTL DEF IInv

(* A share whose link was handed out is being served, however creates and  *)
(* revokes overlap, unless the listener itself has failed.                 *)
THEOREM LiveServed == Spec => []LiveIsServed
BY Inductive, PTL DEF IInv
=============================================================================
