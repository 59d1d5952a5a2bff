----------------------------- MODULE ShareUnlock -----------------------------
(***************************************************************************)
(* Password attempts on one protected share (share/registry.py).  Shares   *)
(* have nothing in common but the mutex, so one entry is enough.  Visitors *)
(* are handler threads: each reserves an attempt under the mutex, hashes   *)
(* the password outside it, and reports the outcome under the mutex again. *)
(***************************************************************************)
EXTENDS Integers, FiniteSets

CONSTANTS
    Visitors,           \* concurrent unlock requests
    MaxFailedUnlocks,   \* _MAX_FAILED_UNLOCKS
    Cooldown            \* _UNLOCK_COOLDOWN, in ticks

ASSUME VisitorsAssumption == IsFiniteSet(Visitors)
ASSUME LimitsAssumption   == /\ MaxFailedUnlocks \in Nat \ {0}
                             /\ Cooldown \in Nat \ {0}

VARIABLES
    failed,     \* entry.failed_unlocks
    pending,    \* entry.pending_unlocks
    locked,     \* time left until entry.locked_until; NotLocked when it is None
    visitor     \* where each request is: before, in or between its attempts

vars == <<failed, pending, locked, visitor>>

NotLocked == -1

Hashing == {v \in Visitors : visitor[v] = "hashing"}

TypeOK ==
    /\ failed \in 0 .. MaxFailedUnlocks
    /\ pending \in 0 .. MaxFailedUnlocks
    /\ locked \in NotLocked .. Cooldown
    /\ visitor \in [Visitors -> {"idle", "hashing"}]

Init ==
    /\ failed = 0
    /\ pending = 0
    /\ locked = NotLocked
    /\ visitor = [v \in Visitors |-> "idle"]

(* The cooldown is over only once somebody asks: locked = 0 means that the *)
(* time has passed and the entry has not noticed yet.                      *)
CoolingDown == locked > 0

(* What _reserve_attempt compares with the limit: failures from before an  *)
(* elapsed cooldown no longer count.                                       *)
Charged == pending + (IF locked = 0 THEN 0 ELSE failed)

Refusing == CoolingDown \/ Charged >= MaxFailedUnlocks

(* Mutant: only failures count, not the attempts still being hashed. *)
ReserveIgnoringPending(v) ==
    /\ visitor[v] = "idle"
    /\ ~CoolingDown /\ (locked = 0 \/ failed < MaxFailedUnlocks)
    /\ failed' = IF locked = 0 THEN 0 ELSE failed
    /\ locked' = NotLocked
    /\ pending' = pending + 1
    /\ visitor' = [visitor EXCEPT ![v] = "hashing"]

(* _reserve_attempt, the attempt is admitted. *)
Reserve(v) ==
    /\ visitor[v] = "idle"
    /\ ~Refusing
    /\ failed' = IF locked = 0 THEN 0 ELSE failed
    /\ locked' = NotLocked
    /\ pending' = pending + 1
    /\ visitor' = [visitor EXCEPT ![v] = "hashing"]

(* Mutant: every refused attempt starts the cooldown again. *)
RefuseExtending(v) ==
    /\ visitor[v] = "idle"
    /\ Refusing
    /\ failed' = IF locked = 0 THEN 0 ELSE failed
    /\ locked' = IF CoolingDown THEN Cooldown ELSE locked
    /\ UNCHANGED <<pending, visitor>>

(* _reserve_attempt, the attempt is refused; a refusal that follows an     *)
(* elapsed cooldown has already cleared it.                                *)
Refuse(v) ==
    /\ visitor[v] = "idle"
    /\ Refusing
    /\ failed' = IF locked = 0 THEN 0 ELSE failed
    /\ locked' = IF locked = 0 THEN NotLocked ELSE locked
    /\ UNCHANGED <<pending, visitor>>

(* _release_attempt after the right password.  An existing locked_until is *)
(* left alone.                                                             *)
Accept(v) ==
    /\ visitor[v] = "hashing"
    /\ pending' = pending - 1
    /\ failed' = 0
    /\ visitor' = [visitor EXCEPT ![v] = "idle"]
    /\ UNCHANGED locked

(* Mutant: the cooldown starts one failure late. *)
RejectLate(v) ==
    /\ visitor[v] = "hashing"
    /\ pending' = pending - 1
    /\ failed' = failed + 1
    /\ locked' = IF failed' > MaxFailedUnlocks THEN Cooldown ELSE locked
    /\ visitor' = [visitor EXCEPT ![v] = "idle"]

(* _release_attempt after a wrong password, or after an error in the hash. *)
Reject(v) ==
    /\ visitor[v] = "hashing"
    /\ pending' = pending - 1
    /\ failed' = failed + 1
    /\ locked' = IF failed' >= MaxFailedUnlocks THEN Cooldown ELSE locked
    /\ visitor' = [visitor EXCEPT ![v] = "idle"]

Tick ==
    /\ CoolingDown
    /\ locked' = locked - 1
    /\ UNCHANGED <<failed, pending, visitor>>

Next ==
    \/ \E v \in Visitors : Reserve(v) \/ Refuse(v) \/ Accept(v) \/ Reject(v)
    \/ Tick

Spec == Init /\ [][Next]_vars

(* Hashing ends and time passes; nobody has to try a password. *)
Fairness ==
    /\ \A v \in Visitors : WF_vars(Accept(v) \/ Reject(v))
    /\ WF_vars(Tick)

FairSpec == Spec /\ Fairness

---------------------------------------------------------------------------
(* Concurrent requests cannot collectively overshoot the limit: the wrong  *)
(* guesses counted and those being hashed right now never exceed it        *)
(* together, and the count of the latter is exact (share/registry.py:49-50).  *)
GuessesAreBounded ==
    /\ pending = Cardinality(Hashing)
    /\ pending + failed <= MaxFailedUnlocks

(* The limit and the cooldown go together: an entry at its limit is in, or *)
(* just out of, a cooldown, and while it is nothing is being hashed, so no *)
(* late outcome can extend, shorten or forgive it.  Without the first half *)
(* a share would refuse everybody for ever.                                *)
CooldownIsSettled ==
    /\ failed = MaxFailedUnlocks <=> locked # NotLocked
    /\ locked # NotLocked => Hashing = {}

(* A share that refuses attempts accepts them again without anybody trying *)
(* (share/registry.py:29-30, the cooldown is what stops a script and only     *)
(* that).                                                                  *)
RefusalEnds == Refusing ~> ~Refusing

=============================================================================
