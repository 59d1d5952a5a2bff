----------------------------- MODULE ShareServer -----------------------------
(***************************************************************************)
(* Album sharing: the in-memory registry of shares (share/registry.py),    *)
(* the one listener that serves them (share/server.py) and the two         *)
(* coroutines that keep the two in step (utils/share.py).                  *)
(*                                                                         *)
(* Coroutines interleave only where they await.  Creating a share awaits   *)
(* nothing but the two locks, so it is one step once both are free;        *)
(* revoking the last share awaits the end of the listener's task, and      *)
(* everything else goes on meanwhile.                                      *)
(***************************************************************************)
EXTENDS FiniteSets

CONSTANTS
    Tokens,         \* share tokens
    Callers,        \* requests of the desktop UI that may overlap
    Nobody          \* the owner of a free lock

ASSUME NobodyAssumption == Nobody \notin Callers

VARIABLES
    share,          \* _shares; an expired entry stays until somebody asks for it
    listener,       \* _server, _task, _sock and _port, which change together
    orchestration,  \* who holds _orchestration_lock
    lifecycle,      \* who holds _lifecycle_lock
    died,           \* history: the current listener ended without being asked to
    lapsed          \* history: a share has expired since the last one was created

vars == <<share, listener, orchestration, lifecycle, died, lapsed>>

(* "down": no listener.  "serving": the task runs.  "stopping": it was     *)
(* asked to exit and still runs.  "done": it has ended, but its done       *)
(* callback has not cleared the port yet.                                  *)
TypeOK ==
    /\ share \in [Tokens -> {"none", "live", "expired"}]
    /\ listener \in {"down", "serving", "stopping", "done"}
    /\ orchestration \in Callers \cup {Nobody}
    /\ lifecycle \in Callers \cup {Nobody}
    /\ died \in BOOLEAN /\ lapsed \in BOOLEAN

Live == {t \in Tokens : share[t] = "live"}

Init ==
    /\ share = [t \in Tokens |-> "none"]
    /\ listener = "down"
    /\ orchestration = Nobody
    /\ lifecycle = Nobody
    /\ died = FALSE
    /\ lapsed = FALSE

Register(t) ==
    /\ share[t] = "none"
    /\ share' = [share EXCEPT ![t] = "live"]
    /\ lapsed' = FALSE

(* share_server_start: a running task is reused, a finished one is cleared *)
(* and a new socket bound.                                                 *)
Start ==
    /\ listener' = "serving"
    /\ died' = FALSE

(* Mutant: the locks are not taken. *)
CreateUnlocked ==
    /\ listener' = IF listener \in {"down", "done"} THEN "serving" ELSE listener
    /\ died' = FALSE
    /\ \E t \in Tokens : Register(t)
    /\ UNCHANGED <<orchestration, lifecycle>>

(* share_util_create and the port read after it. *)
Create ==
    /\ orchestration = Nobody /\ lifecycle = Nobody
    /\ Start
    /\ \E t \in Tokens : Register(t)
    /\ UNCHANGED <<orchestration, lifecycle>>

(* No port is free: the dead listener, if any, is dropped, no share made. *)
CreateFails ==
    /\ orchestration = Nobody /\ lifecycle = Nobody
    /\ listener = "done"
    /\ listener' = "down"
    /\ UNCHANGED <<share, orchestration, lifecycle, died, lapsed>>

(* Mutant: the live shares are counted before the token is dropped. *)
RevokeCountingFirst(c, t) ==
    /\ orchestration = Nobody /\ lifecycle = Nobody
    /\ share[t] # "none"
    /\ share' = [share EXCEPT ![t] = "none"]
    /\ UNCHANGED <<died, lapsed>>
    /\ IF Live # {}
       THEN UNCHANGED <<listener, orchestration, lifecycle>>
       ELSE IF listener = "serving"
       THEN listener' = "stopping" /\ orchestration' = c /\ lifecycle' = c
       ELSE listener' = "down" /\ UNCHANGED <<orchestration, lifecycle>>

(* share_util_revoke of a token that is still in the registry.  When it    *)
(* was the last live one the listener is asked to exit and the coroutine   *)
(* waits for it, holding both locks.                                       *)
Revoke(c, t) ==
    /\ orchestration = Nobody /\ lifecycle = Nobody
    /\ share[t] # "none"
    /\ share' = [share EXCEPT ![t] = "none"]
    /\ UNCHANGED <<died, lapsed>>
    /\ IF Live \ {t} # {}
       THEN UNCHANGED <<listener, orchestration, lifecycle>>
       ELSE IF listener = "serving"
       THEN listener' = "stopping" /\ orchestration' = c /\ lifecycle' = c
       ELSE listener' = "down" /\ UNCHANGED <<orchestration, lifecycle>>

(* The task ends: because it was asked to, because wait_for cancelled it   *)
(* after _STOP_TIMEOUT, or because the server died by itself.              *)
TaskEnds ==
    /\ listener = "stopping"
    /\ listener' = "done"
    /\ UNCHANGED <<share, orchestration, lifecycle, died, lapsed>>

TaskDies ==
    /\ listener = "serving"
    /\ listener' = "done"
    /\ died' = TRUE
    /\ UNCHANGED <<share, orchestration, lifecycle, lapsed>>

(* The rest of share_server_stop, once the awaited task is over: clear and *)
(* let go of both locks.                                                   *)
FinishStop(c) ==
    /\ lifecycle = c
    /\ listener \in {"done", "down"}
    /\ listener' = "down"
    /\ orchestration' = Nobody /\ lifecycle' = Nobody
    /\ UNCHANGED <<share, died, lapsed>>

(* _on_serve_done: only the current task's end clears anything. *)
OnServeDone ==
    /\ listener = "done"
    /\ listener' = "down"
    /\ UNCHANGED <<share, orchestration, lifecycle, died, lapsed>>

Expire(t) ==
    /\ share[t] = "live"
    /\ share' = [share EXCEPT ![t] = "expired"]
    /\ lapsed' = TRUE
    /\ UNCHANGED <<listener, orchestration, lifecycle, died>>

(* share_registry_get: a visitor asks for an expired share. *)
DropExpired(t) ==
    /\ listener \in {"serving", "stopping"}
    /\ share[t] = "expired"
    /\ share' = [share EXCEPT ![t] = "none"]
    /\ UNCHANGED <<listener, orchestration, lifecycle, died, lapsed>>

Next ==
    \/ Create \/ CreateFails
    \/ \E c \in Callers, t \in Tokens : Revoke(c, t)
    \/ \E c \in Callers : FinishStop(c)
    \/ TaskEnds \/ TaskDies \/ OnServeDone
    \/ \E t \in Tokens : Expire(t) \/ DropExpired(t)

Spec == Init /\ [][Next]_vars

(* What the event loop and uvicorn do by themselves: a task asked to exit  *)
(* ends, its callback runs, the coroutine that waits for it resumes.       *)
Fairness ==
    /\ WF_vars(TaskEnds) /\ WF_vars(OnServeDone)
    /\ \A c \in Callers : WF_vars(FinishStop(c))

FairSpec == Spec /\ Fairness

---------------------------------------------------------------------------
(* A share whose link was given out is being served, unless the listener   *)
(* itself failed: no revoke closes the port a concurrent create has just   *)
(* handed out (utils/share.py:47-49), and no create trusts a port whose    *)
(* task is over (share/server.py:106-108).                                 *)
LiveIsServed == Live # {} /\ ~died => listener = "serving"

(* The port on the local network does not outlive the last share that is   *)
(* revoked: the server stops once the live share count reaches zero        *)
(* (share/registry.py:132).  A share that ends by expiry is exempt: nobody *)
(* counts then, and the port stays open until the next revoke.             *)
IdleListenerStops ==
    Live = {} /\ ~lapsed ~> (listener = "down" \/ Live # {} \/ lapsed)

=============================================================================
