----------------------------- MODULE MemoryRuns -----------------------------
(***************************************************************************)
(* The life of a row of memory_runs: one row per reference date that says  *)
(* whether memories for that date are being curated ("running"), have been *)
(* ("complete") or have not ("failed").  Four kinds of actor write it, each *)
(* with SQLite transactions of its own and nothing held between two of     *)
(* them:                                                                   *)
(*   - POST /memories/generate, a sync handler in a thread of uvicorn's    *)
(*     pool, which claims the row and queues a pass;                       *)
(*   - the single worker process of the executor, which runs the queued    *)
(*     passes and the folder sequences that end in a pass of their own;    *)
(*   - the done callback of a queued pass's Future;                        *)
(*   - the reaper that every generate and every status call starts with.   *)
(* A step of this module is one transaction.                               *)
(***************************************************************************)
EXTENDS Naturals, Sequences, FiniteSets

CONSTANTS
    Dates,          \* reference dates
    Today,          \* the date a folder sequence curates for
    Requests,       \* slots for generate calls: at most one outstanding each
    LibraryJobs,    \* slots for folder sequences that end in _curate_memories
    StaleAge,       \* STALE_RUN_MINUTES, in ticks
    FaultKinds,     \* which faults may happen (see AllFaults)
    MaxFaults,      \* how many of each kind: faults happen finitely often
    NoJob           \* the idle worker

(* "raise": a database error escapes the curator.  "release": one is       *)
(* swallowed while a claim is released.  "worker_death": the worker        *)
(* process dies.  "restart": the application is killed and started again.  *)
AllFaults == {"raise", "release", "worker_death", "restart"}

ASSUME DatesAssumption == Today \in Dates
ASSUME SlotsAssumption == /\ Requests \cap LibraryJobs = {}
                          /\ NoJob \notin Requests \cup LibraryJobs
ASSUME BoundsAssumption == StaleAge \in Nat /\ MaxFaults \in Nat
ASSUME FaultsAssumption == FaultKinds \subseteq AllFaults

VARIABLES
    run,        \* memory_runs: status and the time since started_at
    enabled,    \* the user's memories preference
    call,       \* the local state of each generate handler
    queue,      \* the executor's pending work, oldest first
    worker,     \* the job the worker process is in, and where it is in it
    closer,     \* _release_run on behalf of a request: a thread of its own
    alive,      \* FALSE once the executor is broken by a dead worker
    faults,     \* how many faults of each kind have happened
    disowned    \* history: a claim may have lost its owner where the code accepts it

vars == <<run, enabled, call, queue, worker, closer, alive, faults, disowned>>

Jobs == Requests \cup LibraryJobs

Row == [status : {"none", "running", "complete", "failed"},
        age    : 0 .. StaleAge + 1]

Call == [pc    : {"idle", "read", "prefs", "claim", "submit"},
         date  : Dates,
         force : BOOLEAN]

Worker == [job : Jobs \cup {NoJob},
           pc  : {"idle", "prefs", "start", "curate", "complete", "fail",
                  "release_read", "release_write"}]

IdleWorker == [job |-> NoJob, pc |-> "idle"]

Queued(j) == \E i \in 1 .. Len(queue) : queue[i] = j

Outstanding(j) == Queued(j) \/ worker.job = j

DateOf(j)  == IF j \in Requests THEN call[j].date ELSE Today
ForceOf(j) == IF j \in Requests THEN call[j].force ELSE FALSE

---------------------------------------------------------------------------
(* The statements of database/memories.py.                                 *)

IsStale(row) == row.status = "running" /\ row.age > StaleAge

(* Mutant: the reaper never finds anything. *)
ReapedNever == run

(* db_reap_stale_memory_runs *)
Reaped == [d \in Dates |-> IF IsStale(run[d])
                           THEN [run[d] EXCEPT !.status = "failed"]
                           ELSE run[d]]

(* db_start_memory_run: an upsert that resets whatever the row said *)
StartRun(d) ==
    run' = [run EXCEPT ![d] = [status |-> "running", age |-> 0]]

(* Mutant: a status nothing else knows is recorded. *)
FinishRunDone(d, status) == run' = [run EXCEPT ![d].status = "done"]

(* db_finish_memory_run: it sets the status whatever it was *)
FinishRun(d, status) == run' = [run EXCEPT ![d].status = status]

---------------------------------------------------------------------------
Init ==
    /\ run = [d \in Dates |-> [status |-> "none", age |-> 0]]
    /\ enabled \in BOOLEAN
    /\ call = [r \in Requests |-> [pc |-> "idle", date |-> Today, force |-> FALSE]]
    /\ queue = <<>>
    /\ worker = IdleWorker
    /\ closer = [r \in Requests |-> "none"]
    /\ alive = TRUE
    /\ faults = [k \in AllFaults |-> 0]
    /\ disowned = FALSE

Fault(kind) ==
    /\ kind \in FaultKinds
    /\ faults[kind] < MaxFaults
    /\ faults' = [faults EXCEPT ![kind] = @ + 1]

---------------------------------------------------------------------------
(* POST /memories/generate, one action per database access.                *)

Goto(r, pc) == call' = [call EXCEPT ![r].pc = pc]

(* The call arrives; the first thing it does is reap. *)
Generate(r) ==
    /\ call[r].pc = "idle" /\ ~Outstanding(r) /\ closer[r] = "none"
    /\ \E d \in Dates, force \in BOOLEAN :
          call' = [call EXCEPT ![r] = [pc |-> "read", date |-> d, force |-> force]]
    /\ run' = Reaped
    /\ UNCHANGED <<enabled, queue, worker, closer, alive, faults, disowned>>

(* It answers at once when the date is running, or complete and not forced. *)
ReadRun(r) ==
    /\ call[r].pc = "read"
    /\ LET status == run[call[r].date].status
       IN  IF status = "running" \/ (status = "complete" /\ ~call[r].force)
           THEN Goto(r, "idle")
           ELSE Goto(r, "prefs")
    /\ UNCHANGED <<run, enabled, queue, worker, closer, alive, faults, disowned>>

ReadPreferences(r) ==
    /\ call[r].pc = "prefs"
    /\ Goto(r, IF enabled \/ call[r].force THEN "claim" ELSE "idle")
    /\ UNCHANGED <<run, enabled, queue, worker, closer, alive, faults, disowned>>

Claim(r) ==
    /\ call[r].pc = "claim"
    /\ StartRun(call[r].date)
    /\ Goto(r, "submit")
    /\ UNCHANGED <<enabled, queue, worker, closer, alive, faults, disowned>>

(* Mutant: a refused job is submitted again and again. *)
SubmitRetrying(r) ==
    /\ call[r].pc = "submit"
    /\ alive
    /\ Goto(r, "idle")
    /\ queue' = Append(queue, r)
    /\ UNCHANGED <<run, enabled, worker, closer, alive, faults, disowned>>

(* A broken executor refuses the job and the handler releases its claim.   *)
(* The done callback is registered in the same step: on a Future already   *)
(* done it runs at registration, so a later one only delays the release.   *)
Submit(r) ==
    /\ call[r].pc = "submit"
    /\ Goto(r, "idle")
    /\ \/ /\ alive
          /\ queue' = Append(queue, r)
          /\ UNCHANGED closer
       \/ /\ ~alive
          /\ closer' = [closer EXCEPT ![r] = "read"]
          /\ UNCHANGED queue
    /\ UNCHANGED <<run, enabled, worker, alive, faults, disowned>>

(* Mutant: _release_run does not look at the status. *)
ReleaseReadBlind(r) ==
    /\ closer[r] = "read"
    /\ closer' = [closer EXCEPT ![r] = "write"]
    /\ UNCHANGED <<run, enabled, call, queue, worker, alive, faults, disowned>>

(* _release_run: nothing ties the write to the status that was read. *)
ReleaseRead(r) ==
    /\ closer[r] = "read"
    /\ closer' = [closer EXCEPT ![r] =
                     IF run[call[r].date].status = "running" THEN "write" ELSE "none"]
    /\ UNCHANGED <<run, enabled, call, queue, worker, alive, faults, disowned>>

ReleaseWrite(r) ==
    /\ closer[r] = "write"
    /\ FinishRun(call[r].date, "failed")
    /\ closer' = [closer EXCEPT ![r] = "none"]
    /\ UNCHANGED <<enabled, call, queue, worker, alive, faults, disowned>>

(* ... and an error in either access is only logged. *)
ReleaseError(r) ==
    /\ closer[r] # "none"
    /\ Fault("release")
    /\ closer' = [closer EXCEPT ![r] = "none"]
    /\ disowned' = TRUE
    /\ UNCHANGED <<run, enabled, call, queue, worker, alive>>

---------------------------------------------------------------------------
(* The other requests that matter: a folder sequence is queued, the status *)
(* is polled, the preference is changed.                                   *)

SubmitLibraryJob(j) ==
    /\ alive /\ ~Outstanding(j)
    /\ queue' = Append(queue, j)
    /\ UNCHANGED <<run, enabled, call, worker, closer, alive, faults, disowned>>

Poll ==
    /\ \E d \in Dates : IsStale(run[d])
    /\ run' = Reaped
    /\ UNCHANGED <<enabled, call, queue, worker, closer, alive, faults, disowned>>

SetEnabled ==
    /\ enabled' = ~enabled
    /\ UNCHANGED <<run, call, queue, worker, closer, alive, faults, disowned>>

---------------------------------------------------------------------------
(* The worker process: memory_curator_run, one action per database access. *)

At(pc) == worker.pc = pc

WorkerGoto(pc) == worker' = [worker EXCEPT !.pc = pc]

Begin ==
    /\ At("idle") /\ queue # <<>>
    /\ worker' = [job |-> Head(queue), pc |-> "prefs"]
    /\ queue' = Tail(queue)
    /\ UNCHANGED <<run, enabled, call, closer, alive, faults, disowned>>

CuratorReadPreferences ==
    /\ At("prefs")
    /\ WorkerGoto(IF enabled \/ ForceOf(worker.job) THEN "start" ELSE "release_read")
    /\ UNCHANGED <<run, enabled, call, queue, closer, alive, faults, disowned>>

CuratorStart ==
    /\ At("start")
    /\ StartRun(DateOf(worker.job))
    /\ WorkerGoto("curate")
    /\ UNCHANGED <<enabled, call, queue, closer, alive, faults, disowned>>

(* The triggers: either they are through or something in between raised. *)
Curate ==
    /\ At("curate")
    /\ \E pc \in {"complete", "fail"} : WorkerGoto(pc)
    /\ UNCHANGED <<run, enabled, call, queue, closer, alive, faults, disowned>>

CuratorFinish ==
    /\ At("complete") \/ At("fail")
    /\ FinishRun(DateOf(worker.job), IF At("complete") THEN "complete" ELSE "failed")
    /\ worker' = IdleWorker
    /\ UNCHANGED <<enabled, call, queue, closer, alive, faults, disowned>>

(* _release_claimed_run: memories are disabled and the pass is not forced. *)
CuratorReleaseRead ==
    /\ At("release_read")
    /\ IF run[DateOf(worker.job)].status = "running"
       THEN WorkerGoto("release_write")
       ELSE worker' = IdleWorker
    /\ UNCHANGED <<run, enabled, call, queue, closer, alive, faults, disowned>>

CuratorReleaseWrite ==
    /\ At("release_write")
    /\ FinishRun(DateOf(worker.job), "failed")
    /\ worker' = IdleWorker
    /\ UNCHANGED <<enabled, call, queue, closer, alive, faults, disowned>>

---------------------------------------------------------------------------
(* Faults.                                                                 *)

(* Mutant: no callback is registered. *)
CallbacksForNobody(S) == closer

(* Every request in S learns from its Future that its pass never ended. *)
CallbacksFor(S) == [r \in Requests |-> IF r \in S THEN "read" ELSE closer[r]]

(* A database error in the worker.  Recording "complete" falls back to     *)
(* recording "failed"; the releases log it; anything else escapes, to the  *)
(* request's Future or, in a folder sequence, to _curate_memories, which   *)
(* swallows it.                                                            *)
CuratorError ==
    /\ Fault("raise")
    /\ \/ /\ At("complete")
          /\ WorkerGoto("fail")
          /\ UNCHANGED <<closer, disowned>>
       \/ /\ At("release_read") \/ At("release_write")
          /\ worker' = IdleWorker
          /\ disowned' = TRUE
          /\ UNCHANGED closer
       \/ /\ At("prefs") \/ At("start") \/ At("fail")
          /\ worker' = IdleWorker
          /\ closer' = CallbacksFor({worker.job})
          /\ disowned' = (disowned \/ worker.job \in LibraryJobs)
    /\ UNCHANGED <<run, enabled, call, queue, alive>>

(* The executor is broken from here on: what it held fails as well. *)
WorkerDies ==
    /\ Fault("worker_death")
    /\ alive
    /\ alive' = FALSE
    /\ closer' = CallbacksFor({r \in Requests : Outstanding(r)})
    /\ queue' = <<>>
    /\ worker' = IdleWorker
    /\ disowned' = (disowned \/ worker.job \in LibraryJobs)
    /\ UNCHANGED <<run, enabled, call>>

(* The process tree is killed and started again; only the database stays. *)
Restart ==
    /\ Fault("restart")
    /\ call' = [r \in Requests |-> [call[r] EXCEPT !.pc = "idle"]]
    /\ queue' = <<>>
    /\ worker' = IdleWorker
    /\ closer' = [r \in Requests |-> "none"]
    /\ alive' = TRUE
    /\ disowned' = TRUE
    /\ UNCHANGED <<run, enabled>>

Tick ==
    /\ \E d \in Dates : run[d].status = "running" /\ run[d].age <= StaleAge
    /\ run' = [d \in Dates |->
                 IF run[d].status = "running" /\ run[d].age <= StaleAge
                 THEN [run[d] EXCEPT !.age = @ + 1] ELSE run[d]]
    /\ UNCHANGED <<enabled, call, queue, worker, closer, alive, faults, disowned>>

---------------------------------------------------------------------------
HandlerStep(r) ==
    ReadRun(r) \/ ReadPreferences(r) \/ Claim(r) \/ Submit(r)

CloserStep(r) == ReleaseRead(r) \/ ReleaseWrite(r)

WorkerStep ==
    \/ Begin \/ CuratorReadPreferences \/ CuratorStart \/ Curate
    \/ CuratorFinish \/ CuratorReleaseRead \/ CuratorReleaseWrite

Next ==
    \/ \E r \in Requests : Generate(r) \/ HandlerStep(r) \/ CloserStep(r) \/ ReleaseError(r)
    \/ \E j \in LibraryJobs : SubmitLibraryJob(j)
    \/ WorkerStep
    \/ Poll \/ SetEnabled \/ Tick
    \/ CuratorError \/ WorkerDies \/ Restart

Spec == Init /\ [][Next]_vars

(* Threads are scheduled and the worker does not hang: a started handler,  *)
(* release or pass goes on, and time passes.  Nobody has to call the API.  *)
Fairness ==
    /\ \A r \in Requests : WF_vars(HandlerStep(r)) /\ WF_vars(CloserStep(r))
    /\ WF_vars(WorkerStep) /\ WF_vars(Tick)

FairSpec == Spec /\ Fairness

---------------------------------------------------------------------------
(* Properties.                                                             *)

StateOK ==
    /\ run \in [Dates -> Row]
    /\ enabled \in BOOLEAN
    /\ call \in [Requests -> Call]
    /\ queue \in Seq(Jobs)
    /\ worker \in Worker
    /\ closer \in [Requests -> {"none", "read", "write"}]
    /\ alive \in BOOLEAN

FaultsOK ==
    /\ faults \in [AllFaults -> 0 .. MaxFaults]
    /\ disowned \in BOOLEAN

TypeOK == StateOK /\ FaultsOK

(* Somebody who is still going will close the row of d: a handler between  *)
(* its claim and its submit, a queued or executing pass for d, the release *)
(* of one, or a folder sequence inside its own pass.                       *)
Owned(d) ==
    \/ \E r \in Requests :
          /\ call[r].date = d
          /\ call[r].pc = "submit" \/ Outstanding(r) \/ closer[r] # "none"
    \/ /\ d = Today /\ worker.job \in LibraryJobs
       /\ worker.pc \in {"curate", "complete", "fail"}

(* No claim is left behind: whenever a row says "running" somebody is      *)
(* still going to close it.  generate_memories, _release_run and the       *)
(* curator's own bookkeeping share this duty (routes/memories.py:216-230). *)
(* It ends where the code accepts a loss: after a restart, after an error  *)
(* in a release, and after a fault inside a folder sequence, whose Future  *)
(* nobody watches.                                                         *)
NoAbandonedClaim ==
    ~disowned => \A d \in Dates : run[d].status = "running" => Owned(d)

(* A date whose memories were generated is never reported as failed        *)
(* without another pass having been started (_release_run's docstring,     *)
(* routes/memories.py:92-95), as long as no error has escaped a pass: then *)
(* a release comes only with a broken executor, which completes nothing.   *)
CompleteIsNotFailed ==
    [][faults["raise"] = 0 =>
          \A d \in Dates : run[d].status = "complete" => run'[d].status # "failed"]_vars

(* A second caller sees "running" rather than queueing a duplicate pass    *)
(* (routes/memories.py:216-218).                                           *)
NoDuplicatePass ==
    \A r, s \in Requests :
        r # s /\ Queued(r) /\ Queued(s) => call[r].date # call[s].date

(* Every claim is closed in the end by those who own it, dead worker or    *)
(* not, without the reaper's help.                                         *)
ClaimsAreClosed ==
    \A d \in Dates : run[d].status = "running" ~> (run[d].status # "running" \/ disowned)

(* ... and a claim nobody owns any more is closed as long as the interface *)
(* keeps asking for the status (routes/memories.py:256, the reaper).       *)
ClaimsAreReaped ==
    WF_vars(Poll) => \A d \in Dates : run[d].status = "running" ~> run[d].status # "running"

=============================================================================
