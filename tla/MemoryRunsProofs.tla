-------------------------- MODULE MemoryRunsProofs --------------------------
(***************************************************************************)
(* TLAPS proofs about MemoryRuns, for every set of dates, requests and     *)
(* folder sequences, every staleness window and every number of faults.    *)
(***************************************************************************)
EXTENDS MemoryRuns, TLAPS

(* The worker holds a job exactly while it is somewhere in it. *)
WorkerOK == worker.job = NoJob <=> worker.pc = "idle"

(* The worker never leaves its type, its place and its job go together. *)
LEMMA StateCorrect == Spec => [](StateOK /\ WorkerOK)
<1> USE DatesAssumption, SlotsAssumption, BoundsAssumption
<1>1. Init => StateOK /\ WorkerOK
  BY DEF Init, StateOK, WorkerOK, Row, Call, Worker, IdleWorker, Jobs
<1>2. StateOK /\ WorkerOK /\ [Next]_vars => (StateOK /\ WorkerOK)'
  <2> SUFFICES ASSUME StateOK, WorkerOK, [Next]_vars
               PROVE  (StateOK /\ WorkerOK)'
    OBVIOUS
  <2>0. Reaped \in [Dates -> Row]
    BY DEF StateOK, Reaped, IsStale, Row
  <2>f. ASSUME NEW d \in Dates, NEW status \in {"complete", "failed"}, FinishRun(d, status)
        PROVE  run' \in [Dates -> Row]
    BY <2>f DEF StateOK, FinishRun, Row
  <2>s. ASSUME NEW d \in Dates, StartRun(d) PROVE run' \in [Dates -> Row]
    BY <2>s DEF StateOK, StartRun, Row
  <2>a. ASSUME NEW S PROVE CallbacksFor(S) \in [Requests -> {"none", "read", "write"}]
    BY DEF StateOK, CallbacksFor
  <2>1. ASSUME NEW r \in Requests, Generate(r) PROVE (StateOK /\ WorkerOK)'
    BY <2>0, <2>1 DEF StateOK, WorkerOK, Generate, Call
  <2>2. ASSUME NEW r \in Requests, HandlerStep(r) PROVE (StateOK /\ WorkerOK)'
    <3>1. CASE ReadRun(r)
      BY <3>1 DEF StateOK, WorkerOK, ReadRun, Goto, Call
    <3>2. CASE ReadPreferences(r)
      <4>1. \E pc \in {"claim", "idle"} : Goto(r, pc)
        BY <3>2, Zenon DEF ReadPreferences
      <4>2. call' \in [Requests -> Call]
        BY <4>1 DEF StateOK, Goto, Call
      <4> QED BY <3>2, <4>2, Zenon DEF StateOK, WorkerOK, ReadPreferences
    <3>3. CASE Claim(r)
      <4>1. call[r].date \in Dates
        BY DEF StateOK, Call
      <4>2. run' \in [Dates -> Row]
        BY <2>s, <3>3, <4>1 DEF Claim
      <4>3. call' \in [Requests -> Call]
        BY <3>3 DEF StateOK, Claim, Goto, Call
      <4> QED BY <3>3, <4>2, <4>3 DEF StateOK, WorkerOK, Claim
    <3>4. CASE Submit(r)
      <4>1. call' \in [Requests -> Call]
        BY <3>4 DEF StateOK, Submit, Goto, Call
      <4>2. queue' \in Seq(Jobs)
        BY <3>4 DEF StateOK, Submit, Jobs
      <4> QED BY <3>4, <4>1, <4>2 DEF StateOK, WorkerOK, Submit
    <3> QED BY <2>2, <3>1, <3>2, <3>3, <3>4 DEF HandlerStep
  <2>3. ASSUME NEW r \in Requests, CloserStep(r) PROVE (StateOK /\ WorkerOK)'
    <3>1. CASE ReleaseRead(r)
      BY <3>1 DEF StateOK, WorkerOK, ReleaseRead
    <3>2. CASE ReleaseWrite(r)
      <4>1. run' \in [Dates -> Row]
        BY <2>f, <3>2 DEF StateOK, ReleaseWrite, Call
      <4> QED BY <3>2, <4>1 DEF StateOK, WorkerOK, ReleaseWrite
    <3> QED BY <2>3, <3>1, <3>2 DEF CloserStep
  <2>4. ASSUME NEW r \in Requests, ReleaseError(r) PROVE (StateOK /\ WorkerOK)'
    BY <2>4 DEF StateOK, WorkerOK, ReleaseError
  <2>5. ASSUME NEW j \in LibraryJobs, SubmitLibraryJob(j) PROVE (StateOK /\ WorkerOK)'
    BY <2>5 DEF StateOK, WorkerOK, SubmitLibraryJob, Jobs
  <2>6. CASE WorkerStep
    <3>0. ASSUME worker.pc # "idle" PROVE DateOf(worker.job) \in Dates
      BY <3>0 DEF StateOK, WorkerOK, Worker, Call, DateOf
    <3>1. CASE Begin
      BY <3>1 DEF StateOK, WorkerOK, Begin, Worker, Jobs
    <3>2. CASE CuratorReadPreferences
      BY <3>2 DEF StateOK, WorkerOK, CuratorReadPreferences, At, WorkerGoto, Worker
    <3>3. CASE CuratorStart
      <4>1. run' \in [Dates -> Row]
        BY <2>s, <3>0, <3>3 DEF CuratorStart, At
      <4> QED BY <3>3, <4>1 DEF StateOK, WorkerOK, CuratorStart, At, WorkerGoto, Worker
    <3>4. CASE Curate
      BY <3>4 DEF StateOK, WorkerOK, Curate, At, WorkerGoto, Worker
    <3>5. CASE CuratorFinish
      <4>1. run' \in [Dates -> Row]
        BY <2>f, <3>0, <3>5 DEF CuratorFinish, At
      <4> QED BY <3>5, <4>1 DEF StateOK, WorkerOK, CuratorFinish, IdleWorker, Worker
    <3>6. CASE CuratorReleaseRead
      BY <3>6 DEF StateOK, WorkerOK, CuratorReleaseRead, At, WorkerGoto, IdleWorker, Worker
    <3>7. CASE CuratorReleaseWrite
      <4>1. run' \in [Dates -> Row]
        BY <2>f, <3>0, <3>7 DEF CuratorReleaseWrite, At
      <4> QED BY <3>7, <4>1 DEF StateOK, WorkerOK, CuratorReleaseWrite, IdleWorker, Worker
    <3> QED BY <2>6, <3>1, <3>2, <3>3, <3>4, <3>5, <3>6, <3>7 DEF WorkerStep
  <2>7. CASE Poll
    BY <2>0, <2>7 DEF StateOK, WorkerOK, Poll
  <2>8. CASE SetEnabled
    BY <2>8 DEF StateOK, WorkerOK, SetEnabled
  <2>9. CASE Tick
    BY <2>9 DEF StateOK, WorkerOK, Tick, Row
  <2>10. CASE CuratorError
    BY <2>a, <2>10 DEF StateOK, WorkerOK, CuratorError, At, WorkerGoto, IdleWorker, Worker
  <2>11. CASE WorkerDies
    <3>1. queue' \in Seq(Jobs) /\ worker' \in Worker
      BY <2>11 DEF StateOK, WorkerDies, IdleWorker, Worker
    <3>2. closer' \in [Requests -> {"none", "read", "write"}]
      BY <2>a, <2>11 DEF WorkerDies
    <3> QED BY <2>11, <3>1, <3>2 DEF StateOK, WorkerOK, WorkerDies, IdleWorker
  <2>12. CASE Restart
    <3>1. call' \in [Requests -> Call]
      BY <2>12 DEF StateOK, Restart, Call
    <3>2. queue' \in Seq(Jobs) /\ worker' \in Worker
      BY <2>12 DEF StateOK, Restart, IdleWorker, Worker
    <3> QED BY <2>12, <3>1, <3>2 DEF StateOK, WorkerOK, Restart, IdleWorker
  <2>13. CASE UNCHANGED vars
    BY <2>13 DEF StateOK, WorkerOK, vars
  <2> QED
    BY <2>1, <2>2, <2>3, <2>4, <2>5, <2>6, <2>7, <2>8, <2>9, <2>10, <2>11, <2>12, <2>13 DEF Next
<1> QED BY <1>1, <1>2, PTL DEF Spec

LEMMA FaultsCorrect == Spec => []FaultsOK
<1> USE BoundsAssumption
<1>1. Init => FaultsOK
  <2>1. 0 \in 0 .. MaxFaults
    OBVIOUS
  <2> QED BY <2>1, Zenon DEF Init, FaultsOK
<1>2. FaultsOK /\ [Next]_vars => FaultsOK'
  <2> SUFFICES ASSUME FaultsOK, [Next]_vars PROVE FaultsOK'
    OBVIOUS
  <2>1. ASSUME NEW kind \in AllFaults, Fault(kind)
        PROVE  faults' \in [AllFaults -> 0 .. MaxFaults]
    <3>1. faults[kind] \in 0 .. MaxFaults
      BY Zenon DEF FaultsOK
    <3>2. faults[kind] + 1 \in 0 .. MaxFaults
      BY <2>1, <3>1 DEF Fault
    <3>3. faults' = [faults EXCEPT ![kind] = faults[kind] + 1]
      BY <2>1 DEF Fault
    <3> QED BY <3>2, <3>3, Zenon DEF FaultsOK
  <2>2. faults' = faults \/ \E kind \in AllFaults : Fault(kind)
    BY Zenon DEF AllFaults, Next, vars, Generate, HandlerStep, ReadRun, ReadPreferences,
      Claim, Submit, CloserStep, ReleaseRead, ReleaseWrite, ReleaseError, SubmitLibraryJob,
      WorkerStep, Begin, CuratorReadPreferences, CuratorStart, Curate, CuratorFinish,
      CuratorReleaseRead, CuratorReleaseWrite, Poll, SetEnabled, Tick, CuratorError,
      WorkerDies, Restart
  <2>3. disowned' = disowned \/ disowned' \in BOOLEAN
    BY Zenon DEF Next, vars, Generate, HandlerStep, ReadRun, ReadPreferences,
      Claim, Submit, CloserStep, ReleaseRead, ReleaseWrite, ReleaseError, SubmitLibraryJob,
      WorkerStep, Begin, CuratorReadPreferences, CuratorStart, Curate, CuratorFinish,
      CuratorReleaseRead, CuratorReleaseWrite, Poll, SetEnabled, Tick, CuratorError,
      WorkerDies, Restart
  <2> QED BY <2>1, <2>2, <2>3, Zenon DEF FaultsOK
<1> QED BY <1>1, <1>2, PTL DEF Spec

LEMMA TypeCorrect == Spec => [](TypeOK /\ WorkerOK)
BY StateCorrect, FaultsCorrect, PTL DEF TypeOK

(* Every reachable state is well typed. *)
THEOREM Typing == Spec => []TypeOK
BY TypeCorrect, PTL

---------------------------------------------------------------------------
(* Rows change status only where a claim is made or closed; a claim is     *)
(* owned in the states in which its owner's next steps close it.           *)

(* Until a claim is lost where the code accepts it, a row that says        *)
(* "running" has an owner who will close it.                               *)
THEOREM ClaimsAreOwned == Spec => []NoAbandonedClaim
<1> USE DatesAssumption, SlotsAssumption, BoundsAssumption
<1>1. Init => NoAbandonedClaim
  BY DEF Init, NoAbandonedClaim
<1>2. TypeOK /\ WorkerOK /\ NoAbandonedClaim /\ [Next]_vars => NoAbandonedClaim'
  <2> SUFFICES ASSUME TypeOK, WorkerOK, NoAbandonedClaim, [Next]_vars, ~disowned',
                      NEW d \in Dates, run'[d].status = "running"
               PROVE  Owned(d)'
    BY DEF NoAbandonedClaim
  <2>0. ~disowned
    BY DEF TypeOK, StateOK, Next, vars, Generate, HandlerStep, ReadRun,
      ReadPreferences, Claim, Submit, CloserStep, ReleaseRead, ReleaseWrite,
      ReleaseError, SubmitLibraryJob, WorkerStep, Begin, CuratorReadPreferences,
      CuratorStart, Curate, CuratorFinish, CuratorReleaseRead, CuratorReleaseWrite,
      Poll, SetEnabled, Tick, CuratorError, WorkerDies, Restart
  <2>a. run[d].status = "running" => Owned(d)
    BY <2>0 DEF NoAbandonedClaim
  <2>b. ASSUME Reaped[d].status = "running" PROVE Owned(d)
    BY <2>a, <2>b DEF Reaped
  <2>1. ASSUME NEW r \in Requests, Generate(r) PROVE Owned(d)'
    <3>1. Owned(d)
      BY <2>b, <2>1 DEF Generate
    <3> QED BY <2>1, <3>1 DEF TypeOK, StateOK, Call, Generate, Owned, Outstanding, Queued
  <2>2. ASSUME NEW r \in Requests, HandlerStep(r) PROVE Owned(d)'
    <3>1. CASE ReadRun(r)
      BY <2>a, <3>1 DEF TypeOK, StateOK, Call, ReadRun, Goto, Owned, Outstanding, Queued
    <3>2. CASE ReadPreferences(r)
      BY <2>a, <3>2 DEF TypeOK, StateOK, Call, ReadPreferences, Goto, Owned, Outstanding, Queued
    <3>3. CASE Claim(r)
      <4>1. CASE d = call[r].date
        BY <3>3, <4>1 DEF TypeOK, StateOK, Call, Claim, Goto, Owned
      <4>2. CASE d # call[r].date
        <5>1. Owned(d)
          BY <2>a, <3>3, <4>2 DEF TypeOK, StateOK, Claim, StartRun
        <5> QED BY <3>3, <5>1 DEF TypeOK, StateOK, Call, Claim, Goto, Owned, Outstanding, Queued
      <4> QED BY <4>1, <4>2
    <3>4. CASE Submit(r)
      <4>1. Owned(d)
        BY <2>a, <3>4 DEF Submit
      <4>2. \A s : Outstanding(s) => Outstanding(s)'
        BY <3>4 DEF TypeOK, StateOK, Submit, Outstanding, Queued
      <4>3. Outstanding(r)' \/ closer'[r] # "none"
        BY <3>4 DEF TypeOK, StateOK, Submit, Outstanding, Queued
      <4>4. \A s \in Requests : closer[s] # "none" => closer'[s] # "none"
        BY <3>4 DEF TypeOK, StateOK, Submit
      <4>5. \A s \in Requests :
               /\ call'[s].date = call[s].date
               /\ s # r => call'[s].pc = call[s].pc
        BY <3>4 DEF TypeOK, StateOK, Call, Submit, Goto
      <4>6. worker' = worker
        BY <3>4 DEF Submit
      <4>7. CASE \E s \in Requests :
                    /\ call[s].date = d
                    /\ call[s].pc = "submit" \/ Outstanding(s) \/ closer[s] # "none"
        <5>1. PICK s \in Requests :
                    /\ call[s].date = d
                    /\ call[s].pc = "submit" \/ Outstanding(s) \/ closer[s] # "none"
          BY <4>7
        <5>2. call'[s].date = d
          BY <4>5, <5>1
        <5>3. CASE s = r
          BY <4>3, <5>2, <5>3, Zenon DEF Owned
        <5>4. CASE s # r
          <6>1. call'[s].pc = "submit" \/ Outstanding(s)' \/ closer'[s] # "none"
            BY <4>2, <4>4, <4>5, <5>1, <5>4, Zenon
          <6> QED BY <5>2, <6>1, Zenon DEF Owned
        <5> QED BY <5>3, <5>4
      <4> QED BY <4>1, <4>6, <4>7, Zenon DEF Owned
    <3> QED BY <2>2, <3>1, <3>2, <3>3, <3>4 DEF HandlerStep
  <2>3. ASSUME NEW r \in Requests, CloserStep(r) PROVE Owned(d)'
    <3>1. CASE ReleaseRead(r)
      BY <2>a, <3>1 DEF TypeOK, StateOK, ReleaseRead, Owned, Outstanding, Queued
    <3>2. CASE ReleaseWrite(r)
      <4>1. call[r].date # d /\ Owned(d)
        BY <2>a, <3>2 DEF TypeOK, StateOK, Call, Row, ReleaseWrite, FinishRun
      <4> QED BY <3>2, <4>1 DEF TypeOK, StateOK, ReleaseWrite, Owned, Outstanding, Queued
    <3> QED BY <2>3, <3>1, <3>2 DEF CloserStep
  <2>4. ASSUME NEW r \in Requests, ReleaseError(r) PROVE FALSE
    BY <2>4 DEF ReleaseError
  <2>5. ASSUME NEW j \in LibraryJobs, SubmitLibraryJob(j) PROVE Owned(d)'
    BY <2>a, <2>5 DEF TypeOK, StateOK, Jobs, SubmitLibraryJob, Owned, Outstanding, Queued
  <2>6. CASE WorkerStep
    <3>1. CASE Begin
      <4>1. Owned(d)
        BY <2>a, <3>1 DEF Begin
      <4>2. \A s \in Requests : Outstanding(s) => Outstanding(s)'
        <5> SUFFICES ASSUME NEW s \in Requests, Outstanding(s) PROVE Outstanding(s)'
          OBVIOUS
        <5>1. worker.job # s
          BY <3>1 DEF WorkerOK, Begin, At
        <5>2. PICK i \in 1 .. Len(queue) : queue[i] = s
          BY <5>1 DEF Outstanding, Queued
        <5>3. CASE i = 1
          BY <3>1, <5>2, <5>3 DEF TypeOK, StateOK, Begin, Outstanding
        <5>4. CASE i # 1
          <6>1. queue \in Seq(Jobs) /\ queue' = Tail(queue) /\ queue # <<>>
            BY <3>1 DEF TypeOK, StateOK, Begin
          <6>2. i - 1 \in 1 .. Len(queue') /\ queue'[i - 1] = s
            BY <5>2, <5>4, <6>1
          <6> QED BY <6>2 DEF Outstanding, Queued
        <5> QED BY <5>3, <5>4
      <4> QED BY <3>1, <4>1, <4>2 DEF Begin, Owned, WorkerOK, At
    <3>2. CASE CuratorReadPreferences
      BY <2>a, <3>2 DEF TypeOK, StateOK, Worker, CuratorReadPreferences, At, WorkerGoto,
        Owned, Outstanding, Queued
    <3>3. CASE CuratorStart
      <4>1. CASE d = DateOf(worker.job)
        BY <3>3, <4>1 DEF TypeOK, StateOK, WorkerOK, Worker, Jobs, CuratorStart, At, WorkerGoto,
          DateOf, Owned, Outstanding, Queued
      <4>2. CASE d # DateOf(worker.job)
        <5>1. Owned(d)
          BY <2>a, <3>3, <4>2 DEF TypeOK, StateOK, CuratorStart, StartRun
        <5>2. worker'.job = worker.job
          BY <3>3 DEF TypeOK, StateOK, Worker, CuratorStart, WorkerGoto
        <5>3. worker'.pc = "curate"
          BY <3>3 DEF TypeOK, StateOK, Worker, CuratorStart, WorkerGoto
        <5> QED BY <3>3, <5>1, <5>2, <5>3 DEF CuratorStart, Owned, Outstanding, Queued
      <4> QED BY <4>1, <4>2
    <3>4. CASE Curate
      BY <2>a, <3>4 DEF TypeOK, StateOK, Worker, Curate, At, WorkerGoto, Owned, Outstanding, Queued
    <3>5. CASE CuratorFinish \/ CuratorReleaseWrite
      <4>1. d # DateOf(worker.job)
        BY <3>5 DEF TypeOK, StateOK, Row, CuratorFinish, CuratorReleaseWrite, FinishRun
      <4>2. Owned(d)
        BY <2>a, <3>5, <4>1 DEF TypeOK, StateOK, CuratorFinish, CuratorReleaseWrite, FinishRun
      <4> QED BY <3>5, <4>1, <4>2 DEF CuratorFinish, CuratorReleaseWrite, DateOf,
            Owned, Outstanding, Queued, IdleWorker
    <3>6. CASE CuratorReleaseRead
      <4>1. Owned(d) /\ (run[DateOf(worker.job)].status # "running" => d # DateOf(worker.job))
        BY <2>a, <3>6 DEF CuratorReleaseRead
      <4> QED BY <3>6, <4>1 DEF TypeOK, StateOK, Worker, CuratorReleaseRead, At, WorkerGoto, DateOf,
            Owned, Outstanding, Queued, IdleWorker
    <3> QED BY <2>6, <3>1, <3>2, <3>3, <3>4, <3>5, <3>6 DEF WorkerStep
  <2>7. CASE Poll
    BY <2>b, <2>7 DEF Poll, Owned, Outstanding, Queued
  <2>8. CASE SetEnabled
    BY <2>a, <2>8 DEF SetEnabled, Owned, Outstanding, Queued
  <2>9. CASE Tick
    BY <2>a, <2>9 DEF TypeOK, StateOK, Row, Tick, Owned, Outstanding, Queued
  <2>10. CASE CuratorError
    <3>1. Owned(d)
      BY <2>a, <2>10 DEF CuratorError
    <3>2. CASE At("complete") /\ WorkerGoto("fail") /\ UNCHANGED closer
      BY <2>10, <3>1, <3>2 DEF TypeOK, StateOK, Worker, CuratorError, At, WorkerGoto, Owned, Outstanding, Queued
    <3>3. CASE /\ At("prefs") \/ At("start") \/ At("fail")
               /\ worker.job \notin LibraryJobs
               /\ worker' = IdleWorker
               /\ closer' = CallbacksFor({worker.job})
      <4>1. \A s \in Requests : worker.job = s \/ closer[s] # "none" => closer'[s] # "none"
        BY <3>3 DEF CallbacksFor
      <4> QED BY <2>10, <3>1, <3>3, <4>1 DEF CuratorError, Owned, Outstanding, Queued
    <3> QED BY <2>10, <3>2, <3>3 DEF CuratorError
  <2>10a. CASE Restart
    BY <2>10a DEF Restart
  <2>11. CASE WorkerDies
    <3>1. worker.job \notin LibraryJobs
      BY <2>11 DEF WorkerDies
    <3>2. Owned(d)
      BY <2>a, <2>11 DEF WorkerDies
    <3>3. \A s \in Requests : Outstanding(s) \/ closer[s] # "none" => closer'[s] # "none"
      BY <2>11 DEF WorkerDies, CallbacksFor
    <3>4. call' = call
      BY <2>11 DEF WorkerDies
    <3> QED BY <3>1, <3>2, <3>3, <3>4 DEF Owned
  <2>12. CASE UNCHANGED vars
    BY <2>a, <2>12 DEF vars, Owned, Outstanding, Queued
  <2> QED
    BY <2>1, <2>2, <2>3, <2>4, <2>5, <2>6, <2>7, <2>8, <2>9, <2>10, <2>10a, <2>11, <2>12 DEF Next
<1> QED BY <1>1, <1>2, TypeCorrect, PTL DEF Spec

---------------------------------------------------------------------------
(* Why a release cannot hit a completed row while no error has escaped the *)
(* curator: a request's Future then fails only with the whole executor,    *)
(* and a broken executor completes nothing any more.                       *)
ReleasesAreQuiet ==
    /\ ~alive => worker.pc = "idle" /\ queue = <<>>
    /\ \A r \in Requests : closer[r] # "none" => ~alive
    /\ \A r \in Requests : closer[r] = "write" => run[call[r].date].status # "complete"
    /\ worker.pc \in {"curate", "complete", "fail", "release_write"}
          => run[DateOf(worker.job)].status # "complete"

QuietReleases == faults["raise"] = 0 => ReleasesAreQuiet

LEMMA QuietReleasesInvariant == Spec => []QuietReleases
<1>1. Init => QuietReleases
  BY DEF Init, QuietReleases, ReleasesAreQuiet, IdleWorker
<1>2. TypeOK /\ WorkerOK /\ QuietReleases /\ [Next]_vars => QuietReleases'
  <2> SUFFICES ASSUME TypeOK, WorkerOK, QuietReleases, [Next]_vars, faults'["raise"] = 0
               PROVE  ReleasesAreQuiet'
    BY DEF QuietReleases
  <2>f. ASSUME NEW kind \in AllFaults, Fault(kind)
        PROVE  kind # "raise" /\ faults["raise"] = 0
    <3>1. faults \in [AllFaults -> 0 .. MaxFaults] /\ "raise" \in AllFaults
      BY DEF TypeOK, FaultsOK, AllFaults
    <3>2. faults' = [faults EXCEPT ![kind] = faults[kind] + 1]
      BY <2>f DEF Fault
    <3> QED BY <3>1, <3>2, BoundsAssumption
  <2>r. ~CuratorError
    BY <2>f DEF CuratorError, AllFaults
  <2>z. faults["raise"] = 0
    BY <2>f, <2>r DEF AllFaults, Next, vars, Generate, HandlerStep, ReadRun,
      ReadPreferences, Claim, Submit, CloserStep, ReleaseRead, ReleaseWrite,
      ReleaseError, SubmitLibraryJob, WorkerStep, Begin, CuratorReadPreferences,
      CuratorStart, Curate, CuratorFinish, CuratorReleaseRead, CuratorReleaseWrite,
      Poll, SetEnabled, Tick, WorkerDies, Restart
  <2>q. ReleasesAreQuiet
    BY <2>z DEF QuietReleases
  <2>0. \A d \in Dates : run[d].status # "complete" => Reaped[d].status # "complete"
    BY DEF TypeOK, StateOK, Row, Reaped
  <2>d. worker.pc # "idle" => DateOf(worker.job) \in Dates
    BY DatesAssumption DEF TypeOK, StateOK, WorkerOK, Worker, Call, Jobs, DateOf
  <2>1. ASSUME NEW r \in Requests, Generate(r) PROVE ReleasesAreQuiet'
    <3>1. worker.job # r /\ worker' = worker /\ queue' = queue /\ alive' = alive /\ closer' = closer
      BY <2>1 DEF Generate, Outstanding
    <3>2. \A s \in Requests : call[s].date \in Dates /\ (s # r => call'[s] = call[s])
      BY <2>1 DEF TypeOK, StateOK, Call, Generate
    <3>3. DateOf(worker.job)' = DateOf(worker.job)
      BY <3>1, <3>2 DEF DateOf
    <3>4. closer[r] = "none" /\ run' = Reaped
      BY <2>1 DEF Generate
    <3> QED BY <2>q, <2>0, <2>d, <3>1, <3>2, <3>3, <3>4 DEF ReleasesAreQuiet
  <2>2. ASSUME NEW r \in Requests, HandlerStep(r) PROVE ReleasesAreQuiet'
    <3>1. worker' = worker /\ alive' = alive /\ \A s \in Requests : call'[s].date = call[s].date
      <4>1. ASSUME NEW pc, Goto(r, pc) PROVE \A s \in Requests : call'[s].date = call[s].date
        BY <4>1 DEF TypeOK, StateOK, Call, Goto
      <4>2. \E pc : Goto(r, pc)
        BY <2>2, Zenon DEF HandlerStep, ReadRun, ReadPreferences, Claim, Submit
      <4>3. worker' = worker /\ alive' = alive
        BY <2>2, Zenon DEF HandlerStep, ReadRun, ReadPreferences, Claim, Submit
      <4> QED BY <4>1, <4>2, <4>3
    <3>2. DateOf(worker.job)' = DateOf(worker.job)
      BY <3>1 DEF DateOf
    <3>3. CASE ReadRun(r) \/ ReadPreferences(r)
      BY <2>q, <3>1, <3>2, <3>3 DEF ReleasesAreQuiet, ReadRun, ReadPreferences
    <3>4. CASE Claim(r)
      <4>1. \A d \in Dates : run[d].status # "complete" => run'[d].status # "complete"
        BY <3>4 DEF TypeOK, StateOK, Claim, StartRun
      <4>2. \A s \in Requests : call[s].date \in Dates
        BY DEF TypeOK, StateOK, Call
      <4> QED BY <2>q, <2>d, <3>1, <3>2, <3>4, <4>1, <4>2 DEF ReleasesAreQuiet, Claim
    <3>5. CASE Submit(r)
      <4>1. CASE alive
        BY <2>q, <3>1, <3>2, <3>5, <4>1 DEF ReleasesAreQuiet, Submit
      <4>2. CASE ~alive
        BY <2>q, <3>1, <3>2, <3>5, <4>2 DEF TypeOK, StateOK, ReleasesAreQuiet, Submit
      <4> QED BY <4>1, <4>2
    <3> QED BY <2>2, <3>3, <3>4, <3>5 DEF HandlerStep
  <2>3. ASSUME NEW r \in Requests, CloserStep(r) PROVE ReleasesAreQuiet'
    <3>1. CASE ReleaseRead(r)
      BY <2>q, <3>1 DEF TypeOK, StateOK, ReleasesAreQuiet, ReleaseRead, DateOf
    <3>2. CASE ReleaseWrite(r)
      <4>1. \A d \in Dates : run[d].status # "complete" => run'[d].status # "complete"
        BY <3>2 DEF TypeOK, StateOK, Row, ReleaseWrite, FinishRun
      <4>2. \A s \in Requests : call[s].date \in Dates
        BY DEF TypeOK, StateOK, Call
      <4>3. DateOf(worker.job)' = DateOf(worker.job)
        BY <2>q, <3>2 DEF ReleaseWrite, DateOf
      <4> QED BY <2>q, <2>d, <3>2, <4>1, <4>2, <4>3 DEF TypeOK, StateOK, ReleasesAreQuiet, ReleaseWrite
    <3> QED BY <2>3, <3>1, <3>2 DEF CloserStep
  <2>4. ASSUME NEW r \in Requests, ReleaseError(r) PROVE ReleasesAreQuiet'
    BY <2>q, <2>4 DEF TypeOK, StateOK, ReleasesAreQuiet, ReleaseError, DateOf
  <2>5. ASSUME NEW j \in LibraryJobs, SubmitLibraryJob(j) PROVE ReleasesAreQuiet'
    BY <2>q, <2>5 DEF ReleasesAreQuiet, SubmitLibraryJob, DateOf
  <2>6. CASE WorkerStep
    <3>0. worker.pc # "idle" => alive /\ \A r \in Requests : closer[r] = "none"
      BY <2>q DEF ReleasesAreQuiet
    <3>1. CASE Begin
      <4>1. alive /\ \A r \in Requests : closer[r] = "none"
        BY <2>q, <3>1 DEF ReleasesAreQuiet, Begin
      <4> QED BY <2>q, <3>1, <4>1 DEF ReleasesAreQuiet, Begin
    <3>2. CASE CuratorReadPreferences
      BY <2>q, <3>0, <3>2 DEF TypeOK, StateOK, Worker, ReleasesAreQuiet, CuratorReadPreferences, At, WorkerGoto
    <3>3. CASE CuratorStart
      <4>1. run'[DateOf(worker.job)].status = "running"
        BY <2>d, <3>3 DEF TypeOK, StateOK, CuratorStart, StartRun, At
      <4>2. worker'.job = worker.job
        BY <3>3 DEF TypeOK, StateOK, Worker, CuratorStart, WorkerGoto
      <4>3. DateOf(worker.job)' = DateOf(worker.job)
        BY <2>q, <3>3, <4>2 DEF CuratorStart, DateOf
      <4> QED BY <2>q, <3>0, <3>3, <4>1, <4>3 DEF ReleasesAreQuiet, CuratorStart, At
    <3>4. CASE Curate
      BY <2>q, <3>0, <3>4 DEF TypeOK, StateOK, Worker, ReleasesAreQuiet, Curate, At, WorkerGoto, DateOf
    <3>5. CASE CuratorFinish \/ CuratorReleaseWrite
      BY <2>q, <3>0, <3>5 DEF ReleasesAreQuiet, CuratorFinish, CuratorReleaseWrite, At, IdleWorker
    <3>6. CASE CuratorReleaseRead
      <4>1. CASE run[DateOf(worker.job)].status = "running"
        BY <2>q, <3>0, <3>6, <4>1 DEF TypeOK, StateOK, Worker, ReleasesAreQuiet, CuratorReleaseRead, At, WorkerGoto, DateOf
      <4>2. CASE run[DateOf(worker.job)].status # "running"
        BY <2>q, <3>0, <3>6, <4>2 DEF ReleasesAreQuiet, CuratorReleaseRead, At, IdleWorker
      <4> QED BY <4>1, <4>2
    <3> QED BY <2>6, <3>1, <3>2, <3>3, <3>4, <3>5, <3>6 DEF WorkerStep
  <2>7. CASE Poll
    <3>1. \A s \in Requests : call[s].date \in Dates
      BY DEF TypeOK, StateOK, Call
    <3>2. DateOf(worker.job)' = DateOf(worker.job)
      BY <2>7 DEF Poll, DateOf
    <3> QED BY <2>q, <2>0, <2>d, <2>7, <3>1, <3>2 DEF ReleasesAreQuiet, Poll
  <2>8. CASE SetEnabled
    BY <2>q, <2>8 DEF ReleasesAreQuiet, SetEnabled, DateOf
  <2>9. CASE Tick
    <3>1. \A s \in Requests : call[s].date \in Dates
      BY DEF TypeOK, StateOK, Call
    <3>2. DateOf(worker.job)' = DateOf(worker.job)
      BY <2>9 DEF Tick, DateOf
    <3>3. \A d \in Dates : run[d].status # "complete" => run'[d].status # "complete"
      BY <2>9 DEF TypeOK, StateOK, Row, Tick
    <3> QED BY <2>q, <2>d, <2>9, <3>1, <3>2, <3>3 DEF ReleasesAreQuiet, Tick
  <2>10. CASE CuratorError
    BY <2>10, <2>r
  <2>11. CASE WorkerDies
    <3>1. \A r \in Requests : closer'[r] \in {closer[r], "read"}
      BY <2>11 DEF WorkerDies, CallbacksFor
    <3> QED BY <2>q, <2>11, <3>1 DEF ReleasesAreQuiet, WorkerDies, IdleWorker
  <2>12. CASE Restart
    BY <2>q, <2>12 DEF ReleasesAreQuiet, Restart, IdleWorker
  <2>13. CASE UNCHANGED vars
    BY <2>q, <2>13 DEF ReleasesAreQuiet, vars, DateOf
  <2> QED
    BY <2>1, <2>2, <2>3, <2>4, <2>5, <2>6, <2>7, <2>8, <2>9, <2>10, <2>11, <2>12, <2>13 DEF Next
<1> QED BY <1>1, <1>2, TypeCorrect, PTL DEF Spec

(* As long as no error has escaped the curator, no step reports a          *)
(* completed date as failed.                                               *)
THEOREM CompletedStaysCompleted == Spec => CompleteIsNotFailed
<1> DEFINE Kept == faults["raise"] = 0 =>
                     \A d \in Dates : run[d].status = "complete" => run'[d].status # "failed"
<1>1. TypeOK /\ WorkerOK /\ QuietReleases /\ [Next]_vars => [Kept]_vars
  <2> SUFFICES ASSUME TypeOK, WorkerOK, ReleasesAreQuiet, Next, NEW d \in Dates, run[d].status = "complete"
               PROVE  run'[d].status # "failed"
    BY DEF vars, QuietReleases
  <2>1. Reaped[d].status = "complete"
    BY DEF Reaped, IsStale
  <2>2. CASE run' = Reaped \/ run' = run
    BY <2>1, <2>2
  <2>3. ASSUME NEW r \in Requests, Claim(r) PROVE run'[d].status # "failed"
    BY <2>3 DEF TypeOK, StateOK, Row, Claim, StartRun
  <2>4. ASSUME NEW r \in Requests, ReleaseWrite(r) PROVE run'[d].status # "failed"
    BY <2>4 DEF TypeOK, StateOK, Row, ReleasesAreQuiet, ReleaseWrite, FinishRun
  <2>5. CASE CuratorStart
    BY <2>5 DEF TypeOK, StateOK, Row, CuratorStart, StartRun
  <2>6. CASE CuratorFinish \/ CuratorReleaseWrite
    BY <2>6 DEF TypeOK, StateOK, Row, ReleasesAreQuiet, CuratorFinish, CuratorReleaseWrite, FinishRun, At
  <2>7. CASE Tick
    BY <2>7 DEF TypeOK, StateOK, Row, Tick
  <2> QED
    BY <2>2, <2>3, <2>4, <2>5, <2>6, <2>7 DEF Next, Generate, HandlerStep, ReadRun,
      ReadPreferences, Submit, CloserStep, ReleaseRead, ReleaseError, SubmitLibraryJob,
      WorkerStep, Begin, CuratorReadPreferences, Curate, CuratorReleaseRead, Poll,
      SetEnabled, CuratorError, WorkerDies, Restart
<1> QED BY <1>1, QuietReleasesInvariant, TypeCorrect, PTL DEF Spec, CompleteIsNotFailed
=============================================================================
