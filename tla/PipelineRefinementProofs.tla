---------------------- MODULE PipelineRefinementProofs ----------------------
(* Pipeline implements JobService, for every value of the constants.         *)
EXTENDS PipelineRefinement, PipelineProofs

State == [j \in Jobs |-> JobState(j)]

\* The mode, case by case.
LEMMA ModeCases ==
  /\ (\E d \in Stoppers : spc[d] = "returned") <=> ServiceMode = "down"
  /\ (\A d \in Stoppers : spc[d] # "returned") =>
       ServiceMode = IF hard THEN "forced" ELSE IF stopped THEN "closing" ELSE "open"
BY DEF ServiceMode

\* The state of a job by its outcome and by its call of Enqueue.
LEMMA StateCases ==
  ASSUME TypeOK, NEW j \in Jobs
  PROVE  /\ outcome[j] # "none" => JobState(j) = outcome[j]
         /\ InFlight(j) <=> JobState(j) = "accepted"
         /\ outcome[j] = "none" /\ epc[j] \in Returned \ {"accepted"} => JobState(j) = "rejected"
         /\ outcome[j] = "none" /\ epc[j] \in {"idle", "lock", "send"} => JobState(j) = "new"
<1>1. outcome[j] \in {"none", "done", "failed", "dropped"}
  BY DEF TypeOK
<1>2. CASE outcome[j] = "none"
  BY <1>2 DEF JobState, InFlight, Accepted, Returned
<1>3. CASE outcome[j] # "none"
  BY <1>1, <1>3 DEF JobState, InFlight
<1> QED BY <1>2, <1>3

\* A step that moves one job, and what it means for the service.
LEMMA OneMoves ==
  ASSUME NEW j \in Jobs, NEW from, NEW to, JobState(j) = from, JobState(j)' = to,
         \A k \in Jobs : k # j => JobState(k)' = JobState(k)
  PROVE  State[j] = from /\ State' = [State EXCEPT ![j] = to]
BY DEF State

LEMMA NoneMoves ==
  ASSUME \A k \in Jobs : JobState(k)' = JobState(k)
  PROVE  State' = State
BY DEF State

LEMMA SameState ==
  ASSUME epc' = epc, outcome' = outcome
  PROVE  State' = State
BY DEF State, JobState, InFlight, Accepted

LEMMA SameMode ==
  ASSUME spc' = spc, hard' = hard, stopped' = stopped
  PROVE  ServiceMode' = ServiceMode
BY DEF ServiceMode

\* While a worker has a job no call of Shutdown has returned.
LEMMA NotDown ==
  ASSUME TypeOK, IInv, NEW w \in Workers, held[w] # NoJob
  PROVE  /\ ServiceMode # "down" /\ (hard => ServiceMode = "forced")
         /\ InFlight(held[w])
<1>1. InFlight(held[w]) /\ held[w] \in Jobs
  BY DEF TypeOK, IInv, Progress
<1>2. started
  BY <1>1 DEF IInv, Control, InFlight, Accepted
<1>3. \A d \in Stoppers : spc[d] # "returned"
  BY <1>2, Quiet DEF QuietAfterShutdown
<1> QED BY <1>1, <1>3, ModeCases

LEMMA EnqueueRefines ==
  ASSUME TypeOK, TypeOK', IInv, NEW j \in Jobs, EnqueueStep(j)
  PROVE  Service!Next \/ (State' = State /\ ServiceMode' = ServiceMode)
<1> USE DEF EnqueueStep, EnqueueBegin, EnqueueLock, EnqueueSend, EnqueueCanceled, EnqueueFull,
            workerVars, jobVars
<1>1. outcome' = outcome /\ ServiceMode' = ServiceMode
  BY SameMode
<1>2. epc[j] \in {"idle", "lock", "send"} /\ outcome[j] = "none"
  BY DEF IInv, Progress, Accepted
<1>3. JobState(j) = "new"
  BY <1>2, StateCases
<1>4. \A k \in Jobs : k # j => JobState(k)' = JobState(k)
  BY <1>1 DEF TypeOK, JobState, InFlight, Accepted
<1>5. epc'[j] \in {"lock", "send"} \union Returned
  BY DEF TypeOK, Returned
<1>6. CASE epc'[j] \in {"lock", "send"}
  <2>1. JobState(j)' = "new"
    BY <1>1, <1>2, <1>6, StateCases DEF JobState, InFlight, Accepted, Returned
  <2> QED BY <1>1, <1>3, <1>4, <2>1, NoneMoves
<1>7. CASE epc'[j] \in Returned \ {"accepted"}
  <2>1. JobState(j)' = "rejected"
    BY <1>1, <1>2, <1>7 DEF JobState, InFlight, Accepted, Returned
  <2>2. Service!Reject(j)
    BY <1>1, <1>3, <1>4, <2>1, OneMoves DEF Service!Reject, Service!Move, State
  <2> QED BY <2>2 DEF Service!Next
<1>8. CASE epc'[j] = "accepted"
  <2>1. JobState(j)' = "accepted"
    BY <1>1, <1>2, <1>8 DEF JobState, InFlight, Accepted
  <2>2. EnqueueSend(j)
    BY <1>8 DEF TypeOK
  <2>3. ~stopped /\ ~hard /\ \A d \in Stoppers : spc[d] # "returned"
    BY <2>2 DEF IInv, Control
  <2>4. ServiceMode = "open"
    BY <2>3, ModeCases
  <2>5. Service!Accept(j)
    BY <1>1, <1>3, <1>4, <2>1, <2>4, OneMoves DEF Service!Accept, Service!Move, State
  <2> QED BY <2>5 DEF Service!Next
<1> QED BY <1>5, <1>6, <1>7, <1>8

\* A worker lets go of its job: the service finishes or loses it.
LEMMA SettleRefines ==
  ASSUME TypeOK, TypeOK', IInv, NEW w \in Workers, NEW how \in {"done", "failed", "dropped"},
         wpc[w] \in {"run", "send"}, Settle(w, how), how = "dropped" => hard,
         epc' = epc, spc' = spc, hard' = hard, stopped' = stopped
  PROVE  Service!Next
<1>0. held[w] \in Jobs /\ held[w] # NoJob
  BY HoldsJob, JobsAssumption
<1>a. PICK j \in Jobs : j = held[w]
  BY <1>0
<1>1. /\ InFlight(j) /\ ServiceMode # "down" /\ (hard => ServiceMode = "forced")
      /\ outcome' = [outcome EXCEPT ![j] = how]
  BY <1>0, <1>a, NotDown DEF Settle
<1>2. JobState(j) = "accepted"
  BY <1>1, StateCases
<1>3. \A k \in Jobs : k # j => JobState(k)' = JobState(k)
  BY <1>1 DEF TypeOK, JobState, InFlight, Accepted
<1>4. outcome'[j] = how
  BY <1>1 DEF TypeOK
<1>5. JobState(j)' = how
  BY <1>4 DEF JobState
<1>6. ServiceMode' = ServiceMode
  BY SameMode
<1>7. CASE how = "dropped"
  <2>1. Service!Drop(j)
    BY <1>1, <1>2, <1>3, <1>5, <1>6, <1>7, OneMoves DEF Service!Drop, Service!Move, State
  <2> QED BY <2>1 DEF Service!Next
<1>8. CASE how \in {"done", "failed"}
  <2>1. Service!Finish(j)
    BY <1>1, <1>2, <1>3, <1>5, <1>6, <1>8, OneMoves DEF Service!Finish, Service!Move, State
  <2> QED BY <2>1 DEF Service!Next
<1> QED BY <1>7, <1>8

LEMMA WorkerRefines ==
  ASSUME TypeOK, TypeOK', IInv, NEW w \in Workers, WorkerStep(w) \/ StageStep(w)
  PROVE  Service!Next \/ (State' = State /\ ServiceMode' = ServiceMode)
<1>1. CASE Receive(w) \/ ExitClosed(w) \/ ExitHard(w) \/ Forward(w)
  BY <1>1, SameState, SameMode DEF Receive, Pop, ExitClosed, ExitHard, Forward, Out, jobVars
<1>2. CASE Drop(w)
  BY <1>2, SettleRefines DEF Drop, JobBaseDone
<1>3. CASE StageFails(w)
  BY <1>3, SettleRefines DEF StageFails, AfterFailure
<1>4. CASE StageReturns(w) /\ StageOf(w) = Last
  BY <1>4, SettleRefines DEF StageReturns, IsLast
<1>5. CASE StageReturns(w) /\ StageOf(w) # Last
  BY <1>5, SameState, SameMode DEF StageReturns, IsLast
<1> QED BY <1>1, <1>2, <1>3, <1>4, <1>5 DEF WorkerStep, StageStep

LEMMA ShutdownRefines ==
  ASSUME TypeOK, TypeOK', IInv, IInv', NEW d \in Stoppers, ShutdownStep(d)
  PROVE  Service!Next \/ (State' = State /\ ServiceMode' = ServiceMode)
<1> USE DEF ShutdownStep, ShutdownFirst, OnceNew, ShutdownClose, ShutdownAgain, ShutdownDrained,
            ShutdownTimeout, jobVars
<1>1. State' = State
  BY SameState
<1>2. CASE \E e \in Stoppers : spc[e] = "returned"
  <2>1. \E e \in Stoppers : spc'[e] = "returned"
    BY <1>2 DEF TypeOK
  <2> QED BY <1>1, <1>2, <2>1 DEF ServiceMode
<1>3. CASE \A e \in Stoppers : spc[e] # "returned"
  <2>1. ServiceMode = IF hard THEN "forced" ELSE IF stopped THEN "closing" ELSE "open"
    BY <1>3, ModeCases
  <2>2. CASE spc'[d] = "returned"
    <3>1. ServiceMode' = "down"
      BY <2>2 DEF ServiceMode
    <3>2. stopped /\ hard' = hard
      BY <2>2 DEF TypeOK, IInv, Control
    <3>3. \A j \in Jobs : ~hard => ~InFlight(j)
      <4>1. ~started \/ Drained
        BY <2>2 DEF TypeOK, AfterOnce
      <4>2. ~started => \A j \in Jobs : ~InFlight(j)
        BY DEF IInv, Control, InFlight, Accepted
      <4> QED BY <4>1, <4>2, DrainedEmpty
    <3>4. \A j \in Jobs : ~hard => State[j] # "accepted"
      BY <3>3, StateCases DEF State
    <3>5. Service!Down
      BY <1>1, <2>1, <3>1, <3>2, <3>4 DEF Service!Down, State
    <3> QED BY <3>5 DEF Service!Next
  <2>3. CASE spc'[d] # "returned"
    <3>1. \A e \in Stoppers : spc'[e] # "returned"
      BY <1>3, <2>3 DEF TypeOK
    <3>2. ServiceMode' = IF hard' THEN "forced" ELSE IF stopped' THEN "closing" ELSE "open"
      BY <3>1 DEF ServiceMode
    <3>3. CASE ShutdownFirst(d)
      <4>1. ~hard /\ ~hard'
        BY <3>3 DEF IInv, Control
      <4>2. Service!Stop
        BY <1>1, <2>1, <3>2, <3>3, <4>1 DEF Service!Stop, State
      <4> QED BY <4>2 DEF Service!Next
    <3>4. CASE ShutdownTimeout(d)
      <4>1. stopped
        BY <3>4 DEF IInv, Control
      <4>2. hard \/ Service!Force
        BY <1>1, <2>1, <3>2, <3>4, <4>1 DEF Service!Force, State
      <4> QED BY <1>1, <2>1, <3>2, <3>4, <4>2 DEF Service!Next
    <3>5. CASE ~ShutdownFirst(d) /\ ~ShutdownTimeout(d)
      BY <1>1, <2>1, <3>2, <3>5
    <3> QED BY <3>3, <3>4, <3>5
  <2> QED BY <2>2, <2>3
<1> QED BY <1>2, <1>3

\* Every behaviour of the pipeline is one of the job service.
THEOREM Refinement == Spec => ImplementsService
<1>1. Init => Service!Init
  <2> SUFFICES ASSUME Init PROVE Service!Init
    OBVIOUS
  <2>1. \A j \in Jobs : JobState(j) = "new"
    BY DEF Init, JobState, InFlight, Accepted, Returned
  <2>2. ServiceMode = "open"
    BY DEF Init, ServiceMode
  <2> QED BY <2>1, <2>2 DEF Service!Init
<1>2. TypeOK /\ TypeOK' /\ IInv /\ IInv' /\ [Next]_vars => [Service!Next]_Service!vars
  <2> SUFFICES ASSUME TypeOK, TypeOK', IInv, IInv', [Next]_vars
               PROVE  Service!Next \/ (State' = State /\ ServiceMode' = ServiceMode)
    BY DEF Service!vars, State
  <2>1. CASE \E j \in Jobs : EnqueueStep(j)
    BY <2>1, EnqueueRefines
  <2>2. CASE \E w \in Workers : WorkerStep(w) \/ StageStep(w)
    BY <2>2, WorkerRefines
  <2>3. CASE \E d \in Stoppers : ShutdownStep(d)
    BY <2>3, ShutdownRefines
  <2>4. CASE Start \/ UNCHANGED vars \/ \E s \in Stages : CloseStage(s)
    BY <2>4, SameState, SameMode DEF Start, vars, CloseStage, StageDone, jobVars
  <2> QED BY <2>1, <2>2, <2>3, <2>4 DEF Next, Terminated
<1> QED BY <1>1, <1>2, TypeCorrect, Inductive, PTL DEF Spec, ImplementsService, Service!Spec
=============================================================================
