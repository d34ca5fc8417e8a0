--------------------------- MODULE PipelineProofs ---------------------------
(* Theorems about Pipeline for any number of jobs, workers, Shutdown calls   *)
(* and any buffers.                                                          *)
EXTENDS Pipeline, SequenceTheorems, TLAPS

\* Every worker belongs to a stage: the channel it reads exists.
LEMMA WorkerStage == \A w \in Workers : StageOf(w) \in Stages
<1> SUFFICES ASSUME NEW w \in Workers PROVE StageOf(w) \in Stages
  OBVIOUS
<1>1. PICK s \in Stages : w \in {s} \X (1..WorkerCount[s])
  BY DEF Workers
<1>2. w[1] = s
  BY <1>1
<1> QED BY <1>2 DEF StageOf

\* Every stage has a worker: applyDefaults raises every count to one.
LEMMA StageStaffed == \A s \in Stages : \E w \in WorkersOf(s) : TRUE
<1> SUFFICES ASSUME NEW s \in Stages PROVE <<s, 1>> \in WorkersOf(s)
  OBVIOUS
<1>1. WorkerCount[s] \in Int /\ WorkerCount[s] >= 1
  BY OptionsAssumption DEF WorkerCount, AtLeastOne, Stages
<1>2. <<s, 1>> \in {s} \X (1..WorkerCount[s])
  BY <1>1
<1>3. <<s, 1>> \in Workers
  BY <1>2 DEF Workers
<1> QED BY <1>3 DEF WorkersOf, StageOf

\* A worker past its receive holds a job.
LEMMA HoldsJob ==
  ASSUME TypeOK, NEW w \in Workers, wpc[w] \in {"run", "send"}
  PROVE  held[w] \in Jobs
BY DEF TypeOK

LEMMA EnqueueTyped == ASSUME TypeOK, NEW j \in Jobs, EnqueueStep(j) PROVE TypeOK'
<1> USE DEF TypeOK, chanVars, workerVars, jobVars, Returned, Release
<1>1. CASE EnqueueBegin(j)
  BY <1>1 DEF EnqueueBegin
<1>2. CASE EnqueueLock(j)
  BY <1>2 DEF EnqueueLock
<1>3. CASE EnqueueSend(j)
  <2>1. chan' \in [Stages -> Seq(Jobs)]
    BY <1>3, AppendProperties DEF EnqueueSend, Push, Stages
  <2> QED BY <1>3, <2>1 DEF EnqueueSend
<1>4. CASE EnqueueCanceled(j)
  BY <1>4 DEF EnqueueCanceled
<1>5. CASE EnqueueFull(j)
  BY <1>5 DEF EnqueueFull
<1> QED BY <1>1, <1>2, <1>3, <1>4, <1>5 DEF EnqueueStep

LEMMA WorkerTyped == ASSUME TypeOK, NEW w \in Workers, WorkerStep(w) PROVE TypeOK'
<1> USE DEF TypeOK, chanVars, workerVars, jobVars, Returned, Release
<1>0. StageOf(w) \in Stages
  BY WorkerStage
<1>1. CASE Receive(w)
  <2>1. Head(chan[StageOf(w)]) \in Jobs /\ Tail(chan[StageOf(w)]) \in Seq(Jobs)
    BY <1>0, <1>1, HeadTailProperties DEF Receive, Pop
  <2> QED BY <1>0, <1>1, <2>1, JobsAssumption DEF Receive, Pop
<1>2. CASE ExitClosed(w)
  BY <1>2 DEF ExitClosed
<1>3. CASE ExitHard(w)
  BY <1>3 DEF ExitHard
<1>4. CASE Forward(w)
  <2>1. wpc[w] = "send" /\ held[w] \in Jobs
    BY <1>4, HoldsJob DEF Forward, Out
  <2>2. chan' \in [Stages -> Seq(Jobs)]
    <3>1. chan' = [chan EXCEPT ![StageOf(w) + 1] = Append(chan[StageOf(w) + 1], held[w])]
      BY <1>4 DEF Forward, Out, Push
    <3>2. StageOf(w) + 1 \in Stages
      BY <1>0, <2>1 DEF Stages, Last
    <3>3. Append(chan[StageOf(w) + 1], held[w]) \in Seq(Jobs)
      BY <2>1, <3>2, AppendProperties
    <3> QED BY <3>1, <3>2, <3>3
  <2> QED BY <1>4, <2>2 DEF Forward, Out
<1>5. CASE Drop(w)
  BY <1>5 DEF Drop, Settle
<1> QED BY <1>1, <1>2, <1>3, <1>4, <1>5 DEF WorkerStep

LEMMA StageTyped == ASSUME TypeOK, NEW w \in Workers, StageStep(w) PROVE TypeOK'
<1> USE DEF TypeOK, chanVars, workerVars, jobVars, Release
<1>1. CASE StageFails(w)
  BY <1>1 DEF StageFails, AfterFailure, Settle
<1>2. CASE StageReturns(w)
  <2>1. held[w] \in Jobs
    BY <1>2, HoldsJob DEF StageReturns, IsLast
  <2>2. ran' \in [Jobs -> Nat]
    BY <1>2, <2>1 DEF StageReturns, IsLast
  <2> QED BY <1>2, <2>1, <2>2 DEF StageReturns, IsLast, Settle
<1> QED BY <1>1, <1>2 DEF StageStep

LEMMA CloseTyped == ASSUME TypeOK, NEW s \in Stages, CloseStage(s) PROVE TypeOK'
<1>1. closes' \in [Stages -> Nat]
  BY DEF TypeOK, CloseStage, StageDone, Close, Stages, Last
<1> QED BY <1>1 DEF TypeOK, CloseStage, StageDone, jobVars

LEMMA ShutdownTyped == ASSUME TypeOK, NEW d \in Stoppers, ShutdownStep(d) PROVE TypeOK'
<1> USE DEF TypeOK, chanVars, workerVars, jobVars
<1>1. CASE ShutdownFirst(d)
  BY <1>1 DEF ShutdownFirst, OnceNew
<1>2. CASE ShutdownClose(d)
  <2>1. closes' \in [Stages -> Nat]
    BY <1>2 DEF ShutdownClose, Close, Stages
  <2> QED BY <1>2, <2>1 DEF ShutdownClose, AfterOnce
<1>3. CASE ShutdownAgain(d)
  BY <1>3 DEF ShutdownAgain, AfterOnce
<1>4. CASE ShutdownDrained(d)
  BY <1>4 DEF ShutdownDrained
<1>5. CASE ShutdownTimeout(d)
  BY <1>5 DEF ShutdownTimeout
<1> QED BY <1>1, <1>2, <1>3, <1>4, <1>5 DEF ShutdownStep

\* The types of Pipeline's variables, for every step of every actor.
THEOREM TypeCorrect == Spec => []TypeOK
<1>1. Init => TypeOK
  <2> SUFFICES ASSUME Init PROVE TypeOK
    OBVIOUS
  <2>1. chan \in [Stages -> Seq(Jobs)]
    BY EmptySeq DEF Init
  <2>2. closes \in [Stages -> Nat] /\ ran \in [Jobs -> Nat]
    BY DEF Init
  <2>3. held \in [Workers -> Jobs \union {NoJob}]
    BY DEF Init
  <2> QED BY <2>1, <2>2, <2>3 DEF Init, TypeOK
<1>2. TypeOK /\ [Next]_vars => TypeOK'
  <2>1. TypeOK /\ Start => TypeOK'
    BY DEF TypeOK, Start, chanVars, workerVars, jobVars
  <2>2. TypeOK /\ UNCHANGED vars => TypeOK'
    BY DEF TypeOK, vars
  <2> QED BY <2>1, <2>2, EnqueueTyped, WorkerTyped, StageTyped, CloseTyped,
             ShutdownTyped DEF Next, Terminated
<1> QED BY <1>1, <1>2, PTL DEF Spec
-----------------------------------------------------------------------------
\* Control, one lemma per actor.
LEMMA EnqueueControl ==
  ASSUME TypeOK, Control, NEW j \in Jobs, EnqueueStep(j)
  PROVE  Control'
<1> USE DEF TypeOK, Control, chanVars, workerVars, jobVars, IsClosed, Drained, WorkersOf, Stages, Last
<1>1. CASE EnqueueBegin(j)
  BY <1>1 DEF EnqueueBegin
<1>2. CASE EnqueueLock(j)
  BY <1>2 DEF EnqueueLock
<1>3. CASE EnqueueSend(j)
  <2>1. \A w \in Workers : wpc[w] = "exited" /\ ~hard => StageOf(w) # 1
    BY <1>3 DEF EnqueueSend
  <2>2. \A s \in Stages \ {1} : chan'[s] = chan[s]
    BY <1>3 DEF EnqueueSend, Push
  <2> QED BY <1>3, <2>1, <2>2, WorkerStage DEF EnqueueSend
<1>4. CASE EnqueueCanceled(j)
  BY <1>4 DEF EnqueueCanceled
<1>5. CASE EnqueueFull(j)
  BY <1>5 DEF EnqueueFull
<1> QED BY <1>1, <1>2, <1>3, <1>4, <1>5 DEF EnqueueStep

LEMMA WorkerControl ==
  ASSUME TypeOK, Control, NEW w \in Workers, WorkerStep(w)
  PROVE  Control'
<1> USE DEF TypeOK, Control, chanVars, workerVars, jobVars, IsClosed, Drained, WorkersOf
<1>0. StageOf(w) \in Stages
  BY WorkerStage
<1>1. CASE Receive(w)
  BY <1>0, <1>1, WorkerStage DEF Receive, Pop
<1>2. CASE ExitClosed(w)
  BY <1>2 DEF ExitClosed
<1>3. CASE ExitHard(w)
  BY <1>3 DEF ExitHard, JobBaseDone
<1>4. CASE Forward(w)
  <2>1. StageOf(w) \in Stages \ {Last} /\ StageOf(w) \notin closed
    BY <1>0, <1>4 DEF Forward, Out
  <2>2. \A v \in Workers : wpc[v] = "exited" /\ ~hard => StageOf(v) # StageOf(w) + 1
    <3>1. closes[StageOf(w) + 1] = 0
      BY <2>1
    <3> QED BY <3>1
  <2>3. \A s \in Stages : s # StageOf(w) + 1 => chan'[s] = chan[s]
    BY <1>4 DEF Forward, Out, Push
  <2> QED BY <1>0, <1>4, <2>1, <2>2, <2>3, WorkerStage DEF Forward, Out
<1>5. CASE Drop(w)
  BY <1>5 DEF Drop, Settle, JobBaseDone
<1> QED BY <1>1, <1>2, <1>3, <1>4, <1>5 DEF WorkerStep

LEMMA StageControl ==
  ASSUME TypeOK, Control, NEW w \in Workers, StageStep(w)
  PROVE  Control'
<1> USE DEF TypeOK, Control, chanVars, workerVars, jobVars, IsClosed, Drained, WorkersOf
<1>1. CASE StageFails(w)
  BY <1>1 DEF StageFails, AfterFailure, Settle
<1>2. CASE StageReturns(w)
  BY <1>2 DEF StageReturns, IsLast, Settle
<1> QED BY <1>1, <1>2 DEF StageStep

LEMMA CloseControl ==
  ASSUME TypeOK, Control, NEW s \in Stages, CloseStage(s)
  PROVE  Control'
BY WorkerStage DEF TypeOK, Control, CloseStage, StageDone, Close, chanVars, jobVars, IsClosed, Drained,
   WorkersOf, Stages, Last

LEMMA ShutdownControl ==
  ASSUME TypeOK, Control, NEW d \in Stoppers, ShutdownStep(d)
  PROVE  Control'
<1> USE DEF TypeOK, Control, chanVars, workerVars, jobVars, IsClosed, Drained, WorkersOf
<1>1. CASE ShutdownFirst(d)
  BY <1>1 DEF ShutdownFirst, OnceNew, MuFree
<1>2. CASE ShutdownClose(d)
  BY <1>2, WorkerStage DEF ShutdownClose, Close, AfterOnce, Stages, Last
<1>3. CASE ShutdownAgain(d)
  BY <1>3 DEF ShutdownAgain, AfterOnce
<1>4. CASE ShutdownDrained(d)
  BY <1>4 DEF ShutdownDrained
<1>5. CASE ShutdownTimeout(d)
  BY <1>5 DEF ShutdownTimeout
<1> QED BY <1>1, <1>2, <1>3, <1>4, <1>5 DEF ShutdownStep
-----------------------------------------------------------------------------
\* The jobs, one lemma per way a job moves.  JobInv is IInv without Control.
JobInv == Progress /\ NeverShared /\ NeverLost /\ ContextLifetime

\* What the slots of the channels hold is a job.
LEMMA SlotTyped ==
  ASSUME TypeOK, NEW s \in Stages
  PROVE  /\ Len(chan[s]) \in Nat
         /\ \A i \in 1..Len(chan[s]) : chan[s][i] \in Jobs
BY DEF TypeOK

\* The slots after a job has been appended to a channel.
LEMMA Pushed ==
  ASSUME TypeOK, NEW s \in Stages, NEW j \in Jobs, Push(s, j)
  PROVE  /\ \A t \in Stages : \A i \in 1..Len(chan[t]) :
              i \in 1..Len(chan'[t]) /\ chan'[t][i] = chan[t][i]
         /\ Len(chan[s]) + 1 \in 1..Len(chan'[s]) /\ chan'[s][Len(chan[s]) + 1] = j
         /\ \A t \in Stages : \A i \in 1..Len(chan'[t]) :
              i \in 1..Len(chan[t]) \/ (t = s /\ i = Len(chan[s]) + 1)
<1>1. chan[s] \in Seq(Jobs) /\ chan' = [chan EXCEPT ![s] = Append(chan[s], j)]
  BY DEF TypeOK, Push
<1>2. chan'[s] = Append(chan[s], j) /\ \A t \in Stages : t # s => chan'[t] = chan[t]
  BY <1>1 DEF TypeOK
<1>3. /\ Len(chan'[s]) = Len(chan[s]) + 1
      /\ chan'[s][Len(chan[s]) + 1] = j
      /\ \A i \in 1..Len(chan[s]) : chan'[s][i] = chan[s][i]
  BY <1>1, <1>2, AppendProperties
<1>4. Len(chan[s]) \in Nat
  BY SlotTyped
<1>5. ASSUME NEW t \in Stages, t # s
      PROVE  chan'[t] = chan[t]
  BY <1>2, <1>5
<1>6. /\ \A i \in 1..Len(chan[s]) : i \in 1..Len(chan'[s])
      /\ Len(chan[s]) + 1 \in 1..Len(chan'[s])
      /\ \A i \in 1..Len(chan'[s]) : i \in 1..Len(chan[s]) \/ i = Len(chan[s]) + 1
  BY <1>3, <1>4
<1> QED BY <1>3, <1>5, <1>6

LEMMA SendJobs ==
  ASSUME TypeOK, TypeOK', Control, JobInv, NEW j \in Jobs, EnqueueSend(j)
  PROVE  JobInv'
<1> USE DEF JobInv
<1>1. 1 \in Stages /\ Push(1, j)
  BY DEF EnqueueSend, Stages
<1>2. /\ ~InFlight(j) /\ outcome[j] = "none" /\ ctx[j] = "open"
      /\ held' = held /\ outcome' = outcome /\ ran' = ran /\ ctx' = ctx /\ wpc' = wpc
      /\ hard' = hard /\ epc' = [epc EXCEPT ![j] = "accepted"]
  BY DEF TypeOK, EnqueueSend, Progress, Accepted, InFlight, ContextLifetime, jobVars, workerVars
<1>3. ~InChannel(j) /\ ~IsHeld(j)
  BY <1>2 DEF NeverLost
<1>4. \A k \in Jobs : InFlight(k)' <=> (InFlight(k) \/ k = j)
  BY <1>2 DEF TypeOK, InFlight, Accepted
<1>p. /\ \A t \in Stages : \A i \in 1..Len(chan[t]) :
           i \in 1..Len(chan'[t]) /\ chan'[t][i] = chan[t][i]
      /\ Len(chan[1]) + 1 \in 1..Len(chan'[1]) /\ chan'[1][Len(chan[1]) + 1] = j
      /\ \A t \in Stages : \A i \in 1..Len(chan'[t]) :
           i \in 1..Len(chan[t]) \/ (t = 1 /\ i = Len(chan[1]) + 1)
  BY <1>1, Pushed
<1>5. \A s \in Stages : \A i \in 1..Len(chan'[s]) :
         \/ i \in 1..Len(chan[s]) /\ chan'[s][i] = chan[s][i] /\ chan[s][i] \in Jobs \ {j}
         \/ s = 1 /\ i = Len(chan[1]) + 1 /\ chan'[s][i] = j
  BY <1>3, <1>p, SlotTyped DEF InChannel
<1>6. Progress'
  <2>1. \A s \in Stages : \A i \in 1..Len(chan'[s]) :
          (InFlight(chan[s][i]) /\ ran[chan[s][i]] = s - 1)'
    <3>0. ran[j] = 0
      BY <1>2 DEF Progress, InFlight
    <3> TAKE s \in Stages
    <3> TAKE i \in 1..Len(chan'[s])
    <3>1. CASE i \in 1..Len(chan[s]) /\ chan'[s][i] = chan[s][i] /\ chan[s][i] \in Jobs \ {j}
      BY <1>2, <1>4, <3>1 DEF Progress
    <3>2. CASE s = 1 /\ i = Len(chan[1]) + 1 /\ chan'[s][i] = j
      BY <1>2, <1>4, <3>0, <3>2
    <3> QED BY <1>5, <3>1, <3>2
  <2>2. \A w \in Workers : held[w] # NoJob => InFlight(held[w])'
    BY <1>2, <1>4 DEF TypeOK, Progress
  <2> QED BY <1>2, <1>4, <2>1, <2>2 DEF Progress, Accepted
<1>7. NeverShared'
  <2>1. \A s, t \in Stages : \A i \in 1..Len(chan'[s]), k \in 1..Len(chan'[t]) :
          chan'[s][i] = chan'[t][k] => s = t /\ i = k
    BY <1>5 DEF NeverShared
  <2>2. \A w \in Workers : \A s \in Stages : \A i \in 1..Len(chan'[s]) : chan'[s][i] # held[w]
    BY <1>3, <1>5 DEF NeverShared, IsHeld
  <2>3. \A w \in Workers : \A s \in Stages : \A i \in 1..Len(chan'[s]) : chan'[s][i] # held'[w]
    BY <1>2, <2>2
  <2>4. \A v, w \in Workers : held'[v] = held'[w] /\ held'[v] # NoJob => v = w
    BY <1>2 DEF NeverShared
  <2> QED BY <2>1, <2>3, <2>4 DEF NeverShared
<1>9. NeverLost'
  <2>1. \A k \in Jobs : InChannel(k)' <=> (InChannel(k) \/ k = j)
    <3> SUFFICES ASSUME NEW k \in Jobs PROVE InChannel(k)' <=> (InChannel(k) \/ k = j)
      OBVIOUS
    <3>1. InChannel(k)' => InChannel(k) \/ k = j
      BY <1>5 DEF InChannel
    <3>2. InChannel(k) => InChannel(k)'
      BY <1>p DEF InChannel
    <3>3. k = j => InChannel(k)'
      BY <1>1, <1>p DEF InChannel
    <3> QED BY <3>1, <3>2, <3>3
  <2> QED BY <1>2, <1>4, <2>1 DEF NeverLost, IsHeld
<1>8. ContextLifetime'
  BY <1>2, <1>4 DEF ContextLifetime
<1> QED BY <1>6, <1>7, <1>8, <1>9

\* The slots after the head of a channel has been taken.
LEMMA Popped ==
  ASSUME TypeOK, NEW s \in Stages, chan[s] # <<>>, chan' = [chan EXCEPT ![s] = Tail(@)]
  PROVE  /\ 1 \in 1..Len(chan[s]) /\ Head(chan[s]) = chan[s][1]
         /\ \A i \in 1..Len(chan'[s]) :
              i + 1 \in 1..Len(chan[s]) /\ chan'[s][i] = chan[s][i + 1]
         /\ \A i \in 1..Len(chan[s]) :
              i = 1 \/ (i - 1 \in 1..Len(chan'[s]) /\ chan'[s][i - 1] = chan[s][i])
         /\ \A t \in Stages : t # s => chan'[t] = chan[t]
<1>1. chan[s] \in Seq(Jobs) /\ chan'[s] = Tail(chan[s])
  BY DEF TypeOK
<1>2. \A t \in Stages : t # s => chan'[t] = chan[t]
  BY DEF TypeOK
<1>3. /\ Len(chan[s]) \in Nat \ {0} /\ Len(chan'[s]) = Len(chan[s]) - 1
      /\ \A i \in 1..Len(chan'[s]) : chan'[s][i] = chan[s][i + 1]
  <2>1. Len(chan[s]) \in Nat \ {0}
    BY <1>1, EmptySeq, LenProperties
  <2> QED BY <1>1, <2>1, HeadTailProperties
<1>4. Head(chan[s]) = chan[s][1]
  BY <1>1
<1>5. \A i \in 1..Len(chan[s]) : i = 1 \/ i - 1 \in 1..Len(chan'[s])
  BY <1>3
<1>6. \A i \in 1..Len(chan'[s]) : i + 1 \in 1..Len(chan[s])
  BY <1>3
<1>7. ASSUME NEW i \in 1..Len(chan[s]), i # 1
      PROVE  chan'[s][i - 1] = chan[s][i]
  <2>1. i - 1 \in 1..Len(chan'[s]) /\ (i - 1) + 1 = i
    BY <1>5, <1>7
  <2>2. chan'[s][i - 1] = chan[s][(i - 1) + 1]
    BY <1>3, <2>1
  <2> QED BY <2>1, <2>2
<1> QED BY <1>2, <1>3, <1>4, <1>5, <1>6, <1>7

LEMMA ReceiveJobs ==
  ASSUME TypeOK, TypeOK', JobInv, NEW w \in Workers, Receive(w)
  PROVE  JobInv'
<1> USE DEF JobInv
<1> DEFINE s == StageOf(w)
<1>0. s \in Stages
  BY WorkerStage
<1>1. /\ chan[s] # <<>> /\ chan' = [chan EXCEPT ![s] = Tail(@)]
      /\ wpc[w] = "recv"
      /\ held' = [held EXCEPT ![w] = Head(chan[s])] /\ wpc' = [wpc EXCEPT ![w] = "run"]
      /\ outcome' = outcome /\ ran' = ran /\ ctx' = ctx /\ epc' = epc /\ hard' = hard
  BY DEF Receive, Pop, jobVars
<1>a. PICK j \in Jobs : j = chan[s][1]
  BY <1>0, <1>1, Popped, SlotTyped
<1>p. /\ 1 \in 1..Len(chan[s]) /\ chan[s][1] = j /\ Head(chan[s]) = j
      /\ \A i \in 1..Len(chan'[s]) :
           i + 1 \in 1..Len(chan[s]) /\ chan'[s][i] = chan[s][i + 1]
      /\ \A i \in 1..Len(chan[s]) :
           i = 1 \/ (i - 1 \in 1..Len(chan'[s]) /\ chan'[s][i - 1] = chan[s][i])
      /\ \A t \in Stages : t # s => chan'[t] = chan[t]
  BY <1>0, <1>1, <1>a, Popped
<1>2. j \in Jobs /\ InFlight(j) /\ ran[j] = s - 1 /\ held'[w] = j /\ held[w] = NoJob
  BY <1>0, <1>1, <1>p, SlotTyped DEF TypeOK, Progress
<1>3. \A k : InFlight(k)' <=> InFlight(k)
  BY <1>1 DEF InFlight, Accepted
<1>4. \A v \in Workers : v # w => held'[v] = held[v] /\ wpc'[v] = wpc[v] /\ held[v] # j
  BY <1>0, <1>1, <1>p DEF TypeOK, NeverShared
<1>5. \A t \in Stages : \A i \in 1..Len(chan'[t]) :
         chan'[t][i] # j /\ \E k \in 1..Len(chan[t]) : chan'[t][i] = chan[t][k]
  BY <1>0, <1>p DEF NeverShared
<1>6. Progress'
  <2>1. \A t \in Stages : \A i \in 1..Len(chan'[t]) :
          (InFlight(chan[t][i]) /\ ran[chan[t][i]] = t - 1)'
    BY <1>1, <1>3, <1>5 DEF Progress
  <2>2. \A v \in Workers : (held[v] # NoJob => InFlight(held[v]))'
    BY <1>2, <1>3, <1>4 DEF Progress
  <2>3. \A v \in Workers : (held[v] # NoJob =>
          ran[held[v]] = IF wpc[v] = "run" THEN StageOf(v) - 1 ELSE StageOf(v))'
    <3>1. wpc'[w] = "run"
      BY <1>1 DEF TypeOK
    <3> QED BY <1>1, <1>2, <1>4, <3>1 DEF Progress
  <2> QED BY <1>1, <2>1, <2>2, <2>3 DEF Progress, Accepted
<1>7. NeverShared'
  <2>1. \A t, u \in Stages : \A i \in 1..Len(chan'[t]), k \in 1..Len(chan'[u]) :
          chan'[t][i] = chan'[u][k] => t = u /\ i = k
    <3> SUFFICES ASSUME NEW t \in Stages, NEW u \in Stages,
                        NEW i \in 1..Len(chan'[t]), NEW k \in 1..Len(chan'[u]),
                        chan'[t][i] = chan'[u][k]
                 PROVE  t = u /\ i = k
      OBVIOUS
    <3> DEFINE old(v, n) == IF v = s THEN n + 1 ELSE n
    <3>1. /\ old(t, i) \in 1..Len(chan[t]) /\ chan'[t][i] = chan[t][old(t, i)]
          /\ old(u, k) \in 1..Len(chan[u]) /\ chan'[u][k] = chan[u][old(u, k)]
      <4>1. t = s => i + 1 \in 1..Len(chan[t]) /\ chan'[t][i] = chan[t][i + 1]
        BY <1>p
      <4>2. u = s => k + 1 \in 1..Len(chan[u]) /\ chan'[u][k] = chan[u][k + 1]
        BY <1>p
      <4> QED BY <1>p, <4>1, <4>2
    <3> HIDE DEF old
    <3>2. t = u /\ old(t, i) = old(u, k)
      <4>1. chan[t][old(t, i)] = chan[u][old(u, k)]
        BY <3>1
      <4> QED BY <3>1, <4>1 DEF NeverShared
    <3> USE DEF old
    <3>3. t = s => i + 1 = k + 1
      BY <3>2
    <3>4. t # s => i = k
      BY <3>2
    <3> QED BY <3>2, <3>3, <3>4
  <2>2. \A v \in Workers : \A t \in Stages : \A i \in 1..Len(chan'[t]) : chan'[t][i] # held'[v]
    BY <1>2, <1>4, <1>5 DEF NeverShared
  <2>3. \A u, v \in Workers : held'[u] = held'[v] /\ held'[u] # NoJob => u = v
    BY <1>2, <1>4 DEF NeverShared
  <2> QED BY <2>1, <2>2, <2>3 DEF NeverShared
<1>8. NeverLost'
  <2>1. \A k \in Jobs : k # j => (InChannel(k)' <=> InChannel(k))
    <3> SUFFICES ASSUME NEW k \in Jobs, k # j PROVE InChannel(k)' <=> InChannel(k)
      OBVIOUS
    <3>1. InChannel(k)' => InChannel(k)
      BY <1>5 DEF InChannel
    <3>2. ASSUME NEW t \in Stages, NEW i \in 1..Len(chan[t]), chan[t][i] = k
          PROVE  \E n \in 1..Len(chan'[t]) : chan'[t][n] = k
      <4>1. CASE t = s
        BY <1>0, <1>p, <3>2, <4>1
      <4>2. CASE t # s
        BY <1>p, <3>2, <4>2
      <4> QED BY <4>1, <4>2
    <3>3. InChannel(k) => InChannel(k)'
      BY <3>2 DEF InChannel
    <3> QED BY <3>1, <3>3
  <2>2. \A k \in Jobs : k # j => (IsHeld(k)' <=> IsHeld(k))
    BY <1>2, <1>4, JobsAssumption DEF IsHeld
  <2>3. IsHeld(j)'
    BY <1>2 DEF IsHeld
  <2> QED BY <1>2, <1>3, <2>1, <2>2, <2>3 DEF NeverLost
<1>9. ContextLifetime'
  BY <1>1, <1>3 DEF ContextLifetime
<1> QED BY <1>6, <1>7, <1>8, <1>9

LEMMA ForwardJobs ==
  ASSUME TypeOK, TypeOK', JobInv, NEW w \in Workers, Forward(w)
  PROVE  JobInv'
<1> USE DEF JobInv
<1> DEFINE s == StageOf(w) + 1
<1>0. s \in Stages /\ wpc[w] = "send" /\ held[w] \in Jobs
  <2>1. wpc[w] = "send"
    BY DEF Forward, Out
  <2>2. StageOf(w) # Last
    BY <2>1 DEF TypeOK
  <2> QED BY <2>1, <2>2, WorkerStage, HoldsJob DEF Stages, Last
<1>a. PICK j \in Jobs : j = held[w]
  BY <1>0
<1>1. /\ Push(s, j) /\ s = StageOf(w) + 1
      /\ held' = [held EXCEPT ![w] = NoJob] /\ wpc' = [wpc EXCEPT ![w] = "recv"]
      /\ outcome' = outcome /\ ran' = ran /\ ctx' = ctx /\ epc' = epc /\ hard' = hard
  BY <1>a DEF Forward, Out, jobVars
<1> HIDE DEF s
<1>p. /\ \A t \in Stages : \A i \in 1..Len(chan[t]) :
           i \in 1..Len(chan'[t]) /\ chan'[t][i] = chan[t][i]
      /\ Len(chan[s]) + 1 \in 1..Len(chan'[s]) /\ chan'[s][Len(chan[s]) + 1] = j
      /\ \A t \in Stages : \A i \in 1..Len(chan'[t]) :
           i \in 1..Len(chan[t]) \/ (t = s /\ i = Len(chan[s]) + 1)
  BY <1>0, <1>1, Pushed
<1>2. InFlight(j) /\ ran[j] = s - 1 /\ ~InChannel(j) /\ j # NoJob
  BY <1>0, <1>1, <1>a, WorkerStage, JobsAssumption
     DEF Progress, NeverShared, InChannel, Stages
<1>3. \A k : InFlight(k)' <=> InFlight(k)
  BY <1>1 DEF InFlight, Accepted
<1>4. /\ held'[w] = NoJob /\ held[w] = j
      /\ \A v \in Workers : v # w => held'[v] = held[v] /\ wpc'[v] = wpc[v] /\ held[v] # j
  BY <1>1, <1>2, <1>a DEF TypeOK, NeverShared
<1>5. \A t \in Stages : \A i \in 1..Len(chan'[t]) :
         \/ i \in 1..Len(chan[t]) /\ chan'[t][i] = chan[t][i] /\ chan[t][i] \in Jobs \ {j}
         \/ t = s /\ i = Len(chan[s]) + 1 /\ chan'[t][i] = j
  BY <1>2, <1>p, SlotTyped DEF InChannel
<1>6. Progress'
  <2>1. \A t \in Stages : \A i \in 1..Len(chan'[t]) :
          (InFlight(chan[t][i]) /\ ran[chan[t][i]] = t - 1)'
    BY <1>1, <1>2, <1>3, <1>5 DEF Progress
  <2>2. \A v \in Workers : (held[v] # NoJob => InFlight(held[v]))'
    BY <1>3, <1>4 DEF Progress
  <2> QED BY <1>1, <1>4, <2>1, <2>2 DEF Progress, Accepted
<1>7. NeverShared'
  <2>1. \A t, u \in Stages : \A i \in 1..Len(chan'[t]), k \in 1..Len(chan'[u]) :
          chan'[t][i] = chan'[u][k] => t = u /\ i = k
    BY <1>5 DEF NeverShared
  <2>2. \A v \in Workers : \A t \in Stages : \A i \in 1..Len(chan'[t]) : chan'[t][i] # held'[v]
    BY <1>2, <1>4, <1>5, JobsAssumption DEF NeverShared
  <2>3. \A u, v \in Workers : held'[u] = held'[v] /\ held'[u] # NoJob => u = v
    BY <1>4 DEF NeverShared
  <2> QED BY <2>1, <2>2, <2>3 DEF NeverShared
<1>8. NeverLost'
  <2>1. \A k \in Jobs : InChannel(k)' <=> (InChannel(k) \/ k = j)
    <3> SUFFICES ASSUME NEW k \in Jobs PROVE InChannel(k)' <=> (InChannel(k) \/ k = j)
      OBVIOUS
    <3>1. InChannel(k)' => InChannel(k) \/ k = j
      BY <1>5 DEF InChannel
    <3>2. InChannel(k) => InChannel(k)'
      BY <1>p DEF InChannel
    <3>3. k = j => InChannel(k)'
      BY <1>0, <1>p DEF InChannel
    <3> QED BY <3>1, <3>2, <3>3
  <2>2. \A k \in Jobs : k # j => (IsHeld(k)' <=> IsHeld(k))
    BY <1>4, JobsAssumption DEF IsHeld
  <2> QED BY <1>2, <1>3, <2>1, <2>2 DEF NeverLost
<1>9. ContextLifetime'
  BY <1>1, <1>3 DEF ContextLifetime
<1> QED BY <1>6, <1>7, <1>8, <1>9

\* A worker lets go of its job for good: the last stage returned (its job has
\* then run them all), a stage failed, or a hard shutdown made it drop it.
LEMMA SettleJobs ==
  ASSUME TypeOK, TypeOK', JobInv, NEW w \in Workers, NEW how \in {"done", "failed", "dropped"},
         wpc[w] \in {"run", "send"}, Settle(w, how),
         chan' = chan, epc' = epc, hard' = hard,
         \A v \in Workers : v # w => wpc'[v] = wpc[v],
         ran' = IF how = "done" THEN [ran EXCEPT ![held[w]] = @ + 1] ELSE ran,
         how = "done" => StageOf(w) = Last /\ wpc[w] = "run",
         how = "failed" => wpc[w] = "run",
         how = "dropped" => hard
  PROVE  JobInv'
<1> USE DEF JobInv
<1>0. held[w] \in Jobs
  BY HoldsJob
<1>a. PICK j \in Jobs : j = held[w]
  BY <1>0
<1>1. /\ outcome' = [outcome EXCEPT ![j] = how] /\ ctx' = [ctx EXCEPT ![j] = "released"]
      /\ held' = [held EXCEPT ![w] = NoJob]
  BY <1>a DEF Settle, Release
<1>2. /\ InFlight(j) /\ ~InChannel(j) /\ j # NoJob
      /\ wpc[w] = "run" => ran[j] = StageOf(w) - 1
  BY <1>a, JobsAssumption DEF Progress, NeverShared, InChannel
<1>3. \A k \in Jobs : InFlight(k)' <=> (InFlight(k) /\ k # j)
  BY <1>1, <1>2 DEF TypeOK, InFlight, Accepted
<1>4. /\ held'[w] = NoJob /\ held[w] = j
      /\ \A v \in Workers : v # w => held'[v] = held[v] /\ held[v] # j
  BY <1>1, <1>2, <1>a DEF TypeOK, NeverShared
<1>5. \A k \in Jobs : k # j => ran'[k] = ran[k] /\ outcome'[k] = outcome[k] /\ ctx'[k] = ctx[k]
  BY <1>1, <1>a DEF TypeOK
<1>6. Progress'
  <2>1. \A t \in Stages : \A i \in 1..Len(chan[t]) :
          (InFlight(chan[t][i]) /\ ran[chan[t][i]] = t - 1)'
    BY <1>2, <1>3, <1>5, SlotTyped DEF Progress, InChannel
  <2>2. \A v \in Workers : (held[v] # NoJob => InFlight(held[v]))'
    BY <1>3, <1>4 DEF TypeOK, Progress
  <2>3. \A v \in Workers : (held[v] # NoJob =>
          ran[held[v]] = IF wpc[v] = "run" THEN StageOf(v) - 1 ELSE StageOf(v))'
    <3> TAKE v \in Workers
    <3>1. CASE v = w
      BY <1>4, <3>1
    <3>2. CASE v # w /\ held[v] # NoJob
      <4>1. held[v] \in Jobs /\ held[v] # j /\ held'[v] = held[v] /\ wpc'[v] = wpc[v]
        BY <1>4, <3>2 DEF TypeOK
      <4> QED BY <1>5, <3>2, <4>1 DEF Progress
    <3> QED BY <1>4, <3>1, <3>2
  <2>4. Accepted(j) /\ outcome'[j] = how
    BY <1>1, <1>2 DEF TypeOK, InFlight
  <2>5. how = "done" => ran'[j] = Last
    BY <1>2, <1>a DEF TypeOK, Last
  <2>6. how = "failed" => ran'[j] < Last
    BY <1>2, <1>a, WorkerStage DEF Stages, Last
  <2>7. \A k \in Jobs : (/\ ~Accepted(k) => outcome[k] = "none" /\ ran[k] = 0
                         /\ outcome[k] = "dropped" => hard
                         /\ outcome[k] = "done" => ran[k] = Last
                         /\ outcome[k] = "failed" => ran[k] < Last)'
    BY <1>5, <2>4, <2>5, <2>6 DEF Progress, Accepted
  <2> QED BY <2>1, <2>2, <2>3, <2>7 DEF Progress
<1>7. NeverShared'
  BY <1>2, <1>4, SlotTyped, JobsAssumption DEF NeverShared
<1>8. NeverLost'
  <2>1. \A k \in Jobs : k # j => (IsHeld(k)' <=> IsHeld(k))
    BY <1>4, JobsAssumption DEF IsHeld
  <2>2. ~IsHeld(j)'
    BY <1>2, <1>4 DEF IsHeld
  <2>3. \A k \in Jobs : InChannel(k)' <=> InChannel(k)
    BY DEF InChannel
  <2> QED BY <1>2, <1>3, <2>1, <2>2, <2>3 DEF NeverLost
<1>9. ContextLifetime'
  <2>1. ctx'[j] = "released" /\ epc[j] = "accepted"
    BY <1>1, <1>2 DEF TypeOK, InFlight, Accepted
  <2> QED BY <1>3, <1>5, <2>1 DEF ContextLifetime
<1> QED BY <1>6, <1>7, <1>8, <1>9

\* A stage before the last has returned: its job stays with the worker.
LEMMA ReturnsJobs ==
  ASSUME TypeOK, TypeOK', JobInv, NEW w \in Workers, StageReturns(w), StageOf(w) # Last
  PROVE  JobInv'
<1> USE DEF JobInv
<1>0. held[w] \in Jobs
  BY HoldsJob DEF StageReturns, IsLast
<1>a. PICK j \in Jobs : j = held[w]
  BY <1>0
<1>1. /\ wpc[w] = "run" /\ wpc' = [wpc EXCEPT ![w] = "send"]
      /\ ran' = [ran EXCEPT ![j] = @ + 1]
      /\ chan' = chan /\ held' = held /\ ctx' = ctx /\ outcome' = outcome
      /\ epc' = epc /\ hard' = hard
  BY <1>a DEF StageReturns, IsLast, chanVars
<1>2. InFlight(j) /\ ~InChannel(j) /\ ran[j] = StageOf(w) - 1 /\ j # NoJob
  BY <1>1, <1>a, JobsAssumption DEF Progress, NeverShared, InChannel
<1>3. \A k : InFlight(k)' <=> InFlight(k)
  BY <1>1 DEF InFlight, Accepted
<1>4. \A v \in Workers : v # w => wpc'[v] = wpc[v] /\ held[v] # j
  BY <1>1, <1>2, <1>a DEF TypeOK, NeverShared
<1>5. \A k \in Jobs : k # j => ran'[k] = ran[k]
  BY <1>1 DEF TypeOK
<1>6. Progress'
  <2>1. \A t \in Stages : \A i \in 1..Len(chan[t]) :
          (InFlight(chan[t][i]) /\ ran[chan[t][i]] = t - 1)'
    BY <1>1, <1>2, <1>3, <1>5, SlotTyped DEF Progress, InChannel
  <2>2. \A v \in Workers : (held[v] # NoJob => InFlight(held[v]))'
    BY <1>1, <1>3 DEF Progress
  <2>3. \A v \in Workers : (held[v] # NoJob =>
          ran[held[v]] = IF wpc[v] = "run" THEN StageOf(v) - 1 ELSE StageOf(v))'
    <3> TAKE v \in Workers
    <3>1. CASE v = w
      <4>1. StageOf(w) \in Int
        BY WorkerStage DEF Stages
      <4>2. ran'[j] = ran[j] + 1 /\ wpc'[w] = "send" /\ held'[w] = j
        BY <1>1, <1>a DEF TypeOK
      <4> QED BY <1>2, <3>1, <4>1, <4>2
    <3>2. CASE v # w
      BY <1>1, <1>4, <1>5, <3>2 DEF TypeOK, Progress
    <3> QED BY <3>1, <3>2
  <2>4. outcome[j] = "none"
    BY <1>2 DEF InFlight
  <2> QED BY <1>1, <1>2, <1>5, <2>1, <2>2, <2>3, <2>4 DEF Progress, Accepted, InFlight
<1>7. NeverShared' /\ NeverLost' /\ ContextLifetime'
  BY <1>1, <1>3 DEF NeverShared, NeverLost, InChannel, IsHeld, ContextLifetime
<1> QED BY <1>6, <1>7

\* The steps that move no job: they may change ctx only together with epc.
LEMMA QuietJobs ==
  ASSUME TypeOK, TypeOK', JobInv,
         chan' = chan, held' = held, ran' = ran, outcome' = outcome, hard => hard',
         \A w \in Workers : held[w] # NoJob => wpc'[w] = wpc[w],
         \A j \in Jobs : Accepted(j)' <=> Accepted(j),
         ContextLifetime'
  PROVE  JobInv'
<1>1. \A j \in Jobs : InFlight(j)' <=> InFlight(j)
  BY DEF InFlight
<1>2. Progress'
  <2>1. \A t \in Stages : \A i \in 1..Len(chan[t]) :
          (InFlight(chan[t][i]) /\ ran[chan[t][i]] = t - 1)'
    BY <1>1, SlotTyped DEF JobInv, Progress
  <2>2. \A v \in Workers : (held[v] # NoJob =>
          /\ InFlight(held[v])
          /\ ran[held[v]] = IF wpc[v] = "run" THEN StageOf(v) - 1 ELSE StageOf(v))'
    BY <1>1 DEF TypeOK, JobInv, Progress
  <2> QED BY <2>1, <2>2 DEF JobInv, Progress
<1> QED BY <1>1, <1>2 DEF JobInv, NeverShared, NeverLost, InChannel, IsHeld

LEMMA EnqueueJobs ==
  ASSUME TypeOK, TypeOK', Control, JobInv, NEW j \in Jobs, EnqueueStep(j)
  PROVE  JobInv'
<1>1. CASE EnqueueSend(j)
  BY <1>1, SendJobs
<1>2. CASE ~EnqueueSend(j)
  <2> USE DEF EnqueueStep, EnqueueBegin, EnqueueLock, EnqueueCanceled, EnqueueFull,
              chanVars, workerVars, Release
  <2>1. chan' = chan /\ held' = held /\ ran' = ran /\ outcome' = outcome /\ hard' = hard /\ wpc' = wpc
    BY <1>2
  <2>2. \A k \in Jobs : /\ Accepted(k)' <=> Accepted(k)
                        /\ InFlight(k)' <=> InFlight(k)
    BY <1>2, <2>1 DEF TypeOK, Accepted, InFlight
  <2>3. ContextLifetime'
    BY <1>2, <2>2 DEF TypeOK, JobInv, ContextLifetime, Accepted, InFlight
  <2> QED BY <2>1, <2>2, <2>3, QuietJobs
<1> QED BY <1>1, <1>2

LEMMA WorkerJobs ==
  ASSUME TypeOK, TypeOK', Control, JobInv, NEW w \in Workers, WorkerStep(w) \/ StageStep(w)
  PROVE  JobInv'
<1>1. CASE Receive(w)
  BY <1>1, ReceiveJobs
<1>2. CASE ExitClosed(w) \/ ExitHard(w)
  <2>1. /\ chan' = chan /\ held' = held /\ ran' = ran /\ outcome' = outcome /\ hard' = hard
        /\ epc' = epc /\ ctx' = ctx /\ wpc[w] = "recv" /\ wpc' = [wpc EXCEPT ![w] = "exited"]
    BY <1>2 DEF ExitClosed, ExitHard, chanVars, jobVars
  <2>2. \A v \in Workers : held[v] # NoJob => wpc'[v] = wpc[v]
    BY <2>1 DEF TypeOK
  <2>3. ContextLifetime' /\ \A k \in Jobs : Accepted(k)' <=> Accepted(k)
    BY <2>1 DEF JobInv, ContextLifetime, InFlight, Accepted
  <2> QED BY <2>1, <2>2, <2>3, QuietJobs
<1>3. CASE Forward(w)
  BY <1>3, ForwardJobs
<1>4. CASE Drop(w)
  <2>1. \A v \in Workers : v # w => wpc'[v] = wpc[v]
    BY <1>4 DEF TypeOK, Drop
  <2> QED BY <1>4, <2>1, SettleJobs DEF Drop, JobBaseDone, chanVars
<1>5. CASE StageFails(w)
  <2>1. \A v \in Workers : v # w => wpc'[v] = wpc[v]
    BY <1>5 DEF TypeOK, StageFails, AfterFailure
  <2> QED BY <1>5, <2>1, SettleJobs DEF StageFails, AfterFailure, chanVars
<1>6. CASE StageReturns(w) /\ StageOf(w) = Last
  <2>1. \A v \in Workers : v # w => wpc'[v] = wpc[v]
    BY <1>6 DEF TypeOK, StageReturns, IsLast
  <2> QED BY <1>6, <2>1, SettleJobs DEF StageReturns, IsLast, chanVars
<1>7. CASE StageReturns(w) /\ StageOf(w) # Last
  BY <1>7, ReturnsJobs
<1> QED BY <1>1, <1>2, <1>3, <1>4, <1>5, <1>6, <1>7 DEF WorkerStep, StageStep

LEMMA OtherJobs ==
  ASSUME TypeOK, TypeOK', JobInv,
         \/ Start \/ UNCHANGED vars
         \/ \E s \in Stages : CloseStage(s)
         \/ \E d \in Stoppers : ShutdownStep(d)
  PROVE  JobInv'
<1>1. /\ chan' = chan /\ held' = held /\ wpc' = wpc /\ ran' = ran /\ outcome' = outcome
      /\ epc' = epc /\ ctx' = ctx /\ (hard => hard')
  BY DEF Start, vars, CloseStage, StageDone, ShutdownStep, ShutdownFirst, OnceNew, ShutdownClose, ShutdownAgain,
         ShutdownDrained, ShutdownTimeout, chanVars, workerVars, jobVars
<1>2. ContextLifetime' /\ \A k \in Jobs : Accepted(k)' <=> Accepted(k)
  BY <1>1 DEF JobInv, ContextLifetime, InFlight, Accepted
<1> QED BY <1>1, <1>2, QuietJobs

\* IInv holds in every state of every instance.
THEOREM Inductive == Spec => []IInv
<1>1. Init => IInv
  <2> SUFFICES ASSUME Init PROVE IInv
    OBVIOUS
  <2>1. \A s \in Stages : chan[s] = <<>> /\ 1..Len(chan[s]) = {}
    BY DEF Init
  <2>2. Control
    <3>1. IsClosed(1) = FALSE /\ \A w \in Workers : wpc[w] # "exited"
      BY DEF Init, IsClosed, Stages
    <3>2. \A s \in Stages \ {Last} : closes[s + 1] = 0
      BY DEF Init, Stages, Last
    <3>3. closes[1] = 0 /\ closed = {}
      BY DEF Init, Stages
    <3> QED BY <3>1, <3>2, <3>3 DEF Init, Control
  <2>3. /\ \A w \in Workers : held[w] = NoJob
        /\ \A j \in Jobs : /\ epc[j] = "idle" /\ ctx[j] = "none"
                           /\ ran[j] = 0 /\ outcome[j] = "none"
    BY DEF Init
  <2>4. Progress
    BY <2>1, <2>3 DEF Progress, Accepted
  <2>5. NeverShared
    <3>1. \A s \in Stages : \A i \in 1..Len(chan[s]) : FALSE
      BY <2>1
    <3> QED BY <2>3, <3>1 DEF NeverShared
  <2>6. NeverLost /\ ContextLifetime
    BY <2>1, <2>3, JobsAssumption DEF NeverLost, ContextLifetime, InFlight, Accepted, InChannel, IsHeld
  <2> QED BY <2>2, <2>4, <2>5, <2>6 DEF IInv
<1>2. TypeOK /\ TypeOK' /\ IInv /\ [Next]_vars => IInv'
  <2> SUFFICES ASSUME TypeOK, TypeOK', Control, JobInv, [Next]_vars PROVE Control' /\ JobInv'
    BY DEF IInv, JobInv
  <2>1. CASE \E j \in Jobs : EnqueueStep(j)
    BY <2>1, EnqueueControl, EnqueueJobs
  <2>2. CASE \E w \in Workers : WorkerStep(w) \/ StageStep(w)
    BY <2>2, WorkerControl, StageControl, WorkerJobs
  <2>3. CASE \E s \in Stages : CloseStage(s)
    BY <2>3, CloseControl, OtherJobs
  <2>4. CASE \E d \in Stoppers : ShutdownStep(d)
    BY <2>4, ShutdownControl, OtherJobs
  <2>5. CASE Start
    <3>1. Control'
      BY <2>5 DEF Start, Control, chanVars, workerVars, IsClosed, Drained
    <3> QED BY <2>5, <3>1, OtherJobs
  <2>6. CASE UNCHANGED vars
    <3>1. Control'
      BY <2>6 DEF vars, Control, IsClosed, Drained
    <3> QED BY <2>6, <3>1, OtherJobs
  <2> QED BY <2>1, <2>2, <2>3, <2>4, <2>5, <2>6 DEF Next, Terminated
<1> QED BY <1>1, <1>2, TypeCorrect, PTL DEF Spec
-----------------------------------------------------------------------------
\* A stage whose closer is through leaves, in a graceful shutdown, a channel
\* that is closed and empty behind it.
LEMMA ClosedStage ==
  ASSUME TypeOK, IInv, ~hard, NEW s \in closed
  PROVE  /\ IsClosed(s) /\ chan[s] = <<>>
         /\ \A w \in Workers : StageOf(w) = s => held[w] = NoJob
<1>1. s \in Stages
  BY DEF TypeOK
<1>2. \A w \in WorkersOf(s) : wpc[w] = "exited"
  BY DEF IInv, Control
<1>3. PICK w \in WorkersOf(s) : TRUE
  BY <1>1, StageStaffed
<1>4. IsClosed(s) /\ chan[s] = <<>>
  BY <1>2, <1>3 DEF IInv, Control, WorkersOf
<1>5. \A v \in Workers : StageOf(v) = s => held[v] = NoJob
  BY <1>2 DEF TypeOK, WorkersOf
<1> QED BY <1>4, <1>5

\* An open end of the cascade: s2 or s3 is closed by the stage before it.
LEMMA ClosedBefore ==
  ASSUME TypeOK, IInv, NEW s \in Stages, s # 1, IsClosed(s)
  PROVE  s - 1 \in closed
<1>1. s - 1 \in Stages \ {Last} /\ (s - 1) + 1 = s
  BY DEF Stages, Last
<1> QED BY <1>1 DEF IInv, Control, IsClosed

LEMMA Cascade == ASSUME TypeOK, IInv PROVE CloseCascade
<1> SUFFICES ASSUME NEW s \in Stages, IsClosed(s), ~hard,
                    NEW t \in Stages, t < s
             PROVE  t \in closed
  BY ClosedStage, WorkerStage DEF CloseCascade, Stages
<1>1. s # 1 /\ s - 1 \in closed
  BY ClosedBefore DEF Stages
<1>2. CASE t = s - 1
  BY <1>1, <1>2
<1>3. CASE t # s - 1
  <2>1. t = s - 2 /\ s - 1 # 1 /\ s - 1 \in Stages
    BY <1>3 DEF Stages
  <2>2. IsClosed(s - 1)
    BY <1>1, ClosedStage
  <2>3. (s - 1) - 1 \in closed
    BY <2>1, <2>2, ClosedBefore
  <2> QED BY <2>1, <2>3 DEF Stages
<1> QED BY <1>2, <1>3

\* No job is left in a pipeline that has drained without being forced.
LEMMA DrainedEmpty ==
  ASSUME TypeOK, IInv, ~hard, Drained, NEW j \in Jobs
  PROVE  ~InFlight(j)
<1>1. \A s \in Stages : chan[s] = <<>>
  BY ClosedStage DEF Drained
<1>2. \A w \in Workers : held[w] = NoJob
  BY ClosedStage, WorkerStage DEF Drained
<1>3. ~InChannel(j)
  BY <1>1 DEF InChannel
<1> QED BY <1>2, <1>3, JobsAssumption DEF IInv, NeverLost, IsHeld

LEMMA Graceful == ASSUME TypeOK, IInv PROVE GracefulDrain
<1> SUFFICES ASSUME NEW d \in Stoppers, spc[d] = "returned", ~hard,
                    NEW j \in Jobs, Accepted(j)
             PROVE  outcome[j] \in {"done", "failed"}
  BY DEF GracefulDrain
<1>1. started
  BY DEF IInv, Control, Accepted
<1>2. Drained
  BY <1>1 DEF IInv, Control
<1>3. outcome[j] # "none"
  BY <1>2, DrainedEmpty DEF InFlight
<1>4. outcome[j] # "dropped"
  BY DEF IInv, Progress
<1> QED BY <1>3, <1>4 DEF TypeOK

LEMMA Quiet == ASSUME TypeOK, IInv PROVE QuietAfterShutdown
<1> SUFFICES ASSUME NEW d \in Stoppers, spc[d] = "returned", started, NEW w \in Workers
             PROVE  wpc[w] = "exited" /\ held[w] = NoJob
  BY DEF QuietAfterShutdown
<1>1. StageOf(w) \in closed
  BY WorkerStage DEF IInv, Control, Drained
<1>2. wpc[w] = "exited"
  BY <1>1 DEF IInv, Control, WorkersOf
<1> QED BY <1>2 DEF TypeOK

\* A job is never in two hands, and no accepted job vanishes before its outcome.
THEOREM OneOwner == Spec => []OnePlace
<1>1. IInv => OnePlace
  BY DEF IInv, OnePlace
<1> QED BY <1>1, Inductive, PTL

\* Every stage function runs once per job, in the order of the stages.
THEOREM StagesInOrder == Spec => []StageOrder
<1>1. TypeOK /\ IInv => StageOrder
  BY DEF TypeOK, IInv, Progress, StageOrder
<1> QED BY <1>1, Inductive, TypeCorrect, PTL

\* Job contexts are open exactly while the pipeline needs them.
THEOREM ContextsReleased == Spec => []ContextLifetime
<1>1. IInv => ContextLifetime
  BY DEF IInv
<1> QED BY <1>1, Inductive, PTL

\* No double close, and the meaning of a close in a graceful shutdown.
THEOREM Closing == Spec => [](ClosedOnce /\ CloseCascade)
<1>1. TypeOK /\ IInv => ClosedOnce
  <2> SUFFICES ASSUME IInv, NEW s \in Stages PROVE closes[s] <= 1
    BY DEF ClosedOnce
  <2>1. CASE s = 1
    BY <2>1 DEF IInv, Control
  <2>2. CASE s # 1
    <3>1. s - 1 \in Stages \ {Last} /\ (s - 1) + 1 = s
      BY <2>2 DEF Stages, Last
    <3> QED BY <3>1 DEF IInv, Control
  <2> QED BY <2>1, <2>2
<1> QED BY <1>1, Cascade, Inductive, TypeCorrect, PTL

\* What main and the tests rely on when Shutdown has returned.
THEOREM ShutdownPromises == Spec => []ShutdownKeeps
<1>1. TypeOK /\ IInv => ShutdownKeeps
  BY Graceful, Quiet DEF ShutdownKeeps
<1> QED BY <1>1, Inductive, TypeCorrect, PTL

\* No actor ever sends on a closed channel.
THEOREM SendsAreSafe == Spec => NoSendOnClosed
<1> DEFINE Safe == \A s \in Stages : Len(chan'[s]) > Len(chan[s]) => ~IsClosed(s)
<1>1. TypeOK /\ IInv /\ [Next]_vars => [Safe]_vars
  <2> SUFFICES ASSUME TypeOK, IInv, Next PROVE Safe
    OBVIOUS
  <2>1. CASE chan' = chan
    BY <2>1, SlotTyped
  <2>2. ASSUME NEW j \in Jobs, EnqueueSend(j) PROVE Safe
    <3>1. ~IsClosed(1)
      BY <2>2 DEF EnqueueSend, IInv, Control, IsClosed
    <3>2. \A s \in Stages : s # 1 => chan'[s] = chan[s]
      BY <2>2 DEF TypeOK, EnqueueSend, Push
    <3> QED BY <3>1, <3>2, SlotTyped
  <2>3. ASSUME NEW w \in Workers, Receive(w) PROVE Safe
    <3>1. /\ StageOf(w) \in Stages /\ chan[StageOf(w)] # <<>>
          /\ chan' = [chan EXCEPT ![StageOf(w)] = Tail(@)]
      BY <2>3, WorkerStage DEF Receive, Pop
    <3>2. Len(chan'[StageOf(w)]) = Len(chan[StageOf(w)]) - 1
      BY <3>1, HeadTailProperties DEF TypeOK
    <3>3. \A s \in Stages : s # StageOf(w) => chan'[s] = chan[s]
      BY <3>1 DEF TypeOK
    <3> QED BY <3>1, <3>2, <3>3, SlotTyped
  <2>4. ASSUME NEW w \in Workers, Forward(w) PROVE Safe
    <3>1. wpc[w] = "send" /\ Push(StageOf(w) + 1, held[w])
      BY <2>4 DEF Forward, Out
    <3>2. StageOf(w) \in Stages \ {Last} /\ StageOf(w) \notin closed
      BY <3>1, WorkerStage DEF TypeOK, IInv, Control, WorkersOf
    <3>3. ~IsClosed(StageOf(w) + 1)
      BY <3>2 DEF IInv, Control, IsClosed
    <3>4. \A s \in Stages : s # StageOf(w) + 1 => chan'[s] = chan[s]
      BY <3>1 DEF TypeOK, Push
    <3> QED BY <3>3, <3>4, SlotTyped
  <2>5. \/ chan' = chan
        \/ \E j \in Jobs : EnqueueSend(j)
        \/ \E w \in Workers : Receive(w) \/ Forward(w)
    BY DEF Next, Start, EnqueueStep, EnqueueBegin, EnqueueLock, EnqueueCanceled, EnqueueFull,
           WorkerStep, ExitClosed, ExitHard, Drop, StageStep, StageFails, AfterFailure, StageReturns, IsLast,
           CloseStage, StageDone, ShutdownStep, ShutdownFirst, OnceNew, ShutdownClose, ShutdownAgain,
           ShutdownDrained, ShutdownTimeout, Terminated, vars, chanVars
  <2> QED BY <2>1, <2>2, <2>3, <2>4, <2>5
<1> QED BY <1>1, Inductive, TypeCorrect, PTL DEF Spec, NoSendOnClosed
=============================================================================
