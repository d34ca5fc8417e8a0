------------------------------ MODULE Pipeline ------------------------------
(***************************************************************************)
(* The three-stage worker pipeline of internal/worker/pool.go.             *)
(*                                                                         *)
(* Goroutines are actors with a program counter: one per call of Enqueue   *)
(* (the HTTP handler of one upload, named after its job), the workers of   *)
(* each stage (runStage), one closer per stage (startStage) and the calls  *)
(* of Shutdown.  A channel is a bounded sequence with a count of the       *)
(* close() calls made on it.  What a stage function computes is left to    *)
(* the caller of the package: here it returns nil or an error at any time. *)
(***************************************************************************)
EXTENDS Integers, Sequences, FiniteSets

CONSTANTS Jobs,         \* uploads; a job is the argument of one Enqueue call
          NoJob,        \* what an idle worker holds
          Stoppers,     \* calls of Shutdown
          PrepN, OCRN, JevN,                  \* requested workers per stage
          IngestBuffer, OCRBuffer, JevBuffer  \* requested channel capacities

ASSUME JobsAssumption    == NoJob \notin Jobs
ASSUME OptionsAssumption == /\ PrepN \in Int /\ OCRN \in Int /\ JevN \in Int
                            /\ IngestBuffer \in Int
                            /\ OCRBuffer \in Int
                            /\ JevBuffer \in Int
-----------------------------------------------------------------------------
\* applyDefaults: counts and buffers are at least one, whatever was asked.
AtLeastOne(n) == IF n < 1 THEN 1 ELSE n

\* The stages in order; channel s is the one stage s receives from:
\* 1 is ingest, 2 is s2, 3 is s3.
Stages == 1..3
Last   == 3

\* Seeded fault: Start wires the first stage to s3, around the second.
FaultOut(s) == IF s = 1 THEN 3 ELSE s + 1

\* Start: stage s writes to the channel that stage s + 1 reads.
Out(s) == s + 1

WorkerCount == <<AtLeastOne(PrepN), AtLeastOne(OCRN), AtLeastOne(JevN)>>
Capacity    == <<AtLeastOne(IngestBuffer), AtLeastOne(OCRBuffer),
                 AtLeastOne(JevBuffer)>>

\* A worker is its stage and its number in the stage.
Workers    == UNION {{s} \X (1..WorkerCount[s]) : s \in Stages}
StageOf(w) == w[1]
WorkersOf(s) == {w \in Workers : StageOf(w) = s}

\* Seeded fault: runStage does not ask whether out is nil.
FaultIsLast(w) == FALSE
IsLast(w)  == StageOf(w) = Last   \* out == nil

VARIABLES
  started,   \* Pipeline.started
  stopped,   \* Pipeline.stopped
  hard,      \* jobBase is cancelled
  chan,      \* the jobs in each channel
  closes,    \* how often each channel was closed
  wpc,       \* worker: "recv", "run", "send", "exited"
  held,      \* the job a worker has received and not yet passed on
  closed,    \* the stages whose closer goroutine has finished
  epc,       \* Enqueue call: where it stands, or what it returned
  ctx,       \* job context: "none", "open", "released" (cancel was called)
  ran,       \* how many stage functions have returned nil for the job
  outcome,   \* "none", "done", "failed", "dropped" at the last select
  spc        \* Shutdown call: "idle", "closing", "drain", "forced", "returned"

chanVars   == <<chan, closes>>
workerVars == <<wpc, held, closed>>
jobVars    == <<ctx, ran, outcome>>
vars == <<started, stopped, hard, chan, closes, wpc, held, closed,
          epc, ctx, ran, outcome, spc>>

Returned == {"accepted", "full", "stopped", "canceled"}

TypeOK ==
  /\ started \in BOOLEAN /\ stopped \in BOOLEAN /\ hard \in BOOLEAN
  /\ chan \in [Stages -> Seq(Jobs)]
  /\ closes \in [Stages -> Nat]
  /\ wpc \in [Workers -> {"recv", "run", "send", "exited"}]
  /\ held \in [Workers -> Jobs \union {NoJob}]
  /\ closed \in SUBSET Stages
  /\ epc \in [Jobs -> {"idle", "lock", "send"} \union Returned]
  /\ ctx \in [Jobs -> {"none", "open", "released"}]
  /\ ran \in [Jobs -> Nat]
  /\ outcome \in [Jobs -> {"none", "done", "failed", "dropped"}]
  /\ spc \in [Stoppers -> {"idle", "closing", "drain", "forced", "returned"}]
  /\ \A w \in Workers : /\ held[w] = NoJob <=> wpc[w] \in {"recv", "exited"}
                        /\ wpc[w] = "send" => StageOf(w) # Last

Init ==
  /\ started = FALSE /\ stopped = FALSE /\ hard = FALSE
  /\ chan = [s \in Stages |-> <<>>]
  /\ closes = [s \in Stages |-> 0]
  /\ wpc = [w \in Workers |-> "recv"]
  /\ held = [w \in Workers |-> NoJob]
  /\ closed = {}
  /\ epc = [j \in Jobs |-> "idle"]
  /\ ctx = [j \in Jobs |-> "none"]
  /\ ran = [j \in Jobs |-> 0]
  /\ outcome = [j \in Jobs |-> "none"]
  /\ spc = [d \in Stoppers |-> "idle"]

-----------------------------------------------------------------------------
\* Seeded faults.  Each is the form a definition below would take under a
\* plausible bug; the properties are known to be violated under them.
FaultPop(s)        == UNCHANGED chan                      \* peeks instead
FaultRelease(j)    == UNCHANGED ctx                       \* cancel() forgotten
FaultBaseStop      == hard \/ stopped                     \* jobBase ends with the server
FaultBaseNever     == FALSE                               \* jobCancel() forgotten
FaultMuFree        == TRUE                                \* no lock
FaultAfterFailure  == "exited"                            \* return for continue
FaultStageDone(s)  == \E w \in WorkersOf(s) : wpc[w] = "exited"  \* first worker closes
FaultDrained       == Last \in closed                     \* waits for one stage
-----------------------------------------------------------------------------
IsClosed(s) == closes[s] > 0
HasRoom(s)  == Len(chan[s]) < Capacity[s]
Push(s, j)  == chan' = [chan EXCEPT ![s] = Append(@, j)]
Pop(s)      == chan' = [chan EXCEPT ![s] = Tail(@)]
Close(s)    == closes' = [closes EXCEPT ![s] = @ + 1]
Release(j)  == ctx' = [ctx EXCEPT ![j] = "released"]

\* jobBase.Done(): jobBase comes from context.WithoutCancel, so it is only
\* jobCancel that ends it.
JobBaseDone == hard

\* Pipeline.mu: held by the Enqueue call at its select and by the Shutdown
\* call between setting stopped and the end of close(ingest).
MuFree == /\ \A j \in Jobs : epc[j] # "send"
          /\ \A d \in Stoppers : spc[d] # "closing"
-----------------------------------------------------------------------------
\* main calls Start once, before it serves a request or may shut down.
Start ==
  /\ ~started /\ ~stopped
  /\ started' = TRUE
  /\ UNCHANGED <<stopped, hard, chanVars, workerVars, epc, jobVars, spc>>

\* Enqueue up to p.mu.Lock(): the job context is created before the lock.  The
\* caller's own context (its client may hang up) can be done at any time, so
\* the two places that look at it may find it done.
EnqueueBegin(j) ==
  /\ epc[j] = "idle"
  /\ \/ /\ epc' = [epc EXCEPT ![j] = "canceled"]
        /\ UNCHANGED ctx
     \/ /\ ~started
        /\ epc' = [epc EXCEPT ![j] = "stopped"]
        /\ UNCHANGED ctx
     \/ /\ started
        /\ epc' = [epc EXCEPT ![j] = "lock"]
        /\ ctx' = [ctx EXCEPT ![j] = "open"]
  /\ UNCHANGED <<started, stopped, hard, chanVars, workerVars, ran, outcome, spc>>

EnqueueLock(j) ==
  /\ epc[j] = "lock" /\ MuFree
  /\ \/ /\ stopped
        /\ epc' = [epc EXCEPT ![j] = "stopped"]
        /\ Release(j)
     \/ /\ ~stopped
        /\ epc' = [epc EXCEPT ![j] = "send"]
        /\ UNCHANGED ctx
  /\ UNCHANGED <<started, stopped, hard, chanVars, workerVars, ran, outcome, spc>>

\* The select of Enqueue, one action per case; default needs that no other
\* case is ready.
EnqueueSend(j) ==
  /\ epc[j] = "send" /\ HasRoom(1)
  /\ Push(1, j)
  /\ epc' = [epc EXCEPT ![j] = "accepted"]
  /\ UNCHANGED <<started, stopped, hard, closes, workerVars, jobVars, spc>>

EnqueueCanceled(j) ==
  /\ epc[j] = "send"
  /\ epc' = [epc EXCEPT ![j] = "canceled"]
  /\ Release(j)
  /\ UNCHANGED <<started, stopped, hard, chanVars, workerVars, ran, outcome, spc>>

EnqueueFull(j) ==
  /\ epc[j] = "send" /\ ~HasRoom(1)
  /\ epc' = [epc EXCEPT ![j] = "full"]
  /\ Release(j)
  /\ UNCHANGED <<started, stopped, hard, chanVars, workerVars, ran, outcome, spc>>
-----------------------------------------------------------------------------
\* runStage: the first select (receive, closed channel, hard shutdown) ...
Receive(w) ==
  LET s == StageOf(w) IN
  /\ started /\ wpc[w] = "recv" /\ chan[s] # <<>>
  /\ held' = [held EXCEPT ![w] = Head(chan[s])]
  /\ Pop(s)
  /\ wpc' = [wpc EXCEPT ![w] = "run"]
  /\ UNCHANGED <<started, stopped, hard, closes, closed, epc, jobVars, spc>>

ExitClosed(w) ==
  /\ started /\ wpc[w] = "recv"
  /\ chan[StageOf(w)] = <<>> /\ IsClosed(StageOf(w))
  /\ wpc' = [wpc EXCEPT ![w] = "exited"]
  /\ UNCHANGED <<started, stopped, hard, chanVars, held, closed, epc, jobVars, spc>>

ExitHard(w) ==
  /\ started /\ wpc[w] = "recv" /\ JobBaseDone
  /\ wpc' = [wpc EXCEPT ![w] = "exited"]
  /\ UNCHANGED <<started, stopped, hard, chanVars, held, closed, epc, jobVars, spc>>

\* A worker is done with its job: it lets go of it and calls j.cancel().
Settle(w, how) ==
  /\ outcome' = [outcome EXCEPT ![held[w]] = how]
  /\ Release(held[w])
  /\ held' = [held EXCEPT ![w] = NoJob]

\* ... fn returns an error: the worker continues with its loop ...
AfterFailure == "recv"

StageFails(w) ==
  /\ wpc[w] = "run"
  /\ Settle(w, "failed")
  /\ wpc' = [wpc EXCEPT ![w] = AfterFailure]
  /\ UNCHANGED <<started, stopped, hard, chanVars, closed, epc, ran, spc>>

\* ... or nil: the last stage ends the job, the others go to the send ...
StageReturns(w) ==
  /\ wpc[w] = "run"
  /\ ran' = [ran EXCEPT ![held[w]] = @ + 1]
  /\ \/ /\ IsLast(w)
        /\ Settle(w, "done")
        /\ wpc' = [wpc EXCEPT ![w] = "recv"]
     \/ /\ ~IsLast(w)
        /\ wpc' = [wpc EXCEPT ![w] = "send"]
        /\ UNCHANGED <<held, ctx, outcome>>
  /\ UNCHANGED <<started, stopped, hard, chanVars, closed, epc, spc>>

\* ... whose select passes the job on or, in a hard shutdown, drops it.
Forward(w) ==
  LET next == Out(StageOf(w)) IN
  /\ wpc[w] = "send" /\ HasRoom(next)
  /\ Push(next, held[w])
  /\ held' = [held EXCEPT ![w] = NoJob]
  /\ wpc' = [wpc EXCEPT ![w] = "recv"]
  /\ UNCHANGED <<started, stopped, hard, closes, closed, epc, jobVars, spc>>

Drop(w) ==
  /\ wpc[w] = "send" /\ JobBaseDone
  /\ Settle(w, "dropped")
  /\ wpc' = [wpc EXCEPT ![w] = "exited"]
  /\ UNCHANGED <<started, stopped, hard, chanVars, closed, epc, ran, spc>>

\* The closer of a stage: stageWg.Wait(), then close(out) unless out is nil.
StageDone(s) == \A w \in WorkersOf(s) : wpc[w] = "exited"

CloseStage(s) ==
  /\ started /\ s \notin closed
  /\ StageDone(s)
  /\ closed' = closed \union {s}
  /\ IF s = Last THEN UNCHANGED closes ELSE Close(s + 1)
  /\ UNCHANGED <<started, stopped, hard, chan, wpc, held, epc, jobVars, spc>>
-----------------------------------------------------------------------------
\* shutdownOnce.Do: the first call takes the lock and stops the pipeline ...
OnceNew == ~stopped

ShutdownFirst(d) ==
  /\ spc[d] = "idle" /\ OnceNew /\ MuFree
  /\ stopped' = TRUE
  /\ spc' = [spc EXCEPT ![d] = "closing"]
  /\ UNCHANGED <<started, hard, chanVars, workerVars, epc, jobVars>>

\* After the Once a call returns at once when Start was never called.
AfterOnce == IF started THEN "drain" ELSE "returned"

ShutdownClose(d) ==
  /\ spc[d] = "closing"
  /\ Close(1)
  /\ spc' = [spc EXCEPT ![d] = AfterOnce]
  /\ UNCHANGED <<started, stopped, hard, chan, workerVars, epc, jobVars>>

\* ... and every other call waits until the first is through with it.
ShutdownAgain(d) ==
  /\ spc[d] = "idle" /\ stopped
  /\ \A e \in Stoppers : spc[e] # "closing"
  /\ spc' = [spc EXCEPT ![d] = AfterOnce]
  /\ UNCHANGED <<started, stopped, hard, chanVars, workerVars, epc, jobVars>>

\* p.wg.Wait() returns: the closers are what is registered on p.wg.
Drained == closed = Stages

ShutdownDrained(d) ==
  /\ spc[d] \in {"drain", "forced"} /\ Drained
  /\ spc' = [spc EXCEPT ![d] = "returned"]
  /\ UNCHANGED <<started, stopped, hard, chanVars, workerVars, epc, jobVars>>

\* time.After(timeout) fires first: jobCancel(), then wait again.
ShutdownTimeout(d) ==
  /\ spc[d] = "drain"
  /\ hard' = TRUE
  /\ spc' = [spc EXCEPT ![d] = "forced"]
  /\ UNCHANGED <<started, stopped, chanVars, workerVars, epc, jobVars>>
-----------------------------------------------------------------------------
\* Every call has returned and every worker is gone, or nothing was started.
Finished ==
  /\ stopped /\ (started => Drained)
  /\ \A j \in Jobs : epc[j] \in Returned
  /\ \A d \in Stoppers : spc[d] = "returned"

Terminated == Finished /\ UNCHANGED vars

EnqueueStep(j) ==
  \/ EnqueueBegin(j) \/ EnqueueLock(j)
  \/ EnqueueSend(j) \/ EnqueueCanceled(j) \/ EnqueueFull(j)

\* The steps a worker takes by itself, and the return of its stage function.
WorkerStep(w) == Receive(w) \/ ExitClosed(w) \/ ExitHard(w) \/ Forward(w) \/ Drop(w)
StageStep(w)  == StageFails(w) \/ StageReturns(w)

ShutdownStep(d) ==
  \/ ShutdownFirst(d) \/ ShutdownClose(d) \/ ShutdownAgain(d)
  \/ ShutdownDrained(d) \/ ShutdownTimeout(d)

Next ==
  \/ Start
  \/ \E j \in Jobs : EnqueueStep(j)
  \/ \E w \in Workers : WorkerStep(w) \/ StageStep(w)
  \/ \E s \in Stages : CloseStage(s)
  \/ \E d \in Stoppers : ShutdownStep(d)
  \/ Terminated

Spec == Init /\ [][Next]_vars

\* What the scheduler and the timers guarantee by themselves: goroutines run,
\* a timer fires, and a stage function comes back once its context is
\* cancelled.  Nothing obliges a client to upload or main to shut down.
Fairness ==
  /\ \A j \in Jobs : WF_vars(EnqueueLock(j)) /\ WF_vars(EnqueueSend(j) \/ EnqueueFull(j))
  /\ \A w \in Workers : WF_vars(WorkerStep(w)) /\ WF_vars(JobBaseDone /\ StageStep(w))
  /\ \A s \in Stages : WF_vars(CloseStage(s))
  /\ \A d \in Stoppers : /\ WF_vars(ShutdownClose(d))
                         /\ WF_vars(ShutdownDrained(d))
                         /\ WF_vars(ShutdownTimeout(d))

FairSpec == Spec /\ Fairness
-----------------------------------------------------------------------------
Accepted(j)  == epc[j] = "accepted"
InFlight(j)  == Accepted(j) /\ outcome[j] = "none"
InChannel(j) == \E s \in Stages : \E i \in 1..Len(chan[s]) : chan[s][i] = j
IsHeld(j)    == \E w \in Workers : held[w] = j

\* Enqueue and the workers never send on a channel that Shutdown or a closer
\* has closed (a panic in Go): p.mu and the cascade of closers see to it.
NoSendOnClosed ==
  [][\A s \in Stages : Len(chan'[s]) > Len(chan[s]) => ~IsClosed(s)]_vars

\* No channel is closed twice (a panic too), whoever calls Shutdown and how
\* often: shutdownOnce for ingest, one closer per stage for s2 and s3.
ClosedOnce == \A s \in Stages : closes[s] <= 1

\* "never concurrently" (the comment on Job): a job is in one place at a time,
\* one slot of one channel or the hands of one worker.
NeverShared ==
  /\ \A s, t \in Stages : \A i \in 1..Len(chan[s]), k \in 1..Len(chan[t]) :
       chan[s][i] = chan[t][k] => s = t /\ i = k
  /\ \A v, w \in Workers : held[v] = held[w] /\ held[v] # NoJob => v = w
  /\ \A w \in Workers : \A s \in Stages : \A i \in 1..Len(chan[s]) :
       chan[s][i] # held[w]

\* A job Enqueue has accepted is in a channel or in a worker until its outcome
\* is decided, and nothing else is: no step loses a job or invents one.
NeverLost == \A j \in Jobs : InFlight(j) <=> (InChannel(j) \/ IsHeld(j))

\* Together: an accepted job is in exactly one place until its outcome is decided.
OnePlace == NeverShared /\ NeverLost

\* Every stage function runs once per job and in the order of the stages: the
\* function of stage s sees a job that s - 1 functions have returned nil for.
StageOrder ==
  /\ \A w \in Workers : wpc[w] = "run" => ran[held[w]] = StageOf(w) - 1
  /\ \A j \in Jobs : /\ outcome[j] = "done"   => ran[j] = Last
                     /\ outcome[j] = "failed" => ran[j] < Last

\* The context of a job is open from its creation in Enqueue until the job
\* leaves the pipeline, by whatever exit, and released from then on: no stage
\* runs under a context the pipeline itself has cancelled, and none leaks.
ContextLifetime ==
  \A j \in Jobs : ctx[j] = "open" <=> (epc[j] \in {"lock", "send"} \/ InFlight(j))

\* A graceful Shutdown (no timeout) returns with every accepted job finished
\* by its stages: the close cascade strands nothing in a channel.
GracefulDrain ==
  (\E d \in Stoppers : spc[d] = "returned") /\ ~hard =>
    \A j \in Jobs : Accepted(j) => outcome[j] \in {"done", "failed"}

\* When any Shutdown has returned, graceful or forced, no worker of a started
\* pipeline is left: main closes the cache and the store after it.
QuietAfterShutdown ==
  (\E d \in Stoppers : spc[d] = "returned") /\ started =>
    \A w \in Workers : wpc[w] = "exited" /\ held[w] = NoJob

\* What main and the tests rely on when Shutdown has returned, both of the above.
ShutdownKeeps == GracefulDrain /\ QuietAfterShutdown

\* What the closing of a channel promises its reader: unless the shutdown is
\* forced, all that was accepted is past the stages before it.
CloseCascade ==
  \A s \in Stages : IsClosed(s) /\ ~hard =>
    /\ \A t \in 1..(s - 1) : chan[t] = <<>>
    /\ \A w \in Workers : StageOf(w) < s => held[w] = NoJob

\* Each Shutdown that waits for the drain comes back, even when every stage
\* function blocks until its context is cancelled.
ShutdownReturns == \A d \in Stoppers : spc[d] = "drain" ~> spc[d] = "returned"

\* No Enqueue call waits for the lock for ever.
EnqueueReturns == \A j \in Jobs : epc[j] = "lock" ~> epc[j] \in Returned

\* Every goroutine that waits inside Shutdown or Enqueue comes back.
CallsReturn == ShutdownReturns /\ EnqueueReturns

\* If stage functions always come back (those of the service run under the
\* deadlines of hop and job), every accepted job is finished by its stages unless
\* a shutdown is forced: full channels delay it, no interleaving blocks it.  (There
\* are finitely many jobs, and none is accepted or finished twice.)
AcceptedSettles ==
  (\A w \in Workers : WF_vars(StageStep(w))) =>
    <>[]((\A j \in Jobs : Accepted(j) => outcome[j] \in {"done", "failed"}) \/ hard)
-----------------------------------------------------------------------------
\* The strengthening that is inductive (module PipelineProofs).  First the
\* control: the lock, the closes, the exits of the workers.
Control ==
  /\ \A d \in Stoppers : spc[d] # "idle" => stopped
  /\ hard => stopped
  /\ \A j \in Jobs : epc[j] = "send" => ~stopped
  /\ closes[1] = IF stopped /\ \A d \in Stoppers : spc[d] # "closing" THEN 1 ELSE 0
  /\ \A d, e \in Stoppers : spc[d] = "closing" /\ spc[e] # "idle" => d = e
  /\ \A s \in Stages \ {Last} : closes[s + 1] = IF s \in closed THEN 1 ELSE 0
  /\ \A s \in closed : \A w \in WorkersOf(s) : wpc[w] = "exited"
  /\ \A w \in Workers :
       wpc[w] = "exited" /\ ~hard => IsClosed(StageOf(w)) /\ chan[StageOf(w)] = <<>>
  /\ (\E d \in Stoppers : spc[d] = "returned") /\ started => Drained
  /\ ~started => \A j \in Jobs : epc[j] \notin {"lock", "send", "accepted"}

\* Then the jobs: how far each has come, by the place it is in.
Progress ==
  /\ \A s \in Stages : \A i \in 1..Len(chan[s]) :
       InFlight(chan[s][i]) /\ ran[chan[s][i]] = s - 1
  /\ \A w \in Workers : held[w] # NoJob =>
       /\ InFlight(held[w])
       /\ ran[held[w]] = IF wpc[w] = "run" THEN StageOf(w) - 1 ELSE StageOf(w)
  /\ \A j \in Jobs : /\ ~Accepted(j) => outcome[j] = "none" /\ ran[j] = 0
                     /\ outcome[j] = "dropped" => hard
                     /\ outcome[j] = "done" => ran[j] = Last
                     /\ outcome[j] = "failed" => ran[j] < Last

IInv == Control /\ Progress /\ NeverShared /\ NeverLost /\ ContextLifetime
=============================================================================
