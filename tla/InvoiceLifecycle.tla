-------------------------- MODULE InvoiceLifecycle --------------------------
(***************************************************************************)
(* One upload from the HTTP handler to its last database write:            *)
(* processImage (httpserver), Enqueue, StagePreprocess, StageOCR, StageJev,*)
(* fail and rollbackEnqueue (invoice), over the pipeline and the store,    *)
(* and the order in which main stops them.                                 *)
(*                                                                         *)
(* The pipeline and the store appear as what Pipeline and WriteQueue       *)
(* promise: a job is accepted or refused and then runs through its stages; *)
(* a write is refused, answered, or abandoned by a caller whose context    *)
(* ended, and then it may still be committed.  The file, the row and the   *)
(* shared *store.Invoice are three copies of one truth.                    *)
(***************************************************************************)
EXTENDS FiniteSets

CONSTANT Invoices  \* uploads

VARIABLES
  hpc,       \* handler: "idle", "creating", "handoff", "undo", "deleting", "answering", "done"
  resp,      \* HTTP status: "none", "202", "400", "500", "503"
  said,      \* the status in the body of a 202
  gone,      \* the request's context is done
  file,      \* the upload on disk: "none", "partial", "full"
  row,       \* the row: "none", a status, "deleted"
  mem,       \* Status of the shared *store.Invoice
  jpc,       \* job: "none", "ingest", "marking", "prepare", "s2", "s3", "persist", "saving",
             \*      and the outcome of its last stage, "done" or "failed"
  expired,   \* the job's deadline has passed
  op, ans,   \* the write with the writer ("none", "create", "update", "delete"); its answer
  errs,      \* history: the errors of the store told to handler and stages
  phase,     \* main: "serving", "draining", "closing", "down", "closed", "exited"
  accepting, \* the HTTP listener is open
  hard,      \* the pipeline cancelled its jobs after the drain timeout
  crashed    \* the process was killed

handler == <<hpc, resp, said, gone>>
data    == <<file, row, mem>>
job     == <<jpc, expired>>
write   == <<op, ans, errs>>
process == <<phase, accepting, hard, crashed>>
vars    == <<hpc, resp, said, gone, file, row, mem, jpc, expired, op, ans, errs,
             phase, accepting, hard, crashed>>

Status   == {"queued", "processing", "done", "failed"}
Terminal == {"done", "failed"}

TypeOK ==
  /\ hpc \in [Invoices -> {"idle", "creating", "handoff", "undo", "deleting", "answering", "done"}]
  /\ resp \in [Invoices -> {"none", "202", "400", "500", "503"}]
  /\ said \in [Invoices -> Status \union {"none"}]
  /\ gone \in [Invoices -> BOOLEAN]
  /\ file \in [Invoices -> {"none", "partial", "full"}]
  /\ row \in [Invoices -> Status \union {"none", "deleted"}]
  /\ mem \in [Invoices -> Status]
  /\ jpc \in [Invoices -> {"none", "ingest", "marking", "prepare", "s2", "s3", "persist", "saving",
                           "done", "failed"}]
  /\ expired \in [Invoices -> BOOLEAN]
  /\ op \in [Invoices -> {"none", "create", "update", "delete"}]
  /\ ans \in [Invoices -> {"none", "ok", "error"}]
  /\ errs \in [Invoices -> SUBSET {"error", "ctx", "closed"}]
  /\ phase \in {"serving", "draining", "closing", "down", "closed", "exited"}
  /\ accepting \in BOOLEAN /\ hard \in BOOLEAN /\ crashed \in BOOLEAN

Init ==
  /\ hpc = [i \in Invoices |-> "idle"] /\ resp = [i \in Invoices |-> "none"]
  /\ said = [i \in Invoices |-> "none"] /\ gone = [i \in Invoices |-> FALSE]
  /\ file = [i \in Invoices |-> "none"] /\ row = [i \in Invoices |-> "none"]
  /\ mem = [i \in Invoices |-> "queued"]
  /\ jpc = [i \in Invoices |-> "none"] /\ expired = [i \in Invoices |-> FALSE]
  /\ op = [i \in Invoices |-> "none"] /\ ans = [i \in Invoices |-> "none"]
  /\ errs = [i \in Invoices |-> {}]
  /\ phase = "serving" /\ accepting = TRUE /\ hard = FALSE /\ crashed = FALSE
-----------------------------------------------------------------------------
Running       == ~crashed /\ phase # "exited"
\* A seeded fault, like those below: a stage that is cancelled never comes back.
FaultPipelineRuns == Running /\ ~hard
PipelineRuns  == Running /\ (hard => phase = "closing")  \* then its workers are gone
JobGone(i)    == expired[i] \/ hard
InFlight(i)   == jpc[i] \notin {"none", "done", "failed"}
InStage(i)    == jpc[i] \in {"marking", "prepare", "persist", "saving"}

\* Seeded faults.  Each is the form a definition below would take under a
\* plausible bug; the properties are known to be violated under them.
FaultNewStatus     == "none"             \* Enqueue leaves the status at its zero value
FaultCreated(r)    == TRUE               \* the error of Create is ignored
FaultUndoes(e)     == e # "stopped"      \* no rollback when the pipeline is stopped
FaultMarked        == "queued"           \* StagePreprocess forgets the status
FaultFails(i)      ==                    \* StageOCR returns its error without fail
  jpc' = [jpc EXCEPT ![i] = "failed"] /\ UNCHANGED mem
FaultPipelineOver  == phase \in {"closing", "down"}  \* the store is closed first
FaultMayAccept     == phase # "closed"   \* Enqueue does not look at stopped
FaultCreateFailed(i, r) ==               \* a failed Create is undone although
  /\ hpc' = [hpc EXCEPT ![i] = "deleting"]  \* it may still be with the writer
  /\ resp' = [resp EXCEPT ![i] = "500"]
  /\ op' = [op EXCEPT ![i] = "delete"] /\ UNCHANGED ans
-----------------------------------------------------------------------------
\* The store, as WriteQueue provides it.  A call whose context is done, or that
\* comes after Close, is refused; any other reaches the writer.
Refuses(done, r) == \/ done /\ r = "ctx"
                    \/ ~done /\ phase = "closed" /\ r = "closed"

Sends(i, k, done) ==
  /\ ~done /\ phase # "closed"
  /\ op' = [op EXCEPT ![i] = k] /\ ans' = [ans EXCEPT ![i] = "none"]

\* A waiting call returns the writer's answer or the end of its own context.
Returns(i, done, r) == \/ ans[i] # "none" /\ r = ans[i]
                       \/ done /\ r = "ctx"

Told(i, r) == errs' = [errs EXCEPT ![i] = IF r = "ok" THEN @ ELSE @ \union {r}]

\* The writer runs the statement.  Update saves the shared invoice as it is at
\* this moment.
Execute(i) ==
  /\ Running /\ op[i] # "none"
  /\ \/ /\ row' = [row EXCEPT ![i] = IF op[i] = "delete" THEN "deleted" ELSE mem[i]]
        /\ ans' = [ans EXCEPT ![i] = "ok"]
     \/ ans' = [ans EXCEPT ![i] = "error"] /\ UNCHANGED row
  /\ op' = [op EXCEPT ![i] = "none"]
  /\ UNCHANGED <<handler, file, mem, job, errs, process>>
-----------------------------------------------------------------------------
Respond(i, code) == /\ resp' = [resp EXCEPT ![i] = code]
                    /\ hpc' = [hpc EXCEPT ![i] = "done"]

\* processImage and Enqueue up to Create.  A body that cannot be copied leaves
\* what was written of it; one that is too large does not.
UploadRefused(i) ==
  /\ Running /\ accepting /\ hpc[i] = "idle"
  /\ \/ Respond(i, "400") /\ UNCHANGED file
     \/ Respond(i, "500") /\ \E f \in {"none", "partial"} : file' = [file EXCEPT ![i] = f]
  /\ UNCHANGED <<said, gone, row, mem, job, write, process>>

NewStatus == "queued"

Upload(i) ==
  /\ Running /\ accepting /\ hpc[i] = "idle"
  /\ file' = [file EXCEPT ![i] = "full"]
  /\ mem' = [mem EXCEPT ![i] = NewStatus]
  /\ \/ /\ Sends(i, "create", FALSE)
        /\ hpc' = [hpc EXCEPT ![i] = "creating"] /\ UNCHANGED <<resp, errs>>
     \/ /\ Refuses(FALSE, "closed") /\ Told(i, "closed")
        /\ Respond(i, "500") /\ UNCHANGED <<op, ans>>
  /\ UNCHANGED <<said, gone, row, job, process>>

\* Enqueue after Create: an error is returned at once, and the file stays.
Created(r) == r = "ok"
CreateFailed(i, r) == Respond(i, "500") /\ UNCHANGED <<op, ans>>

CreateReturns(i) ==
  /\ Running /\ hpc[i] = "creating"
  /\ \E r \in {"ok", "error", "ctx"} :
       /\ Returns(i, gone[i], r) /\ Told(i, r)
       /\ \/ /\ Created(r)
             /\ hpc' = [hpc EXCEPT ![i] = "handoff"] /\ UNCHANGED <<resp, op, ans>>
          \/ ~Created(r) /\ CreateFailed(i, r)
  /\ UNCHANGED <<said, gone, data, job, process>>

\* jobs.Enqueue: accepted while the pipeline is open and has room, else one of
\* its three errors, after which the upload is undone.
MayAccept == phase \in {"serving", "draining"}

Accept(i) ==
  /\ Running /\ hpc[i] = "handoff" /\ ~gone[i] /\ MayAccept
  /\ jpc' = [jpc EXCEPT ![i] = "ingest"]
  /\ hpc' = [hpc EXCEPT ![i] = "answering"]
  /\ UNCHANGED <<resp, said, gone, data, expired, write, process>>

EnqueueError(i, e) ==
  CASE e = "ctx"     -> gone[i]
    [] e = "stopped" -> ~gone[i] /\ ~MayAccept
    [] e = "full"    -> ~gone[i] /\ MayAccept

Undoes(e) == TRUE

Refuse(i) ==
  /\ Running /\ hpc[i] = "handoff"
  /\ \E e \in {"ctx", "stopped", "full"} :
       /\ EnqueueError(i, e)
       /\ resp' = [resp EXCEPT ![i] = IF e = "ctx" THEN "500" ELSE "503"]
       /\ hpc' = [hpc EXCEPT ![i] = IF Undoes(e) THEN "undo" ELSE "done"]
  /\ UNCHANGED <<said, gone, data, job, write, process>>

\* rollbackEnqueue: Delete under the request's context, then the file whatever
\* Delete said.
RemoveFile(i) == /\ file' = [file EXCEPT ![i] = "none"]
                 /\ hpc' = [hpc EXCEPT ![i] = "done"]

Undo(i) ==
  /\ Running /\ hpc[i] = "undo"
  /\ \/ /\ Sends(i, "delete", gone[i])
        /\ hpc' = [hpc EXCEPT ![i] = "deleting"] /\ UNCHANGED <<file, errs>>
     \/ \E r \in {"ctx", "closed"} :
          /\ Refuses(gone[i], r) /\ Told(i, r)
          /\ RemoveFile(i) /\ UNCHANGED <<op, ans>>
  /\ UNCHANGED <<resp, said, gone, row, mem, job, process>>

DeleteReturns(i) ==
  /\ Running /\ hpc[i] = "deleting"
  /\ \E r \in {"ok", "error", "ctx"} : Returns(i, gone[i], r) /\ Told(i, r)
  /\ RemoveFile(i)
  /\ UNCHANGED <<resp, said, gone, row, mem, job, op, ans, process>>

\* The 202: its body reads the invoice that a worker may already be changing.
Answer(i) ==
  /\ Running /\ hpc[i] = "answering"
  /\ Respond(i, "202")
  /\ said' = [said EXCEPT ![i] = mem[i]]
  /\ UNCHANGED <<gone, data, job, write, process>>

\* The client leaves; net/http ends the request's context.
ClientGone(i) ==
  /\ Running /\ hpc[i] \notin {"idle", "done"} /\ ~gone[i]
  /\ gone' = [gone EXCEPT ![i] = TRUE]
  /\ UNCHANGED <<hpc, resp, said, data, job, write, process>>
-----------------------------------------------------------------------------
JobTo(i, pc) == jpc' = [jpc EXCEPT ![i] = pc]

\* StagePreprocess: the status is set, then saved; an error of Update is
\* returned as it is, without fail.
Marked == "processing"

StagePreprocess(i) ==
  /\ PipelineRuns /\ jpc[i] = "ingest"
  /\ mem' = [mem EXCEPT ![i] = Marked]
  /\ \/ Sends(i, "update", JobGone(i)) /\ JobTo(i, "marking") /\ UNCHANGED errs
     \/ \E r \in {"ctx", "closed"} : Refuses(JobGone(i), r) /\ Told(i, r)
                                     /\ JobTo(i, "failed") /\ UNCHANGED <<op, ans>>
  /\ UNCHANGED <<handler, file, row, expired, process>>

MarkReturns(i) ==
  /\ PipelineRuns /\ jpc[i] = "marking"
  /\ \E r \in {"ok", "error", "ctx"} :
       /\ Returns(i, JobGone(i), r) /\ Told(i, r)
       /\ JobTo(i, IF r = "ok" THEN "prepare" ELSE "failed")
  /\ UNCHANGED <<handler, data, expired, op, ans, process>>

\* fail: the status of the shared invoice, then Update under the job's context.
Fails(i) == mem' = [mem EXCEPT ![i] = "failed"] /\ JobTo(i, "persist")

\* Prepare is a passthrough that looks at its context and nothing else.
Prepare(i) ==
  /\ PipelineRuns /\ jpc[i] = "prepare"
  /\ \/ ~JobGone(i) /\ JobTo(i, "s2") /\ UNCHANGED mem
     \/ JobGone(i) /\ Fails(i)
  /\ UNCHANGED <<handler, file, row, expired, write, process>>

\* StageOCR: the cascade finds a text or fails.
StageOCR(i) ==
  /\ PipelineRuns /\ jpc[i] = "s2"
  /\ \/ ~JobGone(i) /\ JobTo(i, "s3") /\ UNCHANGED mem
     \/ Fails(i)
  /\ UNCHANGED <<handler, file, row, expired, write, process>>

\* StageJev: cached or judged, the invoice is done; or it fails.
StageJev(i) ==
  /\ PipelineRuns /\ jpc[i] = "s3"
  /\ \/ mem' = [mem EXCEPT ![i] = "done"] /\ JobTo(i, "persist")
     \/ Fails(i)
  /\ UNCHANGED <<handler, file, row, expired, write, process>>

\* The last Update, of StageJev, applyCacheHit or fail.  The stage fails when
\* Update does, and after fail in any case.
Persist(i) ==
  /\ PipelineRuns /\ jpc[i] = "persist"
  /\ \/ Sends(i, "update", JobGone(i)) /\ JobTo(i, "saving") /\ UNCHANGED errs
     \/ \E r \in {"ctx", "closed"} : Refuses(JobGone(i), r) /\ Told(i, r)
                                     /\ JobTo(i, "failed") /\ UNCHANGED <<op, ans>>
  /\ UNCHANGED <<handler, data, expired, process>>

SaveReturns(i) ==
  /\ PipelineRuns /\ jpc[i] = "saving"
  /\ \E r \in {"ok", "error", "ctx"} :
       /\ Returns(i, JobGone(i), r) /\ Told(i, r)
       /\ JobTo(i, IF r = "ok" THEN mem[i] ELSE "failed")
  /\ UNCHANGED <<handler, data, expired, op, ans, process>>

\* JOB_TIMEOUT, counted from Enqueue.
Expire(i) ==
  /\ PipelineRuns /\ InFlight(i) /\ ~expired[i]
  /\ expired' = [expired EXCEPT ![i] = TRUE]
  /\ UNCHANGED <<handler, data, jpc, write, process>>
-----------------------------------------------------------------------------
Main(p) == phase' = p /\ UNCHANGED <<handler, data, job, write, crashed>>

\* A signal or a server error closes the listener; srv.Shutdown then waits for
\* the handlers, ten seconds at most.
Signal == /\ Running /\ phase = "serving"
          /\ Main("draining") /\ accepting' = FALSE /\ UNCHANGED hard

HTTPStopped == /\ Running /\ phase = "draining"
               /\ Main("closing") /\ UNCHANGED <<accepting, hard>>

\* startPprof fails: the pipeline is shut down with the listener still open.
PprofFails == /\ Running /\ phase = "serving"
              /\ Main("closing") /\ UNCHANGED <<accepting, hard>>

DrainTimeout == /\ Running /\ phase = "closing" /\ ~hard
                /\ \E i \in Invoices : InFlight(i)
                /\ Main("closing") /\ hard' = TRUE /\ UNCHANGED accepting

\* pipeline.Shutdown returns: every job is over or, after the timeout, no
\* worker is inside a stage.
PipelineDown ==
  /\ Running /\ phase = "closing"
  /\ IF hard THEN \A i \in Invoices : ~InStage(i) ELSE \A i \in Invoices : ~InFlight(i)
  /\ Main("down") /\ UNCHANGED <<accepting, hard>>

\* The deferred st.Close: no further write is taken, the received ones are
\* finished before the process ends.
PipelineOver == phase = "down"

StoreClose == /\ Running /\ PipelineOver
              /\ Main("closed") /\ UNCHANGED <<accepting, hard>>

Exit == /\ Running /\ phase = "closed" /\ \A i \in Invoices : op[i] = "none"
        /\ Main("exited") /\ accepting' = FALSE /\ UNCHANGED hard

\* The process is killed.  Nothing reads the rows it left when it starts again.
Crash == /\ Running
         /\ crashed' = TRUE
         /\ UNCHANGED <<handler, data, job, write, phase, accepting, hard>>
-----------------------------------------------------------------------------
Over == ~Running /\ UNCHANGED vars

Handler(i) == CreateReturns(i) \/ Accept(i) \/ Refuse(i) \/ Undo(i) \/ DeleteReturns(i) \/ Answer(i)
Stage(i)   == StagePreprocess(i) \/ MarkReturns(i) \/ Prepare(i) \/ StageOCR(i) \/ StageJev(i)
              \/ Persist(i) \/ SaveReturns(i)
Stopping   == HTTPStopped \/ PipelineDown \/ StoreClose \/ Exit

Next ==
  \/ \E i \in Invoices : \/ UploadRefused(i) \/ Upload(i) \/ Handler(i) \/ ClientGone(i)
                         \/ Stage(i) \/ Expire(i) \/ Execute(i)
  \/ Signal \/ PprofFails \/ DrainTimeout \/ Stopping \/ Crash
  \/ Over

Spec == Init /\ [][Next]_vars
-----------------------------------------------------------------------------
\* A job runs for an invoice that is in the database and whose file is whole:
\* nothing on any path, rollback included, takes either away from it.
JobHasInvoice ==
  \A i \in Invoices : jpc[i] # "none" => row[i] \in Status /\ file[i] = "full"

\* A refused upload leaves no row and no file, unless the store failed it.
RejectedLeavesNothing ==
  \A i \in Invoices : resp[i] = "503" /\ hpc[i] = "done" /\ errs[i] = {}
                        => row[i] \in {"none", "deleted"} /\ file[i] = "none"

\* Both of the above: an upload is in the service whole, or not at all.
UploadIsWhole == JobHasInvoice /\ RejectedLeavesNothing

\* The handler and the stages never have two writes of one row with the writer,
\* abandoned ones included; so a late commit cannot overwrite a newer one.
OneWriter ==
  \A i \in Invoices : op[i] # "none" =>
    /\ ans[i] = "none"
    /\ IF op[i] = "update" THEN jpc[i] \in {"marking", "saving", "failed"}
       ELSE jpc[i] = "none" /\ hpc[i] \in {"creating", "deleting", "done"}
    /\ op[i] = "delete" => row[i] = "queued"

\* A job that is over has left its result in the row, unless the store told a
\* stage that it did not (the job's deadline among the reasons).
EndedIsSettled ==
  \A i \in Invoices : jpc[i] \in Terminal /\ errs[i] = {} => row[i] = jpc[i]

\* main stops what uses the store before the store: no stage is ever told
\* ErrClosed, whatever the handlers that outlive srv.Shutdown are told.
StoreOutlivesJobs == \A i \in Invoices : jpc[i] # "none" => "closed" \notin errs[i]

\* A stop within the drain timeout leaves no upload that was answered 202
\* unsettled, except those the store failed.
GracefulStopSettles ==
  phase = "exited" /\ ~hard =>
    \A i \in Invoices : resp[i] = "202" /\ errs[i] = {} => row[i] \in Terminal

\* The three above: no result is lost between the stage that found it and the row.
ResultsReachRow == EndedIsSettled /\ StoreOutlivesJobs /\ GracefulStopSettles

\* What a client that polls sees never goes back, and never skips processing.
RowStep ==
  \A i \in Invoices : row'[i] # row[i] =>
    <<row[i], row'[i]>> \in {<<"none", "queued">>, <<"queued", "deleted">>,
                             <<"queued", "processing">>,
                             <<"processing", "done">>, <<"processing", "failed">>}
StatusForward == [][RowStep]_row

\* An upload that was answered 202 gets its result, unless the store failed it
\* or the process did not wait for it.  Service states the fairness for this.
AcceptedSettles ==
  \A i \in Invoices : resp[i] = "202" ~> \/ row[i] \in Terminal
                                         \/ errs[i] # {} \/ hard \/ crashed
-----------------------------------------------------------------------------
\* Three statements of the repository's tests that the code does not keep.

\* server_test.go: the body of a 202 says "queued".
AnswerSaysQueued == \A i \in Invoices : said[i] \in {"none", "queued"}

\* service_test.go, server_test.go: a 503 has been rolled back.
QueueFullRollsBack ==
  \A i \in Invoices : resp[i] = "503" /\ hpc[i] = "done" => row[i] \in {"none", "deleted"}

\* service_test.go: a job that ran into its timeout is a failed invoice.
TimeoutIsFailed ==
  \A i \in Invoices : jpc[i] = "failed" /\ mem[i] = "failed" => row[i] = "failed"
=============================================================================
