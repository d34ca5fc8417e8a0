--------------------------- MODULE LifecycleProofs ---------------------------
(***************************************************************************)
(* What TLAPS proves about InvoiceLifecycle, for any set of uploads.       *)
(*                                                                         *)
(* The inductive invariant says, for each place of the handler and of the  *)
(* job, what the row, the shared invoice and the write with the writer can *)
(* be (Handled, Worked), and what main has waited for in each of its       *)
(* phases (Stopped).  The properties are read off it, and it gives every   *)
(* step the step of JobService and of AtomicWrites that it is.             *)
(***************************************************************************)
EXTENDS LifecycleRefinement, SequenceTheorems, TLAPS

Quiet(i) == op[i] = "none" /\ errs[i] = {}

\* The write k of a waiting call is with the writer, or answered.
Calling(i, k, old, new) ==
  /\ errs[i] = {}
  /\ \/ op[i] = k /\ ans[i] = "none" /\ row[i] = old
     \/ op[i] = "none" /\ ans[i] = "ok" /\ row[i] = new
     \/ op[i] = "none" /\ ans[i] = "error" /\ row[i] = old

\* A write that its caller may have abandoned.
Late(i, k, old) == op[i] = k /\ ans[i] = "none" /\ row[i] = old /\ errs[i] = {"ctx"}

Fresh(i) == jpc[i] = "none" /\ mem[i] = "queued"

Handled(i) ==
  /\ hpc[i] = "idle" => Fresh(i) /\ Quiet(i) /\ resp[i] = "none" /\ row[i] = "none"
  /\ hpc[i] = "creating" => /\ Fresh(i) /\ resp[i] = "none" /\ file[i] = "full"
                            /\ Calling(i, "create", "none", "queued")
  /\ hpc[i] = "handoff" => /\ Fresh(i) /\ Quiet(i) /\ resp[i] = "none" /\ file[i] = "full"
                           /\ row[i] = "queued"
  /\ hpc[i] = "undo" => Fresh(i) /\ Quiet(i) /\ resp[i] \in {"500", "503"} /\ row[i] = "queued"
  /\ hpc[i] = "deleting" => /\ Fresh(i) /\ resp[i] \in {"500", "503"}
                            /\ Calling(i, "delete", "queued", "deleted")
  /\ hpc[i] = "answering" => jpc[i] # "none" /\ resp[i] = "none"
  /\ hpc[i] = "done" => resp[i] = "202" <=> jpc[i] # "none"
  /\ hpc[i] = "done" /\ resp[i] # "202" =>
       /\ Fresh(i)
       /\ \/ op[i] = "none"
          \/ Late(i, "create", "none") /\ resp[i] = "500" /\ file[i] = "full"
          \/ Late(i, "delete", "queued") /\ file[i] = "none"
       /\ resp[i] = "503" /\ errs[i] = {} =>
            row[i] = "deleted" /\ file[i] = "none" /\ op[i] = "none"

Worked(i) ==
  jpc[i] # "none" =>
    /\ hpc[i] \in {"answering", "done"} /\ file[i] = "full" /\ "closed" \notin errs[i]
    /\ jpc[i] = "ingest" => Quiet(i) /\ mem[i] = "queued" /\ row[i] = "queued"
    /\ jpc[i] = "marking" => mem[i] = "processing" /\ Calling(i, "update", "queued", "processing")
    /\ jpc[i] \in {"prepare", "s2", "s3"} =>
         Quiet(i) /\ mem[i] = "processing" /\ row[i] = "processing"
    /\ jpc[i] = "persist" => Quiet(i) /\ mem[i] \in Terminal /\ row[i] = "processing"
    /\ jpc[i] = "saving" => mem[i] \in Terminal /\ Calling(i, "update", "processing", mem[i])
    /\ jpc[i] = "done" => op[i] = "none" /\ row[i] = "done"
    /\ jpc[i] = "failed" =>
         /\ errs[i] = {} => op[i] = "none" /\ row[i] = "failed"
         /\ \/ op[i] = "none" /\ row[i] \in Status
            \/ mem[i] = "processing" /\ Late(i, "update", "queued")
            \/ mem[i] \in Terminal /\ Late(i, "update", "processing")

Stopped ==
  /\ phase \in {"serving", "draining"} => ~hard
  /\ phase \in {"down", "closed", "exited"} /\ ~hard => \A i \in Invoices : ~InFlight(i)

IInv == TypeOK /\ Stopped /\ \A i \in Invoices : Handled(i) /\ Worked(i)
-----------------------------------------------------------------------------
\* A step of one upload does not touch another.
Same(k) == /\ hpc'[k] = hpc[k] /\ resp'[k] = resp[k] /\ file'[k] = file[k]
           /\ row'[k] = row[k] /\ mem'[k] = mem[k] /\ jpc'[k] = jpc[k]
           /\ op'[k] = op[k] /\ ans'[k] = ans[k] /\ errs'[k] = errs[k]

LEMMA SameKeeps ==
  ASSUME NEW k, Same(k), Handled(k), Worked(k)
  PROVE  Handled(k)' /\ Worked(k)'
BY DEF Same, Handled, Worked, Fresh, Quiet, Calling, Late

\* Neither does it wake a job that is over.
LEMMA OneKeeps ==
  ASSUME IInv, NEW i \in Invoices, TypeOK', UNCHANGED process,
         \A k \in Invoices \ {i} : Same(k),
         Handled(i)', Worked(i)', InFlight(i)' => InFlight(i) \/ phase \in {"serving", "draining"}
  PROVE  IInv'
<1>1. \A k \in Invoices : Handled(k)' /\ Worked(k)'
  BY SameKeeps DEF IInv
<1>2. Stopped'
  BY DEF IInv, Stopped, InFlight, process, Same
<1> QED BY <1>1, <1>2 DEF IInv

LEMMA InitIInv == Init => IInv
<1> SUFFICES ASSUME Init PROVE IInv
  OBVIOUS
<1>1. TypeOK
  BY DEF Init, TypeOK, Status
<1>2. Stopped
  BY DEF Init, Stopped
<1>3. \A i \in Invoices : Handled(i) /\ Worked(i)
  BY DEF Init, Handled, Worked, Fresh, Quiet
<1> QED BY <1>1, <1>2, <1>3 DEF IInv

LEMMA UploadKeeps ==
  ASSUME IInv, NEW i \in Invoices, UploadRefused(i) \/ Upload(i)
  PROVE  IInv'
<1> USE DEF UploadRefused, Upload, Respond, Sends, Refuses, Told, NewStatus,
            handler, data, job, write, process
<1>1. TypeOK'
  BY DEF IInv, TypeOK, Status
<1>2. \A k \in Invoices \ {i} : Same(k)
  BY DEF IInv, TypeOK, Same
<1>3. Handled(i)' /\ Worked(i)'
  BY DEF IInv, TypeOK, Handled, Worked, Fresh, Quiet, Calling, Late
<1>4. jpc' = jpc /\ UNCHANGED process
  OBVIOUS
<1> QED BY <1>1, <1>2, <1>3, <1>4, OneKeeps DEF InFlight

LEMMA CreateReturnsKeeps ==
  ASSUME IInv, NEW i \in Invoices, CreateReturns(i)
  PROVE  IInv'
<1> USE DEF CreateReturns, Returns, Told, Created, CreateFailed, Respond,
            handler, data, job, write, process
<1>1. TypeOK'
  BY DEF IInv, TypeOK
<1>2. \A k \in Invoices \ {i} : Same(k)
  BY DEF IInv, TypeOK, Same
<1>3. Handled(i)' /\ Worked(i)'
  BY DEF IInv, TypeOK, Handled, Worked, Fresh, Quiet, Calling, Late
<1>4. jpc' = jpc /\ UNCHANGED process
  OBVIOUS
<1> QED BY <1>1, <1>2, <1>3, <1>4, OneKeeps DEF InFlight

LEMMA HandoffKeeps ==
  ASSUME IInv, NEW i \in Invoices, Accept(i) \/ Refuse(i) \/ Answer(i) \/ ClientGone(i)
  PROVE  IInv'
<1> USE DEF Accept, Refuse, Answer, ClientGone, MayAccept, Undoes, Respond,
            handler, data, job, write, process
<1>1. TypeOK'
  <2>1. CASE Accept(i)
    BY <2>1 DEF IInv, TypeOK
  <2>2. CASE Refuse(i)
    BY <2>2 DEF IInv, TypeOK
  <2>3. CASE Answer(i)
    BY <2>3 DEF IInv, TypeOK
  <2>4. CASE ClientGone(i)
    BY <2>4 DEF IInv, TypeOK
  <2> QED BY <2>1, <2>2, <2>3, <2>4
<1>2. \A k \in Invoices \ {i} : Same(k)
  BY DEF IInv, TypeOK, Same
<1>3. Handled(i)' /\ Worked(i)'
  <2>1. CASE Accept(i)
    BY <2>1 DEF IInv, TypeOK, Handled, Worked, Fresh, Quiet, Calling, Late
  <2>2. CASE Refuse(i)
    BY <2>2 DEF IInv, TypeOK, Handled, Worked, Fresh, Quiet, Calling, Late
  <2>3. CASE Answer(i)
    BY <2>3 DEF IInv, TypeOK, Handled, Worked, Fresh, Quiet, Calling, Late
  <2>4. CASE ClientGone(i)
    BY <2>4 DEF IInv, TypeOK, Handled, Worked, Fresh, Quiet, Calling, Late
  <2> QED BY <2>1, <2>2, <2>3, <2>4
<1>4. UNCHANGED process /\ (InFlight(i)' => InFlight(i) \/ phase \in {"serving", "draining"})
  BY DEF InFlight
<1> QED BY <1>1, <1>2, <1>3, <1>4, OneKeeps

LEMMA UndoKeeps ==
  ASSUME IInv, NEW i \in Invoices, Undo(i) \/ DeleteReturns(i)
  PROVE  IInv'
<1> USE DEF Undo, DeleteReturns, RemoveFile, Sends, Refuses, Returns, Told,
            handler, data, job, write, process
<1>1. TypeOK'
  <2>1. CASE Undo(i)
    BY <2>1 DEF IInv, TypeOK
  <2>2. CASE DeleteReturns(i)
    BY <2>2 DEF IInv, TypeOK
  <2> QED BY <2>1, <2>2
<1>2. \A k \in Invoices \ {i} : Same(k)
  BY DEF IInv, TypeOK, Same
<1>3. Handled(i)' /\ Worked(i)'
  <2>1. CASE Undo(i)
    <3>1. Fresh(i)' /\ Quiet(i) /\ row'[i] = "queued" /\ resp'[i] \in {"500", "503"}
      BY <2>1 DEF IInv, Handled, Fresh
    <3>2. CASE Sends(i, "delete", gone[i]) /\ hpc' = [hpc EXCEPT ![i] = "deleting"] /\ errs' = errs
      BY <3>1, <3>2 DEF IInv, TypeOK, Handled, Worked, Fresh, Quiet, Calling
    <3>3. CASE hpc'[i] = "done" /\ op'[i] = "none" /\ errs'[i] # {}
      BY <3>1, <3>3 DEF Handled, Worked, Fresh
    <3>4. ASSUME NEW r \in {"ctx", "closed"}, Told(i, r), RemoveFile(i), op' = op
          PROVE  hpc'[i] = "done" /\ op'[i] = "none" /\ errs'[i] # {}
      <4>1. r \in errs'[i]
        BY <3>4 DEF IInv, TypeOK
      <4> QED BY <3>1, <3>4, <4>1 DEF IInv, TypeOK, Quiet
    <3> QED BY <2>1, <3>2, <3>3, <3>4
  <2>2. CASE DeleteReturns(i)
    <3>1. Fresh(i)' /\ Calling(i, "delete", "queued", "deleted") /\ resp'[i] \in {"500", "503"}
      BY <2>2 DEF IInv, Handled, Fresh
    <3>2. PICK r \in {"ok", "error", "ctx"} : Returns(i, gone[i], r) /\ Told(i, r)
      BY <2>2
    <3>3. /\ hpc'[i] = "done" /\ file'[i] = "none" /\ op'[i] = op[i] /\ ans'[i] = ans[i]
          /\ row'[i] = row[i]
      BY <2>2 DEF IInv, TypeOK
    <3>4. errs'[i] = IF r = "ok" THEN {} ELSE {r}
      BY <3>1, <3>2 DEF IInv, TypeOK, Calling
    <3>5. op'[i] = "none" \/ Late(i, "delete", "queued")'
      BY <3>1, <3>2, <3>3, <3>4 DEF Calling, Late
    <3>6. r = "ok" => op[i] = "none" /\ row[i] = "deleted"
      BY <3>1, <3>2 DEF Calling
    <3> QED BY <3>1, <3>3, <3>4, <3>5, <3>6 DEF Handled, Worked, Fresh
  <2> QED BY <2>1, <2>2
<1>4. jpc' = jpc /\ UNCHANGED process
  OBVIOUS
<1> QED BY <1>1, <1>2, <1>3, <1>4, OneKeeps DEF InFlight

\* The step that commits a write, its caller still there or not.
LEMMA ExecuteKeeps ==
  ASSUME IInv, NEW i \in Invoices, Execute(i)
  PROVE  IInv'
<1> USE DEF Execute, handler, data, job, write, process
<1>1. TypeOK'
  BY DEF IInv, TypeOK
<1>2. \A k \in Invoices \ {i} : Same(k)
  BY DEF IInv, TypeOK, Same
<1>3. Handled(i)'
  BY DEF IInv, TypeOK, Handled, Worked, Fresh, Quiet, Calling, Late
<1>4. Worked(i)'
  BY DEF IInv, TypeOK, Handled, Worked, Fresh, Quiet, Calling, Late, Status, Terminal
<1>5. jpc' = jpc /\ UNCHANGED process
  OBVIOUS
<1> QED BY <1>1, <1>2, <1>3, <1>4, <1>5, OneKeeps DEF InFlight

\* While a stage runs the store is open: no stage is told ErrClosed.
LEMMA StoreOpen ==
  ASSUME IInv, NEW i \in Invoices, PipelineRuns, InFlight(i)
  PROVE  phase # "closed"
BY DEF IInv, Stopped, PipelineRuns, TypeOK

LEMMA CallKeeps ==
  ASSUME IInv, NEW i \in Invoices, StagePreprocess(i) \/ Persist(i)
  PROVE  IInv'
<1> USE DEF StagePreprocess, Persist, Marked, JobTo, Sends, Refuses, Told,
            handler, data, job, write, process
<1>1. TypeOK'
  BY DEF IInv, TypeOK, Status
<1>2. \A k \in Invoices \ {i} : Same(k)
  BY DEF IInv, TypeOK, Same
<1>3. InFlight(i) /\ phase # "closed"
  BY StoreOpen DEF InFlight
<1>4. Handled(i)'
  BY DEF IInv, TypeOK, Handled, Worked, Fresh, Quiet, Calling, Late
<1>5. Worked(i)'
  <2>1. /\ jpc[i] \in {"ingest", "persist"} /\ Worked(i) /\ Quiet(i)
        /\ row'[i] = row[i] /\ file'[i] = file[i] /\ hpc'[i] = hpc[i]
    BY DEF IInv, Worked
  <2>2. \/ mem'[i] = "processing" /\ row[i] = "queued" /\ jpc'[i] \in {"marking", "failed"}
        \/ mem'[i] \in Terminal /\ row[i] = "processing" /\ jpc'[i] \in {"saving", "failed"}
    BY DEF IInv, TypeOK, Worked
  <2>3. CASE op'[i] = "update" /\ ans'[i] = "none" /\ errs'[i] = {} /\ jpc'[i] # "failed"
    BY <2>1, <2>2, <2>3 DEF Worked, Calling
  <2>4. CASE op'[i] = "none" /\ errs'[i] = {"ctx"} /\ jpc'[i] = "failed"
    BY <2>1, <2>2, <2>4 DEF Worked, Status
  <2>5. \/ op'[i] = "update" /\ ans'[i] = "none" /\ errs'[i] = {} /\ jpc'[i] # "failed"
        \/ op'[i] = "none" /\ errs'[i] = {"ctx"} /\ jpc'[i] = "failed"
    BY <1>3, <2>1 DEF IInv, TypeOK, Quiet
  <2> QED BY <2>3, <2>4, <2>5
<1>6. UNCHANGED process
  OBVIOUS
<1> QED BY <1>1, <1>2, <1>3, <1>4, <1>5, <1>6, OneKeeps

LEMMA ReturnKeeps ==
  ASSUME IInv, NEW i \in Invoices, MarkReturns(i) \/ SaveReturns(i)
  PROVE  IInv'
<1> USE DEF MarkReturns, SaveReturns, JobTo, Returns, Told, handler, data, job, write, process
<1>0. /\ jpc[i] = "saving" => mem[i] \in {"done", "failed"}
      /\ InFlight(i) /\ UNCHANGED process
  BY DEF IInv, Worked, Terminal, InFlight
<1>1. TypeOK'
  BY <1>0 DEF IInv, TypeOK
<1>2. \A k \in Invoices \ {i} : Same(k)
  BY DEF IInv, TypeOK, Same
<1>3. Handled(i)'
  BY <1>0 DEF IInv, TypeOK, Handled, Worked, Fresh, Quiet, Calling, Late
<1>4. Worked(i)'
  <2>1. CASE MarkReturns(i)
    BY <1>0, <2>1 DEF IInv, TypeOK, Worked, Quiet, Calling, Late, Status, Terminal
  <2>2. CASE SaveReturns(i)
    BY <1>0, <2>2 DEF IInv, TypeOK, Worked, Quiet, Calling, Late, Status, Terminal
  <2> QED BY <2>1, <2>2
<1> QED BY <1>0, <1>1, <1>2, <1>3, <1>4, OneKeeps

LEMMA ComputeKeeps ==
  ASSUME IInv, NEW i \in Invoices, Prepare(i) \/ StageOCR(i) \/ StageJev(i) \/ Expire(i)
  PROVE  IInv'
<1> USE DEF Prepare, StageOCR, StageJev, Expire, Fails, JobTo, handler, data, job, write, process
<1>0. InFlight(i) /\ UNCHANGED process
  BY DEF InFlight
<1>1. TypeOK'
  <2>1. CASE Prepare(i)
    BY <2>1 DEF IInv, TypeOK, Status
  <2>2. CASE StageOCR(i)
    BY <2>2 DEF IInv, TypeOK, Status
  <2>3. CASE StageJev(i)
    BY <2>3 DEF IInv, TypeOK, Status
  <2>4. CASE Expire(i)
    BY <2>4 DEF IInv, TypeOK, Status
  <2> QED BY <2>1, <2>2, <2>3, <2>4
<1>2. \A k \in Invoices \ {i} : Same(k)
  BY DEF IInv, TypeOK, Same
<1>3. Handled(i)'
  BY <1>0 DEF IInv, TypeOK, Handled, Worked, Fresh, Quiet, Calling, Late
<1>4. Worked(i)'
  BY DEF IInv, TypeOK, Worked, Quiet, Calling, Late, Status, Terminal
<1> QED BY <1>0, <1>1, <1>2, <1>3, <1>4, OneKeeps

\* main, and the steps of nobody.
LEMMA MainKeeps ==
  ASSUME IInv, \/ Signal \/ PprofFails \/ DrainTimeout \/ Stopping \/ Crash \/ UNCHANGED vars
  PROVE  IInv'
<1>1. UNCHANGED <<handler, data, job, write>>
  BY DEF Signal, PprofFails, DrainTimeout, Stopping, HTTPStopped, PipelineDown, StoreClose, Exit,
         Crash, Main, vars, handler, data, job, write
<1>2. /\ phase' \in {"serving", "draining", "closing", "down", "closed", "exited"}
      /\ accepting' \in BOOLEAN /\ hard' \in BOOLEAN /\ crashed' \in BOOLEAN
  <2> USE DEF IInv, TypeOK, Main
  <2>1. CASE Signal \/ HTTPStopped \/ PprofFails
    BY <2>1 DEF Signal, HTTPStopped, PprofFails
  <2>2. CASE DrainTimeout \/ PipelineDown
    BY <2>2 DEF DrainTimeout, PipelineDown
  <2>3. CASE StoreClose \/ Exit
    BY <2>3 DEF StoreClose, Exit
  <2>4. CASE Crash \/ UNCHANGED vars
    BY <2>4 DEF Crash, vars
  <2> QED BY <2>1, <2>2, <2>3, <2>4 DEF Stopping
<1>3. TypeOK'
  BY <1>1, <1>2 DEF IInv, TypeOK, handler, data, job, write
<1>4. Stopped'
  BY <1>1 DEF IInv, Stopped, InFlight, Signal, PprofFails, DrainTimeout, Stopping, HTTPStopped,
              PipelineDown, PipelineOver, StoreClose, Exit, Crash, Main, vars, job
<1>5. \A k \in Invoices : Handled(k)' /\ Worked(k)'
  BY <1>1, SameKeeps DEF IInv, Same, handler, data, job, write
<1> QED BY <1>3, <1>4, <1>5 DEF IInv

LEMMA NextIInv == IInv /\ [Next]_vars => IInv'
<1> SUFFICES ASSUME IInv, [Next]_vars PROVE IInv'
  OBVIOUS
<1>1. ASSUME NEW i \in Invoices, UploadRefused(i) \/ Upload(i) \/ Handler(i) \/ ClientGone(i)
      PROVE  IInv'
  BY <1>1, UploadKeeps, CreateReturnsKeeps, HandoffKeeps, UndoKeeps DEF Handler
<1>2. ASSUME NEW i \in Invoices, Stage(i) \/ Expire(i) \/ Execute(i)
      PROVE  IInv'
  BY <1>2, CallKeeps, ReturnKeeps, ComputeKeeps, ExecuteKeeps DEF Stage
<1>3. CASE Signal \/ PprofFails \/ DrainTimeout \/ Stopping \/ Crash \/ Over \/ UNCHANGED vars
  BY <1>3, MainKeeps DEF Over
<1> QED BY <1>1, <1>2, <1>3 DEF Next

\* IInv holds in every state of the service.
THEOREM LifeInductive == Spec => []IInv
<1> QED BY InitIInv, NextIInv, PTL DEF Spec
-----------------------------------------------------------------------------
\* The variables keep their types.
THEOREM LifeTypeCorrect == Spec => []TypeOK
<1>1. IInv => TypeOK
  BY DEF IInv
<1> QED BY <1>1, LifeInductive, PTL

LEMMA JobIsWhole == IInv => JobHasInvoice
<1> SUFFICES ASSUME IInv, NEW i \in Invoices, jpc[i] # "none"
             PROVE  row[i] \in Status /\ file[i] = "full"
  BY DEF JobHasInvoice
<1>1. Worked(i) /\ TypeOK
  BY DEF IInv
<1>2. jpc[i] \in {"ingest", "marking", "prepare", "s2", "s3", "persist", "saving",
                  "done", "failed"}
  BY <1>1 DEF TypeOK
<1> QED BY <1>1, <1>2 DEF Worked, Quiet, Calling, Late, Status, Terminal

\* A job never runs for an invoice whose row or file is gone, and rolling back
\* takes both, unless the store is in the way.
THEOREM UploadsAreWhole == Spec => []UploadIsWhole
<1>1. IInv => JobHasInvoice
  BY JobIsWhole
<1>2. IInv => RejectedLeavesNothing
  BY DEF IInv, Handled, RejectedLeavesNothing
<1>3. IInv => UploadIsWhole
  BY <1>1, <1>2 DEF UploadIsWhole
<1> QED BY <1>3, LifeInductive, PTL

\* One row is never written by two at once, abandoned writes included.
THEOREM WritesDoNotMeet == Spec => []OneWriter
<1>1. IInv => OneWriter
  <2> SUFFICES ASSUME IInv, NEW i \in Invoices, op[i] # "none"
               PROVE  /\ ans[i] = "none"
                      /\ IF op[i] = "update" THEN jpc[i] \in {"marking", "saving", "failed"}
                         ELSE jpc[i] = "none" /\ hpc[i] \in {"creating", "deleting", "done"}
                      /\ op[i] = "delete" => row[i] = "queued"
    BY DEF OneWriter
  <2>1. Handled(i) /\ Worked(i) /\ TypeOK
    BY DEF IInv
  <2>2. CASE jpc[i] = "none"
    BY <2>1, <2>2 DEF TypeOK, Handled, Quiet, Calling, Late
  <2>3. CASE jpc[i] # "none"
    BY <2>1, <2>3 DEF TypeOK, Worked, Quiet, Calling, Late
  <2> QED BY <2>2, <2>3
<1> QED BY <1>1, LifeInductive, PTL

\* What a finished job reports is what its row says; the store is closed after
\* the last stage; and a stop that is not forced leaves nothing unsettled.
THEOREM ResultsAreSaved == Spec => []ResultsReachRow
<1>1. IInv => EndedIsSettled /\ StoreOutlivesJobs
  BY DEF IInv, Worked, Terminal, EndedIsSettled, StoreOutlivesJobs
<1>2. IInv => GracefulStopSettles
  <2> SUFFICES ASSUME IInv, phase = "exited", ~hard, NEW i \in Invoices,
                      resp[i] = "202", errs[i] = {}
               PROVE  row[i] \in Terminal
    BY DEF GracefulStopSettles
  <2>1. jpc[i] # "none"
    BY DEF IInv, TypeOK, Handled
  <2>2. jpc[i] \in Terminal
    BY <2>1 DEF IInv, Stopped, InFlight, Terminal
  <2> QED BY <1>1, <2>2 DEF EndedIsSettled
<1>3. IInv => ResultsReachRow
  BY <1>1, <1>2 DEF ResultsReachRow
<1> QED BY <1>3, LifeInductive, PTL

\* A client that polls sees queued, then processing, then the result.
THEOREM PollsForward == Spec => StatusForward
<1>1. IInv /\ [Next]_vars => [RowStep]_row
  <2> SUFFICES ASSUME IInv, [Next]_vars, row' # row PROVE RowStep
    OBVIOUS
  <2>1. PICK i \in Invoices : Execute(i)
    BY DEF Next, Handler, Stage, Stopping, UploadRefused, Upload, CreateReturns, Accept, Refuse,
           Undo, DeleteReturns, Answer, ClientGone, StagePreprocess, MarkReturns, Prepare,
           StageOCR, StageJev, Persist, SaveReturns, Expire, Signal, HTTPStopped, PprofFails,
           DrainTimeout, PipelineDown, StoreClose, Exit, Crash, Over, Main, vars, data
  <2>2. Handled(i) /\ Worked(i) /\ TypeOK /\ op[i] # "none"
    BY <2>1 DEF IInv, Execute
  <2>3. \/ op[i] = "create" /\ row[i] = "none" /\ mem[i] = "queued"
        \/ op[i] = "delete" /\ row[i] = "queued"
        \/ op[i] = "update" /\ row[i] = "queued" /\ mem[i] = "processing"
        \/ op[i] = "update" /\ row[i] = "processing" /\ mem[i] \in Terminal
    <3>1. CASE jpc[i] = "none"
      BY <2>2, <3>1 DEF TypeOK, Handled, Fresh, Quiet, Calling, Late
    <3>2. CASE jpc[i] # "none"
      BY <2>2, <3>2 DEF TypeOK, Worked, Quiet, Calling, Late
    <3> QED BY <3>1, <3>2
  <2>4. row' = [row EXCEPT ![i] = IF op[i] = "delete" THEN "deleted" ELSE mem[i]]
    BY <2>1 DEF Execute
  <2>5. \A k \in Invoices : row'[k] # row[k] => k = i
    BY <2>2, <2>4 DEF TypeOK
  <2>6. row'[i] # row[i] =>
          <<row[i], row'[i]>> \in {<<"none", "queued">>, <<"queued", "deleted">>,
                                  <<"queued", "processing">>,
                                  <<"processing", "done">>, <<"processing", "failed">>}
    BY <2>2, <2>3, <2>4 DEF TypeOK, Terminal
  <2> QED BY <2>5, <2>6 DEF RowStep
<1> QED BY <1>1, LifeInductive, PTL DEF Spec, StatusForward
-----------------------------------------------------------------------------
Jobs == [i \in Invoices |-> JobState(i)]

\* A stage runs only while the job service is not down.
LEMMA StageNotDown ==
  ASSUME IInv, NEW i \in Invoices, PipelineRuns, InFlight(i)
  PROVE  ServiceMode # "down"
BY DEF IInv, TypeOK, Stopped, PipelineRuns, ServiceMode

LEMMA StageRefines ==
  ASSUME IInv, NEW i \in Invoices, Stage(i)
  PROVE  Service!Next \/ UNCHANGED <<Jobs, ServiceMode>>
<1> USE DEF Stage, StagePreprocess, MarkReturns, Prepare, StageOCR, StageJev, Persist, SaveReturns
<1>1. PipelineRuns /\ InFlight(i) /\ UNCHANGED process
  BY DEF InFlight
<1>2. PICK pc : jpc' = [jpc EXCEPT ![i] = pc] /\ (pc \in Terminal \/ pc \notin Terminal \union {"none"})
  <2>1. jpc[i] = "saving" => mem[i] \in Terminal
    BY DEF IInv, Worked
  <2> QED BY <2>1 DEF JobTo, Fails, Terminal
<1>3. ServiceMode' = ServiceMode
  BY <1>1 DEF ServiceMode, process
<1>4. Jobs[i] = "accepted"
  BY <1>1 DEF Jobs, JobState, InFlight, Terminal
<1>5. CASE pc \in Terminal
  <2>1. Jobs' = [Jobs EXCEPT ![i] = pc]
    BY <1>2, <1>5 DEF Jobs, JobState, IInv, TypeOK
  <2>2. Service!Finish(i)
    BY <1>1, <1>3, <1>4, <1>5, <2>1, StageNotDown
    DEF Service!Finish, Service!Move, Jobs, Terminal
  <2> QED BY <2>2 DEF Service!Next
<1>6. CASE pc \notin Terminal \union {"none"}
  <2>1. Jobs' = Jobs
    BY <1>1, <1>2, <1>6 DEF Jobs, JobState, IInv, TypeOK, InFlight, Terminal
  <2> QED BY <1>3, <2>1
<1> QED BY <1>2, <1>5, <1>6

LEMMA AcceptRefines ==
  ASSUME IInv, NEW i \in Invoices, Accept(i)
  PROVE  Service!Next
<1>1. jpc[i] = "none" /\ ServiceMode = "open"
  BY DEF IInv, Handled, Fresh, Accept, MayAccept, ServiceMode
<1>2. Jobs[i] = "new"
  BY <1>1 DEF Jobs, JobState, Terminal
<1>3. Jobs' = [Jobs EXCEPT ![i] = "accepted"]
  BY DEF Accept, Jobs, JobState, IInv, TypeOK, Terminal
<1>4. ServiceMode' = ServiceMode
  BY DEF Accept, ServiceMode, process
<1>5. Service!Accept(i)
  BY <1>1, <1>2, <1>3, <1>4 DEF Service!Accept, Service!Move, Jobs
<1> QED BY <1>5 DEF Service!Next

LEMMA MainRefines ==
  ASSUME IInv, \/ Signal \/ PprofFails \/ DrainTimeout \/ Stopping
  PROVE  Service!Next \/ UNCHANGED <<Jobs, ServiceMode>>
<1>1. Jobs' = Jobs
  BY DEF Signal, PprofFails, DrainTimeout, Stopping, HTTPStopped, PipelineDown, StoreClose, Exit,
         Main, job, Jobs, JobState
<1>2. CASE Signal \/ StoreClose \/ Exit
  BY <1>1, <1>2 DEF Signal, StoreClose, PipelineOver, Exit, Main, ServiceMode
<1>3. CASE HTTPStopped \/ PprofFails
  <2>1. Service!Stop
    BY <1>1, <1>3 DEF HTTPStopped, PprofFails, Main, ServiceMode, Service!Stop, Jobs, IInv, Stopped
  <2> QED BY <2>1 DEF Service!Next
<1>4. CASE DrainTimeout
  <2>1. Service!Force
    BY <1>1, <1>4 DEF DrainTimeout, Main, ServiceMode, Service!Force, Jobs
  <2> QED BY <2>1 DEF Service!Next
<1>5. CASE PipelineDown
  <2>1. ~hard => \A i \in Invoices : Jobs[i] # "accepted"
    BY <1>5 DEF PipelineDown, InFlight, Jobs, JobState, Terminal
  <2>2. ServiceMode = (IF hard THEN "forced" ELSE "closing") /\ ServiceMode' = "down"
    BY <1>5 DEF PipelineDown, Main, ServiceMode
  <2>3. Service!Down
    BY <1>1, <2>1, <2>2 DEF Service!Down, Jobs
  <2> QED BY <2>3 DEF Service!Next
<1> QED BY <1>2, <1>3, <1>4, <1>5 DEF Stopping

\* The service uses the pipeline within what the pipeline is proved to do.
THEOREM UsesJobService == Spec => KeepsJobService
<1>1. Init => Service!Init
  BY DEF Init, Service!Init, JobState, ServiceMode, Terminal
<1>2. IInv /\ [Next]_vars => [Service!Next]_Service!vars
  <2> SUFFICES ASSUME IInv, [Next]_vars
               PROVE  Service!Next \/ UNCHANGED <<Jobs, ServiceMode>>
    BY DEF Service!vars, Jobs
  <2>1. CASE \E i \in Invoices : Stage(i)
    BY <2>1, StageRefines
  <2>2. CASE \E i \in Invoices : Accept(i)
    BY <2>2, AcceptRefines
  <2>3. CASE Signal \/ PprofFails \/ DrainTimeout \/ Stopping
    BY <2>3, MainRefines
  <2>4. CASE UNCHANGED <<jpc, phase, hard>>
    BY <2>4 DEF Jobs, JobState, ServiceMode
  <2>5. \/ \E i \in Invoices : Stage(i) \/ Accept(i)
        \/ Signal \/ PprofFails \/ DrainTimeout \/ Stopping
        \/ UNCHANGED <<jpc, phase, hard>>
    BY DEF Next, Handler, UploadRefused, Upload, CreateReturns, Refuse, Undo, DeleteReturns,
           Answer, ClientGone, Expire, Execute, Crash, Over, vars, job, process
  <2> QED BY <2>1, <2>2, <2>3, <2>4, <2>5
<1> QED BY <1>1, <1>2, LifeInductive, PTL DEF Spec, KeepsJobService, Service!Spec
-----------------------------------------------------------------------------
(* The writes of an upload, as the store promises them: which of the four   *)
(* calls a step is about (TellIs), and what the row says has been committed *)
(* (CommittedIs, LogGrows).                                                 *)

\* The first error told to an upload is the last.
LEMMA ToldIs ==
  ASSUME IInv, NEW i \in Invoices, errs[i] = {}, NEW r, Told(i, r)
  PROVE  LastTold(i)' = r
<1>1. CASE r = "ok"
  BY <1>1 DEF IInv, TypeOK, Told, LastTold
<1>2. CASE r # "ok"
  <2>1. errs'[i] = {r}
    BY <1>2 DEF IInv, TypeOK, Told
  <2>2. (CHOOSE e \in {r} : TRUE) = r
    OBVIOUS
  <2>3. errs'[i] # {}
    BY <2>1
  <2> QED BY <2>1, <2>2, <2>3 DEF LastTold
<1> QED BY <1>1, <1>2

\* The caller of a late write was told of its context.
LEMMA LateIs ==
  ASSUME NEW i, errs[i] = {"ctx"}
  PROVE  LastTold(i) = "ctx"
<1>1. (CHOOSE e \in {"ctx"} : TRUE) = "ctx"
  OBVIOUS
<1> QED BY <1>1 DEF LastTold

LEMMA CommittedIs ==
  ASSUME NEW i
  PROVE  /\ row[i] = "none" => ~Writes(i)!Committed("create")
         /\ row[i] \in {"queued", "deleted", "processing", "done", "failed"}
              => Writes(i)!Committed("create")
         /\ row[i] \in {"none", "queued"} =>
              ~Writes(i)!Committed("delete") /\ ~Writes(i)!Committed("mark")
         /\ row[i] = "deleted" => Writes(i)!Committed("delete")
         /\ row[i] \in {"none", "queued", "processing"} => ~Writes(i)!Committed("save")
         /\ row[i] \in {"processing", "done", "failed"} => Writes(i)!Committed("mark")
         /\ row[i] \in {"done", "failed"} => Writes(i)!Committed("save")
BY DEF Writes!Committed, LogOf, Terminal

\* A step that leaves the row tells one of the calls something, or nothing.
LEMMA TellIs ==
  ASSUME NEW i, UNCHANGED <<row, phase>>, NEW c \in Kinds, NEW r,
         c # "create" => CreateState(i)' = CreateState(i),
         c # "delete" => DeleteState(i)' = DeleteState(i),
         c # "mark" => MarkState(i)' = MarkState(i),
         c # "save" => SaveState(i)' = SaveState(i),
         CallStates(i)'[c] = r
  PROVE  Writes(i)!Tell(c, r)
<1>1. UNCHANGED <<LogOf(row[i]), phase # "exited">>
  BY DEF LogOf, Terminal
<1>2. CallStates(i)' = [CallStates(i) EXCEPT ![c] = r]
  BY DEF CallStates, Kinds
<1> QED BY <1>1, <1>2 DEF Writes!Tell

LEMMA SameCalls ==
  ASSUME NEW i, CreateState(i)' = CreateState(i), DeleteState(i)' = DeleteState(i),
         MarkState(i)' = MarkState(i), SaveState(i)' = SaveState(i)
  PROVE  CallStates(i)' = CallStates(i)
BY DEF CallStates

LEMMA SameWrites ==
  ASSUME NEW k, Same(k), UNCHANGED phase
  PROVE  UNCHANGED Writes(k)!vars
<1>1. CallStates(k)' = CallStates(k)
  BY DEF Same, CallStates, CreateState, DeleteState, MarkState, SaveState, LastTold
<1>2. UNCHANGED <<LogOf(row[k]), phase # "exited">>
  BY DEF Same, LogOf
<1> QED BY <1>1, <1>2 DEF Writes!vars

LEMMA UploadWrites ==
  ASSUME IInv, NEW i \in Invoices, Upload(i)
  PROVE  Writes(i)!Next
<1>1. /\ hpc[i] = "idle" /\ Fresh(i) /\ row[i] = "none" /\ resp[i] = "none" /\ errs[i] = {}
      /\ jpc'[i] = jpc[i] /\ row' = row /\ phase' = phase /\ file'[i] = "full"
  BY DEF Upload, IInv, TypeOK, Handled, Quiet, data, job, process
<1>2. CreateState(i) = "new" /\ DeleteState(i) = "new" /\ MarkState(i) = "new" /\ SaveState(i) = "new"
  BY <1>1 DEF CreateState, DeleteState, MarkState, SaveState, Fresh, Terminal
<1>3. MarkState(i)' = "new" /\ SaveState(i)' = "new"
  BY <1>1 DEF MarkState, SaveState, Fresh, Terminal
<1>4. CASE Sends(i, "create", FALSE) /\ hpc' = [hpc EXCEPT ![i] = "creating"]
  <2>1. CreateState(i)' = "open" /\ DeleteState(i)' = "new"
    BY <1>4 DEF CreateState, DeleteState, IInv, TypeOK
  <2>2. Writes(i)!Tell("create", "open")
    BY <1>1, <1>2, <1>3, <2>1, TellIs DEF CallStates, Kinds
  <2>3. Writes(i)!Begin("create")
    BY <1>2, <2>2 DEF Writes!Begin, CallStates, Kinds
  <2> QED BY <2>3 DEF Writes!Next, Kinds
<1>5. CASE Told(i, "closed") /\ Respond(i, "500")
  <2>1. LastTold(i)' = "closed"
    BY <1>1, <1>5, ToldIs
  <2>2. hpc'[i] = "done" /\ resp'[i] = "500"
    BY <1>5 DEF Respond, IInv, TypeOK
  <2>3. CreateState(i)' = "closed" /\ DeleteState(i)' = "new"
    BY <1>1, <2>1, <2>2 DEF CreateState, DeleteState
  <2>4. Writes(i)!Tell("create", "closed")
    BY <1>1, <1>2, <1>3, <2>3, TellIs DEF CallStates, Kinds
  <2>5. Writes(i)!Refuse("create")
    BY <1>2, <2>4 DEF Writes!Refuse, CallStates, Kinds
  <2> QED BY <2>5 DEF Writes!Next, Kinds
<1> QED BY <1>4, <1>5 DEF Upload

LEMMA UploadRefusedWrites ==
  ASSUME IInv, NEW i \in Invoices, UploadRefused(i)
  PROVE  UNCHANGED Writes(i)!vars
<1>1. /\ hpc[i] = "idle" /\ row[i] = "none" /\ hpc'[i] = "done" /\ jpc'[i] = jpc[i]
      /\ mem'[i] = mem[i] /\ row' = row /\ phase' = phase /\ errs' = errs
      /\ resp'[i] = "400" \/ file'[i] \in {"none", "partial"}
  BY DEF UploadRefused, Respond, IInv, TypeOK, Handled, Quiet, job, write, process
<1>2. CreateState(i)' = CreateState(i) /\ DeleteState(i)' = DeleteState(i)
  BY <1>1 DEF CreateState, DeleteState
<1>3. MarkState(i)' = MarkState(i) /\ SaveState(i)' = SaveState(i)
  BY <1>1 DEF MarkState, SaveState, LastTold
<1>4. CallStates(i)' = CallStates(i)
  BY <1>2, <1>3, SameCalls
<1> QED BY <1>1, <1>4 DEF Writes!vars, LogOf

LEMMA CreateReturnsWrites ==
  ASSUME IInv, NEW i \in Invoices, CreateReturns(i)
  PROVE  Writes(i)!Next
<1>1. /\ hpc[i] = "creating" /\ Fresh(i) /\ Calling(i, "create", "none", "queued")
      /\ jpc'[i] = jpc[i] /\ mem'[i] = mem[i] /\ file'[i] = "full" /\ row' = row /\ phase' = phase
  BY DEF CreateReturns, IInv, TypeOK, Handled, data, job, process
<1>2. PICK r \in {"ok", "error", "ctx"} :
        /\ Returns(i, gone[i], r) /\ Told(i, r)
        /\ IF r = "ok" THEN hpc' = [hpc EXCEPT ![i] = "handoff"] ELSE Respond(i, "500")
  BY DEF CreateReturns, Created, CreateFailed
<1>3. LastTold(i)' = r
  BY <1>1, <1>2, ToldIs DEF Calling
<1>4. IF r = "ok" THEN hpc'[i] = "handoff" ELSE hpc'[i] = "done" /\ resp'[i] = "500"
  BY <1>2 DEF Respond, IInv, TypeOK
<1>5. (r = "ok" => row[i] = "queued") /\ (r = "error" => row[i] = "none")
  BY <1>1, <1>2 DEF Calling, Returns
<1>6. CreateState(i) = "open" /\ CreateState(i)' = r
  BY <1>1, <1>3, <1>4, <1>5 DEF CreateState
<1>7. DeleteState(i)' = DeleteState(i) /\ MarkState(i)' = MarkState(i) /\ SaveState(i)' = SaveState(i)
  BY <1>1, <1>4 DEF DeleteState, MarkState, SaveState, Fresh, Terminal
<1>8. CallStates(i)["create"] = "open" /\ Writes(i)!Tell("create", r)
  BY <1>1, <1>6, <1>7, TellIs DEF CallStates, Kinds
<1> QED BY <1>2, <1>5, <1>8, CommittedIs
    DEF Writes!Next, Writes!Succeed, Writes!Fail, Writes!Abandon, Kinds

LEMMA HandoffWrites ==
  ASSUME IInv, NEW i \in Invoices, Accept(i) \/ Refuse(i) \/ Answer(i) \/ ClientGone(i)
  PROVE  UNCHANGED Writes(i)!vars
<1>1. /\ mem' = mem /\ row' = row /\ file' = file /\ phase' = phase /\ errs' = errs
      /\ jpc'[i] # jpc[i] => jpc[i] = "none" /\ jpc'[i] = "ingest"
  BY DEF Accept, Refuse, Answer, ClientGone, data, write, process, job, IInv, TypeOK, Handled, Fresh
<1>2. MarkState(i)' = MarkState(i) /\ SaveState(i)' = SaveState(i)
  BY <1>1 DEF MarkState, SaveState, LastTold, Terminal
<1>3. hpc'[i] # hpc[i] => /\ hpc[i] \in {"handoff", "answering"}
                          /\ hpc'[i] \in {"undo", "answering", "done"}
                          /\ hpc'[i] = "done" => resp'[i] = "202"
                          /\ row[i] # "none"
  <2>1. hpc'[i] # hpc[i] =>
          \/ hpc[i] = "handoff" /\ hpc'[i] \in {"undo", "answering"}
          \/ hpc[i] = "answering" /\ hpc'[i] = "done" /\ resp'[i] = "202"
    BY DEF Accept, Refuse, Answer, ClientGone, Undoes, Respond, IInv, TypeOK
  <2>2. hpc[i] = "handoff" => row[i] # "none"
    BY DEF IInv, Handled
  <2>3. hpc[i] = "answering" => row[i] # "none"
    BY JobIsWhole DEF IInv, Handled, JobHasInvoice, Status
  <2> QED BY <2>1, <2>2, <2>3
<1>4. hpc'[i] = hpc[i] => resp'[i] = resp[i]
  BY DEF Accept, Refuse, Answer, ClientGone, Respond, Undoes, handler, IInv, TypeOK
<1>5. CreateState(i)' = CreateState(i) /\ DeleteState(i)' = DeleteState(i)
  BY <1>1, <1>3, <1>4 DEF CreateState, DeleteState, LastTold
<1>6. CallStates(i)' = CallStates(i)
  BY <1>2, <1>5, SameCalls
<1> QED BY <1>1, <1>6 DEF Writes!vars, LogOf

LEMMA UndoWrites ==
  ASSUME IInv, NEW i \in Invoices, Undo(i)
  PROVE  Writes(i)!Next
<1>1. /\ hpc[i] = "undo" /\ Fresh(i) /\ row[i] = "queued" /\ errs[i] = {}
      /\ resp[i] \in {"500", "503"} /\ resp'[i] = resp[i]
      /\ jpc'[i] = jpc[i] /\ mem'[i] = mem[i] /\ row' = row /\ phase' = phase
  BY DEF Undo, IInv, Handled, Quiet, job, process
<1>2. CreateState(i) = "ok" /\ DeleteState(i) = "new" /\ MarkState(i)' = MarkState(i)
      /\ SaveState(i)' = SaveState(i)
  BY <1>1 DEF CreateState, DeleteState, MarkState, SaveState, Fresh, Terminal
<1>3. CASE Sends(i, "delete", gone[i]) /\ hpc' = [hpc EXCEPT ![i] = "deleting"]
  <2>1. CreateState(i)' = "ok" /\ DeleteState(i)' = "open"
    BY <1>1, <1>3 DEF CreateState, DeleteState, IInv, TypeOK
  <2>2. CallStates(i)["delete"] = "new" /\ Writes(i)!Tell("delete", "open")
    BY <1>1, <1>2, <2>1, TellIs DEF CallStates, Kinds
  <2> QED BY <2>2 DEF Writes!Next, Writes!Begin, Kinds
<1>4. ASSUME NEW r \in {"ctx", "closed"}, Told(i, r), RemoveFile(i)
      PROVE  Writes(i)!Next
  <2>1. LastTold(i)' = r
    BY <1>1, <1>4, ToldIs
  <2>2. hpc'[i] = "done" /\ file'[i] = "none"
    BY <1>4 DEF RemoveFile, IInv, TypeOK
  <2>3. CreateState(i)' = "ok" /\ DeleteState(i)' = r
    BY <1>1, <2>1, <2>2 DEF CreateState, DeleteState
  <2>4. CallStates(i)["delete"] = "new" /\ Writes(i)!Tell("delete", r)
    BY <1>1, <1>2, <2>3, TellIs DEF CallStates, Kinds
  <2> QED BY <1>4, <2>4 DEF Writes!Next, Writes!Refuse, Writes!Abandon, Kinds
<1> QED BY <1>3, <1>4 DEF Undo

LEMMA DeleteReturnsWrites ==
  ASSUME IInv, NEW i \in Invoices, DeleteReturns(i)
  PROVE  Writes(i)!Next
<1>1. /\ hpc[i] = "deleting" /\ Fresh(i) /\ Calling(i, "delete", "queued", "deleted")
      /\ resp[i] \in {"500", "503"} /\ resp'[i] = resp[i]
      /\ jpc'[i] = jpc[i] /\ mem'[i] = mem[i] /\ row' = row /\ phase' = phase
      /\ hpc'[i] = "done" /\ file'[i] = "none"
  BY DEF DeleteReturns, RemoveFile, IInv, TypeOK, Handled, job, process
<1>2. PICK r \in {"ok", "error", "ctx"} : Returns(i, gone[i], r) /\ Told(i, r)
  BY DEF DeleteReturns
<1>3. LastTold(i)' = r
  BY <1>1, <1>2, ToldIs DEF Calling
<1>4. /\ row[i] \in {"queued", "deleted"}
      /\ (r = "ok" => row[i] = "deleted") /\ (r = "error" => row[i] = "queued")
  BY <1>1, <1>2 DEF Calling, Returns
<1>5. /\ CreateState(i)' = CreateState(i) /\ DeleteState(i) = "open" /\ DeleteState(i)' = r
      /\ MarkState(i)' = MarkState(i) /\ SaveState(i)' = SaveState(i)
  BY <1>1, <1>3, <1>4 DEF CreateState, DeleteState, MarkState, SaveState, Fresh, Terminal
<1>6. CallStates(i)["delete"] = "open" /\ Writes(i)!Tell("delete", r)
  BY <1>1, <1>5, TellIs DEF CallStates, Kinds
<1> QED BY <1>2, <1>4, <1>6, CommittedIs
    DEF Writes!Next, Writes!Succeed, Writes!Fail, Writes!Abandon, Kinds

\* A job's handler has answered, or is about to.
LEMMA JobAnswered ==
  ASSUME IInv, NEW i \in Invoices, jpc[i] # "none"
  PROVE  hpc[i] = "answering" \/ (hpc[i] = "done" /\ resp[i] = "202")
<1>1. Handled(i) /\ Worked(i)
  BY DEF IInv
<1>2. hpc[i] \in {"answering", "done"}
  BY <1>1 DEF Worked
<1>3. hpc[i] = "done" => resp[i] = "202"
  BY <1>1 DEF Handled
<1> QED BY <1>2, <1>3

LEMMA StageKeepsHandler ==
  ASSUME IInv, NEW i \in Invoices, jpc[i] # "none", UNCHANGED <<hpc, resp, file, row>>
  PROVE  CreateState(i)' = CreateState(i) /\ DeleteState(i)' = DeleteState(i)
<1>1. hpc[i] = "answering" \/ (hpc[i] = "done" /\ resp[i] = "202")
  BY JobAnswered
<1> QED BY <1>1 DEF CreateState, DeleteState

LEMMA PreprocessWrites ==
  ASSUME IInv, NEW i \in Invoices, StagePreprocess(i)
  PROVE  Writes(i)!Next
<1>1. /\ jpc[i] = "ingest" /\ errs[i] = {} /\ mem'[i] = "processing"
      /\ UNCHANGED <<hpc, resp, file, row, phase>>
  BY DEF StagePreprocess, Marked, IInv, TypeOK, Worked, Quiet, handler, process
<1>2. CreateState(i)' = CreateState(i) /\ DeleteState(i)' = DeleteState(i)
  BY <1>1, StageKeepsHandler
<1>3. MarkState(i) = "new" /\ SaveState(i) = "new"
  BY <1>1 DEF MarkState, SaveState, Terminal
<1>4. CASE Sends(i, "update", JobGone(i)) /\ JobTo(i, "marking")
  <2>1. MarkState(i)' = "open" /\ SaveState(i)' = "new"
    BY <1>1, <1>4 DEF JobTo, MarkState, SaveState, Terminal, IInv, TypeOK
  <2>2. CallStates(i)["mark"] = "new" /\ Writes(i)!Tell("mark", "open")
    BY <1>1, <1>2, <1>3, <2>1, TellIs DEF CallStates, Kinds
  <2> QED BY <2>2 DEF Writes!Next, Writes!Begin, Kinds
<1>5. ASSUME NEW r \in {"ctx", "closed"}, Told(i, r), JobTo(i, "failed")
      PROVE  Writes(i)!Next
  <2>1. LastTold(i)' = r /\ jpc'[i] = "failed"
    BY <1>1, <1>5, ToldIs DEF JobTo, IInv, TypeOK
  <2>2. MarkState(i)' = r /\ SaveState(i)' = "new"
    BY <1>1, <2>1 DEF MarkState, SaveState, Terminal
  <2>3. CallStates(i)["mark"] = "new" /\ Writes(i)!Tell("mark", r)
    BY <1>1, <1>2, <1>3, <2>2, TellIs DEF CallStates, Kinds
  <2> QED BY <1>5, <2>3 DEF Writes!Next, Writes!Refuse, Writes!Abandon, Kinds
<1> QED BY <1>4, <1>5 DEF StagePreprocess

LEMMA MarkReturnsWrites ==
  ASSUME IInv, NEW i \in Invoices, MarkReturns(i)
  PROVE  Writes(i)!Next
<1>1. /\ jpc[i] = "marking" /\ Calling(i, "update", "queued", "processing")
      /\ mem[i] = "processing" /\ mem'[i] = "processing"
      /\ UNCHANGED <<hpc, resp, file, row, phase>>
  BY DEF MarkReturns, IInv, Worked, handler, data, process
<1>2. CreateState(i)' = CreateState(i) /\ DeleteState(i)' = DeleteState(i)
  BY <1>1, StageKeepsHandler
<1>3. PICK r \in {"ok", "error", "ctx"} :
        /\ Returns(i, JobGone(i), r) /\ Told(i, r)
        /\ JobTo(i, IF r = "ok" THEN "prepare" ELSE "failed")
  BY DEF MarkReturns
<1>4. LastTold(i)' = r
  BY <1>1, <1>3, ToldIs DEF Calling
<1>5. jpc'[i] = IF r = "ok" THEN "prepare" ELSE "failed"
  BY <1>3 DEF JobTo, IInv, TypeOK
<1>6. (r = "ok" => row[i] = "processing") /\ (r = "error" => row[i] = "queued")
  BY <1>1, <1>3 DEF Calling, Returns
<1>7. /\ MarkState(i) = "open" /\ MarkState(i)' = r
      /\ SaveState(i) = "new" /\ SaveState(i)' = "new"
  BY <1>1, <1>4, <1>5 DEF MarkState, SaveState, Terminal
<1>8. CallStates(i)["mark"] = "open" /\ Writes(i)!Tell("mark", r)
  BY <1>1, <1>2, <1>7, TellIs DEF CallStates, Kinds
<1> QED BY <1>3, <1>6, <1>8, CommittedIs
    DEF Writes!Next, Writes!Succeed, Writes!Fail, Writes!Abandon, Kinds

LEMMA ComputeWrites ==
  ASSUME IInv, NEW i \in Invoices, Prepare(i) \/ StageOCR(i) \/ StageJev(i) \/ Expire(i)
  PROVE  UNCHANGED Writes(i)!vars
<1>1. UNCHANGED <<hpc, resp, file, row, errs, phase>> /\ jpc[i] \notin {"none", "done", "failed"}
  BY DEF Prepare, StageOCR, StageJev, Expire, InFlight, handler, data, write, process
<1>2. CreateState(i)' = CreateState(i) /\ DeleteState(i)' = DeleteState(i)
  BY <1>1, StageKeepsHandler
<1>3. \/ jpc' = jpc
      \/ jpc[i] \in {"prepare", "s2", "s3"} /\ jpc'[i] \in {"s2", "s3", "persist"}
  BY DEF Prepare, StageOCR, StageJev, Expire, Fails, JobTo, IInv, TypeOK
<1>4. MarkState(i)' = MarkState(i) /\ SaveState(i)' = SaveState(i)
  BY <1>1, <1>3 DEF MarkState, SaveState, Terminal
<1>5. CallStates(i)' = CallStates(i)
  BY <1>2, <1>4, SameCalls
<1> QED BY <1>1, <1>5 DEF Writes!vars, LogOf

LEMMA PersistWrites ==
  ASSUME IInv, NEW i \in Invoices, Persist(i)
  PROVE  Writes(i)!Next
<1>1. /\ jpc[i] = "persist" /\ errs[i] = {} /\ mem[i] \in Terminal /\ mem'[i] = mem[i]
      /\ UNCHANGED <<hpc, resp, file, row, phase>>
  BY DEF Persist, IInv, Worked, Quiet, handler, data, process
<1>2. CreateState(i)' = CreateState(i) /\ DeleteState(i)' = DeleteState(i)
  BY <1>1, StageKeepsHandler
<1>3. MarkState(i) = "ok" /\ SaveState(i) = "new"
  BY <1>1 DEF MarkState, SaveState, Terminal
<1>4. CASE Sends(i, "update", JobGone(i)) /\ JobTo(i, "saving")
  <2>1. MarkState(i)' = "ok" /\ SaveState(i)' = "open"
    BY <1>1, <1>4 DEF JobTo, MarkState, SaveState, Terminal, IInv, TypeOK
  <2>2. CallStates(i)["save"] = "new" /\ Writes(i)!Tell("save", "open")
    BY <1>1, <1>2, <1>3, <2>1, TellIs DEF CallStates, Kinds
  <2> QED BY <2>2 DEF Writes!Next, Writes!Begin, Kinds
<1>5. ASSUME NEW r \in {"ctx", "closed"}, Told(i, r), JobTo(i, "failed")
      PROVE  Writes(i)!Next
  <2>1. LastTold(i)' = r /\ jpc'[i] = "failed"
    BY <1>1, <1>5, ToldIs DEF JobTo, IInv, TypeOK
  <2>2. MarkState(i)' = "ok" /\ SaveState(i)' = r
    BY <1>1, <2>1 DEF MarkState, SaveState, Terminal
  <2>3. CallStates(i)["save"] = "new" /\ Writes(i)!Tell("save", r)
    BY <1>1, <1>2, <1>3, <2>2, TellIs DEF CallStates, Kinds
  <2> QED BY <1>5, <2>3 DEF Writes!Next, Writes!Refuse, Writes!Abandon, Kinds
<1> QED BY <1>4, <1>5 DEF Persist

LEMMA SaveReturnsWrites ==
  ASSUME IInv, NEW i \in Invoices, SaveReturns(i)
  PROVE  Writes(i)!Next
<1>1. /\ jpc[i] = "saving" /\ Calling(i, "update", "processing", mem[i])
      /\ mem[i] \in {"done", "failed"} /\ mem'[i] = mem[i]
      /\ UNCHANGED <<hpc, resp, file, row, phase>>
  BY DEF SaveReturns, IInv, Worked, Terminal, handler, data, process
<1>2. CreateState(i)' = CreateState(i) /\ DeleteState(i)' = DeleteState(i)
  BY <1>1, StageKeepsHandler
<1>3. PICK r \in {"ok", "error", "ctx"} :
        /\ Returns(i, JobGone(i), r) /\ Told(i, r)
        /\ JobTo(i, IF r = "ok" THEN mem[i] ELSE "failed")
  BY DEF SaveReturns
<1>4. LastTold(i)' = r
  BY <1>1, <1>3, ToldIs DEF Calling
<1>5. jpc'[i] \in {"done", "failed"}
  BY <1>1, <1>3 DEF JobTo, IInv, TypeOK
<1>6. (r = "ok" => row[i] = mem[i]) /\ (r = "error" => row[i] = "processing")
  BY <1>1, <1>3 DEF Calling, Returns
<1>7. /\ SaveState(i) = "open" /\ SaveState(i)' = r
      /\ MarkState(i) = "ok" /\ MarkState(i)' = "ok"
  BY <1>1, <1>4, <1>5 DEF MarkState, SaveState, Terminal
<1>8. CallStates(i)["save"] = "open" /\ Writes(i)!Tell("save", r)
  BY <1>1, <1>2, <1>7, TellIs DEF CallStates, Kinds
<1> QED BY <1>1, <1>3, <1>6, <1>8, CommittedIs
    DEF Writes!Next, Writes!Succeed, Writes!Fail, Writes!Abandon, Kinds

\* The write with the writer, its caller waiting or told of its context.
LEMMA PendingIs ==
  ASSUME IInv, NEW i \in Invoices, op[i] # "none"
  PROVE  \/ /\ op[i] = "create" /\ row[i] = "none" /\ mem[i] = "queued" /\ jpc[i] = "none"
            /\ hpc[i] \in {"creating", "done"}
            /\ (hpc[i] = "done" => resp[i] = "500" /\ file[i] = "full")
            /\ CreateState(i) \in {"open", "ctx"}
         \/ /\ op[i] = "delete" /\ row[i] = "queued" /\ jpc[i] = "none"
            /\ hpc[i] \in {"deleting", "done"}
            /\ (hpc[i] = "done" => resp[i] # "202" /\ file[i] = "none")
            /\ DeleteState(i) \in {"open", "ctx"}
         \/ /\ op[i] = "update" /\ row[i] = "queued" /\ mem[i] = "processing" /\ jpc[i] # "none"
            /\ MarkState(i) \in {"open", "ctx"}
         \/ /\ op[i] = "update" /\ row[i] = "processing" /\ mem[i] \in {"done", "failed"}
            /\ jpc[i] # "none" /\ SaveState(i) \in {"open", "ctx"}
<1>1. Handled(i) /\ Worked(i) /\ TypeOK
  BY DEF IInv
<1>2. CASE jpc[i] = "none"
  <2>1. \/ hpc[i] = "creating" /\ op[i] = "create" /\ row[i] = "none" /\ mem[i] = "queued"
        \/ hpc[i] = "deleting" /\ op[i] = "delete" /\ row[i] = "queued"
        \/ /\ hpc[i] = "done" /\ resp[i] # "202" /\ mem[i] = "queued" /\ errs[i] = {"ctx"}
           /\ \/ op[i] = "create" /\ row[i] = "none" /\ resp[i] = "500" /\ file[i] = "full"
              \/ op[i] = "delete" /\ row[i] = "queued" /\ file[i] = "none"
    BY <1>1, <1>2 DEF TypeOK, Handled, Fresh, Quiet, Calling, Late
  <2> QED BY <1>2, <2>1, LateIs DEF CreateState, DeleteState
<1>3. CASE jpc[i] # "none"
  <2>1. /\ op[i] = "update"
        /\ \/ jpc[i] = "marking" /\ mem[i] = "processing" /\ row[i] = "queued"
           \/ jpc[i] = "saving" /\ mem[i] \in Terminal /\ row[i] = "processing"
           \/ /\ jpc[i] = "failed" /\ errs[i] = {"ctx"}
              /\ \/ mem[i] = "processing" /\ row[i] = "queued"
                 \/ mem[i] \in Terminal /\ row[i] = "processing"
    BY <1>1, <1>3 DEF TypeOK, Worked, Quiet, Calling, Late
  <2> QED BY <1>3, <2>1, LateIs DEF MarkState, SaveState, Terminal
<1> QED BY <1>2, <1>3

LEMMA CommitIs ==
  ASSUME NEW i, UNCHANGED <<CallStates(i), phase>>, phase # "exited", NEW c \in Kinds,
         CallStates(i)[c] \in {"open", "ctx"}, ~Writes(i)!Committed(c),
         LogOf(row'[i]) = Append(LogOf(row[i]), c)
  PROVE  Writes(i)!Next
<1>1. Writes(i)!Commit(c)
  BY DEF Writes!Commit
<1> QED BY <1>1 DEF Writes!Next

LEMMA AppendIs ==
  ASSUME NEW s \in Seq(Kinds), NEW c \in Kinds, NEW t \in Seq(Kinds), Len(t) = Len(s) + 1,
         \A n \in 1..Len(s) : t[n] = s[n], t[Len(s) + 1] = c
  PROVE  Append(s, c) = t
<1>1. Len(s) \in Nat
  OBVIOUS
<1>2. \A n \in 1..(Len(s) + 1) : n \in 1..Len(s) \/ n = Len(s) + 1
  BY <1>1
<1>3. \A n \in 1..Len(Append(s, c)) : Append(s, c)[n] = t[n]
  BY <1>1, <1>2, AppendProperties
<1> QED BY <1>3, AppendProperties, SeqEqual

LEMMA LogGrows ==
  /\ LogOf("queued") = Append(LogOf("none"), "create")
  /\ LogOf("deleted") = Append(LogOf("queued"), "delete")
  /\ LogOf("processing") = Append(LogOf("queued"), "mark")
  /\ \A r \in {"done", "failed"} : LogOf(r) = Append(LogOf("processing"), "save")
<1>1. /\ LogOf("none") = <<>> /\ LogOf("queued") = <<"create">>
      /\ LogOf("deleted") = <<"create", "delete">>
      /\ LogOf("processing") = <<"create", "mark">>
  BY DEF LogOf, Terminal
<1>2. \A r \in {"done", "failed"} : LogOf(r) = <<"create", "mark", "save">>
  BY DEF LogOf, Terminal
<1>3. Append(<<>>, "create") = <<"create">>
  BY AppendIs DEF Kinds
<1>4. ASSUME NEW c \in Kinds
      PROVE  Append(<<"create">>, c) = <<"create", c>>
  <2> DEFINE s == <<"create">>
             t == <<"create", c>>
  <2>1. s \in Seq(Kinds) /\ Len(s) = 1 /\ s[1] = "create"
    BY DEF Kinds
  <2>2. t \in Seq(Kinds) /\ Len(t) = 2 /\ t[1] = "create" /\ t[2] = c
    BY DEF Kinds
  <2>3. Len(t) = Len(s) + 1 /\ (\A n \in 1..Len(s) : t[n] = s[n]) /\ t[Len(s) + 1] = c
    BY <2>1, <2>2
  <2> HIDE DEF s, t
  <2>4. Append(s, c) = t
    BY <2>1, <2>2, <2>3, AppendIs
  <2> QED BY <2>4 DEF s, t
<1>5. Append(<<"create", "mark">>, "save") = <<"create", "mark", "save">>
  <2> DEFINE s == <<"create", "mark">>
             t == <<"create", "mark", "save">>
  <2>1. s \in Seq(Kinds) /\ Len(s) = 2 /\ s[1] = "create" /\ s[2] = "mark"
    BY DEF Kinds
  <2>2. t \in Seq(Kinds) /\ Len(t) = 3 /\ t[1] = "create" /\ t[2] = "mark" /\ t[3] = "save"
    BY DEF Kinds
  <2>3. Len(t) = Len(s) + 1 /\ (\A n \in 1..Len(s) : t[n] = s[n]) /\ t[Len(s) + 1] = "save"
    BY <2>1, <2>2
  <2>4. "save" \in Kinds
    BY DEF Kinds
  <2> HIDE DEF s, t
  <2>5. Append(s, "save") = t
    BY <2>1, <2>2, <2>3, <2>4, AppendIs
  <2> QED BY <2>5 DEF s, t
<1> QED BY <1>1, <1>2, <1>3, <1>4, <1>5 DEF Kinds

LEMMA ExecuteWrites ==
  ASSUME IInv, NEW i \in Invoices, Execute(i)
  PROVE  Writes(i)!Next \/ UNCHANGED Writes(i)!vars
<1>1. /\ op[i] # "none" /\ phase # "exited"
      /\ UNCHANGED <<hpc, resp, file, mem, jpc, errs, phase>>
  BY DEF Execute, Running, handler, job, process
<1>2. CASE UNCHANGED row
  BY <1>1, <1>2 DEF Writes!vars, CallStates, CreateState, DeleteState, MarkState, SaveState,
                    LastTold, LogOf
<1>3. CASE row' = [row EXCEPT ![i] = IF op[i] = "delete" THEN "deleted" ELSE mem[i]]
  <2>1. row'[i] = IF op[i] = "delete" THEN "deleted" ELSE mem[i]
    BY <1>3 DEF IInv, TypeOK
  <2>2. MarkState(i)' = MarkState(i) /\ SaveState(i)' = SaveState(i)
    BY <1>1 DEF MarkState, SaveState, LastTold
  <2>3. CASE op[i] = "create"
    <3>1. /\ row[i] = "none" /\ row'[i] = "queued" /\ CreateState(i) \in {"open", "ctx"}
          /\ hpc[i] \in {"creating", "done"} /\ (hpc[i] = "done" => resp[i] = "500" /\ file[i] = "full")
      BY <1>1, <2>1, <2>3, PendingIs
    <3>2. CreateState(i)' = CreateState(i) /\ DeleteState(i)' = DeleteState(i)
      BY <1>1, <3>1 DEF CreateState, DeleteState, LastTold
    <3>3. LogOf(row'[i]) = Append(LogOf(row[i]), "create")
      BY <3>1, LogGrows
    <3>4. CallStates(i)["create"] \in {"open", "ctx"} /\ UNCHANGED <<CallStates(i), phase>>
      BY <1>1, <2>2, <3>1, <3>2, SameCalls DEF CallStates, Kinds
    <3> QED BY <1>1, <3>1, <3>3, <3>4, CommittedIs, CommitIs DEF Kinds
  <2>4. CASE op[i] = "delete"
    <3>1. /\ row[i] = "queued" /\ row'[i] = "deleted" /\ DeleteState(i) \in {"open", "ctx"}
          /\ hpc[i] \in {"deleting", "done"} /\ (hpc[i] = "done" => resp[i] # "202" /\ file[i] = "none")
      BY <1>1, <2>1, <2>4, PendingIs
    <3>2. CreateState(i)' = CreateState(i) /\ DeleteState(i)' = DeleteState(i)
      BY <1>1, <3>1 DEF CreateState, DeleteState, LastTold
    <3>3. LogOf(row'[i]) = Append(LogOf(row[i]), "delete")
      BY <3>1, LogGrows
    <3>4. CallStates(i)["delete"] \in {"open", "ctx"} /\ UNCHANGED <<CallStates(i), phase>>
      BY <1>1, <2>2, <3>1, <3>2, SameCalls DEF CallStates, Kinds
    <3> QED BY <1>1, <3>1, <3>3, <3>4, CommittedIs, CommitIs DEF Kinds
  <2>5. CASE op[i] = "update"
    <3>1. /\ jpc[i] # "none" /\ row'[i] = mem[i]
          /\ \/ row[i] = "queued" /\ mem[i] = "processing" /\ MarkState(i) \in {"open", "ctx"}
             \/ /\ row[i] = "processing" /\ mem[i] \in {"done", "failed"}
                /\ SaveState(i) \in {"open", "ctx"}
      BY <1>1, <2>1, <2>5, PendingIs
    <3>2. hpc[i] = "answering" \/ (hpc[i] = "done" /\ resp[i] = "202")
      BY <3>1, JobAnswered
    <3>3. CreateState(i)' = CreateState(i) /\ DeleteState(i)' = DeleteState(i)
      BY <1>1, <3>1, <3>2 DEF CreateState, DeleteState
    <3>4. UNCHANGED <<CallStates(i), phase>>
      BY <1>1, <2>2, <3>3, SameCalls
    <3>5. CASE row[i] = "queued"
      <4>1. CallStates(i)["mark"] \in {"open", "ctx"}
        BY <3>1, <3>5 DEF CallStates, Kinds
      <4>2. LogOf(row'[i]) = Append(LogOf(row[i]), "mark")
        BY <3>1, <3>5, LogGrows
      <4> QED BY <1>1, <3>4, <3>5, <4>1, <4>2, CommittedIs, CommitIs DEF Kinds
    <3>6. CASE row[i] = "processing"
      <4>1. CallStates(i)["save"] \in {"open", "ctx"}
        BY <3>1, <3>6 DEF CallStates, Kinds
      <4>2. LogOf(row'[i]) = Append(LogOf(row[i]), "save")
        BY <3>1, <3>6, LogGrows
      <4> QED BY <1>1, <3>4, <3>6, <4>1, <4>2, CommittedIs, CommitIs DEF Kinds
    <3> QED BY <3>1, <3>5, <3>6
  <2> QED BY <1>1, <2>3, <2>4, <2>5 DEF IInv, TypeOK
<1> QED BY <1>2, <1>3 DEF Execute

\* main closes the database when it exits, and changes nothing else.
LEMMA MainWrites ==
  ASSUME NEW i, \/ Signal \/ PprofFails \/ DrainTimeout \/ Stopping \/ Crash \/ UNCHANGED vars
  PROVE  Writes(i)!Next \/ UNCHANGED Writes(i)!vars
<1>1. UNCHANGED <<hpc, resp, file, row, mem, jpc, errs>>
  BY DEF Signal, PprofFails, DrainTimeout, Stopping, HTTPStopped, PipelineDown, StoreClose, Exit,
         Crash, Main, vars, handler, data, job, write
<1>2. UNCHANGED <<CallStates(i), LogOf(row[i])>>
  BY <1>1 DEF CallStates, CreateState, DeleteState, MarkState, SaveState, LastTold, LogOf
<1>3. CASE UNCHANGED (phase # "exited")
  BY <1>2, <1>3 DEF Writes!vars
<1>4. CASE phase # "exited" /\ phase' = "exited"
  BY <1>2, <1>4 DEF Writes!Next, Writes!Close
<1>5. UNCHANGED (phase # "exited") \/ (phase # "exited" /\ phase' = "exited")
  BY DEF Signal, PprofFails, DrainTimeout, Stopping, HTTPStopped, PipelineDown, StoreClose, Exit,
         Crash, Main, Running, vars
<1> QED BY <1>3, <1>4, <1>5
-----------------------------------------------------------------------------
LEMMA OneWrites ==
  ASSUME IInv, NEW i \in Invoices,
         \/ UploadRefused(i) \/ Upload(i) \/ Handler(i) \/ ClientGone(i)
         \/ Stage(i) \/ Expire(i) \/ Execute(i)
  PROVE  WritesStep
<1>1. UNCHANGED Writes(i)!vars \/ Writes(i)!Next
  BY UploadRefusedWrites, UploadWrites, CreateReturnsWrites, HandoffWrites, UndoWrites,
     DeleteReturnsWrites, PreprocessWrites, MarkReturnsWrites, ComputeWrites, PersistWrites,
     SaveReturnsWrites, ExecuteWrites DEF Handler, Stage
<1>2. (\A k \in Invoices \ {i} : Same(k)) /\ UNCHANGED phase
  <2>0. CASE UploadRefused(i) \/ ClientGone(i)
    BY <2>0 DEF UploadRefused, ClientGone, Respond, handler, data, job, write, process,
                IInv, TypeOK, Same
  <2>1. CASE Upload(i)
    <3>1. /\ \/ UNCHANGED <<resp, errs>>
             \/ \E f, e : resp' = [resp EXCEPT ![i] = f] /\ errs' = [errs EXCEPT ![i] = e]
          /\ \E h : hpc' = [hpc EXCEPT ![i] = h]
          /\ \/ UNCHANGED <<op, ans>>
             \/ op' = [op EXCEPT ![i] = "create"] /\ ans' = [ans EXCEPT ![i] = "none"]
      BY <2>1 DEF Upload, Respond, Sends, Told
    <3> QED BY <2>1, <3>1 DEF Upload, job, process, IInv, TypeOK, Same
  <2>2. CASE CreateReturns(i) \/ Accept(i) \/ Refuse(i) \/ Answer(i)
    BY <2>2 DEF CreateReturns, CreateFailed, Accept, Refuse, Answer, Respond, Told,
                handler, data, job, write, process, IInv, TypeOK, Same
  <2>3. CASE Undo(i) \/ DeleteReturns(i)
    BY <2>3 DEF Undo, DeleteReturns, RemoveFile, Sends, Told,
                handler, data, job, write, process, IInv, TypeOK, Same
  <2>4. CASE Stage(i) \/ Expire(i)
    BY <2>4 DEF Stage, StagePreprocess, MarkReturns, Prepare, StageOCR, StageJev, Persist,
                SaveReturns, Expire, Fails, JobTo, Sends, Told,
                handler, data, job, write, process, IInv, TypeOK, Same
  <2>5. CASE Execute(i)
    BY <2>5 DEF Execute, handler, data, job, write, process, IInv, TypeOK, Same
  <2> QED BY <2>0, <2>1, <2>2, <2>3, <2>4, <2>5 DEF Handler
<1> QED BY <1>1, <1>2, SameWrites DEF WritesStep

\* The service uses the store within what the write queue is proved to do, and
\* relies on no more: each upload's writes, late ones included, are atomic.
THEOREM UsesAtomicWrites == Spec => KeepsAtomicWrites
<1>1. Init => \A i \in Invoices : Writes(i)!Init
  BY DEF Init, Writes!Init, CallStates, Kinds, CreateState, DeleteState, MarkState, SaveState,
         LogOf, Terminal
<1>2. IInv /\ [Next]_vars => WritesStep
  <2> SUFFICES ASSUME IInv, [Next]_vars PROVE WritesStep
    OBVIOUS
  <2>1. CASE Signal \/ PprofFails \/ DrainTimeout \/ Stopping \/ Crash \/ Over \/ UNCHANGED vars
    BY <2>1, MainWrites DEF Over, WritesStep
  <2> QED BY <2>1, OneWrites DEF Next
<1>3. IInv /\ [Next]_vars => [WritesStep]_vars
  BY <1>2
<1> QED BY <1>1, <1>3, LifeInductive, PTL DEF Spec, KeepsAtomicWrites

\* Both packages are used for no more than they are proved to do.
THEOREM UsesPackages == Spec => KeepsPromises
<1> QED BY UsesJobService, UsesAtomicWrites DEF KeepsPromises
=============================================================================
