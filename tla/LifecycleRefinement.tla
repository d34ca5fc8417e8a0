------------------------ MODULE LifecycleRefinement -------------------------
(* The life of an invoice uses the pipeline as the job service and the store *)
(* as the atomic writes that they implement.                                 *)
EXTENDS InvoiceLifecycle, Sequences, Naturals

JobState(i) == IF jpc[i] \in Terminal THEN jpc[i]
               ELSE IF jpc[i] # "none" THEN "accepted"
               ELSE "new"

ServiceMode == IF phase \in {"serving", "draining"} THEN "open"
               ELSE IF phase # "closing" THEN "down"
               ELSE IF hard THEN "forced" ELSE "closing"

Service == INSTANCE JobService
             WITH Jobs <- Invoices, state <- [i \in Invoices |-> JobState(i)], mode <- ServiceMode

\* What the stages and main do with jobs is what the job service allows.
KeepsJobService == Service!Spec
-----------------------------------------------------------------------------
\* The writes of one upload: Create and Delete of the handler, the Update of
\* StagePreprocess, and the last Update.
Kinds == {"create", "delete", "mark", "save"}

\* What the last of them that returned has told: an upload makes no write after
\* one that failed.
LastTold(i) == IF errs[i] = {} THEN "ok" ELSE CHOOSE r \in errs[i] : TRUE

CreateState(i) ==
  IF hpc[i] = "creating" THEN "open"
  ELSE IF hpc[i] = "done" /\ resp[i] = "500" /\ file[i] = "full" THEN LastTold(i)
  ELSE IF row[i] = "none" THEN "new" ELSE "ok"

DeleteState(i) ==
  IF hpc[i] = "deleting" THEN "open"
  ELSE IF hpc[i] = "done" /\ resp[i] # "202" /\ file[i] = "none" /\ row[i] # "none" THEN LastTold(i)
  ELSE "new"

MarkState(i) ==
  IF jpc[i] = "marking" THEN "open"
  ELSE IF jpc[i] = "failed" /\ mem[i] = "processing" THEN LastTold(i)
  ELSE IF jpc[i] \in {"none", "ingest"} THEN "new" ELSE "ok"

SaveState(i) ==
  IF jpc[i] = "saving" THEN "open"
  ELSE IF jpc[i] \in Terminal /\ mem[i] \in Terminal THEN LastTold(i)
  ELSE "new"

CallStates(i) == [k \in Kinds |-> CASE k = "create" -> CreateState(i)
                                    [] k = "delete" -> DeleteState(i)
                                    [] k = "mark"   -> MarkState(i)
                                    [] k = "save"   -> SaveState(i)]

\* The writes that a row has seen.
LogOf(r) == CASE r = "none"       -> <<>>
              [] r = "queued"     -> <<"create">>
              [] r = "deleted"    -> <<"create", "delete">>
              [] r = "processing" -> <<"create", "mark">>
              [] r \in Terminal   -> <<"create", "mark", "save">>

Writes(i) == INSTANCE AtomicWrites
               WITH Calls <- Kinds, call <- CallStates(i), log <- LogOf(row[i]),
                    open <- phase # "exited"

WritesStep == \A i \in Invoices : UNCHANGED Writes(i)!vars \/ Writes(i)!Next

\* What handler and stages are told of their writes, and what becomes of the
\* row, late writes included, is what the store allows.
KeepsAtomicWrites == (\A i \in Invoices : Writes(i)!Init) /\ [][WritesStep]_vars

\* Both of the above: the service relies on its two packages for what they are
\* shown to do.
KeepsPromises == KeepsJobService /\ KeepsAtomicWrites
=============================================================================
