------------------------- MODULE PipelineRefinement -------------------------
(* Pipeline seen as a JobService: the refinement mapping.                    *)
EXTENDS Pipeline

\* What has become of a job, for the service.
JobState(j) ==
  IF outcome[j] # "none" THEN outcome[j]
  ELSE IF epc[j] \in {"idle", "lock", "send"} THEN "new"
  ELSE IF Accepted(j) THEN "accepted" ELSE "rejected"

\* The service is down once a call of Shutdown has returned.
ServiceMode ==
  IF \E d \in Stoppers : spc[d] = "returned" THEN "down"
  ELSE IF hard THEN "forced" ELSE IF stopped THEN "closing" ELSE "open"

Service == INSTANCE JobService
             WITH state <- [j \in Jobs |-> JobState(j)], mode <- ServiceMode

\* The pipeline is a job service: every step of a goroutine is a step of the
\* service or none (ordering, loss and the end of accepting all at once).
ImplementsService == Service!Spec
=============================================================================
