----------------------------- MODULE JobService -----------------------------
(***************************************************************************)
(* What package worker promises to the rest of the program, without its    *)
(* channels and goroutines (the doc comments of Enqueue and Shutdown and   *)
(* of PipelineOptions in internal/worker/pool.go).                         *)
(*                                                                         *)
(* An upload is accepted or rejected, once.  An accepted job is finished   *)
(* by its stages, successfully or not.  Stopping ends the accepting;       *)
(* only a forced stop may lose jobs; when the service is down, nothing     *)
(* happens any more and nothing accepted is unfinished unless it was       *)
(* forced.                                                                 *)
(***************************************************************************)
CONSTANT Jobs

VARIABLES state,  \* of each job
          mode    \* of the service

vars == <<state, mode>>

Init == /\ state = [j \in Jobs |-> "new"]
        /\ mode = "open"

Move(j, from, to) == /\ state[j] = from
                     /\ state' = [state EXCEPT ![j] = to]

Accept(j) == mode = "open" /\ Move(j, "new", "accepted") /\ UNCHANGED mode
Reject(j) == Move(j, "new", "rejected") /\ UNCHANGED mode

Finish(j) == /\ mode # "down"
             /\ Move(j, "accepted", "done") \/ Move(j, "accepted", "failed")
             /\ UNCHANGED mode

Drop(j) == mode = "forced" /\ Move(j, "accepted", "dropped") /\ UNCHANGED mode

Stop  == mode = "open" /\ mode' = "closing" /\ UNCHANGED state
Force == mode = "closing" /\ mode' = "forced" /\ UNCHANGED state

\* The caller of Shutdown is told that it is over.
Down == /\ \/ mode = "forced"
           \/ mode = "closing" /\ \A j \in Jobs : state[j] # "accepted"
        /\ mode' = "down"
        /\ UNCHANGED state

Next == \/ \E j \in Jobs : Accept(j) \/ Reject(j) \/ Finish(j) \/ Drop(j)
        \/ Stop \/ Force \/ Down

Spec == Init /\ [][Next]_vars
=============================================================================
