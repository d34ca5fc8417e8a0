------------------------------ MODULE JevClient ------------------------------
(***************************************************************************)
(* One call of Client.Evaluate of internal/jev/client.go: a POST, up to    *)
(* maxRetries times, under a context with a deadline, and the verdict      *)
(* composed from the answer.  What comes of it is stored with the extract  *)
(* it judged, and the analysis is made of that (module Verdict).           *)
(*                                                                         *)
(* The service is external: it may judge a request and the reply be lost.  *)
(***************************************************************************)
EXTENDS Verdict

CONSTANTS MaxRetries, Nothing

ASSUME RetriesAssumption == MaxRetries \in Nat \ {0} /\ Nothing \notin Judgments

VARIABLES
  key,      \* an API key is configured; never changes
  extract,  \* State.Extracted, its totals; never changes
  pc,       \* "idle", "send", "flight", "backoff", "returned"
  attempt,  \* the loop variable of post
  ctx,      \* "open" or "done"
  lastErr,  \* the last error that was worth a retry
  err,      \* what Evaluate returns: an error, or "none"
  judgment, \* and a judgment, or Nothing
  judging,  \* the service has judged the request in flight
  posts,    \* history: requests sent
  last      \* history: the last reply

vars == <<key, extract, pc, attempt, ctx, lastErr, err, judgment, judging, posts, last>>

Errors == {"none", "key", "context", "lost", "busy", "status", "garbage"}

TypeOK ==
  /\ key \in BOOLEAN /\ extract \in Extracts
  /\ pc \in {"idle", "send", "flight", "backoff", "returned"}
  /\ attempt \in 0..(MaxRetries - 1)
  /\ ctx \in {"open", "done"}
  /\ lastErr \in Errors /\ err \in Errors
  /\ judgment \in Judgments \union {Nothing}
  /\ judging \in BOOLEAN
  /\ posts \in Nat
  /\ last \in {"none", "answer", "lost", "busy", "status", "garbage"}

Init ==
  /\ key \in BOOLEAN /\ extract \in Extracts
  /\ pc = "idle" /\ attempt = 0 /\ ctx = "open"
  /\ lastErr = "none" /\ err = "none" /\ judgment = Nothing
  /\ judging = FALSE /\ posts = 0 /\ last = "none"
-----------------------------------------------------------------------------
\* Seeded faults, as in Verdict.
FaultMoreAttempts == attempt < MaxRetries       \* one attempt too many
FaultRetryable    == {"lost", "busy", "status"} \* any status is tried again
FaultStopReason   == lastErr                    \* the backoff ends with the last error
FaultAborts       == FALSE                      \* the request does not carry the context
-----------------------------------------------------------------------------
Return(e, v) == pc' = "returned" /\ err' = e /\ judgment' = v

\* The end of an attempt that may be repeated.
MoreAttempts == attempt + 1 < MaxRetries

Retry(e) ==
  /\ lastErr' = e
  /\ \/ MoreAttempts /\ pc' = "backoff" /\ attempt' = attempt + 1 /\ UNCHANGED <<err, judgment>>
     \/ ~MoreAttempts /\ Return(e, Nothing) /\ UNCHANGED attempt

Evaluate ==
  /\ pc = "idle"
  /\ \/ key /\ pc' = "send" /\ UNCHANGED <<err, judgment>>
     \/ ~key /\ Return("key", Nothing)
  /\ UNCHANGED <<key, extract, attempt, ctx, lastErr, judging, posts, last>>

\* httpClient.Do sends the request, unless the context is done.
Send ==
  /\ pc = "send" /\ ctx = "open"
  /\ pc' = "flight" /\ posts' = posts + 1 /\ judging' = FALSE
  /\ UNCHANGED <<key, extract, attempt, ctx, lastErr, err, judgment, last>>

SendRefused ==
  /\ pc = "send" /\ ctx = "done"
  /\ Retry("context")
  /\ UNCHANGED <<key, extract, ctx, judging, posts, last>>

\* The service judges the request.
Judge ==
  /\ pc = "flight" /\ ~judging
  /\ judging' = TRUE
  /\ UNCHANGED <<key, extract, pc, attempt, ctx, lastErr, err, judgment, posts, last>>

\* 2xx, and the body is read and decoded.
Answered ==
  /\ pc = "flight" /\ judging
  /\ \E a \in Answers : Return("none", Compose(extract, a))
  /\ last' = "answer"
  /\ UNCHANGED <<key, extract, attempt, ctx, lastErr, judging, posts>>

\* No or half a reply, 429 or 529, any other status, 2xx with a body that is no JSON.
Retryable == {"lost", "busy"}

Failed ==
  /\ pc = "flight"
  /\ \E r \in {"lost", "busy", "status", "garbage"} :
       /\ r = "busy" => ~judging
       /\ r = "garbage" => judging
       /\ last' = r
       /\ \/ r \in Retryable /\ Retry(r)
          \/ r \notin Retryable /\ Return(r, Nothing) /\ UNCHANGED <<attempt, lastErr>>
  /\ UNCHANGED <<key, extract, ctx, judging, posts>>

\* The context ends a request in flight; the reply does not come any more.
Aborts == ctx = "done"

Abort ==
  /\ pc = "flight" /\ Aborts
  /\ Retry("context") /\ last' = "lost"
  /\ UNCHANGED <<key, extract, ctx, judging, posts>>

\* The select of the backoff; both cases may be ready.
StopReason == "context"

BackoffEnds ==
  /\ pc = "backoff"
  /\ pc' = "send"
  /\ UNCHANGED <<key, extract, attempt, ctx, lastErr, err, judgment, judging, posts, last>>

BackoffStopped ==
  /\ pc = "backoff" /\ ctx = "done"
  /\ Return(StopReason, Nothing)
  /\ UNCHANGED <<key, extract, attempt, ctx, lastErr, judging, posts, last>>

\* The hop's or the job's deadline, or the end of the process.
Expire ==
  /\ ctx = "open" /\ pc # "returned"
  /\ ctx' = "done"
  /\ UNCHANGED <<key, extract, pc, attempt, lastErr, err, judgment, judging, posts, last>>
-----------------------------------------------------------------------------
Over == pc = "returned" /\ UNCHANGED vars

Client == Evaluate \/ Send \/ SendRefused \/ Abort \/ BackoffEnds \/ BackoffStopped
Next   == Client \/ Judge \/ Answered \/ Failed \/ Expire \/ Over

Spec == Init /\ [][Next]_vars

\* The goroutine runs, timers fire and the context has a deadline
\* (evaluateJudge); the service may stay silent for ever.
FairSpec == Spec /\ WF_vars(Client) /\ WF_vars(Expire)
-----------------------------------------------------------------------------
\* Evaluate answers "busy" or "lost" only when every attempt is used up; if the
\* context ended it earlier, the error says so, and fail calls it a timeout.
GivesUpLast == pc = "returned" /\ err \in {"lost", "busy"} => posts = MaxRetries

\* The service is asked at most MaxRetries times, whatever becomes of its replies.
PostsBounded == posts <= MaxRetries

\* Both bounds of the loop: it stops in time, and not too early.
RetryBound == PostsBounded /\ GivesUpLast

\* A stored judgment comes from an answer, and the analysis made from the
\* stored invoice later gives the reasons compose had.
ExplainsVerdict ==
  pc = "returned" =>
    /\ judgment # Nothing <=> err = "none"
    /\ judgment # Nothing => last = "answer" /\ Explained(extract, judgment)

\* A request is repeated only after a reply that says nothing about it.
RepeatsOnlyLost == [][posts' # posts => last \in {"none", "lost", "busy"}]_vars

\* With a silent service, too, Evaluate returns.
EvaluateReturns == pc = "send" ~> pc = "returned"
=============================================================================
