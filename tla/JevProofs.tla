------------------------------ MODULE JevProofs ------------------------------
(***************************************************************************)
(* Proofs about JevClient and Verdict, for every MaxRetries and all        *)
(* probabilities and totals.                                               *)
(*                                                                         *)
(* The inductive invariant counts: a request in flight is number           *)
(* attempt + 1, and the count of requests lags behind the loop variable    *)
(* only once the context is done, when none is sent any more.              *)
(***************************************************************************)
EXTENDS JevClient, TLAPS

Counts ==
  /\ pc = "idle" => posts = 0 /\ attempt = 0 /\ last = "none"
  /\ pc \in {"send", "backoff"} =>
       /\ posts = attempt \/ (ctx = "done" /\ posts < attempt)
       /\ last \in {"none", "lost", "busy"}
  /\ pc = "flight" => posts = attempt + 1
  /\ pc = "returned" => posts <= MaxRetries

IInv == TypeOK /\ Counts /\ GivesUpLast /\ ExplainsVerdict
-----------------------------------------------------------------------------
\* What compose decides, Explain gives the reasons of.
LEMMA ComposeExplained ==
  ASSUME NEW e \in Extracts, NEW a \in Answers
  PROVE  Compose(e, a) \in Judgments /\ Explained(e, Compose(e, a))
<1> DEFINE v == Compose(e, a)
           D == Determinants(e, a)
<1>1. v \in Judgments
  <2>1. NeedsReview(e, a) \in BOOLEAN
    BY DEF NeedsReview
  <2>2. v.effective \in Routes \union {"review"}
    BY DEF Compose, Answers
  <2> QED BY <2>1, <2>2 DEF Compose, Judgments
<1>2. v.answers = a /\ v.review = NeedsReview(e, a) /\ v.confirmed = ~NeedsReview(e, a)
  BY DEF Compose
<1>3. v.effective = "review" <=> RouteIsWeak(a)
  BY DEF Compose, Answers, Routes
<1>4. NeedsReview(e, a) <=> Triggered(a) # {} \/ Mismatch(e)
  BY DEF NeedsReview, Triggered
<1>5. Triggered(a) \subseteq Graded \union YesNo
  BY DEF Triggered
<1>6. NeedsReview(e, a) <=> D \ {"effective_routing"} # {}
  <2>1. D \ {"effective_routing"} = Triggered(a) \union {f \in {"item_total_mismatch"} : Mismatch(e)}
    BY <1>5 DEF Determinants, Graded, YesNo
  <2> QED BY <2>1, <1>4
<1>7. ~NeedsReview(e, a) <=> D \subseteq {"effective_routing"}
  BY <1>6
<1>8. RouteIsWeak(a) <=> D \intersect {"routing", "effective_routing"} # {}
  <2>1. "routing" \in D <=> "routing" \in Triggered(a)
    BY DEF Determinants
  <2>2. "effective_routing" \in D <=> RouteIsWeak(a) /\ "routing" \notin Triggered(a)
    BY <1>5 DEF Determinants, Graded, YesNo
  <2>3. "routing" \in Triggered(a) => RouteIsWeak(a)
    BY DEF Triggered, RouteIsWeak, Graded, YesNo
  <2> QED BY <2>1, <2>2, <2>3
<1>9. Explained(e, v)
  BY <1>2, <1>3, <1>6, <1>7, <1>8 DEF Explained
<1> QED BY <1>1, <1>9
-----------------------------------------------------------------------------
LEMMA InitIInv == Init => IInv
<1> SUFFICES ASSUME Init PROVE IInv
  OBVIOUS
<1>1. attempt \in 0..(MaxRetries - 1) /\ posts \in Nat
  BY RetriesAssumption DEF Init
<1>2. TypeOK
  BY <1>1, Zenon DEF Init, TypeOK, Errors
<1>3. Counts /\ GivesUpLast /\ ExplainsVerdict
  BY DEF Init, Counts, GivesUpLast, ExplainsVerdict
<1> QED BY <1>2, <1>3 DEF IInv

\* The end of an attempt with error r, from a state with n requests sent.
LEMMA RetryKeeps ==
  ASSUME IInv, NEW r \in {"lost", "busy", "context"}, Retry(r),
         pc \in {"send", "flight"},
         UNCHANGED <<key, extract, ctx, judging, posts>>,
         last' \in {"none", "lost", "busy"},
         pc = "send" => r = "context" /\ ctx = "done"
  PROVE  IInv'
<1>1. CASE MoreAttempts /\ pc' = "backoff" /\ attempt' = attempt + 1 /\ UNCHANGED <<err, judgment>>
  BY <1>1, RetriesAssumption
     DEF IInv, Retry, MoreAttempts, TypeOK, Counts, GivesUpLast, ExplainsVerdict, Errors
<1>2. CASE ~MoreAttempts /\ Return(r, Nothing) /\ UNCHANGED attempt
  <2>1. attempt = MaxRetries - 1
    BY <1>2, RetriesAssumption DEF MoreAttempts, IInv, TypeOK
  <2> QED BY <1>2, <2>1, RetriesAssumption
          DEF IInv, Retry, Return, TypeOK, Counts, GivesUpLast, ExplainsVerdict, Errors
<1> QED BY <1>1, <1>2 DEF Retry

LEMMA NextIInv == IInv /\ [Next]_vars => IInv'
<1> SUFFICES ASSUME IInv, [Next]_vars PROVE IInv'
  OBVIOUS
<1> USE RetriesAssumption
<1>1. CASE Evaluate
  <2>1. CASE key /\ pc' = "send" /\ UNCHANGED <<err, judgment>>
    BY <1>1, <2>1 DEF Evaluate, IInv, TypeOK, Counts, GivesUpLast, ExplainsVerdict, Errors
  <2>2. CASE ~key /\ Return("key", Nothing)
    BY <1>1, <2>2 DEF Evaluate, Return, IInv, TypeOK, Counts, GivesUpLast, ExplainsVerdict, Errors
  <2> QED BY <1>1, <2>1, <2>2 DEF Evaluate
<1>2. CASE Send
  <2>1. TypeOK /\ posts' \in Nat
    BY <1>2 DEF Send, IInv, TypeOK
  <2>2. TypeOK'
    BY <1>2, <2>1, Zenon DEF Send, TypeOK
  <2>3. Counts'
    BY <1>2, <2>1 DEF Send, IInv, TypeOK, Counts
  <2>4. GivesUpLast' /\ ExplainsVerdict'
    BY <1>2 DEF Send, GivesUpLast, ExplainsVerdict
  <2> QED BY <2>2, <2>3, <2>4 DEF IInv
<1>3. CASE SendRefused
  <2>1. last' \in {"none", "lost", "busy"}
    BY <1>3 DEF SendRefused, IInv, Counts
  <2>2. Retry("context") /\ pc = "send" /\ ctx = "done" /\ UNCHANGED <<key, extract, ctx, judging, posts>>
    BY <1>3 DEF SendRefused
  <2> QED BY <2>1, <2>2, RetryKeeps
<1>4. CASE Judge
  BY <1>4 DEF Judge, IInv, TypeOK, Counts, GivesUpLast, ExplainsVerdict, Errors
<1>5. CASE Answered
  <2>1. PICK a \in Answers : Return("none", Compose(extract, a))
    BY <1>5 DEF Answered
  <2>2. extract \in Extracts
    BY DEF IInv, TypeOK
  <2>3. Compose(extract, a) \in Judgments /\ Explained(extract, Compose(extract, a))
    BY <2>2, ComposeExplained
  <2> QED BY <1>5, <2>1, <2>3
          DEF Answered, Return, IInv, TypeOK, Counts, GivesUpLast, ExplainsVerdict, Errors
<1>6. CASE Failed
  <2>1. PICK r \in {"lost", "busy", "status", "garbage"} :
          /\ last' = r
          /\ \/ r \in Retryable /\ Retry(r)
             \/ r \notin Retryable /\ Return(r, Nothing) /\ UNCHANGED <<attempt, lastErr>>
    BY <1>6 DEF Failed
  <2>2. CASE r \in Retryable /\ Retry(r)
    BY <1>6, <2>1, <2>2, RetryKeeps DEF Failed, Retryable
  <2>3. CASE r \notin Retryable /\ Return(r, Nothing) /\ UNCHANGED <<attempt, lastErr>>
    BY <1>6, <2>1, <2>3
       DEF Failed, Retryable, Return, IInv, TypeOK, Counts, GivesUpLast, ExplainsVerdict, Errors
  <2> QED BY <2>1, <2>2, <2>3
<1>7. CASE Abort
  BY <1>7, RetryKeeps DEF Abort
<1>8. CASE BackoffEnds
  BY <1>8 DEF BackoffEnds, IInv, TypeOK, Counts, GivesUpLast, ExplainsVerdict, Errors
<1>9. CASE BackoffStopped
  BY <1>9 DEF BackoffStopped, StopReason, Return, IInv, TypeOK, Counts, GivesUpLast, ExplainsVerdict, Errors
<1>10. CASE Expire
  BY <1>10 DEF Expire, IInv, TypeOK, Counts, GivesUpLast, ExplainsVerdict, Errors
<1>11. CASE Over \/ UNCHANGED vars
  BY <1>11 DEF Over, vars, IInv, TypeOK, Counts, GivesUpLast, ExplainsVerdict, Errors
<1> QED BY <1>1, <1>2, <1>3, <1>4, <1>5, <1>6, <1>7, <1>8, <1>9, <1>10, <1>11 DEF Next, Client

\* The invariant holds in every reachable state.
THEOREM JevInductive == Spec => []IInv
<1> QED BY InitIInv, NextIInv, PTL DEF Spec
-----------------------------------------------------------------------------
\* The variables of client, service and analysis keep their types.
THEOREM JevTypeCorrect == Spec => []TypeOK
<1>1. IInv => TypeOK
  BY DEF IInv
<1> QED BY <1>1, JevInductive, PTL

\* post sends at most MaxRetries requests, and reports a transient error only
\* after the last of them.
THEOREM RetriesBounded == Spec => []RetryBound
<1>1. IInv => RetryBound
  <2> SUFFICES ASSUME IInv PROVE PostsBounded
    BY DEF IInv, RetryBound
  <2> QED BY RetriesAssumption DEF IInv, TypeOK, Counts, PostsBounded
<1> QED BY <1>1, JevInductive, PTL

\* The analysis of a stored verdict names the reasons compose had, and no others.
THEOREM VerdictExplained == Spec => []ExplainsVerdict
<1>1. IInv => ExplainsVerdict
  BY DEF IInv
<1> QED BY <1>1, JevInductive, PTL

\* A request is repeated only after a reply that says nothing about it.
THEOREM RepeatsAreSafe == Spec => RepeatsOnlyLost
<1>1. IInv /\ [Next]_vars => [posts' # posts => last \in {"none", "lost", "busy"}]_vars
  <2> SUFFICES ASSUME IInv, Next, posts' # posts PROVE last \in {"none", "lost", "busy"}
    OBVIOUS
  <2>1. Send
    BY DEF Next, Client, Evaluate, SendRefused, Abort, BackoffEnds, BackoffStopped, Judge, Answered,
           Failed, Expire, Over, vars
  <2> QED BY <2>1 DEF Send, IInv, Counts
<1> QED BY <1>1, JevInductive, PTL DEF Spec, RepeatsOnlyLost
=============================================================================
