-------------------------- MODULE WriteQueueProofs --------------------------
(***************************************************************************)
(* What TLAPS proves about WriteQueue, for any set of calls and closers.   *)
(*                                                                         *)
(* The invariants are not inductive by themselves.  IInv adds what ties    *)
(* the three kinds of goroutine together: the channel is closed under the  *)
(* lock that sets stopped (Gate), a call is in one place at a time (Place) *)
(* and its buffered answer says what the log says (Answered), and a call   *)
(* the writer holds did not return before one the writer took up earlier   *)
(* was made (Queued).  From IInv every step is one of AtomicWrites, or     *)
(* a stutter.                                                              *)
(***************************************************************************)
EXTENDS WriteQueueRefinement, TLAPS, SequenceTheorems

Gate ==
  /\ stopped => closes = 1
  /\ ~stopped => closes = 0
  /\ \A c \in Calls : cpc[c] = "send" => ~stopped
  /\ writer = "exited" => closes > 0
  /\ ~sqlOpen => writer = "exited"

Place ==
  \A c \in Calls :
    /\ cpc[c] \in {"idle", "lock", "send"} => ret[c] = "none" /\ answer[c] = "none" /\ op # c
    /\ cpc[c] = "wait" => ret[c] = "none" /\ (answer[c] # "none" \/ op = c)
    /\ Returned(c) => ret[c] # "none"
    /\ ret[c] = "closed" => answer[c] = "none" /\ op # c
    /\ ret[c] \in {"ok", "error"} => answer[c] = ret[c]
    /\ op = c => answer[c] = "none"

Answered == \A c \in Calls : answer[c] = "ok" <=> Committed(c)

Received(c) == op = c \/ answer[c] # "none"

Queued == \A c \in Calls : \A b \in before[c] :
            Returned(b) /\ (Received(c) => op # b)

IInv == TypeOK /\ Gate /\ Place /\ Answered /\ Queued /\ NoOvertaking
-----------------------------------------------------------------------------
\* After one more commit, exactly one more call is committed.
LEMMA CommittedAppend ==
  ASSUME log \in Seq(Calls), NEW d \in Calls, log' = Append(log, d), NEW c \in Calls
  PROVE  Committed(c)' <=> (Committed(c) \/ c = d)
<1>1. /\ Len(log) \in Nat /\ Len(log') = Len(log) + 1
      /\ \A i \in 1..Len(log) : log'[i] = log[i]
      /\ log'[Len(log) + 1] = d
  BY AppendProperties, LenProperties
<1>2. (\E i \in 1..Len(log') : log'[i] = c) <=> ((\E i \in 1..Len(log) : log[i] = c) \/ c = d)
  <2>1. ASSUME NEW i \in 1..Len(log'), log'[i] = c
        PROVE  (\E k \in 1..Len(log) : log[k] = c) \/ c = d
    BY <1>1, <2>1
  <2>2. ASSUME NEW i \in 1..Len(log), log[i] = c
        PROVE  \E k \in 1..Len(log') : log'[k] = c
    <3>1. i \in 1..Len(log') /\ log'[i] = c
      BY <1>1, <2>2
    <3> QED BY <3>1
  <2>3. ASSUME c = d
        PROVE  \E k \in 1..Len(log') : log'[k] = c
    <3>1. Len(log) + 1 \in 1..Len(log') /\ log'[Len(log) + 1] = c
      BY <1>1, <2>3
    <3> QED BY <3>1
  <2> QED BY <2>1, <2>2, <2>3
<1> QED BY <1>2 DEF Committed

LEMMA InitIInv == Init => IInv
<1> SUFFICES ASSUME Init PROVE IInv
  OBVIOUS
<1> USE CallsAssumption DEF Init
<1>1. log \in Seq(Calls) /\ Len(log) = 0
  BY EmptySeq
<1>2. TypeOK
  BY <1>1 DEF TypeOK
<1>3. Gate /\ Place /\ Queued
  BY DEF Gate, Place, Queued, Returned
<1>4. Answered
  BY <1>1 DEF Answered, Committed
<1>5. NoOvertaking
  BY <1>1 DEF NoOvertaking
<1> QED BY <1>2, <1>3, <1>4, <1>5 DEF IInv

\* What does not touch the log does not touch the facts about it.
LEMMA LogStays ==
  ASSUME Answered, NoOvertaking, UNCHANGED <<log, answer>>,
         \A c \in Calls : Committed(c) => before'[c] = before[c],
         log \in Seq(Calls)
  PROVE  Answered' /\ NoOvertaking'
<1>1. Answered'
  BY DEF Answered, Committed
<1>2. \A i \in 1..Len(log) : log[i] \in Calls /\ Committed(log[i])
  BY ElementOfSeq, LenProperties DEF Committed
<1>3. NoOvertaking'
  BY <1>2 DEF NoOvertaking
<1> QED BY <1>1, <1>3

LEMMA BeginStep ==
  ASSUME IInv, NEW c \in Calls, Begin(c)
  PROVE  IInv'
<1> USE DEF Begin, Return, callVars, writerVars, closeVars, IInv
<1>1. TypeOK'
  BY DEF TypeOK
<1>2. Gate' /\ Place'
  BY DEF TypeOK, Gate, Place, Returned
<1>3. Queued'
  <2>1. \A d \in Calls : Returned(d) => Returned(d)'
    BY DEF TypeOK, Returned
  <2>2. ~Received(c)'
    BY DEF Place, TypeOK, Received
  <2>3. ASSUME NEW d \in Calls, NEW b \in before'[d]
        PROVE  Returned(b)' /\ (Received(d)' => op' # b)
    <3>1. CASE d = c
      <4>1. b \in Calls /\ Returned(b)
        BY <2>3, <3>1 DEF TypeOK
      <4> QED BY <4>1, <2>1, <2>2, <3>1
    <3>2. CASE d # c
      <4>1. b \in before[d] /\ b \in Calls
        BY <2>3, <3>2 DEF TypeOK
      <4> QED BY <4>1, <2>1 DEF Queued, Received
    <3> QED BY <3>1, <3>2
  <2> QED BY <2>3 DEF Queued
<1>4. ~Committed(c)
  BY DEF Place, Answered
<1>5. \A d \in Calls : Committed(d) => before'[d] = before[d]
  BY <1>4 DEF TypeOK
<1>6. Answered' /\ NoOvertaking'
  BY <1>5, LogStays DEF TypeOK
<1> QED BY <1>1, <1>2, <1>3, <1>6

\* The steps of a call that only move it on.
LEMMA MoveStep ==
  ASSUME IInv, NEW c \in Calls,
         Refused(c) \/ Offer(c) \/ TakeAnswer(c) \/ GiveUp(c)
  PROVE  IInv'
<1> USE DEF Refused, Offer, TakeAnswer, GiveUp, Return, callVars, writerVars, closeVars, IInv
<1>1. TypeOK'
  BY DEF TypeOK
<1>2. Gate' /\ Place'
  BY DEF TypeOK, Gate, Place, Returned
<1>3. Queued'
  <2>1. \A d \in Calls : Returned(d) => Returned(d)'
    BY DEF TypeOK, Returned
  <2>2. ASSUME NEW d \in Calls, NEW b \in before'[d]
        PROVE  Returned(b)' /\ (Received(d)' => op' # b)
    BY <2>1, <2>2 DEF TypeOK, Queued, Received
  <2> QED BY <2>2 DEF Queued
<1>4. Answered' /\ NoOvertaking'
  BY LogStays DEF TypeOK
<1> QED BY <1>1, <1>2, <1>3, <1>4

LEMMA ReceiveStep ==
  ASSUME IInv, NEW c \in Calls, Receive(c)
  PROVE  IInv'
<1> USE DEF Receive, Pending, WriterIdle, callVars, writerVars, closeVars, IInv
<1>1. TypeOK'
  BY CallsAssumption DEF TypeOK
<1>2. Gate' /\ Place'
  BY CallsAssumption DEF TypeOK, Gate, Place, Returned
<1>3. Queued'
  <2>1. \A d \in Calls : Returned(d) => Returned(d)' /\ d # c
    BY DEF TypeOK, Returned
  <2>2. ASSUME NEW d \in Calls, NEW b \in before'[d]
        PROVE  Returned(b)' /\ (Received(d)' => op' # b)
    <3>1. b \in Calls /\ Returned(b)
      BY <2>2 DEF TypeOK, Queued
    <3> QED BY <3>1, <2>1
  <2> QED BY <2>2 DEF Queued
<1>4. Answered' /\ NoOvertaking'
  BY LogStays DEF TypeOK
<1> QED BY <1>1, <1>2, <1>3, <1>4

\* The one step that writes to the database.
LEMMA ExecuteStep ==
  ASSUME IInv, Execute
  PROVE  IInv'
<1> USE DEF IInv
<1>1. /\ op \in Calls /\ answer[op] = "none"
      /\ writer' = "idle" /\ op' = NoCall /\ NoCall \notin Calls
      /\ UNCHANGED <<stopped, closes, sqlOpen, kpc, cpc, ret, before>>
  BY CallsAssumption DEF Execute, Answerable, TypeOK, callVars, closeVars
<1>2. PICK r \in {"ok", "error"} : /\ log' = IF r = "ok" THEN Append(log, op) ELSE log
                                   /\ answer' = [answer EXCEPT ![op] = r]
  BY DEF Execute, Reported
<1>3. TypeOK'
  <2>1. log' \in Seq(Calls)
    BY <1>1, <1>2, AppendProperties DEF TypeOK
  <2> QED BY <1>1, <1>2, <2>1 DEF TypeOK
<1>4. Gate'
  BY <1>1 DEF Gate, Execute
<1>5. Place'
  BY <1>1, <1>2, CallsAssumption DEF Place, TypeOK, Returned
<1>6. Queued'
  <2>1. ASSUME NEW d \in Calls, NEW b \in before'[d]
        PROVE  Returned(b)' /\ op' # b
    BY <1>1, <2>1 DEF Queued, TypeOK, Returned
  <2> QED BY <2>1 DEF Queued
<1>7. CASE r = "error"
  <2>1. \A c \in Calls : Committed(c)' <=> Committed(c)
    BY <1>2, <1>7 DEF Committed
  <2>2. Answered'
    BY <2>1, <1>1, <1>2, <1>7 DEF Answered, TypeOK
  <2>3. NoOvertaking'
    BY <1>1, <1>2, <1>7 DEF NoOvertaking
  <2> QED BY <1>3, <1>4, <1>5, <1>6, <2>2, <2>3
<1>8. CASE r = "ok"
  <2>1. \A c \in Calls : Committed(c)' <=> (Committed(c) \/ c = op)
    BY <1>1, <1>2, <1>8, CommittedAppend DEF TypeOK
  <2>2. Answered'
    BY <2>1, <1>1, <1>2, <1>8 DEF Answered, TypeOK
  <2>3. NoOvertaking'
    <3>1. /\ Len(log) \in Nat /\ Len(log') = Len(log) + 1
          /\ \A i \in 1..Len(log) : log'[i] = log[i]
          /\ log'[Len(log) + 1] = op
      BY <1>1, <1>2, <1>8, AppendProperties, LenProperties DEF TypeOK
    <3>2. ASSUME NEW i \in 1..Len(log)
          PROVE  op # log[i] /\ op \notin before[log[i]]
      <4>1. log[i] \in Calls /\ Committed(log[i])
        BY <3>2, ElementOfSeq DEF Committed, TypeOK
      <4>2. answer[log[i]] = "ok"
        BY <4>1 DEF Answered
      <4> QED BY <4>1, <4>2, <1>1 DEF Queued, Received
    <3>3. ASSUME NEW i \in 1..Len(log'), NEW k \in 1..Len(log'), i < k
          PROVE  log'[k] # log'[i] /\ log'[k] \notin before[log'[i]]
      <4>1. CASE k = Len(log) + 1
        <5>1. i \in 1..Len(log)
          BY <3>1, <3>3, <4>1
        <5> QED BY <5>1, <3>1, <3>2, <4>1
      <4>2. CASE k # Len(log) + 1
        <5>1. i \in 1..Len(log) /\ k \in 1..Len(log)
          BY <3>1, <3>3, <4>2
        <5> QED BY <5>1, <3>1, <3>3 DEF NoOvertaking
      <4> QED BY <4>1, <4>2
    <3> QED BY <3>3, <1>1 DEF NoOvertaking
  <2> QED BY <1>3, <1>4, <1>5, <1>6, <2>2, <2>3
<1> QED BY <1>2, <1>7, <1>8

LEMMA WriterExitStep ==
  ASSUME IInv, WriterExit
  PROVE  IInv'
<1> USE DEF WriterExit, WriterIdle, callVars, closeVars, IInv
<1>1. TypeOK' /\ Gate' /\ Place'
  BY DEF TypeOK, Gate, Place, Returned
<1>2. Queued'
  BY DEF Queued, Received, Returned
<1>3. Answered' /\ NoOvertaking'
  BY LogStays DEF TypeOK
<1> QED BY <1>1, <1>2, <1>3

LEMMA CloseStepKeeps ==
  ASSUME IInv, NEW k \in Closers, CloseStep(k)
  PROVE  IInv'
<1> USE DEF CloseStep, CloseStart, CloseAgain, CloseFinish, FirstClose, WriterDone, MuFree,
            callVars, writerVars, IInv
<1>1. TypeOK'
  <2>1. CASE CloseStart(k)
    BY <2>1 DEF TypeOK
  <2>2. CASE CloseAgain(k)
    BY <2>2 DEF TypeOK
  <2>3. CASE CloseFinish(k)
    BY <2>3 DEF TypeOK
  <2> QED BY <2>1, <2>2, <2>3
<1>2. Gate' /\ Place'
  BY DEF TypeOK, Gate, Place, Returned
<1>3. Queued'
  BY DEF Queued, Received, Returned
<1>4. Answered' /\ NoOvertaking'
  BY LogStays DEF TypeOK
<1> QED BY <1>1, <1>2, <1>3, <1>4

LEMMA Stutter ==
  ASSUME IInv, UNCHANGED vars
  PROVE  IInv'
<1> USE DEF vars, IInv
<1>1. TypeOK' /\ Gate' /\ Place'
  BY DEF TypeOK, Gate, Place, Returned
<1>2. Queued' /\ Answered' /\ NoOvertaking'
  BY DEF Queued, Received, Returned, Answered, Committed, NoOvertaking
<1> QED BY <1>1, <1>2

LEMMA NextIInv == IInv /\ [Next]_vars => IInv'
<1> SUFFICES ASSUME IInv, [Next]_vars PROVE IInv'
  OBVIOUS
<1>1. ASSUME NEW c \in Calls, CallStep(c) PROVE IInv'
  BY <1>1, BeginStep, MoveStep, ReceiveStep DEF CallStep
<1>2. CASE WriterStep
  BY <1>2, ExecuteStep, WriterExitStep DEF WriterStep
<1>3. ASSUME NEW k \in Closers, CloseStep(k) PROVE IInv'
  BY <1>3, CloseStepKeeps
<1>4. CASE Terminated \/ UNCHANGED vars
  BY <1>4, Stutter DEF Terminated
<1> QED BY <1>1, <1>2, <1>3, <1>4 DEF Next

\* IInv holds in every state of the store's write queue.
THEOREM QueueInductive == Spec => []IInv
<1> QED BY InitIInv, NextIInv, PTL DEF Spec
-----------------------------------------------------------------------------
\* The variables keep their types.
THEOREM QueueTypeCorrect == Spec => []TypeOK
<1>1. IInv => TypeOK
  BY DEF IInv
<1> QED BY <1>1, QueueInductive, PTL

\* doWrite never sends on a closed channel and Close never closes it twice, so
\* neither can panic; and the SQL handle is closed after the last received write.
THEOREM CloseIsSafe == Spec => []ClosesSafely
<1>1. IInv => NoSendOnClosed /\ ClosedOnce
  BY DEF IInv, Gate, NoSendOnClosed, ClosedOnce
<1>2. IInv => HandleOutlivesWrites
  BY CallsAssumption DEF IInv, Gate, Place, TypeOK, HandleOutlivesWrites
<1>3. IInv => ClosesSafely
  BY <1>1, <1>2 DEF ClosesSafely
<1> QED BY <1>3, QueueInductive, PTL

\* A caller that is told "nil", an error or ErrClosed is told the truth.
THEOREM TellsTheTruth == Spec => []AnswersTrue
<1>1. IInv => AnswersTrue
  BY DEF IInv, Place, Answered, AnswersTrue
<1> QED BY <1>1, QueueInductive, PTL

\* No write is committed twice or before one that it follows.
THEOREM KeepsOrder == Spec => []NoOvertaking
<1>1. IInv => NoOvertaking
  BY DEF IInv
<1> QED BY <1>1, QueueInductive, PTL
-----------------------------------------------------------------------------
\* WriteQueue implements AtomicWrites, step by step.

State == [c \in Calls |-> CallState(c)]

LEMMA SameCommitted == \A c \in Calls : Writes!Committed(c) <=> Committed(c)
BY DEF Writes!Committed, Committed

\* A step of one call: what its caller sees of it, and nothing else changes.
LEMMA CallMoves ==
  ASSUME TypeOK, NEW c \in Calls, NEW r,
         cpc' = [cpc EXCEPT ![c] = "returned"], ret' = [ret EXCEPT ![c] = r],
         r \in {"ok", "error", "ctx", "closed"}, writerVars' = writerVars, closeVars' = closeVars
  PROVE  Writes!Tell(c, r)
<1>1. State' = [State EXCEPT ![c] = r]
  BY DEF State, CallState, TypeOK
<1> QED BY <1>1 DEF Writes!Tell, State, writerVars, closeVars

LEMMA CallRefines ==
  ASSUME IInv, NEW c \in Calls, CallStep(c)
  PROVE  Writes!Next \/ UNCHANGED <<State, log, sqlOpen>>
<1> USE DEF IInv
<1>1. State[c] = CallState(c)
  BY DEF State
<1>2. CASE Begin(c)
  <2>1. CallState(c) = "new"
    BY <1>2 DEF Begin, CallState
  <2>2. CASE Return(c, "ctx")
    <3>1. Writes!Tell(c, "ctx")
      BY <1>2, <2>2, CallMoves DEF Begin, Return
    <3>2. Writes!Abandon(c)
      BY <1>1, <2>1, <3>1 DEF Writes!Abandon, State
    <3> QED BY <3>2 DEF Writes!Next
  <2>3. CASE cpc' = [cpc EXCEPT ![c] = "lock"] /\ UNCHANGED ret
    <3>1. State' = [State EXCEPT ![c] = "open"]
      BY <2>3 DEF State, CallState, TypeOK
    <3>2. Writes!Begin(c)
      BY <1>1, <1>2, <2>1, <3>1
      DEF Writes!Begin, Writes!Tell, State, Begin, writerVars, closeVars
    <3> QED BY <3>2 DEF Writes!Next
  <2> QED BY <1>2, <2>2, <2>3 DEF Begin
<1>3. CASE Refused(c)
  <2>1. CallState(c) = "open"
    BY <1>3 DEF Refused, CallState
  <2>2. Writes!Tell(c, "closed")
    BY <1>3, CallMoves DEF Refused, Return
  <2>3. ~Writes!Committed(c)
    BY <1>3, SameCommitted DEF Refused, Place, Answered
  <2>4. Writes!Fail(c)
    BY <1>1, <2>1, <2>2, <2>3 DEF Writes!Fail, State
  <2> QED BY <2>4 DEF Writes!Next
<1>4. CASE Offer(c) \/ Receive(c)
  <2>1. State' = State
    BY <1>4 DEF Offer, Receive, Pending, State, CallState, TypeOK
  <2> QED BY <1>4, <2>1 DEF Offer, Receive, writerVars, closeVars
<1>5. CASE TakeAnswer(c)
  <2>1. CallState(c) = "open"
    BY <1>5 DEF TakeAnswer, CallState
  <2>2. answer[c] \in {"ok", "error"}
    BY <1>5 DEF TakeAnswer, TypeOK
  <2>3. Writes!Tell(c, answer[c])
    BY <1>5, <2>2, CallMoves DEF TakeAnswer, Return
  <2>4. Writes!Committed(c) <=> answer[c] = "ok"
    BY SameCommitted DEF Answered
  <2>5. Writes!Succeed(c) \/ Writes!Fail(c)
    BY <1>1, <2>1, <2>2, <2>3, <2>4 DEF Writes!Succeed, Writes!Fail, State
  <2> QED BY <2>5 DEF Writes!Next
<1>6. CASE GiveUp(c)
  <2>1. CallState(c) = "open"
    BY <1>6 DEF GiveUp, CallState
  <2>2. Writes!Tell(c, "ctx")
    BY <1>6, CallMoves DEF GiveUp, Return
  <2>3. Writes!Abandon(c)
    BY <1>1, <2>1, <2>2 DEF Writes!Abandon, State
  <2> QED BY <2>3 DEF Writes!Next
<1> QED BY <1>2, <1>3, <1>4, <1>5, <1>6 DEF CallStep

\* The only step that commits: the call is open or abandoned, and the database
\* is open because the writer has not left its loop.
LEMMA ExecuteRefines ==
  ASSUME IInv, Execute
  PROVE  Writes!Next \/ UNCHANGED <<State, log, sqlOpen>>
<1> USE DEF IInv
<1>1. /\ op \in Calls /\ answer[op] = "none" /\ sqlOpen
      /\ UNCHANGED <<sqlOpen, cpc, ret>>
  BY CallsAssumption DEF Execute, Answerable, TypeOK, Gate, callVars, closeVars
<1>2. PICK c \in Calls : c = op
  BY <1>1
<1>3. State' = State
  BY <1>1 DEF State, CallState
<1>4. CASE log' = Append(log, c)
  <2>1. CallState(c) \in {"open", "ctx"}
    BY <1>1, <1>2 DEF Place, CallState, TypeOK, Returned
  <2>2. ~Writes!Committed(c)
    BY <1>1, <1>2, SameCommitted DEF Answered
  <2>3. Writes!Commit(c)
    BY <1>1, <1>3, <1>4, <2>1, <2>2 DEF Writes!Commit, State
  <2> QED BY <2>3 DEF Writes!Next
<1>5. CASE log' = log
  BY <1>1, <1>3, <1>5
<1> QED BY <1>2, <1>4, <1>5 DEF Execute

LEMMA CloseRefines ==
  ASSUME IInv, NEW k \in Closers, CloseStep(k)
  PROVE  Writes!Next \/ UNCHANGED <<State, log, sqlOpen>>
<1>1. UNCHANGED <<cpc, ret, log>>
  BY DEF CloseStep, CloseStart, CloseAgain, CloseFinish, callVars, writerVars
<1>2. State' = State
  BY <1>1 DEF State, CallState
<1>3. CASE CloseFinish(k) /\ sqlOpen
  <2>1. Writes!Close
    BY <1>1, <1>2, <1>3 DEF Writes!Close, CloseFinish, State
  <2> QED BY <2>1 DEF Writes!Next
<1>4. CASE ~(CloseFinish(k) /\ sqlOpen)
  <2>1. sqlOpen' = sqlOpen
    BY <1>4 DEF CloseStep, CloseStart, CloseAgain, CloseFinish, IInv, TypeOK
  <2> QED BY <1>1, <1>2, <2>1
<1> QED BY <1>3, <1>4

\* Every behaviour of the write queue is one of atomic writes.
THEOREM QueueRefinement == Spec => ImplementsAtomicWrites
<1>1. Init => Writes!Init
  BY DEF Init, Writes!Init, CallState
<1>2. IInv /\ [Next]_vars => [Writes!Next]_Writes!vars
  <2> SUFFICES ASSUME IInv, [Next]_vars
               PROVE  Writes!Next \/ UNCHANGED <<State, log, sqlOpen>>
    BY DEF Writes!vars, State
  <2>1. CASE \E c \in Calls : CallStep(c)
    BY <2>1, CallRefines
  <2>2. CASE Execute
    BY <2>2, ExecuteRefines
  <2>3. CASE \E k \in Closers : CloseStep(k)
    BY <2>3, CloseRefines
  <2>4. CASE WriterExit \/ Terminated \/ UNCHANGED vars
    <3>1. UNCHANGED <<cpc, ret, log, sqlOpen>>
      BY <2>4 DEF WriterExit, Terminated, vars, callVars, closeVars
    <3> QED BY <3>1 DEF State, CallState
  <2> QED BY <2>1, <2>2, <2>3, <2>4 DEF Next, WriterStep
<1> QED BY <1>1, <1>2, QueueInductive, PTL DEF Spec, ImplementsAtomicWrites, Writes!Spec
=============================================================================
