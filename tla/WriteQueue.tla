----------------------------- MODULE WriteQueue -----------------------------
(***************************************************************************)
(* The single-writer protocol of internal/store: doWrite, writerLoop and   *)
(* Close of store.go, under Create, Update, Delete, BatchCreate,           *)
(* BatchUpdate and UpsertByID, for the SQLite and the Postgres store.      *)
(*                                                                         *)
(* A call of doWrite is an actor; the writer goroutine and the calls of    *)
(* Close are the others.  The SQL statement itself succeeds or fails; the  *)
(* context of a call may be done at any time.                              *)
(***************************************************************************)
EXTENDS Naturals, Sequences, FiniteSets

CONSTANTS Calls,    \* calls of doWrite, by a handler or a stage worker
          NoCall,   \* what an idle writer executes
          Closers   \* calls of Close

ASSUME CallsAssumption == NoCall \notin Calls

VARIABLES
  stopped,  \* Store.stopped
  closes,   \* how often the channel writes was closed
  sqlOpen,  \* the SQL handle has not been closed
  writer,   \* writerLoop: "idle" (receiving), "busy" (in op.fn), "exited"
  op,       \* the call whose function the writer executes
  cpc,      \* doWrite: "idle", "lock", "send", "wait", "returned"
  ret,      \* what it returned: "none", "ok", "error", "ctx", "closed"
  answer,   \* the buffered channel op.done: "none", "ok", "error"
  kpc,      \* Close: "idle", "waiting" (<-s.done), "returned"
  log,      \* history: the calls whose statement was committed, in order
  before    \* history: the calls that had returned when a call was made

callVars   == <<cpc, ret, before>>
writerVars == <<writer, op, answer, log>>
closeVars  == <<stopped, closes, sqlOpen, kpc>>
vars == <<stopped, closes, sqlOpen, writer, op, cpc, ret, answer, kpc, log, before>>

TypeOK ==
  /\ stopped \in BOOLEAN /\ sqlOpen \in BOOLEAN
  /\ closes \in Nat
  /\ writer \in {"idle", "busy", "exited"}
  /\ op \in Calls \union {NoCall}
  /\ op = NoCall <=> writer # "busy"
  /\ cpc \in [Calls -> {"idle", "lock", "send", "wait", "returned"}]
  /\ ret \in [Calls -> {"none", "ok", "error", "ctx", "closed"}]
  /\ answer \in [Calls -> {"none", "ok", "error"}]
  /\ kpc \in [Closers -> {"idle", "waiting", "returned"}]
  /\ log \in Seq(Calls)
  /\ before \in [Calls -> SUBSET Calls]

Init ==
  /\ stopped = FALSE /\ closes = 0 /\ sqlOpen = TRUE
  /\ writer = "idle" /\ op = NoCall
  /\ cpc = [c \in Calls |-> "idle"]
  /\ ret = [c \in Calls |-> "none"]
  /\ answer = [c \in Calls |-> "none"]
  /\ kpc = [k \in Closers |-> "idle"]
  /\ log = <<>>
  /\ before = [c \in Calls |-> {}]
-----------------------------------------------------------------------------
Returned(c)     == cpc[c] = "returned"

\* Seeded faults.  Each is the form a definition below would take under a
\* plausible bug; the properties are known to be violated under them.
FaultMuFree     == TRUE                \* no lock
FaultWriterIdle == writer # "exited"   \* the loop stops in the middle of an op
FaultReported(r) == "ok"               \* the error of op.fn is dropped
FaultAnswerable == cpc[op] = "wait"    \* done has no buffer
FaultPending(c) ==                     \* an abandoned write is tried again later
  cpc[c] = "send" \/ (Returned(c) /\ ret[c] = "ctx" /\ answer[c] = "none")
FaultWriterDone == stopped             \* Close does not wait for s.done
-----------------------------------------------------------------------------
Return(c, r) == /\ cpc' = [cpc EXCEPT ![c] = "returned"]
                /\ ret' = [ret EXCEPT ![c] = r]

\* Store.mu is held by the call that waits for the writer to take its op: the
\* channel is unbuffered and the send is inside the critical section.
MuFree == \A c \in Calls : cpc[c] # "send"

\* doWrite up to the lock: ctx.Err() first.
Begin(c) ==
  /\ cpc[c] = "idle"
  /\ before' = [before EXCEPT ![c] = {b \in Calls : Returned(b)}]
  /\ \/ Return(c, "ctx")
     \/ cpc' = [cpc EXCEPT ![c] = "lock"] /\ UNCHANGED ret
  /\ UNCHANGED <<writerVars, closeVars>>

\* The critical section: ErrClosed after Close ...
Refused(c) ==
  /\ cpc[c] = "lock" /\ MuFree /\ stopped
  /\ Return(c, "closed")
  /\ UNCHANGED <<before, writerVars, closeVars>>

\* ... or the send on writes, which ends when the writer receives.
Offer(c) ==
  /\ cpc[c] = "lock" /\ MuFree /\ ~stopped
  /\ cpc' = [cpc EXCEPT ![c] = "send"]
  /\ UNCHANGED <<ret, before, writerVars, closeVars>>

Pending(c) == cpc[c] = "send"
WriterIdle == writer = "idle"

Receive(c) ==
  /\ Pending(c) /\ WriterIdle
  /\ writer' = "busy" /\ op' = c
  /\ cpc' = [cpc EXCEPT ![c] = "wait"]
  /\ UNCHANGED <<ret, before, answer, log, closeVars>>

\* writerLoop: op.done <- op.fn().  The statement commits or fails, and the
\* caller is told which; done has room for the answer whoever waits for it.
Reported(r) == r
Answerable  == answer[op] = "none"

Execute ==
  /\ writer = "busy" /\ Answerable
  /\ \E r \in {"ok", "error"} :
       /\ log' = IF r = "ok" THEN Append(log, op) ELSE log
       /\ answer' = [answer EXCEPT ![op] = Reported(r)]
  /\ writer' = "idle" /\ op' = NoCall
  /\ UNCHANGED <<callVars, closeVars>>

\* The last select of doWrite: the answer of the writer ...
TakeAnswer(c) ==
  /\ cpc[c] = "wait" /\ answer[c] # "none"
  /\ Return(c, answer[c])
  /\ UNCHANGED <<before, writerVars, closeVars>>

\* ... or the end of the caller's context, with the op still in the writer's
\* hands or already answered.
GiveUp(c) ==
  /\ cpc[c] = "wait"
  /\ Return(c, "ctx")
  /\ UNCHANGED <<before, writerVars, closeVars>>

\* The range over writes ends once it is closed; the deferred close(s.done).
WriterExit ==
  /\ WriterIdle /\ closes > 0
  /\ writer' = "exited"
  /\ UNCHANGED <<op, answer, log, callVars, closeVars>>

\* Close: the first call stops the store, every other returns at once.
FirstClose == ~stopped

CloseStart(k) ==
  /\ kpc[k] = "idle" /\ MuFree /\ FirstClose
  /\ stopped' = TRUE
  /\ closes' = closes + 1
  /\ kpc' = [kpc EXCEPT ![k] = "waiting"]
  /\ UNCHANGED <<sqlOpen, writerVars, callVars>>

CloseAgain(k) ==
  /\ kpc[k] = "idle" /\ MuFree /\ ~FirstClose
  /\ kpc' = [kpc EXCEPT ![k] = "returned"]
  /\ UNCHANGED <<stopped, closes, sqlOpen, writerVars, callVars>>

WriterDone == writer = "exited"

CloseFinish(k) ==
  /\ kpc[k] = "waiting" /\ WriterDone
  /\ sqlOpen' = FALSE
  /\ kpc' = [kpc EXCEPT ![k] = "returned"]
  /\ UNCHANGED <<stopped, closes, writerVars, callVars>>
-----------------------------------------------------------------------------
Terminated ==
  /\ \A c \in Calls : Returned(c)
  /\ \A k \in Closers : kpc[k] = "returned"
  /\ UNCHANGED vars

CallStep(c) == Begin(c) \/ Refused(c) \/ Offer(c) \/ Receive(c) \/ TakeAnswer(c) \/ GiveUp(c)
WriterStep  == Execute \/ WriterExit
CloseStep(k) == CloseStart(k) \/ CloseAgain(k) \/ CloseFinish(k)

Next ==
  \/ \E c \in Calls : CallStep(c)
  \/ WriterStep
  \/ \E k \in Closers : CloseStep(k)
  \/ Terminated

Spec == Init /\ [][Next]_vars

\* Goroutines run and statements end (the driver works under a context and a
\* busy timeout).  Nobody has to call the store, to close it or to give up.
Fairness ==
  /\ \A c \in Calls : /\ WF_vars(Refused(c) \/ Offer(c))
                      /\ WF_vars(Receive(c))
                      /\ WF_vars(TakeAnswer(c))
  /\ WF_vars(Execute) /\ WF_vars(WriterExit)
  /\ \A k \in Closers : WF_vars(CloseFinish(k))

FairSpec == Spec /\ Fairness
-----------------------------------------------------------------------------
Committed(c) == \E i \in 1..Len(log) : log[i] = c

\* No call is left sending on a channel that Close has closed (a panic).
NoSendOnClosed == \A c \in Calls : cpc[c] = "send" => closes = 0

\* However many goroutines call Close, writes is closed once.
ClosedOnce == closes <= 1

\* Close lets go of the SQL handle only when the writer has finished every
\* write it ever received, the abandoned ones included.
HandleOutlivesWrites ==
  ~sqlOpen => /\ writer = "exited"
              /\ \A c \in Calls : cpc[c] = "wait" => answer[c] # "none"

\* The three above: closing the store disturbs no write and no other Close.
ClosesSafely == NoSendOnClosed /\ ClosedOnce /\ HandleOutlivesWrites

\* What doWrite returns is true of the database: nil means committed, an error
\* of the statement or ErrClosed means not.  Only the error of the caller's
\* own context says nothing.
AnswersTrue ==
  \A c \in Calls : /\ ret[c] = "ok" => Committed(c)
                   /\ ret[c] \in {"error", "closed"} => ~Committed(c)

\* Writes take effect once and in the order of their calls: one that was called after
\* another had returned is committed after it, even when the first was
\* abandoned by its caller and still lay with the writer.
NoOvertaking == \A i, k \in 1..Len(log) : i < k => log[k] # log[i] /\ log[k] \notin before[log[i]]

\* A call that has passed ctx.Err() comes back although doWrite holds the lock
\* over a blocking send, and although the callers before it may have given up; and Close comes back.
CallsReturn == /\ \A c \in Calls : cpc[c] = "lock" ~> Returned(c)
               /\ \A k \in Closers : kpc[k] = "waiting" ~> kpc[k] = "returned"
=============================================================================
