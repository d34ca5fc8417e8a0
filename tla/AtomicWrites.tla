---------------------------- MODULE AtomicWrites ----------------------------
(***************************************************************************)
(* What the store promises its callers about writes, without the queue     *)
(* (the comment on Store and the doc comments of internal/store/store.go). *)
(*                                                                         *)
(* A write takes effect at once and at most once.  Its caller learns       *)
(* whether it did, except when the caller's own context ended: then the    *)
(* write may still take effect, until the database is closed.              *)
(***************************************************************************)
EXTENDS Naturals, Sequences

CONSTANT Calls

VARIABLES call,  \* "new", "open", or what the caller was told
          log,   \* the writes that took effect, in order
          open   \* the database is open

vars == <<call, log, open>>

Init == call = [c \in Calls |-> "new"] /\ log = <<>> /\ open = TRUE

Committed(c) == \E i \in 1..Len(log) : log[i] = c

Tell(c, r) == call' = [call EXCEPT ![c] = r] /\ UNCHANGED <<log, open>>

Begin(c) == call[c] = "new" /\ Tell(c, "open")

Commit(c) == /\ open /\ call[c] \in {"open", "ctx"} /\ ~Committed(c)
             /\ log' = Append(log, c)
             /\ UNCHANGED <<call, open>>

Succeed(c) == call[c] = "open" /\ Committed(c) /\ Tell(c, "ok")
Fail(c)    == call[c] = "open" /\ ~Committed(c) /\ (Tell(c, "error") \/ Tell(c, "closed"))
Refuse(c)  == call[c] = "new" /\ Tell(c, "closed")
Abandon(c) == call[c] \in {"new", "open"} /\ Tell(c, "ctx")

Close == open /\ open' = FALSE /\ UNCHANGED <<call, log>>

Next == \/ \E c \in Calls : \/ Begin(c) \/ Commit(c) \/ Succeed(c) \/ Fail(c)
                           \/ Refuse(c) \/ Abandon(c)
        \/ Close

Spec == Init /\ [][Next]_vars
=============================================================================
