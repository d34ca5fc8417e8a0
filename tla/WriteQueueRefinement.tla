------------------------ MODULE WriteQueueRefinement ------------------------
(* The write queue seen as atomic writes: the refinement mapping.            *)
EXTENDS WriteQueue

CallState(c) == IF cpc[c] = "idle" THEN "new"
                ELSE IF cpc[c] = "returned" THEN ret[c] ELSE "open"

Writes == INSTANCE AtomicWrites
            WITH call <- [c \in Calls |-> CallState(c)], open <- sqlOpen

\* Serialized by one goroutine, the writes look atomic to their callers.
ImplementsAtomicWrites == Writes!Spec
=============================================================================
