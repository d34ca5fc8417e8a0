---------------------------- MODULE MCLifecycle -----------------------------
(* Small instances of InvoiceLifecycle for TLC. *)
EXTENDS LifecycleRefinement, TLC

\* Uploads are interchangeable.
InvoiceSymmetry == Permutations(Invoices)
=============================================================================
