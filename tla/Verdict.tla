------------------------------- MODULE Verdict -------------------------------
(***************************************************************************)
(* How the judge's answers become a judgment (compose in                   *)
(* internal/jev/client.go), and how the analysis is rebuilt from a stored  *)
(* judgment (Explain in internal/jev/explain.go).  The two apply the same  *)
(* rules in two places.                                                    *)
(*                                                                         *)
(* Probabilities are in hundredths, totals in cents.  An answer that is    *)
(* missing reads as 0, a missing choice as "".  The risk score and its     *)
(* label decide nothing and are left out, as is the wording.               *)
(***************************************************************************)
EXTENDS Integers

CONSTANTS Probabilities,  \* what the service says
          Totals,         \* estimated and computed totals
          UnevenPairs     \* the totals TotalDelta apart whose float64 difference is more

ASSUME VerdictAssumption == /\ Probabilities \subseteq 0..100
                            /\ Totals \subseteq Nat
                            /\ UnevenPairs \subseteq Totals \X Totals

NoulThreshold   == 50
ConfidenceFloor == 60
TotalDelta      == 5

Graded == {"document_type", "routing", "risk"}                            \* with a confidence
YesNo  == {"amounts_supported", "items_qty_supported", "total_consistent"}  \* with a probability
Routes == {"fiscal", "accounts_payable", "other", ""}

Answers   == [conf : [Graded -> Probabilities], noul : [YesNo -> Probabilities], route : Routes]
Judgments == [answers : Answers, effective : Routes \union {"review"}, review : BOOLEAN,
              confirmed : BOOLEAN]
Extracts  == Totals \X Totals

Gap(e)      == IF e[1] < e[2] THEN e[2] - e[1] ELSE e[1] - e[2]
Mismatch(e) == Gap(e) > TotalDelta \/ (Gap(e) = TotalDelta /\ e \in UnevenPairs)
-----------------------------------------------------------------------------
\* Seeded fault, under which Explained is known to fail: the bar of explain.go
\* moved in one place only.
FaultTriggered(a) == {q \in Graded : a.conf[q] <= ConfidenceFloor}
                       \union {q \in YesNo : a.noul[q] < NoulThreshold}
-----------------------------------------------------------------------------
NeedsReview(e, a) == \/ \E q \in YesNo : a.noul[q] < NoulThreshold
                     \/ \E q \in Graded : a.conf[q] < ConfidenceFloor
                     \/ Mismatch(e)

RouteIsWeak(a) == a.route = "other" \/ a.conf["routing"] < ConfidenceFloor

Compose(e, a) ==
  [answers |-> a, effective |-> IF RouteIsWeak(a) THEN "review" ELSE a.route,
   review |-> NeedsReview(e, a), confirmed |-> ~NeedsReview(e, a)]

\* The questions Explain calls triggered, and its determinants.
Triggered(a) == {q \in Graded : a.conf[q] < ConfidenceFloor}
                  \union {q \in YesNo : a.noul[q] < NoulThreshold}

Determinants(e, a) ==
  Triggered(a)
    \union {f \in {"item_total_mismatch"} : Mismatch(e)}
    \union {f \in {"effective_routing"} : RouteIsWeak(a) /\ "routing" \notin Triggered(a)}
-----------------------------------------------------------------------------
\* Judgment v of extract e has its reasons in the analysis, and no others: a
\* review has a determinant beside the routing, and a document goes to the
\* review desk exactly if a determinant says why.
Explained(e, v) ==
  LET D == Determinants(e, v.answers) IN
  /\ v.review <=> D \ {"effective_routing"} # {}
  /\ v.confirmed <=> D \subseteq {"effective_routing"}
  /\ v.effective = "review" <=> D \intersect {"routing", "effective_routing"} # {}
=============================================================================
