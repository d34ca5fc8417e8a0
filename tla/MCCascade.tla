------------------------------ MODULE MCCascade ------------------------------
(* Small instances of OcrCascade for TLC. *)
EXTENDS OcrCascade, TLC

CONSTANTS short, partial, good,  \* texts
          none, part, full       \* extracts

MCTexts   == {short, partial, good}
MCExtracts == {none, part, full}
MCParseOf == short :> none @@ partial :> part @@ good :> full

\* Different for each extract, so that one charge is not taken for another.
MCTokens  == none :> 1 @@ part :> 2 @@ full :> 4

JobSymmetry == Permutations(Jobs)
=============================================================================
