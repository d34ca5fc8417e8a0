----------------------------- MODULE OcrCascade -----------------------------
(***************************************************************************)
(* What StageOCR and StageJev of internal/invoice/service.go compute: the  *)
(* engine cascade, the OCR cache (internal/cache), OpenRouter's second     *)
(* reading, the assistant and the judge.                                   *)
(*                                                                         *)
(* Engines, assistant and judge are external: any answer or an error, and  *)
(* between two of them the other jobs run.  A text is what CleanText has   *)
(* left; the rest of the code looks at its length, at its parse and at the *)
(* cache key made of it.  An extract stands for the items and totals.  Of  *)
(* the usage an answer reports there is one number: what it charges.       *)
(* Writes, contexts and the end of the process are in InvoiceLifecycle.    *)
(***************************************************************************)
EXTENDS Naturals

CONSTANTS Jobs, Texts, Extracts,
          Nothing,           \* an error, a nil, an empty slot
          ShortTexts,        \* texts of fewer than minOCRChars characters
          ParseOf,           \* extract.Parse
          NoItems,           \* the extract without items
          CompleteExtracts,  \* those that are not Incomplete
          Strict,            \* OCR_MIN_CONFIDENCE is above zero
          Tokens,            \* what the judge charges for an extract
          Charges            \* what a reply of OpenRouter may charge

ASSUME TextsAssumption    == /\ ShortTexts \subseteq Texts
                             /\ ParseOf \in [Texts -> Extracts]
                             /\ Nothing \notin Texts \union Extracts
ASSUME ExtractsAssumption == /\ NoItems \in Extracts
                             /\ CompleteExtracts \subseteq Extracts \ {NoItems}
ASSUME TokensAssumption   == Tokens \in [Extracts -> Nat] /\ Charges \subseteq Nat

VARIABLES
  backend,  \* CACHE_BACKEND, or "off"; never changes
  on,       \* which of "openrouter" and "assist" are configured; never changes
  pc,       \* "tess", "ollama", "lookup", "evict", "s3", "judge", "both", "rejudge",
            \* "save", "store", "done", "failed"
  text,     \* Job.OCRRes.Text
  parsed,   \* Job.Parsed, and what the assistant makes of it
  verdict,  \* the judgment: what was judged, or the judge's error
  usage,    \* the jev.Usage that came with it
  assisted, \* the assistant has answered
  judged,   \* the judge has answered
  hit,      \* Job.CacheEntry
  inv,      \* the invoice: OCRText, items and totals, judgment, AssistUsed, and
            \* what it shows as charged by OpenRouter and by the judge
  cache,    \* the entry under the hash of each text
  local,    \* history: the text StageOCR ended with
  charged,  \* history: what OpenRouter's replies have charged for the job
  aged      \* history: some entry has reached its TTL

config  == <<backend, on>>
jobVars == <<pc, text, parsed, verdict, usage, assisted, judged, hit, inv, local, charged>>
vars    == <<backend, on, pc, text, parsed, verdict, usage, assisted, judged, hit, inv, cache,
             local, charged, aged>>

Judgments == Texts \X Extracts
Entries   == [text : Texts, extract : Extracts, judgment : Judgments, usage : Nat,
              assist : BOOLEAN, old : BOOLEAN]
Invoices  == [text : Texts \union {Nothing}, extract : Extracts \union {Nothing},
              judgment : Judgments \union {Nothing}, assist : BOOLEAN,
              router : Nat, jev : Nat]

TypeOK ==
  /\ backend \in {"memory", "redis", "off"} /\ on \subseteq {"openrouter", "assist"}
  /\ pc \in [Jobs -> {"tess", "ollama", "lookup", "evict", "s3", "judge", "both", "rejudge",
                      "save", "store", "done", "failed"}]
  /\ text \in [Jobs -> Texts \union {Nothing}]
  /\ parsed \in [Jobs -> Extracts \union {Nothing}]
  /\ verdict \in [Jobs -> Judgments \union {Nothing}]
  /\ usage \in [Jobs -> Nat] /\ charged \in [Jobs -> Nat]
  /\ assisted \in [Jobs -> BOOLEAN] /\ judged \in [Jobs -> BOOLEAN]
  /\ hit \in [Jobs -> Entries \union {Nothing}]
  /\ inv \in [Jobs -> Invoices]
  /\ cache \in [Texts -> Entries \union {Nothing}]
  /\ local \in [Jobs -> Texts \union {Nothing}]
  /\ aged \in BOOLEAN

Init ==
  /\ backend \in {"memory", "redis", "off"} /\ on \in SUBSET {"openrouter", "assist"}
  /\ pc = [j \in Jobs |-> "tess"]
  /\ text = [j \in Jobs |-> Nothing] /\ parsed = [j \in Jobs |-> Nothing]
  /\ verdict = [j \in Jobs |-> Nothing]
  /\ usage = [j \in Jobs |-> 0] /\ charged = [j \in Jobs |-> 0]
  /\ assisted = [j \in Jobs |-> FALSE] /\ judged = [j \in Jobs |-> FALSE]
  /\ hit = [j \in Jobs |-> Nothing]
  /\ inv = [j \in Jobs |-> [text |-> Nothing, extract |-> Nothing, judgment |-> Nothing,
                            assist |-> FALSE, router |-> 0, jev |-> 0]]
  /\ cache = [t \in Texts |-> Nothing]
  /\ local = [j \in Jobs |-> Nothing]
  /\ aged = FALSE
-----------------------------------------------------------------------------
\* Seeded faults.  Each is the form a definition below would take under a
\* plausible bug; the properties are known to be violated under them.
FaultChanged(j)  == FALSE     \* the judge is not asked again
FaultKey(j)      == local[j]  \* the entry is filed under the first reading
FaultUsed(e)     == FALSE     \* AssistUsed is never set
FaultErred(j)    == FALSE     \* the judge's error is dropped
FaultAssist(r)   == IF r.extract = Nothing THEN [r EXCEPT !.charge = 0] ELSE r  \* free if wrong
FaultUsageAgain(j) == usage[j] + Tokens[parsed[j]]  \* both judgments are added
-----------------------------------------------------------------------------
Incomplete(e)     == e \notin CompleteExtracts
NeedsEscalate(t)  == t \in ShortTexts \/ Incomplete(ParseOf[t])
BelowMinConfidence(t) == Strict /\ NeedsEscalate(t)

Goto(j, place) == pc' = [pc EXCEPT ![j] = place]
Charge(j, c)   == charged' = [charged EXCEPT ![j] = @ + c]

\* The end of recognizeCascade: the reading goes into job and invoice.
Read(j, t) ==
  /\ text' = [text EXCEPT ![j] = t] /\ parsed' = [parsed EXCEPT ![j] = ParseOf[t]]
  /\ local' = [local EXCEPT ![j] = t]
  /\ inv' = [inv EXCEPT ![j].text = t, ![j].extract = ParseOf[t]]
  /\ Goto(j, "lookup")

\* A reading of Tesseract ends the cascade when it is confident or has items.
Tesseract(j) ==
  /\ pc[j] = "tess"
  /\ \E t \in Texts \union {Nothing} :
       IF t # Nothing /\ (~BelowMinConfidence(t) \/ ParseOf[t] # NoItems) THEN Read(j, t)
       ELSE /\ text' = [text EXCEPT ![j] = t] /\ Goto(j, "ollama")
            /\ UNCHANGED <<parsed, local, inv>>
  /\ UNCHANGED <<config, verdict, usage, assisted, judged, hit, cache, charged, aged>>

\* A reply of Ollama has its text in one of two places or, also when it is no
\* success or does not decode, in none.
OllamaReplies == [response : Texts \union {Nothing}, message : Texts \union {Nothing}]
OllamaRecognize(r) == IF r.response # Nothing THEN r.response ELSE r.message

\* Ollama's reading replaces it; without one Tesseract's weak reading is kept,
\* and without either the stage fails.
Ollama(j) ==
  /\ pc[j] = "ollama"
  /\ \E r \in OllamaReplies :
       LET t == OllamaRecognize(r) IN
       \/ t # Nothing /\ Read(j, t)
       \/ t = Nothing /\ text[j] # Nothing /\ Read(j, text[j])
       \/ /\ t = Nothing /\ text[j] = Nothing
          /\ Goto(j, "failed") /\ UNCHANGED <<text, parsed, local, inv>>
  /\ UNCHANGED <<config, verdict, usage, assisted, judged, hit, cache, charged, aged>>

\* cache.Get.  Redis forgets old entries by itself and may fail to answer; the
\* memory cache deletes what is under the key after it has found it too old.
Lookup(j) ==
  LET e == IF backend = "off" THEN Nothing ELSE cache[text[j]] IN
  /\ pc[j] = "lookup"
  /\ \/ e # Nothing /\ ~e.old /\ hit' = [hit EXCEPT ![j] = e] /\ Goto(j, "s3")
     \/ e # Nothing /\ e.old /\ Goto(j, "evict") /\ UNCHANGED hit
     \/ (e = Nothing \/ backend = "redis") /\ Goto(j, "s3") /\ UNCHANGED hit
  /\ UNCHANGED <<config, text, parsed, verdict, usage, assisted, judged, inv, cache,
                 local, charged, aged>>

Evict(j) ==
  /\ pc[j] = "evict"
  /\ cache' = [cache EXCEPT ![text[j]] = Nothing]
  /\ Goto(j, "s3")
  /\ UNCHANGED <<config, text, parsed, verdict, usage, assisted, judged, hit, inv, local,
                 charged, aged>>
-----------------------------------------------------------------------------
IsHit(j) == hit[j] # Nothing

\* applyCacheHit: the extract, the judgment and the assistant's part come from
\* the entry, the text stays.
ApplyCacheHit(j) ==
  /\ pc[j] = "s3" /\ IsHit(j)
  /\ parsed' = [parsed EXCEPT ![j] = hit[j].extract]
  /\ inv' = [inv EXCEPT ![j].extract = hit[j].extract, ![j].judgment = hit[j].judgment,
                        ![j].assist = hit[j].assist, ![j].jev = @ + hit[j].usage]
  /\ Goto(j, "save")
  /\ UNCHANGED <<config, text, verdict, usage, assisted, judged, hit, cache, local, charged,
                 aged>>

\* applyOpenRouterUsage.
ShowCharge(j, c) == [inv EXCEPT ![j].router = @ + c]

\* Recognize of OpenRouter's engine: a reply without text is an error, and
\* what it charges goes with it.
VisionReplies == [text : Texts \union {Nothing}, charge : Charges]
OpenRouterRecognize(r) == IF r.text = Nothing THEN [r EXCEPT !.charge = 0] ELSE r

\* applyOpenRouterOCR: a second reading of a weak one, whose error is the job's.
NeedsVision(j) == "openrouter" \in on /\ BelowMinConfidence(text[j])

OpenRouter(j) ==
  /\ pc[j] = "s3" /\ ~IsHit(j) /\ NeedsVision(j)
  /\ \E r \in VisionReplies :
       LET res == OpenRouterRecognize(r) IN
       /\ Charge(j, r.charge)
       /\ \/ /\ res.text # Nothing
             /\ text' = [text EXCEPT ![j] = res.text]
             /\ parsed' = [parsed EXCEPT ![j] = ParseOf[res.text]]
             /\ inv' = [ShowCharge(j, res.charge) EXCEPT ![j].text = res.text]
             /\ Goto(j, "judge")
          \/ res.text = Nothing /\ Goto(j, "failed") /\ UNCHANGED <<text, parsed, inv>>
  /\ UNCHANGED <<config, verdict, usage, assisted, judged, hit, cache, local, aged>>

ReadyToJudge(j) == \/ pc[j] = "judge"
                   \/ pc[j] = "s3" /\ ~IsHit(j) /\ ~NeedsVision(j)
NeedsAssist(j)  == "assist" \in on /\ Incomplete(parsed[j])

\* The end of judgeWithAssist in StageJev, with extract e, judgment v and its
\* usage u (applyJudgment, applyJevUsage).
Conclude(j, e, v, u) ==
  /\ inv' = [inv EXCEPT ![j].extract = e, ![j].judgment = v, ![j].jev = @ + u]
  /\ verdict' = [verdict EXCEPT ![j] = v] /\ usage' = [usage EXCEPT ![j] = u]
  /\ Goto(j, "save")

\* The judge alone.
JudgeOnly(j) ==
  /\ ReadyToJudge(j) /\ ~NeedsAssist(j)
  /\ \/ Conclude(j, parsed[j], <<text[j], parsed[j]>>, Tokens[parsed[j]])
     \/ Goto(j, "failed") /\ UNCHANGED <<inv, verdict, usage>>
  /\ UNCHANGED <<config, text, parsed, assisted, judged, hit, cache, local, charged, aged>>

\* The two goroutines of judgeWithAssist, both on the extract as it is now.
JudgeWithAssist(j) ==
  /\ ReadyToJudge(j) /\ NeedsAssist(j)
  /\ Goto(j, "both")
  /\ UNCHANGED <<config, text, parsed, verdict, usage, assisted, judged, hit, inv, cache, local,
                 charged, aged>>

\* Assist: an error, too, may come in a reply that charges (no choices, an
\* answer that is no JSON), and is returned with it.
AssistReplies == [extract : Extracts \union {Nothing}, charge : Charges]
Assist(r)     == r

\* applyAssist: an answer without items, or an error, changes nothing.
Improves(e) == e \notin {Nothing, NoItems}
Used(e)     == e # Nothing

AssistReturns(j) ==
  /\ pc[j] = "both" /\ ~assisted[j]
  /\ \E r \in AssistReplies :
       LET res == Assist(r) IN
       /\ parsed' = [parsed EXCEPT ![j] = IF Improves(res.extract) THEN res.extract ELSE @]
       /\ Charge(j, r.charge)
       /\ inv' = [ShowCharge(j, res.charge) EXCEPT ![j].assist = Used(res.extract)]
  /\ assisted' = [assisted EXCEPT ![j] = TRUE]
  /\ UNCHANGED <<config, pc, text, verdict, usage, judged, hit, cache, local, aged>>

Hint(j) == ParseOf[text[j]]

JudgeReturns(j) ==
  /\ pc[j] = "both" /\ ~judged[j]
  /\ \/ /\ verdict' = [verdict EXCEPT ![j] = <<text[j], Hint(j)>>]
        /\ usage' = [usage EXCEPT ![j] = Tokens[Hint(j)]]
     \/ UNCHANGED <<verdict, usage>>
  /\ judged' = [judged EXCEPT ![j] = TRUE]
  /\ UNCHANGED <<config, pc, text, parsed, assisted, hit, inv, cache,
                 local, charged, aged>>

\* wg.Wait: an extract the assistant changed is judged again, whatever the
\* first judgment was; its usage goes with it.  (An extract is what extractChanged
\* compares and the invoice keeps, items and both totals: FoundTotal is in neither.)
Changed(j) == parsed[j] # Hint(j)
Erred(j)   == verdict[j] = Nothing

Join(j) ==
  /\ pc[j] = "both" /\ assisted[j] /\ judged[j]
  /\ \/ Changed(j) /\ Goto(j, "rejudge") /\ UNCHANGED <<inv, verdict, usage>>
     \/ ~Changed(j) /\ ~Erred(j) /\ Conclude(j, parsed[j], verdict[j], usage[j])
     \/ /\ ~Changed(j) /\ Erred(j)
        /\ Goto(j, "failed") /\ UNCHANGED <<inv, verdict, usage>>
  /\ UNCHANGED <<config, text, parsed, assisted, judged, hit, cache, local, charged, aged>>

UsageAgain(j) == Tokens[parsed[j]]

Rejudge(j) ==
  /\ pc[j] = "rejudge"
  /\ \/ Conclude(j, parsed[j], <<text[j], parsed[j]>>, UsageAgain(j))
     \/ Goto(j, "failed") /\ UNCHANGED <<inv, verdict, usage>>
  /\ UNCHANGED <<config, text, parsed, assisted, judged, hit, cache, local, charged, aged>>

\* The last Update; then, unless the result came from the cache, cache.Set.
Save(j) ==
  /\ pc[j] = "save"
  /\ Goto(j, "failed") \/ Goto(j, IF IsHit(j) THEN "done" ELSE "store")
  /\ UNCHANGED <<config, text, parsed, verdict, usage, assisted, judged, hit, inv, cache,
                 local, charged, aged>>

Key(j) == text[j]

CacheSet(j) ==
  /\ pc[j] = "store"
  /\ \/ /\ backend # "off"
        /\ cache' = [cache EXCEPT ![Key(j)] =
             [text |-> text[j], extract |-> parsed[j], judgment |-> verdict[j],
              usage |-> usage[j], assist |-> inv[j].assist, old |-> FALSE]]
     \/ backend # "memory" /\ UNCHANGED cache
  /\ Goto(j, "done")
  /\ UNCHANGED <<config, text, parsed, verdict, usage, assisted, judged, hit, inv, local,
                 charged, aged>>

\* OCR_CACHE_TTL passes for an entry.
Age(t) ==
  /\ cache[t] # Nothing /\ ~cache[t].old
  /\ cache' = [cache EXCEPT ![t] = IF backend = "redis" THEN Nothing ELSE [@ EXCEPT !.old = TRUE]]
  /\ aged' = TRUE
  /\ UNCHANGED <<config, jobVars>>
-----------------------------------------------------------------------------
Ended(j) == pc[j] \in {"done", "failed"}
Over     == (\A j \in Jobs : Ended(j)) /\ UNCHANGED vars

Step(j) == \/ Tesseract(j) \/ Ollama(j) \/ Lookup(j) \/ Evict(j)
           \/ ApplyCacheHit(j) \/ OpenRouter(j) \/ JudgeOnly(j) \/ JudgeWithAssist(j)
           \/ AssistReturns(j) \/ JudgeReturns(j) \/ Join(j) \/ Rejudge(j)
           \/ Save(j) \/ CacheSet(j)

Next == \/ \E j \in Jobs : Step(j)
        \/ \E t \in Texts : Age(t)
        \/ Over

Spec == Init /\ [][Next]_vars
-----------------------------------------------------------------------------
\* An extract is the parse of its text unless the assistant is on record.
Sourced(x) == x.extract = ParseOf[x.text] \/ x.assist

\* What is saved as judged is what is saved as read: the judgment of a done
\* invoice is of its own text and items, whichever of the two goroutines came
\* first, whether the judge was asked again, and on a cache hit of another job.
JudgmentIsOfInvoice ==
  \A j \in Jobs : pc[j] \in {"store", "done"} => inv[j].judgment = <<inv[j].text, inv[j].extract>>

\* A done invoice says whether a language model supplied its items.
ItemsAreSourced == \A j \in Jobs : pc[j] \in {"store", "done"} => Sourced(inv[j])

\* What an invoice shows as the judge's charge is that of the one evaluation its
\* judgment came from, also when another was made and replaced, or was made for
\* another job and came from the cache.
ChargeIsOfJudgment ==
  \A j \in Jobs : pc[j] \in {"store", "done"} => inv[j].jev = Tokens[inv[j].judgment[2]]

\* No reply of OpenRouter is shown twice, and none is left out, the assistant's
\* errors and the jobs that fail later included; only the charge of a second
\* reading that came to nothing is.
RouterIsCharged ==
  \A j \in Jobs : inv[j].router = charged[j] \/ (pc[j] = "failed" /\ inv[j].router = 0)

\* Both of the above.
ChargesAreShown == ChargeIsOfJudgment /\ RouterIsCharged

\* Any entry may be applied to any invoice with the text it is filed under.
CacheIsConsistent ==
  \A t \in Texts : cache[t] # Nothing =>
    /\ cache[t].text = t /\ cache[t].judgment = <<t, cache[t].extract>> /\ Sourced(cache[t])
    /\ cache[t].usage = Tokens[cache[t].extract]
-----------------------------------------------------------------------------
\* A statement of the documentation that the code does not keep.

\* "A repeat of the same text is Tesseract plus a map lookup" (performance.md):
\* what a done job has read locally is found in the cache.
RepeatHits ==
  \A j \in Jobs : pc[j] = "done" /\ backend = "memory" /\ ~aged => cache[local[j]] # Nothing
=============================================================================
