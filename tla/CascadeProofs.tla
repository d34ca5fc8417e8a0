---------------------------- MODULE CascadeProofs ----------------------------
(***************************************************************************)
(* What TLAPS proves about OcrCascade, for any jobs, texts and extracts,   *)
(* any parser and any prices.                                              *)
(*                                                                         *)
(* The inductive invariant follows the job through its places: the text of *)
(* the job is that of its invoice, until the assistant answers its extract *)
(* is the parse of that text (Readable), what has been judged is what was  *)
(* judged (Judging), and what is about to be saved is of one piece         *)
(* (Saving).  Every cache entry, and every entry a job holds, is of one    *)
(* piece with the text it is filed under (Fits).  Jobs meet in the cache   *)
(* alone.                                                                  *)
(***************************************************************************)
EXTENDS OcrCascade, TLAPS

Fits(e, t) == /\ e \in Entries /\ e.text = t /\ e.judgment = <<t, e.extract>>
              /\ Sourced(e) /\ e.usage = Tokens[e.extract]

Before(j)   == pc[j] \in {"tess", "ollama", "lookup", "evict", "s3"}
HasText(j)  == pc[j] \notin {"tess", "ollama", "failed"}
Unjudged(j) == pc[j] \in {"tess", "ollama", "lookup", "evict", "s3", "judge", "both", "rejudge"}

\* The extract is the parse, or the assistant is on record.
Parsed(j) == parsed[j] = Hint(j) \/ inv[j].assist

Readable(j) ==
  /\ HasText(j) => text[j] \in Texts /\ parsed[j] \in Extracts /\ inv[j].text = text[j]
  /\ pc[j] \in {"lookup", "evict", "s3", "judge"} \/ (pc[j] = "both" /\ ~assisted[j])
       => parsed[j] = Hint(j)
  /\ pc[j] \in {"both", "rejudge"} => Parsed(j)

Judging(j) ==
  /\ Unjudged(j) => inv[j].jev = 0
  /\ pc[j] \in {"tess", "ollama", "lookup", "evict", "s3", "judge"} => verdict[j] = Nothing
  /\ pc[j] = "both" /\ verdict[j] # Nothing =>
       verdict[j] = <<text[j], Hint(j)>> /\ usage[j] = Tokens[Hint(j)]

Holding(j) ==
  /\ hit[j] # Nothing => Fits(hit[j], text[j]) /\ pc[j] \in {"s3", "save", "done", "failed"}

Saving(j) ==
  /\ pc[j] \in {"save", "store", "done"} =>
       /\ inv[j].extract \in Extracts
       /\ inv[j].judgment = <<inv[j].text, inv[j].extract>>
       /\ Sourced(inv[j]) /\ inv[j].jev = Tokens[inv[j].extract]
  /\ pc[j] = "store" \/ (pc[j] = "save" /\ ~IsHit(j)) =>
       parsed[j] = inv[j].extract /\ verdict[j] = inv[j].judgment /\ usage[j] = inv[j].jev

Charged(j) ==
  /\ Before(j) => inv[j].router = 0 /\ charged[j] = 0
  /\ inv[j].router = charged[j] \/ (pc[j] = "failed" /\ inv[j].router = 0)

JobOK(j) == Readable(j) /\ Judging(j) /\ Holding(j) /\ Saving(j) /\ Charged(j)

CacheOK == \A t \in Texts : cache[t] # Nothing => Fits(cache[t], t)

IInv == TypeOK /\ CacheOK /\ \A j \in Jobs : JobOK(j)
-----------------------------------------------------------------------------
\* A step of one job does not touch another.
Same(k) ==
  /\ pc'[k] = pc[k] /\ text'[k] = text[k] /\ parsed'[k] = parsed[k] /\ verdict'[k] = verdict[k]
  /\ usage'[k] = usage[k] /\ assisted'[k] = assisted[k] /\ hit'[k] = hit[k]
  /\ inv'[k] = inv[k] /\ charged'[k] = charged[k]

LEMMA SameKeeps ==
  ASSUME NEW k, Same(k), JobOK(k)
  PROVE  JobOK(k)'
BY DEF Same, JobOK, Readable, Judging, Holding, Saving, Charged, Before, HasText, Unjudged,
       Parsed, Hint, IsHit, Sourced, Fits

LEMMA OneKeeps ==
  ASSUME IInv, NEW j \in Jobs, TypeOK', CacheOK', JobOK(j)', \A k \in Jobs \ {j} : Same(k)
  PROVE  IInv'
<1>1. \A k \in Jobs : JobOK(k)'
  BY SameKeeps DEF IInv
<1> QED BY <1>1 DEF IInv

LEMMA InitIInv == Init => IInv
<1> SUFFICES ASSUME Init PROVE IInv
  OBVIOUS
<1>1. TypeOK
  BY DEF Init, TypeOK, Invoices
<1>2. CacheOK
  BY DEF Init, CacheOK
<1>3. \A j \in Jobs : JobOK(j)
  BY DEF Init, JobOK, Readable, Judging, Holding, Saving, Charged, Before, HasText, Unjudged,
         Parsed, Hint, IsHit, Sourced
<1> QED BY <1>1, <1>2, <1>3 DEF IInv

\* The reading that ends the cascade.
LEMMA ReadKeeps ==
  ASSUME IInv, NEW j \in Jobs, NEW t \in Texts, pc[j] \in {"tess", "ollama"}, Read(j, t),
         UNCHANGED <<config, verdict, usage, assisted, judged, hit, cache, charged, aged>>
  PROVE  IInv'
<1> USE DEF Read, Goto, config
<1>1. ParseOf[t] \in Extracts
  BY TextsAssumption
<1>2. TypeOK'
  <2>1. inv' = [inv EXCEPT ![j] = [inv[j] EXCEPT !.text = t, !.extract = ParseOf[t]]]
    BY DEF IInv, TypeOK
  <2>2. [inv[j] EXCEPT !.text = t, !.extract = ParseOf[t]] \in Invoices
    <3>1. inv[j] \in Invoices
      BY DEF IInv, TypeOK
    <3> QED BY <1>1, <3>1 DEF Invoices
  <2>3. inv' \in [Jobs -> Invoices]
    BY <2>1, <2>2 DEF IInv, TypeOK
  <2> QED BY <1>1, <2>3 DEF IInv, TypeOK
<1>3. \A k \in Jobs \ {j} : Same(k)
  BY DEF IInv, TypeOK, Same
<1>4. CacheOK'
  BY DEF IInv, CacheOK
<1>5. /\ pc'[j] = "lookup" /\ text'[j] = t /\ parsed'[j] = ParseOf[t] /\ inv'[j].text = t
      /\ inv'[j].jev = inv[j].jev /\ inv'[j].router = inv[j].router
  BY DEF IInv, TypeOK, Invoices
<1>6. JobOK(j)
  BY DEF IInv
<1>7. Readable(j)' /\ Judging(j)'
  BY <1>1, <1>5, <1>6 DEF JobOK, Readable, Judging, HasText, Unjudged, Hint
<1>8. Holding(j)' /\ Saving(j)' /\ Charged(j)'
  BY <1>5, <1>6 DEF JobOK, Holding, Saving, Charged, Before
<1> QED BY <1>2, <1>3, <1>4, <1>7, <1>8, OneKeeps DEF JobOK

\* A job that fails leaves everything as it is; what is charged for nothing is
\* charged before anything has been shown.
LEMMA FailKeeps ==
  ASSUME IInv, NEW j \in Jobs, Goto(j, "failed"), NEW c \in Nat, Charge(j, c),
         c = 0 \/ Before(j),
         UNCHANGED <<config, text, parsed, verdict, usage, assisted, judged, hit, inv, cache,
                     local, aged>>
  PROVE  IInv'
<1> USE DEF Goto, Charge, config
<1>1. TypeOK'
  BY DEF IInv, TypeOK
<1>2. \A k \in Jobs \ {j} : Same(k)
  BY DEF IInv, TypeOK, Same
<1>3. CacheOK'
  BY DEF IInv, CacheOK
<1>4. pc'[j] = "failed" /\ charged'[j] = charged[j] + c /\ charged[j] \in Nat
  BY DEF IInv, TypeOK
<1>5. JobOK(j)
  BY DEF IInv
<1>6. Readable(j)' /\ Judging(j)' /\ Holding(j)' /\ Saving(j)'
  BY <1>4, <1>5 DEF JobOK, Readable, Judging, Holding, Saving, HasText, Unjudged
<1>7. Charged(j)'
  BY <1>4, <1>5 DEF JobOK, Charged, Before
<1> QED BY <1>1, <1>2, <1>3, <1>6, <1>7, OneKeeps DEF JobOK

LEMMA FreeFailKeeps ==
  ASSUME IInv, NEW j \in Jobs, Goto(j, "failed"),
         UNCHANGED <<config, text, parsed, verdict, usage, assisted, judged, hit, inv, cache,
                     local, charged, aged>>
  PROVE  IInv'
<1>1. Charge(j, 0)
  BY DEF Charge, IInv, TypeOK
<1> QED BY <1>1, FailKeeps

LEMMA TesseractKeeps ==
  ASSUME IInv, NEW j \in Jobs, Tesseract(j)
  PROVE  IInv'
<1> USE DEF Tesseract, Goto, config
<1>1. PICK t \in Texts \union {Nothing} :
        \/ t \in Texts /\ Read(j, t)
        \/ /\ text' = [text EXCEPT ![j] = t] /\ Goto(j, "ollama")
           /\ UNCHANGED <<parsed, local, inv>>
  OBVIOUS
<1>2. CASE t \in Texts /\ Read(j, t)
  BY <1>2, ReadKeeps
<1>3. CASE /\ text' = [text EXCEPT ![j] = t] /\ Goto(j, "ollama")
           /\ UNCHANGED <<parsed, local, inv>>
  <2>1. TypeOK'
    BY <1>3 DEF IInv, TypeOK
  <2>2. \A k \in Jobs \ {j} : Same(k)
    BY <1>3 DEF IInv, TypeOK, Same
  <2>3. CacheOK'
    BY DEF IInv, CacheOK
  <2>4. pc'[j] = "ollama" /\ JobOK(j) /\ hit[j] = Nothing
    BY <1>3 DEF IInv, TypeOK, JobOK, Holding
  <2>5. JobOK(j)'
    BY <1>3, <2>4 DEF JobOK, Readable, Judging, Holding, Saving, Charged, HasText, Unjudged, Before
  <2> QED BY <2>1, <2>2, <2>3, <2>5, OneKeeps
<1> QED BY <1>1, <1>2, <1>3

LEMMA OllamaKeeps ==
  ASSUME IInv, NEW j \in Jobs, Ollama(j)
  PROVE  IInv'
<1> USE DEF Ollama
<1>1. PICK r \in OllamaReplies :
        \/ OllamaRecognize(r) # Nothing /\ Read(j, OllamaRecognize(r))
        \/ text[j] # Nothing /\ Read(j, text[j])
        \/ Goto(j, "failed") /\ UNCHANGED <<text, parsed, local, inv>>
  OBVIOUS
<1>2. CASE OllamaRecognize(r) # Nothing /\ Read(j, OllamaRecognize(r))
  <2>1. OllamaRecognize(r) \in Texts
    BY <1>2 DEF OllamaReplies, OllamaRecognize
  <2> QED BY <1>2, <2>1, ReadKeeps
<1>3. CASE text[j] # Nothing /\ Read(j, text[j])
  <2>1. text[j] \in Texts
    BY <1>3 DEF IInv, TypeOK
  <2> QED BY <1>3, <2>1, ReadKeeps
<1>4. CASE Goto(j, "failed") /\ UNCHANGED <<text, parsed, local, inv>>
  BY <1>4, FreeFailKeeps
<1> QED BY <1>1, <1>2, <1>3, <1>4

LEMMA LookupKeeps ==
  ASSUME IInv, NEW j \in Jobs, Lookup(j)
  PROVE  IInv'
<1> DEFINE e == IF backend = "off" THEN Nothing ELSE cache[text[j]]
<1> USE DEF Lookup, Goto, config
<1>1. JobOK(j) /\ text[j] \in Texts
  BY DEF IInv, JobOK, Readable, HasText
<1>2. e # Nothing => Fits(e, text[j])
  BY <1>1 DEF IInv, CacheOK
<1>3. \/ /\ e # Nothing /\ hit' = [hit EXCEPT ![j] = e]
         /\ pc' = [pc EXCEPT ![j] = "s3"]
      \/ hit' = hit /\ \E p \in {"s3", "evict"} : pc' = [pc EXCEPT ![j] = p]
  OBVIOUS
<1> HIDE DEF e
<1>4. TypeOK'
  BY <1>2, <1>3 DEF IInv, TypeOK, Fits
<1>5. \A k \in Jobs \ {j} : Same(k)
  BY <1>3 DEF IInv, TypeOK, Same
<1>6. CacheOK'
  BY DEF IInv, CacheOK
<1>7. /\ pc'[j] \in {"s3", "evict"}
      /\ hit'[j] = hit[j] \/ (pc'[j] = "s3" /\ Fits(hit'[j], text[j]))
  BY <1>2, <1>3 DEF IInv, TypeOK
<1>8. Readable(j)' /\ Judging(j)' /\ Saving(j)' /\ Charged(j)'
  BY <1>1, <1>7 DEF JobOK, Readable, Judging, Saving, Charged, HasText, Unjudged, Before, Hint,
                    Parsed
<1>9. Holding(j)'
  <2>1. hit[j] = Nothing
    BY <1>1 DEF JobOK, Holding
  <2> QED BY <1>7, <2>1 DEF Holding, Fits, Sourced
<1> QED BY <1>4, <1>5, <1>6, <1>8, <1>9, OneKeeps DEF JobOK

LEMMA EvictKeeps ==
  ASSUME IInv, NEW j \in Jobs, Evict(j)
  PROVE  IInv'
<1> USE DEF Evict, Goto, config
<1>1. JobOK(j) /\ text[j] \in Texts
  BY DEF IInv, JobOK, Readable, HasText
<1>2. TypeOK'
  BY <1>1 DEF IInv, TypeOK
<1>3. \A k \in Jobs \ {j} : Same(k)
  BY DEF IInv, TypeOK, Same
<1>4. CacheOK'
  BY <1>1 DEF IInv, TypeOK, CacheOK, Fits, Sourced
<1>5. pc'[j] = "s3" /\ hit[j] = Nothing
  BY <1>1 DEF IInv, TypeOK, JobOK, Holding
<1>6. JobOK(j)'
  BY <1>1, <1>5 DEF JobOK, Readable, Judging, Holding, Saving, Charged, HasText, Unjudged, Before,
                    Hint, Parsed
<1> QED BY <1>2, <1>3, <1>4, <1>6, OneKeeps
-----------------------------------------------------------------------------
LEMMA InvoiceChanges ==
  ASSUME IInv, NEW j \in Jobs, NEW n \in Invoices, inv' = [inv EXCEPT ![j] = n]
  PROVE  inv' \in [Jobs -> Invoices] /\ inv'[j] = n /\ \A k \in Jobs \ {j} : inv'[k] = inv[k]
BY DEF IInv, TypeOK

\* What ApplyCacheHit and Conclude make of the invoice.
WithJudgment(x, e, v, a, u) ==
  [x EXCEPT !.extract = e, !.judgment = v, !.assist = a, !.jev = x.jev + u]

LEMMA JudgedInvoice ==
  ASSUME NEW x \in Invoices, NEW e \in Extracts, NEW v \in Judgments, NEW a \in BOOLEAN,
         NEW u \in Nat, x.jev = 0
  PROVE  LET n == WithJudgment(x, e, v, a, u) IN
         /\ n \in Invoices /\ n.text = x.text /\ n.extract = e /\ n.judgment = v
         /\ n.assist = a /\ n.jev = u /\ n.router = x.router
<1>1. x.jev + u = u
  OBVIOUS
<1> QED BY <1>1 DEF Invoices, WithJudgment

\* What OpenRouter's replies make of it.
WithCharge(x, t, a, c) == [x EXCEPT !.router = x.router + c, !.text = t, !.assist = a]

LEMMA ChargedInvoice ==
  ASSUME NEW x \in Invoices, NEW t \in Texts, NEW a \in BOOLEAN, NEW c \in Nat
  PROVE  LET n == WithCharge(x, t, a, c) IN
         /\ n \in Invoices /\ n.text = t /\ n.assist = a /\ n.router = x.router + c
         /\ n.extract = x.extract /\ n.judgment = x.judgment /\ n.jev = x.jev
<1>1. x.router + c \in Nat
  BY DEF Invoices
<1> QED BY <1>1 DEF Invoices, WithCharge

LEMMA ApplyCacheHitKeeps ==
  ASSUME IInv, NEW j \in Jobs, ApplyCacheHit(j)
  PROVE  IInv'
<1> DEFINE n == WithJudgment(inv[j], hit[j].extract, hit[j].judgment, hit[j].assist,
                              hit[j].usage)
<1> USE DEF ApplyCacheHit, Goto, config, IsHit
<1>1. JobOK(j) /\ text[j] \in Texts /\ Fits(hit[j], text[j]) /\ inv[j] \in Invoices
  BY DEF IInv, JobOK, Readable, HasText, Holding, TypeOK
<1>2. /\ hit[j].extract \in Extracts /\ hit[j].judgment = <<text[j], hit[j].extract>>
      /\ hit[j].assist \in BOOLEAN /\ hit[j].usage = Tokens[hit[j].extract]
      /\ hit[j].extract = ParseOf[text[j]] \/ hit[j].assist
  BY <1>1 DEF Fits, Entries, Sourced
<1>3. Tokens[hit[j].extract] \in Nat
  BY <1>2, TokensAssumption
<1>4. inv[j].jev = 0 /\ inv[j].text = text[j]
  BY <1>1 DEF JobOK, Judging, Unjudged, Readable, HasText
<1>5. /\ n \in Invoices /\ n.text = text[j] /\ n.extract = hit[j].extract
      /\ n.judgment = hit[j].judgment /\ n.assist = hit[j].assist
      /\ n.jev = Tokens[hit[j].extract] /\ n.router = inv[j].router
  <2>1. hit[j].judgment \in Judgments
    BY <1>1, <1>2 DEF Judgments
  <2> QED BY <1>1, <1>2, <1>3, <1>4, <2>1, JudgedInvoice
<1>6. inv' = [inv EXCEPT ![j] = n]
  BY DEF IInv, TypeOK, WithJudgment
<1> HIDE DEF n
<1>7. TypeOK'
  <2>1. inv' \in [Jobs -> Invoices]
    BY <1>5, <1>6, InvoiceChanges
  <2> QED BY <1>2, <2>1 DEF IInv, TypeOK
<1>8. \A k \in Jobs \ {j} : Same(k)
  BY <1>6 DEF IInv, TypeOK, Same
<1>9. CacheOK'
  BY DEF IInv, CacheOK
<1>10. pc'[j] = "save" /\ inv'[j] = n /\ parsed'[j] = hit[j].extract
  BY <1>6 DEF IInv, TypeOK
<1>11. Readable(j)' /\ Judging(j)'
  BY <1>1, <1>2, <1>5, <1>10 DEF Readable, Judging, HasText, Unjudged
<1>12. Holding(j)' /\ Charged(j)'
  BY <1>1, <1>5, <1>10 DEF JobOK, Holding, Charged, Before
<1>13. Saving(j)'
  BY <1>1, <1>2, <1>5, <1>10 DEF Saving, Sourced
<1> QED BY <1>7, <1>8, <1>9, <1>11, <1>12, <1>13, OneKeeps DEF JobOK

LEMMA OpenRouterKeeps ==
  ASSUME IInv, NEW j \in Jobs, OpenRouter(j)
  PROVE  IInv'
<1> USE DEF OpenRouter
<1>1. PICK r \in VisionReplies :
        /\ Charge(j, r.charge)
        /\ \/ /\ r.text # Nothing
              /\ text' = [text EXCEPT ![j] = r.text]
              /\ parsed' = [parsed EXCEPT ![j] = ParseOf[r.text]]
              /\ inv' = [ShowCharge(j, r.charge) EXCEPT ![j].text = r.text]
              /\ Goto(j, "judge")
           \/ Goto(j, "failed") /\ UNCHANGED <<text, parsed, inv>>
  BY DEF OpenRouterRecognize, VisionReplies
<1>2. r.charge \in Nat /\ r.text \in Texts \union {Nothing} /\ Before(j)
  BY TokensAssumption DEF VisionReplies, Before
<1>3. CASE Goto(j, "failed") /\ UNCHANGED <<text, parsed, inv>>
  BY <1>1, <1>2, <1>3, FailKeeps
<1>4. CASE /\ r.text # Nothing
           /\ text' = [text EXCEPT ![j] = r.text]
           /\ parsed' = [parsed EXCEPT ![j] = ParseOf[r.text]]
           /\ inv' = [ShowCharge(j, r.charge) EXCEPT ![j].text = r.text]
           /\ Goto(j, "judge")
  <2> DEFINE n == WithCharge(inv[j], r.text, inv[j].assist, r.charge)
  <2> USE DEF Goto, Charge, ShowCharge, config
  <2>1. JobOK(j) /\ inv[j] \in Invoices /\ r.text \in Texts /\ ParseOf[r.text] \in Extracts
    BY <1>2, <1>4, TextsAssumption DEF IInv, TypeOK
  <2>2. inv[j].router = 0 /\ charged[j] = 0 /\ inv[j].jev = 0 /\ hit[j] = Nothing
    BY <1>2, <2>1 DEF JobOK, Charged, Judging, Unjudged, IsHit
  <2>3. n \in Invoices /\ n.router = r.charge /\ n.text = r.text /\ n.jev = 0
    <3>1. inv[j].assist \in BOOLEAN
      BY <2>1 DEF Invoices
    <3> QED BY <1>2, <2>1, <2>2, <3>1, ChargedInvoice
  <2>4. inv' = [inv EXCEPT ![j] = n]
    <3>1. [inv[j] EXCEPT !.router = inv[j].router + r.charge, !.text = r.text] = n
      BY <2>1 DEF Invoices, WithCharge
    <3> QED BY <1>4, <3>1 DEF IInv, TypeOK
  <2> HIDE DEF n
  <2>5. TypeOK'
    <3>1. inv' \in [Jobs -> Invoices]
      BY <2>3, <2>4, InvoiceChanges
    <3>2. charged' \in [Jobs -> Nat]
      BY <1>1, <1>2 DEF IInv, TypeOK
    <3> QED BY <1>4, <2>1, <3>1, <3>2 DEF IInv, TypeOK
  <2>6. \A k \in Jobs \ {j} : Same(k)
    BY <1>1, <1>4, <2>4 DEF IInv, TypeOK, Same
  <2>7. CacheOK'
    BY DEF IInv, CacheOK
  <2>8. /\ pc'[j] = "judge" /\ inv'[j] = n /\ text'[j] = r.text /\ parsed'[j] = ParseOf[r.text]
        /\ charged'[j] = r.charge
    BY <1>1, <1>2, <1>4, <2>2, <2>4 DEF IInv, TypeOK
  <2>9. Readable(j)' /\ Judging(j)'
    BY <2>1, <2>3, <2>8 DEF JobOK, Readable, Judging, HasText, Unjudged, Hint
  <2>10. Holding(j)' /\ Saving(j)' /\ Charged(j)'
    BY <2>2, <2>3, <2>8 DEF Holding, Saving, Charged, Before
  <2> QED BY <2>5, <2>6, <2>7, <2>9, <2>10, OneKeeps DEF JobOK
<1> QED BY <1>1, <1>3, <1>4

\* The end of judgeWithAssist: what was judged is what is there.
LEMMA ConcludeKeeps ==
  ASSUME IInv, NEW j \in Jobs, HasText(j), Unjudged(j), hit[j] = Nothing,
         parsed[j] = Hint(j) \/ inv[j].assist,
         Conclude(j, parsed[j], <<text[j], parsed[j]>>, Tokens[parsed[j]]),
         UNCHANGED <<config, text, parsed, assisted, judged, hit, cache, local, charged, aged>>
  PROVE  IInv'
<1> DEFINE v == <<text[j], parsed[j]>>
           n == WithJudgment(inv[j], parsed[j], v, inv[j].assist, Tokens[parsed[j]])
<1> USE DEF Conclude, Goto, config
<1>1. JobOK(j) /\ text[j] \in Texts /\ parsed[j] \in Extracts /\ inv[j].text = text[j]
      /\ inv[j] \in Invoices
  BY DEF IInv, JobOK, Readable, TypeOK
<1>2. Tokens[parsed[j]] \in Nat /\ inv[j].jev = 0
  BY <1>1, TokensAssumption DEF JobOK, Judging
<1>3. /\ n \in Invoices /\ n.text = text[j] /\ n.extract = parsed[j] /\ n.judgment = v
      /\ n.jev = Tokens[parsed[j]] /\ n.router = inv[j].router /\ n.assist = inv[j].assist
  <2>1. inv[j].assist \in BOOLEAN /\ v \in Judgments
    BY <1>1 DEF Invoices, Judgments
  <2> HIDE DEF v
  <2> QED BY <1>1, <1>2, <2>1, JudgedInvoice
<1>4. inv' = [inv EXCEPT ![j] = n]
  <2>1. [inv[j] EXCEPT !.extract = parsed[j], !.judgment = v,
                       !.jev = inv[j].jev + Tokens[parsed[j]]] = n
    BY <1>1 DEF Invoices, WithJudgment
  <2> QED BY <2>1 DEF IInv, TypeOK
<1>5. v \in Judgments
  BY <1>1 DEF Judgments
<1>6. verdict' = [verdict EXCEPT ![j] = v]
  OBVIOUS
<1> HIDE DEF n, v
<1>7. TypeOK'
  <2>1. inv' \in [Jobs -> Invoices]
    BY <1>3, <1>4, InvoiceChanges
  <2>2. verdict' \in [Jobs -> Judgments \union {Nothing}] /\ usage' \in [Jobs -> Nat]
    BY <1>2, <1>5, <1>6 DEF IInv, TypeOK
  <2> QED BY <2>1, <2>2 DEF IInv, TypeOK
<1>8. \A k \in Jobs \ {j} : Same(k)
  BY <1>4, <1>6 DEF IInv, TypeOK, Same
<1>9. CacheOK'
  BY DEF IInv, CacheOK
<1>10. pc'[j] = "save" /\ inv'[j] = n /\ verdict'[j] = v /\ usage'[j] = Tokens[parsed[j]]
  BY <1>4, <1>6 DEF IInv, TypeOK
<1>11. Readable(j)' /\ Judging(j)' /\ Holding(j)'
  BY <1>1, <1>3, <1>10 DEF Readable, Judging, Holding, HasText, Unjudged
<1>12. Charged(j)'
  BY <1>1, <1>3, <1>10 DEF JobOK, Charged, Before, HasText
<1>13. Saving(j)'
  BY <1>1, <1>3, <1>10 DEF Saving, Sourced, Hint, v
<1> QED BY <1>7, <1>8, <1>9, <1>11, <1>12, <1>13, OneKeeps DEF JobOK

LEMMA JudgeOnlyKeeps ==
  ASSUME IInv, NEW j \in Jobs, JudgeOnly(j) \/ Rejudge(j)
  PROVE  IInv'
<1>1. JobOK(j)
  BY DEF IInv
<1>2. HasText(j) /\ Unjudged(j) /\ hit[j] = Nothing /\ (parsed[j] = Hint(j) \/ inv[j].assist)
  BY <1>1 DEF JudgeOnly, Rejudge, ReadyToJudge, IsHit, JobOK, Readable, Holding, HasText,
              Unjudged, Parsed
<1> QED BY <1>2, ConcludeKeeps, FreeFailKeeps DEF JudgeOnly, Rejudge, UsageAgain

LEMMA JudgeWithAssistKeeps ==
  ASSUME IInv, NEW j \in Jobs, JudgeWithAssist(j)
  PROVE  IInv'
<1> USE DEF JudgeWithAssist, Goto, config
<1>1. JobOK(j)
  BY DEF IInv
<1>2. /\ pc[j] \in {"s3", "judge"} /\ hit[j] = Nothing /\ pc'[j] = "both"
  BY <1>1 DEF ReadyToJudge, IsHit, JobOK, Holding, IInv, TypeOK
<1>3. TypeOK'
  BY DEF IInv, TypeOK
<1>4. \A k \in Jobs \ {j} : Same(k)
  BY DEF IInv, TypeOK, Same
<1>5. CacheOK'
  BY DEF IInv, CacheOK
<1>6. Readable(j)' /\ Judging(j)'
  BY <1>1, <1>2 DEF JobOK, Readable, Judging, HasText, Unjudged, Hint, Parsed
<1>7. Holding(j)' /\ Saving(j)' /\ Charged(j)'
  BY <1>1, <1>2 DEF JobOK, Holding, Saving, Charged, Before
<1> QED BY <1>3, <1>4, <1>5, <1>6, <1>7, OneKeeps DEF JobOK

LEMMA AssistReturnsKeeps ==
  ASSUME IInv, NEW j \in Jobs, AssistReturns(j)
  PROVE  IInv'
<1> USE DEF AssistReturns, config
<1>1. PICK r \in AssistReplies :
        /\ parsed' = [parsed EXCEPT ![j] = IF Improves(r.extract) THEN r.extract ELSE @]
        /\ Charge(j, r.charge)
        /\ inv' = [ShowCharge(j, r.charge) EXCEPT ![j].assist = Used(r.extract)]
  BY DEF Assist
<1> DEFINE a == Used(r.extract)
           n == WithCharge(inv[j], text[j], a, r.charge)
           p == IF Improves(r.extract) THEN r.extract ELSE parsed[j]
<1>2. r.charge \in Nat /\ r.extract \in Extracts \union {Nothing} /\ a \in BOOLEAN
  BY TokensAssumption DEF AssistReplies, Used
<1>3. JobOK(j) /\ inv[j] \in Invoices /\ pc[j] = "both" /\ ~assisted[j] /\ hit[j] = Nothing
  BY DEF IInv, TypeOK, JobOK, Holding
<1>4. /\ text[j] \in Texts /\ parsed[j] \in Extracts /\ inv[j].text = text[j]
      /\ parsed[j] = Hint(j) /\ inv[j].jev = 0 /\ inv[j].router = charged[j]
  BY <1>3 DEF JobOK, Readable, Judging, Charged, HasText, Unjudged
<1>5. /\ n \in Invoices /\ n.text = text[j] /\ n.assist = a /\ n.jev = 0
      /\ n.router = charged[j] + r.charge
  BY <1>2, <1>3, <1>4, ChargedInvoice
<1>6. inv' = [inv EXCEPT ![j] = n]
  <2>1. [inv[j] EXCEPT !.router = inv[j].router + r.charge, !.assist = a] = n
    BY <1>3, <1>4 DEF Invoices, WithCharge
  <2> QED BY <1>1, <2>1 DEF ShowCharge, IInv, TypeOK
<1>7. p \in Extracts /\ (p = parsed[j] \/ a)
  BY <1>2, <1>4 DEF Improves, Used
<1>8. parsed' = [parsed EXCEPT ![j] = p]
  BY <1>1
<1>9. charged' = [charged EXCEPT ![j] = charged[j] + r.charge]
  BY <1>1 DEF Charge
<1> HIDE DEF a, n, p
<1>10. TypeOK'
  <2>1. inv' \in [Jobs -> Invoices]
    BY <1>5, <1>6, InvoiceChanges
  <2>2. charged' \in [Jobs -> Nat]
    BY <1>2, <1>9 DEF IInv, TypeOK
  <2>3. parsed' \in [Jobs -> Extracts \union {Nothing}] /\ assisted' \in [Jobs -> BOOLEAN]
    BY <1>7, <1>8 DEF IInv, TypeOK
  <2> QED BY <2>1, <2>2, <2>3 DEF IInv, TypeOK
<1>11. \A k \in Jobs \ {j} : Same(k)
  <2>1. \A k \in Jobs \ {j} : inv'[k] = inv[k]
    BY <1>5, <1>6, InvoiceChanges
  <2> QED BY <1>8, <1>9, <2>1 DEF IInv, TypeOK, Same
<1>12. CacheOK'
  BY DEF IInv, CacheOK
<1>13. /\ pc'[j] = "both" /\ inv'[j] = n /\ parsed'[j] = p /\ assisted'[j]
       /\ charged'[j] = charged[j] + r.charge
  BY <1>3, <1>6, <1>8, <1>9 DEF IInv, TypeOK
<1>14. Readable(j)' /\ Judging(j)'
  BY <1>3, <1>4, <1>5, <1>7, <1>13 DEF JobOK, Readable, Judging, HasText, Unjudged, Hint, Parsed
<1>15. Holding(j)' /\ Saving(j)' /\ Charged(j)'
  BY <1>3, <1>5, <1>13 DEF Holding, Saving, Charged, Before
<1> QED BY <1>10, <1>11, <1>12, <1>14, <1>15, OneKeeps DEF JobOK

LEMMA JudgeReturnsKeeps ==
  ASSUME IInv, NEW j \in Jobs, JudgeReturns(j)
  PROVE  IInv'
<1> USE DEF JudgeReturns, config
<1>1. /\ JobOK(j) /\ pc[j] = "both" /\ text[j] \in Texts /\ Hint(j) \in Extracts
      /\ hit[j] = Nothing
  BY TextsAssumption DEF IInv, JobOK, Readable, Holding, HasText, Hint
<1>2. <<text[j], Hint(j)>> \in Judgments /\ Tokens[Hint(j)] \in Nat
  BY <1>1, TokensAssumption DEF Judgments
<1>3. TypeOK'
  <2>1. verdict' \in [Jobs -> Judgments \union {Nothing}] /\ usage' \in [Jobs -> Nat]
    BY <1>2 DEF IInv, TypeOK
  <2> QED BY <2>1 DEF IInv, TypeOK
<1>4. \A k \in Jobs \ {j} : Same(k)
  BY DEF IInv, TypeOK, Same
<1>5. CacheOK'
  BY DEF IInv, CacheOK
<1>6. \/ verdict'[j] = <<text[j], Hint(j)>> /\ usage'[j] = Tokens[Hint(j)]
      \/ verdict'[j] = verdict[j] /\ usage'[j] = usage[j]
  BY DEF IInv, TypeOK
<1>7. Readable(j)' /\ Judging(j)'
  BY <1>1, <1>6 DEF JobOK, Readable, Judging, HasText, Unjudged, Hint, Parsed
<1>8. Holding(j)' /\ Saving(j)' /\ Charged(j)'
  BY <1>1 DEF JobOK, Holding, Saving, Charged, Before
<1> QED BY <1>3, <1>4, <1>5, <1>7, <1>8, OneKeeps DEF JobOK

LEMMA JoinKeeps ==
  ASSUME IInv, NEW j \in Jobs, Join(j)
  PROVE  IInv'
<1> USE DEF Join
<1>1. /\ JobOK(j) /\ pc[j] = "both" /\ hit[j] = Nothing /\ HasText(j) /\ Unjudged(j)
      /\ parsed[j] = Hint(j) \/ inv[j].assist
  BY DEF IInv, JobOK, Readable, Holding, HasText, Unjudged, Parsed
<1>2. CASE Changed(j) /\ Goto(j, "rejudge") /\ UNCHANGED <<inv, verdict, usage>>
  <2> USE DEF Goto, config
  <2>1. TypeOK'
    BY <1>2 DEF IInv, TypeOK
  <2>2. \A k \in Jobs \ {j} : Same(k)
    BY <1>2 DEF IInv, TypeOK, Same
  <2>3. CacheOK'
    BY DEF IInv, CacheOK
  <2>4. pc'[j] = "rejudge" /\ UNCHANGED <<inv, verdict, usage>>
    BY <1>2 DEF IInv, TypeOK
  <2>5. Readable(j)' /\ Judging(j)'
    BY <1>1, <2>4 DEF JobOK, Readable, Judging, HasText, Unjudged, Hint, Parsed
  <2>6. Holding(j)' /\ Saving(j)' /\ Charged(j)'
    BY <1>1, <2>4 DEF JobOK, Holding, Saving, Charged, Before
  <2> QED BY <2>1, <2>2, <2>3, <2>5, <2>6, OneKeeps DEF JobOK
<1>3. CASE ~Changed(j) /\ ~Erred(j) /\ Conclude(j, parsed[j], verdict[j], usage[j])
  <2>1. verdict[j] = <<text[j], parsed[j]>> /\ usage[j] = Tokens[parsed[j]]
    BY <1>1, <1>3 DEF Changed, Erred, JobOK, Judging
  <2> QED BY <1>1, <1>3, <2>1, ConcludeKeeps
<1>4. CASE Goto(j, "failed") /\ UNCHANGED <<inv, verdict, usage>>
  BY <1>4, FreeFailKeeps
<1> QED BY <1>2, <1>3, <1>4

LEMMA SaveKeeps ==
  ASSUME IInv, NEW j \in Jobs, Save(j)
  PROVE  IInv'
<1> USE DEF Save
<1>1. CASE Goto(j, "failed")
  BY <1>1, FreeFailKeeps
<1>2. CASE Goto(j, IF IsHit(j) THEN "done" ELSE "store")
  <2> USE DEF Goto, config
  <2>1. TypeOK'
    BY <1>2 DEF IInv, TypeOK
  <2>2. \A k \in Jobs \ {j} : Same(k)
    BY <1>2 DEF IInv, TypeOK, Same
  <2>3. CacheOK'
    BY DEF IInv, CacheOK
  <2>4. JobOK(j) /\ pc'[j] = IF IsHit(j) THEN "done" ELSE "store"
    BY <1>2 DEF IInv, TypeOK
  <2>5. Readable(j)' /\ Judging(j)'
    BY <2>4 DEF JobOK, Readable, Judging, HasText, Unjudged, Hint, Parsed
  <2>6. Holding(j)' /\ Saving(j)' /\ Charged(j)'
    BY <2>4 DEF JobOK, Holding, Saving, Charged, Before, IsHit, Sourced, Fits
  <2> QED BY <2>1, <2>2, <2>3, <2>5, <2>6, OneKeeps DEF JobOK
<1> QED BY <1>1, <1>2

LEMMA CacheSetKeeps ==
  ASSUME IInv, NEW j \in Jobs, CacheSet(j)
  PROVE  IInv'
<1> DEFINE e == [text |-> text[j], extract |-> parsed[j], judgment |-> verdict[j],
                 usage |-> usage[j], assist |-> inv[j].assist, old |-> FALSE]
<1> USE DEF CacheSet, Goto, config
<1>1. JobOK(j) /\ pc[j] = "store" /\ hit[j] = Nothing /\ inv[j] \in Invoices
  BY DEF IInv, TypeOK, JobOK, Holding
<1>2. /\ text[j] \in Texts /\ inv[j].text = text[j] /\ inv[j].extract = parsed[j]
      /\ parsed[j] \in Extracts /\ verdict[j] = <<text[j], parsed[j]>>
      /\ usage[j] = Tokens[parsed[j]] /\ (parsed[j] = ParseOf[text[j]] \/ inv[j].assist)
  BY <1>1 DEF JobOK, Readable, Saving, HasText, Sourced
<1>3. inv[j].assist \in BOOLEAN /\ verdict[j] \in Judgments /\ usage[j] \in Nat
  BY <1>1, <1>2 DEF Invoices, Judgments, IInv, TypeOK
<1>4. e \in Entries
  BY <1>2, <1>3 DEF Entries
<1>5. Fits(e, text[j])
  BY <1>2, <1>4 DEF Fits, Sourced
<1>6. cache' = cache \/ cache' = [cache EXCEPT ![text[j]] = e]
  BY DEF Key
<1> HIDE DEF e
<1>7. TypeOK'
  BY <1>2, <1>4, <1>6 DEF IInv, TypeOK
<1>8. \A k \in Jobs \ {j} : Same(k)
  BY DEF IInv, TypeOK, Same
<1>9. CacheOK'
  <2>1. \A t \in Texts : cache'[t] = cache[t] \/ (t = text[j] /\ cache'[t] = e)
    BY <1>2, <1>6 DEF IInv, TypeOK
  <2> QED BY <1>5, <2>1 DEF IInv, CacheOK, Fits, Sourced
<1>10. pc'[j] = "done"
  BY DEF IInv, TypeOK
<1>11. Readable(j)' /\ Judging(j)'
  BY <1>1, <1>10 DEF JobOK, Readable, Judging, HasText, Unjudged
<1>12. Holding(j)' /\ Saving(j)' /\ Charged(j)'
  BY <1>1, <1>10 DEF JobOK, Holding, Saving, Charged, Before, Sourced
<1> QED BY <1>7, <1>8, <1>9, <1>11, <1>12, OneKeeps DEF JobOK

LEMMA AgeKeeps ==
  ASSUME IInv, NEW t \in Texts, Age(t)
  PROVE  IInv'
<1> DEFINE e == IF backend = "redis" THEN Nothing ELSE [cache[t] EXCEPT !.old = TRUE]
<1> USE DEF Age, config, jobVars
<1>1. cache[t] \in Entries /\ Fits(cache[t], t)
  BY DEF IInv, TypeOK, CacheOK
<1>2. [cache[t] EXCEPT !.old = TRUE] \in Entries /\ Fits([cache[t] EXCEPT !.old = TRUE], t)
  BY <1>1 DEF Fits, Entries, Sourced
<1>3. e = Nothing \/ (e \in Entries /\ Fits(e, t))
  BY <1>2
<1>4. cache' = [cache EXCEPT ![t] = e]
  OBVIOUS
<1> HIDE DEF e
<1>5. TypeOK'
  BY <1>3, <1>4 DEF IInv, TypeOK
<1>6. CacheOK'
  <2> SUFFICES ASSUME NEW u \in Texts, cache'[u] # Nothing PROVE Fits(cache'[u], u)
    BY DEF CacheOK, Fits, Sourced
  <2>1. CASE u = t
    <3>1. cache'[u] = e
      BY <1>4, <2>1 DEF IInv, TypeOK
    <3> QED BY <1>3, <2>1, <3>1
  <2>2. CASE u # t
    <3>1. cache'[u] = cache[u]
      BY <1>4, <2>2 DEF IInv, TypeOK
    <3> QED BY <3>1 DEF IInv, CacheOK
  <2> QED BY <2>1, <2>2
<1>7. \A j \in Jobs : Same(j)
  BY DEF Same
<1> QED BY <1>5, <1>6, <1>7, SameKeeps DEF IInv

LEMMA NextIInv == IInv /\ [Next]_vars => IInv'
<1> SUFFICES ASSUME IInv, [Next]_vars PROVE IInv'
  OBVIOUS
<1>1. CASE UNCHANGED vars
  <2>1. TypeOK' /\ CacheOK'
    BY <1>1 DEF vars, IInv, TypeOK, CacheOK
  <2>2. \A j \in Jobs : Same(j)
    BY <1>1 DEF vars, Same
  <2> QED BY <2>1, <2>2, SameKeeps DEF IInv
<1>2. ASSUME NEW j \in Jobs, Step(j) PROVE IInv'
  BY <1>2, TesseractKeeps, OllamaKeeps, LookupKeeps, EvictKeeps, ApplyCacheHitKeeps,
     OpenRouterKeeps, JudgeOnlyKeeps, JudgeWithAssistKeeps, AssistReturnsKeeps,
     JudgeReturnsKeeps, JoinKeeps, SaveKeeps, CacheSetKeeps DEF Step
<1> QED BY <1>1, <1>2, AgeKeeps DEF Next, Over
-----------------------------------------------------------------------------
THEOREM Invariance == Spec => []IInv
BY InitIInv, NextIInv, PTL DEF Spec

\* TypeOK: the variables of cascade and cache keep their types.
THEOREM CascadeTypeCorrect == Spec => []TypeOK
<1>1. IInv => TypeOK
  BY DEF IInv
<1> QED BY <1>1, Invariance, PTL

\* JudgmentIsOfInvoice: StageJev and applyCacheHit save the judgment of the text
\* and items they save, whatever the two goroutines and the other jobs did.
THEOREM JudgmentsFit == Spec => []JudgmentIsOfInvoice
<1>1. IInv => JudgmentIsOfInvoice
  BY DEF IInv, JobOK, Saving, JudgmentIsOfInvoice
<1> QED BY <1>1, Invariance, PTL

\* ItemsAreSourced: items that are not the parse of the text are marked as the
\* assistant's, also when they come from the cache.
THEOREM ItemsHaveSource == Spec => []ItemsAreSourced
<1>1. IInv => ItemsAreSourced
  BY DEF IInv, JobOK, Saving, ItemsAreSourced
<1> QED BY <1>1, Invariance, PTL

\* ChargesAreShown: the judge's charge an invoice shows is that of the one
\* evaluation it took its judgment from, and what applyOpenRouterUsage adds up is
\* what OpenRouter's replies have charged, but for a second reading in vain.
THEOREM ChargesFit == Spec => []ChargesAreShown
<1>1. IInv => ChargeIsOfJudgment
  <2> SUFFICES ASSUME IInv, NEW j \in Jobs, pc[j] \in {"store", "done"}
               PROVE  inv[j].jev = Tokens[inv[j].judgment[2]]
    BY DEF ChargeIsOfJudgment
  <2>1. inv[j].judgment = <<inv[j].text, inv[j].extract>> /\ inv[j].jev = Tokens[inv[j].extract]
    BY DEF IInv, JobOK, Saving
  <2> QED BY <2>1
<1>2. IInv => RouterIsCharged
  BY DEF IInv, JobOK, Charged, RouterIsCharged
<1>3. IInv => ChargesAreShown
  BY <1>1, <1>2 DEF ChargesAreShown
<1> QED BY <1>3, Invariance, PTL

\* CacheIsConsistent: an entry of the OCR cache is a text with its items, their
\* judgment and its charge, whichever jobs wrote, found and evicted it.
THEOREM CacheFits == Spec => []CacheIsConsistent
<1>1. IInv => CacheIsConsistent
  BY DEF IInv, CacheOK, Fits, CacheIsConsistent
<1> QED BY <1>1, Invariance, PTL
=============================================================================
