----------------------------- MODULE ReceiptText -----------------------------
(***************************************************************************)
(* What becomes of an engine's text: CleanText of internal/ocr/clean.go    *)
(* takes the noise out, Parse of internal/extract/extract.go reads items   *)
(* and a total from what is left.  Each is a loop over lines that looks at *)
(* a line once and carries a few flags to the next.                        *)
(*                                                                         *)
(* A line is what the regular expressions say of it: its sort, whether it  *)
(* speaks of a payment or of a total, the name that is left without its    *)
(* numbers (Nothing if there is none, or only junk), quantity and amounts. *)
(* Of a fence it is what follows the mark, or "markdown" after it.         *)
(* Amounts are in cents and quantities whole, so that round2 has nothing   *)
(* to do.                                                                  *)
(***************************************************************************)
EXTENDS Integers, Sequences, SequencesExt, FiniteSetsExt

CONSTANTS Names, Lines, Nothing,
          MaxLines  \* bound: the lines of a text

\* A rule has no letters and no digits; a payment line without amounts is a name.
Line == {l \in [sort : {"blank", "rule", "fence", "meta", "text"}, pay : BOOLEAN,
                total : BOOLEAN, name : Names \union {Nothing}, qty : Nat,
                amounts : Seq(Nat)] :
           /\ l.sort = "rule" => ~l.pay /\ l.name = Nothing /\ l.amounts = <<>>
           /\ l.pay /\ l.amounts = <<>> => l.name # Nothing}

ASSUME LinesAssumption == Lines \subseteq Line /\ MaxLines \in Nat

VARIABLES
  raw,     \* what the engine has answered
  stage,   \* "clean", "parse", "done"
  lines,   \* what the loop of the stage runs over
  at,      \* how many of these are behind it
  out,     \* CleanText: the lines kept
  last,    \* its prevBlank and prevSep: the sort of the last line that was kept
  items,   \* Parse
  total,   \* estimated, or Nothing while foundTotal is false
  desc,    \* pendingDesc
  pending  \* pendingPay

cleanVars == <<out, last>>
parseVars == <<items, total, desc, pending>>
vars      == <<raw, stage, lines, at, out, last, items, total, desc, pending>>

Items == [name : Names \union {Nothing}, qty : Nat, unit : Nat, amount : Nat]

TypeOK ==
  /\ raw \in Seq(Line) /\ lines \in Seq(Line) /\ at \in 0..Len(lines)
  /\ stage \in {"clean", "parse", "done"}
  /\ out \in Seq(Line) /\ last \in {"start", "blank", "rule", "fence", "meta", "text"}
  /\ items \in Seq(Items) /\ total \in Nat \union {Nothing}
  /\ desc \in Names \union {Nothing} /\ pending \in BOOLEAN
  /\ pending => desc # Nothing
-----------------------------------------------------------------------------
\* Seeded faults, under which the properties are known to fail.
FaultFresh(l)   == last # l.sort                    \* a text line hides the next one
FaultForget     == desc' = Nothing /\ UNCHANGED pending  \* a payment outlives the CNPJ
FaultIsTotal(l) == l.total                          \* the payment line is forgotten
-----------------------------------------------------------------------------
Trim(s) == LET T == {i \in 1..Len(s) : s[i].sort # "blank"} IN
           IF T = {} THEN <<>> ELSE SubSeq(s, Min(T), Max(T))

\* trimOCRFences: an opening mark goes, and everything from the next fence on.
Bare(l) == l.sort = "fence" /\ l.name = Nothing /\ l.amounts = <<>>

Open(t) == IF t = <<>> \/ Head(t).sort # "fence" THEN t
           ELSE IF Bare(Head(t)) THEN Trim(Tail(t))
           ELSE [t EXCEPT ![1].sort = "text"]

Cut(u) == LET F == {i \in 2..Len(u) : u[i].sort = "fence"} IN
          IF F = {} THEN u ELSE Trim(SubSeq(u, 1, Min(F) - 1))

TrimFences(s) == Cut(Open(Trim(s)))

Strip(s) == LET T == {i \in 1..Len(s) : s[i].sort \notin {"blank", "rule"}} IN
            IF T = {} THEN <<>> ELSE SubSeq(s, 1, Max(T))

Init == /\ raw \in BoundedSeq(Lines, MaxLines)
        /\ stage = "clean" /\ lines = TrimFences(raw) /\ at = 0
        /\ out = <<>> /\ last = "start"
        /\ items = <<>> /\ total = Nothing /\ desc = Nothing /\ pending = FALSE
-----------------------------------------------------------------------------
\* The next line of a loop.
Reads(loop, l) == /\ stage = loop /\ at < Len(lines) /\ l = lines[at + 1]
                  /\ at' = at + 1
                  /\ UNCHANGED <<raw, stage, lines>>

\* The loop of CleanText.
Fresh(l) == l.sort \notin {"blank", "rule"} \/ last # l.sort

KeepLine(l) == /\ Reads("clean", l) /\ Fresh(l)
               /\ out' = Append(out, l) /\ last' = l.sort
               /\ UNCHANGED parseVars

SkipLine(l) == Reads("clean", l) /\ ~Fresh(l) /\ UNCHANGED <<cleanVars, parseVars>>

\* Its end; Parse is given the result.
Cleaned == /\ stage = "clean" /\ at = Len(lines)
           /\ stage' = "parse" /\ lines' = Trim(Strip(out)) /\ at' = 0
           /\ UNCHANGED <<raw, cleanVars, parseVars>>
-----------------------------------------------------------------------------
\* The loop of Parse.
Plain(l)   == l.sort \notin {"blank", "meta"}
IsTotal(l) == l.total \/ pending
Forget     == desc' = Nothing /\ pending' = FALSE
Parses(l)  == Reads("parse", l) /\ UNCHANGED cleanVars

Item(l, d) ==
  LET qty == IF l.qty = 0 THEN 1 ELSE l.qty IN
  [name |-> IF l.name = Nothing THEN d ELSE l.name, qty |-> qty, unit |-> Head(l.amounts),
   amount |-> IF Len(l.amounts) = 1 THEN Head(l.amounts) * qty ELSE Last(l.amounts)]

SilentLine(l) == /\ Parses(l)
                 /\ l.sort = "blank" \/ (Plain(l) /\ l.amounts = <<>> /\ ~l.pay /\ l.name = Nothing)
                 /\ UNCHANGED parseVars

MetaLine(l) == Parses(l) /\ l.sort = "meta" /\ Forget /\ UNCHANGED <<items, total>>

PaymentLine(l) == /\ Parses(l) /\ Plain(l) /\ l.amounts = <<>> /\ l.pay
                  /\ desc' = l.name /\ pending' = TRUE
                  /\ UNCHANGED <<items, total>>

NameLine(l) == /\ Parses(l) /\ Plain(l) /\ l.amounts = <<>> /\ ~l.pay /\ l.name # Nothing
               /\ desc' = l.name /\ pending' = FALSE
               /\ UNCHANGED <<items, total>>

TotalLine(l) == /\ Parses(l) /\ Plain(l) /\ l.amounts # <<>> /\ IsTotal(l)
                /\ total' = Last(l.amounts) /\ desc' = Nothing /\ pending' = FALSE
                /\ UNCHANGED items

ItemLine(l) == /\ Parses(l) /\ Plain(l) /\ l.amounts # <<>> /\ ~IsTotal(l)
               /\ items' = Append(items, Item(l, desc)) /\ desc' = Nothing
               /\ UNCHANGED <<total, pending>>

Parsed == /\ stage = "parse" /\ at = Len(lines)
          /\ stage' = "done" /\ UNCHANGED <<raw, lines, at, cleanVars, parseVars>>

ParseLine(l) == \/ SilentLine(l) \/ MetaLine(l) \/ PaymentLine(l)
                \/ NameLine(l) \/ TotalLine(l) \/ ItemLine(l)

Next == \/ \E l \in Range(lines) : KeepLine(l) \/ SkipLine(l) \/ ParseLine(l)
        \/ Cleaned \/ Parsed
        \/ stage = "done" /\ UNCHANGED vars

Spec == Init /\ [][Next]_vars
-----------------------------------------------------------------------------
\* What the first n lines of a text mean, said without a loop: an amount is a
\* total if its line says so or the last line that says anything names a payment
\* without an amount; any other amount is an item, under its own name or that of
\* such a line.  The items come in the order of their lines; the last total counts.
Speaks(l)    == l.sort = "meta" \/ (Plain(l) /\ (l.amounts # <<>> \/ l.pay \/ l.name # Nothing))
Announces(l) == Plain(l) /\ l.amounts = <<>> /\ Speaks(l)
Priced(l)    == Plain(l) /\ l.amounts # <<>>

Before(s, i)  == LET B == {k \in 1..(i - 1) : Speaks(s[k])} IN IF B = {} THEN 0 ELSE Max(B)
Named(s, i)   == Before(s, i) # 0 /\ Announces(s[Before(s, i)])
NameFor(s, i) == IF Named(s, i) THEN s[Before(s, i)].name ELSE Nothing
PaidBy(s, i)  == Named(s, i) /\ s[Before(s, i)].pay

Totals(s, n)  == {i \in 1..n : Priced(s[i]) /\ (s[i].total \/ PaidBy(s, i))}
Sold(s, n)    == {i \in 1..n : Priced(s[i]) /\ ~s[i].total /\ ~PaidBy(s, i)}
TotalOf(s, n) == IF Totals(s, n) = {} THEN Nothing ELSE Last(s[Max(Totals(s, n))].amounts)

Means(s, n, its, tot) ==
  /\ Len(its) = Cardinality(Sold(s, n))
  /\ \A i \in Sold(s, n) : its[Cardinality(Sold(s, i))] = Item(s[i], NameFor(s, i))
  /\ tot = TotalOf(s, n)

\* The loop's flags never carry a product or a payment too far: what it has
\* read so far is what the lines behind it mean.
LoopReadsMeaning == stage # "clean" => Means(lines, at, items, total)
-----------------------------------------------------------------------------
Fences(s) == {i \in 1..Len(s) : s[i].sort = "fence"}

\* A pair of fences with something between them, and nothing before.
Encloses(s, i, j) ==
  /\ i < j /\ Bare(s[i]) /\ s[j].sort = "fence"
  /\ \A k \in 1..(i - 1) : s[k].sort = "blank"
  /\ \A k \in (i + 1)..(j - 1) : s[k].sort # "fence"
  /\ \E k \in (i + 1)..(j - 1) : s[k].sort # "blank"

\* Taking the noise out of a text changes nothing of what is read from it: the
\* cache and the judge see cleaned texts, and the items are theirs.  What stands
\* between a pair of fences is read as if there were none, and what follows the
\* second is not read.  (Of an empty pair, one fence is left over.)
CleaningKeepsMeaning ==
  stage = "done" =>
    /\ Fences(raw) = {} => Means(raw, Len(raw), items, total)
    /\ \A i, j \in Fences(raw) : Encloses(raw, i, j) =>
         Means(SubSeq(raw, i + 1, j - 1), j - i - 1, items, total)
=============================================================================
