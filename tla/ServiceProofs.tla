---------------------------- MODULE ServiceProofs ----------------------------
(***************************************************************************)
(* Proofs about Service, for any uploads and any sources of configuration: *)
(* the process with its start and its deferred calls behaves as            *)
(* InvoiceLifecycle while it serves, so that what LifecycleProofs shows of *)
(* uploads holds of it; what Load accepts is sound; and the parts outlive  *)
(* what uses them.                                                         *)
(***************************************************************************)
EXTENDS Service, LifecycleProofs, WellFoundedInduction

\* What is open when, by how far run has come.
Opened ==
  /\ start \in {"load", "logger", "store"} => open = {}
  /\ start = "cache" => open = {"store"}
  /\ start = "failing" => open \subseteq {"store", "unanswered"}
  /\ start = "failed" => open \subseteq {"unanswered"}
  /\ start = "pprof" => open \subseteq {"store", "redis"}
  /\ start = "select" => "unanswered" \notin open

\* And while it serves, by how far the stop has come.
Kept ==
  /\ start # "select" => phase = "serving"
  /\ ~Listens => \A i \in Invoices : jpc[i] = "none"
  /\ Listens /\ phase # "exited" => "store" \in open
  /\ Listens /\ phase \in {"serving", "draining", "closing"} /\ cfg.cache = "redis"
       => "redis" \in open
  /\ phase \in {"closed", "exited"} => "redis" \notin open
  /\ phase \in {"closing", "down", "closed", "exited"} => "pprof" \notin open
  /\ phase = "exited" => open = {}

SIInv == STypeOK /\ Opened /\ Kept
-----------------------------------------------------------------------------
\* Every step of the process is a step of an upload's life, or none of it.
LEMMA StepRefines == SNext => [Next]_vars
<1> SUFFICES ASSUME SNext PROVE [Next]_vars
  OBVIOUS
<1>1. CASE Starts
  BY <1>1 DEF Starts, Load, NewLogger, OpenStore, OpenCache, StartPprof, Fail, Step
<1>2. CASE Serving
  BY <1>2 DEF Serving, Next
<1>3. CASE Selects \/ PprofRefused \/ Killed
  BY <1>3 DEF Selects, PprofRefused, Killed, Next
<1>4. CASE Stops
  BY <1>4 DEF Stops, ServersStopped, Drain, CloseCache, CloseStore, Leave, Next, Stopping
<1>5. CASE SOver
  BY <1>5 DEF SOver, svars
<1> QED BY <1>1, <1>2, <1>3, <1>4, <1>5 DEF SNext

\* What is proved of InvoiceLifecycle holds of the process.
THEOREM ServiceLives == SSpec => Spec
<1>1. SInit => Init
  BY DEF SInit
<1>2. [SNext]_svars => [Next]_vars
  BY StepRefines DEF svars
<1> QED BY <1>1, <1>2, PTL DEF SSpec, Spec

\* Above all that an upload is in the service whole or not at all, that two
\* writes of a row do not meet, that results reach their rows, that what a
\* client polls goes forward, and that the pipeline and the store are used
\* within what they promise: from Load to the last deferred call.
THEOREM ProcessKeepsUploads ==
  SSpec => [](UploadIsWhole /\ OneWriter /\ ResultsReachRow) /\ StatusForward /\ KeepsPromises
<1> QED BY ServiceLives, UploadsAreWhole, WritesDoNotMeet, ResultsAreSaved, PollsForward,
           UsesPackages, PTL
-----------------------------------------------------------------------------
\* What main hands on is validated, under its own name or under that of the
\* older key it falls back on.
LEMMA HandedIsPositive ==
  ASSUME NEW s, Accepts(s)
  PROVE  ConfigOf(s).limits = Handed
<1>1. Handed \subseteq Positive \union DOMAIN Alias
  BY DEF Handed, Positive, Alias
<1>2. \A k \in Handed : IsPositive(Resolved(s, k))
  BY <1>1 DEF Accepts
<1> QED BY <1>2 DEF ConfigOf

LEMMA ConfigTyped ==
  ASSUME NEW s, Accepts(s)
  PROVE  ConfigOf(s) \in Configs
<1>1. Setting(s, "CACHE_BACKEND") \in {"memory", "redis"}
  BY DEF Accepts, Words
<1>2. PprofAt(s) \in {"off", "loopback", "elsewhere"}
  BY DEF PprofAt
<1>3. {k \in Handed : IsPositive(Resolved(s, k))} \in SUBSET Handed
  OBVIOUS
<1>4. KeyFrom(s, "TYPESAFE_API_KEY") \in {"file", "environment", "none"}
  BY DEF KeyFrom
<1> QED BY <1>1, <1>2, <1>3, <1>4 DEF ConfigOf, Configs

\* The first of the lines that name a key is one of them.
LEMMA FirstLine ==
  ASSUME NEW at \in SUBSET Nat, at # {}
  PROVE  (CHOOSE i \in at : \A j \in at : i <= j) \in at
<1>1. PICK i \in at : \A j \in at : <<j, i>> \notin OpToRel(<, Nat)
  BY WFMin, NatLessThanWellFounded, Zenon
<1>2. \A j \in at : ~(j < i)
  BY <1>1 DEF OpToRel
<1>3. \A j \in at : i <= j
  BY <1>2
<1> QED BY <1>3

\* If all lines for a key are alike to both readers, so is the first, which is
\* the one that dotenvValue takes.
LEMMA FileKeyFirst ==
  ASSUME NEW s \in Sources
  PROVE  FileKeyWins(s)
<1> SUFFICES ASSUME SaysAlike(Reads(s), "TYPESAFE_API_KEY") PROVE ConfigOf(s).key = "file"
  BY DEF FileKeyWins
<1> DEFINE f     == Reads(s)
           k     == "TYPESAFE_API_KEY"
           at    == LinesOf(f, k, {"plain", "noted"})
           first == CHOOSE i \in at : \A j \in at : i <= j
<1>1. f.lines \in Seq(Line)
  BY SourcesAssumption DEF Reads
<1>2. at \subseteq Nat
  BY <1>1 DEF LinesOf
<1>3. at # {} /\ \A i \in at : f.lines[i].form = "plain" /\ ~Blank(f.lines[i].word)
  BY DEF SaysAlike, LinesOf
<1> HIDE DEF f, k, at
<1>4. first \in at
  BY <1>2, <1>3, FirstLine
<1>5. ~Blank(f.lines[first].word) /\ f.lines[first].form = "plain"
  BY <1>3, <1>4
<1>6. DotenvValue(f, k) = f.lines[first].word
  BY <1>3, <1>5 DEF DotenvValue, at
<1>7. KeyFrom(s, k) = "file"
  BY <1>5, <1>6 DEF KeyFrom, f
<1> QED BY <1>7 DEF ConfigOf, k

\* LoadIsSound: what Load accepts is what the pools, buffers and deadlines get,
\* and an API key that the file gives on lines that are the same to viper and to
\* dotenvValue is the one that is used, whatever the environment holds.
THEOREM LoadSound == SSpec => []LoadIsSound
<1>1. LoadIsSound
  BY HandedIsPositive, FileKeyFirst DEF LoadIsSound, LimitsAreSet
<1> QED BY <1>1, PTL
-----------------------------------------------------------------------------
LEMMA InitSIInv == SInit => SIInv
<1> SUFFICES ASSUME SInit PROVE SIInv
  OBVIOUS
<1>1. IInv
  BY InitIInv DEF SInit
<1>2. STypeOK
  BY <1>1 DEF SInit, STypeOK, IInv
<1>3. Opened
  BY DEF SInit, Opened
<1>4. Kept
  BY DEF SInit, Init, Kept, Listens
<1> QED BY <1>2, <1>3, <1>4 DEF SIInv

\* The start, up to the select.
LEMMA StartsKeep ==
  ASSUME SIInv, Starts, TypeOK'
  PROVE  SIInv'
<1> USE DEF Step, SIInv
<1>1. UNCHANGED <<phase, jpc>>
  BY DEF Starts, Load, NewLogger, OpenStore, OpenCache, StartPprof, Fail, vars
<1>2. STypeOK'
  <2>1. CASE Load
    <3>1. PICK s \in Sources :
            \/ Accepts(s) /\ cfg' = ConfigOf(s) /\ Step("load", "logger")
            \/ ~Accepts(s) /\ UNCHANGED cfg /\ Step("load", "failed")
      BY <2>1 DEF Load
    <3>2. cfg' \in Configs \union {NoConfig}
      <4>1. CASE Accepts(s) /\ cfg' = ConfigOf(s)
        BY <4>1, ConfigTyped
      <4>2. CASE cfg' = cfg
        BY <4>2 DEF STypeOK
      <4> QED BY <3>1, <4>1, <4>2
    <3>3. open' = open /\ start' \in {"logger", "failed"}
      BY <2>1, <3>1 DEF Load
    <3> QED BY <3>2, <3>3 DEF STypeOK
  <2>2. CASE NewLogger
    BY <2>2 DEF NewLogger, STypeOK
  <2>3. CASE OpenStore \/ OpenCache
    BY <2>3 DEF OpenStore, OpenCache, STypeOK
  <2>4. CASE StartPprof \/ Fail
    BY <2>4 DEF StartPprof, Fail, STypeOK
  <2> QED BY <2>1, <2>2, <2>3, <2>4 DEF Starts
<1>3. Opened'
  BY DEF Starts, Load, NewLogger, OpenStore, OpenCache, StartPprof, Fail, Opened
<1>4. Kept'
  <2>1. CASE Load \/ NewLogger \/ OpenStore \/ Fail
    BY <1>1, <2>1 DEF Load, NewLogger, OpenStore, Fail, Kept, Listens
  <2>2. CASE OpenCache
    BY <1>1, <2>2 DEF OpenCache, Kept, Opened, Listens
  <2>3. CASE StartPprof
    BY <1>1, <2>3 DEF StartPprof, Kept, Opened, Listens
  <2> QED BY <2>1, <2>2, <2>3 DEF Starts
<1> QED BY <1>2, <1>3, <1>4

\* The steps while it serves change nothing of what is open.
LEMMA ServingKeeps ==
  ASSUME SIInv, Serving, TypeOK'
  PROVE  SIInv'
<1>1. UNCHANGED begun /\ Listens
  BY DEF Serving
<1>2. phase' = phase
  BY DEF Serving, UploadRefused, Upload, Handler, CreateReturns, Accept, Refuse, Undo,
         DeleteReturns, Answer, ClientGone, Stage, StagePreprocess, MarkReturns, Prepare, StageOCR,
         StageJev, Persist, SaveReturns, Expire, Execute, process
<1>3. STypeOK' /\ Opened'
  BY <1>1 DEF SIInv, STypeOK, Opened, begun
<1>4. Kept'
  BY <1>1, <1>2 DEF SIInv, Kept, Listens, begun
<1> QED BY <1>3, <1>4 DEF SIInv

\* The stop, and the kill.
LEMMA StopsKeep ==
  ASSUME SIInv, Selects \/ PprofRefused \/ Stops \/ Killed \/ UNCHANGED svars, TypeOK'
  PROVE  SIInv'
<1>1. CASE Selects \/ PprofRefused
  <2>1. UNCHANGED <<cfg, open>> /\ start' = "select" /\ start \in {"pprof", "select"}
    BY <1>1 DEF Selects, PprofRefused, begun
  <2>2. phase = "serving" /\ phase' \in {"draining", "closing"} /\ jpc' = jpc
    BY <1>1 DEF Selects, PprofRefused, Signal, PprofFails, Main, job
  <2>3. CASE start = "select" /\ phase' = "draining"
    BY <2>1, <2>2, <2>3 DEF SIInv, STypeOK, Opened, Kept, Listens
  <2>4. CASE start = "pprof"
    BY <2>1, <2>2, <2>4 DEF SIInv, STypeOK, Opened, Kept, Listens
  <2> QED BY <1>1, <2>1, <2>3, <2>4 DEF Selects, PprofRefused, Signal, Main
<1>2. CASE ServersStopped
  BY <1>2 DEF ServersStopped, HTTPStopped, Main, job, SIInv, STypeOK, Opened, Kept, Listens
<1>3. CASE Drain
  BY <1>3 DEF Drain, DrainTimeout, PipelineDown, Main, job, begun, SIInv, STypeOK, Opened, Kept,
              Listens
<1>4. CASE CloseCache
  BY <1>4 DEF CloseCache, CacheOver, vars, SIInv, STypeOK, Opened, Kept, Listens
<1>5. CASE CloseStore
  BY <1>5 DEF CloseStore, StoreClose, PipelineOver, Main, job, begun, SIInv, STypeOK, Opened, Kept,
              Listens
<1>6. CASE Leave
  BY <1>6 DEF Leave, Exit, Main, job, SIInv, STypeOK, Opened, Kept, Listens
<1>7. CASE Killed \/ UNCHANGED svars
  BY <1>7 DEF Killed, Crash, svars, vars, job, begun, SIInv, STypeOK, Opened, Kept, Listens
<1> QED BY <1>1, <1>2, <1>3, <1>4, <1>5, <1>6, <1>7 DEF Stops

LEMMA NextSIInv == SIInv /\ TypeOK' /\ [SNext]_svars => SIInv'
BY StartsKeep, ServingKeeps, StopsKeep DEF SNext, SOver

\* SIInv holds in every state of the process.
THEOREM ServiceInductive == SSpec => []SIInv
<1> QED BY InitSIInv, NextSIInv, ServiceLives, LifeTypeCorrect, PTL DEF SSpec

\* STypeOK: the variables of the process keep their types.
THEOREM ServiceTypeCorrect == SSpec => []STypeOK
<1>1. SIInv => STypeOK
  BY DEF SIInv
<1> QED BY <1>1, ServiceInductive, PTL

\* PartsOutliveJobs: as long as a stage may run the store and the cache's Redis
\* are open, the store closes last, and nothing is left open but a client that
\* Redis did not answer.
THEOREM PartsOutlive == SSpec => []PartsOutliveJobs
<1>1. SIInv /\ IInv => PartsOutliveJobs
  <2> SUFFICES ASSUME SIInv, IInv PROVE PartsOutliveJobs
    OBVIOUS
  <2>1. ASSUME NEW i \in Invoices, InFlight(i), PipelineRuns
        PROVE  "store" \in open /\ (cfg.cache = "redis" => "redis" \in open)
    <3>1. phase \in {"serving", "draining", "closing"}
      BY <2>1 DEF IInv, TypeOK, Stopped, PipelineRuns, Running
    <3>2. Listens
      BY <2>1 DEF SIInv, Kept, InFlight
    <3> QED BY <3>1, <3>2 DEF SIInv, Kept
  <2>2. "redis" \in open => "store" \in open /\ phase # "closed"
    BY DEF SIInv, STypeOK, Opened, Kept, Listens
  <2>3. start = "failed" \/ phase = "exited" => open \subseteq {"unanswered"}
    BY DEF SIInv, Opened, Kept
  <2> QED BY <2>1, <2>2, <2>3 DEF PartsOutliveJobs
<1> QED BY <1>1, ServiceInductive, ServiceLives, LifeInductive, PTL
=============================================================================
