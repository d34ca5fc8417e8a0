------------------------------- MODULE Service -------------------------------
(***************************************************************************)
(* run of cmd/api/main.go: what the process reads and opens before it      *)
(* serves, the life of an upload (InvoiceLifecycle) while it serves, and   *)
(* the order in which everything is closed again: on a signal, on a server *)
(* that fails, on a part that cannot be opened.                            *)
(*                                                                         *)
(* phase of InvoiceLifecycle goes on from "serving" when run gets past its *)
(* start; start says how far that is.                                      *)
(***************************************************************************)
EXTENDS InvoiceLifecycle, Config

CONSTANT Sources  \* what the environment and the .env files may say, see Config

ASSUME SourcesAssumption ==
  \A s \in Sources : s.files[1].lines \in Seq(Line) /\ s.files[2].lines \in Seq(Line)

VARIABLES
  start,  \* the step of run that is next: "load", "logger", "store", "cache",
          \*   "pprof" (the pipeline runs, the port is open), "select";
          \*   "failing" with the deferred calls to come, "failed" when it has returned
  cfg,    \* what Load made of the sources, or NoConfig
  open    \* what holds connections: "store", "redis", "pprof", and "unanswered",
          \*   a Redis client whose ping failed

begun == <<start, cfg, open>>
svars == <<vars, begun>>

NoConfig == [limits |-> {}, cache |-> "none", pprof |-> "none", key |-> "none"]

STypeOK ==
  /\ TypeOK
  /\ start \in {"load", "logger", "store", "cache", "pprof", "select", "failing", "failed"}
  /\ cfg \in Configs \union {NoConfig}
  /\ open \subseteq {"store", "redis", "unanswered", "pprof"}

SInit == Init /\ start = "load" /\ cfg = NoConfig /\ open = {}
-----------------------------------------------------------------------------
\* Seeded faults.  Each is the form a definition below would take under a
\* plausible bug; the properties are known to be violated under them.
FaultCacheOver == phase \in {"closing", "down"}  \* the cache is closed before the pipeline
-----------------------------------------------------------------------------
Alive == ~crashed /\ start # "failed"

\* One step of run up to the select.
Step(from, to) == Alive /\ start = from /\ start' = to /\ UNCHANGED vars

Load ==
  /\ start = "load" /\ UNCHANGED open
  /\ \E s \in Sources :
       \/ Accepts(s) /\ cfg' = ConfigOf(s) /\ Step("load", "logger")
       \/ ~Accepts(s) /\ UNCHANGED cfg /\ Step("load", "failed")

NewLogger == /\ Step("logger", "store") \/ Step("logger", "failed")
             /\ UNCHANGED <<cfg, open>>

\* Open and OpenPostgres give up on the first statement that fails, a signal
\* among the reasons, and close their pool.
OpenStore == /\ \/ Step("store", "cache") /\ open' = open \union {"store"}
                \/ Step("store", "failed") /\ UNCHANGED open
             /\ UNCHANGED cfg

\* NewRedis verifies the connection, and drops a client that it cannot verify.
\* After the cache nothing fails up to the listeners.
OpenCache == /\ IF cfg.cache = "redis"
                THEN \/ Step("cache", "pprof") /\ open' = open \union {"redis"}
                     \/ Step("cache", "failing") /\ open' = open \union {"unanswered"}
                ELSE Step("cache", "pprof") /\ UNCHANGED open
             /\ UNCHANGED cfg

\* The profiler listens on a loopback address or not at all.
StartPprof == /\ \/ cfg.pprof = "off" /\ UNCHANGED open
                 \/ cfg.pprof = "loopback" /\ open' = open \union {"pprof"}
              /\ Step("pprof", "select") /\ UNCHANGED cfg

\* The deferred st.Close of a run that ends before the pipeline starts.
Fail == Step("failing", "failed") /\ open' = open \ {"store"} /\ UNCHANGED cfg
-----------------------------------------------------------------------------
\* The port is open from the pipeline's start on: uploads come before the select.
Listens == start \in {"pprof", "select"}

Serving == /\ Listens /\ UNCHANGED begun
           /\ \E i \in Invoices : \/ UploadRefused(i) \/ Upload(i) \/ Handler(i) \/ ClientGone(i)
                                  \/ Stage(i) \/ Expire(i) \/ Execute(i)

\* A signal counts from the select on; before, it waits in the context.
Selects == /\ start = "select" /\ Signal /\ UNCHANGED begun

PprofRefused == /\ start = "pprof" /\ cfg.pprof = "elsewhere"
                /\ PprofFails /\ start' = "select" /\ UNCHANGED <<cfg, open>>

ServersStopped == HTTPStopped /\ open' = open \ {"pprof"} /\ UNCHANGED <<start, cfg>>

Drain == (DrainTimeout \/ PipelineDown) /\ UNCHANGED begun

\* The deferred calls run last to first: the cache, then the store.
CacheOver  == phase = "down"
CloseCache == /\ Running /\ CacheOver /\ "redis" \in open
              /\ open' = open \ {"redis"} /\ UNCHANGED <<vars, start, cfg>>
CloseStore == "redis" \notin open /\ StoreClose /\ UNCHANGED begun
Leave      == Exit /\ open' = open \ {"store"} /\ UNCHANGED <<start, cfg>>

Killed == Alive /\ Crash /\ UNCHANGED begun
-----------------------------------------------------------------------------
Starts == Load \/ NewLogger \/ OpenStore \/ OpenCache \/ StartPprof \/ Fail
Stops  == ServersStopped \/ Drain \/ CloseCache \/ CloseStore \/ Leave
SOver  == (~Running \/ ~Alive) /\ UNCHANGED svars

SNext == Starts \/ Serving \/ Selects \/ PprofRefused \/ Stops \/ Killed \/ SOver
SSpec == SInit /\ [][SNext]_svars

Closes == ServersStopped \/ (PipelineDown /\ UNCHANGED begun) \/ CloseCache \/ CloseStore \/ Leave

\* Goroutines run, statements and engine calls end (each hop has a timeout), and
\* run goes on with its stop.  Nobody has to upload, to leave, to stop the
\* service or to run into a timeout, the drain's among them.
SFairness ==
  /\ \A i \in Invoices : /\ WF_svars(Listens /\ Handler(i) /\ UNCHANGED begun)
                         /\ WF_svars(Listens /\ Stage(i) /\ UNCHANGED begun)
                         /\ WF_svars(Listens /\ Execute(i) /\ UNCHANGED begun)
  /\ WF_svars(Closes)

SFairSpec == SSpec /\ SFairness
-----------------------------------------------------------------------------
\* config.go: whatever the sources say, what Load accepts runs as it was said.
\* Every pool, buffer, limit and deadline that main hands on is positive, so
\* that the defaults of applyDefaults and Configure replace none.  And where the
\* file gives an API key on lines that its two readers read alike, none of them
\* blank, no key left in the environment gets through, set or blank.  (On other
\* lines it may: resolveAPIKey then has viper's precedence.)
LimitsAreSet(s) == ConfigOf(s).limits = Handed
FileKeyWins(s)  == SaysAlike(Reads(s), "TYPESAFE_API_KEY") => ConfigOf(s).key = "file"

LoadIsSound ==
  start = "load" => \A s \in Sources : Accepts(s) => LimitsAreSet(s) /\ FileKeyWins(s)

\* main.go: as long as a stage may run, the store is open and, if there is one,
\* Redis; the store is the last to be closed; and however run ends, it leaves
\* nothing open but the client that Redis did not answer.
PartsOutliveJobs ==
  /\ \A i \in Invoices : InFlight(i) /\ PipelineRuns =>
       "store" \in open /\ (cfg.cache = "redis" => "redis" \in open)
  /\ "redis" \in open => "store" \in open /\ phase # "closed"
  /\ start = "failed" \/ phase = "exited" => open \subseteq {"unanswered"}

\* A stop that has begun ends.
StopEnds == phase # "serving" ~> ~Running
=============================================================================
