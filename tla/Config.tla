------------------------------- MODULE Config -------------------------------
(***************************************************************************)
(* config.Load of internal/config/config.go: what the process environment  *)
(* and a .env file say, and what the program makes of it or refuses.       *)
(*                                                                         *)
(* A source says something about some keys.  What it says is a word, or    *)
(* for a number how it stands to the range of its key: "low" (zero or      *)
(* less; below zero where zero is allowed), "fit", "high".  "junk" is what *)
(* no conversion takes, "blank" is spaces, "empty" nothing at all.  "unset"*)
(* is a key no source speaks of.                                           *)
(*                                                                         *)
(* A file is parsed twice, by viper and, for API keys, by dotenvValue; the *)
(* two do not take the same lines.  A line has a key, a word and a form:   *)
(* "plain" KEY=word reads the same to both; "loose" (export KEY=word,      *)
(* KEY: word, a key in other letters) only viper knows; and of a "noted"   *)
(* one, with a comment after the word, dotenvValue makes the comment part  *)
(* of the value.                                                           *)
(***************************************************************************)
EXTENDS Naturals, Sequences

\* Seeded faults, under which the properties that read this module fail:
\* JOB_TIMEOUT is not looked at, nor is the name of the cache.
FaultPositive == {"MAX_UPLOAD_BYTES", "WORKER_COUNT", "JOB_QUEUE_SIZE", "PREP_WORKERS",
                  "OCR_WORKERS", "JEV_WORKERS", "INGEST_BUFFER", "OCR_BUFFER", "JEV_BUFFER",
                  "SHUTDOWN_TIMEOUT", "TYPESAFE_TIMEOUT", "OPENROUTER_TIMEOUT",
                  "OLLAMA_TIMEOUT"}
FaultWords == [LOG_FORMAT |-> {"text", "json"}, DB_BACKEND |-> {"sqlite", "postgres"}]
-----------------------------------------------------------------------------
\* The counts and durations Load insists on.
Positive == {"MAX_UPLOAD_BYTES", "WORKER_COUNT", "JOB_QUEUE_SIZE", "PREP_WORKERS",
             "OCR_WORKERS", "JEV_WORKERS", "INGEST_BUFFER", "OCR_BUFFER", "JEV_BUFFER",
             "JOB_TIMEOUT", "SHUTDOWN_TIMEOUT", "TYPESAFE_TIMEOUT", "OPENROUTER_TIMEOUT",
             "OLLAMA_TIMEOUT"}

\* Newer names, and the older ones they fall back on.
Alias == [WORKER_COUNT_LOCAL |-> "OCR_WORKERS", WORKER_COUNT_API |-> "JEV_WORKERS",
          OCR_TIMEOUT |-> "OLLAMA_TIMEOUT", ASSIST_TIMEOUT |-> "OPENROUTER_TIMEOUT",
          JEV_TIMEOUT |-> "TYPESAFE_TIMEOUT"]

Words == [LOG_FORMAT    |-> {"text", "json"},
          DB_BACKEND    |-> {"sqlite", "postgres"},
          CACHE_BACKEND |-> {"memory", "redis"}]

Default(k) == CASE k \in DOMAIN Alias \union {"TYPESAFE_API_KEY"} -> "unset"
                [] k = "LOG_FORMAT"         -> "text"
                [] k = "DB_BACKEND"         -> "sqlite"
                [] k = "CACHE_BACKEND"      -> "memory"
                [] k = "OCR_CACHE_ENABLED"  -> "true"
                [] k = "DEBUG_PPROF"        -> "false"
                [] k = "DEBUG_PPROF_ADDR"   -> "loopback"
                [] k = "PG_SYNC_COMMIT"     -> "off"
                [] OTHER                    -> "fit"
-----------------------------------------------------------------------------
\* A source set: the environment, and two files of which the first that is
\* there is read.  Any of the three may say nothing.
Reads(s)    == IF s.files[1].state # "missing" THEN s.files[1] ELSE s.files[2]
InEnv(s, k) == IF k \in DOMAIN s.env THEN s.env[k] ELSE "unset"

Line == [key : STRING, word : STRING, form : {"plain", "loose", "noted"}]

LinesOf(f, k, forms) == {i \in 1..Len(f.lines) : f.lines[i].key = k /\ f.lines[i].form \in forms}

\* viper's decoder: of several lines for a key the last.
Decoded(f, k) ==
  LET at == LinesOf(f, k, {"plain", "loose", "noted"})
  IN  IF at = {} THEN "unset" ELSE f.lines[CHOOSE i \in at : \A j \in at : j <= i].word

\* The program's own reader: of several lines the first.
DotenvValue(f, k) ==
  LET at   == LinesOf(f, k, {"plain", "noted"})
      line == f.lines[CHOOSE i \in at : \A j \in at : i <= j]
  IN  IF at = {} THEN "unset" ELSE IF line.form = "noted" THEN "junk" ELSE line.word

FromEnv(s, k) == InEnv(s, k) \notin {"unset", "empty"}
Setting(s, k) ==
  LET file == Decoded(Reads(s), k)
  IN  IF FromEnv(s, k) THEN InEnv(s, k) ELSE IF file # "unset" THEN file ELSE Default(k)

\* The fault of an API key that is found as any other value is.
FaultKeyFrom(s, k) ==
  IF InEnv(s, k) \notin {"unset", "empty", "blank"} THEN "environment" ELSE "file"

\* An API key is what dotenvValue finds, and failing that what viper says:
\* here, which of the two sources it comes from.
Blank(raw) == raw \in {"unset", "empty", "blank"}
KeyFrom(s, k) ==
  CASE ~Blank(DotenvValue(Reads(s), k)) -> "file"
    [] Blank(DotenvValue(Reads(s), k)) /\ Blank(Setting(s, k)) -> "none"
    [] OTHER -> IF FromEnv(s, k) THEN "environment" ELSE "file"

\* What both readers take for the same: lines of which none is blank or special.
SaysAlike(f, k) ==
  LET at == LinesOf(f, k, {"plain", "loose", "noted"})
  IN  at # {} /\ \A i \in at : f.lines[i].form = "plain" /\ ~Blank(f.lines[i].word)

\* The conversions: a number that cannot be read is zero, a truth value false.
IsPositive(raw) == raw \in {"fit", "high"}
InRange(raw)    == raw \notin {"low", "high"}

\* resolveWorkerCount and resolveDuration: what is not positive is passed over.
Resolved(s, k) ==
  IF k \in DOMAIN Alias /\ ~IsPositive(Setting(s, k)) THEN Setting(s, Alias[k]) ELSE Setting(s, k)

PostgresOK(s) == /\ \A k \in {"PG_HOST", "PG_USER", "PG_DBNAME"} : ~Blank(Setting(s, k))
                 /\ Setting(s, "PG_PORT") = "fit"
                 /\ Setting(s, "PG_SYNC_COMMIT") \in {"off", "local", "remote_write", "on"}
RedisOK(s)    == /\ ~Blank(Setting(s, "REDIS_ADDR"))
                 /\ InRange(Setting(s, "REDIS_DB"))
                 /\ IsPositive(Setting(s, "REDIS_POOL_SIZE"))

Accepts(s) ==
  /\ Reads(s).state # "broken"
  /\ \A k \in Positive \union DOMAIN Alias : IsPositive(Resolved(s, k))
  /\ InRange(Setting(s, "OCR_MIN_CONFIDENCE"))
  /\ ~Blank(Setting(s, "DEBUG_PPROF_ADDR"))
  /\ \A k \in DOMAIN Words : Setting(s, k) \in Words[k]
  /\ Setting(s, "DB_BACKEND") = "postgres" => PostgresOK(s)
  /\ Setting(s, "CACHE_BACKEND") = "redis" => RedisOK(s)

\* What main does with it: the pools, buffers, limits and deadlines that it
\* hands on, of which limits are those that are positive, and the parts it opens.
\* (The two databases are opened and used alike; OpenRouter's API key is found
\* like TypeSafe's.)
Handed == {"MAX_UPLOAD_BYTES", "PREP_WORKERS", "WORKER_COUNT_LOCAL", "WORKER_COUNT_API",
           "INGEST_BUFFER", "OCR_BUFFER", "JEV_BUFFER", "JOB_TIMEOUT", "SHUTDOWN_TIMEOUT",
           "OCR_TIMEOUT", "ASSIST_TIMEOUT", "JEV_TIMEOUT"}

Configs == [limits : SUBSET Handed, cache : {"off", "memory", "redis"},
            pprof  : {"off", "loopback", "elsewhere"}, key : {"file", "environment", "none"}]

PprofAt(s) == CASE Setting(s, "DEBUG_PPROF") # "true"           -> "off"
                [] Setting(s, "DEBUG_PPROF_ADDR") = "loopback" -> "loopback"
                [] OTHER                                       -> "elsewhere"

ConfigOf(s) ==
  [limits |-> {k \in Handed : IsPositive(Resolved(s, k))},
   cache  |-> IF Setting(s, "OCR_CACHE_ENABLED") = "true" THEN Setting(s, "CACHE_BACKEND") ELSE "off",
   pprof  |-> PprofAt(s),
   key    |-> KeyFrom(s, "TYPESAFE_API_KEY")]
=============================================================================
