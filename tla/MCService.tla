------------------------------ MODULE MCService ------------------------------
(* Small instances of Service for TLC. *)
EXTENDS Service, Functions

\* The keys the sources of an instance speak of, and what they say: a backend
\* of each kind, numbers out of range and garbled, older names, an API key.
Said == {<<"JOB_TIMEOUT", "low">>, <<"JOB_TIMEOUT", "fit">>, <<"OCR_TIMEOUT", "low">>,
         <<"OLLAMA_TIMEOUT", "junk">>, <<"OCR_MIN_CONFIDENCE", "high">>,
         <<"DB_BACKEND", "postgres">>, <<"PG_HOST", "blank">>, <<"PG_SYNC_COMMIT", "junk">>,
         <<"CACHE_BACKEND", "redis">>, <<"CACHE_BACKEND", "junk">>, <<"REDIS_POOL_SIZE", "junk">>,
         <<"OCR_CACHE_ENABLED", "junk">>, <<"OCR_CACHE_ENABLED", "empty">>,
         <<"DEBUG_PPROF", "true">>, <<"DEBUG_PPROF_ADDR", "elsewhere">>,
         <<"DEBUG_PPROF_ADDR", "blank">>, <<"LOG_FORMAT", "junk">>,
         <<"TYPESAFE_API_KEY", "fit">>, <<"TYPESAFE_API_KEY", "blank">>, <<"", "broken">>}

\* Which file is read does not depend on its keys: of the second some suffice.
Sayings == ({"env", ".env"} \X Said) \union
           ({"configs/.env"} \X {<<"JOB_TIMEOUT", "low">>, <<"CACHE_BACKEND", "redis">>,
                                 <<"TYPESAFE_API_KEY", "fit">>, <<"", "broken">>})

\* Each as a line of its site; an API key in a file in every form.
TextLine(say, form) == [site |-> say[1], key |-> say[2][1], word |-> say[2][2], form |-> form]
Lines == {TextLine(say, "plain") : say \in Sayings}
           \union {TextLine(say, form) : say \in {t \in Sayings : t[2][1] = "TYPESAFE_API_KEY"
                                                            /\ t[1] # "env"},
                                   form \in {"loose", "noted"}}

OfSite(text, site) == SelectSeq(text, LAMBDA line : line.site = site)

\* In the environment a name stands once; of a file the order counts.
Env(text) ==
  LET env == Range(OfSite(text, "env"))
  IN  [k \in {line.key : line \in env} \ {""} |-> (CHOOSE line \in env : line.key = k).word]
File(text, site) ==
  LET from == OfSite(text, site)
  IN  [state |-> IF from = <<>> THEN "missing"
                 ELSE IF \E line \in Range(from) : line.word = "broken" THEN "broken" ELSE "ok",
       lines |-> [i \in DOMAIN from |-> [key |-> from[i].key, word |-> from[i].word,
                                         form |-> from[i].form]]]
SourcesOf(text) ==
  [env |-> Env(text), files |-> <<File(text, ".env"), File(text, "configs/.env")>>]

\* No sources, or up to three lines.
MCSources == {SourcesOf(text) : text \in {<<>>} \union [1..3 -> Lines]}
=============================================================================
