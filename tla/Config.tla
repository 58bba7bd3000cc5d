------------------------------- MODULE Config -------------------------------
(* internal/config/config.go: what the NADIR_* variables make of the router. *)
(* An environment is a record: a name is "" if unset, a number is what its   *)
(* parser makes of the text, <<n>> or <<>>, and a list is what splitting at  *)
(* commas yields.                                                            *)
EXTENDS SequencesExt, Integers

CONSTANTS FamilyMarks       \* which of "ollama/", "claude", "gemini" a model's
                            \* name starts with or holds

getEnv(value, def) == IF value # "" THEN value ELSE def
getEnvNumber(parsed, def) == IF parsed = <<>> THEN def ELSE parsed[1]

\* Two numbers or the defaults: one that does not parse spoils both.
getEnvThresholds(parts, def) ==
    IF Len(parts) = 2 /\ <<>> \notin {parts[1], parts[2]}
    THEN <<parts[1][1], parts[2][1]>> ELSE def

\* The first mark counts.
providerFor(model) ==
    LET marks == FamilyMarks[model]
    IN  CASE "ollama/" \in marks -> "ollama"
          [] "claude" \in marks /\ "ollama/" \notin marks -> "anthropic"
          [] marks = {"gemini"} -> "gemini"
          [] OTHER -> "openai"

\* inferProviderMap: a guess for every model of the configuration, and over it
\* NADIR_PROVIDER_MAP, whose entries are pairs, or <<>> where there is no "=".
inferProviderMap(c, overrides) ==
    LET models == {c.simple, c.mid, c.complex, c.reasoning} \cup ToSet(c.fallback)
        guess == [m \in models \ {""} |-> providerFor(m)]
    IN  FoldLeft(LAMBDA map, e : IF e = <<>> THEN map ELSE (e[1] :> e[2]) @@ map,
                 guess, overrides)

Tiers(env) == [simple    |-> getEnv(env.simple, "gpt-4o-mini"),
               mid       |-> env.mid,
               complex   |-> getEnv(env.complex, "gpt-4o"),
               reasoning |-> env.reasoning,
               fallback  |-> env.fallback]

\* Load: of its fields those that the router and the classifier are given.
Load(env) ==
    [tiers      |-> Tiers(env),
     providers  |-> inferProviderMap(Tiers(env), env.provider_map),
     thresholds |-> getEnvThresholds(env.tier_thresholds, <<35, 65>>),
     cascade    |-> getEnvNumber(env.cascade_threshold, 0)]

\* buildProviders (cmd/nadir/serve.go): the providers that get a client. Keys of
\* others are read and not used; without any client serve does not start.
buildProviders(env) ==
    LET OllamaBaseURL == getEnv(env.ollama_base_url, "http://localhost:11434/v1")
    IN  {p \in {"openai", "ollama"} :
            \/ p = "openai" /\ {env.openai_api_key, env.openai_base_url} # {""}
            \/ p = "ollama" /\ OllamaBaseURL # ""}

\* The thresholds of router.Config go to the classifier instead.
RouterConfig(c) == [simple |-> c.tiers.simple, mid |-> c.tiers.mid,
                    complex |-> c.tiers.complex, reasoning |-> c.tiers.reasoning,
                    fallback |-> c.tiers.fallback, providers |-> c.providers]
=============================================================================
