------------------------------ MODULE MCRouting ------------------------------
(* Routing over the configurations that environments yield: every tier set,  *)
(* two of them, nothing at all, one model in two roles, overlapping fallback *)
(* chains; and over one that a user of the library may write.                *)
EXTENDS Routing, Config

MCNames == {"big", "mid", "small", "other", "opus"}
MCPinModels == {"big", "mid", "small", "think", "other", "gpt-4o", "gpt-4o-mini", ""}
MCAliases == [n \in MCNames |-> IF n = "opus" THEN "big" ELSE n]
MCFamilyMarks == [m \in MCPinModels |-> CASE m = "small" -> {"ollama/", "gemini"}
                                          [] m \in {"big", "think"} -> {"claude"}
                                          [] OTHER -> {}]

Unset == [simple |-> "", mid |-> "", complex |-> "", reasoning |-> "", fallback |-> <<>>,
          provider_map |-> <<>>, tier_thresholds |-> <<>>, cascade_threshold |-> <<40>>,
          openai_api_key |-> "", openai_base_url |-> "", ollama_base_url |-> ""]
TwoTiers == [Unset EXCEPT !.simple = "small", !.complex = "big",
                          !.fallback = <<"big", "other", "", "big">>]
Full == [TwoTiers EXCEPT !.mid = "mid", !.reasoning = "think", !.fallback = <<"other", "small">>,
                         !.provider_map = <<<<"think", "gemini">>, <<>>, <<"big", "">>, <<"think", "ollama">>>>,
                         !.tier_thresholds = <<<<20>>, <<>>>>, !.openai_api_key = "key"]
Shared == [Full EXCEPT !.mid = "small", !.reasoning = "big"]
SimpleOnly == [simple |-> "small", mid |-> "", complex |-> "", reasoning |-> "",
               fallback |-> <<>>, providers |-> <<>>]

MCLoaded == {RouterConfig(Load(env)) : env \in {Unset, TwoTiers, Full, Shared}}
MCConfigs == MCLoaded \cup {SimpleOnly}

\* All four environments leave the thresholds at their defaults, which the
\* classifier of the instance has.
ASSUME ThresholdsAssumption ==
    \A env \in {Unset, TwoTiers, Full, Shared} :
        Load(env).thresholds = <<SimpleAt, ComplexAt>> /\ Load(env).cascade = CascadeAt

\* serve starts with every environment, even an empty one: the error about no
\* providers cannot occur, as there is a default for Ollama's address.
ASSUME ProvidersAssumption ==
    \A env \in {Unset, TwoTiers, Full, Shared} : "ollama" \in buildProviders(env)

Long == [length |-> 5000, fenced |-> TRUE, braces |-> 3, parens |-> 6, keywords |-> 2]
Code == [blank EXCEPT !.length = 300, !.parens = 6, !.keywords = 1]
Prose == [blank EXCEPT !.length = 1500, !.braces = 2]

Plain == [role |-> "user", text |-> [blank EXCEPT !.length = 63], agent |-> FALSE,
          markers |-> 1, image |-> FALSE, calls |-> FALSE]
Says(text) == [Plain EXCEPT !.text = text]
MCMessages == {Plain, Says(Prose), Says(Code), Says(Long),
               [Says(Prose) EXCEPT !.markers = 2], [Plain EXCEPT !.image = TRUE],
               [Plain EXCEPT !.role = "system", !.agent = TRUE],
               [Plain EXCEPT !.role = "tool", !.markers = 2],
               [Plain EXCEPT !.role = "assistant", !.calls = TRUE]}
\* What an earlier message says matters for the marks it may carry.
Marked == {m \in MCMessages : m.role # "user" \/ m.image}
MCTexts == {<<m>> : m \in MCMessages} \cup {<<m, n>> : m \in Marked, n \in {Says(Code), Says(Long)}}
             \cup {<<[Says(Prose) EXCEPT !.markers = 2], [Plain EXCEPT !.image = TRUE]>>}

\* The classifier is asked for "auto" only, and its reply matters where the
\* heuristic is unsure.
MCReplies == {<<>>, <<-1>>, <<50, 100>>, <<150>>}
MCAsks == {a \in [requested : {"small", "other", "opus", auto},
                  reply : MCReplies, tools : BOOLEAN, messages : MCTexts] :
             /\ (a.requested # auto \/ Sure(Heuristic(UserText(a)))) => a.reply = <<>>
             /\ a.requested # auto => UserText(a) # Long
             /\ a.tools => Len(a.messages) = 1 /\ a.messages[1].role = "user"}

\* A turn that asks for little and one that asks for reasoning.
MCTwoAsks == {a \in MCAsks :
                a.messages \in {<<Plain>>, <<[Says(Prose) EXCEPT !.markers = 2]>>}
                  /\ a.requested = auto /\ ~a.tools}
=============================================================================
