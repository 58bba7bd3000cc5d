------------------------------- MODULE Routing -------------------------------
(* router/router.go, Route: from a request to a model, a tier and a chain of *)
(* fallbacks. All of it is pure but the session pin, so one turn is one step *)
(* on the session cache (UpgradeIfHigher is its only critical section); the  *)
(* turns of many conversations interleave, and so do calls of Get. The chain *)
(* is given in the order it has before Tracker.Order, which Health models.   *)
EXTENDS SessionCallers, Classifier, SequencesExt

CONSTANTS Configs,          \* router.Config: the four tier models, "" if not
                            \* set, FallbackChain and ProviderForModel
          Loaded,           \* those of them that config.Load makes
          Names,            \* what an explicit req.Model can be
          Aliases,          \* modelAliases, on Names
          Vision,           \* the models whose names promise vision
          Asks              \* the turns: [requested, reply, tools, messages]

auto == "auto"

\* A message as extractMeta reads it: its role, what the classifier counts in
\* its text, whether that hints at an agent, how many different reasoning
\* markers it holds, whether there is an image part, whether there are calls.
Message == [role : {"system", "user", "assistant", "tool"}, text : Text, agent : BOOLEAN,
            markers : Nat, image : BOOLEAN, calls : BOOLEAN]

ASSUME RoutingAssumption ==
    /\ Loaded \subseteq Configs
    /\ Asks \subseteq [requested : Names \cup {auto},
                       reply : Seq(Int),   \* the second opinion, see Cascading
                       tools : BOOLEAN, messages : Seq(Message) \ {<<>>}]
    /\ Aliases \in [Names -> PinModels \ {""}]   \* a blank name is "auto"
    /\ "" \notin Vision                          \* the marks are sought in the name
    /\ \A c \in Loaded : c.complex # ""          \* NADIR_COMPLEX_MODEL has a default
    /\ \A c \in Configs :
         /\ c.simple \in PinModels \ {""}
         /\ {c.mid, c.complex, c.reasoning} \subseteq PinModels
         /\ c.fallback \in Seq(PinModels)

VARIABLES cfg,              \* the router's configuration, fixed at start
          turn              \* history: the last turn of each conversation,
                            \* <<>> before the first

vars == <<callerVars, cfg, turn>>

-----------------------------------------------------------------------------
\* extractMeta: one message is enough for each of the three.
Some(ask, Is(_)) == \E n \in DOMAIN ask.messages : Is(ask.messages[n])

HasTools(ask) == ask.tools \/ Some(ask, LAMBDA m : m.role = "tool" \/ m.calls)
HasAgentRole(ask) == Some(ask, LAMBDA m : m.role = "system" /\ m.agent)
HasImages(ask) == Some(ask, LAMBDA m : m.role = "user" /\ m.image)
WantsReasoning(ask) == Some(ask, LAMBDA m : m.role = "user" /\ m.markers >= 2)

\* The text of the last user message.
UserText(ask) ==
    LET said == SelectSeq(ask.messages, LAMBDA m : m.role = "user")
    IN  IF said = <<>> THEN blank ELSE Last(said).text

extractMeta(ask) == [agentic |-> HasTools(ask) \/ HasAgentRole(ask),
                     reasoning |-> WantsReasoning(ask), images |-> HasImages(ask)]

modelHasVision(m) == m \in Vision
resolveAlias(m) == Aliases[m]

OrElse(m, default) == IF m # "" THEN m ELSE default

modelForTier(t) == CASE t = "mid" -> OrElse(cfg.mid, cfg.simple)
                     [] t = "complex" -> cfg.complex
                     [] t = "reasoning" -> OrElse(cfg.reasoning, cfg.complex)
                     [] OTHER -> cfg.simple

\* The switch is tried in this order, so a model in two roles has the cheaper.
tierForModel(m) == IF m = cfg.simple THEN "simple"
                   ELSE IF m = cfg.mid THEN "mid"
                   ELSE IF m = cfg.complex THEN "complex"
                   ELSE IF m = cfg.reasoning THEN "reasoning" ELSE "mid"

\* Stage 1, the model asked for: each stage yields [model, tier, modifiers].
Requested(ask) ==
    IF ask.requested = auto
    THEN LET t == Classify(UserText(ask), ask.reply, cfg.mid # "")
         IN  [model |-> modelForTier(t), tier |-> t, modifiers |-> {"classified"}]
    ELSE LET m == resolveAlias(ask.requested)
         IN  [model |-> m, tier |-> tierForModel(m), modifiers |-> {}]

\* Stage 2, the modifiers, in order.
upgradeTier(p, want) == IF tierRank(p.tier) >= tierRank(want) THEN p.model
                        ELSE modelForTier(want)

\* Tools and agent roles.
Agentic(meta, p) ==
    LET up == upgradeTier(p, "complex")
    IN  IF meta.agentic /\ up # p.model
        THEN [model |-> up, tier |-> "complex", modifiers |-> p.modifiers \cup {"agentic"}]
        ELSE p

Reasoning(meta, p) ==
    IF meta.reasoning /\ cfg.reasoning # ""
    THEN [model |-> cfg.reasoning, tier |-> "reasoning",
          modifiers |-> p.modifiers \cup {"reasoning"}]
    ELSE p

\* The complex model is the only one it considers.
pickVisionModel == IF modelHasVision(cfg.complex) THEN cfg.complex ELSE ""

\* The tier stays as it was.
VisionSwap(meta, p) ==
    IF meta.images /\ ~modelHasVision(p.model) /\ pickVisionModel # ""
    THEN [p EXCEPT !.model = pickVisionModel, !.modifiers = @ \cup {"vision_swap"}]
    ELSE p

\* Mutant: the modifiers run in another order.
Picked_VisionFirst(ask) ==
    LET meta == extractMeta(ask)
    IN  Reasoning(meta, Agentic(meta, VisionSwap(meta, Requested(ask))))

Picked(ask) ==
    LET meta == extractMeta(ask)
    IN  VisionSwap(meta, Reasoning(meta, Agentic(meta, Requested(ask))))

\* Mutant: add forgets to look at what it has seen.
Added_Again(all, primary) == {n \in DOMAIN all : all[n] \notin {"", primary}}

\* Where add takes a model: at its first mention, but for the primary's.
Added(all, primary) == {n \in DOMAIN all : /\ all[n] \notin {"", primary}
                                           /\ \A m \in 1 .. n - 1 : all[m] # all[n]}

\* What is at some places of a list, in their order.
At(all, places) ==
    LET rank(n) == 1 + Cardinality({m \in places : m < n})
    IN  [k \in 1 .. Cardinality(places) |-> all[CHOOSE n \in places : rank(n) = k]]

\* buildChain: the configured fallbacks, then the cheaper tiers' models.
Ladder(tier) == CASE tier \in {"reasoning", "complex"} -> <<cfg.mid, cfg.simple>>
                  [] tier = "mid" -> <<cfg.simple>>
                  [] OTHER -> <<>>
Chain(primary, tier) == LET all == cfg.fallback \o Ladder(tier)
                        IN  At(all, Added(all, primary))

\* An unknown model is "openai"'s, and so is one that is mapped to "".
ProviderOf(m) == IF m \in DOMAIN cfg.providers THEN OrElse(cfg.providers[m], "openai")
                 ELSE "openai"

\* The modifier that stage 3 adds.
SessionMark == [new |-> {}, pinned |-> {"session_pinned"}, upgraded |-> {"session_upgraded"}]

\* Mutant: the provider is looked up before the pin takes its place.
Decision_EarlyProvider(k, ask) ==
    LET p == Picked(ask)
        status == UpgradeStatus(k, p.tier)
        final == FinalPin(k, p.model, p.tier)
    IN  [model |-> final.model, tier |-> final.tier, provider |-> ProviderOf(p.model),
         chain |-> Chain(final.model, final.tier),
         modifiers |-> p.modifiers \cup SessionMark[status]]

\* Stage 3: a pin that was there before takes the place of the pick, and an
\* upgrade replaces it by itself. Then stage 4, the chain, and the provider.
Decision(k, ask) ==
    LET p == Picked(ask)
        status == UpgradeStatus(k, p.tier)
        final == FinalPin(k, p.model, p.tier)
    IN  [model |-> final.model, tier |-> final.tier, provider |-> ProviderOf(final.model),
         chain |-> Chain(final.model, final.tier),
         modifiers |-> p.modifiers \cup SessionMark[status]]
-----------------------------------------------------------------------------
Init == /\ CallersInit
        /\ cfg \in Configs
        /\ turn = [k \in Conversations |-> <<>>]

Route(k, ask) ==
    /\ turn' = [turn EXCEPT ![k] = <<[meta |-> extractMeta(ask), pick |-> Decision(k, ask)]>>]
    /\ Upgrade(k, Picked(ask).model, Picked(ask).tier)
    /\ UNCHANGED cfg

Next == \/ TimePasses /\ UNCHANGED <<cfg, turn>>
        \/ \E c \in Callers : Get(c) /\ UNCHANGED <<cfg, turn>>
        \/ \E k \in Conversations, ask \in Asks : Route(k, ask)

Spec == Init /\ [][Next]_vars
-----------------------------------------------------------------------------
Modifier == {"classified", "agentic", "reasoning", "vision_swap",
             "session_pinned", "session_upgraded"}
Meta == [agentic : BOOLEAN, reasoning : BOOLEAN, images : BOOLEAN]
Pick == [model : PinModels, tier : Tier, provider : STRING, chain : Seq(PinModels),
         modifiers : SUBSET Modifier]

TypeOK == /\ CallersTypeOK
          /\ cfg \in Configs
          /\ turn \in [Conversations -> Seq([meta : Meta, pick : Pick])]

Done(k) == turn[k] # <<>>
MetaOf(k) == turn[k][1].meta
PickOf(k) == turn[k][1].pick

\* Between two turns the model changes only together with a strictly higher tier.
Steady(k) == \/ PickOf(k)'.model = PickOf(k).model
             \/ tierRank(PickOf(k)'.tier) > tierRank(PickOf(k).tier)

\* The pin that the last turn set or kept is older than the TTL.
Outlived(k) == TTL > 0 /\ now - pinned[k] > TTL

\* A conversation does not bounce between models, whatever its turns ask for
\* and whoever looks it up meanwhile: the router never takes back a pin that is
\* there, and a pin goes away only by outliving the TTL. That holds of every pin
\* that was set while no Get of its conversation was under way; for the others
\* see PinsStick.
NeverBounces ==
    [][\A k \in Conversations :
          (/\ Done(k) /\ turn'[k] # turn[k]
           /\ entries[k] # NoPin \/ ~(Outlived(k) \/ k \in contested)) => Steady(k)]_vars

\* What the comments on Session and on types.SessionCache say: a pin is never
\* downgraded, and a conversation does not bounce, as long as the pin lives.
\* Get deletes what the key holds after it has judged what the key held.
PinsStick ==
    [][\A k \in Conversations :
          (Done(k) /\ turn'[k] # turn[k] /\ ~Outlived(k)) => Steady(k)]_vars

\* Every decision is a loop the proxy can walk: no model twice, no empty name
\* among the fallbacks, and the primary not among them; and whatever the tier,
\* every configured fallback but the primary is there, and nothing precedes it
\* but what is configured to.
ChainSound ==
    \A k \in Conversations : Done(k) =>
        LET p == PickOf(k) IN
        /\ IsInjective(p.chain)
        /\ ToSet(p.chain) \cap {"", p.model} = {}
        /\ ToSet(cfg.fallback) \ {"", p.model} \subseteq ToSet(p.chain)
        /\ \A n \in DOMAIN p.chain, b \in DOMAIN cfg.fallback : p.chain[n] = cfg.fallback[b] =>
              \A m \in 1 .. n - 1 : \E a \in 1 .. b - 1 : p.chain[m] = cfg.fallback[a]

\* Two requests of a turn outlive the stages that follow. A turn with tools or
\* an agent role is decided at the complex tier or above, session pin or not,
\* provided no model has two tiers; and one with images gets a model that can
\* see where the complex model can, unless a pin that an earlier turn has set
\* stands in the way. Of the model that reasoning picks nothing is said: the
\* swap for images may take its place.
Distinct == LET roles == <<cfg.simple, cfg.mid, cfg.complex, cfg.reasoning>>
            IN  \A a, b \in 1 .. 4 : (a # b /\ roles[a] = roles[b]) => roles[a] = ""
ModifiersHold ==
    \A k \in Conversations : Done(k) =>
        /\ (MetaOf(k).agentic /\ Distinct /\ cfg.complex # "") =>
               tierRank(PickOf(k).tier) >= tierRank("complex")
        /\ (MetaOf(k).images /\ modelHasVision(cfg.complex)) =>
               modelHasVision(PickOf(k).model) \/ "session_pinned" \in PickOf(k).modifiers

\* What the proxy does with a decision: pickProvider asks cfg.ProviderForModel
\* (cmd/nadir/serve.go) for the model it is about to call.
ModelToProvider(m) == IF m \in DOMAIN cfg.providers THEN cfg.providers[m] ELSE "openai"
pickProvider(m) == OrElse(ModelToProvider(m), "openai")

\* A decision can be acted on: whatever a configuration leaves to its defaults,
\* no tier it may be decided on has the empty name for a model; and the provider
\* that is logged for it is the one that is called, pinned model or not.
Dispatchable ==
    \A k \in Conversations : Done(k) =>
        /\ cfg \in Loaded => PickOf(k).model # ""
        /\ PickOf(k).provider = pickProvider(PickOf(k).model)
=============================================================================
