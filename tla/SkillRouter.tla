----------------------------- MODULE SkillRouter -----------------------------
(* skillrouter: which skill of a catalog a prompt is for. Semantic ranks the *)
(* skills by similarity, Cascade has a language model choose among the first *)
(* of a ranking that is close, FusedSemantic merges the rankings of several  *)
(* embedders, and Router asks the language model about the whole catalog. A  *)
(* prompt is what the embedders make of it: its similarity to every text of  *)
(* the catalog. A process has one matcher; nothing is shared between calls.  *)
EXTENDS Integers, Sequences, SequencesExt

CONSTANTS Catalog,          \* the skills: [name, description, examples]
          NoText,           \* the empty description
          Embedders,        \* FusedSemantic.matchers by their embedders; the
                            \* first is that of Semantic and Cascade
          Scores,           \* cosines, on an integer scale
          MinScore,         \* Semantic.minScore
          MinMargin,        \* Cascade.minMargin
          ShortlistK,       \* Cascade.shortlistK
          RRFK,             \* FusedSemantic.k
          Denominator,      \* the scale on which 1/(RRFK + rank) is whole
          NameLength,       \* the length of each skill's name
          Replies           \* what the language model can say

names == {Catalog[n].name : n \in DOMAIN Catalog}

\* A reply, once cleaned, as parseSkill reads it: the names it is equal to, is
\* equal to but for case, and contains. One that is blank or "none" has none.
Reply == [said : BOOLEAN, same : SUBSET names, folded : SUBSET names, within : SUBSET names]

\* The call failed or timed out, or there is no model to ask.
silence == [said |-> FALSE, same |-> {}, folded |-> {}, within |-> {}]

ASSUME SkillAssumption ==
    /\ Catalog \in Seq([name : names, description : STRING, examples : Seq(STRING)]) \ {<<>>}
    /\ \A a, b \in DOMAIN Catalog : Catalog[a].name = Catalog[b].name => a = b
    /\ Embedders \in Nat \ {0, 1} /\ Scores \subseteq Int
    /\ MinScore \in Int /\ MinMargin \in Nat /\ ShortlistK \in Nat \ {0} /\ RRFK \in Nat \ {0}
    /\ Denominator \in Nat \ {0} /\ \A n \in DOMAIN Catalog : Denominator % (RRFK + n - 1) = 0
    /\ NameLength \in [names -> Nat \ {0}]
    /\ Replies \subseteq Reply \ {silence}

\* exemplarTexts: the examples, or else the description, or else the name.
Exemplars(s) == LET spoken == ToSet(s.examples) \ {NoText}
                IN  IF spoken # {} THEN spoken
                    ELSE IF s.description # NoText THEN {s.description} ELSE {s.name}

Texts == UNION {Exemplars(Catalog[n]) : n \in DOMAIN Catalog}

VARIABLES matcher,          \* the kind of Matcher the process has
          score,            \* the prompt, embedded: its score for each skill
          decision,         \* what the last call returned
          heard             \* history: what the model said to that call

matcherVars == <<matcher, score, decision, heard>>

FellThrough(confidence, margin) ==
    [by |-> "none", skill |-> "", confidence |-> confidence, margin |-> margin, fell |-> TRUE]
Chosen(skill, confidence, margin) ==
    [by |-> "none", skill |-> skill, confidence |-> confidence, margin |-> margin, fell |-> FALSE]
-----------------------------------------------------------------------------
\* cmd/nadir/skill_route.go. The catalog comes from a file, whose nameless
\* entries are passed over.
loadSkillCatalog(file) == SelectSeq(file, LAMBDA s : s.name # "")

\* --mode, or else what --model and its defaults allow.
Mode(flag, model) == IF flag # "" THEN flag
                     ELSE IF model # "" THEN "hybrid" ELSE "lexical"

\* Two of the modes need a model, and there are no others.
buildSkillMatcher(mode, model) ==
    CASE mode = "lexical" -> "semantic"
      [] mode = "hybrid" /\ model # "" -> "cascade"
      [] mode = "llm" /\ model # "" -> "llm"
      [] OTHER -> "error"

\* The command's, and the one that only users of the library have.
Matchers == {"fused"} \cup
            {m \in {"semantic", "cascade", "llm"} :
                 \E flag \in {"", "lexical", "hybrid", "llm", "exact"}, model \in {"", "llama3.2:3b"} :
                     m = buildSkillMatcher(Mode(flag, model), model)}
-----------------------------------------------------------------------------
\* The score of a skill is the similarity of its closest text.
Score(sim, n) == Max({sim[t] : t \in Exemplars(Catalog[n])})

\* SliceStable, highest score first; ranks count from 1.
Before(e, a, b) == score[e][a] > score[e][b] \/ (score[e][a] = score[e][b] /\ a < b)
RankOf(e, n) == 1 + Cardinality({m \in DOMAIN Catalog : Before(e, m, n)})
Ranking(e) == [p \in DOMAIN Catalog |-> CHOOSE n \in DOMAIN Catalog : RankOf(e, n) = p]

Ranked(e, n) == [skill |-> Catalog[n].name, score |-> score[e][n]]

\* Mutant: the catalog is cut before it is sorted.
Rank_CutsFirst(e, k) ==
    LET kept == SelectSeq(Ranking(e), LAMBDA n : k = 0 \/ n <= k)
    IN  [p \in DOMAIN kept |-> Ranked(e, kept[p])]

\* The k best, or all of them for 0.
Rank(e, k) == LET all == Ranking(e)
                  kept == IF k > 0 /\ k < Len(all) THEN SubSeq(all, 1, k) ELSE all
              IN  [p \in DOMAIN kept |-> Ranked(e, kept[p])]

Margin(ranked) == IF Len(ranked) > 1 THEN ranked[1].score - ranked[2].score ELSE 0

\* Semantic.Route.
Semantic(e) ==
    LET ranked == Rank(e, 0)
    IN  IF ranked[1].score < MinScore
        THEN FellThrough(ranked[1].score, Margin(ranked))
        ELSE Chosen(ranked[1].skill, ranked[1].score, Margin(ranked))

\* parseSkill: the first exact name, then the first but for case, then the
\* longest one contained. The confidences are percentages.
First(shortlist, found) ==
    LET p == CHOOSE p \in DOMAIN shortlist : /\ shortlist[p] \in found
                                             /\ \A q \in 1 .. p - 1 : shortlist[q] \notin found
    IN  shortlist[p]
Longest(shortlist, found) ==
    LET hits == {p \in DOMAIN shortlist : shortlist[p] \in found}
        p == CHOOSE p \in hits : \A q \in hits :
                 \/ NameLength[shortlist[q]] < NameLength[shortlist[p]]
                 \/ NameLength[shortlist[q]] = NameLength[shortlist[p]] /\ p <= q
    IN  shortlist[p]
parseSkill(reply, shortlist) ==
    LET listed == ToSet(shortlist) IN
    IF reply.same \cap listed # {}
    THEN Chosen(First(shortlist, reply.same), 100, 0)
    ELSE IF reply.folded \cap listed # {}
    THEN Chosen(First(shortlist, reply.folded), 90, 0)
    ELSE IF reply.within \cap listed # {}
    THEN Chosen(Longest(shortlist, reply.within), 70, 0)
    ELSE FellThrough(0, 0)

\* Mutant: the model chooses from the whole catalog.
Shortlist_All(ranked) == [n \in DOMAIN Catalog |-> Catalog[n].name]

\* makeShortlist.
Shortlist(ranked) == [p \in DOMAIN ranked |-> ranked[p].skill]

\* Whether Cascade asks the model at all. The comments on Cascade and NewHybrid
\* would have it asked below MinScore too; Route returns before that.
Narrow(ranked) == ranked[1].score >= MinScore /\ Margin(ranked) < MinMargin

\* Cascade.Route with the model's reply, should it be asked.
Cascade(reply) ==
    LET ranked == Rank(1, ShortlistK)
        primary == Chosen(ranked[1].skill, ranked[1].score, Margin(ranked))
        d == parseSkill(reply, Shortlist(ranked))
    IN  IF ranked[1].score < MinScore
        THEN FellThrough(ranked[1].score, Margin(ranked))
        ELSE IF ~Narrow(ranked) \/ reply = silence THEN primary
        ELSE IF d.fell THEN d ELSE [d EXCEPT !.margin = Margin(ranked)]
-----------------------------------------------------------------------------
\* Reciprocal rank fusion. The sums of 1/(k + rank) are kept whole by way of a
\* common denominator; here ranks count from 0.

\* Mutant: the damping is left out of the division.
Weight_Rising(rank) == RRFK + rank

Weight(rank) == Denominator \div (RRFK + rank)

Fusion(n) == SumFunction([e \in 1 .. Embedders |-> Weight(RankOf(e, n) - 1)])

Viable == \E e \in 1 .. Embedders : Rank(e, 0)[1].score >= MinScore

\* FusedSemantic.Route. The entries come out of a map, so among skills with
\* the same sum any may be the first.
Fused ==
    IF ~Viable THEN {FellThrough(0, 0)}
    ELSE LET fused == [n \in DOMAIN Catalog |-> Fusion(n)]
             rest(n) == {fused[m] : m \in DOMAIN Catalog \ {n}}
             lead(n) == IF rest(n) = {} THEN 0 ELSE fused[n] - Max(rest(n))
         IN  {Chosen(Catalog[n].name, fused[n], lead(n)) :
                 n \in {b \in DOMAIN Catalog : \A s \in rest(b) : s <= fused[b]}}
-----------------------------------------------------------------------------
\* What a prompt is to one embedder.
Prompts == {[n \in DOMAIN Catalog |-> Score(sim, n)] : sim \in [Texts -> Scores]}

MatcherInit ==
    /\ matcher \in Matchers
    /\ score \in [1 .. Embedders -> Prompts]
    /\ decision = FellThrough(0, 0)
    /\ heard = silence

\* One call: its caller takes the decision before it makes another.
Idle == decision.by = "none"
Returns(by, d) == /\ Idle /\ matcher = by
                  /\ decision' = [d EXCEPT !.by = by]
                  /\ UNCHANGED <<matcher, score>>
Errors == /\ Idle
          /\ decision' = [FellThrough(0, 0) EXCEPT !.by = "error"]
          /\ UNCHANGED <<matcher, score>>

SemanticRoute == Returns("semantic", Semantic(1)) /\ heard' = silence

CascadeRoute(reply) == /\ reply # silence => Narrow(Rank(1, ShortlistK))
                       /\ Returns("cascade", Cascade(reply))
                       /\ heard' = reply

\* An empty prompt, or an embedder that fails: there is no decision.
EmbedFails == matcher # "llm" /\ Errors /\ heard' = silence

\* Router.Route: any skill may be named, and without a reply there is no
\* decision, as there is no embedding to go by.
RouterRoute(reply) ==
    /\ IF reply # silence
       THEN Returns("llm", parseSkill(reply, [n \in DOMAIN Catalog |-> Catalog[n].name]))
       ELSE matcher = "llm" /\ Errors
    /\ heard' = reply

FusedRoute == (\E d \in Fused : Returns("fused", d)) /\ heard' = silence

Take == /\ ~Idle
        /\ decision' = FellThrough(0, 0) /\ heard' = silence
        /\ UNCHANGED <<matcher, score>>

MatcherNext ==
    \/ SemanticRoute \/ FusedRoute \/ EmbedFails \/ Take
    \/ \E reply \in Replies \cup {silence} : CascadeRoute(reply) \/ RouterRoute(reply)

MatcherSpec == MatcherInit /\ [][MatcherNext]_matcherVars
-----------------------------------------------------------------------------
MatcherTypeOK ==
    /\ matcher \in {"semantic", "cascade", "llm", "fused"}
    /\ score \in [1 .. Embedders -> Prompts]
    /\ decision \in [by : {"none", "error", "semantic", "cascade", "llm", "fused"},
                     skill : names \cup {""}, confidence : Int, margin : Nat, fell : BOOLEAN]
    /\ decision.fell => decision.skill = ""
    /\ heard \in Replies \cup {silence}

\* Cascade is Semantic as long as the model is not heard, because it was not
\* asked, does not exist, failed or timed out: same skill or fall through, same
\* confidence, though it ranks a part of the catalog only. The margin is the
\* same but for a shortlist of one, which has no runner-up.
CascadeAgrees ==
    (decision.by = "cascade" /\ heard = silence) =>
        \/ [decision EXCEPT !.by = "none"] = Semantic(1)
        \/ /\ ShortlistK = 1
           /\ [decision EXCEPT !.by = "none", !.margin = 0] = [Semantic(1) EXCEPT !.margin = 0]

\* The model overrules the embedding only where that was in doubt, which is what
\* the comment on Cascade calls a soft signal, and only in favour of a skill it
\* has named among the ShortlistK closest, or of none. (A shortlist of one has
\* no runner-up, so its margin is always soft.)
OverruledInDoubt ==
    LET s == Semantic(1)
        closer(n) == {m \in DOMAIN Catalog : score[1][m] > score[1][n]}
    IN  (decision.by = "cascade" /\ decision.skill # s.skill) =>
            /\ heard # silence
            /\ s.fell \/ s.margin < MinMargin \/ ShortlistK = 1
            /\ ~decision.fell => /\ decision.skill \in heard.same \cup heard.folded \cup heard.within
                                /\ \E n \in DOMAIN Catalog :
                                      /\ Catalog[n].name = decision.skill
                                      /\ Cardinality(closer(n)) < ShortlistK

\* Fusion follows the rankings it merges: a skill that every embedder ranks
\* behind some other one is never the winner, so a skill that is first for all
\* of them always is.
Wins(n) == decision.by = "fused" /\ ~decision.fell /\ decision.skill = Catalog[n].name
FusedIsPareto ==
    \A n, m \in DOMAIN Catalog : (Wins(n) /\ n # m) =>
        \E e \in 1 .. Embedders : RankOf(e, n) < RankOf(e, m)
=============================================================================
