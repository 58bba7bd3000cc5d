---------------------------- MODULE MCSkillRouter ----------------------------
(* SkillRouter over a file of four skills: one per way of having exemplars,  *)
(* of which one has a name that contains another's, and one without a name.  *)
EXTENDS SkillRouter

MCFile == <<[name |-> "review", description |-> "diff", examples |-> <<"check", "">>],
            [name |-> "security-review", description |-> "audit", examples |-> <<"", "">>],
            [name |-> "", description |-> "nameless", examples |-> <<>>],
            [name |-> "init", description |-> "", examples |-> <<"start", "setup">>]>>
MCCatalog == loadSkillCatalog(MCFile)
MCNameLength == [review |-> 6, init |-> 4] @@ ("security-review" :> 15)

says(same, folded, within) == [said |-> TRUE, same |-> same, folded |-> folded, within |-> within]
MCReplies == {says({}, {}, {}), says({}, {}, {"init", "review"}),
              says({"review"}, {"review"}, {"review"}),
              says({}, {"init"}, {"init"}),
              says({"security-review"}, {"security-review"}, {"review", "security-review"}),
              says({}, {}, {"review", "security-review"})}
=============================================================================
