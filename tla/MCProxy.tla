------------------------------ MODULE MCProxy ------------------------------
(* Proxy with two handlers, two workers, two users of which one is known by  *)
(* name, and three models: one with a price, one without and one whose name  *)
(* holds the names of two others.                                            *)
EXTENDS Proxy, TLC

CONSTANTS h1, h2, w1, w2, k

MCHandlers == {h1, h2}
MCWorkers == {w1, w2}
MCKeys == {k}
MCUsers == {"ann", "10.0.0.1"}

Chat == [path |-> chat, bearer |-> TRUE, basic |-> "", header |-> "ann", addr |-> "10.0.0.1",
         body |-> "messages", stream |-> FALSE, key |-> k]
Anonymous == [Chat EXCEPT !.header = ""]
MCRequests == {Chat, Anonymous, [Anonymous EXCEPT !.stream = TRUE], [Chat EXCEPT !.body = "garbage"],
               [Chat EXCEPT !.path = "/v1/models", !.bearer = FALSE, !.basic = "ann"],
               [Anonymous EXCEPT !.path = "/health", !.bearer = FALSE]}

MCdata == <<[name |-> "big", input |-> 1, output |-> 1, vision |-> TRUE],
            [name |-> "big-mini", input |-> 5, output |-> 5, vision |-> TRUE],
            [name |-> "big-mini", input |-> 0, output |-> 1, vision |-> TRUE]>>
MCAlphabet == <<"big", "big-mini">>
MCPartOf == {<<"big", "x/big-mini">>, <<"big-mini", "x/big-mini">>, <<"big", "big-mini">>}
MCRouted == {"x/big-mini", "local"}
MCUsages == {[prompt |-> 1, completion |-> 1]}

Symmetry == Permutations(MCHandlers) \cup Permutations(MCWorkers)
=============================================================================
