--------------------------- MODULE MCPromptCache ---------------------------
(* PromptCache with two handlers, three keys and room for two.               *)
EXTENDS PromptCache

CONSTANTS h1, h2, a, b, c
MCHandlers == {h1, h2}
MCKeys == {a, b, c}
=============================================================================
