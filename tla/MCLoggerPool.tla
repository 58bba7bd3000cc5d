---------------------------- MODULE MCLoggerPool ----------------------------
(* LoggerPool with four handlers, two workers, a channel of one, two stores. *)
EXTENDS LoggerPool

CONSTANTS h1, h2, h3, h4, w1, w2
MCHandlers == {h1, h2, h3, h4}
MCWorkers == {w1, w2}
MCStores == <<"sqlite", "jsonl">>
=============================================================================
