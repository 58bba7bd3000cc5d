----------------------------- MODULE StreamIter -----------------------------
(* types/interfaces.go, StreamIter: what a fallback loop may rely on of the  *)
(* iterator that LLMClient.Stream returns, whoever implements it.            *)
EXTENDS Naturals

VARIABLES iter,             \* "none", "open", or how its last Next ended
          sent,             \* the chunks the upstream has sent, by number
          last,             \* the chunk the last Next returned
          ended             \* the upstream has closed or sent [DONE]

vars == <<iter, sent, last, ended>>

Init == iter = "none" /\ sent = 0 /\ last = 0 /\ ended = FALSE

\* Stream returns a new iterator, the one before it having come to its end.
Open == /\ iter # "open"
        /\ iter' = "open" /\ sent' = 0 /\ last' = 0 /\ ended' = FALSE

Send == iter = "open" /\ ~ended /\ sent' = sent + 1 /\ UNCHANGED <<iter, last, ended>>
End == iter = "open" /\ ended' = TRUE /\ UNCHANGED <<iter, sent, last>>

\* Chunks come one at a time: the next one that was sent, never a later one.
Yield == /\ iter = "open" /\ last < sent
         /\ last' = last + 1
         /\ UNCHANGED <<iter, sent, ended>>

\* io.EOF: the stream is exhausted.
Exhaust == /\ iter = "open" /\ ended /\ last = sent
           /\ iter' = "eof"
           /\ UNCHANGED <<sent, last, ended>>

Break == iter = "open" /\ iter' = "failed" /\ UNCHANGED <<sent, last, ended>>

Next == Open \/ Send \/ End \/ Yield \/ Exhaust \/ Break

Spec == Init /\ [][Next]_vars
=============================================================================
