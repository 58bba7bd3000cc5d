------------------------------ MODULE Provider ------------------------------
(* provider/openai: one request on its way through a chain of models behind  *)
(* HTTP servers that answer, fail, dribble lines, close or fall silent, while*)
(* the client may hang up and timers run out. The loop around the calls is   *)
(* Dispatch's, of which only what decides on the next call is repeated here. *)
EXTENDS Upstream, Sequences, Naturals

CONSTANTS Chain,            \* the models to try
          Statuses,         \* the HTTP statuses of the servers' refusals
          MaxLines          \* bound of the model: lines in one response

ASSUME ProviderAssumption ==
    Chain \in Seq(Models) /\ Statuses \subseteq Nat /\ MaxLines \in Nat

VARIABLES stream,           \* req.Stream
          pc,               \* "loop", "do", "body", "next", "read", "over"
          i,                \* the model the loop is at
          lines,            \* what the server has sent and no one has read
          server,           \* "open", "closed", "reset"
          expired,          \* the call's time is up
          hungUp,           \* r.Context() is canceled
          iter,             \* the iterator's state, see StreamIter
          sent, last, done, \* history: chunks sent, the one returned last,
                            \* whether [DONE] was sent
          count,            \* history: lines sent in this call
          callsAfter,       \* history: calls begun since the client hung up
          blamedAfter       \* history: failures recorded since then

callVars == <<lines, server, expired, iter, sent, last, done, count>>
vars == <<stream, pc, i, callVars, hungUp, callsAfter, blamedAfter>>
-----------------------------------------------------------------------------
classifyStatus(code) ==
    CASE code \in {401, 403} -> "Auth"
      [] code = 408 -> "Timeout"
      [] code = 429 -> "RateLimit"
      [] code >= 500 -> "ServerError"
      [] code >= 400 /\ code < 500 /\ code \notin {401, 403, 408, 429} -> "BadRequest"
      [] OTHER -> "Unknown"

\* A line as Next reads it: a chunk, the sentinel, one that is not data, one
\* whose data does not parse.
LineKind == {"chunk", "[DONE]", "comment", "garbage"}
Line == [kind : LineKind, number : Nat]
After(flag) == IF flag THEN 1 ELSE 0

Init == /\ stream \in BOOLEAN
        /\ pc = "loop" /\ i = 1
        /\ lines = <<>> /\ server = "open" /\ expired = FALSE
        /\ iter = "none" /\ sent = 0 /\ last = 0 /\ done = FALSE /\ count = 0
        /\ hungUp = FALSE /\ callsAfter = 0 /\ blamedAfter = 0

Committed == iter = "open" /\ last > 0

\* The loop on an error: recorded against the model, then the next one if the
\* error is transient and nothing has been delivered.
Failed(kind) ==
    /\ blamedAfter' = blamedAfter + After(hungUp)
    /\ IF IsTransient(kind) /\ ~Committed
       THEN pc' = "loop" /\ i' = i + 1
       ELSE pc' = "over" /\ UNCHANGED i
    /\ UNCHANGED <<stream, hungUp, callsAfter>>

\* A call that ends without an iterator.
CallFails(kind) == Failed(kind) /\ UNCHANGED callVars

\* One that ends with the iterator, and how its last Next ended.
IterEnds(how, kind) == /\ Failed(kind)
                       /\ iter' = how
                       /\ UNCHANGED <<lines, server, expired, sent, last, done, count>>

GiveUp == /\ pc = "loop" /\ i > Len(Chain)
          /\ pc' = "over"
          /\ UNCHANGED <<stream, i, callVars, hungUp, callsAfter, blamedAfter>>

\* marshalRequest: what the client sent does not marshal, for any model.
MarshalFails == /\ pc = "loop" /\ i <= Len(Chain)
                /\ CallFails("Validation")

\* newRequest: the base URL does not parse.
NewRequestFails == /\ pc = "loop" /\ i <= Len(Chain)
                   /\ CallFails("Unknown")

\* http.Client.Do, with a new timer.
Call ==
    /\ pc = "loop" /\ i <= Len(Chain) /\ ~hungUp
    /\ pc' = "do" /\ expired' = FALSE
    /\ UNCHANGED <<stream, i, lines, server, iter, sent, last, done, count, hungUp, callsAfter, blamedAfter>>

\* Mutant: a call that could not be made is one to try elsewhere.
CallCanceled_Network ==
    /\ pc = "loop" /\ i <= Len(Chain) /\ hungUp
    /\ callsAfter' = callsAfter + 1
    /\ blamedAfter' = blamedAfter + 1
    /\ i' = i + 1
    /\ UNCHANGED <<stream, pc, callVars, hungUp>>

\* Do on a canceled context returns before it has sent anything.
CallCanceled ==
    /\ pc = "loop" /\ i <= Len(Chain) /\ hungUp
    /\ callsAfter' = callsAfter + 1
    /\ blamedAfter' = blamedAfter + 1
    /\ pc' = "over"
    /\ UNCHANGED <<stream, i, callVars, hungUp>>

\* networkError: by what Do's error wraps.
DoFails ==
    /\ pc = "do"
    /\ \/ CallFails("Network")
       \/ expired /\ CallFails("Timeout")
       \/ hungUp /\ CallFails("Canceled")

HTTPError(code) == /\ pc = "do" /\ code >= 400
                   /\ CallFails(classifyStatus(code))

\* Do returns with the headers: of a stream, an iterator over the body.
OpenBody == /\ pc = "do" /\ ~stream
            /\ pc' = "body"
            /\ UNCHANGED <<stream, i, callVars, hungUp, callsAfter, blamedAfter>>

OpenStream ==
    /\ pc = "do" /\ stream
    /\ pc' = "next" /\ iter' = "open"
    /\ lines' = <<>> /\ server' = "open" /\ sent' = 0 /\ last' = 0 /\ done' = FALSE /\ count' = 0
    /\ UNCHANGED <<stream, i, expired, hungUp, callsAfter, blamedAfter>>

\* Complete decodes the body.
Decoded == /\ pc = "body"
           /\ pc' = "over"
           /\ UNCHANGED <<stream, i, callVars, hungUp, callsAfter, blamedAfter>>

\* Whatever the reason: no JSON, a reset, a timer, a canceled context.
DecodeFails == pc = "body" /\ CallFails("ServerError")
-----------------------------------------------------------------------------
\* Next looks at the context, and then reads a line, which may take for ever.
CheckContext ==
    /\ pc = "next"
    /\ IF hungUp
       THEN IterEnds("failed", "Canceled")
       ELSE pc' = "read" /\ UNCHANGED <<stream, i, callVars, hungUp, callsAfter, blamedAfter>>

\* Mutant: a line that is not data ends the stream.
SkipLine_Ends == /\ pc = "read" /\ lines # <<>> /\ Head(lines).kind = "comment"
                 /\ IterEnds("eof", "ServerError")

\* Blank lines and fields other than data are passed over.
SkipLine ==
    /\ pc = "read" /\ lines # <<>> /\ Head(lines).kind = "comment"
    /\ pc' = "next" /\ lines' = Tail(lines)
    /\ UNCHANGED <<stream, i, server, expired, iter, sent, last, done, count, hungUp, callsAfter, blamedAfter>>

\* The chunk goes to the client, and the loop asks for the next.
Yield ==
    /\ pc = "read" /\ lines # <<>> /\ Head(lines).kind = "chunk"
    /\ pc' = "next" /\ lines' = Tail(lines) /\ last' = Head(lines).number
    /\ UNCHANGED <<stream, i, server, expired, iter, sent, done, count, hungUp, callsAfter, blamedAfter>>

\* io.EOF, from the sentinel or the end of the body; a last line without its
\* newline is dropped. To the loop an empty stream is a ServerError.
EOF ==
    /\ pc = "read"
    /\ \/ lines # <<>> /\ Head(lines).kind = "[DONE]"
       \/ lines = <<>> /\ server = "closed"
    /\ IF Committed
       THEN /\ pc' = "over" /\ iter' = "eof"
            /\ UNCHANGED <<stream, i, lines, server, expired, sent, last, done, count,
                           hungUp, callsAfter, blamedAfter>>
       ELSE IterEnds("eof", "ServerError")

DecodeLineFails == /\ pc = "read" /\ lines # <<>> /\ Head(lines).kind = "garbage"
                   /\ IterEnds("failed", "ServerError")

\* Every other error of the read is a network error, the client's own leaving
\* included; what the reader has buffered may come first.
ReadFails == /\ pc = "read"
             /\ server = "reset" \/ expired \/ hungUp
             /\ IterEnds("failed", "Network")
-----------------------------------------------------------------------------
\* The server writes a line; it numbers its chunks, and may go on after [DONE].
SendLine(kind) ==
    /\ pc \in {"next", "read"} /\ server = "open" /\ count < MaxLines
    /\ count' = count + 1
    /\ lines' = Append(lines, [kind |-> kind, number |-> IF kind = "chunk" THEN sent + 1 ELSE 0])
    /\ sent' = IF kind = "chunk" /\ ~done THEN sent + 1 ELSE sent
    /\ done' = (done \/ kind = "[DONE]")
    /\ UNCHANGED <<stream, pc, i, server, expired, iter, last, hungUp, callsAfter, blamedAfter>>

Disconnect ==
    /\ pc \in {"next", "read"} /\ server = "open"
    /\ server' \in {"closed", "reset"}
    /\ UNCHANGED <<stream, pc, i, lines, expired, iter, sent, last, done, count, hungUp, callsAfter, blamedAfter>>

HangUp == /\ ~hungUp /\ pc # "over"
          /\ hungUp' = TRUE
          /\ UNCHANGED <<stream, pc, i, callVars, callsAfter, blamedAfter>>

\* Mutant: the timer is for batch calls only.
Expire_BatchOnly ==
    /\ pc \in {"do", "body"}
    /\ ~expired /\ expired' = TRUE
    /\ UNCHANGED <<stream, pc, i, lines, server, iter, sent, last, done, count, hungUp, callsAfter, blamedAfter>>

\* A batch call has PerCallTimeout, and every call, its body included, the five
\* minutes of the http.Client.
Expire ==
    /\ pc \in {"do", "body", "next", "read"}
    /\ ~expired /\ expired' = TRUE
    /\ UNCHANGED <<stream, pc, i, lines, server, iter, sent, last, done, count, hungUp, callsAfter, blamedAfter>>

\* What the code does by itself once its guard holds: a call that is waiting
\* goes on only when something happens, of which only the timer is sure to.
Loop == GiveUp \/ MarshalFails \/ NewRequestFails \/ Call \/ CallCanceled
Complete == Decoded \/ DecodeFails
Read == CheckContext \/ SkipLine \/ Yield \/ EOF \/ DecodeLineFails \/ ReadFails
Do == DoFails \/ OpenBody \/ OpenStream \/ \E code \in Statuses : HTTPError(code)
Environment == (\E kind \in LineKind : SendLine(kind)) \/ Disconnect \/ HangUp

Next == Loop \/ Do \/ Complete \/ Read \/ Environment \/ Expire

TimerEnds == expired /\ (DoFails \/ DecodeFails)
Fairness == WF_vars(Loop) /\ WF_vars(Read) /\ WF_vars(Expire) /\ WF_vars(TimerEnds)

Spec == Init /\ [][Next]_vars /\ Fairness
-----------------------------------------------------------------------------
TypeOK ==
    /\ stream \in BOOLEAN /\ expired \in BOOLEAN /\ hungUp \in BOOLEAN /\ done \in BOOLEAN
    /\ pc \in {"loop", "do", "body", "next", "read", "over"}
    /\ i \in 1 .. Len(Chain) + 1
    /\ lines \in Seq(Line) /\ server \in {"open", "closed", "reset"}
    /\ iter \in {"none", "open", "eof", "failed"}
    /\ {sent, last, count, callsAfter, blamedAfter} \subseteq Nat

\* The client's iterator is the one the fallback loops are written for: every
\* chunk once and in order, and the end of the stream only after the last.
Contract == INSTANCE StreamIter WITH ended <- done \/ server = "closed"
ImplementsIter == Contract!Spec

\* A client that leaves in the middle of a body is taken for a failing network,
\* and the loop goes on: to one more call, which the context ends, and no
\* further. At most two models are held to have failed on its account.
HangUpBlamesAtMostTwo == callsAfter <= 1 /\ blamedAfter <= 2

\* Whatever the servers do or leave undone, every call comes to its end.
CallsEnd == <>(pc = "over")
=============================================================================
