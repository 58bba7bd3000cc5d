------------------------------ MODULE Upstream ------------------------------
(* What the proxy knows of the providers: the model names it may call, and   *)
(* the kinds of error types/errors.go sorts their failures into.             *)

CONSTANT Models             \* model names

ErrorKind ==
    {"Unknown", "RateLimit", "ServerError", "Timeout", "Network",
     "Auth", "Validation", "BadRequest", "Canceled"}

\* Every other kind is fatal, Canceled and Unknown included.
IsTransient(kind) == kind \in {"RateLimit", "ServerError", "Timeout", "Network"}
=============================================================================
