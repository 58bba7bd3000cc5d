--------------------------- MODULE ModelCooldown ---------------------------
(* ratelimit/model.go, Model: a model that answered 429 is left alone until  *)
(* an instant. 0 stands for a model the map has no entry for.                *)
EXTENDS Clock, Upstream

CONSTANT RetryAfter         \* the default of Record, in ticks

ASSUME RetryAfterAssumption == RetryAfter \in Nat \ {0}

VARIABLE coolUntil

CooldownTypeOK == coolUntil \in [Models -> Nat]

CooldownInit == coolUntil = [m \in Models |-> 0]

Limited(m) == now < coolUntil[m]

\* Check answering ok: an entry that has run out is deleted on the way.
CheckAllows(m) == /\ ~Limited(m)
                  /\ coolUntil' = [coolUntil EXCEPT ![m] = 0]

\* Check answering "not yet".
CheckRefuses(m) == /\ Limited(m)
                   /\ UNCHANGED coolUntil

\* Record without a Retry-After hint, which is how the proxy calls it.
RecordLimit(m) == coolUntil' = [coolUntil EXCEPT ![m] = now + RetryAfter]
=============================================================================
