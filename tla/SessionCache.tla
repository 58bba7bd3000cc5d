---------------------------- MODULE SessionCache ----------------------------
(* cache/session.go, Session: the model pinned to a conversation. A key      *)
(* stands for the hash of the system messages and the first user message,    *)
(* which every turn of one conversation shares.                              *)
EXTENDS Clock

CONSTANTS Conversations,    \* session keys
          PinModels,        \* models that can be pinned
          TTL               \* Session.ttl, in ticks; 0: pins do not expire

ASSUME SessionAssumption == TTL \in Nat

VARIABLE entries            \* Session.entries; NoPin where the map has no key

Tier == {"free", "simple", "mid", "complex", "reasoning"}

tierRank(t) == CASE t = "free" -> 0 [] t = "simple" -> 1 [] t = "mid" -> 2
                 [] t = "complex" -> 3 [] t = "reasoning" -> 4

NoPin == [model |-> "none", tier |-> "free", updated |-> -1]

Pin(m, t) == [model |-> m, tier |-> t, updated |-> now]

SessionTypeOK ==
    entries \in [Conversations ->
                    {NoPin} \cup [model : PinModels, tier : Tier, updated : Nat]]

SessionInit == entries = [k \in Conversations |-> NoPin]

Expired(e) == TTL > 0 /\ now - e.updated > TTL

\* Mutant: the newest pick wins.
UpgradeStatus_Newest(k, t) ==
    IF entries[k] = NoPin THEN "new"
    ELSE IF tierRank(t) < tierRank(entries[k].tier) THEN "pinned" ELSE "upgraded"

UpgradeStatus(k, t) ==
    IF entries[k] = NoPin THEN "new"
    ELSE IF tierRank(t) <= tierRank(entries[k].tier) THEN "pinned" ELSE "upgraded"

\* UpgradeIfHigher, whole: the mutex is held throughout. It looks at no expiry.
UpgradeIfHigher(k, m, t) ==
    entries' = IF UpgradeStatus(k, t) = "pinned" THEN entries
               ELSE [entries EXCEPT ![k] = Pin(m, t)]

\* What UpgradeIfHigher returns, but for the status.
FinalPin(k, m, t) == IF UpgradeStatus(k, t) = "pinned" THEN entries[k] ELSE Pin(m, t)

Delete(k) == entries' = [entries EXCEPT ![k] = NoPin]
=============================================================================
