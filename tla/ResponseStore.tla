--------------------------- MODULE ResponseStore ---------------------------
(* What a caller may rely on of a prompt cache, whatever it keeps and drops: *)
(* a lookup brings back the last response put under its key, no older than   *)
(* the TTL, or nothing. The store may lose any entry at any step.            *)
EXTENDS Clock

CONSTANTS Keys, Responses, TTL, Nothing

VARIABLES store,            \* key -> [resp, expires], or Nothing
          answer            \* what the last lookup brought back

vars == <<now, store, answer>>

Live(e) == e # Nothing /\ (TTL > 0 => now <= e.expires)

Init == /\ ClockInit
        /\ store = [k \in Keys |-> Nothing]
        /\ answer = Nothing

\* Entries other than those of ks may be dropped on the way.
KeepsOnly(new, ks) == \A k \in Keys \ ks : new[k] \in {store[k], Nothing}

Put(k, r) ==
    /\ \E new \in [Keys -> {Nothing, [resp |-> r, expires |-> now + TTL]}
                              \cup {store[j] : j \in Keys}] :
         /\ KeepsOnly(new, {k})
         /\ new[k] = [resp |-> r, expires |-> now + TTL]
         /\ store' = new
    /\ UNCHANGED <<now, answer>>

Hit(k) == /\ Live(store[k])
          /\ answer' = store[k]
          /\ UNCHANGED <<now, store>>

Miss(k) == /\ store' \in {store, [store EXCEPT ![k] = Nothing]}
           /\ answer' = Nothing
           /\ UNCHANGED now

Next == \/ Tick /\ UNCHANGED <<store, answer>>
        \/ \E k \in Keys : Hit(k) \/ Miss(k) \/ \E r \in Responses : Put(k, r)

Spec == Init /\ [][Next]_vars
=============================================================================
