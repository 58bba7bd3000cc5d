--------------------------- MODULE SessionCallers ---------------------------
(* Goroutines sharing one Session. UpgradeIfHigher is one critical section;  *)
(* Get is two, a read and, for an entry it finds expired, a delete, and it   *)
(* judges the entry it has read between them. The router calls the one and   *)
(* users of the library the other, which types.SessionCache offers them.     *)
EXTENDS SessionCache

CONSTANT Callers            \* the goroutines that call Get

ASSUME CallersAssumption == Conversations # {}

VARIABLES pc,
          key,              \* the conversation a Get is about
          copy,             \* the entry that Get has read
          pinned,           \* history: when each conversation was last pinned
          contested         \* history: those of which a Get was under way then

getVars == <<pc, key, copy>>
pinVars == <<entries, pinned, contested>>
callerVars == <<now, getVars, pinVars>>

CallersInit == /\ ClockInit /\ SessionInit
               /\ pc = [c \in Callers |-> "idle"]
               /\ key = [c \in Callers |-> CHOOSE k \in Conversations : TRUE]
               /\ copy = [c \in Callers |-> NoPin]
               /\ pinned = [k \in Conversations |-> 0]
               /\ contested = {}

Underway(k) == \E c \in Callers : pc[c] # "idle" /\ key[c] = k

Upgrade(k, m, t) ==
    /\ UpgradeIfHigher(k, m, t)
    /\ IF UpgradeStatus(k, t) = "pinned" THEN UNCHANGED <<pinned, contested>>
       ELSE /\ pinned' = [pinned EXCEPT ![k] = now]
            /\ contested' = IF Underway(k) THEN contested \cup {k} ELSE contested \ {k}
    /\ UNCHANGED <<now, getVars>>

\* Get, under the read lock. Where there is no entry it returns at once, and
\* nothing has changed.
Read(c, k) ==
    /\ pc[c] = "idle" /\ entries[k] # NoPin
    /\ pc' = [pc EXCEPT ![c] = "judge"]
    /\ key' = [key EXCEPT ![c] = k] /\ copy' = [copy EXCEPT ![c] = entries[k]]
    /\ UNCHANGED <<now, pinVars>>

Return(c) == /\ pc' = [pc EXCEPT ![c] = "idle"]
             /\ copy' = [copy EXCEPT ![c] = NoPin]
             /\ UNCHANGED key

\* A live entry is a hit, and Get returns the copy.
Hit(c) == /\ pc[c] = "judge" /\ ~Expired(copy[c])
          /\ Return(c)
          /\ UNCHANGED <<now, pinVars>>

FindExpired(c) == /\ pc[c] = "judge" /\ Expired(copy[c])
                  /\ pc' = [pc EXCEPT ![c] = "delete"]
                  /\ UNCHANGED <<now, key, copy, pinVars>>

\* Get, under the write lock: whatever the key holds by now is deleted.
DeleteExpired(c) == /\ pc[c] = "delete"
                    /\ Delete(key[c])
                    /\ Return(c)
                    /\ UNCHANGED <<now, pinned, contested>>

TimePasses == Tick /\ UNCHANGED <<getVars, pinVars>>

Get(c) == Hit(c) \/ FindExpired(c) \/ DeleteExpired(c) \/ \E k \in Conversations : Read(c, k)
-----------------------------------------------------------------------------
CallersTypeOK == /\ now \in Time /\ SessionTypeOK
                 /\ pc \in [Callers -> {"idle", "judge", "delete"}]
                 /\ key \in [Callers -> Conversations]
                 /\ copy \in [Callers -> {NoPin} \cup
                               [model : PinModels, tier : Tier, updated : Nat]]
                 /\ pinned \in [Conversations -> Time]
                 /\ contested \subseteq Conversations
=============================================================================
