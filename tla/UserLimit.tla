----------------------------- MODULE UserLimit -----------------------------
(* ratelimit/user.go, User: a sliding window of admissions per user, checked *)
(* under one mutex. The middleware refuses with a Retry-After in seconds.    *)
EXTENDS WallClock, Sequences

CONSTANTS Users,            \* the names userIDFromRequest yields
          Limit,            \* User.limit
          Window            \* User.window, in ticks

ASSUME UserLimitAssumption == Limit \in Nat \ {0} /\ Window \in Nat \ {0}

VARIABLES buckets,          \* User.buckets: the admissions still counted
          admitted,         \* history: when each user was admitted
          due               \* history: when a refused user was told to return

limitVars == <<now, buckets, admitted, due>>
notRefused == -1
-----------------------------------------------------------------------------
\* Mutant: an admission as old as the window no longer counts.
Stale_Half(t) == t <= now - Window

\* hits[i].Before(cutoff): an admission exactly as old as the window counts.
Stale(t) == t < now - Window

\* The index at which the loop stops: all before it are stale, and it is not.
Stop(hits) == CHOOSE i \in 1 .. Len(hits) + 1 :
                 /\ \A n \in 1 .. i - 1 : Stale(hits[n])
                 /\ i \in DOMAIN hits => ~Stale(hits[i])
Kept(hits) == SubSeq(hits, Stop(hits), Len(hits))

HasRoom(u) == Len(Kept(buckets[u])) < Limit

\* Mutant: the fraction of a second is cut off and nothing added.
RetryAfter_Truncated(wait) == WholeSeconds(wait)

\* int(retry.Seconds()) + 1
RetryAfter(wait) == WholeSeconds(wait) + 1

LimitInit == /\ ClockInit
             /\ buckets = [u \in Users |-> <<>>]
             /\ admitted = [u \in Users |-> <<>>]
             /\ due = [u \in Users |-> notRefused]

\* Check answers yes: the stale admissions go, this one is added.
Admit(u) ==
    /\ HasRoom(u)
    /\ buckets' = [buckets EXCEPT ![u] = Append(Kept(@), now)]
    /\ admitted' = [admitted EXCEPT ![u] = Append(@, now)]
    /\ due' = [due EXCEPT ![u] = notRefused]
    /\ UNCHANGED now

\* Check answers no, and stores nothing, not even what it has dropped.
Refuse(u) ==
    /\ ~HasRoom(u)
    /\ LET wait == Kept(buckets[u])[1] + Window - now
       IN  due' = [due EXCEPT ![u] = now + RetryAfter(wait) * TicksPerSecond]
    /\ UNCHANGED <<now, buckets, admitted>>

LimitNext == \/ Tick /\ UNCHANGED <<buckets, admitted, due>>
             \/ \E u \in Users : Admit(u) \/ Refuse(u)

LimitSpec == LimitInit /\ [][LimitNext]_limitVars
-----------------------------------------------------------------------------
LimitTypeOK ==
    /\ now \in Time
    /\ buckets \in [Users -> Seq(Time)]
    /\ admitted \in [Users -> Seq(Time)]
    /\ due \in [Users -> Int]

\* No burst gets through, however it falls on the edges of the windows: any
\* Limit + 1 admissions of one user in a row span more than the window.
NoBurst ==
    \A u \in Users : \A n \in DOMAIN admitted[u] :
        n + Limit \in DOMAIN admitted[u] =>
            admitted[u][n + Limit] > admitted[u][n] + Window

\* A user who was refused and waits as Retry-After says is not refused again,
\* if no one else was admitted under the same name in between.
PatienceRewarded ==
    \A u \in Users : (due[u] # notRefused /\ now >= due[u]) => HasRoom(u)
=============================================================================
