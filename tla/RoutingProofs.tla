---------------------------- MODULE RoutingProofs ----------------------------
(* What the router relies on and what it promises: the classifiers for every *)
(* text and threshold, the session cache for any number of callers, the      *)
(* stages of Route for every configuration, conversation and turn, the chain *)
(* of fallbacks it builds, and the skill router for every catalog and prompt.*)
EXTENDS Routing, SkillRouter, SumTheorems, SequenceTheorems

\* No signal of the second text is weaker.
AtLeast(a, b) == /\ a.length <= b.length /\ (a.fenced => b.fenced)
                 /\ a.braces <= b.braces /\ a.parens <= b.parens
                 /\ a.keywords <= b.keywords

tiers == <<"simple", "mid", "complex">>

\* Each signal of the heuristic, and so their sum, stays in its range and is
\* the greater for a greater text.
LEMMA SignalsGrow ==
    ASSUME NEW a \in Text, NEW b \in Text, AtLeast(a, b)
    PROVE  /\ Heuristic(a) \in 50 .. 275
           /\ Heuristic(b) \in 50 .. 275
           /\ Heuristic(a) \in Int /\ Heuristic(b) \in Int
           /\ Heuristic(a) <= Heuristic(b)
<1>1. /\ lengthSignal(a.length) \in 10 .. 95 /\ lengthSignal(b.length) \in 10 .. 95
      /\ lengthSignal(a.length) <= lengthSignal(b.length)
  BY DEF Text, AtLeast, lengthSignal
<1>2. /\ codeSignal(a) \in 20 .. 85 /\ codeSignal(b) \in 20 .. 85
      /\ codeSignal(a) <= codeSignal(b)
  BY DEF Text, AtLeast, codeSignal
<1>3. /\ keywordSignal(a.keywords) \in 20 .. 90 /\ keywordSignal(b.keywords) \in 20 .. 90
      /\ keywordSignal(a.keywords) <= keywordSignal(b.keywords)
  BY DEF Text, AtLeast, keywordSignal
<1> DEFINE la == lengthSignal(a.length)       lb == lengthSignal(b.length)
           ca == codeSignal(a)                cb == codeSignal(b)
           ka == keywordSignal(a.keywords)    kb == keywordSignal(b.keywords)
<1>4. /\ Heuristic(a) = la + ca + ka /\ Heuristic(b) = lb + cb + kb
  BY DEF Heuristic
<1>5. /\ la \in 10 .. 95 /\ lb \in 10 .. 95 /\ la <= lb
      /\ ca \in 20 .. 85 /\ cb \in 20 .. 85 /\ ca <= cb
      /\ ka \in 20 .. 90 /\ kb \in 20 .. 90 /\ ka <= kb
  BY <1>1, <1>2, <1>3
<1> HIDE DEF la, lb, ca, cb, ka, kb
<1>6. /\ la + ca + ka \in 50 .. 275 /\ lb + cb + kb \in 50 .. 275
      /\ la + ca + ka <= lb + cb + kb
  BY <1>5
<1>7. \A n \in 50 .. 275 : n \in Int
  OBVIOUS
<1> QED BY <1>4, <1>6, <1>7, Zenon

\* BucketScore: a higher score has a tier that is no lower, whatever the two
\* thresholds are, crossed ones included.
LEMMA BucketsRise ==
    ASSUME NEW s \in Int, NEW t \in Int, s <= t, NEW hasMid \in BOOLEAN
    PROVE  \E p, q \in 1 .. 3 : /\ BucketScore(s, hasMid) = tiers[p]
                               /\ BucketScore(t, hasMid) = tiers[q]
                               /\ p <= q
<1> USE ClassifierAssumption
<1>0. tiers[1] = "simple" /\ tiers[2] = "mid" /\ tiers[3] = "complex"
  BY DEF tiers
<1>1. CASE s <= 3 * SimpleAt
  <2>1. BucketScore(s, hasMid) = tiers[1]
    BY <1>0, <1>1 DEF BucketScore
  <2>2. \E q \in 1 .. 3 : BucketScore(t, hasMid) = tiers[q]
    BY <1>0 DEF BucketScore
  <2> QED BY <2>1, <2>2
<1>2. CASE ~(s <= 3 * SimpleAt) /\ s >= 3 * ComplexAt
  <2>1. BucketScore(s, hasMid) = tiers[3] /\ BucketScore(t, hasMid) = tiers[3]
    BY <1>0, <1>2 DEF BucketScore
  <2> QED BY <2>1
<1>3. CASE ~(s <= 3 * SimpleAt) /\ ~(s >= 3 * ComplexAt)
  <2>1. BucketScore(s, hasMid) = (IF hasMid THEN tiers[2] ELSE tiers[1])
    BY <1>0, <1>3 DEF BucketScore
  <2>2. BucketScore(t, hasMid) = tiers[3]
        \/ BucketScore(t, hasMid) = (IF hasMid THEN tiers[2] ELSE tiers[1])
    BY <1>0, <1>3 DEF BucketScore
  <2> QED BY <2>1, <2>2
<1> QED BY <1>1, <1>2, <1>3

\* Heuristic.Classify: a prompt that is longer, holds more code or more
\* keywords is never routed to a lower tier than the smaller one.
THEOREM MoreIsNotSimpler ==
    ASSUME NEW a \in Text, NEW b \in Text, AtLeast(a, b), NEW hasMid \in BOOLEAN,
           NEW p \in 1 .. 3, NEW q \in 1 .. 3,
           BucketScore(Heuristic(a), hasMid) = tiers[p],
           BucketScore(Heuristic(b), hasMid) = tiers[q]
    PROVE  p <= q
<1>1. /\ Heuristic(a) \in Int /\ Heuristic(b) \in Int
      /\ Heuristic(a) <= Heuristic(b)
  BY SignalsGrow
<1>2. PICK u, v \in 1 .. 3 : /\ BucketScore(Heuristic(a), hasMid) = tiers[u]
                             /\ BucketScore(Heuristic(b), hasMid) = tiers[v]
                             /\ u <= v
  BY <1>1, BucketsRise
<1>3. \A x, y \in 1 .. 3 : tiers[x] = tiers[y] => x = y
  BY DEF tiers
<1> QED BY <1>2, <1>3

\* Cascading.Classify: whatever the model replies, the score stays in [0, 1],
\* and the tier is the heuristic's own where that is sure; where it is sure that
\* a text is complex it is so of every greater text too, so no reply changes
\* the tier of those.
THEOREM SureIsFinal ==
    ASSUME NEW text \in Text, NEW reply \in Seq(Int), NEW hasMid \in BOOLEAN
    PROVE  /\ Cascading(text, reply) \in 0 .. 300
           /\ (CascadeAt = 0 \/ Sure(Heuristic(text))) =>
                  Classify(text, reply, hasMid) = Classify(text, <<>>, hasMid)
           /\ \A other \in Text :
                  (/\ AtLeast(text, other) /\ Heuristic(text) >= 150
                   /\ Sure(Heuristic(text))) =>
                       Classify(other, reply, hasMid) = Classify(other, <<>>, hasMid)
<1> USE ClassifierAssumption
<1>1. Heuristic(text) \in 50 .. 275
  <2>1. AtLeast(text, text)
    BY DEF AtLeast, Text
  <2> QED BY <2>1, SignalsGrow
<1>2. Cascading(text, reply) \in 0 .. 300
  <2>1. CASE reply = <<>>
    BY <1>1, <2>1 DEF Cascading
  <2>2. CASE reply # <<>>
    <3>1. Head(reply) \in Int
      BY <2>2
    <3>2. \A n \in Int : 3 * (IF n < 0 THEN 0 ELSE IF n > 100 THEN 100 ELSE n) \in 0 .. 300
      OBVIOUS
    <3>3. parseScore(reply) \in 0 .. 300
      BY <3>1, <3>2 DEF parseScore
    <3> QED BY <1>1, <3>3 DEF Cascading
  <2> QED BY <2>1, <2>2
<1>3. (CascadeAt = 0 \/ Sure(Heuristic(text))) =>
          Classify(text, reply, hasMid) = Classify(text, <<>>, hasMid)
  BY DEF Classify, Cascading
<1>4. ASSUME NEW other \in Text, AtLeast(text, other),
             Heuristic(text) >= 150, Sure(Heuristic(text))
      PROVE  Classify(other, reply, hasMid) = Classify(other, <<>>, hasMid)
  <2>1. /\ Heuristic(other) \in Int /\ Heuristic(text) \in Int
        /\ Heuristic(text) <= Heuristic(other)
    BY <1>4, SignalsGrow, Zenon
  <2>2. Sure(Heuristic(other))
    BY <1>4, <2>1 DEF Sure, Confidence
  <2> QED BY <2>2 DEF Classify, Cascading
<1> QED BY <1>2, <1>3, <1>4

-----------------------------------------------------------------------------
(* The session cache for any number of callers, conversations and models.    *)
StoredPin == {NoPin} \cup [model : PinModels, tier : Tier, updated : Nat]

\* A pin is stamped with the time it was set; who is looking up a conversation
\* that was pinned while nobody was holds the pin that is there, if one is; and
\* who is about to delete has read a pin that outlived the TTL.
PinsDated == \A k \in Conversations : entries[k] # NoPin => pinned[k] = entries[k].updated
CopiesHold == \A c \in Callers :
    (pc[c] # "idle" /\ key[c] \notin contested /\ entries[key[c]] # NoPin) =>
        copy[c] = entries[key[c]]
DeletesExpired == \A c \in Callers : pc[c] = "delete" => Expired(copy[c])

CallersInv == CallersTypeOK /\ PinsDated /\ CopiesHold /\ DeletesExpired

\* What UpgradeIfHigher leaves behind: the old pin, or one of a higher tier, dated now.
LEMMA PinFacts ==
    ASSUME CallersTypeOK, NEW k \in Conversations, NEW m \in PinModels, NEW t \in Tier,
           UpgradeIfHigher(k, m, t)
    PROVE  /\ SessionTypeOK'
           /\ \A j \in Conversations : entries'[j] = entries[j] \/ entries'[j] = Pin(m, t)
           /\ entries'[k] # entries[k] =>
                 entries[k] = NoPin \/ tierRank(t) > tierRank(entries[k].tier)
           /\ \A j \in Conversations \ {k} : entries'[j] = entries[j]
           /\ entries'[k] # entries[k] => entries'[k] = Pin(m, t)
<1>1. /\ entries \in [Conversations -> StoredPin]
      /\ Pin(m, t) \in StoredPin
  BY MaxTimeAssumption DEF CallersTypeOK, SessionTypeOK, Pin, StoredPin, Time
<1>2. CASE entries' = entries
  BY <1>1, <1>2 DEF SessionTypeOK, StoredPin
<1>3. CASE UpgradeStatus(k, t) # "pinned" /\ entries' = [entries EXCEPT ![k] = Pin(m, t)]
  <2>1. entries[k] = NoPin \/ ~(tierRank(t) <= tierRank(entries[k].tier))
    BY <1>3 DEF UpgradeStatus
  <2>2. \A u \in Tier : tierRank(u) \in 0 .. 4
    BY DEF Tier, tierRank
  <2>3. entries[k] # NoPin => entries[k].tier \in Tier
    BY <1>1 DEF StoredPin
  <2>4. entries[k] = NoPin \/ tierRank(t) > tierRank(entries[k].tier)
    BY <2>1, <2>2, <2>3
  <2>5. entries' \in [Conversations -> StoredPin]
    BY <1>1, <1>3
  <2>6. /\ entries'[k] = Pin(m, t)
        /\ \A j \in Conversations \ {k} : entries'[j] = entries[j]
    BY <1>1, <1>3
  <2> QED
    BY <2>4, <2>5, <2>6 DEF SessionTypeOK, StoredPin
<1> QED
  BY <1>2, <1>3 DEF UpgradeIfHigher

\* No conversation is pinned, and nobody is about to delete.
LEMMA InitCallers == CallersInit => CallersInv
<1> SUFFICES ASSUME CallersInit PROVE CallersInv
  OBVIOUS
<1>1. CallersTypeOK
  BY MaxTimeAssumption, CallersAssumption
  DEF CallersInit, CallersTypeOK, ClockInit, SessionInit, SessionTypeOK, Time
<1>2. PinsDated /\ CopiesHold /\ DeletesExpired
  BY DEF CallersInit, PinsDated, CopiesHold, DeletesExpired, SessionInit
<1> QED
  BY <1>1, <1>2 DEF CallersInv

LEMMA CallerTypes ==
    ASSUME CallersTypeOK
    PROVE  /\ now \in Nat /\ entries \in [Conversations -> StoredPin]
           /\ copy \in [Callers -> StoredPin] /\ key \in [Callers -> Conversations]
           /\ pc \in [Callers -> {"idle", "judge", "delete"}]
           /\ pinned \in [Conversations -> Time] /\ \A t \in Time : t \in Nat
BY MaxTimeAssumption DEF CallersTypeOK, SessionTypeOK, Time, StoredPin

\* A turn that sets a pin leaves no copy of an older one uncounted.
LEMMA UpgradeKeeps ==
    ASSUME CallersInv, NEW k \in Conversations, NEW m \in PinModels, NEW t \in Tier,
           Upgrade(k, m, t)
    PROVE  /\ CallersInv'
           /\ \A j \in Conversations \ {k} :
                 pinned'[j] = pinned[j] /\ (j \in contested' <=> j \in contested)
<1>1. /\ now \in Nat /\ entries \in [Conversations -> StoredPin]
      /\ copy \in [Callers -> StoredPin] /\ key \in [Callers -> Conversations]
      /\ pinned \in [Conversations -> Time] /\ contested \subseteq Conversations /\ now \in Time
  BY CallerTypes DEF CallersInv, CallersTypeOK
<1>2. /\ SessionTypeOK' /\ UNCHANGED <<now, pc, key, copy>> /\ UpgradeIfHigher(k, m, t)
  BY PinFacts DEF Upgrade, CallersInv, getVars
<1>3. CASE UpgradeStatus(k, t) = "pinned"
  <2>1. UNCHANGED <<entries, pinned, contested>>
    BY <1>2, <1>3 DEF Upgrade, UpgradeIfHigher
  <2> QED
    BY <1>2, <2>1 DEF CallersInv, CallersTypeOK, PinsDated, CopiesHold, DeletesExpired, Expired
<1>4. CASE UpgradeStatus(k, t) # "pinned"
  <2>1. /\ entries' = [entries EXCEPT ![k] = Pin(m, t)] /\ pinned' = [pinned EXCEPT ![k] = now]
        /\ contested' = IF Underway(k) THEN contested \cup {k} ELSE contested \ {k}
    BY <1>2, <1>4 DEF Upgrade, UpgradeIfHigher
  <2>2. CallersTypeOK'
    <3>1. pinned' \in [Conversations -> Time] /\ contested' \subseteq Conversations
      BY <1>1, <2>1
    <3> QED BY <1>2, <3>1 DEF CallersInv, CallersTypeOK
  <2>3. PinsDated'
    BY <1>1, <2>1 DEF CallersInv, PinsDated, Pin
  <2>4. CopiesHold'
    <3> SUFFICES ASSUME NEW c \in Callers, pc[c] # "idle", key[c] \notin contested',
                        entries'[key[c]] # NoPin
                 PROVE  copy[c] = entries'[key[c]]
      BY <1>2 DEF CopiesHold
    <3>1. CASE key[c] = k
      BY <2>1, <3>1 DEF Underway
    <3>2. CASE key[c] # k
      <4>1. key[c] \notin contested /\ entries'[key[c]] = entries[key[c]]
        BY <1>1, <2>1, <3>2
      <4> QED BY <4>1 DEF CallersInv, CopiesHold
    <3> QED BY <3>1, <3>2
  <2>5. DeletesExpired'
    BY <1>2 DEF CallersInv, DeletesExpired, Expired
  <2>6. \A j \in Conversations \ {k} :
           pinned'[j] = pinned[j] /\ (j \in contested' <=> j \in contested)
    BY <1>1, <2>1
  <2> QED BY <2>2, <2>3, <2>4, <2>5, <2>6 DEF CallersInv
<1> QED BY <1>3, <1>4

\* No step of a Get, and none of the clock, breaks that; and the only pin that
\* such a step removes is contested or older than the TTL.
LEMMA GetKeeps ==
    ASSUME CallersInv, TimePasses \/ \E c \in Callers : Get(c)
    PROVE  /\ CallersInv' /\ UNCHANGED <<pinned, contested>>
           /\ now' \in Nat /\ now' >= now
           /\ \A k \in Conversations :
                 \/ entries'[k] = entries[k]
                 \/ entries'[k] = NoPin /\ (Outlived(k) \/ k \in contested)
<1>1. /\ now \in Nat /\ entries \in [Conversations -> StoredPin]
      /\ copy \in [Callers -> StoredPin] /\ key \in [Callers -> Conversations]
      /\ pc \in [Callers -> {"idle", "judge", "delete"}]
      /\ \A p \in StoredPin : p.updated \in Int
  BY CallerTypes DEF CallersInv, StoredPin, NoPin
<1>2. CASE TimePasses
  <2>1. now' \in Nat /\ now' = now + 1 /\ UNCHANGED <<pc, key, copy, entries, pinned, contested>>
    BY <1>1, <1>2 DEF TimePasses, Tick, getVars, pinVars
  <2>2. CallersTypeOK'
    BY <1>2, <2>1, MaxTimeAssumption DEF TimePasses, Tick, CallersInv, CallersTypeOK, SessionTypeOK, Time
  <2>3. PinsDated' /\ CopiesHold'
    BY <2>1 DEF CallersInv, PinsDated, CopiesHold
  <2>4. DeletesExpired'
    BY <1>1, <2>1, SessionAssumption DEF CallersInv, DeletesExpired, Expired
  <2> QED BY <1>1, <2>1, <2>2, <2>3, <2>4 DEF CallersInv
<1>3. ASSUME NEW c \in Callers, NEW k \in Conversations, Read(c, k)
      PROVE  CallersInv' /\ UNCHANGED <<now, entries, pinned, contested>>
  <2>1. /\ pc' = [pc EXCEPT ![c] = "judge"] /\ key' = [key EXCEPT ![c] = k]
        /\ copy' = [copy EXCEPT ![c] = entries[k]]
        /\ UNCHANGED <<now, entries, pinned, contested>>
    BY <1>3 DEF Read, pinVars
  <2>2. CallersTypeOK'
    <3>1. copy' \in [Callers -> StoredPin]
      BY <1>1, <2>1
    <3> QED BY <1>1, <2>1, <3>1 DEF CallersInv, CallersTypeOK, SessionTypeOK, StoredPin
  <2>3. PinsDated'
    BY <2>1 DEF CallersInv, PinsDated
  <2>4. CopiesHold'
    BY <1>1, <2>1 DEF CallersInv, CopiesHold
  <2>5. DeletesExpired'
    BY <1>1, <2>1 DEF CallersInv, DeletesExpired, Expired
  <2> QED BY <2>1, <2>2, <2>3, <2>4, <2>5 DEF CallersInv
<1>4. ASSUME NEW c \in Callers, Hit(c) PROVE CallersInv' /\ UNCHANGED <<now, entries, pinned, contested>>
  <2>1. /\ pc' = [pc EXCEPT ![c] = "idle"] /\ copy' = [copy EXCEPT ![c] = NoPin]
        /\ UNCHANGED <<now, key, entries, pinned, contested>>
    BY <1>4 DEF Hit, Return, pinVars
  <2>2. CallersTypeOK'
    BY <1>1, <2>1 DEF CallersInv, CallersTypeOK, SessionTypeOK, StoredPin
  <2>3. PinsDated' /\ CopiesHold' /\ DeletesExpired'
    BY <1>1, <2>1 DEF CallersInv, PinsDated, CopiesHold, DeletesExpired, Expired
  <2> QED BY <2>1, <2>2, <2>3 DEF CallersInv
<1>5. ASSUME NEW c \in Callers, FindExpired(c)
      PROVE  CallersInv' /\ UNCHANGED <<now, entries, pinned, contested>>
  <2>1. /\ pc[c] = "judge" /\ Expired(copy[c]) /\ pc' = [pc EXCEPT ![c] = "delete"]
        /\ UNCHANGED <<now, key, copy, entries, pinned, contested>>
    BY <1>5 DEF FindExpired, pinVars
  <2>2. CallersTypeOK'
    BY <1>1, <2>1 DEF CallersInv, CallersTypeOK, SessionTypeOK
  <2>3. PinsDated' /\ CopiesHold' /\ DeletesExpired'
    BY <1>1, <2>1 DEF CallersInv, PinsDated, CopiesHold, DeletesExpired, Expired
  <2> QED BY <2>1, <2>2, <2>3 DEF CallersInv
<1>6. ASSUME NEW c \in Callers, DeleteExpired(c)
      PROVE  /\ CallersInv' /\ UNCHANGED <<now, pinned, contested>>
             /\ \A k \in Conversations :
                   \/ entries'[k] = entries[k]
                   \/ entries'[k] = NoPin /\ (Outlived(k) \/ k \in contested)
  <2>1. /\ pc[c] = "delete" /\ entries' = [entries EXCEPT ![key[c]] = NoPin]
        /\ pc' = [pc EXCEPT ![c] = "idle"] /\ copy' = [copy EXCEPT ![c] = NoPin]
        /\ UNCHANGED <<now, key, pinned, contested>>
    BY <1>6 DEF DeleteExpired, Delete, Return
  <2>2. CallersTypeOK'
    BY <1>1, <2>1 DEF CallersInv, CallersTypeOK, SessionTypeOK, StoredPin
  <2>3. PinsDated' /\ CopiesHold' /\ DeletesExpired'
    BY <1>1, <2>1 DEF CallersInv, PinsDated, CopiesHold, DeletesExpired, Expired
  <2>4. ASSUME NEW k \in Conversations, entries'[k] # entries[k], k \notin contested
        PROVE  entries'[k] = NoPin /\ Outlived(k)
    <3>1. k = key[c] /\ entries[k] # NoPin /\ entries'[k] = NoPin
      BY <1>1, <2>1, <2>4
    <3>2. copy[c] = entries[k] /\ pinned[k] = entries[k].updated
      BY <2>1, <2>4, <3>1 DEF CallersInv, CopiesHold, PinsDated
    <3>3. Expired(copy[c])
      BY <2>1 DEF CallersInv, DeletesExpired
    <3> QED BY <3>1, <3>2, <3>3 DEF Expired, Outlived
  <2> QED BY <2>1, <2>2, <2>3, <2>4 DEF CallersInv
<1> QED BY <1>1, <1>2, <1>3, <1>4, <1>5, <1>6 DEF Get, TimePasses, pinVars

-----------------------------------------------------------------------------
(* The stages of one turn.                                                   *)

\* What a stage passes to the next.
Choice == [model : PinModels, tier : Tier, modifiers : SUBSET Modifier]

\* A pick that names the complex model has at least its tier.
TopRank(p) == (Distinct /\ cfg.complex # "" /\ p.model = cfg.complex) =>
                tierRank(p.tier) >= 3

LEMMA Ranks == /\ \A t \in Tier : tierRank(t) \in 0 .. 4
               /\ \A t : t \in {"complex", "reasoning"} => tierRank(t) >= 3
               /\ tierRank("complex") = 3
               /\ \A t, u \in Tier : (tierRank(t) >= 3 /\ tierRank(t) <= tierRank(u)) =>
                                        tierRank(u) >= 3
BY DEF Tier, tierRank

\* The four models of a configuration.
LEMMA ConfigFacts ==
    ASSUME cfg \in Configs
    PROVE  /\ cfg.simple \in PinModels /\ cfg.mid \in PinModels
           /\ cfg.complex \in PinModels /\ cfg.reasoning \in PinModels
           /\ cfg.simple # ""
           /\ cfg \in Loaded => cfg.complex # ""
           /\ (Distinct /\ cfg.complex # "") =>
                 cfg.simple # cfg.complex /\ cfg.mid # cfg.complex
<1>1. /\ cfg.simple \in PinModels /\ cfg.mid \in PinModels
      /\ cfg.complex \in PinModels /\ cfg.reasoning \in PinModels
      /\ cfg.simple # "" /\ (cfg \in Loaded => cfg.complex # "")
  BY RoutingAssumption
<1>2. ASSUME Distinct, cfg.complex # ""
      PROVE  cfg.simple # cfg.complex /\ cfg.mid # cfg.complex
  <2> DEFINE roles == <<cfg.simple, cfg.mid, cfg.complex, cfg.reasoning>>
  <2>1. \A a, b \in 1 .. 4 : (a # b /\ roles[a] = roles[b]) => roles[a] = ""
    BY <1>2 DEF Distinct
  <2>2. roles[1] = cfg.simple /\ roles[2] = cfg.mid /\ roles[3] = cfg.complex
    OBVIOUS
  <2> HIDE DEF roles
  <2>3. /\ 1 \in 1 .. 4 /\ 2 \in 1 .. 4 /\ 3 \in 1 .. 4 /\ 1 # 3 /\ 2 # 3
    OBVIOUS
  <2>4. (roles[1] = roles[3] => roles[1] = "") /\ (roles[2] = roles[3] => roles[2] = "")
    BY <2>1, <2>3, Zenon
  <2> QED BY <1>2, <2>2, <2>4
<1> QED BY <1>1, <1>2

\* modelForTier: every tier the classifier knows has a model.
LEMMA TierModels ==
    ASSUME cfg \in Configs, NEW t \in {"simple", "mid", "complex"}
    PROVE  /\ modelForTier(t) \in PinModels
           /\ cfg \in Loaded => modelForTier(t) # ""
           /\ (Distinct /\ cfg.complex # "" /\ modelForTier(t) = cfg.complex) => t = "complex"
BY ConfigFacts DEF modelForTier, OrElse

\* Stage 1.
LEMMA RequestedFacts ==
    ASSUME cfg \in Configs, NEW ask \in Asks
    PROVE  /\ Requested(ask) \in Choice
           /\ cfg \in Loaded => Requested(ask).model # ""
           /\ TopRank(Requested(ask))
<1> DEFINE p == Requested(ask)
<1>1. CASE ask.requested = auto
  <2> DEFINE t == Classify(UserText(ask), ask.reply, cfg.mid # "")
  <2>1. t \in {"simple", "mid", "complex"}
    BY DEF Classify, BucketScore
  <2>2. p = [model |-> modelForTier(t), tier |-> t, modifiers |-> {"classified"}]
    BY <1>1 DEF Requested
  <2> HIDE DEF t, p
  <2>3. p.model = modelForTier(t) /\ p.tier = t
    BY <2>2
  <2>4. p \in Choice
    BY <2>1, <2>2, TierModels DEF Choice, Tier, Modifier
  <2>5. cfg \in Loaded => p.model # ""
    BY <2>1, <2>3, TierModels
  <2>6. TopRank(p)
    BY <2>1, <2>3, TierModels, Ranks DEF TopRank
  <2> QED BY <2>4, <2>5, <2>6 DEF p
<1>2. CASE ask.requested # auto
  <2> DEFINE m == resolveAlias(ask.requested)
  <2>1. m \in PinModels /\ m # ""
    BY <1>2, RoutingAssumption DEF resolveAlias
  <2>2. p = [model |-> m, tier |-> tierForModel(m), modifiers |-> {}]
    BY <1>2 DEF Requested
  <2>3. tierForModel(m) \in Tier
    BY DEF tierForModel, Tier
  <2> HIDE DEF m, p
  <2>4. p.model = m /\ p.tier = tierForModel(m)
    BY <2>2
  <2>5. p \in Choice
    BY <2>1, <2>2, <2>3 DEF Choice
  <2>6. (Distinct /\ cfg.complex # "" /\ m = cfg.complex) => tierForModel(m) = "complex"
    BY ConfigFacts DEF tierForModel
  <2>7. TopRank(p)
    BY <2>4, <2>6, Ranks DEF TopRank
  <2> QED BY <2>1, <2>4, <2>5, <2>7 DEF p
<1> QED BY <1>1, <1>2

\* Stage 2, tools and agent roles: afterwards the tier is at least complex, or
\* the complex model has none of its own.
LEMMA AgenticFacts ==
    ASSUME cfg \in Configs, NEW meta, NEW p \in Choice,
           cfg \in Loaded => p.model # "", TopRank(p)
    PROVE  /\ Agentic(meta, p) \in Choice
           /\ cfg \in Loaded => Agentic(meta, p).model # ""
           /\ (meta.agentic /\ Distinct /\ cfg.complex # "") =>
                  tierRank(Agentic(meta, p).tier) >= 3
<1> DEFINE up == upgradeTier(p, "complex")
           q == [model |-> up, tier |-> "complex", modifiers |-> p.modifiers \cup {"agentic"}]
<1>1. up = IF tierRank(p.tier) >= 3 THEN p.model ELSE cfg.complex
  BY Ranks DEF upgradeTier, modelForTier
<1>2. p.model \in PinModels /\ p.tier \in Tier /\ p.modifiers \in SUBSET Modifier
  BY DEF Choice
<1>3. tierRank(p.tier) \in 0 .. 4
  BY <1>2, Ranks
<1>4. Agentic(meta, p) = IF meta.agentic /\ up # p.model THEN q ELSE p
  BY DEF Agentic
<1>5. q.model = up /\ q.tier = "complex"
  OBVIOUS
<1>6. q \in Choice
  <2>1. up \in PinModels
    BY <1>1, <1>2, ConfigFacts
  <2>2. p.modifiers \cup {"agentic"} \in SUBSET Modifier
    BY <1>2 DEF Modifier
  <2> HIDE DEF up
  <2> QED BY <2>1, <2>2 DEF Choice, Tier
<1> HIDE DEF up, q
<1>7. CASE meta.agentic /\ up # p.model
  <2>1. Agentic(meta, p) = q
    BY <1>4, <1>7
  <2>2. up = cfg.complex
    BY <1>1, <1>7
  <2> QED BY <2>1, <2>2, <1>5, <1>6, ConfigFacts, Ranks
<1>8. CASE ~(meta.agentic /\ up # p.model)
  <2>1. Agentic(meta, p) = p
    BY <1>4, <1>8
  <2>2. ASSUME meta.agentic, Distinct, cfg.complex # ""
        PROVE  tierRank(p.tier) >= 3
    <3>1. up = p.model
      BY <1>8, <2>2
    <3>2. tierRank(p.tier) >= 3 \/ p.model = cfg.complex
      BY <1>1, <3>1
    <3> QED BY <2>2, <3>2 DEF TopRank
  <2> QED BY <2>1, <2>2
<1> QED BY <1>7, <1>8

\* Stage 2, the reasoning model: no tier is above its own.
LEMMA ReasoningFacts ==
    ASSUME cfg \in Configs, NEW meta, NEW p \in Choice, cfg \in Loaded => p.model # ""
    PROVE  /\ Reasoning(meta, p) \in Choice
           /\ cfg \in Loaded => Reasoning(meta, p).model # ""
           /\ tierRank(p.tier) >= 3 => tierRank(Reasoning(meta, p).tier) >= 3
<1> DEFINE q == [model |-> cfg.reasoning, tier |-> "reasoning",
                 modifiers |-> p.modifiers \cup {"reasoning"}]
<1>1. q \in Choice /\ q.model = cfg.reasoning /\ q.tier = "reasoning"
  BY ConfigFacts DEF Choice, Tier, Modifier
<1>2. Reasoning(meta, p) = IF meta.reasoning /\ cfg.reasoning # "" THEN q ELSE p
  BY DEF Reasoning
<1> HIDE DEF q
<1>3. CASE meta.reasoning /\ cfg.reasoning # ""
  <2>1. Reasoning(meta, p) = q
    BY <1>2, <1>3
  <2>2. tierRank(q.tier) >= 3
    BY <1>1, Ranks
  <2> QED BY <1>1, <1>3, <2>1, <2>2
<1>4. CASE ~(meta.reasoning /\ cfg.reasoning # "")
  <2> DEFINE r == Reasoning(meta, p)
  <2>1. r = p
    BY <1>2, <1>4
  <2> HIDE DEF r
  <2>2. r \in Choice /\ (cfg \in Loaded => r.model # "")
    BY <2>1
  <2>3. tierRank(p.tier) >= 3 => tierRank(r.tier) >= 3
    BY <2>1
  <2> QED BY <2>2, <2>3 DEF r
<1> QED BY <1>3, <1>4

\* Stage 2, images: the model can see if the configuration has one that can.
LEMMA VisionFacts ==
    ASSUME cfg \in Configs, NEW meta, NEW p \in Choice, cfg \in Loaded => p.model # ""
    PROVE  /\ VisionSwap(meta, p) \in Choice
           /\ cfg \in Loaded => VisionSwap(meta, p).model # ""
           /\ VisionSwap(meta, p).tier = p.tier
           /\ (meta.images /\ modelHasVision(cfg.complex)) =>
                  modelHasVision(VisionSwap(meta, p).model)
<1>1. p.model \in PinModels /\ p.tier \in Tier /\ p.modifiers \in SUBSET Modifier
  BY DEF Choice
<1>2. p.modifiers \cup {"vision_swap"} \in SUBSET Modifier
  BY <1>1 DEF Modifier
<1>3. pickVisionModel \in {"", cfg.complex}
      /\ (modelHasVision(cfg.complex) => pickVisionModel = cfg.complex /\ cfg.complex # "")
  BY RoutingAssumption DEF pickVisionModel, modelHasVision
<1>4. CASE meta.images /\ ~modelHasVision(p.model) /\ pickVisionModel # ""
  <2> DEFINE q == [p EXCEPT !.model = pickVisionModel, !.modifiers = @ \cup {"vision_swap"}]
  <2>1. VisionSwap(meta, p) = q
    BY <1>4 DEF VisionSwap
  <2>2. q \in Choice /\ q.model = pickVisionModel /\ q.tier = p.tier
    BY <1>1, <1>2, <1>3, <1>4, ConfigFacts DEF Choice
  <2> HIDE DEF q
  <2> QED BY <1>3, <1>4, <2>1, <2>2
<1>5. CASE ~(meta.images /\ ~modelHasVision(p.model) /\ pickVisionModel # "")
  <2>1. VisionSwap(meta, p) = p
    BY <1>5 DEF VisionSwap
  <2> QED BY <1>3, <1>5, <2>1
<1> QED BY <1>4, <1>5

\* Stages 1 and 2 together.
LEMMA PickedFacts ==
    ASSUME cfg \in Configs, NEW ask \in Asks
    PROVE  /\ Picked(ask) \in Choice
           /\ cfg \in Loaded => Picked(ask).model # ""
           /\ (extractMeta(ask).agentic /\ Distinct /\ cfg.complex # "") =>
                  tierRank(Picked(ask).tier) >= 3
           /\ (extractMeta(ask).images /\ modelHasVision(cfg.complex)) =>
                  modelHasVision(Picked(ask).model)
<1> DEFINE meta == extractMeta(ask)
           p1 == Requested(ask)
           p2 == Agentic(meta, p1)
           p3 == Reasoning(meta, p2)
           p4 == VisionSwap(meta, p3)
<1>1. Picked(ask) = p4
  BY DEF Picked
<1>2. p1 \in Choice /\ (cfg \in Loaded => p1.model # "") /\ TopRank(p1)
  BY RequestedFacts
<1> HIDE DEF meta, p1
<1>3. /\ p2 \in Choice /\ (cfg \in Loaded => p2.model # "")
      /\ (meta.agentic /\ Distinct /\ cfg.complex # "") => tierRank(p2.tier) >= 3
  BY <1>2, AgenticFacts
<1> HIDE DEF p2
<1>4. /\ p3 \in Choice /\ (cfg \in Loaded => p3.model # "")
      /\ tierRank(p2.tier) >= 3 => tierRank(p3.tier) >= 3
  BY <1>3, ReasoningFacts
<1> HIDE DEF p3
<1>5. /\ p4 \in Choice /\ (cfg \in Loaded => p4.model # "")
      /\ p4.tier = p3.tier
      /\ (meta.images /\ modelHasVision(cfg.complex)) => modelHasVision(p4.model)
  BY <1>4, VisionFacts
<1> HIDE DEF p4
<1> QED BY <1>1, <1>3, <1>4, <1>5 DEF meta
-----------------------------------------------------------------------------
(* Turns. What the last turn of a conversation decided is what its pin holds *)
(* as long as that is there, and it goes in two ways only: that is what keeps*)
(* the next turn from going back on it.                                      *)
PinOfTurn(k) == Done(k) =>
    /\ entries[k] # NoPin => /\ entries[k].model = PickOf(k).model
                             /\ entries[k].tier = PickOf(k).tier
    /\ entries[k] = NoPin => Outlived(k) \/ k \in contested

\* What one turn has promised, whatever pin it found.
TurnHolds(k) == Done(k) =>
    /\ cfg \in Loaded => PickOf(k).model # ""
    /\ PickOf(k).provider = ProviderOf(PickOf(k).model)
    /\ (MetaOf(k).agentic /\ Distinct /\ cfg.complex # "") => tierRank(PickOf(k).tier) >= 3
    /\ (MetaOf(k).images /\ modelHasVision(cfg.complex)) =>
           modelHasVision(PickOf(k).model) \/ "session_pinned" \in PickOf(k).modifiers

PinsNamed == \A k \in Conversations :
    (cfg \in Loaded /\ entries[k] # NoPin) => entries[k].model # ""

Typed == /\ now \in Nat
         /\ cfg \in Configs
         /\ entries \in [Conversations -> StoredPin]
         /\ DOMAIN turn = Conversations

IInv == /\ Typed /\ CallersInv /\ PinsNamed
        /\ \A k \in Conversations : PinOfTurn(k) /\ TurnHolds(k)

\* UpgradeIfHigher: the three outcomes, and what the turn is told in each.
LEMMA PinOutcomes ==
    ASSUME Typed, NEW k \in Conversations, NEW m \in PinModels, NEW t \in Tier,
           UpgradeIfHigher(k, m, t)
    PROVE  /\ UpgradeStatus(k, t) \in {"new", "pinned", "upgraded"}
           /\ UpgradeStatus(k, t) = "new" <=> entries[k] = NoPin
           /\ UpgradeStatus(k, t) = "pinned" =>
                 /\ entries' = entries /\ FinalPin(k, m, t) = entries[k]
                 /\ entries[k] # NoPin /\ tierRank(t) <= tierRank(entries[k].tier)
           /\ UpgradeStatus(k, t) # "pinned" =>
                 /\ entries' = [entries EXCEPT ![k] = Pin(m, t)]
                 /\ FinalPin(k, m, t) = Pin(m, t)
           /\ UpgradeStatus(k, t) = "upgraded" => tierRank(t) > tierRank(entries[k].tier)
<1>1. UpgradeStatus(k, t) = IF entries[k] = NoPin THEN "new"
                            ELSE IF tierRank(t) <= tierRank(entries[k].tier)
                                 THEN "pinned" ELSE "upgraded"
  BY DEF UpgradeStatus
<1>2. entries[k] # NoPin => entries[k].tier \in Tier
  BY DEF Typed, StoredPin
<1>3. /\ tierRank(t) \in 0 .. 4
      /\ entries[k] # NoPin => tierRank(entries[k].tier) \in 0 .. 4
  BY <1>2, Ranks
<1>4. /\ entries' = IF UpgradeStatus(k, t) = "pinned" THEN entries
                    ELSE [entries EXCEPT ![k] = Pin(m, t)]
      /\ FinalPin(k, m, t) = IF UpgradeStatus(k, t) = "pinned" THEN entries[k] ELSE Pin(m, t)
  BY DEF UpgradeIfHigher, FinalPin
<1>5. CASE entries[k] = NoPin
  BY <1>1, <1>4, <1>5
<1>6. CASE entries[k] # NoPin /\ tierRank(t) <= tierRank(entries[k].tier)
  BY <1>1, <1>4, <1>6
<1>7. CASE entries[k] # NoPin /\ ~(tierRank(t) <= tierRank(entries[k].tier))
  <2>1. tierRank(t) > tierRank(entries[k].tier)
    BY <1>3, <1>7
  <2> QED BY <1>1, <1>4, <1>7, <2>1
<1> QED BY <1>5, <1>6, <1>7

\* A new pin is one of those the map can hold, and not the missing one.
LEMMA PinTyped ==
    ASSUME now \in Nat, NEW m \in PinModels, NEW t \in Tier
    PROVE  /\ Pin(m, t) \in StoredPin /\ Pin(m, t) # NoPin
           /\ Pin(m, t).model = m /\ Pin(m, t).tier = t
<1>1. Pin(m, t) = [model |-> m, tier |-> t, updated |-> now]
  BY DEF Pin
<1>2. Pin(m, t).updated = now /\ NoPin.updated = -1 /\ now # -1
  BY <1>1 DEF NoPin
<1> QED BY <1>1, <1>2 DEF StoredPin

\* Stages 3 and 4: what the pin is after the turn, and what the turn decided.
LEMMA RouteFacts ==
    ASSUME IInv, NEW k \in Conversations, NEW ask \in Asks, Route(k, ask)
    PROVE  /\ Typed' /\ CallersInv' /\ PinsNamed'
           /\ Done(k)' /\ MetaOf(k)' = extractMeta(ask) /\ PickOf(k)' = Decision(k, ask)
           /\ PinOfTurn(k)' /\ TurnHolds(k)'
           /\ now' = now /\ cfg' = cfg
           /\ \A j \in Conversations \ {k} :
                 /\ entries'[j] = entries[j] /\ turn'[j] = turn[j] /\ pinned'[j] = pinned[j]
                 /\ j \in contested' <=> j \in contested
           /\ entries[k] # NoPin =>
                 \/ PickOf(k)'.model = entries[k].model
                 \/ tierRank(PickOf(k)'.tier) > tierRank(entries[k].tier)
<1> DEFINE p == Picked(ask)
           m == p.model
           t == p.tier
           meta == extractMeta(ask)
           status == UpgradeStatus(k, t)
           final == FinalPin(k, m, t)
           d == Decision(k, ask)
<1>1. Typed /\ PinsNamed /\ cfg \in Configs /\ now \in Nat
  BY DEF IInv, Typed
<1>2. /\ UpgradeIfHigher(k, m, t) /\ now' = now /\ cfg' = cfg
      /\ turn' = [turn EXCEPT ![k] = <<[meta |-> meta, pick |-> d]>>]
      /\ Upgrade(k, m, t)
  BY DEF Route, Upgrade
<1>3. /\ p \in Choice
      /\ cfg \in Loaded => m # ""
      /\ (meta.agentic /\ Distinct /\ cfg.complex # "") => tierRank(t) >= 3
      /\ (meta.images /\ modelHasVision(cfg.complex)) => modelHasVision(m)
  BY <1>1, PickedFacts
<1>4. m \in PinModels /\ t \in Tier
  BY <1>3 DEF Choice
<1>5. /\ d.model = final.model /\ d.tier = final.tier
      /\ d.provider = ProviderOf(final.model)
      /\ d.modifiers = p.modifiers \cup SessionMark[status]
  BY DEF Decision
<1>6. /\ turn'[k] = <<[meta |-> meta, pick |-> d]>>
      /\ DOMAIN turn' = Conversations
      /\ \A j \in Conversations \ {k} : turn'[j] = turn[j]
  BY <1>1, <1>2 DEF Typed
<1>7. Done(k)' /\ MetaOf(k)' = meta /\ PickOf(k)' = d
  BY <1>6 DEF Done, MetaOf, PickOf
<1>16. /\ CallersInv'
       /\ \A j \in Conversations \ {k} :
             pinned'[j] = pinned[j] /\ (j \in contested' <=> j \in contested)
  <2> HIDE DEF m, t
  <2> QED BY <1>2, <1>4, UpgradeKeeps DEF IInv
<1> HIDE DEF p, m, t, meta, d
<1>8. /\ status \in {"new", "pinned", "upgraded"}
      /\ status = "new" <=> entries[k] = NoPin
      /\ status = "pinned" => /\ entries' = entries /\ final = entries[k]
                              /\ entries[k] # NoPin
                              /\ tierRank(t) <= tierRank(entries[k].tier)
      /\ status # "pinned" => /\ entries' = [entries EXCEPT ![k] = Pin(m, t)]
                              /\ final = Pin(m, t)
      /\ status = "upgraded" => tierRank(t) > tierRank(entries[k].tier)
  BY <1>1, <1>2, <1>4, PinOutcomes
<1>9. /\ Pin(m, t) \in StoredPin /\ Pin(m, t) # NoPin
      /\ Pin(m, t).model = m /\ Pin(m, t).tier = t
  BY <1>1, <1>4, PinTyped
<1> HIDE DEF status, final
<1>10. /\ entries' \in [Conversations -> StoredPin]
       /\ \A j \in Conversations \ {k} : entries'[j] = entries[j]
       /\ entries'[k] = final /\ final # NoPin
  <2>1. entries \in [Conversations -> StoredPin]
    BY <1>1 DEF Typed
  <2>2. CASE status = "pinned"
    BY <1>8, <2>1, <2>2
  <2>3. CASE status # "pinned"
    BY <1>8, <1>9, <2>1, <2>3
  <2> QED BY <2>2, <2>3
<1>11. Typed'
  BY <1>1, <1>2, <1>6, <1>10 DEF Typed
<1>12. PinsNamed'
  <2> SUFFICES ASSUME NEW j \in Conversations, cfg \in Loaded, entries'[j] # NoPin
               PROVE  entries'[j].model # ""
    BY <1>2 DEF PinsNamed
  <2>1. CASE j # k
    BY <1>1, <1>10, <2>1 DEF PinsNamed
  <2>2. CASE j = k /\ status = "pinned"
    BY <1>1, <1>8, <2>2 DEF PinsNamed
  <2>3. CASE j = k /\ status # "pinned"
    BY <1>3, <1>8, <1>9, <1>10, <2>3
  <2> QED BY <2>1, <2>2, <2>3
<1>13. PinOfTurn(k)'
  BY <1>5, <1>7, <1>10 DEF PinOfTurn
<1>17. cfg \in Loaded => d.model # ""
  <2>1. CASE status = "pinned"
    BY <1>1, <1>5, <1>8, <2>1 DEF PinsNamed
  <2>2. CASE status # "pinned"
    BY <1>3, <1>5, <1>8, <1>9, <2>2
  <2> QED BY <2>1, <2>2
<1>14. TurnHolds(k)'
  <2>1. /\ ProviderOf(d.model)' = ProviderOf(d.model)' /\ d.provider = ProviderOf(d.model)
    BY <1>5
  <2>2. ProviderOf(PickOf(k).model)' = ProviderOf(d.model)
    BY <1>2, <1>7 DEF ProviderOf
  <2>3. Distinct' = Distinct /\ modelHasVision(cfg.complex)' = modelHasVision(cfg.complex)
    BY <1>2 DEF Distinct, modelHasVision
  <2>4. modelHasVision(PickOf(k).model)' = modelHasVision(d.model)
    BY <1>7 DEF modelHasVision
  <2>5. (meta.agentic /\ Distinct /\ cfg.complex # "") => tierRank(d.tier) >= 3
    <3> SUFFICES ASSUME meta.agentic /\ Distinct /\ cfg.complex # "" PROVE tierRank(d.tier) >= 3
      OBVIOUS
    <3>1. tierRank(t) >= 3 /\ tierRank(t) \in 0 .. 4
      BY <1>3, <1>4, Ranks
    <3>2. CASE status = "pinned"
      <4>1. entries[k].tier \in Tier
        BY <1>1, <1>8, <3>2 DEF Typed, StoredPin
      <4>2. tierRank(t) <= tierRank(entries[k].tier)
        BY <1>8, <3>2
      <4>3. tierRank(entries[k].tier) >= 3
        BY <1>4, <3>1, <4>1, <4>2, Ranks, Zenon
      <4>4. d.tier = entries[k].tier
        BY <1>5, <1>8, <3>2
      <4> QED BY <4>3, <4>4, Zenon
    <3>3. CASE status # "pinned"
      BY <1>5, <1>8, <1>9, <3>1, <3>3
    <3> QED BY <3>2, <3>3
  <2>6. (meta.images /\ modelHasVision(cfg.complex)) =>
            modelHasVision(d.model) \/ "session_pinned" \in d.modifiers
    <3>1. CASE status = "pinned"
      <4>1. SessionMark[status] = {"session_pinned"}
        BY <3>1 DEF SessionMark
      <4> QED BY <1>5, <4>1
    <3>2. CASE status # "pinned"
      BY <1>3, <1>5, <1>8, <1>9, <3>2
    <3> QED BY <3>1, <3>2
  <2> QED BY <1>2, <1>7, <1>17, <2>1, <2>2, <2>3, <2>4, <2>5, <2>6 DEF TurnHolds
<1>15. entries[k] # NoPin =>
         \/ d.model = entries[k].model
         \/ tierRank(d.tier) > tierRank(entries[k].tier)
  <2>1. CASE status = "pinned"
    BY <1>5, <1>8, <2>1
  <2>2. CASE status # "pinned"
    BY <1>5, <1>8, <1>9, <2>2
  <2> QED BY <2>1, <2>2
<1> QED BY <1>2, <1>6, <1>7, <1>10, <1>11, <1>12, <1>13, <1>14, <1>15, <1>16 DEF meta, d

LEMMA InitIInv == Init => IInv
<1> SUFFICES ASSUME Init PROVE IInv
  OBVIOUS
<1>1. Typed /\ PinsNamed
  BY DEF Init, CallersInit, ClockInit, SessionInit, Typed, PinsNamed, StoredPin
<1>3. CallersInv
  BY InitCallers DEF Init
<1>2. \A k \in Conversations : ~Done(k)
  BY DEF Init, Done
<1> QED BY <1>1, <1>2, <1>3 DEF IInv, PinOfTurn, TurnHolds

\* What a conversation has been promised depends on no other conversation, and
\* on no Get.
LEMMA Untouched ==
    ASSUME NEW k \in Conversations, cfg' = cfg, turn'[k] = turn[k], TurnHolds(k)
    PROVE  /\ TurnHolds(k)'
           /\ Done(k)' = Done(k) /\ PickOf(k)' = PickOf(k)
<1>1. Done(k)' = Done(k) /\ PickOf(k)' = PickOf(k) /\ MetaOf(k)' = MetaOf(k)
  BY DEF Done, PickOf, MetaOf
<1>2. /\ Distinct' = Distinct
      /\ ProviderOf(PickOf(k).model)' = ProviderOf(PickOf(k).model)
      /\ modelHasVision(PickOf(k).model)' = modelHasVision(PickOf(k).model)
      /\ modelHasVision(cfg.complex)' = modelHasVision(cfg.complex)
  BY <1>1 DEF Distinct, ProviderOf, modelHasVision
<1> QED BY <1>1, <1>2 DEF TurnHolds

LEMMA NextIInv == IInv /\ [Next]_vars => IInv'
<1> SUFFICES ASSUME IInv, [Next]_vars PROVE IInv'
  OBVIOUS
<1>1. ASSUME NEW k \in Conversations, NEW ask \in Asks, Route(k, ask) PROVE IInv'
  <2>1. /\ Typed' /\ CallersInv' /\ PinsNamed' /\ PinOfTurn(k)' /\ TurnHolds(k)'
        /\ now' = now /\ cfg' = cfg
        /\ \A j \in Conversations \ {k} :
              /\ entries'[j] = entries[j] /\ turn'[j] = turn[j] /\ pinned'[j] = pinned[j]
              /\ j \in contested' <=> j \in contested
    BY <1>1, RouteFacts
  <2>2. ASSUME NEW j \in Conversations \ {k} PROVE PinOfTurn(j)' /\ TurnHolds(j)'
    <3>1. TurnHolds(j)' /\ Done(j)' = Done(j) /\ PickOf(j)' = PickOf(j)
      BY <2>1, Untouched DEF IInv
    <3>2. Outlived(j)' <=> Outlived(j)
      BY <2>1 DEF Outlived
    <3> QED BY <2>1, <3>1, <3>2 DEF IInv, PinOfTurn
  <2> QED BY <2>1, <2>2 DEF IInv
<1>2. ASSUME TimePasses \/ \E c \in Callers : Get(c), UNCHANGED <<cfg, turn>> PROVE IInv'
  <2>1. /\ CallersInv' /\ UNCHANGED <<pinned, contested>> /\ now' \in Nat /\ now' >= now
        /\ \A k \in Conversations :
              \/ entries'[k] = entries[k]
              \/ entries'[k] = NoPin /\ (Outlived(k) \/ k \in contested)
    BY <1>2, GetKeeps DEF IInv
  <2>2. entries' \in [Conversations -> StoredPin]
    BY <2>1, CallerTypes DEF CallersInv, CallersTypeOK, SessionTypeOK, StoredPin
  <2>3. Typed' /\ PinsNamed'
    BY <1>2, <2>1, <2>2 DEF IInv, Typed, PinsNamed
  <2>4. ASSUME NEW j \in Conversations PROVE PinOfTurn(j)' /\ TurnHolds(j)'
    <3>1. TurnHolds(j)' /\ Done(j)' = Done(j) /\ PickOf(j)' = PickOf(j)
      BY <1>2, Untouched DEF IInv
    <3>2. Outlived(j) => Outlived(j)'
      <4>1. now \in Nat /\ pinned[j] \in Nat /\ TTL \in Nat
        BY CallerTypes, SessionAssumption DEF IInv, CallersInv
      <4> QED BY <2>1, <4>1 DEF Outlived
    <3> QED BY <2>1, <3>1, <3>2 DEF IInv, PinOfTurn
  <2> QED BY <2>1, <2>3, <2>4 DEF IInv
<1>3. CASE UNCHANGED vars
  <2>1. UNCHANGED <<now, pc, key, copy, entries, pinned, contested, cfg, turn>>
    BY <1>3 DEF vars, callerVars, getVars, pinVars
  <2>2. Typed' /\ CallersInv' /\ PinsNamed'
    BY <2>1 DEF IInv, Typed, PinsNamed, CallersInv, CallersTypeOK, SessionTypeOK, PinsDated,
                CopiesHold, DeletesExpired, Expired
  <2>3. ASSUME NEW j \in Conversations PROVE PinOfTurn(j)' /\ TurnHolds(j)'
    <3>1. TurnHolds(j)' /\ Done(j)' = Done(j) /\ PickOf(j)' = PickOf(j)
      BY <2>1, Untouched DEF IInv
    <3>2. Outlived(j)' <=> Outlived(j)
      BY <2>1 DEF Outlived
    <3> QED BY <2>1, <3>1, <3>2 DEF IInv, PinOfTurn
  <2> QED BY <2>2, <2>3 DEF IInv
<1> QED BY <1>1, <1>2, <1>3 DEF Next

THEOREM RoutingInvariance == Spec => []IInv
BY InitIInv, NextIInv, PTL DEF Spec

\* The map holds whole pins, stamped with a time there was, or none, and a Get
\* that deletes has seen one outlive the TTL, for any number of callers.
THEOREM CallersInvariance == Spec => []CallersInv
<1>1. IInv => CallersInv
  BY DEF IInv
<1> QED BY <1>1, RoutingInvariance, PTL

\* Route, stage 3, with Get: whatever the turns of a conversation ask for, in
\* whatever order they and those of others come, however late, for every
\* configuration and any number of goroutines that look it up, the model changes
\* only together with a strictly higher tier, unless the pin outlived the TTL or
\* was set while a Get of the conversation was under way.
THEOREM NeverBouncesHolds == Spec => NeverBounces
<1> DEFINE Kept == \A k \in Conversations :
              (/\ Done(k) /\ turn'[k] # turn[k]
               /\ entries[k] # NoPin \/ ~(Outlived(k) \/ k \in contested)) => Steady(k)
<1>1. IInv /\ [Next]_vars => [Kept]_vars
  <2> SUFFICES ASSUME IInv, Next, NEW k \in Conversations, Done(k), turn'[k] # turn[k],
                      entries[k] # NoPin \/ ~(Outlived(k) \/ k \in contested)
               PROVE  Steady(k)
    OBVIOUS
  <2>1. PICK j \in Conversations, ask \in Asks : Route(j, ask)
    BY DEF Next
  <2>2. j = k
    BY <2>1, RouteFacts
  <2>3. entries[k] # NoPin => \/ PickOf(k)'.model = entries[k].model
                              \/ tierRank(PickOf(k)'.tier) > tierRank(entries[k].tier)
    BY <2>1, <2>2, RouteFacts
  <2>4. /\ entries[k] # NoPin
        /\ entries[k].model = PickOf(k).model /\ entries[k].tier = PickOf(k).tier
    BY DEF IInv, PinOfTurn
  <2> QED BY <2>3, <2>4 DEF Steady
<1> QED BY <1>1, RoutingInvariance, PTL DEF Spec, NeverBounces

\* Route, stages 1 and 2 with the defaults of config.Load, and pickProvider: a
\* decision names a model, and the provider it logs is the one that is called.
THEOREM DispatchableHolds == Spec => []Dispatchable
<1>1. IInv => Dispatchable
  <2> SUFFICES ASSUME IInv, NEW k \in Conversations, Done(k)
               PROVE  /\ cfg \in Loaded => PickOf(k).model # ""
                      /\ PickOf(k).provider = pickProvider(PickOf(k).model)
    BY DEF Dispatchable
  <2>2. cfg \in Loaded => PickOf(k).model # ""
    BY DEF IInv, TurnHolds
  <2>3. PickOf(k).provider = ProviderOf(PickOf(k).model)
    BY DEF IInv, TurnHolds
  <2>4. ProviderOf(PickOf(k).model) = pickProvider(PickOf(k).model)
    BY DEF ProviderOf, pickProvider, ModelToProvider, OrElse
  <2> QED BY <2>2, <2>3, <2>4
<1> QED BY <1>1, RoutingInvariance, PTL

\* Route, stages 2 and 3, in any configuration: a turn with tools keeps the tier
\* it asks for through the stages that follow, and one with images gets a model
\* that can see, but for a pin.
THEOREM ModifiersHoldHolds == Spec => []ModifiersHold
<1>1. IInv => ModifiersHold
  <2> SUFFICES ASSUME IInv, NEW k \in Conversations, Done(k)
               PROVE  /\ (MetaOf(k).agentic /\ Distinct /\ cfg.complex # "") =>
                            tierRank(PickOf(k).tier) >= tierRank("complex")
                      /\ (MetaOf(k).images /\ modelHasVision(cfg.complex)) =>
                            modelHasVision(PickOf(k).model)
                            \/ "session_pinned" \in PickOf(k).modifiers
    BY DEF ModifiersHold
  <2>1. TurnHolds(k)
    BY DEF IInv
  <2> QED BY <2>1, Ranks DEF TurnHolds
<1> QED BY <1>1, RoutingInvariance, PTL
-----------------------------------------------------------------------------
(* Stage 4: what the places of a list add up to, and the chain as one.       *)
\* What is at some places of a list: each of them once, in their order.
LEMMA AtFacts ==
    ASSUME NEW S, NEW all \in Seq(S), NEW places, places \subseteq DOMAIN all
    PROVE  /\ At(all, places) \in Seq(S)
           /\ \E rank \in Bijection(places, 1 .. Len(At(all, places))) :
                /\ \A n \in places : At(all, places)[rank[n]] = all[n]
                /\ \A m, n \in places : m < n => rank[m] < rank[n]
<1> DEFINE R == {p \in places \X places : p[1] < p[2]}
           rank == [n \in places |-> 1 + Cardinality({m \in places : m < n})]
           c == Cardinality(places)
<1>1. DOMAIN all = 1 .. Len(all) /\ Len(all) \in Nat /\ places \subseteq Nat
  BY LenProperties
<1>2. IsFiniteSet(places)
  <2>1. IsFiniteSet(1 .. Len(all)) /\ places \in SUBSET (1 .. Len(all))
    BY <1>1, FS_Interval
  <2> QED BY <2>1, FS_Subset
<1>3. \A a, b \in places : <<a, b>> \in R <=> a < b
  OBVIOUS
<1>4. \A n \in places : Preceding(R, places, n) = {m \in places : m < n}
  BY <1>3 DEF Preceding
<1>5. Orders(R, places)
  <2> HIDE DEF R
  <2> QED BY <1>1, <1>3 DEF Orders
<1>6. rank = [a \in places |-> 1 + Cardinality(Preceding(R, places, a))]
  BY <1>4
<1> HIDE DEF R, rank
<1>7. /\ rank \in Bijection(places, 1 .. c) /\ c \in Nat
      /\ \A m, n \in places : <<m, n>> \in R => rank[m] < rank[n]
  BY <1>2, <1>5, <1>6, Placed
<1>8. \A n \in places : rank[n] = 1 + Cardinality({m \in places : m < n})
  BY DEF rank
<1> DEFINE pick(k) == CHOOSE n \in places : 1 + Cardinality({m \in places : m < n}) = k
<1>9. ASSUME NEW k \in 1 .. c PROVE pick(k) \in places /\ rank[pick(k)] = k
  <2>1. \E n \in places : rank[n] = k
    BY <1>7 DEF Bijection, Surjection
  <2> QED BY <1>8, <2>1
<1>10. At(all, places) = [k \in 1 .. c |-> all[pick(k)]]
  BY DEF At
<1> HIDE DEF pick
<1>11. At(all, places) \in [1 .. c -> S]
  BY <1>1, <1>9, <1>10, ElementOfSeq
<1>12. At(all, places) \in Seq(S) /\ Len(At(all, places)) = c
  BY <1>7, <1>11
<1>13. ASSUME NEW n \in places PROVE At(all, places)[rank[n]] = all[n]
  <2>1. rank[n] \in 1 .. c
    BY <1>7 DEF Bijection, Injection
  <2>2. pick(rank[n]) \in places /\ rank[pick(rank[n])] = rank[n]
    BY <1>9, <2>1
  <2>3. pick(rank[n]) = n
    BY <1>7, <2>2 DEF Bijection, Injection, IsInjective
  <2> QED BY <1>10, <2>1, <2>3
<1> QED BY <1>3, <1>7, <1>12, <1>13

\* What is in a list is in it somewhere for the first time.
FirstAt(f, l, a) == a \in 1 .. l /\ \A m \in 1 .. a - 1 : f[m] # f[a]

LEMMA FirstOf ==
    ASSUME NEW f, NEW l \in Nat, NEW b \in 1 .. l
    PROVE  \E a : FirstAt(f, l, a) /\ f[a] = f[b]
<1> DEFINE T == {n \in 1 .. l : f[n] = f[b]}
<1>1. T \subseteq 1 .. l /\ b \in T
  OBVIOUS
<1>2. 1 .. l \subseteq Nat
  OBVIOUS
<1>3. PICK a \in T : \A y \in T : a <= y
  <2> HIDE DEF T
  <2> QED BY <1>1, <1>2, LeastOf
<1>4. a \in 1 .. l /\ a <= b /\ f[a] = f[b]
  BY <1>1, <1>3
<1>5. ASSUME NEW m \in 1 .. a - 1 PROVE f[m] # f[a]
  <2>1. m \in 1 .. l /\ ~(a <= m)
    BY <1>4
  <2>2. m \notin T
    BY <1>3, <2>1
  <2> QED BY <1>4, <2>1, <2>2
<1> QED BY <1>4, <1>5 DEF FirstAt

Sound(list, m, chain) ==
    /\ IsInjective(chain)
    /\ ToSet(chain) \cap {"", m} = {}
    /\ ToSet(list) \ {"", m} \subseteq ToSet(chain)
    /\ \A n \in DOMAIN chain, b \in DOMAIN list : chain[n] = list[b] =>
          \A k \in 1 .. n - 1 : \E a \in 1 .. b - 1 : chain[k] = list[a]

\* The chain over any list of fallbacks, with any ladder behind it.
LEMMA AddedSound ==
    ASSUME NEW list \in Seq(PinModels), NEW ladder \in Seq(PinModels), NEW m
    PROVE  LET all == list \o ladder IN Sound(list, m, At(all, Added(all, m)))
<1> DEFINE all == list \o ladder
           kept == Added(all, m)
           chain == At(all, kept)
           l == Len(list)
<1>1. /\ l \in Nat /\ DOMAIN list = 1 .. l
      /\ all \in Seq(PinModels) /\ \A n \in 1 .. l : n \in DOMAIN all /\ all[n] = list[n]
      /\ DOMAIN all \subseteq Nat \ {0}
  <2>1. all \in Seq(PinModels) /\ Len(all) = Len(list) + Len(ladder)
        /\ \A n \in 1 .. l : all[n] = list[n]
    BY ConcatProperties
  <2>2. /\ l \in Nat /\ DOMAIN list = 1 .. l /\ Len(ladder) \in Nat
        /\ DOMAIN all = 1 .. Len(all)
    BY <2>1, LenProperties
  <2> HIDE DEF all, l
  <2>3. l = Len(list)
    BY DEF l
  <2> QED BY <2>1, <2>2, <2>3
<1> HIDE DEF l, all
<1>2. kept \subseteq DOMAIN all
  BY DEF Added
<1>3. /\ chain \in Seq(PinModels)
      /\ \E rank \in Bijection(kept, 1 .. Len(chain)) :
           /\ \A n \in kept : chain[rank[n]] = all[n]
           /\ \A x, y \in kept : x < y => rank[x] < rank[y]
  BY <1>1, <1>2, AtFacts
<1>4. PICK rank \in Bijection(kept, 1 .. Len(chain)) :
           /\ \A n \in kept : chain[rank[n]] = all[n]
           /\ \A x, y \in kept : x < y => rank[x] < rank[y]
  BY <1>3
<1>5. \A x, y \in kept : x # y => all[x] # all[y]
  <2> SUFFICES ASSUME NEW x \in kept, NEW y \in kept, x < y PROVE all[x] # all[y]
    BY <1>1, <1>2
  <2>1. x \in 1 .. y - 1
    BY <1>1, <1>2
  <2> QED BY <2>1 DEF Added
<1>6. \A n \in kept : all[n] \notin {"", m}
  BY DEF Added
<1> HIDE DEF kept, chain
<1>7. DOMAIN chain = 1 .. Len(chain) /\ Len(chain) \in Nat
  BY <1>3, LenProperties
<1>8. \A n \in DOMAIN chain : \E x \in kept : rank[x] = n /\ chain[n] = all[x]
  BY <1>4, <1>7 DEF Bijection, Surjection
<1>9. \A x \in kept : rank[x] \in DOMAIN chain
  BY <1>4, <1>7 DEF Bijection, Surjection
<1>10. IsInjective(chain)
  BY <1>5, <1>8 DEF IsInjective
<1>11. ToSet(chain) \cap {"", m} = {}
  <2>1. \A n \in DOMAIN chain : chain[n] \notin {"", m}
    BY <1>6, <1>8
  <2> QED BY <2>1 DEF ToSet
<1>12. ToSet(list) \ {"", m} \subseteq ToSet(chain)
  <2> SUFFICES ASSUME NEW b \in DOMAIN list, list[b] \notin {"", m}
               PROVE  list[b] \in ToSet(chain)
    BY DEF ToSet
  <2>1. \E a \in kept : all[a] = list[b]
    <3>1. b \in DOMAIN all /\ all[b] = list[b]
      BY <1>1
    <3>2. PICK a \in DOMAIN all : /\ all[a] = all[b]
                                 /\ \A x \in 1 .. a - 1 : all[x] # all[a]
      <4>1. DOMAIN all = 1 .. Len(all) /\ Len(all) \in Nat
        BY <1>1, LenProperties
      <4> DEFINE c == Len(all)
      <4>2. b \in 1 .. c /\ c \in Nat /\ DOMAIN all = 1 .. c
        BY <3>1, <4>1
      <4> HIDE DEF c
      <4>3. \E a : FirstAt(all, c, a) /\ all[a] = all[b]
        BY <4>2, FirstOf
      <4> QED BY <4>2, <4>3 DEF FirstAt
    <3>3. a \in kept
      BY <3>1, <3>2 DEF kept, Added
    <3> QED BY <3>1, <3>2, <3>3
  <2> QED BY <1>4, <1>9, <2>1 DEF ToSet
<1>13. ASSUME NEW n \in DOMAIN chain, NEW b \in DOMAIN list, chain[n] = list[b],
              NEW k \in 1 .. n - 1
       PROVE  \E a \in 1 .. b - 1 : chain[k] = list[a]
  <2>1. PICK x \in kept : rank[x] = n /\ chain[n] = all[x]
    BY <1>8
  <2>2. k \in DOMAIN chain
    BY <1>7
  <2>3. PICK y \in kept : rank[y] = k /\ chain[k] = all[y]
    BY <1>8, <2>2
  <2>4. x \in Nat /\ y \in Nat /\ y >= 1 /\ k < n /\ k \in Int /\ n \in Int
    BY <1>1, <1>2, <1>7 DEF kept
  <2>5. y < x
    BY <1>4, <2>1, <2>3, <2>4
  <2>6. x <= b
    <3>1. all[b] = all[x] /\ b \in 1 .. l
      BY <1>1, <1>13, <2>1
    <3>2. ~(b \in 1 .. x - 1)
      BY <3>1 DEF kept, Added
    <3> QED BY <1>1, <2>4, <3>1, <3>2
  <2>7. y \in 1 .. b - 1 /\ y \in 1 .. l
    BY <1>1, <2>4, <2>5, <2>6
  <2> QED BY <1>1, <2>3, <2>7
<1> QED BY <1>10, <1>11, <1>12, <1>13 DEF Sound, chain, kept, all

LEMMA ChainIsSound ==
    ASSUME cfg \in Configs, NEW m, NEW tier
    PROVE  Sound(cfg.fallback, m, Chain(m, tier))
<1>1. /\ cfg.fallback \in Seq(PinModels)
      /\ cfg.mid \in PinModels /\ cfg.simple \in PinModels
  BY RoutingAssumption
<1>2. Ladder(tier) \in {<<cfg.mid, cfg.simple>>, <<cfg.simple>>, <<>>}
  BY DEF Ladder
<1>3. /\ <<cfg.mid, cfg.simple>> \in Seq(PinModels)
      /\ <<cfg.simple>> \in Seq(PinModels) /\ <<>> \in Seq(PinModels)
  BY <1>1
<1>4. Ladder(tier) \in Seq(PinModels)
  BY <1>2, <1>3
<1> QED BY <1>1, <1>4, AddedSound DEF Chain

LEMMA SoundNow ==
    ChainSound <=> \A k \in Conversations :
                      Done(k) => Sound(cfg.fallback, PickOf(k).model, PickOf(k).chain)
BY DEF ChainSound, Sound

\* Route, stage 4 (buildChain): for every configuration and whatever a turn is
\* decided on, no model is tried twice, none has the empty name, and every
\* configured fallback but the primary is there, in the configured order.
THEOREM ChainSoundHolds == Spec => []ChainSound
<1>1. Init => ChainSound
  BY DEF Init, ChainSound, Done
<1>2. IInv /\ ChainSound /\ [Next]_vars => ChainSound'
  <2> SUFFICES ASSUME IInv, ChainSound, [Next]_vars, NEW j \in Conversations, Done(j)'
               PROVE  Sound(cfg'.fallback, PickOf(j)'.model, PickOf(j)'.chain)
    BY DEF ChainSound, Sound
  <2>1. cfg' = cfg /\ cfg \in Configs
    BY DEF IInv, Typed, Next, Route, vars
  <2>2. CASE turn'[j] = turn[j]
    <3>1. Done(j) /\ PickOf(j)' = PickOf(j)
      BY <2>2 DEF Done, PickOf
    <3> QED BY <2>1, <3>1, SoundNow
  <2>3. CASE turn'[j] # turn[j]
    <3>1. PICK k \in Conversations, ask \in Asks : Route(k, ask)
      BY <2>3 DEF Next, vars
    <3>2. PickOf(j)' = Decision(j, ask)
      BY <2>3, <3>1, RouteFacts
    <3> DEFINE d == Decision(j, ask)
    <3>3. d.chain = Chain(d.model, d.tier)
      BY DEF Decision
    <3> HIDE DEF d
    <3>4. Sound(cfg.fallback, d.model, d.chain)
      BY <2>1, <3>3, ChainIsSound
    <3>5. PickOf(j)' = d
      BY <3>2 DEF d
    <3> QED BY <2>1, <3>4, <3>5
  <2> QED BY <2>2, <2>3
<1> QED BY <1>1, <1>2, RoutingInvariance, PTL DEF Spec
-----------------------------------------------------------------------------
(* The skill router. What the embedding thinks of a prompt is a ranking of   *)
(* the catalog, and what the cascade does rests on the top of it only.       *)

\* How many skills there are, and that each has something to compare with.
LEMMA CatalogFacts ==
    /\ Len(Catalog) \in Nat \ {0} /\ DOMAIN Catalog = 1 .. Len(Catalog)
    /\ \A n \in DOMAIN Catalog : /\ Catalog[n].name \in names
                                 /\ IsFiniteSet(Exemplars(Catalog[n]))
                                 /\ Exemplars(Catalog[n]) # {}
                                 /\ Exemplars(Catalog[n]) \subseteq Texts
<1> DEFINE Skill == [name : names, description : STRING, examples : Seq(STRING)]
<1>1. Catalog \in Seq(Skill) /\ Catalog # <<>>
  BY SkillAssumption
<1>2. Len(Catalog) \in Nat \ {0} /\ DOMAIN Catalog = 1 .. Len(Catalog)
  BY <1>1, LenProperties, EmptySeq
<1>3. ASSUME NEW n \in DOMAIN Catalog
      PROVE  /\ Catalog[n].name \in names
             /\ IsFiniteSet(Exemplars(Catalog[n])) /\ Exemplars(Catalog[n]) # {}
             /\ Exemplars(Catalog[n]) \subseteq Texts
  <2> DEFINE s == Catalog[n]
  <2>1. s \in Skill
    BY <1>1, <1>2, ElementOfSeq
  <2>2. s.name \in names /\ s.examples \in Seq(STRING)
    BY <2>1
  <2> HIDE DEF s
  <2>3. IsFiniteSet(ToSet(s.examples))
    <3> DEFINE f == [k \in 1 .. Len(s.examples) |-> s.examples[k]]
    <3>1. DOMAIN s.examples = 1 .. Len(s.examples) /\ Len(s.examples) \in Nat
      BY <2>2, LenProperties
    <3>2. f \in Surjection(1 .. Len(s.examples), ToSet(s.examples))
      BY <3>1 DEF Surjection, ToSet
    <3>3. \A l \in Nat : IsFiniteSet(1 .. l)
      BY FS_Interval
    <3> HIDE DEF f
    <3>4. IsFiniteSet(1 .. Len(s.examples))
      BY <3>1, <3>3
    <3> QED BY <3>2, <3>4, FS_Surjection
  <2>4. IsFiniteSet(ToSet(s.examples) \ {NoText})
    BY <2>3, FS_RemoveElement
  <2>5. IsFiniteSet(Exemplars(s)) /\ Exemplars(s) # {}
    BY <2>4, FS_Singleton DEF Exemplars
  <2>6. Exemplars(Catalog[n]) \subseteq Texts
    BY DEF Texts
  <2> QED BY <2>2, <2>5, <2>6 DEF s
<1> QED BY <1>2, <1>3

\* What the embedders make of a prompt, and what is said to the cascade.
ScoresTyped == score \in [1 .. Embedders -> [DOMAIN Catalog -> Int]]

LEMMA PromptsAreScores == Prompts \subseteq [DOMAIN Catalog -> Int]
<1> SUFFICES ASSUME NEW sim \in [Texts -> Scores], NEW n \in DOMAIN Catalog
             PROVE  Score(sim, n) \in Int
  BY DEF Prompts
<1> DEFINE X == Exemplars(Catalog[n])
           T == {sim[t] : t \in X}
           f == [t \in X |-> sim[t]]
<1>1. IsFiniteSet(X) /\ X # {} /\ X \subseteq Texts /\ Scores \subseteq Int
  BY CatalogFacts, SkillAssumption
<1> HIDE DEF X
<1>2. f \in Surjection(X, T)
  BY DEF Surjection
<1>3. T \subseteq Int /\ T # {}
  BY <1>1
<1> HIDE DEF T, f
<1>4. IsFiniteSet(T)
  BY <1>1, <1>2, FS_Surjection
<1>5. Max(T) \in Int
  BY <1>3, <1>4, MaxIn
<1> QED BY <1>5 DEF Score, T, X

\* Rank's stable sort: a place for each skill, a skill for each place.
LEMMA RankingFacts ==
    ASSUME ScoresTyped, NEW e \in 1 .. Embedders
    PROVE  /\ Ranking(e) \in Seq(DOMAIN Catalog) /\ Len(Ranking(e)) = Len(Catalog)
           /\ \A p \in DOMAIN Catalog : RankOf(e, Ranking(e)[p]) = p
           /\ \A n \in DOMAIN Catalog : RankOf(e, n) \in DOMAIN Catalog
           /\ \A n, m \in DOMAIN Catalog : RankOf(e, n) = RankOf(e, m) => n = m
<1> DEFINE D == DOMAIN Catalog
           c == Len(Catalog)
           R == {p \in D \X D : Before(e, p[1], p[2])}
           place == [a \in D |-> 1 + Cardinality(Preceding(R, D, a))]
<1>1. c \in Nat /\ D = 1 .. c
  BY CatalogFacts
<1>2. \A n \in D : score[e][n] \in Int /\ n \in Int
  BY <1>1 DEF ScoresTyped
<1>3. \A a, b \in D : <<a, b>> \in R <=> Before(e, a, b)
  OBVIOUS
<1>4. IsFiniteSet(D) /\ Cardinality(D) = c
  <2>1. \A l \in Nat : IsFiniteSet(1 .. l) /\ Cardinality(1 .. l) = l
    BY FS_Interval
  <2> HIDE DEF c, D
  <2> QED BY <1>1, <2>1
<1> HIDE DEF R, c, D
<1>5. Orders(R, D)
  BY <1>2, <1>3 DEF Orders, Before
<1>6. place \in Bijection(D, 1 .. c)
  BY <1>4, <1>5, Placed
<1>7. ASSUME NEW n \in D PROVE place[n] = RankOf(e, n)
  <2>1. Preceding(R, D, n) = {m \in D : Before(e, m, n)}
    BY <1>3 DEF Preceding
  <2> QED BY <2>1 DEF RankOf, D
<1> HIDE DEF place
<1>8. ASSUME NEW p \in D PROVE Ranking(e)[p] \in D /\ RankOf(e, Ranking(e)[p]) = p
  <2>1. \E n \in D : RankOf(e, n) = p
    BY <1>1, <1>6, <1>7 DEF Bijection, Surjection
  <2> QED BY <2>1 DEF Ranking, D
<1>9. Ranking(e) \in [1 .. c -> D]
  BY <1>1, <1>8 DEF Ranking, D
<1>10. Ranking(e) \in Seq(D) /\ Len(Ranking(e)) = c
  BY <1>1, <1>9
<1>11. /\ \A n \in D : RankOf(e, n) \in D
       /\ \A n, m \in D : RankOf(e, n) = RankOf(e, m) => n = m
  BY <1>1, <1>6, <1>7 DEF Bijection, Injection, IsInjective
<1> QED BY <1>8, <1>10, <1>11 DEF D, c

\* Rank's top k, or all of it.
LEMMA RankFacts ==
    ASSUME ScoresTyped, NEW e \in 1 .. Embedders, NEW k \in Nat
    PROVE  /\ Len(Rank(e, k)) = IF k > 0 /\ k < Len(Catalog) THEN k ELSE Len(Catalog)
           /\ Len(Rank(e, k)) \in Nat \ {0}
           /\ DOMAIN Rank(e, k) = 1 .. Len(Rank(e, k))
           /\ \A p \in 1 .. Len(Rank(e, k)) : /\ Rank(e, k)[p] = Ranked(e, Ranking(e)[p])
                                             /\ p \in DOMAIN Catalog
<1> DEFINE c == Len(Catalog)
           all == Ranking(e)
           kept == IF k > 0 /\ k < Len(all) THEN SubSeq(all, 1, k) ELSE all
           l == IF k > 0 /\ k < c THEN k ELSE c
<1>1. c \in Nat \ {0} /\ DOMAIN Catalog = 1 .. c
  BY CatalogFacts
<1>2. all \in Seq(DOMAIN Catalog) /\ Len(all) = c
  BY RankingFacts
<1> HIDE DEF c, all
<1>3. l \in Nat \ {0} /\ l <= c
  BY <1>1
<1>4. kept \in Seq(DOMAIN Catalog) /\ Len(kept) = l /\ \A p \in 1 .. l : kept[p] = all[p]
  <2>1. CASE k > 0 /\ k < c
    <3>1. 1 \in 1 .. c + 1 /\ k \in 0 .. c
      BY <1>1, <2>1
    <3>2. /\ SubSeq(all, 1, k) \in Seq(DOMAIN Catalog)
          /\ Len(SubSeq(all, 1, k)) = (IF 1 <= k THEN k - 1 + 1 ELSE 0)
          /\ \A i \in 1 .. k - 1 + 1 : SubSeq(all, 1, k)[i] = all[1 + i - 1]
      BY <1>2, <2>1, <3>1, SubSeqProperties
    <3>3. \A i \in 1 .. k : SubSeq(all, 1, k)[i] = all[i]
      BY <3>2
    <3> QED BY <1>2, <2>1, <3>2, <3>3
  <2>2. CASE ~(k > 0 /\ k < c)
    BY <1>2, <2>2
  <2> QED BY <2>1, <2>2
<1> HIDE DEF l
<1>5. DOMAIN kept = 1 .. l
  BY <1>4, LenProperties
<1>6. Rank(e, k) = [p \in DOMAIN kept |-> Ranked(e, kept[p])]
  BY DEF Rank, all
<1> HIDE DEF kept
<1>7. Rank(e, k) = [p \in 1 .. l |-> Ranked(e, kept[p])]
  BY <1>5, <1>6
<1>8. DOMAIN Rank(e, k) = 1 .. l /\ Len(Rank(e, k)) = l
  BY <1>3, <1>7
<1>9. \A p \in 1 .. l : Rank(e, k)[p] = Ranked(e, all[p]) /\ p \in DOMAIN Catalog
  BY <1>1, <1>3, <1>4, <1>7
<1> QED BY <1>3, <1>8, <1>9 DEF l, c, all

\* The first of a list of names that was found, and the longest, were found.
LEMMA FirstFound ==
    ASSUME NEW l \in Nat, NEW list \in [1 .. l -> names], NEW found, found \cap ToSet(list) # {}
    PROVE  \E p \in 1 .. l : list[p] \in found /\ First(list, found) = list[p]
<1> DEFINE T == {p \in 1 .. l : list[p] \in found}
           Is(p) == list[p] \in found /\ \A q \in 1 .. p - 1 : list[q] \notin found
<1>1. DOMAIN list = 1 .. l /\ T # {} /\ T \subseteq Nat
  BY DEF ToSet
<1>2. PICK x \in T : \A y \in T : x <= y
  BY <1>1, LeastOf
<1>3. x \in 1 .. l /\ Is(x)
  <2>1. x \in 1 .. l /\ list[x] \in found
    OBVIOUS
  <2>2. ASSUME NEW q \in 1 .. x - 1, list[q] \in found PROVE FALSE
    <3>1. q \in 1 .. l /\ q < x
      BY <2>1
    <3>2. q \in T
      BY <2>2, <3>1
    <3> HIDE DEF T
    <3> QED BY <1>2, <2>1, <3>1, <3>2
  <2> QED BY <2>1, <2>2
<1> DEFINE p == CHOOSE p \in DOMAIN list : Is(p)
<1>4. p \in 1 .. l /\ Is(p)
  <2> HIDE DEF Is, T
  <2> QED BY <1>1, <1>3
<1>5. First(list, found) = list[p]
  BY DEF First
<1> HIDE DEF p
<1> QED BY <1>4, <1>5

LEMMA LongestFound ==
    ASSUME NEW l \in Nat, NEW list \in [1 .. l -> names], NEW found, found \cap ToSet(list) # {}
    PROVE  \E p \in 1 .. l : list[p] \in found /\ Longest(list, found) = list[p]
<1> DEFINE hits == {p \in DOMAIN list : list[p] \in found}
           size == [p \in hits |-> NameLength[list[p]]]
           R == {r \in hits \X hits : \/ size[r[1]] < size[r[2]]
                                      \/ size[r[1]] = size[r[2]] /\ r[2] < r[1]}
           Is(p) == \A q \in hits : \/ NameLength[list[q]] < NameLength[list[p]]
                                    \/ NameLength[list[q]] = NameLength[list[p]] /\ p <= q
<1>1. DOMAIN list = 1 .. l /\ hits # {} /\ hits \subseteq 1 .. l
  BY DEF ToSet
<1>2. IsFiniteSet(hits)
  <2>1. IsFiniteSet(1 .. l)
    BY FS_Interval
  <2> HIDE DEF hits
  <2> QED BY <1>1, <2>1, FS_Subset
<1>3. \A p \in hits : size[p] \in Nat /\ p \in Nat /\ size[p] = NameLength[list[p]]
  BY <1>1, SkillAssumption
<1>4. \A a, b \in hits : <<a, b>> \in R <=> \/ size[a] < size[b]
                                            \/ size[a] = size[b] /\ b < a
  OBVIOUS
<1>5. \A p \in hits : list[p] \in found
  OBVIOUS
<1>6. Longest(list, found) = list[CHOOSE p \in hits : Is(p)]
  BY DEF Longest
<1> HIDE DEF hits, size, R
<1>7. Orders(R, hits)
  BY <1>3, <1>4 DEF Orders
<1>8. PICK x \in hits : \A y \in hits : y = x \/ <<y, x>> \in R
  BY <1>1, <1>2, <1>7, LastOne
<1>9. Is(x)
  <2> SUFFICES ASSUME NEW q \in hits
               PROVE  size[q] < size[x] \/ (size[q] = size[x] /\ x <= q)
    BY <1>3
  <2>1. q = x \/ size[q] < size[x] \/ (size[q] = size[x] /\ x < q)
    BY <1>4, <1>8
  <2> QED BY <1>3, <2>1
<1> DEFINE p == CHOOSE p \in hits : Is(p)
<1>10. p \in hits
  <2> HIDE DEF Is
  <2> QED BY <1>9
<1> HIDE DEF p
<1> QED BY <1>1, <1>5, <1>6, <1>10 DEF p

\* So the model chooses what it has named in some way, from the list it was
\* shown, or nothing.
LEMMA ParseNames ==
    ASSUME NEW reply, NEW l \in Nat, NEW list \in [1 .. l -> names]
    PROVE  \/ parseSkill(reply, list) = FellThrough(0, 0)
           \/ \E p \in 1 .. l, sure \in Nat :
                 /\ parseSkill(reply, list) = Chosen(list[p], sure, 0)
                 /\ list[p] \in reply.same \cup reply.folded \cup reply.within
<1> DEFINE listed == ToSet(list)
<1>1. CASE reply.same \cap listed # {}
  <2>0. reply.same \cap ToSet(list) # {}
    BY <1>1
  <2>1. PICK p \in 1 .. l : list[p] \in reply.same /\ First(list, reply.same) = list[p]
    BY <2>0, FirstFound
  <2>2. parseSkill(reply, list) = Chosen(list[p], 100, 0)
    BY <1>1, <2>1 DEF parseSkill
  <2> QED BY <2>1, <2>2
<1>2. CASE reply.same \cap listed = {} /\ reply.folded \cap listed # {}
  <2>0. reply.folded \cap ToSet(list) # {}
    BY <1>2
  <2>1. PICK p \in 1 .. l : list[p] \in reply.folded /\ First(list, reply.folded) = list[p]
    BY <2>0, FirstFound
  <2>2. parseSkill(reply, list) = Chosen(list[p], 90, 0)
    BY <1>2, <2>1 DEF parseSkill
  <2> QED BY <2>1, <2>2
<1>3. CASE /\ reply.same \cap listed = {} /\ reply.folded \cap listed = {}
           /\ reply.within \cap listed # {}
  <2>0. reply.within \cap ToSet(list) # {}
    BY <1>3
  <2>1. PICK p \in 1 .. l : list[p] \in reply.within /\ Longest(list, reply.within) = list[p]
    BY <2>0, LongestFound
  <2>2. parseSkill(reply, list) = Chosen(list[p], 70, 0)
    BY <1>3, <2>1 DEF parseSkill
  <2> QED BY <2>1, <2>2
<1>4. CASE /\ reply.same \cap listed = {} /\ reply.folded \cap listed = {}
           /\ reply.within \cap listed = {}
  BY <1>4 DEF parseSkill
<1> QED BY <1>1, <1>2, <1>3, <1>4

\* The top of the cascade's ranking is that of the whole one, runner-up included
\* unless there is room for one skill only.
LEMMA TopFacts ==
    ASSUME ScoresTyped
    PROVE  /\ Rank(1, ShortlistK)[1] = Rank(1, 0)[1]
           /\ ShortlistK # 1 => Margin(Rank(1, ShortlistK)) = Margin(Rank(1, 0))
<1> DEFINE few == Rank(1, ShortlistK)
           full == Rank(1, 0)
           c == Len(Catalog)
           k == ShortlistK
           l == Len(few)
           m == Len(full)
<1>1. 1 \in 1 .. Embedders /\ k \in Nat \ {0} /\ 0 \in Nat
  BY SkillAssumption
<1>2. c \in Nat \ {0}
  BY CatalogFacts
<1>3. /\ l = IF k > 0 /\ k < c THEN k ELSE c
      /\ \A p \in 1 .. l : few[p] = Ranked(1, Ranking(1)[p])
  BY <1>1, RankFacts
<1>4. /\ m = IF 0 > 0 /\ 0 < c THEN 0 ELSE c
      /\ \A p \in 1 .. m : full[p] = Ranked(1, Ranking(1)[p])
  BY <1>1, RankFacts
<1>5. /\ Margin(few) = IF l > 1 THEN few[1].score - few[2].score ELSE 0
      /\ Margin(full) = IF m > 1 THEN full[1].score - full[2].score ELSE 0
  BY DEF Margin
<1> HIDE DEF few, full, c, k, l, m
<1>6. 1 \in 1 .. l /\ 1 \in 1 .. m
  BY <1>1, <1>2, <1>3, <1>4
<1>7. few[1] = full[1]
  BY <1>3, <1>4, <1>6
<1>8. ASSUME k # 1 PROVE Margin(few) = Margin(full)
  <2>1. l > 1 <=> m > 1
    BY <1>1, <1>2, <1>3, <1>4, <1>8
  <2>2. CASE l > 1
    <3>1. l \in Nat /\ m \in Nat
      BY <1>1, <1>2, <1>3, <1>4
    <3>2. 2 \in 1 .. l /\ 2 \in 1 .. m
      BY <2>1, <2>2, <3>1
    <3>3. few[2] = full[2]
      BY <1>3, <1>4, <3>2
    <3> QED BY <1>5, <1>7, <2>1, <2>2, <3>3
  <2>3. CASE ~(l > 1)
    BY <1>5, <2>1, <2>3
  <2> QED BY <2>2, <2>3
<1> QED BY <1>7, <1>8 DEF few, full, k

\* A skill that fewer than ShortlistK others are closer than.
AmongClosest(name) ==
    \E n \in DOMAIN Catalog :
        /\ Catalog[n].name = name
        /\ Cardinality({m \in DOMAIN Catalog : score[1][m] > score[1][n]}) < ShortlistK

\* The p-th skill on the list that the model is shown has fewer than p closer.
LEMMA ShortlistFacts ==
    ASSUME ScoresTyped, NEW l, l = Len(Rank(1, ShortlistK)),
           NEW list, list = Shortlist(Rank(1, ShortlistK))
    PROVE  /\ l \in Nat /\ list \in [1 .. l -> names]
           /\ \A p \in 1 .. l : AmongClosest(list[p])
<1> DEFINE k == ShortlistK
           c == Len(Catalog)
           at(p) == Ranking(1)[p]
<1>1. 1 \in 1 .. Embedders /\ k \in Nat \ {0}
  BY SkillAssumption
<1>2. /\ l = IF k > 0 /\ k < c THEN k ELSE c
      /\ DOMAIN Rank(1, k) = 1 .. l
      /\ \A p \in 1 .. l : Rank(1, k)[p] = Ranked(1, at(p)) /\ p \in DOMAIN Catalog
  BY <1>1, RankFacts
<1>3. /\ Ranking(1) \in Seq(DOMAIN Catalog) /\ Len(Ranking(1)) = c
      /\ \A p \in DOMAIN Catalog : RankOf(1, at(p)) = p
  BY <1>1, RankingFacts
<1>4. c \in Nat \ {0} /\ DOMAIN Catalog = 1 .. c
  BY CatalogFacts
<1>5. l \in Nat /\ l <= k
  <2> HIDE DEF k, c
  <2> QED BY <1>1, <1>2, <1>4
<1>6. \A p \in 1 .. l : at(p) \in DOMAIN Catalog
  BY <1>2, <1>3, <1>4, ElementOfSeq
<1>7. list = [p \in 1 .. l |-> Catalog[at(p)].name]
  <2> DEFINE r == Rank(1, k)
  <2>1. list = [p \in DOMAIN r |-> r[p].skill]
    BY DEF Shortlist
  <2>2. DOMAIN r = 1 .. l /\ \A p \in 1 .. l : r[p] = Ranked(1, at(p))
    BY <1>2
  <2> HIDE DEF r
  <2>3. \A p \in 1 .. l : r[p].skill = Catalog[at(p)].name
    BY <2>2 DEF Ranked
  <2> QED BY <2>1, <2>2, <2>3
<1>8. list \in [1 .. l -> names]
  BY <1>6, <1>7, CatalogFacts
<1>9. ASSUME NEW p \in 1 .. l
      PROVE  Cardinality({m \in DOMAIN Catalog : score[1][m] > score[1][at(p)]}) < k
  <2> DEFINE D == DOMAIN Catalog
             ahead == {m \in D : Before(1, m, at(p))}
             closer == {m \in D : score[1][m] > score[1][at(p)]}
             a == Cardinality(ahead)
             b == Cardinality(closer)
  <2>1. IsFiniteSet(ahead)
    <3>1. IsFiniteSet(1 .. c)
      BY <1>4, FS_Interval
    <3>2. ahead \subseteq 1 .. c
      BY <1>4
    <3> HIDE DEF ahead
    <3> QED BY <3>1, <3>2, FS_Subset
  <2>2. closer \subseteq ahead
    BY DEF Before
  <2>3. a \in Nat /\ b \in Nat /\ b <= a
    <3> HIDE DEF closer, ahead
    <3> QED BY <2>1, <2>2, FS_Subset, FS_CardinalityType
  <2>4. 1 + a = p
    BY <1>2, <1>3 DEF RankOf
  <2> HIDE DEF a, b, k
  <2>5. b < k
    BY <1>1, <1>5, <2>3, <2>4
  <2> QED BY <2>5 DEF b, k
<1>10. ASSUME NEW p \in 1 .. l PROVE AmongClosest(list[p])
  <2>1. list[p] = Catalog[at(p)].name /\ at(p) \in DOMAIN Catalog
    BY <1>6, <1>7
  <2> HIDE DEF at
  <2> QED BY <1>9, <2>1 DEF AmongClosest
<1> QED BY <1>5, <1>8, <1>10

\* What the cascade makes of a reply is for as long as the prompt is.
LEMMA Stays ==
    ASSUME score' = score
    PROVE  /\ \A reply : Cascade(reply)' = Cascade(reply)
           /\ Narrow(Rank(1, ShortlistK))' <=> Narrow(Rank(1, ShortlistK))
<1>1. \A e, a, b : Before(e, a, b)' <=> Before(e, a, b)
  BY DEF Before
<1>2. ASSUME NEW e, NEW n PROVE RankOf(e, n)' = RankOf(e, n)
  <2>1. {m \in DOMAIN Catalog : Before(e, m, n)'} = {m \in DOMAIN Catalog : Before(e, m, n)}
    BY <1>1
  <2> QED BY <2>1 DEF RankOf
<1>3. ASSUME NEW e PROVE Ranking(e)' = Ranking(e)
  <2>1. ASSUME NEW p \in DOMAIN Catalog
        PROVE  (CHOOSE n \in DOMAIN Catalog : RankOf(e, n)' = p)
               = CHOOSE n \in DOMAIN Catalog : RankOf(e, n) = p
    BY <1>2
  <2> QED BY <2>1 DEF Ranking
<1>4. \A e, n : Ranked(e, n)' = Ranked(e, n)
  BY DEF Ranked
<1>5. ASSUME NEW e, NEW k PROVE Rank(e, k)' = Rank(e, k)
  BY <1>3, <1>4 DEF Rank
<1>6. Rank(1, ShortlistK)' = Rank(1, ShortlistK)
  BY <1>5
<1>7. ASSUME NEW reply PROVE Cascade(reply)' = Cascade(reply)
  BY <1>6 DEF Cascade, Narrow
<1>8. Narrow(Rank(1, ShortlistK))' <=> Narrow(Rank(1, ShortlistK))
  BY <1>6 DEF Narrow
<1> QED BY <1>7, <1>8

\* A decision of the cascade is what it makes of the reply it has heard, and it
\* hears one in doubt only.
CascadeSays ==
    decision.by = "cascade" =>
        /\ decision = [Cascade(heard) EXCEPT !.by = "cascade"]
        /\ heard # silence => Narrow(Rank(1, ShortlistK))

CascadeInv == ScoresTyped /\ CascadeSays

\* Every decision has a place for the matcher's name, so none is taken for
\* another's.
LEMMA ReturnsSay ==
    ASSUME NEW by, NEW d, Returns(by, d), "by" \in DOMAIN d
    PROVE  decision'.by = by /\ decision'.skill = d.skill
  BY DEF Returns

LEMMA InitCascadeInv == MatcherInit => CascadeInv
<1> SUFFICES ASSUME MatcherInit PROVE CascadeInv
  OBVIOUS
<1>1. ScoresTyped
  BY PromptsAreScores DEF MatcherInit, ScoresTyped
<1>2. decision.by # "cascade"
  BY DEF MatcherInit, FellThrough
<1> QED BY <1>1, <1>2 DEF CascadeInv, CascadeSays

LEMMA NextCascadeInv == CascadeInv /\ [MatcherNext]_matcherVars => CascadeInv'
<1> SUFFICES ASSUME CascadeInv, [MatcherNext]_matcherVars PROVE CascadeInv'
  OBVIOUS
<1>1. score' = score
  BY DEF matcherVars, MatcherNext, SemanticRoute, FusedRoute, EmbedFails, Errors, Take,
         CascadeRoute, RouterRoute, Returns
<1>2. ScoresTyped'
  BY <1>1 DEF CascadeInv, ScoresTyped
<1>3. decision'.by # "cascade" => CascadeInv'
  BY <1>2 DEF CascadeInv, CascadeSays
<1>4. CASE SemanticRoute
  <2>1. "by" \in DOMAIN Semantic(1)
    BY DEF Semantic, FellThrough, Chosen
  <2> QED BY <1>3, <1>4, <2>1, ReturnsSay DEF SemanticRoute
<1>5. CASE FusedRoute
  <2>1. PICK d \in Fused : Returns("fused", d)
    BY <1>5 DEF FusedRoute
  <2>2. d = FellThrough(0, 0) \/ \E skill, sum, lead : d = Chosen(skill, sum, lead)
    BY <2>1 DEF Fused
  <2>3. "by" \in DOMAIN d
    <3>1. "by" \in DOMAIN FellThrough(0, 0)
      BY DEF FellThrough
    <3>2. \A skill, sum, lead : "by" \in DOMAIN Chosen(skill, sum, lead)
      BY DEF Chosen
    <3> QED BY <2>2, <3>1, <3>2
  <2> QED BY <1>3, <2>1, <2>3, ReturnsSay
<1>6. CASE EmbedFails \/ Take
  <2>1. \/ decision' = FellThrough(0, 0)
        \/ decision' = [FellThrough(0, 0) EXCEPT !.by = "error"]
    BY <1>6 DEF EmbedFails, Errors, Take
  <2>2. /\ FellThrough(0, 0).by = "none"
        /\ [FellThrough(0, 0) EXCEPT !.by = "error"].by = "error"
    BY DEF FellThrough
  <2> QED BY <1>3, <2>1, <2>2
<1>7. ASSUME NEW reply, RouterRoute(reply) PROVE CascadeInv'
  <2> DEFINE d == parseSkill(reply, [n \in DOMAIN Catalog |-> Catalog[n].name])
  <2>1. "by" \in DOMAIN d
    BY DEF parseSkill, FellThrough, Chosen
  <2>2. CASE reply # silence
    BY <1>3, <1>7, <2>1, <2>2, ReturnsSay DEF RouterRoute
  <2>3. CASE reply = silence
    BY <1>3, <1>7, <2>3 DEF RouterRoute, Errors, FellThrough
  <2> QED BY <2>2, <2>3
<1>8. ASSUME NEW reply, CascadeRoute(reply) PROVE CascadeInv'
  <2>1. /\ decision' = [Cascade(reply) EXCEPT !.by = "cascade"] /\ heard' = reply
        /\ reply # silence => Narrow(Rank(1, ShortlistK))
    BY <1>8 DEF CascadeRoute, Returns
  <2>2. /\ \A r : Cascade(r)' = Cascade(r)
        /\ Narrow(Rank(1, ShortlistK))' <=> Narrow(Rank(1, ShortlistK))
    BY <1>1, Stays
  <2>3. Cascade(heard)' = Cascade(reply)
    BY <2>1, <2>2
  <2> QED BY <1>2, <2>1, <2>2, <2>3 DEF CascadeInv, CascadeSays
<1>9. CASE UNCHANGED matcherVars
  <2>1. decision' = decision /\ heard' = heard
    BY <1>9 DEF matcherVars
  <2>2. /\ \A r : Cascade(r)' = Cascade(r)
        /\ Narrow(Rank(1, ShortlistK))' <=> Narrow(Rank(1, ShortlistK))
    BY <1>1, Stays
  <2>3. Cascade(heard)' = Cascade(heard)
    BY <2>1, <2>2
  <2> QED BY <1>2, <2>1, <2>2, <2>3 DEF CascadeInv, CascadeSays
<1> QED BY <1>4, <1>5, <1>6, <1>7, <1>8, <1>9 DEF MatcherNext

\* The cascade's invariant holds throughout, for every catalog and prompt.
THEOREM CascadeInvariance == MatcherSpec => []CascadeInv
<1>1. CascadeInv /\ [MatcherNext]_matcherVars => CascadeInv'
  BY NextCascadeInv
<1> QED BY <1>1, InitCascadeInv, PTL DEF MatcherSpec

\* What Cascade falls back on is what Semantic returns, but for the margin of a
\* shortlist of one.
LEMMA FallsBack ==
    ASSUME ScoresTyped
    PROVE  LET few == Rank(1, ShortlistK)
           IN  /\ few[1].score < MinScore =>
                     Semantic(1) = FellThrough(few[1].score, Margin(Rank(1, 0)))
               /\ ~(few[1].score < MinScore) =>
                     Semantic(1) = Chosen(few[1].skill, few[1].score, Margin(Rank(1, 0)))
               /\ ShortlistK # 1 => Margin(few) = Margin(Rank(1, 0))
<1> DEFINE few == Rank(1, ShortlistK)
           full == Rank(1, 0)
<1>1. few[1] = full[1] /\ (ShortlistK # 1 => Margin(few) = Margin(full))
  BY TopFacts
<1>2. Semantic(1) = IF full[1].score < MinScore
                    THEN FellThrough(full[1].score, Margin(full))
                    ELSE Chosen(full[1].skill, full[1].score, Margin(full))
  BY DEF Semantic
<1> HIDE DEF few, full
<1>3. /\ few[1].score < MinScore => Semantic(1) = FellThrough(few[1].score, Margin(full))
      /\ ~(few[1].score < MinScore) =>
             Semantic(1) = Chosen(few[1].skill, few[1].score, Margin(full))
  BY <1>1, <1>2
<1> QED BY <1>1, <1>3 DEF few, full

\* A decision, by its fields.
Decided(by, skill, confidence, margin, fell) ==
    [by |-> by, skill |-> skill, confidence |-> confidence, margin |-> margin, fell |-> fell]

Labelled(d, by) == [d EXCEPT !.by = by]
Marked(d, margin) == [d EXCEPT !.margin = margin]
Relabelled(d, by, margin) == [d EXCEPT !.by = by, !.margin = margin]

LEMMA DecidedFacts ==
    ASSUME NEW by, NEW skill, NEW sure, NEW margin, NEW fell, NEW a, NEW b
    PROVE  LET d == Decided(by, skill, sure, margin, fell)
           IN  /\ d.skill = skill /\ d.margin = margin /\ d.fell = fell
               /\ Labelled(d, a) = Decided(a, skill, sure, margin, fell)
               /\ Marked(d, b) = Decided(by, skill, sure, b, fell)
               /\ Relabelled(d, a, b) = Decided(a, skill, sure, b, fell)
<1> DEFINE d == Decided(by, skill, sure, margin, fell)
<1>1. d.skill = skill /\ d.margin = margin /\ d.fell = fell
  BY DEF Decided
<1>2. Labelled(d, a) = Decided(a, skill, sure, margin, fell)
  BY DEF Decided, Labelled
<1>3. Marked(d, b) = Decided(by, skill, sure, b, fell)
  BY DEF Decided, Marked
<1>4. Relabelled(d, a, b) = Decided(a, skill, sure, b, fell)
  <2>1. Relabelled(d, a, b) =
            [x \in {"by", "skill", "confidence", "margin", "fell"} |->
                IF x = "margin" THEN b ELSE IF x = "by" THEN a ELSE d[x]]
    BY DEF Decided, Relabelled
  <2> QED BY <2>1 DEF Decided
<1> QED BY <1>1, <1>2, <1>3, <1>4

LEMMA KindsDecided ==
    /\ \A c, m : FellThrough(c, m) = Decided("none", "", c, m, TRUE)
    /\ \A s, c, m : Chosen(s, c, m) = Decided("none", s, c, m, FALSE)
  BY DEF FellThrough, Chosen, Decided

LEMMA AgreesNow == CascadeInv => CascadeAgrees
<1> SUFFICES ASSUME CascadeInv, decision.by = "cascade", heard = silence
             PROVE  \/ [decision EXCEPT !.by = "none"] = Semantic(1)
                    \/ /\ ShortlistK = 1
                       /\ [decision EXCEPT !.by = "none", !.margin = 0]
                              = [Semantic(1) EXCEPT !.margin = 0]
  BY DEF CascadeAgrees
<1> DEFINE few == Rank(1, ShortlistK)
           m == Margin(few)
           w == Margin(Rank(1, 0))
           skill == few[1].skill
           high == few[1].score
<1>1. decision = [Cascade(silence) EXCEPT !.by = "cascade"] /\ ScoresTyped
  BY DEF CascadeInv, CascadeSays
<1>2. Cascade(silence) = IF high < MinScore THEN FellThrough(high, m) ELSE Chosen(skill, high, m)
  BY DEF Cascade
<1>3. /\ high < MinScore => Semantic(1) = FellThrough(high, w)
      /\ ~(high < MinScore) => Semantic(1) = Chosen(skill, high, w)
      /\ ShortlistK # 1 => m = w
  BY <1>1, FallsBack
<1> HIDE DEF m, w, skill, high
<1>4. PICK name, fell : /\ Cascade(silence) = Decided("none", name, high, m, fell)
                        /\ Semantic(1) = Decided("none", name, high, w, fell)
  BY <1>2, <1>3, KindsDecided
<1>5. decision = Decided("cascade", name, high, m, fell)
  <2>1. decision = Labelled(Cascade(silence), "cascade")
    BY <1>1 DEF Labelled
  <2> QED BY <1>4, <2>1, DecidedFacts
<1>6. CASE m = w
  <2>1. Labelled(decision, "none") = Decided("none", name, high, m, fell)
    BY <1>5, DecidedFacts
  <2> QED BY <1>4, <1>6, <2>1 DEF Labelled
<1>7. CASE m # w
  <2>1. Relabelled(decision, "none", 0) = Decided("none", name, high, 0, fell)
    BY <1>5, DecidedFacts
  <2>2. Marked(Semantic(1), 0) = Decided("none", name, high, 0, fell)
    BY <1>4, DecidedFacts
  <2> QED BY <1>3, <1>7, <2>1, <2>2 DEF Relabelled, Marked
<1> QED BY <1>6, <1>7

\* CascadeAgrees: as long as the language model is not heard, the cascade
\* decides as the embedding alone does, though it ranks the top of the catalog
\* only: for every catalog, prompt, threshold and length of the shortlist.
THEOREM CascadeAgreesHolds == MatcherSpec => []CascadeAgrees
  BY CascadeInvariance, AgreesNow, PTL

LEMMA FellFacts ==
    ASSUME NEW c, NEW x
    PROVE  /\ FellThrough(c, x).skill = "" /\ FellThrough(c, x).fell = TRUE
           /\ Labelled(FellThrough(c, x), "cascade").skill = ""
           /\ Labelled(FellThrough(c, x), "cascade").fell = TRUE
<1>1. FellThrough(c, x).skill = "" /\ FellThrough(c, x).fell = TRUE
  BY DEF FellThrough
<1>2. Labelled(FellThrough(c, x), "cascade").skill = ""
  BY DEF FellThrough, Labelled
<1>3. Labelled(FellThrough(c, x), "cascade").fell = TRUE
  BY DEF FellThrough, Labelled
<1> QED BY <1>1, <1>2, <1>3

LEMMA ChosenSkill ==
    ASSUME NEW n, NEW c, NEW x
    PROVE  /\ Chosen(n, c, x).skill = n /\ Chosen(n, c, x).margin = x
           /\ Labelled(Chosen(n, c, x), "cascade").skill = n
<1>1. Chosen(n, c, x).skill = n /\ Chosen(n, c, x).margin = x
  BY DEF Chosen
<1>2. Labelled(Chosen(n, c, x), "cascade").skill = n
  BY DEF Chosen, Labelled
<1> QED BY <1>1, <1>2

LEMMA ChosenStands ==
    ASSUME NEW n, NEW c, NEW x
    PROVE  ~Chosen(n, c, x).fell
  BY DEF Chosen

LEMMA MarkedFacts ==
    ASSUME NEW n, NEW c, NEW x, NEW y
    PROVE  Marked(Chosen(n, c, x), y) = Chosen(n, c, y)
<1> DEFINE f == FALSE
<1>1. /\ Chosen(n, c, x) = Decided("none", n, c, x, f)
      /\ Chosen(n, c, y) = Decided("none", n, c, y, f)
  BY KindsDecided
<1> HIDE DEF f
<1> QED BY <1>1, DecidedFacts

LEMMA OverruledNow == CascadeInv => OverruledInDoubt
<1> DEFINE s == Semantic(1)
           few == Rank(1, ShortlistK)
           m == Margin(few)
           w == Margin(Rank(1, 0))
           skill == few[1].skill
           high == few[1].score
           list == Shortlist(few)
           l == Len(few)
           d == parseSkill(heard, list)
           named == heard.same \cup heard.folded \cup heard.within
<1> SUFFICES ASSUME CascadeInv, decision.by = "cascade", decision.skill # s.skill
             PROVE  /\ heard # silence
                    /\ s.fell \/ s.margin < MinMargin \/ ShortlistK = 1
                    /\ ~decision.fell => decision.skill \in named /\ AmongClosest(decision.skill)
  BY DEF OverruledInDoubt, AmongClosest
<1>1. /\ decision = Labelled(Cascade(heard), "cascade") /\ ScoresTyped
      /\ heard # silence => high >= MinScore /\ m < MinMargin
  BY DEF CascadeInv, CascadeSays, Narrow, Labelled
<1>2. /\ high < MinScore => s = FellThrough(high, w)
      /\ ~(high < MinScore) => s = Chosen(skill, high, w)
      /\ ShortlistK # 1 => m = w
  BY <1>1, FallsBack
<1>3. Cascade(heard) = IF high < MinScore THEN FellThrough(high, m)
                       ELSE IF ~Narrow(few) \/ heard = silence THEN Chosen(skill, high, m)
                       ELSE IF d.fell THEN d ELSE Marked(d, m)
  BY DEF Cascade, Marked
<1>4. /\ l \in Nat /\ list \in [1 .. l -> names]
      /\ \A p \in 1 .. l : AmongClosest(list[p])
  BY <1>1, ShortlistFacts
<1>5. \/ d = FellThrough(0, 0)
      \/ \E p \in 1 .. l, sure \in Nat : d = Chosen(list[p], sure, 0) /\ list[p] \in named
  BY <1>4, ParseNames
<1> HIDE DEF s, few, m, w, skill, high, list, l, d, named
<1>6. ~(high < MinScore)
  <2>1. /\ FellThrough(high, w).skill = ""
        /\ Labelled(FellThrough(high, m), "cascade").skill = ""
    BY FellFacts
  <2> QED BY <1>1, <1>2, <1>3, <2>1
<1>7. heard # silence
  <2>1. /\ Chosen(skill, high, w).skill = skill
        /\ Labelled(Chosen(skill, high, m), "cascade").skill = skill
    BY ChosenSkill, ChosenStands
  <2> QED BY <1>1, <1>2, <1>3, <1>6, <2>1
<1>8. s.margin = w /\ s.skill = skill
  BY <1>2, <1>6, ChosenSkill, ChosenStands
<1>9. s.margin < MinMargin \/ ShortlistK = 1
  BY <1>1, <1>2, <1>7, <1>8
<1>10. ~decision.fell => decision.skill \in named /\ AmongClosest(decision.skill)
  <2>1. Cascade(heard) = IF d.fell THEN d ELSE Marked(d, m)
    <3>1. Narrow(few)
      BY <1>7 DEF CascadeInv, CascadeSays, few
    <3> QED BY <1>3, <1>6, <1>7, <3>1
  <2>2. CASE d = FellThrough(0, 0)
    BY <1>1, <2>1, <2>2, FellFacts
  <2>3. ASSUME NEW p \in 1 .. l, NEW sure \in Nat, d = Chosen(list[p], sure, 0),
               list[p] \in named
        PROVE  decision.skill \in named /\ AmongClosest(decision.skill)
    <3>1. Cascade(heard) = Chosen(list[p], sure, m)
      <4>1. /\ ~Chosen(list[p], sure, 0).fell
            /\ Marked(Chosen(list[p], sure, 0), m) = Chosen(list[p], sure, m)
        BY ChosenSkill, ChosenStands, MarkedFacts
      <4> QED BY <2>1, <2>3, <4>1
    <3>2. decision.skill = list[p]
      <4>1. Labelled(Chosen(list[p], sure, m), "cascade").skill = list[p]
        BY ChosenSkill, ChosenStands
      <4> QED BY <1>1, <3>1, <4>1
    <3> QED BY <1>4, <2>3, <3>2
  <2> QED BY <1>5, <2>2, <2>3
<1> QED BY <1>7, <1>8, <1>9, <1>10

\* OverruledInDoubt: the model overrules the embedding in doubt only, and for
\* one of the closest skills only, whatever it says and whatever the catalog.
THEOREM OverruledInDoubtHolds == MatcherSpec => []OverruledInDoubt
  BY CascadeInvariance, OverruledNow, PTL

-----------------------------------------------------------------------------
(* The fusion of rankings.                                                   *)

\* Of two exact quotients of one number, that by the greater is the smaller.
LEMMA Quotients ==
    ASSUME NEW d \in Nat \ {0}, NEW a \in Nat \ {0}, NEW b \in Nat \ {0},
           d % a = 0, d % b = 0, a < b
    PROVE  d \div a \in Nat /\ d \div b \in Nat /\ d \div b < d \div a
<1> DEFINE x == d \div a
           y == d \div b
<1>1. x \in Nat /\ y \in Nat /\ x * a = d /\ y * b = d
  OBVIOUS
<1> HIDE DEF x, y
<1>2. y # 0
  BY <1>1
<1>3. y * a < y * b
  BY <1>1, <1>2
<1>4. ASSUME x <= y PROVE x * a <= y * a
  BY <1>1, <1>4
<1>5. y * a \in Int
  BY <1>1
<1>6. ~(x <= y)
  BY <1>1, <1>3, <1>4, <1>5
<1> QED BY <1>1, <1>6 DEF x, y

\* A rank counts for less than every rank before it.
LEMMA WeightsFall ==
    ASSUME NEW p \in DOMAIN Catalog, NEW q \in DOMAIN Catalog
    PROVE  Weight(p - 1) \in Nat /\ (p < q => Weight(q - 1) < Weight(p - 1))
<1> DEFINE a == RRFK + (p - 1)
           b == RRFK + (q - 1)
<1>1. DOMAIN Catalog = 1 .. Len(Catalog) /\ Len(Catalog) \in Nat
  BY CatalogFacts
<1>2. p \in Nat \ {0} /\ q \in Nat \ {0} /\ RRFK \in Nat \ {0}
  BY <1>1, SkillAssumption
<1>3. a = RRFK + p - 1 /\ b = RRFK + q - 1 /\ a \in Nat \ {0} /\ b \in Nat \ {0} /\ (p < q => a < b)
  BY <1>2
<1>4. Denominator \in Nat \ {0} /\ Denominator % a = 0 /\ Denominator % b = 0
  BY <1>3, SkillAssumption
<1>5. Weight(p - 1) = Denominator \div a /\ Weight(q - 1) = Denominator \div b
  BY DEF Weight
<1> HIDE DEF a, b
<1>6. Denominator \div a \in Nat
  BY <1>3, <1>4
<1> QED BY <1>3, <1>4, <1>5, <1>6, Quotients

LEMMA FusionTyped == ASSUME ScoresTyped, NEW n \in DOMAIN Catalog PROVE Fusion(n) \in Int
<1> DEFINE E == 1 .. Embedders
           f == [e \in E |-> Weight(RankOf(e, n) - 1)]
<1>1. IsFiniteSet(E)
  BY SkillAssumption, FS_Interval
<1>2. \A e \in E : f[e] \in Int
  BY RankingFacts, WeightsFall
<1>3. Fusion(n) = SumFunctionOnSet(f, E)
  BY DEF Fusion, SumFunction
<1> HIDE DEF f, E
<1> QED BY <1>1, <1>2, <1>3, SumTyped

\* Of two skills, one that no embedder puts before the other has the smaller sum.
LEMMA FusionFollows ==
    ASSUME ScoresTyped, NEW n \in DOMAIN Catalog, NEW m \in DOMAIN Catalog, n # m,
           \A e \in 1 .. Embedders : ~(RankOf(e, n) < RankOf(e, m))
    PROVE  ~(Fusion(m) <= Fusion(n))
<1> DEFINE E == 1 .. Embedders
           f == [e \in E |-> Weight(RankOf(e, n) - 1)]
           g == [e \in E |-> Weight(RankOf(e, m) - 1)]
<1>1. IsFiniteSet(E) /\ 1 \in E
  BY SkillAssumption, FS_Interval
<1>2. ASSUME NEW e \in E PROVE f[e] \in Nat /\ g[e] \in Nat /\ f[e] < g[e]
  <2>1. /\ RankOf(e, n) \in DOMAIN Catalog /\ RankOf(e, m) \in DOMAIN Catalog
        /\ RankOf(e, n) # RankOf(e, m)
    BY RankingFacts
  <2>2. RankOf(e, n) \in Int /\ RankOf(e, m) \in Int
    BY <2>1, CatalogFacts
  <2>3. RankOf(e, m) < RankOf(e, n)
    BY <2>1, <2>2
  <2> QED BY <2>1, <2>3, WeightsFall
<1>3. SumFunction(f) = SumFunctionOnSet(f, E) /\ SumFunction(g) = SumFunctionOnSet(g, E)
  BY DEF SumFunction
<1>4. Fusion(n) = SumFunction(f) /\ Fusion(m) = SumFunction(g)
  BY DEF Fusion
<1> HIDE DEF f, g, E
<1>5. \A e \in E : f[e] \in Int /\ g[e] \in Int /\ f[e] <= g[e]
  BY <1>2
<1>6. SumFunctionOnSet(f, E) < SumFunctionOnSet(g, E)
  BY <1>1, <1>2, <1>5, SumGrows
<1>7. SumFunctionOnSet(f, E) \in Int /\ SumFunctionOnSet(g, E) \in Int
  <2>1. (\A e \in E : f[e] \in Int) /\ \A e \in E : g[e] \in Int
    BY <1>5
  <2> QED BY <1>1, <2>1, SumTyped
<1> QED BY <1>3, <1>4, <1>6, <1>7

\* What FusedSemantic decides on has the greatest sum.
FusedSays ==
    (decision.by = "fused" /\ ~decision.fell) =>
        \E n \in DOMAIN Catalog : /\ decision.skill = Catalog[n].name
                                  /\ \A m \in DOMAIN Catalog \ {n} : Fusion(m) <= Fusion(n)

FusedInv == ScoresTyped /\ FusedSays

LEMMA FusionStays == ASSUME score' = score PROVE \A n : Fusion(n)' = Fusion(n)
<1> SUFFICES ASSUME NEW n PROVE Fusion(n)' = Fusion(n)
  OBVIOUS
<1>1. \A e, a, b : Before(e, a, b)' <=> Before(e, a, b)
  BY DEF Before
<1>2. ASSUME NEW e PROVE RankOf(e, n)' = RankOf(e, n)
  <2>1. {m \in DOMAIN Catalog : Before(e, m, n)'} = {m \in DOMAIN Catalog : Before(e, m, n)}
    BY <1>1
  <2> QED BY <2>1 DEF RankOf
<1> QED BY <1>2 DEF Fusion, Weight

LEMMA InitFusedInv == MatcherInit => FusedInv
<1> SUFFICES ASSUME MatcherInit PROVE FusedInv
  OBVIOUS
<1>1. ScoresTyped
  BY InitCascadeInv DEF CascadeInv
<1>2. decision.by # "fused"
  BY DEF MatcherInit, FellThrough
<1> QED BY <1>1, <1>2 DEF FusedInv, FusedSays

LEMMA NextFusedInv == FusedInv /\ [MatcherNext]_matcherVars => FusedInv'
<1> SUFFICES ASSUME FusedInv, [MatcherNext]_matcherVars PROVE FusedInv'
  OBVIOUS
<1>1. score' = score
  BY DEF matcherVars, MatcherNext, SemanticRoute, FusedRoute, EmbedFails, Errors, Take,
         CascadeRoute, RouterRoute, Returns
<1>2. ScoresTyped' /\ \A n : Fusion(n)' = Fusion(n)
  BY <1>1, FusionStays DEF FusedInv, ScoresTyped
<1>3. decision'.by # "fused" => FusedInv'
  BY <1>2 DEF FusedInv, FusedSays
<1>4. CASE FusedRoute
  <2>1. PICK d \in Fused : Returns("fused", d)
    BY <1>4 DEF FusedRoute
  <2>2. decision' = [d EXCEPT !.by = "fused"]
    BY <2>1 DEF Returns
  <2>3. CASE ~Viable
    <3>1. d = FellThrough(0, 0)
      BY <2>1, <2>3 DEF Fused
    <3>2. decision'.fell
      BY <2>2, <3>1 DEF FellThrough
    <3> QED BY <1>2, <3>2 DEF FusedInv, FusedSays
  <2>4. CASE Viable
    <3>1. PICK n \in DOMAIN Catalog :
             /\ \A m \in DOMAIN Catalog \ {n} : Fusion(m) <= Fusion(n)
             /\ \E sum, lead : d = Chosen(Catalog[n].name, sum, lead)
      BY <2>1, <2>4 DEF Fused
    <3>2. decision'.skill = Catalog[n].name
      BY <2>2, <3>1 DEF Chosen
    <3> QED BY <1>2, <3>1, <3>2 DEF FusedInv, FusedSays
  <2> QED BY <2>3, <2>4
<1>5. CASE SemanticRoute
  <2>1. "by" \in DOMAIN Semantic(1)
    BY DEF Semantic, FellThrough, Chosen
  <2> QED BY <1>3, <1>5, <2>1, ReturnsSay DEF SemanticRoute
<1>6. CASE EmbedFails \/ Take
  <2>1. \/ decision' = FellThrough(0, 0)
        \/ decision' = [FellThrough(0, 0) EXCEPT !.by = "error"]
    BY <1>6 DEF EmbedFails, Errors, Take
  <2>2. /\ FellThrough(0, 0).by = "none"
        /\ [FellThrough(0, 0) EXCEPT !.by = "error"].by = "error"
    BY DEF FellThrough
  <2> QED BY <1>3, <2>1, <2>2
<1>7. ASSUME NEW reply, RouterRoute(reply) PROVE FusedInv'
  <2> DEFINE d == parseSkill(reply, [n \in DOMAIN Catalog |-> Catalog[n].name])
  <2>1. "by" \in DOMAIN d
    BY DEF parseSkill, FellThrough, Chosen
  <2>2. CASE reply # silence
    BY <1>3, <1>7, <2>1, <2>2, ReturnsSay DEF RouterRoute
  <2>3. CASE reply = silence
    BY <1>3, <1>7, <2>3 DEF RouterRoute, Errors, FellThrough
  <2> QED BY <2>2, <2>3
<1>8. ASSUME NEW reply, CascadeRoute(reply) PROVE FusedInv'
  <2>1. Returns("cascade", Cascade(reply))
    BY <1>8 DEF CascadeRoute
  <2>2. "by" \in DOMAIN Cascade(reply)
    BY DEF Cascade, parseSkill, FellThrough, Chosen
  <2> QED BY <1>3, <2>1, <2>2, ReturnsSay
<1>9. CASE UNCHANGED matcherVars
  BY <1>2, <1>9 DEF matcherVars, FusedInv, FusedSays
<1> QED BY <1>4, <1>5, <1>6, <1>7, <1>8, <1>9 DEF MatcherNext

\* FusedSemantic.Route: whatever the catalog, the embedders, their number and
\* the damping, a skill that every embedder ranks behind another never wins.
THEOREM FusedIsParetoHolds == MatcherSpec => []FusedIsPareto
<1>1. ASSUME FusedInv, NEW n \in DOMAIN Catalog, NEW m \in DOMAIN Catalog, Wins(n), n # m
      PROVE  \E e \in 1 .. Embedders : RankOf(e, n) < RankOf(e, m)
  <2>1. PICK k \in DOMAIN Catalog : /\ decision.skill = Catalog[k].name
                                    /\ \A j \in DOMAIN Catalog \ {k} : Fusion(j) <= Fusion(k)
    BY <1>1 DEF Wins, FusedInv, FusedSays
  <2>2. k = n
    BY <1>1, <2>1, SkillAssumption DEF Wins
  <2>3. Fusion(m) <= Fusion(n)
    BY <1>1, <2>1, <2>2
  <2> QED BY <1>1, <2>3, FusionFollows DEF FusedInv
<1>2. FusedInv => FusedIsPareto
  BY <1>1 DEF FusedIsPareto
<1> QED BY <1>2, InitFusedInv, NextFusedInv, PTL DEF MatcherSpec
-----------------------------------------------------------------------------
(* The types of what the matchers return.                                    *)

\* A decision before it is labelled: none of the skills, or one of the
\* catalog's, and a margin that is never negative.
Proper(d) == \/ \E sure \in Int, margin \in Nat : d = FellThrough(sure, margin)
             \/ \E skill \in names, sure \in Int, margin \in Nat : d = Chosen(skill, sure, margin)

Matching == {"none", "error", "semantic", "cascade", "llm", "fused"}
Decisions == [by : Matching, skill : names \cup {""}, confidence : Int, margin : Nat, fell : BOOLEAN]
WellTyped(d) == d \in Decisions /\ (d.fell => d.skill = "")

LEMMA ProperKinds ==
    /\ \A sure \in Int, margin \in Nat : Proper(FellThrough(sure, margin))
    /\ \A skill \in names, sure \in Int, margin \in Nat : Proper(Chosen(skill, sure, margin))
  BY DEF Proper

LEMMA Relabelling ==
    \A skill, sure, margin, fell, by :
        Labelled(Decided("none", skill, sure, margin, fell), by) = Decided(by, skill, sure, margin, fell)
  BY DecidedFacts

LEMMA LabelledTyped ==
    ASSUME NEW by \in Matching, NEW d, Proper(d)
    PROVE  WellTyped(Labelled(d, by))
<1>1. ASSUME NEW sure \in Int, NEW margin \in Nat
      PROVE  WellTyped(Labelled(FellThrough(sure, margin), by))
  <2> DEFINE e == [by |-> by, skill |-> "", confidence |-> sure, margin |-> margin, fell |-> TRUE]
  <2>1. Labelled(FellThrough(sure, margin), by) = e
    <3>1. FellThrough(sure, margin) = Decided("none", "", sure, margin, TRUE)
      BY KindsDecided
    <3>2. Labelled(Decided("none", "", sure, margin, TRUE), by) = Decided(by, "", sure, margin, TRUE)
      BY Relabelling, Zenon
    <3> QED BY <3>1, <3>2 DEF Decided
  <2>2. e \in Decisions /\ e.skill = ""
    BY DEF Decisions
  <2> HIDE DEF e
  <2> QED BY <2>1, <2>2 DEF WellTyped
<1>2. ASSUME NEW skill \in names, NEW sure \in Int, NEW margin \in Nat
      PROVE  WellTyped(Labelled(Chosen(skill, sure, margin), by))
  <2> DEFINE e == [by |-> by, skill |-> skill, confidence |-> sure, margin |-> margin, fell |-> FALSE]
  <2>1. Labelled(Chosen(skill, sure, margin), by) = e
    <3>1. Chosen(skill, sure, margin) = Decided("none", skill, sure, margin, FALSE)
      BY KindsDecided
    <3>2. Labelled(Decided("none", skill, sure, margin, FALSE), by) = Decided(by, skill, sure, margin, FALSE)
      BY Relabelling, Zenon
    <3> QED BY <3>1, <3>2 DEF Decided
  <2>2. e \in Decisions /\ ~e.fell
    BY DEF Decisions
  <2> HIDE DEF e
  <2> QED BY <2>1, <2>2 DEF WellTyped
<1> QED BY <1>1, <1>2 DEF Proper

LEMMA ReturnsTyped ==
    ASSUME MatcherTypeOK, NEW by \in Matching,
           NEW d, Proper(d), decision' = Labelled(d, by), UNCHANGED <<matcher, score>>,
           heard' \in Replies \cup {silence}
    PROVE  MatcherTypeOK'
<1>1. WellTyped(decision')
  BY LabelledTyped
<1> QED BY <1>1 DEF MatcherTypeOK, WellTyped, Decisions, Matching

\* The best of a ranking, its score and its lead over the next.
LEMMA LeadFacts ==
    ASSUME ScoresTyped, NEW k \in Nat
    PROVE  LET ranked == Rank(1, k)
           IN  /\ ranked[1].skill \in names /\ ranked[1].score \in Int
               /\ Margin(ranked) \in Nat
<1> DEFINE ranked == Rank(1, k)
           at(p) == Ranking(1)[p]
<1>1. 1 \in 1 .. Embedders
  BY SkillAssumption
<1>2. /\ Len(ranked) \in Nat \ {0}
      /\ \A p \in 1 .. Len(ranked) : ranked[p] = Ranked(1, at(p)) /\ p \in DOMAIN Catalog
  BY <1>1, RankFacts
<1> HIDE DEF ranked
<1>3. \A p \in DOMAIN Catalog : at(p) \in DOMAIN Catalog /\ RankOf(1, at(p)) = p
  BY <1>1, RankingFacts, CatalogFacts, ElementOfSeq
<1>4. \A n \in DOMAIN Catalog : score[1][n] \in Int /\ Catalog[n].name \in names
  BY <1>1, CatalogFacts DEF ScoresTyped
<1> HIDE DEF at
<1>5. ASSUME NEW p \in 1 .. Len(ranked)
      PROVE  /\ ranked[p].skill = Catalog[at(p)].name /\ ranked[p].score = score[1][at(p)]
             /\ at(p) \in DOMAIN Catalog
  <2>1. ranked[p] = Ranked(1, at(p)) /\ at(p) \in DOMAIN Catalog
    BY <1>2, <1>3
  <2>2. Ranked(1, at(p)).skill = Catalog[at(p)].name /\ Ranked(1, at(p)).score = score[1][at(p)]
    BY DEF Ranked
  <2> QED BY <2>1, <2>2
<1>6. 1 \in 1 .. Len(ranked)
  BY <1>2
<1>7. CASE Len(ranked) > 1
  <2>1. 2 \in 1 .. Len(ranked)
    BY <1>2, <1>7
  <2>2. ~Before(1, at(2), at(1))
    <3> DEFINE ahead == {m \in DOMAIN Catalog : Before(1, m, at(1))}
    <3>1. IsFiniteSet(DOMAIN Catalog)
      BY CatalogFacts, FS_Interval
    <3>2. IsFiniteSet(ahead)
      BY <3>1, FS_Subset
    <3>3. 1 + Cardinality(ahead) = 1
      BY <1>2, <1>3, <1>6 DEF RankOf
    <3>4. at(2) \in DOMAIN Catalog
      BY <1>2, <1>3, <2>1
    <3>5. ahead = {}
      <4> HIDE DEF ahead
      <4> QED BY <3>2, <3>3, FS_CardinalityType, FS_EmptySet
    <3> QED BY <3>4, <3>5
  <2>3. score[1][at(2)] <= score[1][at(1)]
    BY <1>4, <1>5, <1>6, <2>1, <2>2 DEF Before
  <2>4. Margin(ranked) = score[1][at(1)] - score[1][at(2)]
    BY <1>5, <1>6, <1>7, <2>1 DEF Margin
  <2>5. Margin(ranked) \in Nat
    BY <1>4, <1>5, <1>6, <2>1, <2>3, <2>4
  <2> QED BY <1>4, <1>5, <1>6, <2>5 DEF ranked
<1>8. CASE ~(Len(ranked) > 1)
  <2>1. Margin(ranked) = 0
    BY <1>8 DEF Margin
  <2> QED BY <1>4, <1>5, <1>6, <2>1 DEF ranked
<1> QED BY <1>7, <1>8

LEMMA SemanticProper == ASSUME ScoresTyped PROVE Proper(Semantic(1))
<1> DEFINE ranked == Rank(1, 0)
<1>1. ranked[1].skill \in names /\ ranked[1].score \in Int /\ Margin(ranked) \in Nat
  BY LeadFacts
<1>2. \/ Semantic(1) = FellThrough(ranked[1].score, Margin(ranked))
      \/ Semantic(1) = Chosen(ranked[1].skill, ranked[1].score, Margin(ranked))
  BY DEF Semantic
<1> HIDE DEF ranked
<1> QED BY <1>1, <1>2, ProperKinds

LEMMA ParseProper ==
    ASSUME NEW reply, NEW l \in Nat, NEW list \in [1 .. l -> names], NEW lead \in Nat
    PROVE  LET d == parseSkill(reply, list)
           IN  Proper(d) /\ (~d.fell => Proper(Marked(d, lead)))
<1> DEFINE d == parseSkill(reply, list)
<1>1. CASE d = FellThrough(0, 0)
  <2>1. Proper(FellThrough(0, 0)) /\ FellThrough(0, 0).fell
    <3>1. Proper(FellThrough(0, 0))
      BY ProperKinds
    <3>2. FellThrough(0, 0).fell
      BY FellFacts, Zenon
    <3> QED BY <3>1, <3>2
  <2> HIDE DEF d
  <2>2. Proper(d) /\ d.fell
    BY <1>1, <2>1
  <2> QED BY <2>2 DEF d
<1>2. CASE d # FellThrough(0, 0)
  <2>1. PICK p \in 1 .. l, sure \in Nat : d = Chosen(list[p], sure, 0)
    BY <1>2, ParseNames
  <2>2. Marked(d, lead) = Chosen(list[p], sure, lead)
    BY <2>1, MarkedFacts
  <2>3. list[p] \in names /\ sure \in Int
    OBVIOUS
  <2> HIDE DEF d
  <2>4. Proper(d) /\ Proper(Marked(d, lead))
    BY <2>1, <2>2, <2>3, ProperKinds
  <2> QED BY <2>4 DEF d
<1> QED BY <1>1, <1>2

LEMMA CascadeProper == ASSUME ScoresTyped, NEW reply PROVE Proper(Cascade(reply))
<1> DEFINE ranked == Rank(1, ShortlistK)
           list == Shortlist(ranked)
           lead == Margin(ranked)
           d == parseSkill(reply, list)
           high == ranked[1].score
           best == ranked[1].skill
<1>1. ShortlistK \in Nat /\ 1 \in 1 .. Embedders
  BY SkillAssumption
<1>2. best \in names /\ high \in Int /\ lead \in Nat
  BY <1>1, LeadFacts
<1>3. Len(ranked) \in Nat /\ list \in [1 .. Len(ranked) -> names]
  <2>1. /\ Len(ranked) \in Nat /\ DOMAIN ranked = 1 .. Len(ranked)
        /\ \A p \in 1 .. Len(ranked) : /\ ranked[p] = Ranked(1, Ranking(1)[p])
                                      /\ p \in DOMAIN Catalog
    BY <1>1, RankFacts
  <2>2. \A p \in DOMAIN Catalog : Catalog[Ranking(1)[p]].name \in names
    BY <1>1, RankingFacts, CatalogFacts, ElementOfSeq
  <2>3. list = [p \in DOMAIN ranked |-> ranked[p].skill]
    BY DEF Shortlist
  <2> HIDE DEF ranked, list
  <2>4. ASSUME NEW p \in 1 .. Len(ranked) PROVE ranked[p].skill \in names
    BY <2>1, <2>2 DEF Ranked
  <2> QED BY <2>1, <2>3, <2>4
<1>4. Proper(d) /\ (~d.fell => Proper(Marked(d, lead)))
  <2> HIDE DEF ranked, list, lead
  <2> QED BY <1>2, <1>3, ParseProper
<1>5. \/ Cascade(reply) = FellThrough(high, lead)
      \/ Cascade(reply) = Chosen(best, high, lead)
      \/ d.fell /\ Cascade(reply) = d
      \/ ~d.fell /\ Cascade(reply) = Marked(d, lead)
  BY DEF Cascade, Marked
<1> HIDE DEF d, high, best, lead
<1> QED BY <1>2, <1>4, <1>5, ProperKinds

LEMMA FusedProper == ASSUME ScoresTyped, NEW d \in Fused PROVE Proper(d)
<1> DEFINE D == DOMAIN Catalog
           fused == [n \in D |-> Fusion(n)]
           rest(n) == {fused[m] : m \in D \ {n}}
           lead(n) == IF rest(n) = {} THEN 0 ELSE fused[n] - Max(rest(n))
<1>1. CASE ~Viable
  BY <1>1, ProperKinds DEF Fused
<1>2. CASE Viable
  <2>1. PICK n \in D : /\ d = Chosen(Catalog[n].name, fused[n], lead(n))
                       /\ \A s \in rest(n) : s <= fused[n]
    BY <1>2 DEF Fused
  <2>2. \A m \in D : fused[m] \in Int
    BY FusionTyped
  <2>3. IsFiniteSet(D) /\ Catalog[n].name \in names
    BY CatalogFacts, FS_Interval
  <2>4. IsFiniteSet(rest(n)) /\ rest(n) \subseteq Int
    <3>1. IsFiniteSet(D \ {n})
      BY <2>3, FS_Subset
    <3> HIDE DEF D, fused
    <3>2. IsFiniteSet(rest(n))
      BY <3>1, ImageFinite
    <3> QED BY <2>2, <3>2
  <2> DEFINE others == rest(n)
             best == fused[n]
  <2>5. best \in Int /\ \A s \in others : s <= best
    BY <2>1, <2>2
  <2>6. lead(n) = IF others = {} THEN 0 ELSE best - Max(others)
    OBVIOUS
  <2>7. d = Chosen(Catalog[n].name, best, lead(n))
    BY <2>1
  <2> HIDE DEF others, best, lead, rest, fused
  <2>8. lead(n) \in Nat
    <3>1. CASE others = {}
      BY <2>6, <3>1
    <3>2. CASE others # {}
      <4>1. Max(others) \in others
        BY <2>4, <3>2, MaxIn DEF others
      <4>2. Max(others) \in Int /\ Max(others) <= best
        BY <2>4, <2>5, <4>1 DEF others
      <4> QED BY <2>5, <2>6, <3>2, <4>2
    <3> QED BY <3>1, <3>2
  <2> QED BY <2>3, <2>5, <2>7, <2>8, ProperKinds
<1> QED BY <1>1, <1>2

LEMMA NoLabel == FellThrough(0, 0) = Labelled(FellThrough(0, 0), "none")
<1>1. FellThrough(0, 0) = Decided("none", "", 0, 0, TRUE)
  BY KindsDecided
<1>2. Labelled(Decided("none", "", 0, 0, TRUE), "none") = Decided("none", "", 0, 0, TRUE)
  BY Relabelling, Zenon
<1> QED BY <1>1, <1>2

LEMMA InitMatcherTypes == MatcherInit => MatcherTypeOK
<1> SUFFICES ASSUME MatcherInit PROVE MatcherTypeOK
  OBVIOUS
<1>1. matcher \in {"semantic", "cascade", "llm", "fused"}
  BY DEF MatcherInit, Matchers
<1>2. decision = Labelled(FellThrough(0, 0), "none") /\ Proper(FellThrough(0, 0))
  BY NoLabel, ProperKinds DEF MatcherInit
<1>3. WellTyped(decision)
  BY <1>2, LabelledTyped DEF Matching
<1> QED BY <1>1, <1>3 DEF MatcherInit, MatcherTypeOK, WellTyped, Decisions, Matching

LEMMA NextMatcherTypes == MatcherTypeOK /\ [MatcherNext]_matcherVars => MatcherTypeOK'
<1> SUFFICES ASSUME MatcherTypeOK, [MatcherNext]_matcherVars PROVE MatcherTypeOK'
  OBVIOUS
<1>1. ScoresTyped
  BY PromptsAreScores DEF MatcherTypeOK, ScoresTyped
<1>2. Proper(FellThrough(0, 0))
  BY ProperKinds
<1>3. CASE SemanticRoute
  <2>1. decision' = Labelled(Semantic(1), "semantic") /\ UNCHANGED <<matcher, score>> /\ heard' = silence
    BY <1>3 DEF SemanticRoute, Returns, Labelled
  <2> QED BY <1>1, <2>1, SemanticProper, ReturnsTyped DEF Matching
<1>4. CASE FusedRoute
  <2>1. PICK d \in Fused : Returns("fused", d) /\ heard' = silence
    BY <1>4 DEF FusedRoute
  <2>2. decision' = Labelled(d, "fused") /\ UNCHANGED <<matcher, score>>
    BY <2>1 DEF Returns, Labelled
  <2> QED BY <1>1, <2>1, <2>2, FusedProper, ReturnsTyped DEF Matching
<1>5. ASSUME Errors, heard' \in Replies \cup {silence} PROVE MatcherTypeOK'
  <2>1. decision' = Labelled(FellThrough(0, 0), "error") /\ UNCHANGED <<matcher, score>>
    BY <1>5 DEF Errors, Labelled
  <2> QED BY <1>2, <1>5, <2>1, ReturnsTyped DEF Matching
<1>6. CASE EmbedFails
  BY <1>5, <1>6 DEF EmbedFails
<1>7. CASE Take
  <2>1. decision' = Labelled(FellThrough(0, 0), "none") /\ UNCHANGED <<matcher, score>> /\ heard' = silence
    BY <1>7, NoLabel DEF Take
  <2> QED BY <1>2, <2>1, ReturnsTyped DEF Matching
<1>8. ASSUME NEW reply \in Replies \cup {silence}, CascadeRoute(reply) PROVE MatcherTypeOK'
  <2>1. /\ decision' = Labelled(Cascade(reply), "cascade") /\ UNCHANGED <<matcher, score>>
        /\ heard' = reply
    BY <1>8 DEF CascadeRoute, Returns, Labelled
  <2> QED BY <1>1, <2>1, CascadeProper, ReturnsTyped DEF Matching
<1>9. ASSUME NEW reply \in Replies \cup {silence}, RouterRoute(reply) PROVE MatcherTypeOK'
  <2> DEFINE list == [n \in DOMAIN Catalog |-> Catalog[n].name]
  <2>1. CASE reply = silence
    BY <1>5, <1>9, <2>1 DEF RouterRoute
  <2>2. CASE reply # silence
    <3>1. /\ decision' = Labelled(parseSkill(reply, list), "llm") /\ UNCHANGED <<matcher, score>>
          /\ heard' = reply
      BY <1>9, <2>2 DEF RouterRoute, Returns, Labelled
    <3>2. Len(Catalog) \in Nat /\ list \in [1 .. Len(Catalog) -> names]
      BY CatalogFacts
    <3> HIDE DEF list
    <3>3. Proper(parseSkill(reply, list))
      BY <3>2, ParseProper
    <3> QED BY <3>1, <3>3, ReturnsTyped DEF Matching
  <2> QED BY <2>1, <2>2
<1>10. CASE UNCHANGED matcherVars
  BY <1>10 DEF matcherVars, MatcherTypeOK
<1> QED BY <1>3, <1>4, <1>6, <1>7, <1>8, <1>9, <1>10 DEF MatcherNext

\* Type correctness of the skill router: whatever is routed, a decision names a
\* skill of the catalog or none, and its margin is not negative.
THEOREM MatcherTypeCorrect == MatcherSpec => []MatcherTypeOK
  BY InitMatcherTypes, NextMatcherTypes, PTL DEF MatcherSpec
=============================================================================
