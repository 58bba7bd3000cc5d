----------------------------- MODULE Classifier -----------------------------
(* classifier: the tier of a prompt, from the heuristic's score and, where   *)
(* that is unsure, a language model's. Scores are multiples of 1/300, so     *)
(* that an average of three hundredths is whole; thresholds are hundredths.  *)
EXTENDS Integers, Sequences

CONSTANTS SimpleAt,         \* Thresholds.Simple
          ComplexAt,        \* Thresholds.Complex
          CascadeAt         \* Cascading.ConfidenceThreshold; 0: no secondary

ASSUME ClassifierAssumption == SimpleAt \in Int /\ ComplexAt \in Int /\ CascadeAt \in Nat

\* What Heuristic counts in a prompt, and what is left of it when it is empty.
Text == [length : Nat, fenced : BOOLEAN, braces : Nat, parens : Nat, keywords : Nat]
blank == [length |-> 0, fenced |-> FALSE, braces |-> 0, parens |-> 0, keywords |-> 0]

lengthSignal(n) == IF n < 64 THEN 10
                   ELSE IF n < 256 THEN 30
                   ELSE IF n < 1024 THEN 60
                   ELSE IF n < 4096 THEN 80 ELSE 95

codeSignal(text) == IF text.fenced THEN 85
                    ELSE IF text.braces >= 3 \/ text.parens >= 6 THEN 65 ELSE 20

keywordSignal(n) == IF n >= 2 THEN 90 ELSE IF n = 1 THEN 70 ELSE 20

\* Heuristic.Classify; the average is in [0, 1] without being clamped.
Heuristic(text) ==
    lengthSignal(text.length) + codeSignal(text) + keywordSignal(text.keywords)

\* The distance to 1/2, doubled: a multiple of 1/150.
Confidence(score) == IF score >= 150 THEN score - 150 ELSE 150 - score
Sure(score) == 2 * Confidence(score) >= 3 * CascadeAt

\* parseScore, of the numbers in the model's reply, in hundredths.
parseScore(reply) == 3 * (IF Head(reply) < 0 THEN 0
                          ELSE IF Head(reply) > 100 THEN 100 ELSE Head(reply))

\* Cascading.Classify. A call that fails, is too late or yields no number is
\* the empty reply: the primary's verdict stands.
Cascading(text, reply) ==
    LET score == Heuristic(text)
    IN  IF CascadeAt = 0 \/ Sure(score) \/ reply = <<>> THEN score ELSE parseScore(reply)

BucketScore(score, hasMid) ==
    IF score <= 3 * SimpleAt THEN "simple"
    ELSE IF score >= 3 * ComplexAt THEN "complex"
    ELSE IF hasMid THEN "mid" ELSE "simple"

Classify(text, reply, hasMid) == BucketScore(Cascading(text, reply), hasMid)
=============================================================================
