--------------------------- MODULE ProviderProofs ---------------------------
(* The OpenAI provider for any chain of models, any statuses and streams of  *)
(* any length. IInv says what each place of a call implies of the loop and   *)
(* of the iterator, and how the lines that wait to be read are numbered.     *)
EXTENDS Provider, SequenceTheorems, TLAPS

InCall == pc \in {"do", "body", "next", "read"}
AtIter == pc \in {"next", "read"}

\* An iterator is open while the loop reads from it, and a call is made for a
\* model of the chain.
PlaceInv == /\ iter = "open" <=> AtIter
            /\ InCall => i <= Len(Chain)

\* A call in progress has been blamed for nothing, and the loop goes round at
\* most once between the client's leaving and its own end.
BlameInv == /\ ~hungUp => callsAfter = 0 /\ blamedAfter = 0
            /\ InCall => callsAfter = 0 /\ blamedAfter = 0
            /\ pc = "loop" => callsAfter = 0 /\ blamedAfter <= 1
            /\ callsAfter <= 1 /\ blamedAfter <= 2

\* A chunk of ls that Next will return: none that was sent after [DONE].
Counts(ls, k) == /\ ls[k].kind = "chunk"
                 /\ \A j \in 1 .. k : ls[j].kind # "[DONE]"

\* The chunks that wait in ls are those between the last one returned and the
\* last one sent, each once and in order; [DONE] waits if it has been sent.
Waiting(ls, returned, upTo, ended) ==
    /\ returned <= upTo
    /\ ended <=> \E k \in 1 .. Len(ls) : ls[k].kind = "[DONE]"
    /\ \A k \in 1 .. Len(ls) : Counts(ls, k) => ls[k].number \in returned + 1 .. upTo
    /\ \A k \in 1 .. Len(ls) : \A j \in 1 .. k - 1 :
          Counts(ls, k) /\ Counts(ls, j) => ls[j].number < ls[k].number
    /\ \A x \in returned + 1 .. upTo :
          \E k \in 1 .. Len(ls) : Counts(ls, k) /\ ls[k].number = x

IInv == TypeOK /\ PlaceInv /\ BlameInv /\ (iter = "open" => Waiting(lines, last, sent, done))
-----------------------------------------------------------------------------
\* Every line has a number.
LEMMA LineOf ==
    ASSUME NEW ls \in Seq(Line), NEW k \in 1 .. Len(ls)
    PROVE  ls[k] \in Line /\ ls[k].number \in Nat
<1>1. ls[k] \in Line
  BY ElementOfSeq
<1> QED
  BY <1>1 DEF Line

\* What an element of a longer or shorter sequence counts as.
LEMMA CountsAppend ==
    ASSUME NEW ls \in Seq(Line), NEW x \in Line, NEW k \in 1 .. Len(ls)
    PROVE  /\ Append(ls, x)[k] = ls[k]
           /\ Counts(Append(ls, x), k) = Counts(ls, k)
<1>1. \A j \in 1 .. Len(ls) : Append(ls, x)[j] = ls[j]
  BY AppendProperties
<1>2. Len(ls) \in Nat
  BY LenProperties
<1>3. \A j \in 1 .. k : Append(ls, x)[j] = ls[j]
  BY <1>1, <1>2
<1> QED
  BY <1>1, <1>3 DEF Counts

LEMMA CountsTail ==
    ASSUME NEW ls \in Seq(Line), ls # <<>>, ls[1].kind # "[DONE]",
           NEW k \in 1 .. Len(Tail(ls))
    PROVE  /\ k + 1 \in 1 .. Len(ls)
           /\ Tail(ls)[k] = ls[k + 1]
           /\ Counts(Tail(ls), k) = Counts(ls, k + 1)
<1>1. /\ Len(Tail(ls)) = Len(ls) - 1 /\ Len(ls) \in Nat
      /\ \A j \in 1 .. Len(Tail(ls)) : Tail(ls)[j] = ls[j + 1]
  BY HeadTailProperties, LenProperties
<1>2. ASSUME NEW j \in 1 .. k PROVE Tail(ls)[j] = ls[j + 1]
  BY <1>1
<1>3. (\A j \in 1 .. k : Tail(ls)[j].kind # "[DONE]")
         = (\A j \in 1 .. k + 1 : ls[j].kind # "[DONE]")
  <2>1. ASSUME \A j \in 1 .. k : Tail(ls)[j].kind # "[DONE]", NEW j \in 1 .. k + 1
        PROVE  ls[j].kind # "[DONE]"
    <3>1. CASE j = 1
      BY <3>1
    <3>2. CASE j # 1
      <4>1. j - 1 \in 1 .. k /\ (j - 1) + 1 = j
        BY <3>2
      <4> QED
        BY <1>2, <2>1, <4>1
    <3> QED
      BY <3>1, <3>2
  <2>2. ASSUME \A j \in 1 .. k + 1 : ls[j].kind # "[DONE]", NEW j \in 1 .. k
        PROVE  Tail(ls)[j].kind # "[DONE]"
    BY <1>2, <2>2
  <2> QED
    BY <2>1, <2>2
<1> QED
  BY <1>1, <1>2, <1>3 DEF Counts

\* The server sends the next chunk.
LEMMA SendCounted ==
    ASSUME NEW ls \in Seq(Line), NEW l \in Nat, NEW s \in Nat, NEW x \in Line,
           Waiting(ls, l, s, FALSE), x.kind = "chunk", x.number = s + 1
    PROVE  Waiting(Append(ls, x), l, s + 1, FALSE)
<1> DEFINE new == Append(ls, x)  n == Len(ls) + 1
<1>1. /\ Len(new) = n /\ n \in Nat /\ n >= 1 /\ new[n] = x
      /\ \A k \in 1 .. n : k \in 1 .. Len(ls) \/ k = n
  BY AppendProperties, LenProperties
<1>2. \A k \in 1 .. Len(ls) : new[k] = ls[k] /\ Counts(new, k) = Counts(ls, k)
  BY CountsAppend
<1>3. \A k \in 1 .. Len(ls) : ls[k].kind # "[DONE]" /\ ls[k].number \in Nat
  BY LineOf DEF Waiting
<1>4. Counts(new, n)
  BY <1>1, <1>2, <1>3 DEF Counts
<1> HIDE DEF new, n
<1>5. l <= s + 1
  BY DEF Waiting
<1>6. FALSE <=> \E k \in 1 .. Len(new) : new[k].kind = "[DONE]"
  BY <1>1, <1>2, <1>3
<1>7. ASSUME NEW k \in 1 .. Len(new), Counts(new, k)
      PROVE  new[k].number \in l + 1 .. s + 1
  <2>1. CASE k \in 1 .. Len(ls)
    <3>1. ls[k].number \in l + 1 .. s
      BY <1>2, <1>7, <2>1 DEF Waiting
    <3> QED
      BY <1>2, <2>1, <3>1
  <2>2. CASE k = n
    BY <1>1, <2>2 DEF Waiting
  <2> QED
    BY <1>1, <2>1, <2>2
<1>8. ASSUME NEW k \in 1 .. Len(new), NEW j \in 1 .. k - 1, Counts(new, k), Counts(new, j)
      PROVE  new[j].number < new[k].number
  <2>1. j \in 1 .. Len(ls)
    BY <1>1 DEF n
  <2>2. CASE k \in 1 .. Len(ls)
    BY <1>2, <1>8, <2>1, <2>2 DEF Waiting
  <2>3. CASE k = n
    <3>1. ls[j].number \in l + 1 .. s
      BY <1>2, <1>8, <2>1 DEF Waiting
    <3> QED
      BY <1>1, <1>2, <2>1, <2>3, <3>1
  <2> QED
    BY <1>1, <2>2, <2>3
<1>9. ASSUME NEW y \in l + 1 .. s + 1
      PROVE  \E k \in 1 .. Len(new) : Counts(new, k) /\ new[k].number = y
  <2>1. CASE y = s + 1
    BY <1>1, <1>4, <2>1
  <2>2. CASE y # s + 1
    <3>1. y \in l + 1 .. s
      BY <2>2
    <3>2. PICK k \in 1 .. Len(ls) : Counts(ls, k) /\ ls[k].number = y
      BY <3>1 DEF Waiting
    <3>3. k \in 1 .. Len(new)
      BY <1>1 DEF n
    <3> QED
      BY <1>2, <3>2, <3>3
  <2> QED
    BY <2>1, <2>2
<1>10. Waiting(new, l, s + 1, FALSE)
  BY <1>5, <1>6, <1>7, <1>8, <1>9 DEF Waiting
<1> QED
  BY <1>10 DEF new

\* It sends anything else, or a chunk after [DONE].
LEMMA SendUncounted ==
    ASSUME NEW ls \in Seq(Line), NEW l \in Nat, NEW s \in Nat, NEW d \in BOOLEAN, NEW x \in Line,
           Waiting(ls, l, s, d), x.kind # "chunk" \/ d
    PROVE  Waiting(Append(ls, x), l, s, d \/ x.kind = "[DONE]")
<1> DEFINE new == Append(ls, x)  n == Len(ls) + 1
<1>1. /\ Len(new) = n /\ n \in Nat /\ n >= 1 /\ new[n] = x
      /\ \A k \in 1 .. n : k \in 1 .. Len(ls) \/ k = n
      /\ \A k \in 1 .. Len(ls) : k \in 1 .. n
  BY AppendProperties, LenProperties
<1>2. \A k \in 1 .. Len(ls) : new[k] = ls[k] /\ Counts(new, k) = Counts(ls, k)
  BY CountsAppend
<1>3. ~Counts(new, n)
  <2>1. CASE x.kind # "chunk"
    BY <1>1, <2>1 DEF Counts
  <2>2. CASE d
    <3>1. PICK k \in 1 .. Len(ls) : ls[k].kind = "[DONE]"
      BY <2>2 DEF Waiting
    <3> QED
      BY <1>1, <1>2, <3>1 DEF Counts
  <2> QED
    BY <2>1, <2>2
<1> HIDE DEF new
<1>4. ASSUME NEW k \in 1 .. Len(new), Counts(new, k)
      PROVE  k \in 1 .. Len(ls) /\ Counts(ls, k) /\ new[k] = ls[k]
  BY <1>1, <1>2, <1>3, <1>4
<1>5. (d \/ x.kind = "[DONE]") <=> \E k \in 1 .. Len(new) : new[k].kind = "[DONE]"
  BY <1>1, <1>2 DEF Waiting
<1>6. ASSUME NEW k \in 1 .. Len(new), Counts(new, k)
      PROVE  new[k].number \in l + 1 .. s
  BY <1>4, <1>6 DEF Waiting
<1>7. ASSUME NEW k \in 1 .. Len(new), NEW j \in 1 .. k - 1, Counts(new, k), Counts(new, j)
      PROVE  new[j].number < new[k].number
  <2>1. j \in 1 .. Len(new)
    BY <1>1
  <2> QED
    BY <1>4, <1>7, <2>1 DEF Waiting
<1>8. ASSUME NEW y \in l + 1 .. s
      PROVE  \E k \in 1 .. Len(new) : Counts(new, k) /\ new[k].number = y
  BY <1>1, <1>2 DEF Waiting
<1>9. Waiting(new, l, s, d \/ x.kind = "[DONE]")
  BY <1>5, <1>6, <1>7, <1>8 DEF Waiting
<1> QED
  BY <1>9 DEF new

\* A chunk at the head is the next one.
LEMMA HeadIsNext ==
    ASSUME NEW ls \in Seq(Line), NEW l \in Nat, NEW s \in Nat, NEW d \in BOOLEAN,
           Waiting(ls, l, s, d), ls # <<>>, ls[1].kind = "chunk"
    PROVE  ls[1].number = l + 1 /\ l < s
<1>1. 1 \in 1 .. Len(ls) /\ Len(ls) \in Nat /\ \A k \in 1 .. Len(ls) : ls[k].number \in Nat
  BY EmptySeq, LenProperties, LineOf
<1>2. Counts(ls, 1)
  BY DEF Counts
<1>3. ls[1].number \in l + 1 .. s
  BY <1>1, <1>2 DEF Waiting
<1>4. l + 1 \in l + 1 .. s
  BY <1>3
<1>5. PICK k \in 1 .. Len(ls) : Counts(ls, k) /\ ls[k].number = l + 1
  BY <1>4 DEF Waiting
<1>6. CASE k = 1
  BY <1>3, <1>5, <1>6
<1>7. CASE k # 1
  <2>1. 1 \in 1 .. k - 1
    BY <1>7
  <2>2. ls[1].number < ls[k].number
    BY <1>2, <1>5, <2>1 DEF Waiting
  <2> QED
    BY <1>3, <1>5, <2>2
<1> QED
  BY <1>6, <1>7

\* The head is read: a chunk is returned, any other line passed over.
LEMMA ReadHead ==
    ASSUME NEW ls \in Seq(Line), NEW l \in Nat, NEW s \in Nat, NEW d \in BOOLEAN, NEW m \in Nat,
           Waiting(ls, l, s, d), ls # <<>>, ls[1].kind # "[DONE]",
           m = IF ls[1].kind = "chunk" THEN l + 1 ELSE l
    PROVE  Waiting(Tail(ls), m, s, d)
<1> DEFINE new == Tail(ls)
<1>1. /\ Len(ls) \in Nat /\ Len(ls) >= 1 /\ Len(new) = Len(ls) - 1
      /\ \A k \in 1 .. Len(ls) : ls[k].number \in Nat
  BY EmptySeq, LenProperties, LineOf, HeadTailProperties
<1>2. \A k \in 1 .. Len(new) :
         k + 1 \in 1 .. Len(ls) /\ new[k] = ls[k + 1] /\ Counts(new, k) = Counts(ls, k + 1)
  BY CountsTail
<1>3. Counts(ls, 1) <=> ls[1].kind = "chunk"
  BY DEF Counts
<1>4. ls[1].kind = "chunk" => ls[1].number = l + 1 /\ l < s
  BY HeadIsNext
<1> HIDE DEF new
<1>5. \A k \in 1 .. Len(ls) : k # 1 => k - 1 \in 1 .. Len(new) /\ (k - 1) + 1 = k
  BY <1>1
<1>6. m <= s
  BY <1>4 DEF Waiting
<1>7. d <=> \E k \in 1 .. Len(new) : new[k].kind = "[DONE]"
  <2>1. ASSUME NEW k \in 1 .. Len(ls), ls[k].kind = "[DONE]"
        PROVE  \E j \in 1 .. Len(new) : new[j].kind = "[DONE]"
    <3>1. k # 1
      BY <2>1
    <3> QED
      BY <1>2, <1>5, <2>1, <3>1
  <2>2. ASSUME NEW k \in 1 .. Len(new), new[k].kind = "[DONE]"
        PROVE  \E j \in 1 .. Len(ls) : ls[j].kind = "[DONE]"
    BY <1>2, <2>2
  <2> QED
    BY <2>1, <2>2 DEF Waiting
<1>8. ASSUME NEW k \in 1 .. Len(new), Counts(new, k)
      PROVE  new[k].number \in m + 1 .. s
  <2>1. Counts(ls, k + 1) /\ k + 1 \in 1 .. Len(ls) /\ new[k] = ls[k + 1]
    BY <1>2, <1>8
  <2>2. ls[k + 1].number \in l + 1 .. s
    BY <2>1 DEF Waiting
  <2>3. CASE ls[1].kind = "chunk"
    <3>1. 1 \in 1 .. (k + 1) - 1
      BY <1>1
    <3>2. ls[1].number < ls[k + 1].number
      BY <1>3, <2>1, <2>3, <3>1 DEF Waiting
    <3> QED
      BY <1>4, <2>1, <2>2, <2>3, <3>2
  <2>4. CASE ls[1].kind # "chunk"
    BY <2>1, <2>2, <2>4
  <2> QED
    BY <2>3, <2>4
<1>9. ASSUME NEW k \in 1 .. Len(new), NEW j \in 1 .. k - 1, Counts(new, k), Counts(new, j)
      PROVE  new[j].number < new[k].number
  <2>1. j \in 1 .. Len(new) /\ j + 1 \in 1 .. (k + 1) - 1
    BY <1>1
  <2>2. /\ Counts(ls, k + 1) /\ k + 1 \in 1 .. Len(ls) /\ new[k] = ls[k + 1]
        /\ Counts(ls, j + 1) /\ new[j] = ls[j + 1]
    BY <1>2, <1>9, <2>1
  <2> QED
    BY <2>1, <2>2 DEF Waiting
<1>10. ASSUME NEW y \in m + 1 .. s
       PROVE  \E k \in 1 .. Len(new) : Counts(new, k) /\ new[k].number = y
  <2>1. y \in l + 1 .. s
    BY <1>10
  <2>2. PICK k \in 1 .. Len(ls) : Counts(ls, k) /\ ls[k].number = y
    BY <2>1 DEF Waiting
  <2>3. k # 1
    BY <1>3, <1>4, <1>10, <2>2
  <2>4. k - 1 \in 1 .. Len(new) /\ Counts(new, k - 1) /\ new[k - 1] = ls[k]
    BY <1>2, <1>5, <2>2, <2>3
  <2> QED
    BY <2>2, <2>4
<1>11. Waiting(new, m, s, d)
  BY <1>6, <1>7, <1>8, <1>9, <1>10 DEF Waiting
<1> QED
  BY <1>11 DEF new

\* Before [DONE], and at the end of the lines, no chunk is left.
LEMMA Drained ==
    ASSUME NEW ls \in Seq(Line), NEW l \in Nat, NEW s \in Nat, NEW d \in BOOLEAN,
           Waiting(ls, l, s, d), ls = <<>> \/ ls[1].kind = "[DONE]"
    PROVE  l = s
<1>1. \A k \in 1 .. Len(ls) : ~Counts(ls, k)
  BY EmptySeq, LenProperties DEF Counts
<1>2. \A x \in l + 1 .. s : FALSE
  BY <1>1 DEF Waiting
<1>3. l + 1 \notin l + 1 .. s
  BY <1>2
<1> QED
  BY <1>3 DEF Waiting
-----------------------------------------------------------------------------
LEMMA InitIInv == Init => IInv
<1> SUFFICES ASSUME Init PROVE IInv
  OBVIOUS
<1>1. lines \in Seq(Line)
  BY EmptySeq DEF Init
<1>2. i \in 1 .. Len(Chain) + 1
  BY LenProperties, ProviderAssumption DEF Init
<1>3. TypeOK
  <2>1. sent \in Nat /\ last \in Nat /\ count \in Nat /\ callsAfter \in Nat /\ blamedAfter \in Nat
    BY DEF Init
  <2>2. {sent, last, count, callsAfter, blamedAfter} \subseteq Nat
    BY <2>1
  <2> QED
    BY <1>1, <1>2, <2>2 DEF Init, TypeOK
<1> QED
  BY <1>3 DEF Init, IInv, PlaceInv, BlameInv, InCall, AtIter

\* A call, or an attempt at one, fails: whatever becomes of the iterator, it
\* is not open any more.
LEMMA FailedKeeps ==
    ASSUME IInv, NEW kind, Failed(kind),
           InCall \/ (pc = "loop" /\ i <= Len(Chain) /\ ~IsTransient(kind)),
           iter' \in {"none", "eof", "failed"},
           UNCHANGED <<lines, server, expired, sent, last, done, count>>
    PROVE  IInv'
<1> USE DEF InCall
<1>1. /\ blamedAfter \in Nat /\ callsAfter = 0
      /\ IF InCall THEN blamedAfter = 0 ELSE blamedAfter <= 1
      /\ ~hungUp => blamedAfter = 0
      /\ i \in 1 .. Len(Chain) /\ Len(Chain) \in Nat
  BY LenProperties, ProviderAssumption DEF IInv, TypeOK, PlaceInv, BlameInv
<1>2. /\ blamedAfter' \in Nat /\ callsAfter' = 0
      /\ pc' = "loop" => InCall /\ blamedAfter' <= 1
      /\ blamedAfter' <= 2
      /\ ~hungUp' => blamedAfter' = 0
  BY <1>1 DEF Failed, After
<1>3. /\ i' \in 1 .. Len(Chain) + 1 /\ pc' \in {"loop", "over"}
      /\ UNCHANGED <<stream, hungUp>>
  BY <1>1 DEF Failed
<1>4. TypeOK'
  BY <1>2, <1>3 DEF IInv, TypeOK
<1>5. PlaceInv'
  BY <1>3 DEF PlaceInv, AtIter
<1>6. BlameInv'
  BY <1>2, <1>3 DEF BlameInv
<1>7. iter' # "open"
  OBVIOUS
<1> QED
  BY <1>4, <1>5, <1>6, <1>7 DEF IInv

LEMMA LoopStep ==
    ASSUME IInv, Loop PROVE IInv'
<1>0. iter # "open" \/ pc # "loop"
  BY DEF IInv, PlaceInv, AtIter
<1>1. CASE GiveUp
  BY <1>0, <1>1 DEF GiveUp, callVars, IInv, TypeOK, PlaceInv, BlameInv, InCall, AtIter
<1>2. CASE MarshalFails \/ NewRequestFails
  <2>1. /\ pc = "loop" /\ i <= Len(Chain) /\ UNCHANGED callVars
        /\ Failed("Validation") \/ Failed("Unknown")
    BY <1>2 DEF MarshalFails, NewRequestFails, CallFails
  <2>2. iter' \in {"none", "eof", "failed"}
    BY <1>0, <2>1 DEF IInv, TypeOK, callVars
  <2>3. ~IsTransient("Validation") /\ ~IsTransient("Unknown")
    BY DEF IsTransient
  <2>4. UNCHANGED <<lines, server, expired, sent, last, done, count>>
    BY <2>1 DEF callVars
  <2> QED
    BY <2>1, <2>2, <2>3, <2>4, FailedKeeps
<1>3. CASE Call
  BY <1>0, <1>3 DEF Call, IInv, TypeOK, PlaceInv, BlameInv, InCall, AtIter
<1>4. CASE CallCanceled
  <2>1. /\ pc = "loop" /\ pc' = "over" /\ hungUp
        /\ callsAfter' = callsAfter + 1 /\ blamedAfter' = blamedAfter + 1
        /\ UNCHANGED <<stream, i, callVars, hungUp>>
    BY <1>4 DEF CallCanceled
  <2>2. callsAfter' = 1 /\ blamedAfter' \in Nat /\ blamedAfter' <= 2
    BY <2>1 DEF IInv, BlameInv, TypeOK
  <2> QED
    BY <1>0, <2>1, <2>2 DEF callVars, IInv, TypeOK, PlaceInv, BlameInv, InCall, AtIter
<1> QED
  BY <1>1, <1>2, <1>3, <1>4 DEF Loop

LEMMA DoStep ==
    ASSUME IInv, Do PROVE IInv'
<1>0. pc = "do" /\ iter # "open" /\ i <= Len(Chain) /\ callsAfter = 0 /\ blamedAfter = 0
  BY DEF IInv, PlaceInv, BlameInv, AtIter, InCall, Do, DoFails, OpenBody, OpenStream,
         HTTPError, CallFails, Failed
<1>1. CASE DoFails \/ \E code \in Statuses : HTTPError(code)
  <2>1. PICK kind : CallFails(kind)
    BY <1>1 DEF DoFails, HTTPError
  <2>2. iter' \in {"none", "eof", "failed"}
    BY <1>0, <2>1 DEF CallFails, callVars, IInv, TypeOK
  <2>3. UNCHANGED <<lines, server, expired, sent, last, done, count>> /\ Failed(kind)
    BY <2>1 DEF CallFails, callVars
  <2>4. InCall
    BY <1>0 DEF InCall
  <2> QED
    BY <2>2, <2>3, <2>4, FailedKeeps
<1>2. CASE OpenBody
  BY <1>0, <1>2 DEF OpenBody, callVars, IInv, TypeOK, PlaceInv, BlameInv, InCall, AtIter
<1>3. CASE OpenStream
  <2>1. lines' \in Seq(Line) /\ Len(lines') = 0
    BY <1>3, EmptySeq DEF OpenStream
  <2>2. TypeOK'
    <3>1. sent' \in Nat /\ last' \in Nat /\ count' \in Nat /\ done' \in BOOLEAN
      BY <1>3 DEF OpenStream
    <3>2. callsAfter' \in Nat /\ blamedAfter' \in Nat
      BY <1>3 DEF OpenStream, IInv, TypeOK
    <3>3. {sent', last', count', callsAfter', blamedAfter'} \subseteq Nat
      BY <3>1, <3>2
    <3> QED
      BY <1>3, <2>1, <3>1, <3>3 DEF OpenStream, IInv, TypeOK
  <2>3. PlaceInv' /\ BlameInv'
    BY <1>0, <1>3 DEF OpenStream, IInv, PlaceInv, BlameInv, InCall, AtIter
  <2>4. Waiting(lines', 0, 0, FALSE)
    BY <2>1 DEF Waiting
  <2> QED
    BY <1>3, <2>2, <2>3, <2>4 DEF IInv, OpenStream
<1> QED
  BY <1>1, <1>2, <1>3 DEF Do

LEMMA CompleteStep ==
    ASSUME IInv, Complete PROVE IInv'
<1>0. pc = "body" /\ iter # "open" /\ i <= Len(Chain)
  BY DEF IInv, PlaceInv, AtIter, InCall, Complete, Decoded, DecodeFails
<1>1. CASE Decoded
  BY <1>0, <1>1 DEF Decoded, callVars, IInv, TypeOK, PlaceInv, BlameInv, InCall, AtIter
<1>2. CASE DecodeFails
  <2>1. iter' \in {"none", "eof", "failed"}
    BY <1>0, <1>2 DEF DecodeFails, CallFails, callVars, IInv, TypeOK
  <2>2. UNCHANGED <<lines, server, expired, sent, last, done, count>> /\ Failed("ServerError")
    BY <1>2 DEF DecodeFails, CallFails, callVars
  <2> QED
    BY <1>0, <2>1, <2>2, FailedKeeps DEF InCall
<1> QED
  BY <1>1, <1>2 DEF Complete
-----------------------------------------------------------------------------
\* What is known of the lines while an iterator is open.
LEMMA LinesKnown ==
    ASSUME IInv, AtIter
    PROVE  /\ lines \in Seq(Line) /\ last \in Nat /\ sent \in Nat /\ done \in BOOLEAN
           /\ Waiting(lines, last, sent, done)
           /\ lines # <<>> => Head(lines) = lines[1] /\ lines[1] \in Line
           /\ iter = "open" /\ i <= Len(Chain) /\ callsAfter = 0 /\ blamedAfter = 0
<1>1. lines \in Seq(Line)
  BY DEF IInv, TypeOK
<1>2. lines # <<>> => 1 \in 1 .. Len(lines)
  BY <1>1, EmptySeq
<1>3. lines # <<>> => Head(lines) = lines[1] /\ lines[1] \in Line
  BY <1>1, <1>2, ElementOfSeq
<1> QED
  BY <1>1, <1>3 DEF IInv, TypeOK, PlaceInv, BlameInv, InCall, AtIter

\* A line is taken from the front, and Next goes on or returns a chunk.
LEMMA TakeLine ==
    ASSUME IInv, SkipLine \/ Yield
    PROVE  /\ AtIter /\ lines # <<>> /\ lines' = Tail(lines) /\ lines' \in Seq(Line)
           /\ Waiting(lines', last', sent', done')
           /\ Yield => last < sent /\ last' = last + 1
           /\ SkipLine => last' = last
           /\ last' \in Nat
<1>1. AtIter /\ lines # <<>> /\ lines' = Tail(lines) /\ UNCHANGED <<sent, done>>
  BY DEF SkipLine, Yield, AtIter
<1>2. /\ lines \in Seq(Line) /\ last \in Nat /\ sent \in Nat /\ done \in BOOLEAN
      /\ Waiting(lines, last, sent, done) /\ Head(lines) = lines[1]
  BY <1>1, LinesKnown
<1>3. Tail(lines) \in Seq(Line)
  BY <1>1, <1>2, HeadTailProperties
<1>4. CASE SkipLine
  <2>1. lines[1].kind = "comment" /\ last' = last
    BY <1>2, <1>4 DEF SkipLine
  <2>2. Waiting(Tail(lines), last, sent, done)
    BY <1>1, <1>2, <2>1, ReadHead
  <2>3. ~Yield
    BY <1>2, <2>1 DEF Yield
  <2> QED
    BY <1>1, <1>2, <1>3, <2>1, <2>2, <2>3
<1>5. CASE Yield
  <2>1. lines[1].kind = "chunk" /\ last' = lines[1].number
    BY <1>2, <1>5 DEF Yield
  <2>2. last' = last + 1 /\ last < sent
    BY <1>1, <1>2, <2>1, HeadIsNext
  <2>3. last + 1 \in Nat
    BY <1>2
  <2>4. Waiting(Tail(lines), last + 1, sent, done)
    BY <1>1, <1>2, <2>1, <2>3, ReadHead
  <2>5. ~SkipLine
    BY <1>2, <2>1 DEF SkipLine
  <2> QED
    BY <1>1, <1>2, <1>3, <2>2, <2>3, <2>4, <2>5
<1> QED
  BY <1>4, <1>5

LEMMA IterEndsKeeps ==
    ASSUME IInv, AtIter, NEW how \in {"eof", "failed"}, NEW kind, IterEnds(how, kind)
    PROVE  IInv'
<1>1. InCall
  BY DEF AtIter, InCall
<1>2. /\ Failed(kind) /\ iter' \in {"none", "eof", "failed"}
      /\ UNCHANGED <<lines, server, expired, sent, last, done, count>>
  BY DEF IterEnds
<1> QED
  BY <1>1, <1>2, FailedKeeps

LEMMA ReadStep ==
    ASSUME IInv, Read PROVE IInv'
<1>0. AtIter
  BY DEF Read, CheckContext, SkipLine, Yield, EOF, DecodeLineFails, ReadFails, AtIter
<1>1. ASSUME NEW how \in {"eof", "failed"}, NEW kind, IterEnds(how, kind) PROVE IInv'
  BY <1>0, <1>1, IterEndsKeeps
<1>2. CASE CheckContext
  <2>1. CASE hungUp
    BY <1>1, <1>2, <2>1 DEF CheckContext
  <2>2. CASE ~hungUp
    BY <1>0, <1>2, <2>2 DEF CheckContext, callVars, IInv, TypeOK, PlaceInv, BlameInv, InCall, AtIter
  <2> QED
    BY <2>1, <2>2
<1>3. CASE SkipLine \/ Yield
  <2>1. /\ lines' \in Seq(Line) /\ last' \in Nat
        /\ Waiting(lines', last', sent', done')
    BY <1>3, TakeLine
  <2>2. /\ pc = "read" /\ pc' = "next"
        /\ UNCHANGED <<stream, i, server, expired, iter, sent, done, count, hungUp,
                       callsAfter, blamedAfter>>
    BY <1>3 DEF SkipLine, Yield
  <2>3. TypeOK'
    BY <2>1, <2>2 DEF IInv, TypeOK
  <2>4. PlaceInv' /\ BlameInv'
    BY <2>2 DEF IInv, PlaceInv, BlameInv, InCall, AtIter
  <2> QED
    BY <2>1, <2>3, <2>4 DEF IInv
<1>4. CASE EOF
  <2>1. CASE Committed
    <3>1. /\ pc = "read" /\ pc' = "over" /\ iter' = "eof"
          /\ UNCHANGED <<stream, i, lines, server, expired, sent, last, done, count,
                         hungUp, callsAfter, blamedAfter>>
      BY <1>4, <2>1 DEF EOF
    <3> QED
      BY <1>0, <3>1 DEF IInv, TypeOK, PlaceInv, BlameInv, InCall, AtIter
  <2>2. CASE ~Committed
    BY <1>1, <1>4, <2>2 DEF EOF
  <2> QED
    BY <2>1, <2>2
<1>5. CASE DecodeLineFails \/ ReadFails
  BY <1>1, <1>5 DEF DecodeLineFails, ReadFails
<1> QED
  BY <1>2, <1>3, <1>4, <1>5 DEF Read

\* The server sends a line: one that counts is the next chunk.
LEMMA SendLineAdds ==
    ASSUME IInv, NEW kind \in LineKind, SendLine(kind)
    PROVE  /\ AtIter /\ lines' \in Seq(Line) /\ sent' \in Nat /\ done' \in BOOLEAN
           /\ Waiting(lines', last', sent', done')
           /\ last' = last
<1>1. AtIter /\ last' = last
  BY DEF SendLine, AtIter
<1>2. /\ lines \in Seq(Line) /\ last \in Nat /\ sent \in Nat /\ done \in BOOLEAN
      /\ Waiting(lines, last, sent, done)
  BY <1>1, LinesKnown
<1> DEFINE x == [kind |-> kind, number |-> IF kind = "chunk" THEN sent + 1 ELSE 0]
<1>3. /\ x \in Line /\ x.kind = kind
      /\ kind = "chunk" => x.number = sent + 1
  BY <1>2 DEF Line
<1>4. /\ lines' = Append(lines, x)
      /\ sent' = IF kind = "chunk" /\ ~done THEN sent + 1 ELSE sent
      /\ done' = (done \/ kind = "[DONE]")
  BY DEF SendLine
<1> HIDE DEF x
<1>5. Append(lines, x) \in Seq(Line)
  BY <1>2, <1>3, AppendProperties
<1>6. CASE kind = "chunk" /\ ~done
  <2>1. done = FALSE
    BY <1>2, <1>6
  <2>2. Waiting(Append(lines, x), last, sent + 1, FALSE)
    BY <1>2, <1>3, <1>6, <2>1, SendCounted
  <2>3. sent' = sent + 1 /\ done' = FALSE /\ sent + 1 \in Nat
    BY <1>2, <1>4, <1>6, <2>1
  <2> QED
    BY <1>1, <1>4, <1>5, <2>2, <2>3
<1>7. CASE ~(kind = "chunk" /\ ~done)
  <2>1. Waiting(Append(lines, x), last, sent, done \/ x.kind = "[DONE]")
    BY <1>2, <1>3, <1>7, SendUncounted
  <2> QED
    BY <1>1, <1>2, <1>3, <1>4, <1>5, <1>7, <2>1
<1> QED
  BY <1>6, <1>7

LEMMA EnvironmentStep ==
    ASSUME IInv, Environment \/ Expire PROVE IInv'
<1>1. ASSUME NEW kind \in LineKind, SendLine(kind) PROVE IInv'
  <2>1. /\ lines' \in Seq(Line) /\ sent' \in Nat /\ done' \in BOOLEAN
        /\ Waiting(lines', last', sent', done')
    BY <1>1, SendLineAdds
  <2>2. /\ count' = count + 1
        /\ UNCHANGED <<stream, pc, i, server, expired, iter, last, hungUp, callsAfter, blamedAfter>>
    BY <1>1 DEF SendLine
  <2>3. TypeOK'
    BY <2>1, <2>2 DEF IInv, TypeOK
  <2>4. PlaceInv' /\ BlameInv'
    BY <2>2 DEF IInv, PlaceInv, BlameInv, InCall, AtIter
  <2> QED
    BY <2>1, <2>3, <2>4 DEF IInv
<1>2. CASE Disconnect
  BY <1>2 DEF Disconnect, IInv, TypeOK, PlaceInv, BlameInv, InCall, AtIter
<1>3. CASE HangUp
  BY <1>3 DEF HangUp, callVars, IInv, TypeOK, PlaceInv, BlameInv, InCall, AtIter
<1>4. CASE Expire
  BY <1>4 DEF Expire, IInv, TypeOK, PlaceInv, BlameInv, InCall, AtIter
<1> QED
  BY <1>1, <1>2, <1>3, <1>4 DEF Environment
-----------------------------------------------------------------------------
LEMMA StepIInv == IInv /\ [Next]_vars => IInv'
<1> SUFFICES ASSUME IInv, [Next]_vars PROVE IInv'
  OBVIOUS
<1>1. CASE UNCHANGED vars
  BY <1>1 DEF vars, callVars, IInv, TypeOK, PlaceInv, BlameInv, InCall, AtIter
<1> QED
  BY <1>1, LoopStep, DoStep, CompleteStep, ReadStep, EnvironmentStep DEF Next

\* IInv holds in every state, whatever the servers and the client do.
THEOREM Invariance == Spec => []IInv
BY InitIInv, StepIInv, PTL DEF Spec

THEOREM TypeCorrect == Spec => []TypeOK
<1>1. IInv => TypeOK
  BY DEF IInv
<1> QED
  BY <1>1, Invariance, PTL

\* A client that hangs up costs at most one more call, which sends nothing, and
\* two failures recorded against models, however long the chain.
THEOREM HangUpBlames == Spec => []HangUpBlamesAtMostTwo
<1>1. IInv => HangUpBlamesAtMostTwo
  BY DEF IInv, BlameInv, HangUpBlamesAtMostTwo
<1> QED
  BY <1>1, Invariance, PTL
-----------------------------------------------------------------------------
LEMMA ContractInit == Init => Contract!Init
BY DEF Init, Contract!Init

\* Every step of the provider is one of the iterator's contract, or none.
LEMMA ContractStep ==
    ASSUME IInv, [Next]_vars
    PROVE  [Contract!Next]_(Contract!vars)
<1> DEFINE ended == done \/ server = "closed"
<1> USE DEF Contract!vars
<1>1. CASE UNCHANGED <<iter, sent, last, done, server>>
  BY <1>1
<1>2. CASE Loop
  BY <1>1, <1>2 DEF Loop, GiveUp, MarshalFails, NewRequestFails, Call, CallCanceled, CallFails, callVars
<1>3. CASE Do
  <2>1. CASE OpenStream
    <3>1. iter # "open"
      BY <2>1 DEF OpenStream, IInv, PlaceInv, AtIter
    <3> QED
      BY <2>1, <3>1 DEF OpenStream, Contract!Next, Contract!Open
  <2>2. CASE ~OpenStream
    BY <1>1, <1>3, <2>2 DEF Do, DoFails, HTTPError, OpenBody, CallFails, callVars
  <2> QED
    BY <2>1, <2>2
<1>4. CASE Complete
  BY <1>1, <1>4 DEF Complete, Decoded, DecodeFails, CallFails, callVars
<1>5. ASSUME AtIter, NEW kind, IterEnds("failed", kind)
      PROVE  Contract!Next
  BY <1>5, LinesKnown DEF IterEnds, Contract!Next, Contract!Break
<1>6. CASE CheckContext
  <2>1. AtIter
    BY <1>6 DEF CheckContext, AtIter
  <2> QED
    BY <1>1, <1>5, <1>6, <2>1 DEF CheckContext, callVars
<1>7. CASE SkipLine
  <2>1. last' = last
    BY <1>7, TakeLine
  <2> QED
    BY <1>1, <1>7, <2>1 DEF SkipLine
<1>8. CASE Yield
  <2>1. AtIter /\ last < sent /\ last' = last + 1
    BY <1>8, TakeLine
  <2>2. iter = "open" /\ UNCHANGED <<iter, sent, done, server>>
    BY <1>8, <2>1, LinesKnown DEF Yield
  <2> QED
    BY <2>1, <2>2 DEF Contract!Next, Contract!Yield
<1>9. CASE EOF
  <2>1. AtIter
    BY <1>9 DEF EOF, AtIter
  <2>2. /\ lines \in Seq(Line) /\ last \in Nat /\ sent \in Nat /\ done \in BOOLEAN
        /\ Waiting(lines, last, sent, done) /\ iter = "open"
        /\ lines # <<>> => Head(lines) = lines[1]
    BY <2>1, LinesKnown
  <2>3. last = sent
    BY <1>9, <2>2, Drained DEF EOF
  <2>4. ended
    <3>1. CASE lines = <<>> /\ server = "closed"
      BY <3>1
    <3>2. CASE lines # <<>> /\ Head(lines).kind = "[DONE]"
      <4>1. 1 \in 1 .. Len(lines)
        BY <2>2, <3>2, EmptySeq
      <4> QED
        BY <2>2, <3>2, <4>1 DEF Waiting
    <3> QED
      BY <1>9, <3>1, <3>2 DEF EOF
  <2>5. iter' = "eof" /\ UNCHANGED <<sent, last, done, server>>
    BY <1>9 DEF EOF, IterEnds
  <2> QED
    BY <2>2, <2>3, <2>4, <2>5 DEF Contract!Next, Contract!Exhaust
<1>10. CASE DecodeLineFails \/ ReadFails
  <2>1. AtIter
    BY <1>10 DEF DecodeLineFails, ReadFails, AtIter
  <2> QED
    BY <1>5, <1>10, <2>1 DEF DecodeLineFails, ReadFails
<1>11. ASSUME NEW kind \in LineKind, SendLine(kind)
       PROVE  [Contract!Next]_(Contract!vars)
  <2>1. AtIter
    BY <1>11, SendLineAdds
  <2>2. iter = "open" /\ done \in BOOLEAN /\ server = "open"
    BY <1>11, <2>1, LinesKnown DEF SendLine
  <2>3. UNCHANGED <<iter, last, server>>
    BY <1>11 DEF SendLine
  <2>4. CASE kind = "chunk" /\ ~done
    <3>1. sent' = sent + 1 /\ done' = done
      BY <1>11, <2>2, <2>4 DEF SendLine
    <3> QED
      BY <2>2, <2>3, <2>4, <3>1 DEF Contract!Next, Contract!Send
  <2>5. CASE kind = "[DONE]"
    <3>1. sent' = sent /\ done' = TRUE
      BY <1>11, <2>2, <2>5 DEF SendLine
    <3> QED
      BY <2>2, <2>3, <3>1 DEF Contract!Next, Contract!End
  <2>6. CASE ~(kind = "chunk" /\ ~done) /\ kind # "[DONE]"
    <3>1. sent' = sent /\ done' = done
      BY <1>11, <2>2, <2>6 DEF SendLine
    <3> QED
      BY <1>1, <2>3, <3>1
  <2> QED
    BY <2>4, <2>5, <2>6
<1>12. CASE Disconnect
  <2>1. AtIter /\ server = "open" /\ server' \in {"closed", "reset"}
        /\ UNCHANGED <<iter, sent, last, done>>
    BY <1>12 DEF Disconnect, AtIter
  <2>2. iter = "open"
    BY <2>1, LinesKnown
  <2>3. CASE server' = "closed"
    BY <2>1, <2>2, <2>3 DEF Contract!Next, Contract!End
  <2>4. CASE server' = "reset"
    BY <2>1, <2>4
  <2> QED
    BY <2>1, <2>3, <2>4
<1>13. CASE HangUp \/ Expire
  BY <1>1, <1>13 DEF HangUp, Expire, callVars
<1>14. CASE UNCHANGED vars
  BY <1>1, <1>14 DEF vars, callVars
<1> QED
  BY <1>2, <1>3, <1>4, <1>6, <1>7, <1>8, <1>9, <1>10, <1>11, <1>12, <1>13, <1>14
  DEF Next, Read, Environment

\* The iterator keeps the contract of StreamIter: every chunk once and in order,
\* and the end of the stream only after the last.
THEOREM ImplementsIterHolds == Spec => ImplementsIter
BY ContractInit, ContractStep, Invariance, PTL DEF Spec, ImplementsIter, Contract!Spec
=============================================================================
