--------------------------- MODULE LoggingProofs ---------------------------
(* The way of an entry: the log and its archives for any sizes, numbers of   *)
(* archives to keep, and lengths of a run, and the pool whose workers write  *)
(* it for any number of handlers, workers and stores and any capacity. The   *)
(* invariant IInv says what each place of MaybeRotate implies of the files,  *)
(* and which file the writer may have open.                                  *)
EXTENDS LogFiles, LoggerPool, SumTheorems, SequenceTheorems

lines(n) == files[n].lines

\* The open file is the log, but between the rename and the reopening, when it
\* is the archive being made and there is no log.
HandleInv ==
    /\ handle # shut => files[handle].kind = "whole"
    /\ handle \in {Path, shut} \/ (handle = Raw(stamp) /\ step = "rotate")
    /\ step = "rotate" => ~Exists(Path)

\* An archive is torn only as long as the log it is made from is still there.
TornInv ==
    /\ files[Path].kind # "torn"
    /\ \A t \in Time : /\ files[Raw(t)].kind # "torn"
                       /\ files[Gz(t)].kind = "torn" => Exists(Raw(t))

\* No archive is later than the last rotation, and each holds nothing but what
\* the rotations of its second have renamed.
ArchiveInv ==
    /\ stamp <= now
    /\ \A t \in Time :
          /\ Exists(Raw(t)) \/ Exists(Gz(t)) => t <= stamp /\ rotations[t] >= 1
          /\ lines(Raw(t)) \subseteq rotatedIn[t]
          /\ lines(Gz(t)) \subseteq rotatedIn[t]

\* What is about to be overwritten was renamed by an earlier rotation of the
\* same second, and what is about to be removed has been copied.
StepInv ==
    /\ step \in {"rotate", "create", "copy", "remove"} => Exists(Raw(stamp))
    /\ step \in {"rotate", "create"} =>
          lines(Gz(stamp)) = {} \/ rotations[stamp] >= 2
    /\ step = "copy" => lines(Gz(stamp)) = {}
    /\ step = "remove" => /\ files[Gz(stamp)].kind = "whole"
                          /\ lines(Raw(stamp)) \subseteq lines(Gz(stamp))

\* Entries are numbered as they are offered.
Numbered == \A n \in Names : \A e \in lines(n) : e <= logged

IInv == /\ TypeOK /\ HandleInv /\ TornInv /\ ArchiveInv /\ StepInv
        /\ Numbered /\ InOrder /\ NothingLost
-----------------------------------------------------------------------------
\* Different files have different names.
LEMMA NamesDiffer ==
    /\ Path \in Names /\ shut \notin Names
    /\ \A t \in Time : /\ Raw(t) \in Names /\ Gz(t) \in Names
                       /\ Raw(t) # Path /\ Gz(t) # Path
                       /\ Raw(t) # shut /\ Gz(t) # shut
                       /\ Place(Raw(t)) = t /\ Place(Gz(t)) = t
    /\ \A t, u \in Time : /\ Raw(t) # Gz(u)
                          /\ t # u => Raw(t) # Raw(u) /\ Gz(t) # Gz(u)
    /\ \A n \in Names : n = Path \/ \E t \in Time : n = Raw(t) \/ n = Gz(t)
    /\ Path # shut
    /\ Place(Path) = MaxTime + 1
<1>1. Path \in Names /\ \A t \in Time : Raw(t) \in Names /\ Gz(t) \in Names
  BY DEF Names
<1>2. \A n \in Names : n = Path \/ \E t \in Time : n = Raw(t) \/ n = Gz(t)
  BY DEF Names
<1>3. /\ Path # shut
      /\ \A t \in Time : /\ Raw(t) # Path /\ Gz(t) # Path
                         /\ Raw(t) # shut /\ Gz(t) # shut
  BY DEF Path, Raw, Gz, shut
<1>4. \A t, u \in Time : /\ Raw(t) # Gz(u)
                         /\ t # u => Raw(t) # Raw(u) /\ Gz(t) # Gz(u)
  BY DEF Raw, Gz
<1>5. Place(Path) = MaxTime + 1
  BY DEF Place
<1>6. \A t \in Time : Place(Raw(t)) = t /\ Place(Gz(t)) = t
  BY <1>3 DEF Place, Raw, Gz
<1>7. shut \notin Names
  BY <1>2, <1>3
<1> QED
  BY <1>1, <1>2, <1>3, <1>4, <1>5, <1>6, <1>7

\* What a file may be.
Kinds == {NoFile, torn} \cup {Whole(ls) : ls \in SUBSET Entries}
LEMMA KindsOfFile ==
    /\ \A f \in Kinds : /\ f.lines \in SUBSET Entries
                        /\ f.kind \in {"none", "torn", "whole"}
                        /\ f.kind # "whole" => f.lines = {}
                        /\ f.kind = "whole" => f = Whole(f.lines)
                        /\ f.kind = "none" => f = NoFile
                        /\ f.kind = "torn" => f = torn
    /\ \A ls \in SUBSET Entries : /\ Whole(ls) \in Kinds
                                  /\ Whole(ls).kind = "whole"
                                  /\ Whole(ls).lines = ls
    /\ NoFile \in Kinds /\ NoFile.kind = "none" /\ NoFile.lines = {}
    /\ torn \in Kinds /\ torn.kind = "torn" /\ torn.lines = {}
<1>1. \A ls \in SUBSET Entries : /\ Whole(ls) \in Kinds
                                  /\ Whole(ls).kind = "whole"
                                  /\ Whole(ls).lines = ls
  BY DEF Kinds, Whole
<1>2. NoFile \in Kinds /\ NoFile.kind = "none" /\ NoFile.lines = {}
  BY DEF Kinds, NoFile
<1>3. torn \in Kinds /\ torn.kind = "torn" /\ torn.lines = {}
  BY DEF Kinds, torn
<1>4. \A f \in Kinds : f = NoFile \/ f = torn \/ \E ls \in SUBSET Entries : f = Whole(ls)
  BY DEF Kinds
<1> QED
  BY <1>1, <1>2, <1>3, <1>4

\* A set of instants that is not empty has a latest.
LEMMA LatestExists ==
    ASSUME NEW T \in SUBSET Time, T # {}
    PROVE  Max(T) \in T /\ \A x \in T : x <= Max(T)
<1> DEFINE left == {MaxTime - x : x \in T}
<1>1. left \subseteq Nat /\ left # {}
  <2>1. \A x \in T : MaxTime - x \in Nat
    BY MaxTimeAssumption DEF Time
  <2> QED
    BY <2>1
<1>2. PICK z \in left : \A y \in left : z <= y
  <2> HIDE DEF left
  <2> QED
    BY <1>1, LeastOf
<1>3. PICK x \in T : z = MaxTime - x
  BY <1>2
<1>4. ASSUME NEW y \in T
      PROVE  MaxTime - x <= MaxTime - y
  BY <1>2, <1>3
<1>5. \A y \in T : x >= y
  BY <1>4, MaxTimeAssumption DEF Time
<1> DEFINE m == CHOOSE w \in T : \A y \in T : w >= y
<1>6. m \in T /\ \A y \in T : m >= y
  BY <1>5
<1>7. Max(T) = m
  BY DEF Max
<1> HIDE DEF m
<1> QED
  BY <1>6, <1>7, MaxTimeAssumption DEF Time

LEMMA FileFacts ==
    ASSUME TypeOK
    PROVE  /\ files \in [Names -> Kinds]
           /\ \A n \in Names : /\ lines(n) \in SUBSET Entries
                               /\ files[n].kind \in {"none", "torn", "whole"}
                               /\ files[n].kind # "whole" => lines(n) = {}
                               /\ files[n].kind = "whole" => files[n] = Whole(lines(n))
                               /\ files[n].kind = "none" => files[n] = NoFile
<1>1. files \in [Names -> Kinds]
  BY DEF TypeOK, Kinds
<1> QED
  BY <1>1, KindsOfFile DEF lines

\* A step that moves entries to files of the same stamp, or none at all, keeps
\* them in order.
LEMMA CopiesInOrder ==
    ASSUME InOrder,
           \A n \in Names : \A e \in lines(n)' :
               \E m \in Names : e \in lines(m) /\ Place(m) = Place(n)
    PROVE  InOrder'
BY DEF InOrder, lines

\* A step that keeps every file's entries where they are on disk loses nothing.
LEMMA KeepsAll ==
    ASSUME NothingLost, UNCHANGED <<accepted, rotatedIn, rotations>>, pruned \subseteq pruned',
           \A n \in Names : \A e \in lines(n) :
              \/ \E m \in Names : e \in lines(m)'
              \/ e \in pruned'
              \/ \E t \in Time : rotations[t] > 1 /\ e \in rotatedIn[t]
    PROVE  NothingLost'
BY DEF NothingLost, OnDisk, lines

LEMMA InitIInv == Init => IInv
<1> SUFFICES ASSUME Init PROVE IInv
  OBVIOUS
<1>1. /\ files[Path] = Whole({})
      /\ \A n \in Names : n # Path => files[n] = NoFile
      /\ files \in [Names -> Kinds]
  BY NamesDiffer, KindsOfFile DEF Init, Opened
<1>2. \A n \in Names : lines(n) = {}
  BY <1>1, KindsOfFile DEF lines
<1>3. TypeOK
  BY <1>1, NamesDiffer, MaxTimeAssumption, LogAssumption DEF Init, TypeOK, ClockInit, Time, Kinds
<1>4. HandleInv
  BY <1>1, KindsOfFile DEF Init, HandleInv, Exists
<1>5. TornInv
  BY <1>1, KindsOfFile, NamesDiffer DEF TornInv
<1>6. ArchiveInv
  BY <1>1, <1>2, KindsOfFile, NamesDiffer DEF Init, ClockInit, ArchiveInv, Exists
<1>7. StepInv
  BY DEF Init, StepInv
<1>8. Numbered /\ InOrder
  BY <1>2 DEF Numbered, InOrder, lines
<1>9. NothingLost
  BY DEF Init, NothingLost
<1> QED
  BY <1>3, <1>4, <1>5, <1>6, <1>7, <1>8, <1>9 DEF IInv
-----------------------------------------------------------------------------
\* Time passes, and with it nothing in the directory.
LEMMA PassTimeStep ==
    ASSUME IInv, PassTime PROVE IInv'
<1> USE DEF PassTime, Tick, history
<1>1. TypeOK'
  BY MaxTimeAssumption DEF IInv, TypeOK, Time
<1>2. HandleInv' /\ TornInv'
  BY DEF IInv, HandleInv, TornInv, Exists
<1>3. ArchiveInv'
  BY MaxTimeAssumption DEF IInv, TypeOK, ArchiveInv, Exists, lines, Time
<1>4. StepInv' /\ Numbered'
  BY DEF IInv, StepInv, Numbered, Exists, lines
<1>5. InOrder' /\ NothingLost'
  BY DEF IInv, InOrder, NothingLost, OnDisk
<1> QED
  BY <1>1, <1>2, <1>3, <1>4, <1>5 DEF IInv

LEMMA LogFailsStep ==
    ASSUME IInv, LogFails PROVE IInv'
<1> USE DEF LogFails, Fault
<1>1. TypeOK'
  BY LogAssumption DEF IInv, TypeOK
<1>2. HandleInv' /\ TornInv'
  BY DEF IInv, HandleInv, TornInv, Exists
<1>3. ArchiveInv' /\ StepInv'
  BY DEF IInv, ArchiveInv, StepInv, Exists, lines
<1>4. Numbered'
  <2>1. \A n \in Names : lines(n) \subseteq Entries
    BY FileFacts DEF IInv
  <2>2. logged' = logged + 1 /\ logged \in Nat /\ files' = files
    BY DEF IInv, TypeOK
  <2>3. \A n \in Names : \A e \in lines(n) : e <= logged /\ e \in Nat
    BY <2>1, LogAssumption DEF Entries, IInv, Numbered
  <2> QED
    BY <2>2, <2>3 DEF Numbered, lines
<1>5. InOrder' /\ NothingLost'
  BY DEF IInv, InOrder, NothingLost, OnDisk
<1> QED
  BY <1>1, <1>2, <1>3, <1>4, <1>5 DEF IInv

\* MaybeRotate returns, and the files stay as they are.
LEMMA ReturnStep ==
    ASSUME IInv, RotateFails \/ GzipFails \/ PruneEnds \/ PruneFails PROVE IInv'
<1> USE DEF RotateFails, GzipFails, PruneEnds, PruneFails, Fault, history
<1>1. /\ UNCHANGED <<now, files, stamp, history, crashes>>
      /\ step' = "idle"
      /\ handle' = shut \/ (handle' = handle /\ handle = Path)
      /\ faults' \in {faults, faults + 1}
  BY DEF IInv, HandleInv
<1>2. TypeOK'
  BY <1>1, NamesDiffer DEF IInv, TypeOK
<1>3. HandleInv' /\ TornInv'
  BY <1>1 DEF IInv, HandleInv, TornInv, Exists
<1>4. ArchiveInv' /\ StepInv' /\ Numbered'
  BY <1>1 DEF IInv, ArchiveInv, StepInv, Numbered, Exists, lines
<1>5. InOrder' /\ NothingLost'
  BY <1>1 DEF IInv, InOrder, NothingLost, OnDisk
<1> QED
  BY <1>2, <1>3, <1>4, <1>5 DEF IInv

\* An entry goes to the open file, which is the log, or the archive that is
\* being made while there is no log.
LEMMA LogStep ==
    ASSUME IInv, Log PROVE IInv'
<1> DEFINE e == logged + 1
<1> USE DEF lines, Exists
<1>0. TypeOK /\ HandleInv /\ TornInv /\ ArchiveInv /\ StepInv
  BY DEF IInv
<1>1. /\ handle \in Names /\ files[handle] = Whole(lines(handle))
      /\ handle = Path \/ (handle = Raw(stamp) /\ step = "rotate" /\ ~Exists(Path))
      /\ stamp \in Time
  BY <1>0, NamesDiffer, FileFacts DEF Log, HandleInv, TypeOK
<1>2. e \in Entries /\ e \in Nat /\ logged \in Nat
  BY <1>0, LogAssumption DEF Log, TypeOK, Entries
<1>3. /\ files' \in [Names -> Kinds]
      /\ files'[handle] = Whole(lines(handle) \cup {e})
      /\ \A n \in Names : n # handle => files'[n] = files[n]
  <2>1. files' = [files EXCEPT ![handle] = Whole(lines(handle) \cup {e})]
    <3>1. files[handle] = [kind |-> "whole", lines |-> lines(handle)]
      BY <1>1 DEF Whole
    <3>2. [files[handle] EXCEPT !.lines = @ \cup {e}] = Whole(lines(handle) \cup {e})
      BY <3>1 DEF Whole
    <3> QED
      BY <3>2 DEF Log
  <2>2. Whole(lines(handle) \cup {e}) \in Kinds
    BY <1>0, <1>1, <1>2, FileFacts, KindsOfFile
  <2> QED
    BY <1>0, <1>1, <2>1, <2>2, FileFacts
<1>4. /\ files'[handle].lines = lines(handle) \cup {e}
      /\ \A n \in Names : n # handle => files'[n].lines = lines(n)
      /\ \A n \in Names : files'[n].kind = files[n].kind
      /\ \A n \in Names : (files'[n].kind # "none") = Exists(n)
  <2>1. lines(handle) \cup {e} \in SUBSET Entries
    BY <1>0, <1>1, <1>2, FileFacts
  <2>2. files[handle].kind = "whole" /\ files'[handle].kind = "whole"
    BY <1>0, <1>1, <1>3, <2>1, FileFacts, KindsOfFile
  <2>3. files'[handle].lines = lines(handle) \cup {e}
    BY <1>3, <2>1, KindsOfFile DEF lines, Log
  <2> QED
    BY <1>3, <2>2, <2>3 DEF lines, Exists, Log
<1>5. UNCHANGED <<now, handle, step, stamp, rotations, pruned, faults, crashes>>
      /\ logged' = e /\ accepted' = accepted \cup {e}
  BY DEF Log
<1>6. \A t \in Time : rotatedIn'[t] = rotatedIn[t] \cup IF handle = Raw(t) THEN {e} ELSE {}
  BY DEF Log
<1>7. TypeOK'
  <2>1. rotatedIn' \in [Time -> SUBSET Entries]
    BY <1>0, <1>2 DEF Log, TypeOK
  <2>2. logged' \in 0 .. MaxEntries
    BY <1>0, <1>2, LogAssumption DEF Log, TypeOK, Entries
  <2> QED
    BY <1>0, <1>2, <1>3, <1>5, <2>1, <2>2 DEF TypeOK, Kinds
<1>8. HandleInv'
  BY <1>0, <1>1, <1>4, <1>5, NamesDiffer DEF HandleInv
<1>9. TornInv'
  BY <1>0, <1>4, <1>5, NamesDiffer DEF TornInv
<1>10. ArchiveInv'
  BY <1>0, <1>1, <1>4, <1>5, <1>6, NamesDiffer DEF ArchiveInv
<1>11. StepInv'
  <2>1. files'[Gz(stamp)].lines = lines(Gz(stamp)) /\ handle # Gz(stamp)
    BY <1>1, <1>4, NamesDiffer
  <2>2. step = "remove" => files'[Raw(stamp)].lines = lines(Raw(stamp))
    BY <1>1, <1>4, NamesDiffer
  <2> QED
    BY <1>0, <1>1, <1>4, <1>5, <2>1, <2>2, NamesDiffer DEF StepInv
<1>12. \A n \in Names : \A d \in lines(n) : d <= logged /\ d \in Nat /\ d < e
  <2>1. \A n \in Names : lines(n) \subseteq Entries
    BY <1>0, FileFacts
  <2> QED
    BY <1>2, <2>1 DEF IInv, Numbered, Entries
<1>13. Numbered'
  <2>1. ASSUME NEW n \in Names, NEW d \in files'[n].lines
        PROVE  d <= e
    BY <1>2, <1>4, <1>12, <2>1
  <2> QED
    BY <1>5, <2>1 DEF Numbered, lines
<1>14. InOrder'
  <2>1. ASSUME NEW n \in Names, Place(handle) < Place(n) PROVE lines(n) = {}
    <3>1. CASE handle = Path
      <4>1. \A t \in Time : ~ (MaxTime + 1 < t)
        BY MaxTimeAssumption DEF Time
      <4>2. ~ (MaxTime + 1 < MaxTime + 1)
        BY MaxTimeAssumption
      <4> QED
        BY <2>1, <3>1, <4>1, <4>2, NamesDiffer
    <3>2. CASE handle = Raw(stamp) /\ ~Exists(Path)
      <4>1. CASE n = Path
        BY <1>0, <3>2, <4>1, FileFacts DEF Exists
      <4>2. CASE n # Path
        <5>1. PICK t \in Time : n = Raw(t) \/ n = Gz(t)
          BY <4>2, NamesDiffer
        <5>2. ~ (t <= stamp)
          BY <1>1, <2>1, <3>2, <5>1, NamesDiffer DEF Time
        <5>3. ~Exists(n)
          BY <1>0, <5>1, <5>2 DEF ArchiveInv
        <5> QED
          BY <1>0, <5>3, FileFacts DEF Exists
      <4> QED
        BY <4>1, <4>2
    <3> QED
      BY <1>1, <3>1, <3>2
  <2>2. ASSUME NEW m \in Names, NEW n \in Names,
               NEW a \in files'[m].lines, NEW b \in files'[n].lines, Place(m) < Place(n)
        PROVE  a < b
    <3>1. CASE a \in lines(m) /\ b \in lines(n)
      BY <2>2, <3>1 DEF IInv, InOrder, lines
    <3>2. CASE b \notin lines(n)
      <4>1. n = handle /\ b = e /\ m # handle
        BY <1>4, <2>2, <3>2, NamesDiffer, MaxTimeAssumption DEF Time
      <4> QED
        BY <1>4, <1>12, <4>1
    <3>3. CASE a \notin lines(m)
      <4>1. m = handle
        BY <1>4, <3>3
      <4>2. lines(n) = {} /\ n # handle
        BY <2>1, <2>2, <4>1, NamesDiffer, MaxTimeAssumption DEF Time
      <4> QED
        BY <1>4, <4>2
    <3> QED
      BY <3>1, <3>2, <3>3
  <2> QED
    BY <2>2 DEF InOrder, lines
<1>15. NothingLost'
  <2>1. ASSUME NEW d \in accepted, OnDisk(d)
        PROVE  \E n \in Names : d \in files'[n].lines
    BY <1>4, <2>1 DEF OnDisk
  <2>2. \E n \in Names : e \in files'[n].lines
    BY <1>1, <1>4
  <2>3. \A t \in Time : rotatedIn[t] \subseteq rotatedIn'[t]
    BY <1>6
  <2>4. ASSUME NEW d \in accepted'
        PROVE  \/ \E n \in Names : d \in files'[n].lines
               \/ d \in pruned'
               \/ \E t \in Time : rotations'[t] > 1 /\ d \in rotatedIn'[t]
    <3>1. CASE d \in accepted
      BY <1>5, <2>1, <2>3, <3>1 DEF IInv, NothingLost
    <3> QED
      BY <1>5, <2>2, <2>4, <3>1
  <2> QED
    BY <2>4 DEF NothingLost, OnDisk
<1> QED
  BY <1>7, <1>8, <1>9, <1>10, <1>11, <1>13, <1>14, <1>15 DEF IInv

\* The log takes the archive's name, and with it the file that is open.
LEMMA RenameStep ==
    ASSUME IInv, Rename PROVE IInv'
<1> USE DEF lines, Exists
<1>0. TypeOK /\ HandleInv /\ TornInv /\ ArchiveInv /\ StepInv
  BY DEF IInv
<1>1. now \in Time /\ stamp' = now /\ stamp <= now /\ stamp \in Time
  BY <1>0 DEF Rename, Stamp, TypeOK, ArchiveInv
<1>2. /\ files[Path].kind = "whole" /\ handle \in {Path, shut}
      /\ lines(Path) \in SUBSET Entries
  BY <1>0, FileFacts, NamesDiffer DEF Rename, TornInv, HandleInv
<1>3. /\ files' \in [Names -> Kinds]
      /\ files'[Path] = NoFile
      /\ files'[Raw(now)] = files[Path]
      /\ \A n \in Names \ {Path, Raw(now)} : files'[n] = files[n]
  <2>1. files' = [files EXCEPT ![Raw(now)] = files[Path], ![Path] = NoFile]
    BY <1>1 DEF Rename
  <2> QED
    BY <1>0, <1>1, <2>1, FileFacts, NamesDiffer, KindsOfFile
<1>4. /\ rotatedIn'[now] = rotatedIn[now] \cup lines(Path)
      /\ rotations'[now] = rotations[now] + 1 /\ rotations[now] \in Nat
      /\ \A t \in Time \ {now} : /\ rotatedIn'[t] = rotatedIn[t]
                                 /\ rotations'[t] = rotations[t]
      /\ rotatedIn' \in [Time -> SUBSET Entries] /\ rotations' \in [Time -> Nat]
  BY <1>0, <1>1, <1>2 DEF Rename, TypeOK
<1>5. /\ step' = "rotate" /\ step = "idle"
      /\ handle' = IF handle = Path THEN Raw(now) ELSE handle
      /\ UNCHANGED <<now, logged, accepted, pruned, faults, crashes>>
  BY <1>1 DEF Rename
<1>6. TypeOK'
  BY <1>0, <1>1, <1>2, <1>3, <1>4, <1>5, NamesDiffer DEF TypeOK, Kinds
<1>7. HandleInv'
  BY <1>1, <1>2, <1>3, <1>5, NamesDiffer, KindsOfFile DEF HandleInv
<1>8. TornInv'
  <2>1. \A t \in Time : files[Raw(t)].kind # "none" => files'[Raw(t)].kind # "none"
    BY <1>1, <1>2, <1>3, NamesDiffer
  <2>2. \A t \in Time : files'[Gz(t)] = files[Gz(t)]
    BY <1>1, <1>3, NamesDiffer
  <2> QED
    BY <1>0, <1>1, <1>2, <1>3, <2>1, <2>2, NamesDiffer, KindsOfFile DEF TornInv
<1>9. ArchiveInv'
  <2>1. ASSUME NEW t \in Time, t # now
        PROVE  files'[Raw(t)] = files[Raw(t)]
    BY <1>1, <1>3, <2>1, NamesDiffer
  <2>2. \A t \in Time : files'[Gz(t)] = files[Gz(t)]
    BY <1>1, <1>3, NamesDiffer
  <2>3. ASSUME NEW t \in Time, files'[Raw(t)].kind # "none" \/ files'[Gz(t)].kind # "none"
        PROVE  t <= now /\ rotations'[t] >= 1
    <3>1. CASE t = now
      BY <1>1, <1>4, <3>1 DEF Time
    <3>2. CASE t # now
      <4>1. t <= stamp /\ rotations[t] >= 1
        BY <1>0, <2>1, <2>2, <2>3, <3>2 DEF ArchiveInv
      <4> QED
        BY <1>1, <1>4, <3>2, <4>1 DEF Time
    <3> QED
      BY <3>1, <3>2
  <2>4. ASSUME NEW t \in Time
        PROVE  files'[Raw(t)].lines \subseteq rotatedIn'[t] /\ files'[Gz(t)].lines \subseteq rotatedIn'[t]
    <3>1. files[Raw(t)].lines \subseteq rotatedIn[t] /\ files[Gz(t)].lines \subseteq rotatedIn[t]
      BY <1>0 DEF ArchiveInv
    <3>2. CASE t = now
      BY <1>1, <1>3, <1>4, <2>2, <3>1, <3>2
    <3>3. CASE t # now
      BY <1>4, <2>1, <2>2, <3>1, <3>3
    <3> QED
      BY <3>2, <3>3
  <2> QED
    BY <1>1, <1>5, <2>3, <2>4 DEF ArchiveInv, Time
<1>10. files'[Gz(now)] = files[Gz(now)] /\ files'[Raw(now)].kind = "whole"
  BY <1>1, <1>2, <1>3, NamesDiffer
<1>11. StepInv'
  <2>1. files[Gz(now)].lines # {} => rotations[now] >= 1
    BY <1>0, <1>1, FileFacts, NamesDiffer DEF ArchiveInv
  <2>2. files'[Gz(now)].lines = {} \/ rotations'[now] >= 2
    BY <1>4, <1>10, <2>1
  <2> QED
    BY <1>1, <1>5, <1>10, <2>2 DEF StepInv
<1>12. \A n \in Names : \A d \in files'[n].lines : \E m \in Names : d \in lines(m)
  BY <1>3, NamesDiffer, KindsOfFile
<1>13. Numbered'
  BY <1>5, <1>12 DEF IInv, Numbered
<1>14. InOrder'
  <2>1. ASSUME NEW n \in Names, Place(n) > now PROVE files'[n].lines = {}
    <3>1. CASE n = Path
      BY <1>3, <3>1, KindsOfFile
    <3>2. CASE n # Path
      <4>1. PICK t \in Time : n = Raw(t) \/ n = Gz(t)
        BY <3>2, NamesDiffer
      <4>2. ~ (t <= stamp) /\ t # now
        BY <1>1, <2>1, <4>1, NamesDiffer DEF Time
      <4>3. files[n].kind = "none" /\ n # Raw(now)
        BY <1>0, <1>1, <4>1, <4>2, NamesDiffer DEF ArchiveInv
      <4> QED
        BY <1>0, <1>3, <3>2, <4>3, FileFacts
    <3> QED
      BY <3>1, <3>2
  <2>2. ASSUME NEW m \in Names, NEW n \in Names,
               NEW a \in files'[m].lines, NEW b \in files'[n].lines, Place(m) < Place(n)
        PROVE  a < b
    <3>1. Place(n) <= now
      BY <1>1, <2>1, NamesDiffer, MaxTimeAssumption DEF Time
    <3>2. n # Path /\ m # Path /\ m # Raw(now)
      <4>1. Place(m) < now
        BY <1>1, <2>2, <3>1, NamesDiffer, MaxTimeAssumption DEF Time
      <4> QED
        BY <1>1, <2>2, <3>1, <4>1, NamesDiffer, MaxTimeAssumption DEF Time
    <3>3. a \in lines(m)
      BY <1>3, <3>2
    <3>4. CASE n = Raw(now)
      <4>1. b \in lines(Path)
        BY <1>3, <3>4
      <4>2. Place(m) < Place(Path)
        BY <1>1, <2>2, <3>4, NamesDiffer, MaxTimeAssumption DEF Time
      <4> QED
        BY <3>3, <4>1, <4>2, NamesDiffer DEF IInv, InOrder
    <3>5. CASE n # Raw(now)
      <4>1. b \in lines(n)
        BY <1>3, <3>2, <3>5
      <4> QED
        BY <2>2, <3>3, <4>1 DEF IInv, InOrder
    <3> QED
      BY <3>4, <3>5
  <2> QED
    BY <2>2 DEF InOrder
<1>15. NothingLost'
  <2>1. ASSUME NEW d \in accepted
        PROVE  \/ \E n \in Names : d \in files'[n].lines
               \/ d \in pruned
               \/ \E t \in Time : rotations'[t] > 1 /\ d \in rotatedIn'[t]
    <3>1. CASE \E n \in Names : d \in lines(n)
      <4>1. PICK n \in Names : d \in lines(n)
        BY <3>1
      <4>2. CASE n = Path
        BY <1>1, <1>3, <4>1, <4>2, NamesDiffer
      <4>3. CASE n = Raw(now)
        <5>1. d \in rotatedIn[now] /\ rotations[now] >= 1
          BY <1>0, <1>1, <4>1, <4>3, FileFacts DEF ArchiveInv
        <5>2. rotations'[now] > 1
          BY <1>4, <5>1
        <5> QED
          BY <1>1, <1>4, <5>1, <5>2
      <4>4. CASE n \notin {Path, Raw(now)}
        BY <1>3, <4>1, <4>4
      <4> QED
        BY <4>2, <4>3, <4>4
    <3>2. CASE \E t \in Time : rotations[t] > 1 /\ d \in rotatedIn[t]
      <4>1. PICK t \in Time : rotations[t] > 1 /\ d \in rotatedIn[t]
        BY <3>2
      <4>2. rotations'[t] > 1
        BY <1>4, <4>1
      <4> QED
        BY <1>4, <4>1, <4>2
    <3> QED
      BY <3>1, <3>2 DEF IInv, NothingLost, OnDisk
  <2> QED
    BY <1>5, <2>1 DEF NothingLost, OnDisk
<1> QED
  BY <1>6, <1>7, <1>8, <1>9, <1>11, <1>13, <1>14, <1>15 DEF IInv

\* The log is opened, by Rotate or by the process that takes over after a crash.
LEMMA ReopenStep ==
    ASSUME IInv, Rotate \/ Crash PROVE IInv'
<1> USE DEF lines, Exists
<1>0. TypeOK /\ HandleInv /\ TornInv /\ ArchiveInv /\ StepInv
  BY DEF IInv
<1>1. /\ files' = Opened(files, Path) /\ handle' = Path
      /\ step' = "idle" \/ (step = "rotate" /\ step' = "create")
      /\ UNCHANGED <<now, stamp, logged, accepted, rotatedIn, rotations, pruned, faults>>
      /\ crashes' \in {crashes, crashes + 1}
  BY DEF Rotate, Crash, history
<1>2. /\ files' \in [Names -> Kinds]
      /\ files'[Path].kind = "whole" /\ files'[Path].lines = lines(Path)
      /\ \A n \in Names \ {Path} : files'[n] = files[n]
  <2>1. Whole({}) \in Kinds /\ Whole({}).kind = "whole" /\ Whole({}).lines = {}
    BY KindsOfFile
  <2>2. CASE files[Path].kind = "none"
    <3>1. files' = [files EXCEPT ![Path] = Whole({})]
      BY <1>1, <2>2 DEF Opened
    <3>2. lines(Path) = {}
      BY <1>0, <2>2, FileFacts, NamesDiffer
    <3> QED
      BY <1>0, <2>1, <3>1, <3>2, FileFacts, NamesDiffer
  <2>3. CASE files[Path].kind # "none"
    <3>1. files' = files
      BY <1>1, <2>3 DEF Opened
    <3>2. files[Path].kind = "whole"
      BY <1>0, <2>3, FileFacts, NamesDiffer DEF TornInv
    <3> QED
      BY <1>0, <3>1, <3>2, FileFacts
  <2> QED
    BY <2>2, <2>3
<1>3. \A n \in Names : files'[n].lines = lines(n)
  BY <1>2
<1>4. \A t \in Time : files'[Raw(t)] = files[Raw(t)] /\ files'[Gz(t)] = files[Gz(t)]
  BY <1>2, NamesDiffer
<1>5. TypeOK'
  BY <1>0, <1>1, <1>2, NamesDiffer DEF TypeOK, Kinds
<1>6. HandleInv'
  BY <1>1, <1>2, NamesDiffer DEF HandleInv
<1>7. TornInv'
  BY <1>0, <1>2, <1>4 DEF TornInv
<1>8. ArchiveInv'
  BY <1>0, <1>1, <1>4 DEF ArchiveInv
<1>9. StepInv'
  <2>1. stamp \in Time
    BY <1>0 DEF TypeOK
  <2> QED
    BY <1>0, <1>1, <1>4, <2>1 DEF StepInv
<1>10. Numbered'
  BY <1>1, <1>3 DEF IInv, Numbered
<1>11. InOrder'
  BY <1>3, CopiesInOrder DEF IInv
<1>12. NothingLost'
  BY <1>1, <1>3, KeepsAll DEF IInv
<1> QED
  BY <1>5, <1>6, <1>7, <1>8, <1>9, <1>10, <1>11, <1>12 DEF IInv

\* The archive is created, empty; what it replaces was made within the same
\* second.
LEMMA GzipCreateStep ==
    ASSUME IInv, GzipCreate PROVE IInv'
<1> USE DEF lines, Exists
<1>0. TypeOK /\ HandleInv /\ TornInv /\ ArchiveInv /\ StepInv
  BY DEF IInv
<1>1. /\ stamp \in Time /\ step = "create" /\ step' = "copy"
      /\ UNCHANGED <<now, handle, stamp, logged, accepted, rotatedIn, rotations, pruned,
                     faults, crashes>>
  BY <1>0 DEF GzipCreate, TypeOK, history
<1>2. /\ files' \in [Names -> Kinds]
      /\ files'[Gz(stamp)] = torn
      /\ \A n \in Names \ {Gz(stamp)} : files'[n] = files[n]
  BY <1>0, <1>1, FileFacts, NamesDiffer, KindsOfFile DEF GzipCreate
<1>3. /\ files'[Path] = files[Path]
      /\ \A t \in Time : /\ files'[Raw(t)] = files[Raw(t)]
                         /\ t # stamp => files'[Gz(t)] = files[Gz(t)]
  BY <1>1, <1>2, NamesDiffer
<1>4. files[Raw(stamp)].kind # "none"
  BY <1>0, <1>1 DEF StepInv
<1>5. TypeOK'
  BY <1>0, <1>1, <1>2 DEF TypeOK, Kinds
<1>6. HandleInv'
  BY <1>0, <1>1, <1>3 DEF HandleInv
<1>7. TornInv'
  BY <1>0, <1>3, <1>4 DEF TornInv
<1>8. ArchiveInv'
  <2>1. stamp <= stamp /\ rotations[stamp] >= 1
    BY <1>0, <1>1, <1>4 DEF ArchiveInv
  <2> QED
    BY <1>0, <1>1, <1>2, <1>3, <2>1, KindsOfFile DEF ArchiveInv
<1>9. StepInv'
  BY <1>1, <1>2, <1>3, <1>4, KindsOfFile DEF StepInv
<1>10. \A n \in Names : files'[n].lines \subseteq lines(n)
  BY <1>2, KindsOfFile
<1>11. Numbered' /\ InOrder'
  BY <1>1, <1>10, CopiesInOrder DEF IInv, Numbered
<1>12. NothingLost'
  <2>1. ASSUME NEW n \in Names, NEW d \in lines(n), d \notin files'[n].lines
        PROVE  rotations[stamp] > 1 /\ d \in rotatedIn[stamp]
    <3>1. n = Gz(stamp)
      BY <1>2, <2>1
    <3>2. rotations[stamp] >= 2
      BY <1>0, <1>1, <2>1, <3>1 DEF StepInv
    <3>3. rotations[stamp] \in Nat
      BY <1>0, <1>1 DEF TypeOK
    <3> QED
      BY <1>0, <1>1, <2>1, <3>1, <3>2, <3>3 DEF ArchiveInv
  <2> QED
    BY <1>1, <2>1, KeepsAll DEF IInv
<1> QED
  BY <1>5, <1>6, <1>7, <1>8, <1>9, <1>11, <1>12 DEF IInv

LEMMA GzipCopyStep ==
    ASSUME IInv, GzipCopy PROVE IInv'
<1> USE DEF lines, Exists
<1>0. TypeOK /\ HandleInv /\ TornInv /\ ArchiveInv /\ StepInv
  BY DEF IInv
<1>1. /\ stamp \in Time /\ step = "copy" /\ step' = "remove"
      /\ UNCHANGED <<now, handle, stamp, logged, accepted, rotatedIn, rotations, pruned,
                     faults, crashes>>
  BY <1>0 DEF GzipCopy, TypeOK, history
<1>2. /\ files' \in [Names -> Kinds]
      /\ files'[Gz(stamp)].kind = "whole"
      /\ files'[Gz(stamp)].lines = lines(Raw(stamp))
      /\ \A n \in Names \ {Gz(stamp)} : files'[n] = files[n]
  BY <1>0, <1>1, FileFacts, NamesDiffer, KindsOfFile DEF GzipCopy
<1>3. /\ files'[Path] = files[Path]
      /\ \A t \in Time : /\ files'[Raw(t)] = files[Raw(t)]
                         /\ t # stamp => files'[Gz(t)] = files[Gz(t)]
  BY <1>1, <1>2, NamesDiffer
<1>4. files[Raw(stamp)].kind # "none" /\ lines(Gz(stamp)) = {}
  BY <1>0, <1>1 DEF StepInv
<1>5. TypeOK'
  BY <1>0, <1>1, <1>2 DEF TypeOK, Kinds
<1>6. HandleInv'
  BY <1>0, <1>1, <1>3 DEF HandleInv
<1>7. TornInv'
  BY <1>0, <1>1, <1>2, <1>3 DEF TornInv
<1>8. ArchiveInv'
  BY <1>0, <1>1, <1>2, <1>3, <1>4 DEF ArchiveInv
<1>9. StepInv'
  BY <1>1, <1>2, <1>3, <1>4 DEF StepInv
<1>10. \A n \in Names : \A d \in files'[n].lines :
           \E m \in Names : d \in lines(m) /\ Place(m) = Place(n)
  <2>1. Place(Raw(stamp)) = Place(Gz(stamp)) /\ Raw(stamp) \in Names
    BY <1>1, NamesDiffer
  <2> QED
    BY <1>2, <2>1
<1>11. Numbered' /\ InOrder'
  BY <1>1, <1>10, CopiesInOrder DEF IInv, Numbered
<1>12. NothingLost'
  <2>1. \A n \in Names : lines(n) \subseteq files'[n].lines
    BY <1>2, <1>4
  <2> QED
    BY <1>1, <2>1, KeepsAll DEF IInv
<1> QED
  BY <1>5, <1>6, <1>7, <1>8, <1>9, <1>11, <1>12 DEF IInv

LEMMA GzipRemoveStep ==
    ASSUME IInv, GzipRemove PROVE IInv'
<1> USE DEF lines, Exists
<1>0. TypeOK /\ HandleInv /\ TornInv /\ ArchiveInv /\ StepInv
  BY DEF IInv
<1>1. /\ stamp \in Time /\ step = "remove" /\ step' = "prune"
      /\ UNCHANGED <<now, handle, stamp, logged, accepted, rotatedIn, rotations, pruned,
                     faults, crashes>>
  BY <1>0 DEF GzipRemove, TypeOK, history
<1>2. /\ files' \in [Names -> Kinds]
      /\ files'[Raw(stamp)] = NoFile
      /\ \A n \in Names \ {Raw(stamp)} : files'[n] = files[n]
  BY <1>0, <1>1, FileFacts, NamesDiffer, KindsOfFile DEF GzipRemove
<1>3. /\ files'[Path] = files[Path]
      /\ \A t \in Time : /\ files'[Gz(t)] = files[Gz(t)]
                         /\ t # stamp => files'[Raw(t)] = files[Raw(t)]
  BY <1>1, <1>2, NamesDiffer
<1>4. files[Gz(stamp)].kind = "whole" /\ lines(Raw(stamp)) \subseteq lines(Gz(stamp))
  BY <1>0, <1>1 DEF StepInv
<1>5. TypeOK'
  BY <1>0, <1>1, <1>2 DEF TypeOK, Kinds
<1>6. HandleInv'
  BY <1>0, <1>1, <1>3 DEF HandleInv
<1>7. TornInv'
  BY <1>0, <1>2, <1>3, <1>4, KindsOfFile DEF TornInv
<1>8. ArchiveInv'
  BY <1>0, <1>1, <1>2, <1>3, KindsOfFile DEF ArchiveInv
<1>9. StepInv'
  BY <1>1 DEF StepInv
<1>10. \A n \in Names : files'[n].lines \subseteq lines(n)
  BY <1>2, KindsOfFile
<1>11. Numbered' /\ InOrder'
  BY <1>1, <1>10, CopiesInOrder DEF IInv, Numbered
<1>12. NothingLost'
  <2>1. lines(Raw(stamp)) \subseteq files'[Gz(stamp)].lines /\ Gz(stamp) \in Names
    BY <1>1, <1>3, <1>4, NamesDiffer
  <2>2. \A n \in Names : \A d \in lines(n) : \E m \in Names : d \in files'[m].lines
    BY <1>2, <2>1
  <2> QED
    BY <1>1, <2>2, KeepsAll DEF IInv
<1> QED
  BY <1>5, <1>6, <1>7, <1>8, <1>9, <1>11, <1>12 DEF IInv

\* The archive that is pruned is one of the surplus.
LEMMA PrunedIsSurplus ==
    ASSUME Surplus # {}
    PROVE  Max(Surplus) \in Surplus /\ Max(Surplus) \in Time
BY LatestExists DEF Surplus, Archives

LEMMA PruneStep ==
    ASSUME IInv, Prune PROVE IInv'
<1> USE DEF lines, Exists
<1> DEFINE t == Max(Surplus)
<1>0. TypeOK /\ HandleInv /\ TornInv /\ ArchiveInv /\ StepInv
  BY DEF IInv
<1>1. /\ t \in Time /\ step = "prune"
      /\ files' = [files EXCEPT ![Gz(t)] = NoFile]
      /\ pruned' = pruned \cup lines(Gz(t))
      /\ UNCHANGED <<now, handle, step, stamp, logged, accepted, rotatedIn, rotations,
                     faults, crashes>>
  BY PrunedIsSurplus DEF Prune
<1> HIDE DEF t
<1>2. /\ files' \in [Names -> Kinds]
      /\ files'[Gz(t)] = NoFile
      /\ \A n \in Names \ {Gz(t)} : files'[n] = files[n]
  BY <1>0, <1>1, FileFacts, NamesDiffer, KindsOfFile
<1>3. /\ files'[Path] = files[Path]
      /\ \A u \in Time : /\ files'[Raw(u)] = files[Raw(u)]
                         /\ u # t => files'[Gz(u)] = files[Gz(u)]
  BY <1>1, <1>2, NamesDiffer
<1>4. TypeOK'
  <2>1. lines(Gz(t)) \subseteq Entries
    BY <1>0, <1>1, FileFacts, NamesDiffer
  <2> QED
    BY <1>0, <1>1, <1>2, <2>1 DEF TypeOK, Kinds
<1>5. HandleInv'
  BY <1>0, <1>1, <1>3 DEF HandleInv
<1>6. TornInv'
  BY <1>0, <1>2, <1>3, KindsOfFile DEF TornInv
<1>7. ArchiveInv'
  BY <1>0, <1>1, <1>2, <1>3, KindsOfFile DEF ArchiveInv
<1>8. StepInv'
  BY <1>1 DEF StepInv
<1>9. \A n \in Names : files'[n].lines \subseteq lines(n)
  BY <1>2, KindsOfFile
<1>10. Numbered' /\ InOrder'
  BY <1>1, <1>9, CopiesInOrder DEF IInv, Numbered
<1>11. NothingLost'
  <2>1. \A n \in Names : \A d \in lines(n) : d \in files'[n].lines \/ d \in pruned'
    BY <1>1, <1>2
  <2> QED
    BY <1>1, <2>1, KeepsAll DEF IInv
<1> QED
  BY <1>4, <1>5, <1>6, <1>7, <1>8, <1>10, <1>11 DEF IInv
-----------------------------------------------------------------------------
LEMMA StepIInv == IInv /\ [Next]_vars => IInv'
<1> SUFFICES ASSUME IInv, [Next]_vars PROVE IInv'
  OBVIOUS
<1>1. CASE PassTime
  BY <1>1, PassTimeStep
<1>2. CASE Log
  BY <1>2, LogStep
<1>3. CASE LogFails
  BY <1>3, LogFailsStep
<1>4. CASE Rename
  BY <1>4, RenameStep
<1>5. CASE Rotate \/ Crash
  BY <1>5, ReopenStep
<1>6. CASE RotateFails \/ GzipFails \/ PruneEnds \/ PruneFails
  BY <1>6, ReturnStep
<1>7. CASE GzipCreate
  BY <1>7, GzipCreateStep
<1>8. CASE GzipCopy
  BY <1>8, GzipCopyStep
<1>9. CASE GzipRemove
  BY <1>9, GzipRemoveStep
<1>10. CASE Prune
  BY <1>10, PruneStep
<1>11. CASE UNCHANGED vars
  BY <1>11 DEF vars, history, IInv, TypeOK, HandleInv, TornInv, ArchiveInv, StepInv,
               Numbered, InOrder, NothingLost, OnDisk, Exists, lines
<1> QED
  BY <1>1, <1>2, <1>3, <1>4, <1>5, <1>6, <1>7, <1>8, <1>9, <1>10, <1>11 DEF Next

\* IInv holds in every state, whatever fails and whenever the process dies.
THEOREM Invariance == Spec => []IInv
BY InitIInv, StepIInv, PTL DEF Spec

THEOREM TypeCorrect == Spec => []TypeOK
<1>1. IInv => TypeOK
  BY DEF IInv
<1> QED
  BY <1>1, Invariance, PTL

\* Every entry that Log returned nil for is on disk until it is pruned for age,
\* the second rotation within one second aside.
THEOREM NothingLostHolds == Spec => []NothingLost
<1>1. IInv => NothingLost
  BY DEF IInv
<1> QED
  BY <1>1, Invariance, PTL

\* In the order of their stamps the files hold the entries as they were taken.
THEOREM InOrderHolds == Spec => []InOrder
<1>1. IInv => InOrder
  BY DEF IInv
<1> QED
  BY <1>1, Invariance, PTL
-----------------------------------------------------------------------------
\* Archives that are later than t can all be read, torn ones from their logs.
LEMMA LaterAreReadable ==
    ASSUME IInv, NEW t \in Surplus
    PROVE  Cardinality({u \in Time : u > t /\ Readable(u)}) >= Keep
<1> DEFINE later == {u \in Archives : u > t}
           legible == {u \in Time : u > t /\ Readable(u)}
<1>1. \A u \in Archives : Readable(u)
  <2>1. ASSUME NEW u \in Archives PROVE Readable(u)
    <3>1. files[Gz(u)].kind \in {"torn", "whole"} /\ u \in Time
      BY FileFacts, NamesDiffer DEF Archives, IInv, Exists
    <3> QED
      BY <3>1 DEF IInv, TornInv, Readable
  <2> QED
    BY <2>1
<1>2. later \subseteq legible
  BY <1>1 DEF Archives
<1>3. IsFiniteSet(legible)
  <2>1. IsFiniteSet(Time)
    BY FS_Interval, MaxTimeAssumption DEF Time
  <2> QED
    BY <2>1, FS_Subset
<1>4. Cardinality(later) <= Cardinality(legible) /\ IsFiniteSet(later)
  BY <1>2, <1>3, FS_Subset
<1>5. Cardinality(later) \in Nat /\ Cardinality(legible) \in Nat
  BY <1>3, <1>4, FS_CardinalityType
<1>6. Cardinality(later) >= Keep
  BY DEF Surplus
<1> HIDE DEF later, legible
<1>7. Cardinality(legible) >= Keep
  BY <1>4, <1>5, <1>6, LogAssumption
<1> QED
  BY <1>7 DEF legible

\* Only pruneOld removes an archive.
LEMMA OnlyPruneRemoves ==
    ASSUME IInv, [Next]_vars, NEW t \in Time, Exists(Gz(t)), ~(files'[Gz(t)].kind # "none")
    PROVE  t \in Surplus
<1> USE DEF Exists
<1>1. files \in [Names -> Kinds] /\ stamp \in Time /\ now \in Time /\ TypeOK
  BY FileFacts DEF IInv, TypeOK
<1>2. CASE UNCHANGED files
  BY <1>2
<1>3. CASE Log
  <2>1. /\ files' = [files EXCEPT ![handle].lines = @ \cup {logged'}]
        /\ handle \in {Path, Raw(stamp)}
    BY <1>3 DEF IInv, HandleInv, Log
  <2>2. Gz(t) # handle
    BY <1>1, <2>1, NamesDiffer
  <2> QED
    BY <1>1, <2>1, <2>2, NamesDiffer
<1>4. CASE Rename
  BY <1>1, <1>4, NamesDiffer DEF Rename, Stamp
<1>5. CASE Rotate \/ Crash
  BY <1>1, <1>5, NamesDiffer DEF Rotate, Crash, Opened
<1>6. CASE GzipCreate
  <2>1. files'[Gz(t)] \in {files[Gz(t)], torn}
    BY <1>1, <1>6, NamesDiffer DEF GzipCreate
  <2> QED
    BY <2>1, KindsOfFile
<1>7. CASE GzipCopy
  <2>1. files'[Gz(t)] \in {files[Gz(t)], Whole(files[Raw(stamp)].lines)}
    BY <1>1, <1>7, NamesDiffer DEF GzipCopy
  <2> QED
    BY <2>1 DEF Whole
<1>8. CASE GzipRemove
  BY <1>1, <1>8, NamesDiffer DEF GzipRemove
<1>9. CASE Prune
  <2>1. /\ files' = [files EXCEPT ![Gz(Max(Surplus))] = NoFile]
        /\ Max(Surplus) \in Surplus /\ Max(Surplus) \in Time
    BY <1>9, PrunedIsSurplus DEF Prune
  <2>2. t = Max(Surplus)
    BY <1>1, <2>1, NamesDiffer
  <2> QED
    BY <2>1, <2>2
<1>10. CASE PassTime \/ LogFails \/ RotateFails \/ GzipFails \/ PruneEnds \/ PruneFails
  BY <1>2, <1>10 DEF PassTime, LogFails, RotateFails, GzipFails, PruneEnds, PruneFails
<1>11. CASE UNCHANGED vars
  BY <1>2, <1>11 DEF vars
<1> QED
  BY <1>3, <1>4, <1>5, <1>6, <1>7, <1>8, <1>9, <1>10, <1>11 DEF Next

\* No archive is deleted while fewer than Keep later rotations can be read.
THEOREM PrunesOnlyOldHolds == Spec => PrunesOnlyOld
<1> DEFINE Old == \A t \in Time : (Exists(Gz(t)) /\ ~Exists(Gz(t))') =>
                      Cardinality({u \in Time : u > t /\ Readable(u)}) >= Keep
<1>1. IInv /\ [Next]_vars => [Old]_vars
  <2> SUFFICES ASSUME IInv, [Next]_vars, NEW t \in Time, Exists(Gz(t)), ~Exists(Gz(t))'
               PROVE  Cardinality({u \in Time : u > t /\ Readable(u)}) >= Keep
    OBVIOUS
  <2>1. ~(files'[Gz(t)].kind # "none")
    BY DEF Exists
  <2> QED
    BY <2>1, OnlyPruneRemoves, LaterAreReadable
<1> QED
  BY <1>1, Invariance, PTL DEF Spec, PrunesOnlyOld
-----------------------------------------------------------------------------
(* The pool.                                                                 *)

\* AcceptedIsKept needs to know how far a worker has come with its entry: the
\* stores before the one it stands at have been asked.
HeldInv == \A w \in Workers : worker[w].at = "log" =>
               \A n \in 1 .. worker[w].store - 1 : <<worker[w].entry, Stores[n]>> \in tried

\* StoresAgree needs the same of every entry a store has been asked for: it has
\* been offered to all of them, or a worker is still at its round with it; and
\* that no worker is left at a round once runServe has returned.
RoundsAreFinished ==
    \A e \in Handlers : (\E s \in ToSet(Stores) : <<e, s>> \in tried) =>
        Offered(e) \/ Held(e) # {}
AllHaveLeft == main = "gone" => \A w \in Workers : worker[w] = exited

PoolInv == PoolTypeOK /\ HeldInv /\ AcceptedIsKept /\ RoundsAreFinished /\ AllHaveLeft

LogPlaces == {Holding(e, s) : e \in Handlers, s \in 1 .. Len(Stores)}

\* The places a worker can be in are told apart by their labels.
LEMMA WorkerFacts ==
    ASSUME PoolTypeOK, NEW w \in Workers
    PROVE  /\ worker[w] \in {idle, exited} \cup LogPlaces
           /\ worker[w].at = "log" <=> worker[w] \notin {idle, exited}
           /\ worker[w].at = "log" => /\ worker[w].entry \in Handlers
                                      /\ worker[w].store \in 1 .. Len(Stores)
BY DEF PoolTypeOK, LogPlaces, Holding, idle, exited

\* The list of stores is not empty, and its elements are the stores.
LEMMA StoresFacts ==
    /\ Len(Stores) \in Nat \ {0} /\ DOMAIN Stores = 1 .. Len(Stores)
    /\ \A s \in ToSet(Stores) : \E n \in 1 .. Len(Stores) : Stores[n] = s
    /\ \A n \in 1 .. Len(Stores) : Stores[n] \in ToSet(Stores)
<1>1. Stores \in Seq(ToSet(Stores)) /\ Stores # <<>>
  BY PoolAssumption
<1>2. DOMAIN Stores = 1 .. Len(Stores) /\ Len(Stores) \in Nat
  BY <1>1, LenProperties
<1>3. Len(Stores) # 0
  BY <1>1, EmptySeq
<1> QED
  BY <1>2, <1>3 DEF ToSet

\* A worker that holds an entry for a store of the list is in a logging place.
LEMMA LogPlacesFacts == \A e \in Handlers, s \in 1 .. Len(Stores) : Holding(e, s) \in LogPlaces
BY DEF LogPlaces

\* The pool starts empty, with every worker at its select.
LEMMA InitPoolInv == PoolInit => PoolInv
<1> SUFFICES ASSUME PoolInit PROVE PoolInv
  OBVIOUS
<1>1. PoolTypeOK
  <2>1. ch \in Seq(Handlers) /\ Len(ch) <= Capacity
    BY PoolAssumption DEF PoolInit
  <2>2. worker \in [Workers -> {idle, exited} \cup
                       {Holding(e, s) : e \in Handlers, s \in 1 .. Len(Stores)}]
    BY DEF PoolInit
  <2>3. /\ handler \in [Handlers -> Places] /\ read \in [Handlers -> Nat]
        /\ closed \in BOOLEAN /\ canceled \in BOOLEAN /\ dropped \in Nat
        /\ main \in {"serving", "closing", "waiting", "gone"}
        /\ tried \subseteq Handlers \X ToSet(Stores)
    BY DEF PoolInit, Places
  <2> QED
    BY <2>1, <2>2, <2>3 DEF PoolTypeOK
<1> QED
  BY <1>1 DEF PoolInit, PoolInv, HeldInv, AcceptedIsKept, RoundsAreFinished, AllHaveLeft, idle

\* Every step keeps every variable in its range.
LEMMA TypeStep == PoolTypeOK /\ [PoolNext]_poolVars => PoolTypeOK'
<1> SUFFICES ASSUME PoolTypeOK, [PoolNext]_poolVars PROVE PoolTypeOK'
  OBVIOUS
<1>1. ASSUME NEW h \in Handlers, Accept(h) PROVE PoolTypeOK'
  BY <1>1 DEF Accept, MoveHandler, PoolTypeOK, Places
<1>2. ASSUME NEW h \in Handlers, Enqueue(h) PROVE PoolTypeOK'
  <2>1. ch' \in Seq(Handlers) /\ Len(ch') <= Capacity
    BY <1>2, PoolAssumption, AppendProperties DEF Enqueue, PoolTypeOK
  <2> QED
    BY <1>2, <2>1 DEF Enqueue, MoveHandler, PoolTypeOK, Places
<1>3. ASSUME NEW h \in Handlers, Overflow(h) \/ Panic(h) PROVE PoolTypeOK'
  <2>1. CASE Overflow(h)
    BY <2>1 DEF Overflow, MoveHandler, PoolTypeOK, Places
  <2>2. CASE Panic(h)
    BY <2>2 DEF Panic, MoveHandler, PoolTypeOK, Places
  <2> QED
    BY <1>3, <2>1, <2>2
<1>4. ASSUME NEW h \in Handlers, Drop(h) PROVE PoolTypeOK'
  BY <1>4 DEF Drop, MoveHandler, PoolTypeOK, Places
<1>5. ASSUME NEW w \in Workers, Take(w) PROVE PoolTypeOK'
  <2>1. Head(ch) \in Handlers /\ ch' \in Seq(Handlers) /\ Len(ch') <= Capacity
    BY <1>5, PoolAssumption, HeadTailProperties DEF Take, PoolTypeOK
  <2>2. Holding(Head(ch), 1) \in LogPlaces
    <3>1. 1 \in 1 .. Len(Stores)
      BY StoresFacts
    <3> QED
      BY <2>1, <3>1, LogPlacesFacts
  <2> QED
    BY <1>5, <2>1, <2>2 DEF Take, MoveWorker, PoolTypeOK, LogPlaces
<1>6. ASSUME NEW w \in Workers, LogTo(w) PROVE PoolTypeOK'
  <2>1. worker[w].entry \in Handlers /\ worker[w].store \in 1 .. Len(Stores)
    BY <1>6, WorkerFacts DEF LogTo
  <2>2. tried' \subseteq Handlers \X ToSet(Stores)
    <3>1. tried' = tried \cup {<<worker[w].entry, Stores[worker[w].store]>>}
      BY <1>6 DEF LogTo
    <3>2. Stores[worker[w].store] \in ToSet(Stores)
      BY <2>1, StoresFacts
    <3> QED
      BY <2>1, <3>1, <3>2 DEF PoolTypeOK
  <2>3. worker[w].store < Len(Stores) =>
            Holding(worker[w].entry, worker[w].store + 1) \in LogPlaces
    BY <2>1, StoresFacts, LogPlacesFacts
  <2> QED
    BY <1>6, <2>2, <2>3 DEF LogTo, MoveWorker, PoolTypeOK, LogPlaces
<1>7. ASSUME NEW w \in Workers, Exit(w) PROVE PoolTypeOK'
  BY <1>7 DEF Exit, MoveWorker, PoolTypeOK
<1>8. CASE Shutdown
  BY <1>8 DEF Shutdown, PoolTypeOK
<1>9. CASE CloseChannel
  BY <1>9 DEF CloseChannel, PoolTypeOK
<1>10. CASE Cancel
  BY <1>10 DEF Cancel, PoolTypeOK
<1>11. CASE Leave
  BY <1>11 DEF Leave, PoolTypeOK
<1>12. CASE UNCHANGED poolVars
  BY <1>12 DEF poolVars, PoolTypeOK
<1> QED
  BY <1>1, <1>2, <1>3, <1>4, <1>5, <1>6, <1>7, <1>8, <1>9, <1>10,
     <1>11, <1>12 DEF PoolNext, Submit, Work, Close

\* A worker that another worker's step leaves alone keeps its part of HeldInv.
LEMMA HeldStep == PoolTypeOK /\ HeldInv /\ [PoolNext]_poolVars => HeldInv'
<1> SUFFICES ASSUME PoolTypeOK, HeldInv, [PoolNext]_poolVars, NEW w \in Workers, worker'[w].at = "log",
                    NEW n \in 1 .. worker'[w].store - 1
             PROVE  <<worker'[w].entry, Stores[n]>> \in tried'
  BY DEF HeldInv
<1>1. tried \subseteq tried'
  BY DEF PoolNext, Submit, Work, Close, poolVars, Accept, Enqueue, Overflow, Drop, Panic, Take, LogTo,
         Exit, Shutdown, CloseChannel, Cancel, Leave
<1>2. CASE worker'[w] = worker[w]
  BY <1>1, <1>2 DEF HeldInv
<1>3. CASE worker'[w] # worker[w]
  <2>1. Take(w) \/ LogTo(w) \/ Exit(w)
    BY <1>3 DEF PoolNext, Submit, Work, Close, poolVars, Accept, Enqueue, Overflow, Drop, Panic, Take,
       LogTo, Exit, MoveWorker, Shutdown, CloseChannel, Cancel, Leave, PoolTypeOK
  <2>2. CASE Take(w)
    BY <2>2 DEF Take, MoveWorker, Holding, PoolTypeOK
  <2>3. CASE Exit(w)
    BY <2>3 DEF Exit, MoveWorker, exited, PoolTypeOK
  <2>4. CASE LogTo(w)
    <3>1. worker[w].at = "log" /\ worker[w].store \in 1 .. Len(Stores)
      BY <2>4, WorkerFacts DEF LogTo
    <3>2. worker'[w] = IF worker[w].store < Len(Stores)
                       THEN Holding(worker[w].entry, worker[w].store + 1) ELSE idle
      BY <2>4 DEF LogTo, MoveWorker, PoolTypeOK
    <3>3. /\ worker'[w].entry = worker[w].entry
          /\ worker'[w].store = worker[w].store + 1
      BY <3>2 DEF Holding, idle
    <3>4. n \in 1 .. worker[w].store - 1 \/ n = worker[w].store
      BY <3>1, <3>3
    <3>5. <<worker[w].entry, Stores[worker[w].store]>> \in tried'
      BY <2>4 DEF LogTo
    <3> QED
      BY <1>1, <3>1, <3>3, <3>4, <3>5 DEF HeldInv
  <2> QED
    BY <2>1, <2>2, <2>3, <2>4
<1> QED
  BY <1>2, <1>3

\* An accepted entry moves from the channel to a worker and from there to having
\* been offered to every store.
LEMMA KeptStep == PoolTypeOK /\ HeldInv /\ AcceptedIsKept /\ [PoolNext]_poolVars => AcceptedIsKept'
<1> SUFFICES ASSUME PoolTypeOK, HeldInv, AcceptedIsKept, [PoolNext]_poolVars,
                    NEW e \in Handlers, handler'[e] = "queued"
             PROVE  InBuffer(e)' # {} \/ Held(e)' # {} \/ Offered(e)'
  BY DEF AcceptedIsKept
<1>1. tried \subseteq tried'
  BY DEF PoolNext, Submit, Work, Close, poolVars, Accept, Enqueue, Overflow, Drop, Panic, Take, LogTo,
         Exit, Shutdown, CloseChannel, Cancel, Leave
<1>2. ch \in Seq(Handlers) /\ Len(ch) \in Nat /\ DOMAIN ch = 1 .. Len(ch)
  BY LenProperties DEF PoolTypeOK
<1>3. CASE UNCHANGED <<ch, worker>> /\ handler[e] = "queued"
  BY <1>1, <1>3 DEF AcceptedIsKept, InBuffer, Held, Offered
<1>4. ASSUME NEW h \in Handlers, Enqueue(h)
      PROVE  InBuffer(e)' # {} \/ Held(e)' # {} \/ Offered(e)'
  <2>1. /\ ch' = Append(ch, h) /\ ch' \in Seq(Handlers) /\ Len(ch') = Len(ch) + 1
        /\ \A n \in 1 .. Len(ch) : ch'[n] = ch[n]
        /\ ch'[Len(ch) + 1] = h /\ UNCHANGED <<worker, tried>>
    BY <1>2, <1>4, AppendProperties DEF Enqueue
  <2>2. DOMAIN ch' = 1 .. Len(ch) + 1
    BY <2>1, LenProperties
  <2>3. CASE e = h
    BY <1>2, <2>1, <2>2, <2>3 DEF InBuffer
  <2>4. CASE e # h
    <3>1. handler[e] = "queued"
      BY <1>4, <2>4 DEF Enqueue, MoveHandler, PoolTypeOK
    <3>2. InBuffer(e) # {} => InBuffer(e)' # {}
      BY <1>2, <2>1, <2>2 DEF InBuffer
    <3> QED
      BY <2>1, <3>1, <3>2 DEF AcceptedIsKept, Held, Offered
  <2> QED
    BY <2>3, <2>4
<1>5. ASSUME NEW w \in Workers, Take(w)
      PROVE  InBuffer(e)' # {} \/ Held(e)' # {} \/ Offered(e)'
  <2>1. /\ handler[e] = "queued" /\ ch # <<>> /\ ch' = Tail(ch) /\ worker[w] = idle
        /\ worker' = [worker EXCEPT ![w] = Holding(Head(ch), 1)] /\ UNCHANGED tried
    BY <1>5 DEF Take, MoveWorker
  <2>2. /\ Len(ch) > 0 /\ Head(ch) = ch[1] /\ ch' \in Seq(Handlers)
        /\ Len(ch') = Len(ch) - 1 /\ \A n \in 1 .. Len(ch') : ch'[n] = ch[n + 1]
    BY <1>2, <2>1, EmptySeq, HeadTailProperties
  <2>3. DOMAIN ch' = 1 .. Len(ch) - 1
    BY <2>2, LenProperties
  <2>4. CASE Head(ch) = e
    <3>1. w \in Held(e)'
      BY <2>1, <2>4 DEF Held, Holding, PoolTypeOK
    <3> QED
      BY <3>1
  <2>5. CASE Head(ch) # e
    <3>1. ASSUME NEW n \in InBuffer(e) PROVE n - 1 \in InBuffer(e)'
      <4>1. n \in 1 .. Len(ch) /\ ch[n] = e /\ n # 1
        BY <1>2, <2>2, <2>5 DEF InBuffer
      <4>2. n - 1 \in 1 .. Len(ch') /\ (n - 1) + 1 = n
        BY <1>2, <2>2, <4>1
      <4>3. ch'[n - 1] = e
        BY <2>2, <4>1, <4>2
      <4> QED
        BY <1>2, <2>2, <2>3, <4>2, <4>3 DEF InBuffer
    <3>2. Held(e) \subseteq Held(e)'
      BY <2>1 DEF Held, idle, PoolTypeOK
    <3> QED
      BY <2>1, <3>1, <3>2 DEF AcceptedIsKept, Offered
  <2> QED
    BY <2>4, <2>5
<1>6. ASSUME NEW w \in Workers, LogTo(w)
      PROVE  InBuffer(e)' # {} \/ Held(e)' # {} \/ Offered(e)'
  <2>1. /\ handler[e] = "queued" /\ UNCHANGED ch /\ worker[w].at = "log"
        /\ worker' = [worker EXCEPT ![w] =
               IF worker[w].store < Len(Stores)
               THEN Holding(worker[w].entry, worker[w].store + 1) ELSE idle]
        /\ <<worker[w].entry, Stores[worker[w].store]>> \in tried'
    BY <1>6 DEF LogTo, MoveWorker
  <2>2. CASE worker[w].entry # e
    <3>1. Held(e) \subseteq Held(e)'
      BY <2>1, <2>2 DEF Held, PoolTypeOK
    <3> QED
      BY <1>1, <2>1, <3>1 DEF AcceptedIsKept, InBuffer, Offered
  <2>3. CASE worker[w].entry = e /\ worker[w].store < Len(Stores)
    <3>1. w \in Held(e)'
      BY <2>1, <2>3 DEF Held, Holding, PoolTypeOK
    <3> QED
      BY <3>1
  <2>4. CASE worker[w].entry = e /\ ~(worker[w].store < Len(Stores))
    <3>1. worker[w].store = Len(Stores)
      BY <2>1, <2>4, WorkerFacts, StoresFacts
    <3>2. \A n \in 1 .. Len(Stores) : <<e, Stores[n]>> \in tried'
      BY <1>1, <2>1, <2>4, <3>1, StoresFacts DEF HeldInv
    <3> QED
      BY <3>2, StoresFacts DEF Offered
  <2> QED
    BY <2>2, <2>3, <2>4
<1>7. ASSUME NEW w \in Workers, Exit(w)
      PROVE  InBuffer(e)' # {} \/ Held(e)' # {} \/ Offered(e)'
  <2>1. /\ handler[e] = "queued" /\ UNCHANGED <<ch, tried>> /\ worker[w] = idle
        /\ worker' = [worker EXCEPT ![w] = exited]
    BY <1>7 DEF Exit, MoveWorker
  <2>2. Held(e) \subseteq Held(e)'
    BY <2>1 DEF Held, idle, PoolTypeOK
  <2> QED
    BY <2>1, <2>2 DEF AcceptedIsKept, InBuffer, Offered
<1>8. ASSUME NEW h \in Handlers, Accept(h) \/ Overflow(h) \/ Drop(h) \/ Panic(h)
      PROVE  UNCHANGED <<ch, worker>> /\ handler[e] = "queued"
  BY <1>8 DEF Accept, Overflow, Drop, Panic, MoveHandler, PoolTypeOK
<1>9. ASSUME Shutdown \/ Close \/ UNCHANGED poolVars
      PROVE  UNCHANGED <<ch, worker>> /\ handler[e] = "queued"
  BY <1>9 DEF Shutdown, Close, CloseChannel, Cancel, Leave, poolVars
<1> QED
  BY <1>3, <1>4, <1>5, <1>6, <1>7, <1>8, <1>9 DEF PoolNext, Submit, Work

\* A worker that has left never comes back, and nothing runs in a process that
\* has ended.
LEMMA LeaveStep == PoolTypeOK /\ AllHaveLeft /\ [PoolNext]_poolVars => AllHaveLeft'
<1> SUFFICES ASSUME PoolTypeOK, AllHaveLeft, [PoolNext]_poolVars, main' = "gone"
             PROVE  \A w \in Workers : worker'[w] = exited
  BY DEF AllHaveLeft
<1>1. CASE main = "gone"
  BY <1>1 DEF AllHaveLeft, PoolNext, Submit, Work, Close, poolVars, Running, Accept, Enqueue,
     Overflow, Drop, Panic, Take, LogTo, Exit, Shutdown, CloseChannel, Cancel, Leave
<1>2. CASE main # "gone"
  BY <1>2 DEF PoolNext, Submit, Work, Close, poolVars, Accept, Enqueue, Overflow, Drop, Panic, Take,
     LogTo, Exit, Shutdown, CloseChannel, Cancel, Leave
<1> QED
  BY <1>1, <1>2

\* An entry that a store has been asked for stays with its worker until the last
\* store of the round has been asked too.
LEMMA RoundStep == PoolTypeOK /\ HeldInv /\ RoundsAreFinished /\ [PoolNext]_poolVars
                       => RoundsAreFinished'
<1> SUFFICES ASSUME PoolTypeOK, HeldInv, RoundsAreFinished, [PoolNext]_poolVars,
                    NEW e \in Handlers, NEW s \in ToSet(Stores), <<e, s>> \in tried'
             PROVE  Offered(e)' \/ Held(e)' # {}
  BY DEF RoundsAreFinished
<1>1. tried \subseteq tried'
  BY DEF PoolNext, Submit, Work, Close, poolVars, Accept, Enqueue, Overflow, Drop, Panic, Take, LogTo,
         Exit, Shutdown, CloseChannel, Cancel, Leave
<1>2. CASE UNCHANGED <<worker, tried>>
  BY <1>2 DEF RoundsAreFinished, Held, Offered
<1>3. ASSUME NEW w \in Workers, Take(w) \/ Exit(w)
      PROVE  Offered(e)' \/ Held(e)' # {}
  <2>1. worker[w] = idle /\ UNCHANGED tried
    BY <1>3 DEF Take, Exit
  <2>2. \A v \in Workers : v # w => worker'[v] = worker[v]
    BY <1>3 DEF Take, Exit, MoveWorker, PoolTypeOK
  <2>3. Held(e) \subseteq Held(e)'
    BY <2>1, <2>2 DEF Held, idle
  <2> QED
    BY <2>1, <2>3 DEF RoundsAreFinished, Offered
<1>4. ASSUME NEW w \in Workers, LogTo(w)
      PROVE  Offered(e)' \/ Held(e)' # {}
  <2>1. /\ worker[w].at = "log"
        /\ worker' = [worker EXCEPT ![w] =
               IF worker[w].store < Len(Stores)
               THEN Holding(worker[w].entry, worker[w].store + 1) ELSE idle]
        /\ tried' = tried \cup {<<worker[w].entry, Stores[worker[w].store]>>}
    BY <1>4 DEF LogTo, MoveWorker
  <2>2. CASE worker[w].entry # e
    <3>1. Held(e) \subseteq Held(e)'
      BY <2>1, <2>2 DEF Held, PoolTypeOK
    <3>2. <<e, s>> \in tried
      BY <2>1, <2>2
    <3> QED
      BY <1>1, <3>1, <3>2 DEF RoundsAreFinished, Offered
  <2>3. CASE worker[w].entry = e /\ worker[w].store < Len(Stores)
    <3>1. w \in Held(e)'
      BY <2>1, <2>3 DEF Held, Holding, PoolTypeOK
    <3> QED
      BY <3>1
  <2>4. CASE worker[w].entry = e /\ ~(worker[w].store < Len(Stores))
    <3>1. worker[w].store = Len(Stores)
      BY <2>1, <2>4, WorkerFacts, StoresFacts
    <3>2. \A n \in 1 .. Len(Stores) : <<e, Stores[n]>> \in tried'
      BY <1>1, <2>1, <2>4, <3>1, StoresFacts DEF HeldInv
    <3> QED
      BY <3>2, StoresFacts DEF Offered
  <2> QED
    BY <2>2, <2>3, <2>4
<1>5. ASSUME NEW h \in Handlers, Accept(h) \/ Submit(h)
      PROVE  UNCHANGED <<worker, tried>>
  BY <1>5 DEF Accept, Submit, Enqueue, Overflow, Drop, Panic
<1>6. ASSUME Shutdown \/ Close \/ UNCHANGED poolVars
      PROVE  UNCHANGED <<worker, tried>>
  BY <1>6 DEF Shutdown, Close, CloseChannel, Cancel, Leave, poolVars
<1> QED
  BY <1>2, <1>3, <1>4, <1>5, <1>6 DEF PoolNext, Work

\* The five parts of the invariant are kept together.
LEMMA StepPoolInv == PoolInv /\ [PoolNext]_poolVars => PoolInv'
BY TypeStep, HeldStep, KeptStep, RoundStep, LeaveStep DEF PoolInv

\* The invariant that carries the others.
THEOREM PoolInvariance == PoolSpec => []PoolInv
BY InitPoolInv, StepPoolInv, PTL DEF PoolSpec

\* The channel never holds more than its capacity, nor a worker anything but an
\* entry and a store there is.
THEOREM PoolTypeCorrect == PoolSpec => []PoolTypeOK
<1>1. PoolInv => PoolTypeOK
  BY DEF PoolInv
<1> QED
  BY <1>1, PoolInvariance, PTL

\* No accepted entry is lost in silence, whichever stores fail, however many
\* workers share them.
THEOREM AcceptedIsKeptHolds == PoolSpec => []AcceptedIsKept
<1>1. PoolInv => AcceptedIsKept
  BY DEF PoolInv
<1> QED
  BY <1>1, PoolInvariance, PTL

\* When runServe has returned every entry has been offered to all the stores or
\* to none, at whatever moment of a worker's round its context was canceled.
THEOREM StoresAgreeHolds == PoolSpec => []StoresAgree
<1>1. PoolInv => StoresAgree
  <2> SUFFICES ASSUME PoolInv, main = "gone", NEW e \in Handlers,
                      NEW s \in ToSet(Stores), NEW t \in ToSet(Stores), <<e, s>> \in tried
               PROVE  <<e, t>> \in tried
    BY DEF StoresAgree
  <2>1. Held(e) = {}
    BY DEF PoolInv, AllHaveLeft, Held, exited
  <2> QED
    BY <2>1 DEF PoolInv, RoundsAreFinished, Offered
<1> QED
  BY <1>1, PoolInvariance, PTL
=============================================================================
