------------------------------ MODULE LogFiles ------------------------------
(* internal/store/jsonl, Writer, and internal/logmaint, Maintainer, over one *)
(* directory: the workers append entries to the log while the maintainer     *)
(* renames it to a stamped archive, has the writer reopen it, compresses the *)
(* archive and prunes old ones. Every call to the operating system is a step *)
(* of its own, may fail, and may be the last one before the process dies; a  *)
(* restart opens the log again. Writer's methods hold its mutex throughout.  *)
EXTENDS Clock, FiniteSetsExt

CONSTANTS MaxBytes,         \* Config.MaxBytes, in entries
          Keep,             \* Config.Keep
          MaxEntries,       \* bound of the model: entries logged
          MaxFaults,        \* bound of the model: calls that fail
          MaxCrashes        \* bound of the model

ASSUME LogAssumption == /\ MaxBytes \in Nat \ {0} /\ Keep \in Nat \ {0}
                        /\ MaxEntries \in Nat /\ MaxFaults \in Nat /\ MaxCrashes \in Nat

VARIABLES files,            \* the directory: what each name stands for
          handle,           \* the name that Writer.f writes to, or shut
          step,             \* where MaybeRotate is
          stamp,            \* the stamp of the archive it is making
          logged,           \* history: how many entries have been offered
          accepted,         \* history: those for which Log returned nil
          rotatedIn,        \* history: the entries of the files renamed, per stamp
          rotations,        \* history: how many renames, per stamp
          pruned,           \* history: the entries of archives deleted for age
          faults, crashes   \* history

history == <<logged, accepted, rotatedIn, rotations, pruned>>
vars == <<now, files, handle, step, stamp, history, faults, crashes>>

Entries == 1 .. MaxEntries
Path == <<"log", 0>>
Raw(t) == <<"raw", t>>      \* Path.<stamp>, the stamp to the second
Gz(t) == <<"gz", t>>        \* Path.<stamp>.gz
Names == {Path} \cup {Raw(t) : t \in Time} \cup {Gz(t) : t \in Time}

\* Writer.f after it has been closed and before it is a new file.
shut == <<"shut", 0>>

NoFile == [kind |-> "none", lines |-> {}]
Whole(lines) == [kind |-> "whole", lines |-> lines]
torn == [kind |-> "torn", lines |-> {}]
Exists(name) == files[name].kind # "none"

\* O_CREATE|O_APPEND.
Opened(dir, name) == IF dir[name].kind = "none" THEN [dir EXCEPT ![name] = Whole({})] ELSE dir

Fault == faults < MaxFaults /\ faults' = faults + 1
-----------------------------------------------------------------------------
Init == /\ ClockInit
        /\ files = Opened([n \in Names |-> NoFile], Path)
        /\ handle = Path
        /\ step = "idle" /\ stamp = 0
        /\ logged = 0 /\ accepted = {} /\ pruned = {}
        /\ rotatedIn = [t \in Time |-> {}] /\ rotations = [t \in Time |-> 0]
        /\ faults = 0 /\ crashes = 0

\* Writer.Log: one write, to whatever name the open file has by now.
Log ==
    /\ logged < MaxEntries /\ handle # shut
    /\ logged' = logged + 1
    /\ accepted' = accepted \cup {logged'}
    /\ files' = [files EXCEPT ![handle].lines = @ \cup {logged'}]
    /\ rotatedIn' = [t \in Time |->
                       rotatedIn[t] \cup IF handle = Raw(t) THEN {logged'} ELSE {}]
    /\ UNCHANGED <<now, handle, step, stamp, rotations, pruned, faults, crashes>>

\* Writer.Log when the write fails, as it always does on a closed file: the
\* worker only warns.
LogFails ==
    /\ logged < MaxEntries
    /\ IF handle = shut THEN UNCHANGED faults ELSE Fault
    /\ logged' = logged + 1
    /\ UNCHANGED <<now, files, handle, step, stamp, accepted, rotatedIn, rotations,
                   pruned, crashes>>

\* Mutant: a layout with the time of day before the date.
Stamp_ByClock == now % 2

\* NowFunc().Format: the order of these texts is the order of the times.
Stamp == now

\* MaybeRotate: the log is large enough, and takes the archive's name along
\* with the file that is open. A file that has that name is gone.
Rename ==
    /\ step = "idle"
    /\ Exists(Path) /\ Cardinality(files[Path].lines) >= MaxBytes
    /\ stamp' = Stamp
    /\ files' = [files EXCEPT ![Raw(stamp')] = files[Path], ![Path] = NoFile]
    /\ handle' = IF handle = Path THEN Raw(stamp') ELSE handle
    /\ rotatedIn' = [rotatedIn EXCEPT ![stamp'] = @ \cup files[Path].lines]
    /\ rotations' = [rotations EXCEPT ![stamp'] = @ + 1]
    /\ step' = "rotate"
    /\ UNCHANGED <<now, logged, accepted, pruned, faults, crashes>>

\* Writer.Rotate: close, and open a new log. What the open file has received
\* since the rename belongs to the archive.
Rotate ==
    /\ step = "rotate"
    /\ files' = Opened(files, Path)
    /\ handle' = Path
    /\ step' = "create"
    /\ UNCHANGED <<now, stamp, history, faults, crashes>>

\* The close or the open fails: Writer.f stays a closed file.
RotateFails ==
    /\ step = "rotate" /\ Fault
    /\ handle' = shut
    /\ step' = "idle"
    /\ UNCHANGED <<now, files, stamp, history, crashes>>

\* gzipFile creates the archive, empty, over one of that name.
GzipCreate ==
    /\ step = "create"
    /\ files' = [files EXCEPT ![Gz(stamp)] = torn]
    /\ step' = "copy"
    /\ UNCHANGED <<now, handle, stamp, history, faults, crashes>>

GzipCopy ==
    /\ step = "copy"
    /\ files' = [files EXCEPT ![Gz(stamp)] = Whole(files[Raw(stamp)].lines)]
    /\ step' = "remove"
    /\ UNCHANGED <<now, handle, stamp, history, faults, crashes>>

\* Mutant: the source is removed on the way out, copied or not.
GzipFails_Removes ==
    /\ step \in {"create", "copy", "remove"} /\ Fault
    /\ files' = [files EXCEPT ![Raw(stamp)] = NoFile]
    /\ step' = "idle"
    /\ UNCHANGED <<now, handle, stamp, history, crashes>>

\* Create, copy or remove fails: MaybeRotate returns and prunes nothing.
GzipFails ==
    /\ step \in {"create", "copy", "remove"} /\ Fault
    /\ step' = "idle"
    /\ UNCHANGED <<now, files, handle, stamp, history, crashes>>

GzipRemove ==
    /\ step = "remove"
    /\ files' = [files EXCEPT ![Raw(stamp)] = NoFile]
    /\ step' = "prune"
    /\ UNCHANGED <<now, handle, stamp, history, faults, crashes>>

Archives == {t \in Time : Exists(Gz(t))}

\* Mutant: the names are sorted upwards.
Surplus_Newest == {t \in Archives : Cardinality({u \in Archives : u < t}) >= Keep}

\* Past the Keep latest stamps: whole archives and torn ones alike.
Surplus == {t \in Archives : Cardinality({u \in Archives : u > t}) >= Keep}

\* pruneOld removes what is past Keep, the latest first.
Prune ==
    LET t == Max(Surplus) IN
    /\ step = "prune" /\ Surplus # {}
    /\ files' = [files EXCEPT ![Gz(t)] = NoFile]
    /\ pruned' = pruned \cup files[Gz(t)].lines
    /\ UNCHANGED <<now, handle, step, stamp, logged, accepted, rotatedIn, rotations,
                   faults, crashes>>

PruneEnds ==
    /\ step = "prune" /\ Surplus = {}
    /\ step' = "idle"
    /\ UNCHANGED <<now, files, handle, stamp, history, faults, crashes>>

\* ReadDir fails, or the Removes that are left do.
PruneFails ==
    /\ step = "prune" /\ Fault
    /\ step' = "idle"
    /\ UNCHANGED <<now, files, handle, stamp, history, crashes>>

\* The process dies, and Open runs again when it is started.
Crash ==
    /\ crashes < MaxCrashes
    /\ crashes' = crashes + 1
    /\ files' = Opened(files, Path)
    /\ handle' = Path
    /\ step' = "idle"
    /\ UNCHANGED <<now, stamp, history, faults>>

PassTime == Tick /\ UNCHANGED <<files, handle, step, stamp, history, faults, crashes>>

Next == \/ PassTime \/ Log \/ LogFails \/ Crash
        \/ Rename \/ Rotate \/ RotateFails
        \/ GzipCreate \/ GzipCopy \/ GzipRemove \/ GzipFails
        \/ Prune \/ PruneEnds \/ PruneFails

Spec == Init /\ [][Next]_vars
-----------------------------------------------------------------------------
TypeOK ==
    /\ now \in Time
    /\ files \in [Names -> {NoFile, torn} \cup {Whole(lines) : lines \in SUBSET Entries}]
    /\ handle \in Names \cup {shut}
    /\ step \in {"idle", "rotate", "create", "copy", "remove", "prune"}
    /\ stamp \in Time
    /\ logged \in 0 .. MaxEntries /\ accepted \subseteq Entries
    /\ rotatedIn \in [Time -> SUBSET Entries] /\ rotations \in [Time -> Nat]
    /\ pruned \subseteq Entries
    /\ faults \in Nat /\ crashes \in Nat

\* Entries the writer took are never lost to a failure, to a crash or to the
\* workers that write while the log is being renamed, reopened and compressed:
\* they are in the directory until pruned for age. The one exception is a
\* second rotation within the second that stamps an archive.
OnDisk(e) == \E n \in Names : e \in files[n].lines
NothingLost ==
    \A e \in accepted :
        \/ OnDisk(e) \/ e \in pruned
        \/ \E t \in Time : rotations[t] > 1 /\ e \in rotatedIn[t]

\* An archive is pruned only when Keep later rotations can still be read, be
\* it from a whole archive or from the renamed log that one cut short has left.
Readable(t) == Exists(Raw(t)) \/ files[Gz(t)].kind = "whole"
PrunesOnlyOld ==
    [][\A t \in Time : (Exists(Gz(t)) /\ ~Exists(Gz(t))') =>
          Cardinality({u \in Time : u > t /\ Readable(u)}) >= Keep]_vars

\* Read in the order of their stamps and with the log last, the files hold the
\* entries in the order they were accepted: a write that comes between the
\* rename and the reopening belongs to the archive, and none goes back.
Place(n) == IF n = Path THEN MaxTime + 1 ELSE n[2]
InOrder ==
    \A m, n \in Names : \A a \in files[m].lines, b \in files[n].lines :
        Place(m) < Place(n) => a < b
=============================================================================
