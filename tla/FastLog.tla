------------------------------- MODULE FastLog -------------------------------
(***************************************************************************)
(* ganji/util/log/thread_fast_log.cc: the threads of a process log into a  *)
(* table of open files, g_file_array, that they share by name and count    *)
(* references to.  A file that has reached its size, or whose day is over, *)
(* is renamed: to a name with the time of its last write when the thread   *)
(* asked for kLogSizeSplit, else to one name that is removed afterwards.   *)
(*                                                                         *)
(* A line is its file and a number.  A tick of the clock is the next       *)
(* second and the next day.  flag always holds kLogFileTruncate and the    *)
(* size is never 0, so no file becomes kLogFileFull.                       *)
(***************************************************************************)
EXTENDS Integers, SequencesExt, FiniteSetsExt

CONSTANTS Threads, Slots, None,
          Files,      \* thread -> the file names it opens: log, log.wf and its own
          Split,      \* thread -> kLogSizeSplit
          max_size,   \* lines of a file
          MaxLines,   \* bound: lines in a history
          MaxTime     \* bound: the clock

LogAssumption ==
    /\ max_size \in Nat \ {0} /\ MaxLines \in Nat /\ MaxTime \in Nat
    /\ Slots \subseteq Nat /\ Split \in [Threads -> BOOLEAN]
    /\ \A t \in Threads : /\ Files[t] \in Seq(Range(Files[t]) \ {None})
                          /\ Files[t] # <<>>

VARIABLES g_file_array,  \* slot -> fp, name, ref_cnt, last_date
          handle,        \* thread -> the slots it has opened so far
          pc,
          victim,        \* thread -> the renamed log it is about to remove
          disk,          \* names of files -> their lines and the last write
          now, lines,
          removed,       \* lines of files that were removed (history)
          broken         \* a log file could not be opened again (history)

vars == <<g_file_array, handle, pc, victim, disk, now, lines, removed, broken>>

FreeSlot == [fp |-> FALSE, name |-> None, ref_cnt |-> 0, last_date |-> None]

Init ==
    /\ g_file_array = [s \in Slots |-> FreeSlot]
    /\ handle = [t \in Threads |-> <<>>]
    /\ pc = [t \in Threads |-> "closed"]
    /\ victim = [t \in Threads |-> None]
    /\ disk = [f \in {} |-> None]
    /\ now = 0 /\ lines = 0 /\ removed = {} /\ broken = FALSE

Goto(t, place) == pc' = [pc EXCEPT ![t] = place]

Log(f)         == [name |-> f, at |-> 0, suffix |-> -1]
Tmp(f)         == [name |-> f, at |-> 0, suffix |-> -2]
Rolled(f, n)   == [name |-> f, at |-> disk[Log(f)].mtime, suffix |-> n]
Exists(f)      == f \in DOMAIN disk
Put(d, f, file) == [g \in DOMAIN d \cup {f} |-> IF g = f THEN file ELSE d[g]]
Drop(d, f)     == [g \in DOMAIN d \ {f} |-> d[g]]
LinesIn(d)     == UNION {d[f].lines : f \in DOMAIN d}

(* fopen(name, "a") *)
Created(d, f) == IF f \in DOMAIN d THEN d
                 ELSE Put(d, f, [lines |-> {}, mtime |-> now])

-----------------------------------------------------------------------------
(* OpenLog or ThreadOpenLog, or a WriteLog that opens the log of its thread. *)
OpenLog(t) == /\ pc[t] = "closed" /\ handle[t] = <<>>
              /\ Goto(t, "open")
              /\ UNCHANGED <<g_file_array, handle, victim, disk, now, lines, removed, broken>>

(* One OpenFileUnit of OpenLogEx, under file_lock: the slot that has the    *)
(* name, else the first free one.  Without a slot or a file what was opened *)
(* is closed again.                                                         *)
SameName(name) == {s \in Slots : g_file_array[s].fp /\ g_file_array[s].name = name}
FreeSlots      == {s \in Slots : ~g_file_array[s].fp}

OpenFileUnit(t) ==
    LET name == Files[t][Len(handle[t]) + 1]
        last == Len(handle[t]) + 1 = Len(Files[t])
    IN
    /\ pc[t] = "open"
    /\ \/ /\ SameName(name) # {}
          /\ g_file_array' = [g_file_array EXCEPT ![Min(SameName(name))].ref_cnt = @ + 1]
          /\ handle' = [handle EXCEPT ![t] = Append(@, Min(SameName(name)))]
          /\ Goto(t, IF last THEN "opened" ELSE "open")
          /\ UNCHANGED disk
       \/ /\ SameName(name) = {} /\ FreeSlots # {}
          /\ g_file_array' = [g_file_array EXCEPT ![Min(FreeSlots)] =
                [fp |-> TRUE, name |-> name, ref_cnt |-> 1, last_date |-> @.last_date]]
          /\ handle' = [handle EXCEPT ![t] = Append(@, Min(FreeSlots))]
          /\ disk' = Created(disk, Log(name))
          /\ Goto(t, IF last THEN "opened" ELSE "open")
       \/ /\ SameName(name) = {}
          /\ Goto(t, "closing")
          /\ UNCHANGED <<g_file_array, handle, disk>>
    /\ UNCHANGED <<victim, now, lines, removed, broken>>

\* Mutant: the first to close a file closes it for all.
UnitClosedForAll(unit) == FreeSlot
UnitClosed(unit) == IF unit.ref_cnt <= 1 THEN FreeSlot
                    ELSE [unit EXCEPT !.ref_cnt = @ - 1]

(* CloseFileUnit, for each file of the handle; then the handle is freed. *)
CloseFileUnit(t) ==
    /\ pc[t] = "closing" /\ handle[t] # <<>>
    /\ g_file_array' = [g_file_array EXCEPT ![Last(handle[t])] = UnitClosed(@)]
    /\ handle' = [handle EXCEPT ![t] = Front(@)]
    /\ UNCHANGED <<pc, victim, disk, now, lines, removed, broken>>

FreeLogUnit(t) ==
    /\ pc[t] = "closing" /\ handle[t] = <<>>
    /\ Goto(t, "closed")
    /\ UNCHANGED <<g_file_array, handle, victim, disk, now, lines, removed, broken>>

CloseLog(t) == /\ pc[t] = "opened" /\ victim[t] = None
               /\ Goto(t, "closing")
               /\ UNCHANGED <<g_file_array, handle, victim, disk, now, lines, removed, broken>>

-----------------------------------------------------------------------------
(* CheckLogFile: whether the file is to be renamed, and to what name: the   *)
(* first suffix that no file has.                                           *)
LastDate(unit) == IF unit.last_date = None THEN disk[Log(unit.name)].mtime
                  ELSE unit.last_date
MustRoll(unit) == \/ Cardinality(disk[Log(unit.name)].lines) >= max_size
                  \/ now # LastDate(unit)

\* Mutant: the name may be taken.
FreeNameFirst(name) == Rolled(name, 0)
FreeName(name) == Rolled(name, Min({n \in 0..MaxLines : ~Exists(Rolled(name, n))}))

(* RealWriteLogBuffer, under the lock of the file. *)
Write(t, i, line) ==
    LET s    == handle[t][i]
        unit == g_file_array[s]
        f    == Log(unit.name)
        target == IF Split[t] THEN FreeName(unit.name) ELSE Tmp(unit.name)
        roll == MustRoll(unit)
        gone == IF roll /\ Exists(target) THEN disk[target].lines ELSE {}
        left == IF roll THEN Drop(Put(disk, target, disk[f]), f) ELSE disk
        new  == Created(left, f)
    IN
    /\ pc[t] = "opened" /\ victim[t] = None
    /\ lines < MaxLines /\ unit.fp
    /\ \/ /\ disk' = [new EXCEPT ![f].lines = @ \cup {line}, ![f].mtime = now]
          /\ g_file_array' = [g_file_array EXCEPT ![s].last_date = now]
          /\ victim' = [victim EXCEPT ![t] = IF roll /\ ~Split[t] THEN target ELSE None]
          /\ UNCHANGED broken
       \/ /\ roll                       \* the new file cannot be opened
          /\ disk' = left
          /\ g_file_array' = [g_file_array EXCEPT ![s].fp = FALSE, ![s].last_date = now]
          /\ broken' = TRUE
          /\ UNCHANGED victim
    /\ lines' = line.nr
    /\ removed' = removed \cup gone
    /\ UNCHANGED <<pc, handle, now>>

WriteLog(t) == \E i \in DOMAIN handle[t] :
                  Write(t, i, [file |-> Files[t][i], nr |-> lines + 1])

(* remove(tmp_filename), after the lock was released. *)
RemoveTmp(t) ==
    /\ victim[t] # None
    /\ disk' = Drop(disk, victim[t])
    /\ removed' = removed \cup IF Exists(victim[t]) THEN disk[victim[t]].lines ELSE {}
    /\ victim' = [victim EXCEPT ![t] = None]
    /\ UNCHANGED <<g_file_array, handle, pc, now, lines, broken>>

Tick == /\ now < MaxTime
        /\ now' = now + 1
        /\ UNCHANGED <<g_file_array, handle, pc, victim, disk, lines, removed, broken>>

Next == \/ Tick
        \/ \E t \in Threads : \/ OpenLog(t) \/ OpenFileUnit(t) \/ CloseLog(t)
                              \/ CloseFileUnit(t) \/ FreeLogUnit(t)
                              \/ WriteLog(t) \/ RemoveTmp(t)

Spec == Init /\ [][Next]_vars

-----------------------------------------------------------------------------
Users(s) == UNION {{<<t, i>> : i \in {i \in DOMAIN handle[t] : handle[t][i] = s}} :
                      t \in Threads}

(* As long as every renamed file could be created anew, a file is open      *)
(* exactly while some handle uses it, under the name that handle opened,    *)
(* and no name is open twice: nobody writes to a file that another thread   *)
(* has closed or replaced.                                                  *)
FilesShared ==
    ~broken =>
        /\ \A s \in Slots : /\ g_file_array[s].ref_cnt = Cardinality(Users(s))
                            /\ g_file_array[s].fp <=> Users(s) # {}
        /\ \A t \in Threads : \A i \in DOMAIN handle[t] :
               g_file_array[handle[t][i]].name = Files[t][i]
        /\ \A s, r \in Slots :
               g_file_array[s].fp /\ g_file_array[s].name = g_file_array[r].name => s = r

(* As long as every renamed file could be created anew, a line that was     *)
(* written is in the log, in a renamed log, or was removed with one that    *)
(* some thread opened without kLogSizeSplit: threads that rename the same   *)
(* file in the same second do not overwrite each other's.                   *)
LinesKept ==
    ~broken =>
        /\ {line.nr : line \in LinesIn(disk) \cup removed} = 1..lines
        /\ \A line \in removed :
              \E t \in Threads : ~Split[t] /\ line.file \in Range(Files[t])
=============================================================================
