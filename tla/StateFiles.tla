----------------------------- MODULE StateFiles -----------------------------
(***************************************************************************)
(* The daemon's other state files: the audit log (audit.rs), the crash log *)
(* (crashlog.rs) and the room key (roomkey.rs).                            *)
(*                                                                         *)
(* The tasks of a running daemon and the commands `drdshd pair`, `devices` *)
(* and `run` work on them with plain file operations and no lock.  A file  *)
(* is a name for an inode: a task that has a file open goes on writing to  *)
(* it after the name was removed or given to another inode.  The contents  *)
(* of a log are a sequence of tokens: a record without its newline, the    *)
(* newline, or a hole that a write past the end leaves behind.             *)
(***************************************************************************)
EXTENDS Integers, Sequences, FiniteSets, SequencesExt

CONSTANTS
    Proc,       \* tasks and commands at work at a time
    MaxLines,   \* MAX_LINES of the audit log
    MaxAge,     \* MAX_AGE of an audit record
    MaxReports, \* MAX_REPORTS of the crash log
    MaxLen,     \* CrashReport::MAX_REPORT_LEN
    Size,       \* bound of the model: sizes of the crash reports clients send
    MaxJobs,    \* bound of the model: records, reports and key look-ups
    MaxClock,   \* bound of the model: the clock stops here
    MaxStops,   \* bound of the model: processes killed, or out of disk
    MaxClears   \* bound of the model: logs cleared, empty key files removed

ASSUME StateFilesAssumption ==
    /\ IsFiniteSet(Proc)
    /\ MaxLines \in Nat \ {0} /\ MaxAge \in Nat /\ MaxReports \in Nat \ {0}
    /\ MaxLen \in Nat /\ Size \subseteq Nat
    /\ MaxJobs \in Nat /\ MaxClock \in Nat /\ MaxStops \in Nat /\ MaxClears \in Nat

Job     == 1 .. MaxJobs
Newline == 0
Hole    == -1
Name    == {"audit", "tmp", "crash"}
Inode   == 1 .. Cardinality(Proc) + Cardinality(Name)
NoInode == 0
NoFile  == -1
Empty   == 0

VARIABLES
    dir,    \* audit.jsonl, audit.jsonl.tmp, crash-reports.jsonl: name to inode
    data,   \* the contents of an inode
    key,    \* room-key: no file, an empty one, or the job that generated the key
    clock,  \* SystemTime
    proc,   \* what each task is doing
    jobs, stops, clears,
    \* History, read by properties only.
    at,     \* when a record was made
    begun, ended,  \* audit records begun and finished since the last clear
    alone,  \* no two tasks worked on the audit log at once
    acked,  \* crash reports answered with their number since the last clear
    held    \* the keys commands resolved from the file since it was made

history == <<at, begun, ended, alone, acked, held>>
vars    == <<dir, data, key, clock, proc, jobs, stops, clears, history>>

AuditPc == {"write", "newline", "prune", "truncate", "rewrite", "rename"}
CrashPc == {"open", "report", "reportEnd"}
KeyPc   == {"create", "keyWrite"}
Idle    == [pc |-> "idle", job |-> 0, fd |-> NoInode, off |-> 0, keep |-> <<>>]

Init ==
    /\ dir = [n \in Name |-> NoInode] /\ data = [i \in Inode |-> <<>>]
    /\ key = NoFile /\ clock = 0 /\ proc = [p \in Proc |-> Idle]
    /\ jobs = 0 /\ stops = 0 /\ clears = 0
    /\ at = [j \in Job |-> 0] /\ begun = {} /\ ended = {} /\ alone = TRUE
    /\ acked = {} /\ held = {}

-----------------------------------------------------------------------------
(* Files. *)
Used == {dir[n] : n \in Name} \cup {proc[p].fd : p \in Proc}

(* OpenOptions::create: the inode the name stands for, or a new one.       *)
Opened(n) == IF dir[n] # NoInode THEN dir[n] ELSE CHOOSE i \in Inode : i \notin Used

Contents(n) == IF dir[n] = NoInode THEN <<>> ELSE data[dir[n]]

(* What lines() returns, without the blank ones. *)
Lines(c) ==
    SelectSeq(FoldLeft(LAMBDA ls, t : IF t = Newline THEN Append(ls, <<>>)
                                      ELSE [ls EXCEPT ![Len(ls)] = Append(@, t)],
                       <<<<>>>>, c),
              LAMBDA l : l # <<>>)

(* A write at an offset of its own, past the end or over what is there.    *)
Overwrite(c, off, new) ==
    LET n == off + Len(new)
    IN  [k \in 1 .. (IF n > Len(c) THEN n ELSE Len(c)) |->
           IF k \in off + 1 .. n THEN new[k - off] ELSE IF k <= Len(c) THEN c[k] ELSE Hole]

Is(p, pc)    == proc[p].pc = pc
Step(p, pc)  == proc' = [proc EXCEPT ![p].pc = pc]
Finish(p)    == proc' = [proc EXCEPT ![p] = Idle]
Write(p, t)  == data' = [data EXCEPT ![proc[p].fd] = Append(@, t)]

(* Tasks are interchangeable: the first idle one takes the next job.       *)
Starts(p) == Is(p, "idle") /\ jobs < MaxJobs /\ jobs' = jobs + 1

-----------------------------------------------------------------------------
(* The audit log.  record: the line is encoded with the time of now, the   *)
(* file opened for appending, ...                                          *)
RecordOpen(p) ==
    /\ Starts(p)
    /\ LET i == Opened("audit") IN
       /\ dir' = [dir EXCEPT !["audit"] = i]
       /\ data' = IF dir["audit"] = NoInode THEN [data EXCEPT ![i] = <<>>] ELSE data
       /\ proc' = [proc EXCEPT ![p] = [Idle EXCEPT !.pc = "write", !.job = jobs', !.fd = i]]
    /\ at' = [at EXCEPT ![jobs'] = clock]
    /\ alone' = (alone /\ \A o \in Proc : proc[o].pc \notin AuditPc)
    /\ UNCHANGED <<key, clock, stops, clears, begun, ended, acked, held>>

(* ... the line appended, ... *)
RecordLine(p) ==
    /\ Is(p, "write")
    /\ Write(p, proc[p].job)
    /\ Step(p, "newline")
    /\ begun' = begun \cup {proc[p].job}
    /\ UNCHANGED <<dir, key, clock, jobs, stops, clears, at, ended, alone, acked, held>>

(* ... then its newline, by a write of its own. *)
RecordNewline(p) ==
    /\ Is(p, "newline")
    /\ Write(p, Newline)
    /\ proc' = [proc EXCEPT ![p].pc = "prune", ![p].fd = NoInode]
    /\ ended' = ended \cup {proc[p].job}
    /\ UNCHANGED <<dir, key, clock, jobs, stops, clears, at, begun, alone, acked, held>>

(* parse_entry: the record in a line, or nothing when the line holds more  *)
(* or less than one.                                                       *)
Parse(line)  == IF Len(line) = 1 /\ line[1] # Hole THEN {line[1]} ELSE {}
TooOld(line) == \E e \in Parse(line) : at[e] < clock - MaxAge

(* Mutant: the newest lines go. *)
RetainedOldest(ls) ==
    LET young == SelectSeq(ls, LAMBDA l : ~TooOld(l))
    IN  IF Len(young) > MaxLines THEN SubSeq(young, 1, MaxLines) ELSE young

(* The lines the policy keeps: none too old, unreadable ones whatever      *)
(* their age, and of these the newest MaxLines.                            *)
Retained(ls) ==
    LET young == SelectSeq(ls, LAMBDA l : ~TooOld(l))
    IN  IF Len(young) > MaxLines THEN SubSeq(young, Len(young) - MaxLines + 1, Len(young)) ELSE young

(* prune: read the log, and rewrite it only when something has to go: ...  *)
PruneRead(p) ==
    /\ Is(p, "prune")
    /\ LET ls == Lines(Contents("audit")) IN
       IF Retained(ls) = ls
       THEN Finish(p)
       ELSE proc' = [proc EXCEPT ![p].pc = "truncate", ![p].keep = Retained(ls)]
    /\ UNCHANGED <<dir, data, key, clock, jobs, stops, clears, history>>

(* ... truncate the temporary file, whose name all pruners share, ...      *)
PruneTruncate(p) ==
    /\ Is(p, "truncate")
    /\ LET i == Opened("tmp") IN
       /\ dir' = [dir EXCEPT !["tmp"] = i]
       /\ data' = [data EXCEPT ![i] = <<>>]
       /\ proc' = [proc EXCEPT ![p].pc = IF proc[p].keep = <<>> THEN "rename" ELSE "rewrite",
                               ![p].fd = i, ![p].off = 0]
    /\ UNCHANGED <<key, clock, jobs, stops, clears, history>>

(* ... write it line by line, ... *)
PruneWrite(p) ==
    /\ Is(p, "rewrite")
    /\ LET new == Append(Head(proc[p].keep), Newline) IN
       /\ data' = [data EXCEPT ![proc[p].fd] = Overwrite(@, proc[p].off, new)]
       /\ proc' = [proc EXCEPT ![p].pc = IF Len(proc[p].keep) = 1 THEN "rename" ELSE "rewrite",
                               ![p].off = @ + Len(new), ![p].keep = Tail(@)]
    /\ UNCHANGED <<dir, key, clock, jobs, stops, clears, history>>

(* ... and rename it, which fails when another pruner did so first.        *)
PruneRename(p) ==
    /\ Is(p, "rename")
    /\ dir' = IF dir["tmp"] = NoInode THEN dir
              ELSE [dir EXCEPT !["audit"] = dir["tmp"], !["tmp"] = NoInode]
    /\ Finish(p)
    /\ UNCHANGED <<data, key, clock, jobs, stops, clears, history>>

(* `drdshd audit --clear`. *)
ClearAudit ==
    /\ clears < MaxClears /\ dir["audit"] # NoInode
    /\ clears' = clears + 1
    /\ dir' = [dir EXCEPT !["audit"] = NoInode]
    /\ begun' = {} /\ ended' = {}
    /\ alone' = (alone /\ \A o \in Proc : proc[o].pc \notin AuditPc)
    /\ UNCHANGED <<data, key, clock, proc, jobs, stops, at, acked, held>>

(* read, for `drdshd audit` and the doctor: the entries shown, oldest      *)
(* first, and the lines that are none.                                     *)
ReadEntries    == SelectSeq(Lines(Contents("audit")), LAMBDA l : Parse(l) # {} /\ ~TooOld(l))
ReadUnreadable == SelectSeq(Lines(Contents("audit")), LAMBDA l : Parse(l) = {})

-----------------------------------------------------------------------------
(* The crash log.  count: lines that end with a newline and hold something *)
(* else; a torn last line is none.                                         *)
Count(c) == Cardinality({k \in 2 .. Len(c) : c[k] = Newline /\ c[k - 1] # Newline})

RoomFor(n) == n < MaxReports

(* validate: the encoded report is measured, not what the client says.     *)
Validates(size) == size <= MaxLen

(* store: a report that is valid is counted against the limit first, ...   *)
(* The daemon has one loop that handles a crash report inline (run of      *)
(* uplink.rs, crash_report of control.rs), so its stores follow each other.*)
StoreCount(p, size) ==
    /\ Validates(size)
    /\ \A o \in Proc : proc[o].pc \notin CrashPc
    /\ Starts(p)
    /\ proc' = IF RoomFor(Count(Contents("crash")))
               THEN [proc EXCEPT ![p] = [Idle EXCEPT !.pc = "open", !.job = jobs']] ELSE proc
    /\ UNCHANGED <<dir, data, key, clock, stops, clears, history>>

(* ... and appended after that. *)
StoreOpen(p) ==
    /\ Is(p, "open")
    /\ LET i == Opened("crash") IN
       /\ dir' = [dir EXCEPT !["crash"] = i]
       /\ data' = IF dir["crash"] = NoInode THEN [data EXCEPT ![i] = <<>>] ELSE data
       /\ proc' = [proc EXCEPT ![p].pc = "report", ![p].fd = i]
    /\ UNCHANGED <<key, clock, jobs, stops, clears, history>>

(* writeln! on a file is a write for the line and one for the newline.     *)
StoreLine(p) ==
    /\ Is(p, "report")
    /\ Write(p, proc[p].job)
    /\ Step(p, "reportEnd")
    /\ UNCHANGED <<dir, key, clock, jobs, stops, clears, history>>

(* The client is told how many there are now. *)
StoreNewline(p) ==
    /\ Is(p, "reportEnd")
    /\ Write(p, Newline)
    /\ acked' = IF proc[p].fd = dir["crash"] THEN acked \cup {proc[p].job} ELSE acked
    /\ Finish(p)
    /\ UNCHANGED <<dir, key, clock, jobs, stops, clears, at, begun, ended, alone, held>>

(* `drdshd crashes --clear`. *)
ClearCrashes ==
    /\ clears < MaxClears /\ dir["crash"] # NoInode
    /\ clears' = clears + 1
    /\ dir' = [dir EXCEPT !["crash"] = NoInode]
    /\ acked' = {}
    /\ UNCHANGED <<data, key, clock, proc, jobs, stops, at, begun, ended, alone, held>>

-----------------------------------------------------------------------------
(* The room key.  resolve without a key on the command line: read_stored   *)
(* returns the key, refuses a file that holds none, ...                    *)
ResolveKey(p) ==
    /\ Starts(p)
    /\ held' = IF key \in Job THEN held \cup {key} ELSE held
    /\ proc' = IF key = NoFile THEN [proc EXCEPT ![p] = [Idle EXCEPT !.pc = "create", !.job = jobs']]
                               ELSE proc
    /\ UNCHANGED <<dir, data, key, clock, stops, clears, at, begun, ended, alone, acked>>

(* Mutant: create in place of create_new. *)
CreateKeyAnyway(p) ==
    /\ Is(p, "create")
    /\ key' = Empty /\ Step(p, "keyWrite")
    /\ UNCHANGED <<dir, data, clock, jobs, stops, clears, history>>

(* ... and where there is no file one is made, by the one whose create_new *)
(* succeeds; the others exit with an error.                                *)
CreateKey(p) ==
    /\ Is(p, "create")
    /\ IF key = NoFile THEN key' = Empty /\ Step(p, "keyWrite") ELSE Finish(p) /\ UNCHANGED key
    /\ UNCHANGED <<dir, data, clock, jobs, stops, clears, history>>

WriteKey(p) ==
    /\ Is(p, "keyWrite")
    /\ key' = proc[p].job
    /\ held' = held \cup {proc[p].job}
    /\ Finish(p)
    /\ UNCHANGED <<dir, data, clock, jobs, stops, clears, at, begun, ended, alone, acked>>

(* The operator follows the message and deletes an empty file, when the    *)
(* command that made it is gone.                                           *)
DeleteEmptyKey ==
    /\ clears < MaxClears /\ key = Empty
    /\ \A p \in Proc : ~Is(p, "keyWrite")
    /\ clears' = clears + 1 /\ key' = NoFile
    /\ UNCHANGED <<dir, data, clock, proc, jobs, stops, history>>

-----------------------------------------------------------------------------
(* A process is killed, or a write fails: record warns and goes on, store  *)
(* and resolve return the error.                                           *)
Stop(p) ==
    /\ stops < MaxStops /\ ~Is(p, "idle")
    /\ stops' = stops + 1
    /\ Finish(p)
    /\ UNCHANGED <<dir, data, key, clock, jobs, clears, history>>

Tick ==
    /\ clock < MaxClock
    /\ clock' = clock + 1
    /\ UNCHANGED <<dir, data, key, proc, jobs, stops, clears, history>>

Record(p) == RecordOpen(p) \/ RecordLine(p) \/ RecordNewline(p)
Prune(p)  == PruneRead(p) \/ PruneTruncate(p) \/ PruneWrite(p) \/ PruneRename(p)
Store(p)  == (\E size \in Size : StoreCount(p, size)) \/ StoreOpen(p) \/ StoreLine(p) \/ StoreNewline(p)
Key(p)    == ResolveKey(p) \/ CreateKey(p) \/ WriteKey(p)

Next ==
    \/ \E p \in Proc : Record(p) \/ Prune(p) \/ Store(p) \/ Key(p) \/ Stop(p)
    \/ ClearAudit \/ ClearCrashes \/ DeleteEmptyKey \/ Tick

Spec == Init /\ [][Next]_vars

-----------------------------------------------------------------------------
Recent(e) == at[e] >= clock - MaxAge /\ Cardinality({x \in begun : x > e}) < MaxLines

(* The retention policy is all that is ever lost: as long as no two tasks  *)
(* work on the audit log at once, a finished record younger than MAX_AGE   *)
(* and among the newest MAX_LINES is in the file at every moment, also in  *)
(* the middle of a prune and after one that was killed; and when nobody    *)
(* was killed `drdshd audit` shows those records and no others, in the     *)
(* order they were made, and nothing is unreadable.                        *)
AuditKeeps ==
    alone =>
      /\ \A e \in ended : Recent(e) => e \in ToSet(Contents("audit"))
      /\ stops = 0 /\ (\A p \in Proc : proc[p].pc \notin AuditPc) =>
           /\ ReadUnreadable = <<>>
           /\ ReadEntries = SetToSortSeq({<<e>> : e \in {x \in ended : Recent(x)}},
                                         LAMBDA a, b : a[1] < b[1])

(* A crash report whose number was answered is in the file until it is     *)
(* cleared, also behind the torn line of a store that was killed; and the  *)
(* file never holds more than MAX_REPORTS, whatever was torn or cleared    *)
(* between the count and the append.                                       *)
CrashLogKeeps ==
    /\ acked \subseteq ToSet(Contents("crash"))
    /\ Count(Contents("crash")) <= MaxReports

(* Neither log loses what it was trusted with.                             *)
LogsKeep == AuditKeeps /\ CrashLogKeeps

(* There is one room key: all commands that took theirs from the file, or  *)
(* made it, have the same one, and it is still what the file says - paired *)
(* devices depend on it (write_private's create_new).                      *)
OneRoomKey == held # {} => held = {key}
=============================================================================
