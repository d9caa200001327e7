--------------------------- MODULE StateFilesProofs ---------------------------
(***************************************************************************)
(* Proofs that there is one room key and that the crash log keeps what it  *)
(* was trusted with, for every number of tasks, commands, kills and        *)
(* cleared files.  What the audit log keeps rests on Lines, a fold over    *)
(* the file's contents, and stays with TLC.                                *)
(***************************************************************************)
EXTENDS StateFiles, FiniteSetTheorems, TLAPS

(* What a task is doing is a record with these fields. *)
Shaped ==
    /\ DOMAIN proc = Proc
    /\ \A p \in Proc : DOMAIN proc[p] = {"pc", "job", "fd", "off", "keep"}

(* A command that is about to make the key has a job of its own to name it *)
(* by, ...                                                                 *)
MakersHaveJobs == \A p \in Proc : proc[p].pc \in KeyPc => proc[p].job \in Job

(* ... the one whose create_new succeeded has the empty file to itself, ...*)
OneWriter ==
    /\ \A p \in Proc : Is(p, "keyWrite") => key = Empty
    /\ \A p, q \in Proc : Is(p, "keyWrite") /\ Is(q, "keyWrite") => p = q

(* ... and a key is held exactly when the file says it. *)
HeldIsStored ==
    /\ key \in Job \cup {NoFile, Empty}
    /\ held = IF key \in Job THEN {key} ELSE {}

KeyInv == Shaped /\ jobs \in 0 .. MaxJobs /\ MakersHaveJobs /\ OneWriter /\ HeldIsStored

LEMMA KeyValues == MaxJobs \in Nat /\ NoFile \notin Job /\ Empty \notin Job /\ NoFile # Empty
BY StateFilesAssumption DEF Job, NoFile, Empty

LEMMA KeyInit == Init => KeyInv
<1> SUFFICES ASSUME Init PROVE KeyInv
  OBVIOUS
<1>1. \A p \in Proc : proc[p] = Idle
  BY DEF Init
<1>2. Idle.pc = "idle" /\ DOMAIN Idle = {"pc", "job", "fd", "off", "keep"}
  BY DEF Idle
<1>3. Shaped
  BY <1>1, <1>2 DEF Shaped, Init
<1>4. MakersHaveJobs /\ OneWriter
  BY <1>1, <1>2 DEF MakersHaveJobs, OneWriter, Is, KeyPc
<1>5. jobs \in 0 .. MaxJobs /\ HeldIsStored
  BY KeyValues DEF HeldIsStored, Init
<1>q. QED BY <1>3, <1>4, <1>5 DEF KeyInv

(* What a step that has nothing to do with the key does to it: nothing; a  *)
(* task that moves moves to a place that is none of the key's.             *)
Aside(p) ==
    /\ UNCHANGED <<key, held>> /\ jobs' \in {jobs, jobs + 1} /\ jobs' <= MaxJobs
    /\ DOMAIN proc' = Proc
    /\ DOMAIN proc'[p] = {"pc", "job", "fd", "off", "keep"}
    /\ proc'[p].pc \notin KeyPc
    /\ \A q \in Proc : q # p => proc'[q] = proc[q]

LEMMA AsideKeeps == ASSUME KeyInv, NEW p \in Proc, Aside(p) PROVE KeyInv'
<1>1. Shaped'
  BY DEF KeyInv, Shaped, Aside
<1>2. ASSUME NEW q \in Proc, proc'[q].pc \in KeyPc PROVE q # p /\ proc'[q] = proc[q]
  BY <1>2 DEF Aside
<1>3. MakersHaveJobs'
  BY <1>2 DEF KeyInv, MakersHaveJobs
<1>4. OneWriter'
  <2>1. ASSUME NEW q \in Proc, proc'[q].pc = "keyWrite" PROVE proc'[q] = proc[q]
    BY <1>2, <2>1 DEF KeyPc
  <2>q. QED BY <2>1 DEF KeyInv, OneWriter, Is, Aside
<1>5. jobs' \in 0 .. MaxJobs /\ HeldIsStored'
  BY KeyValues DEF KeyInv, HeldIsStored, Aside
<1>q. QED BY <1>1, <1>3, <1>4, <1>5 DEF KeyInv

(* A step that leaves the tasks alone as well. *)
LEMMA QuietKeeps == ASSUME KeyInv, UNCHANGED <<key, held, proc>>,
                           jobs' \in {jobs, jobs + 1}, jobs' <= MaxJobs
                    PROVE  KeyInv'
<1>1. jobs' \in 0 .. MaxJobs
  BY KeyValues DEF KeyInv
<1>q. QED BY <1>1 DEF KeyInv, Shaped, MakersHaveJobs, OneWriter, HeldIsStored, Is

LEMMA IdleShape == /\ DOMAIN Idle = {"pc", "job", "fd", "off", "keep"}
                   /\ Idle.pc = "idle" /\ "idle" \notin KeyPc
BY DEF Idle, KeyPc

LEMMA RecordAside == ASSUME KeyInv, NEW p \in Proc, Record(p) PROVE Aside(p)
<1>0. Shaped /\ jobs \in 0 .. MaxJobs /\ MaxJobs \in Nat
  BY KeyValues DEF KeyInv
<1>1. CASE RecordOpen(p)
  BY <1>0, <1>1 DEF RecordOpen, Starts, Shaped, Aside, Idle, KeyPc
<1>2. CASE RecordLine(p)
  BY <1>0, <1>2 DEF RecordLine, Step, Shaped, Aside, KeyPc
<1>3. CASE RecordNewline(p)
  BY <1>0, <1>3 DEF RecordNewline, Shaped, Aside, KeyPc
<1>q. QED BY <1>1, <1>2, <1>3 DEF Record

LEMMA PruneAside == ASSUME KeyInv, NEW p \in Proc, Prune(p) PROVE Aside(p)
<1>0. Shaped /\ jobs \in 0 .. MaxJobs /\ MaxJobs \in Nat
  BY KeyValues DEF KeyInv
<1>1. CASE PruneRead(p)
  BY <1>0, <1>1, IdleShape DEF PruneRead, Finish, history, Shaped, Aside, KeyPc
<1>2. CASE PruneTruncate(p)
  BY <1>0, <1>2 DEF PruneTruncate, history, Shaped, Aside, KeyPc
<1>3. CASE PruneWrite(p)
  BY <1>0, <1>3 DEF PruneWrite, history, Shaped, Aside, KeyPc
<1>4. CASE PruneRename(p)
  BY <1>0, <1>4, IdleShape DEF PruneRename, Finish, history, Shaped, Aside
<1>q. QED BY <1>1, <1>2, <1>3, <1>4 DEF Prune

LEMMA StoreAside ==
  ASSUME KeyInv, NEW p \in Proc, Store(p)
  PROVE  Aside(p) \/ (UNCHANGED <<key, held, proc>> /\ jobs' = jobs + 1 /\ jobs' <= MaxJobs)
<1>0. Shaped /\ jobs \in 0 .. MaxJobs /\ MaxJobs \in Nat
  BY KeyValues DEF KeyInv
<1>1. CASE \E size \in Size : StoreCount(p, size)
  BY <1>0, <1>1 DEF StoreCount, Starts, history, Shaped, Aside, Idle, KeyPc
<1>2. CASE StoreOpen(p)
  BY <1>0, <1>2 DEF StoreOpen, history, Shaped, Aside, KeyPc
<1>3. CASE StoreLine(p)
  BY <1>0, <1>3 DEF StoreLine, Step, history, Shaped, Aside, KeyPc
<1>4. CASE StoreNewline(p)
  BY <1>0, <1>4, IdleShape DEF StoreNewline, Finish, Shaped, Aside
<1>q. QED BY <1>1, <1>2, <1>3, <1>4 DEF Store

LEMMA ResolveKeeps == ASSUME KeyInv, NEW p \in Proc, ResolveKey(p) PROVE KeyInv'
<1>0. /\ Shaped /\ jobs \in 0 .. MaxJobs /\ MaxJobs \in Nat /\ jobs' = jobs + 1 /\ jobs < MaxJobs
      /\ key' = key /\ held' = held
  BY KeyValues DEF KeyInv, ResolveKey, Starts, HeldIsStored
<1>1. CASE key # NoFile
  BY <1>0, <1>1, QuietKeeps DEF ResolveKey
<1>2. CASE key = NoFile
  <2> DEFINE new == [Idle EXCEPT !.pc = "create", !.job = jobs']
  <2>1. proc' = [proc EXCEPT ![p] = new]
    BY <1>2 DEF ResolveKey
  <2>2. new.pc = "create" /\ new.job = jobs' /\ DOMAIN new = {"pc", "job", "fd", "off", "keep"}
    BY DEF Idle
  <2> HIDE DEF new
  <2>3. DOMAIN proc' = Proc /\ \A q \in Proc : proc'[q] = IF q = p THEN new ELSE proc[q]
    BY <1>0, <2>1 DEF Shaped
  <2>4. Shaped'
    BY <1>0, <2>2, <2>3 DEF Shaped
  <2>5. MakersHaveJobs'
    BY <1>0, <2>2, <2>3 DEF KeyInv, MakersHaveJobs, Job
  <2>6. OneWriter'
    BY <1>0, <2>2, <2>3 DEF KeyInv, OneWriter, Is
  <2>7. jobs' \in 0 .. MaxJobs /\ HeldIsStored'
    BY <1>0 DEF KeyInv, HeldIsStored
  <2>q. QED BY <2>4, <2>5, <2>6, <2>7 DEF KeyInv
<1>q. QED BY <1>1, <1>2

LEMMA CreateKeeps == ASSUME KeyInv, NEW p \in Proc, CreateKey(p) PROVE KeyInv'
<1>0. /\ Shaped /\ jobs \in 0 .. MaxJobs /\ MaxJobs \in Nat /\ jobs' = jobs /\ held' = held
      /\ proc[p].pc = "create"
  BY KeyValues DEF KeyInv, CreateKey, Is, history
<1>1. CASE key # NoFile
  <2>1. proc' = [proc EXCEPT ![p] = Idle] /\ key' = key
    BY <1>1 DEF CreateKey, Finish
  <2>2. Aside(p)
    BY <1>0, <2>1, IdleShape DEF Aside, Shaped
  <2>q. QED BY <2>2, AsideKeeps
<1>2. CASE key = NoFile
  <2>1. key' = Empty /\ proc' = [proc EXCEPT ![p].pc = "keyWrite"]
    BY <1>2 DEF CreateKey, Step
  <2>2. /\ DOMAIN proc' = Proc /\ \A q \in Proc : q # p => proc'[q] = proc[q]
        /\ proc'[p].pc = "keyWrite" /\ proc'[p].job = proc[p].job
        /\ DOMAIN proc'[p] = DOMAIN proc[p]
    BY <1>0, <2>1 DEF Shaped
  <2>3. Shaped'
    BY <1>0, <2>2 DEF Shaped
  <2>4. MakersHaveJobs'
    BY <1>0, <2>2 DEF KeyInv, MakersHaveJobs, KeyPc
  <2>5. \A q \in Proc : ~Is(q, "keyWrite")
    BY <1>2, KeyValues DEF KeyInv, OneWriter
  <2>6. OneWriter'
    BY <2>1, <2>2, <2>5 DEF OneWriter, Is
  <2>7. HeldIsStored'
    BY <1>0, <1>2, <2>1, KeyValues DEF KeyInv, HeldIsStored
  <2>q. QED BY <1>0, <2>3, <2>4, <2>6, <2>7 DEF KeyInv
<1>q. QED BY <1>1, <1>2

LEMMA WriteKeeps == ASSUME KeyInv, NEW p \in Proc, WriteKey(p) PROVE KeyInv'
<1>0. /\ Shaped /\ jobs \in 0 .. MaxJobs /\ jobs' = jobs /\ key' = proc[p].job
      /\ held' = held \cup {proc[p].job} /\ proc[p].pc = "keyWrite"
      /\ proc' = [proc EXCEPT ![p] = Idle]
  BY DEF KeyInv, WriteKey, Is, Finish
<1>1. proc[p].job \in Job /\ key = Empty /\ held = {}
  BY <1>0, KeyValues DEF KeyInv, MakersHaveJobs, OneWriter, HeldIsStored, Is, KeyPc
<1>2. DOMAIN proc' = Proc /\ \A q \in Proc : proc'[q] = IF q = p THEN Idle ELSE proc[q]
  BY <1>0 DEF Shaped
<1>3. Shaped'
  BY <1>0, <1>2, IdleShape DEF Shaped
<1>4. MakersHaveJobs'
  BY <1>0, <1>2, IdleShape DEF KeyInv, MakersHaveJobs
<1>5. \A q \in Proc : proc'[q].pc # "keyWrite"
  <2>1. \A q \in Proc : q # p => proc[q].pc # "keyWrite"
    BY <1>0 DEF KeyInv, OneWriter, Is
  <2>q. QED BY <1>2, <2>1, IdleShape
<1>6. OneWriter'
  BY <1>5 DEF OneWriter, Is
<1>7. HeldIsStored'
  BY <1>0, <1>1 DEF HeldIsStored
<1>q. QED BY <1>0, <1>3, <1>4, <1>6, <1>7 DEF KeyInv

LEMMA DeleteKeeps == ASSUME KeyInv, DeleteEmptyKey PROVE KeyInv'
<1>1. /\ key = Empty /\ key' = NoFile /\ held' = held /\ proc' = proc /\ jobs' = jobs
      /\ \A p \in Proc : ~Is(p, "keyWrite")
  BY DEF DeleteEmptyKey, history
<1>2. OneWriter' /\ HeldIsStored'
  BY <1>1, KeyValues DEF KeyInv, OneWriter, HeldIsStored, Is
<1>q. QED BY <1>1, <1>2 DEF KeyInv, Shaped, MakersHaveJobs

LEMMA StopAside == ASSUME KeyInv, NEW p \in Proc, Stop(p) PROVE Aside(p)
<1>0. Shaped /\ jobs \in 0 .. MaxJobs /\ MaxJobs \in Nat
  BY KeyValues DEF KeyInv
<1>q. QED BY <1>0, IdleShape DEF Stop, Finish, history, Shaped, Aside

LEMMA KeyNext == KeyInv /\ [Next]_vars => KeyInv'
<1> SUFFICES ASSUME KeyInv, [Next]_vars PROVE KeyInv'
  OBVIOUS
<1>0. jobs \in 0 .. MaxJobs /\ MaxJobs \in Nat
  BY KeyValues DEF KeyInv
<1>1. ASSUME NEW p \in Proc, Record(p) \/ Prune(p) \/ Store(p) \/ Stop(p) PROVE KeyInv'
  BY <1>1, RecordAside, PruneAside, StoreAside, StopAside, AsideKeeps, QuietKeeps
<1>2. ASSUME NEW p \in Proc, Key(p) PROVE KeyInv'
  BY <1>2, ResolveKeeps, CreateKeeps, WriteKeeps DEF Key
<1>3. CASE ClearAudit \/ ClearCrashes \/ Tick \/ UNCHANGED vars
  <2>1. UNCHANGED <<key, held, proc, jobs>>
    BY <1>3 DEF ClearAudit, ClearCrashes, Tick, vars, history
  <2>q. QED BY <1>0, <2>1, QuietKeeps
<1>4. CASE DeleteEmptyKey
  BY <1>4, DeleteKeeps
<1>q. QED BY <1>1, <1>2, <1>3, <1>4 DEF Next

(* There is one room key, whatever commands resolve, make, are killed in   *)
(* the middle of making, or find an empty file: all that took theirs from  *)
(* the file or made it have the same one, and the file still says it       *)
(* (resolve and write_private of roomkey.rs).                              *)
THEOREM TheRoomKeyIsOne == Spec => []OneRoomKey
<1>1. KeyInv => OneRoomKey
  BY DEF KeyInv, HeldIsStored, OneRoomKey
<1>q. QED BY <1>1, KeyInit, KeyNext, PTL DEF Spec

-----------------------------------------------------------------------------
(* The crash log.  Its inode is nobody else's: neither the audit log nor   *)
(* the temporary file is it, and only who stores a report has it open.     *)
Separate ==
    /\ dir \in [Name -> Inode \cup {NoInode}] /\ DOMAIN data = Inode
    /\ \A p \in Proc : proc[p].fd \in Inode \cup {NoInode}
    /\ \A p \in Proc : proc[p].pc \in {"report", "reportEnd"} => proc[p].fd # NoInode
    /\ dir["crash"] # NoInode =>
         /\ dir["crash"] # dir["audit"] /\ dir["crash"] # dir["tmp"]
         /\ \A p \in Proc : proc[p].fd = dir["crash"] => proc[p].pc \in {"report", "reportEnd"}

(* Everything in it is a report or a newline, and a report whose line was  *)
(* written is there.                                                       *)
Reported ==
    /\ jobs \in 0 .. MaxJobs
    /\ \A p \in Proc : proc[p].pc \in CrashPc => proc[p].job \in Job
    /\ Contents("crash") \in Seq(Nat)
    /\ \A p \in Proc : proc[p].pc = "reportEnd" /\ proc[p].fd = dir["crash"] =>
         proc[p].job \in ToSet(Contents("crash"))
    /\ acked \subseteq ToSet(Contents("crash"))

(* Stores follow each other, and who was counted in still has its place.   *)
Storing(p) == proc[p].pc \in CrashPc
CountedIn ==
    /\ \A p, q \in Proc : Storing(p) /\ Storing(q) => p = q
    /\ Count(Contents("crash")) <= MaxReports
    /\ \A p \in Proc : Storing(p) => Count(Contents("crash")) < MaxReports

CrashInv == Shaped /\ Separate /\ Reported /\ CountedIn

(* Where a file is created there is an inode for it: less are in use than  *)
(* there are tasks and names.                                              *)
LEMMA InodesSuffice ==
  ASSUME Separate, NEW n \in Name, dir[n] = NoInode
  PROVE  Opened(n) \in Inode /\ Opened(n) \notin Used
<1> DEFINE D == {dir[m] : m \in Name}
           F == {proc[p].fd : p \in Proc}
           N == Cardinality(Proc)
<1>1. IsFiniteSet(Proc) /\ N \in Nat
  BY StateFilesAssumption, FS_CardinalityType
<1>2. IsFiniteSet(Name) /\ Cardinality(Name) = 3
  <2>1. IsFiniteSet({"audit"}) /\ Cardinality({"audit"}) = 1
    BY FS_Singleton
  <2>2. IsFiniteSet({"audit"} \cup {"tmp"}) /\ Cardinality({"audit"} \cup {"tmp"}) = 2
    <3>1. "tmp" \notin {"audit"}
      OBVIOUS
    <3>2. /\ IsFiniteSet({"audit"} \cup {"tmp"})
          /\ Cardinality({"audit"} \cup {"tmp"}) = Cardinality({"audit"}) + 1
      BY <2>1, <3>1, FS_AddElement, Zenon
    <3>q. QED BY <2>1, <3>2
  <2>3. /\ IsFiniteSet(({"audit"} \cup {"tmp"}) \cup {"crash"})
        /\ Cardinality(({"audit"} \cup {"tmp"}) \cup {"crash"}) = 3
    BY <2>2, FS_AddElement
  <2>4. Name = ({"audit"} \cup {"tmp"}) \cup {"crash"}
    BY DEF Name
  <2>q. QED BY <2>3, <2>4
<1>3. IsFiniteSet(D) /\ Cardinality(D) <= 3 /\ Cardinality(D) \in Nat
  <2>1. [m \in Name |-> dir[m]] \in Surjection(Name, D)
    BY DEF Surjection
  <2>2. IsFiniteSet(D) /\ Cardinality(D) <= Cardinality(Name)
    BY <1>2, <2>1, FS_Surjection
  <2>q. QED BY <1>2, <2>2, FS_CardinalityType
<1>4. IsFiniteSet(F) /\ Cardinality(F) <= N /\ Cardinality(F) \in Nat
  <2>1. [p \in Proc |-> proc[p].fd] \in Surjection(Proc, F)
    BY DEF Surjection
  <2>2. IsFiniteSet(F) /\ Cardinality(F) <= Cardinality(Proc)
    BY <1>1, <2>1, FS_Surjection
  <2>q. QED BY <2>2, FS_CardinalityType
<1>5. Used = D \cup F
  BY DEF Used
<1> HIDE DEF D, F, N
<1>6. IsFiniteSet(Used) /\ Cardinality(Used) <= 3 + N
  <2>1. Cardinality(D \cap F) \in Nat
    BY <1>3, FS_Intersection, FS_CardinalityType
  <2>2. IsFiniteSet(D \cup F) /\ Cardinality(D \cup F) = Cardinality(D) + Cardinality(F) - Cardinality(D \cap F)
    BY <1>3, <1>4, FS_Union
  <2>q. QED BY <1>1, <1>3, <1>4, <1>5, <2>1, <2>2
<1>7. \E i \in Inode : i \notin Used
  <2> SUFFICES ASSUME Inode \subseteq Used PROVE FALSE
    OBVIOUS
  <2>1. NoInode \in Used
    BY <1>5 DEF D
  <2>2. 0 .. N + 3 \subseteq Used
    BY <1>1, <1>2, <2>1 DEF Inode, NoInode, N
  <2>3. Cardinality(0 .. N + 3) = N + 4
    BY <1>1, FS_Interval
  <2>4. Cardinality(0 .. N + 3) <= Cardinality(Used)
    BY <1>6, <2>2, FS_Subset
  <2>q. QED BY <1>1, <1>6, <2>3, <2>4, FS_CardinalityType
<1>q. QED BY <1>7 DEF Opened

(* What is opened to write is not the crash log, unless it is asked for.   *)
LEMMA OpenedApart ==
  ASSUME Separate, NEW n \in Name, n # "crash"
  PROVE  Opened(n) \in Inode /\ (dir["crash"] # NoInode => Opened(n) # dir["crash"])
<1>1. CASE dir[n] = NoInode
  BY <1>1, InodesSuffice DEF Used, Name
<1>2. CASE dir[n] # NoInode
  BY <1>2 DEF Opened, Separate, Name
<1>q. QED BY <1>1, <1>2

-----------------------------------------------------------------------------
(* A step that is not about crash reports leaves their file alone; a task  *)
(* that moves is at none of the places of store.                           *)
Elsewhere(p) ==
    /\ dir' \in [Name -> Inode \cup {NoInode}] /\ dir'["crash"] = dir["crash"] /\ DOMAIN data' = Inode
    /\ dir["crash"] # NoInode =>
         /\ dir'["audit"] # dir["crash"] /\ dir'["tmp"] # dir["crash"]
         /\ data'[dir["crash"]] = data[dir["crash"]]
         /\ proc'[p].fd # dir["crash"]
    /\ acked' = acked /\ jobs' \in 0 .. MaxJobs
    /\ DOMAIN proc' = Proc
    /\ DOMAIN proc'[p] = {"pc", "job", "fd", "off", "keep"}
    /\ proc'[p].fd \in Inode \cup {NoInode} /\ proc'[p].pc \notin CrashPc
    /\ \A q \in Proc : q # p => proc'[q] = proc[q]

LEMMA ProcFinite == IsFiniteSet(Proc) /\ Cardinality(Proc) \in Nat /\ MaxReports \in Nat \ {0}
BY StateFilesAssumption, FS_CardinalityType

(* The lines counted in c. *)
Counting(c) == {k \in 2 .. Len(c) : c[k] = Newline /\ c[k - 1] # Newline}

LEMMA CountIs ==
  ASSUME NEW c \in Seq(Nat)
  PROVE  IsFiniteSet(Counting(c)) /\ Count(c) = Cardinality(Counting(c)) /\ Count(c) \in Nat
<1>1. IsFiniteSet(2 .. Len(c))
  BY FS_Interval
<1>2. Counting(c) \in SUBSET (2 .. Len(c))
  BY DEF Counting
<1>3. IsFiniteSet(Counting(c)) /\ Cardinality(Counting(c)) \in Nat
  BY <1>1, <1>2, FS_Subset, FS_CardinalityType
<1>q. QED BY <1>3 DEF Count, Counting

LEMMA NothingCounted == <<>> \in Seq(Nat) /\ Count(<<>>) = 0
<1>1. <<>> \in Seq(Nat)
  OBVIOUS
<1>2. Counting(<<>>) = {}
  BY DEF Counting
<1>3. Count(<<>>) = Cardinality(Counting(<<>>))
  BY <1>1, CountIs
<1>q. QED BY <1>1, <1>2, <1>3, FS_EmptySet

LEMMA ElsewhereKeeps == ASSUME CrashInv, NEW p \in Proc, Elsewhere(p) PROVE CrashInv'
<1>1. Shaped'
  BY DEF CrashInv, Shaped, Elsewhere
<1>2. Contents("crash")' = Contents("crash")
  BY DEF Elsewhere, Contents
<1>3. ASSUME NEW q \in Proc, proc'[q].pc \in CrashPc PROVE q # p /\ proc'[q] = proc[q]
  BY <1>3 DEF Elsewhere
<1>4. Separate'
  <2>1. ASSUME NEW q \in Proc PROVE proc'[q].fd \in Inode \cup {NoInode}
    BY DEF Elsewhere, CrashInv, Separate
  <2>2. ASSUME NEW q \in Proc, proc'[q].pc \in {"report", "reportEnd"} PROVE proc'[q].fd # NoInode
    BY <1>3, <2>2 DEF CrashInv, Separate, CrashPc
  <2>3. ASSUME dir["crash"] # NoInode, NEW q \in Proc, proc'[q].fd = dir["crash"]
        PROVE  proc'[q].pc \in {"report", "reportEnd"}
    BY <2>3 DEF Elsewhere, CrashInv, Separate
  <2>q. QED BY <2>1, <2>2, <2>3 DEF Separate, Elsewhere
<1>5. Reported'
  <2>1. ASSUME NEW q \in Proc, proc'[q].pc \in CrashPc PROVE proc'[q].job \in Job
    BY <1>3, <2>1 DEF CrashInv, Reported
  <2>2. ASSUME NEW q \in Proc, proc'[q].pc = "reportEnd", proc'[q].fd = dir'["crash"]
        PROVE  proc'[q].job \in ToSet(Contents("crash"))
    BY <1>3, <2>2 DEF CrashInv, Reported, CrashPc, Elsewhere
  <2>q. QED BY <1>2, <2>1, <2>2 DEF CrashInv, Reported, Elsewhere
<1>6. CountedIn'
  <2>1. \A q \in Proc : Storing(q)' => Storing(q)
    BY <1>3 DEF Storing
  <2>2. Count(Contents("crash")') = Count(Contents("crash"))
    BY <1>2
  <2>q. QED BY <2>1, <2>2 DEF CrashInv, CountedIn
<1>q. QED BY <1>1, <1>4, <1>5, <1>6 DEF CrashInv

-----------------------------------------------------------------------------
(* The steps of the audit log, ... *)
LEMMA RecordElsewhere == ASSUME CrashInv, NEW p \in Proc, Record(p) PROVE Elsewhere(p)
<1>0. Shaped /\ Separate /\ jobs \in 0 .. MaxJobs /\ MaxJobs \in Nat
  BY KeyValues DEF CrashInv, Reported
<1>1. CASE RecordOpen(p)
  <2> DEFINE i == Opened("audit")
             new == [Idle EXCEPT !.pc = "write", !.job = jobs', !.fd = i]
  <2>1. i \in Inode /\ (dir["crash"] # NoInode => i # dir["crash"])
    BY <1>0, OpenedApart DEF Name
  <2>2. /\ dir' = [dir EXCEPT !["audit"] = i] /\ data' \in {data, [data EXCEPT ![i] = <<>>]}
        /\ proc' = [proc EXCEPT ![p] = new] /\ acked' = acked /\ jobs' = jobs + 1 /\ jobs < MaxJobs
    BY <1>1 DEF RecordOpen, Starts
  <2>3. new.pc = "write" /\ new.fd = i /\ DOMAIN new = {"pc", "job", "fd", "off", "keep"}
    BY DEF Idle
  <2> HIDE DEF i, new
  <2>q. QED BY <1>0, <2>1, <2>2, <2>3 DEF Elsewhere, Shaped, Separate, CrashPc, Name
<1>2. CASE RecordLine(p) \/ RecordNewline(p)
  <2>1. proc[p].pc \in {"write", "newline"}
    BY <1>2 DEF RecordLine, RecordNewline, Is
  <2>2. /\ dir' = dir /\ jobs' = jobs /\ acked' = acked
        /\ \E t : data' = [data EXCEPT ![proc[p].fd] = Append(@, t)]
    BY <1>2 DEF RecordLine, RecordNewline, Write
  <2>3. /\ DOMAIN proc' = Proc /\ \A q \in Proc : q # p => proc'[q] = proc[q]
        /\ DOMAIN proc'[p] = {"pc", "job", "fd", "off", "keep"}
        /\ proc'[p].pc \in {"newline", "prune"} /\ proc'[p].fd \in {proc[p].fd, NoInode}
    BY <1>0, <1>2 DEF RecordLine, RecordNewline, Step, Shaped
  <2>4. dir["crash"] # NoInode => proc[p].fd # dir["crash"]
    BY <1>0, <2>1 DEF Separate
  <2>5. DOMAIN data' = Inode /\ (dir["crash"] # NoInode => data'[dir["crash"]] = data[dir["crash"]])
    BY <1>0, <2>2, <2>4 DEF Separate, Name
  <2>q. QED BY <1>0, <2>2, <2>3, <2>4, <2>5 DEF Elsewhere, Separate, CrashPc
<1>q. QED BY <1>1, <1>2 DEF Record

LEMMA PruneElsewhere == ASSUME CrashInv, NEW p \in Proc, Prune(p) PROVE Elsewhere(p)
<1>0. Shaped /\ Separate /\ jobs \in 0 .. MaxJobs /\ MaxJobs \in Nat
  BY KeyValues DEF CrashInv, Reported
<1>1. /\ proc[p].pc \in {"prune", "truncate", "rewrite", "rename"}
      /\ jobs' = jobs /\ acked' = acked
  BY DEF Prune, PruneRead, PruneTruncate, PruneWrite, PruneRename, Is, history
<1>2. dir["crash"] # NoInode => proc[p].fd # dir["crash"]
  BY <1>0, <1>1 DEF Separate
<1>3. CASE PruneRead(p)
  <2>1. dir' = dir /\ data' = data
    BY <1>3 DEF PruneRead
  <2>2. /\ DOMAIN proc' = Proc /\ \A q \in Proc : q # p => proc'[q] = proc[q]
        /\ DOMAIN proc'[p] = {"pc", "job", "fd", "off", "keep"}
        /\ proc'[p].pc \in {"idle", "truncate"} /\ proc'[p].fd \in {proc[p].fd, NoInode}
    BY <1>0, <1>3 DEF PruneRead, Finish, Shaped, Idle
  <2>q. QED BY <1>0, <1>1, <1>2, <2>1, <2>2 DEF Elsewhere, Separate, CrashPc
<1>4. CASE PruneTruncate(p)
  <2> DEFINE i == Opened("tmp")
  <2>1. i \in Inode /\ (dir["crash"] # NoInode => i # dir["crash"])
    BY <1>0, OpenedApart DEF Name
  <2>2. dir' = [dir EXCEPT !["tmp"] = i] /\ data' = [data EXCEPT ![i] = <<>>]
    BY <1>4 DEF PruneTruncate
  <2>3. /\ DOMAIN proc' = Proc /\ \A q \in Proc : q # p => proc'[q] = proc[q]
        /\ DOMAIN proc'[p] = {"pc", "job", "fd", "off", "keep"}
        /\ proc'[p].pc \in {"rename", "rewrite"} /\ proc'[p].fd = i
    BY <1>0, <1>4 DEF PruneTruncate, Shaped
  <2> HIDE DEF i
  <2>q. QED BY <1>0, <1>1, <2>1, <2>2, <2>3 DEF Elsewhere, Separate, CrashPc, Name
<1>5. CASE PruneWrite(p)
  <2>1. dir' = dir /\ \E c : data' = [data EXCEPT ![proc[p].fd] = c]
    BY <1>5 DEF PruneWrite
  <2>2. /\ DOMAIN proc' = Proc /\ \A q \in Proc : q # p => proc'[q] = proc[q]
        /\ DOMAIN proc'[p] = {"pc", "job", "fd", "off", "keep"}
        /\ proc'[p].pc \in {"rename", "rewrite"} /\ proc'[p].fd = proc[p].fd
    BY <1>0, <1>5 DEF PruneWrite, Shaped
  <2>3. DOMAIN data' = Inode /\ (dir["crash"] # NoInode => data'[dir["crash"]] = data[dir["crash"]])
    BY <1>0, <1>2, <2>1 DEF Separate, Name
  <2>q. QED BY <1>0, <1>1, <1>2, <2>1, <2>2, <2>3 DEF Elsewhere, Separate, CrashPc
<1>6. CASE PruneRename(p)
  <2>1. data' = data /\ proc' = [proc EXCEPT ![p] = Idle]
    BY <1>6 DEF PruneRename, Finish
  <2>2. dir' = dir \/ dir' = [dir EXCEPT !["audit"] = dir["tmp"], !["tmp"] = NoInode]
    BY <1>6 DEF PruneRename
  <2>3. Idle.pc = "idle" /\ Idle.fd = NoInode /\ DOMAIN Idle = {"pc", "job", "fd", "off", "keep"}
    BY DEF Idle
  <2>4. /\ dir' \in [Name -> Inode \cup {NoInode}] /\ dir'["crash"] = dir["crash"]
        /\ dir["crash"] # NoInode => dir'["audit"] # dir["crash"] /\ dir'["tmp"] # dir["crash"]
    BY <1>0, <2>2 DEF Separate, Name
  <2>q. QED BY <1>0, <1>1, <2>1, <2>3, <2>4 DEF Elsewhere, Shaped, Separate, CrashPc
<1>q. QED BY <1>3, <1>4, <1>5, <1>6 DEF Prune

(* ... of the room key, and a kill. *)
LEMMA KeyElsewhere == ASSUME CrashInv, NEW p \in Proc, Key(p) \/ Stop(p)
                      PROVE  Elsewhere(p) \/ (/\ UNCHANGED <<dir, data, proc, acked>>
                                              /\ jobs' \in 0 .. MaxJobs)
<1>0. Shaped /\ Separate /\ jobs \in 0 .. MaxJobs /\ MaxJobs \in Nat
  BY KeyValues DEF CrashInv, Reported
<1>1. dir' = dir /\ data' = data /\ acked' = acked /\ jobs' \in 0 .. MaxJobs
  BY <1>0 DEF Key, ResolveKey, CreateKey, WriteKey, Stop, Starts, history
<1>2. \/ proc' = proc
      \/ proc' = [proc EXCEPT ![p] = Idle]
      \/ proc' = [proc EXCEPT ![p] = [Idle EXCEPT !.pc = "create", !.job = jobs']]
      \/ proc[p].pc = "create" /\ proc' = [proc EXCEPT ![p].pc = "keyWrite"]
  BY DEF Key, ResolveKey, CreateKey, WriteKey, Stop, Finish, Step, Is
<1>3. CASE proc' = proc
  BY <1>1, <1>3
<1>4. CASE proc' # proc
  <2>1. /\ DOMAIN proc' = Proc /\ \A q \in Proc : q # p => proc'[q] = proc[q]
        /\ DOMAIN proc'[p] = {"pc", "job", "fd", "off", "keep"}
        /\ proc'[p].pc \in {"idle", "create", "keyWrite"}
        /\ proc'[p].fd = NoInode \/ (proc'[p].fd = proc[p].fd /\ proc[p].pc = "create")
    <3>1. CASE proc' = [proc EXCEPT ![p] = Idle]
      BY <1>0, <3>1 DEF Shaped, Idle
    <3>2. CASE proc' = [proc EXCEPT ![p] = [Idle EXCEPT !.pc = "create", !.job = jobs']]
      BY <1>0, <3>2 DEF Shaped, Idle
    <3>3. CASE proc[p].pc = "create" /\ proc' = [proc EXCEPT ![p].pc = "keyWrite"]
      BY <1>0, <3>3 DEF Shaped
    <3>q. QED BY <1>2, <1>4, <3>1, <3>2, <3>3
  <2>2. proc'[p].fd \in Inode \cup {NoInode} /\ (dir["crash"] # NoInode => proc'[p].fd # dir["crash"])
    BY <1>0, <2>1 DEF Separate
  <2>q. QED BY <1>0, <1>1, <2>1, <2>2 DEF Elsewhere, Separate, CrashPc
<1>q. QED BY <1>3, <1>4

-----------------------------------------------------------------------------
(* The steps of store.  Who is let in was counted. *)
LEMMA StoreCountKeeps ==
  ASSUME CrashInv, NEW p \in Proc, NEW size \in Size, StoreCount(p, size)
  PROVE  CrashInv'
<1>0. /\ Shaped /\ Separate /\ Reported /\ jobs \in 0 .. MaxJobs /\ MaxJobs \in Nat
      /\ proc[p].pc = "idle" /\ jobs' = jobs + 1 /\ jobs < MaxJobs
      /\ dir' = dir /\ data' = data /\ acked' = acked
  BY KeyValues DEF CrashInv, Reported, StoreCount, Starts, Is, history
<1>1. Contents("crash")' = Contents("crash")
  BY <1>0 DEF Contents
<1>2. CASE proc' = proc
  BY <1>0, <1>1, <1>2 DEF CrashInv, Shaped, Separate, Reported, CountedIn, Storing
<1>3. CASE proc' # proc
  <2> DEFINE new == [Idle EXCEPT !.pc = "open", !.job = jobs']
  <2>1. proc' = [proc EXCEPT ![p] = new] /\ Count(Contents("crash")) < MaxReports
    BY <1>3 DEF StoreCount, RoomFor
  <2>2. /\ new.pc = "open" /\ new.job = jobs + 1 /\ new.fd = NoInode
        /\ DOMAIN new = {"pc", "job", "fd", "off", "keep"}
    BY <1>0 DEF Idle
  <2> HIDE DEF new
  <2>3. DOMAIN proc' = Proc /\ \A q \in Proc : proc'[q] = IF q = p THEN new ELSE proc[q]
    BY <1>0, <2>1 DEF Shaped
  <2>4. Shaped'
    BY <1>0, <2>2, <2>3 DEF Shaped
  <2>5. Separate'
    <3>1. \A q \in Proc : proc'[q].fd \in Inode \cup {NoInode}
      BY <1>0, <2>2, <2>3 DEF Separate
    <3>2. \A q \in Proc : proc'[q].pc \in {"report", "reportEnd"} => proc'[q] = proc[q]
      BY <2>2, <2>3
    <3>3. \A q \in Proc : proc'[q].fd = dir["crash"] => proc'[q] = proc[q] \/ dir["crash"] = NoInode
      BY <2>2, <2>3
    <3>q. QED BY <1>0, <3>1, <3>2, <3>3 DEF Separate
  <2>6. Reported'
    <3>1. jobs + 1 \in Job
      BY <1>0 DEF Job
    <3>2. \A q \in Proc : proc'[q].pc \in CrashPc => proc'[q].job \in Job
      BY <1>0, <2>2, <2>3, <3>1 DEF Reported
    <3>3. \A q \in Proc : proc'[q].pc = "reportEnd" => proc'[q] = proc[q]
      BY <2>2, <2>3
    <3>q. QED BY <1>0, <1>1, <3>2, <3>3 DEF Reported
  <2>7. CountedIn'
    <3>1. \A q \in Proc : ~Storing(q)
      BY DEF StoreCount, Storing
    <3>2. \A q \in Proc : Storing(q)' => q = p
      BY <2>3, <3>1 DEF Storing
    <3>3. Count(Contents("crash")') = Count(Contents("crash"))
      BY <1>1
    <3>q. QED BY <2>1, <3>2, <3>3 DEF CrashInv, CountedIn
  <2>q. QED BY <2>4, <2>5, <2>6, <2>7 DEF CrashInv
<1>q. QED BY <1>2, <1>3

(* A file that is created is empty, and nobody has had it open.            *)
LEMMA StoreOpenKeeps == ASSUME CrashInv, NEW p \in Proc, StoreOpen(p) PROVE CrashInv'
<1> DEFINE i == Opened("crash")
<1>0. /\ Shaped /\ Separate /\ Reported /\ proc[p].pc = "open" /\ jobs' = jobs /\ acked' = acked
      /\ dir' = [dir EXCEPT !["crash"] = i]
      /\ data' = IF dir["crash"] = NoInode THEN [data EXCEPT ![i] = <<>>] ELSE data
      /\ proc' = [proc EXCEPT ![p].pc = "report", ![p].fd = i]
  BY DEF CrashInv, StoreOpen, Is, history
<1>1. i \in Inode /\ (dir["crash"] = NoInode => i \notin Used) /\ (dir["crash"] # NoInode => i = dir["crash"])
  <2>1. "crash" \in Name
    BY DEF Name
  <2>2. CASE dir["crash"] = NoInode
    BY <1>0, <2>1, <2>2, InodesSuffice
  <2>3. CASE dir["crash"] # NoInode
    BY <1>0, <2>1, <2>3 DEF Opened, Separate
  <2>q. QED BY <2>2, <2>3
<1> HIDE DEF i
<1>2. i # NoInode
  BY <1>1, ProcFinite DEF Inode, NoInode
<1>3. dir'["crash"] = i /\ dir'["audit"] = dir["audit"] /\ dir'["tmp"] = dir["tmp"]
  BY <1>0 DEF Separate, Name
<1>4. Contents("crash")' = Contents("crash")
  BY <1>0, <1>1, <1>2, <1>3 DEF Contents, Separate
<1>5. /\ DOMAIN proc' = Proc /\ \A q \in Proc : q # p => proc'[q] = proc[q]
      /\ proc'[p].pc = "report" /\ proc'[p].fd = i /\ proc'[p].job = proc[p].job
      /\ DOMAIN proc'[p] = {"pc", "job", "fd", "off", "keep"}
  BY <1>0 DEF Shaped
<1>6. Shaped'
  BY <1>0, <1>5 DEF Shaped
<1>7. \A q \in Proc : q # p /\ proc[q].fd = i => i = dir["crash"] /\ dir["crash"] # NoInode
  BY <1>1, <1>2 DEF Used
<1>8. Separate'
  <2>1. dir' \in [Name -> Inode \cup {NoInode}] /\ DOMAIN data' = Inode
    BY <1>0, <1>1 DEF Separate
  <2>2. i # dir["audit"] /\ i # dir["tmp"]
    BY <1>0, <1>1 DEF Separate, Used, Name
  <2>3. \A q \in Proc : proc'[q].fd \in Inode \cup {NoInode}
    BY <1>0, <1>1, <1>5 DEF Separate
  <2>4. \A q \in Proc : proc'[q].pc \in {"report", "reportEnd"} => proc'[q].fd # NoInode
    BY <1>0, <1>2, <1>5 DEF Separate
  <2>5. \A q \in Proc : proc'[q].fd = i => proc'[q].pc \in {"report", "reportEnd"}
    BY <1>0, <1>5, <1>7 DEF Separate
  <2>q. QED BY <1>3, <2>1, <2>2, <2>3, <2>4, <2>5 DEF Separate
<1>9. Reported'
  <2>1. \A q \in Proc : proc'[q].pc \in CrashPc => proc'[q].job \in Job
    BY <1>0, <1>5 DEF Reported, CrashPc
  <2>2. \A q \in Proc : proc'[q].pc = "reportEnd" /\ proc'[q].fd = i => proc'[q].job \in ToSet(Contents("crash"))
    BY <1>0, <1>5, <1>7 DEF Reported
  <2>q. QED BY <1>0, <1>3, <1>4, <2>1, <2>2 DEF Reported
<1>10. CountedIn'
  <2>1. \A q \in Proc : Storing(q)' <=> Storing(q)
    BY <1>0, <1>5 DEF Storing, CrashPc
  <2>2. Count(Contents("crash")') = Count(Contents("crash"))
    BY <1>4
  <2>q. QED BY <2>1, <2>2 DEF CrashInv, CountedIn
<1>q. QED BY <1>6, <1>8, <1>9, <1>10 DEF CrashInv

(* A write adds its token, and a newline completes one line at most.       *)
LEMMA CountAppend ==
  ASSUME NEW c \in Seq(Nat), NEW t \in Nat
  PROVE  /\ Append(c, t) \in Seq(Nat)
         /\ ToSet(Append(c, t)) = ToSet(c) \cup {t}
         /\ Count(Append(c, t)) <= Count(c) + (IF t = Newline THEN 1 ELSE 0)
<1> DEFINE d == Append(c, t)
<1>1. d \in Seq(Nat) /\ Len(d) = Len(c) + 1 /\ d[Len(c) + 1] = t /\ \A k \in 1 .. Len(c) : d[k] = c[k]
  OBVIOUS
<1>2. Len(c) \in Nat /\ DOMAIN c = 1 .. Len(c) /\ DOMAIN d = 1 .. Len(c) + 1
  BY <1>1
<1> HIDE DEF d
<1>3. ToSet(d) = ToSet(c) \cup {t}
  <2>1. 1 .. Len(c) + 1 = (1 .. Len(c)) \cup {Len(c) + 1}
    BY <1>2
  <2>2. ToSet(d) = {d[k] : k \in (1 .. Len(c)) \cup {Len(c) + 1}}
    BY <1>2, <2>1 DEF ToSet
  <2>3. ToSet(c) = {c[k] : k \in 1 .. Len(c)}
    BY <1>2 DEF ToSet
  <2>q. QED BY <1>1, <2>2, <2>3
<1>c. ASSUME NEW k \in Counting(d), k # Len(c) + 1 PROVE k \in Counting(c)
  <2>1. k \in 2 .. Len(c) + 1 /\ d[k] = Newline /\ d[k - 1] # Newline
    BY <1>1, <1>c DEF Counting
  <2>2. k \in 2 .. Len(c) /\ k \in 1 .. Len(c) /\ k - 1 \in 1 .. Len(c)
    BY <1>2, <1>c, <2>1
  <2>3. d[k] = c[k] /\ d[k - 1] = c[k - 1]
    BY <1>1, <2>2
  <2>q. QED BY <2>1, <2>2, <2>3 DEF Counting
<1>4. Counting(d) \in SUBSET (Counting(c) \cup {Len(c) + 1})
  BY <1>c
<1>5. t # Newline => Counting(d) \in SUBSET Counting(c)
  <2>1. t # Newline => Len(c) + 1 \notin Counting(d)
    BY <1>1 DEF Counting
  <2>q. QED BY <1>c, <2>1
<1>6. /\ IsFiniteSet(Counting(c)) /\ Count(c) = Cardinality(Counting(c)) /\ Count(c) \in Nat
      /\ Count(d) = Cardinality(Counting(d)) /\ Count(d) \in Nat
  BY <1>1, CountIs
<1>7. Count(d) <= Count(c) + 1
  <2>1. /\ IsFiniteSet(Counting(c) \cup {Len(c) + 1})
        /\ Cardinality(Counting(c) \cup {Len(c) + 1}) \in {Count(c), Count(c) + 1}
    BY <1>6, FS_AddElement
  <2>2. Count(d) <= Cardinality(Counting(c) \cup {Len(c) + 1})
    BY <1>4, <1>6, <2>1, FS_Subset
  <2>q. QED BY <1>6, <2>1, <2>2
<1>8. t # Newline => Count(d) <= Count(c)
  BY <1>5, <1>6, FS_Subset
<1>9. d \in Seq(Nat) /\ ToSet(d) = ToSet(c) \cup {t} /\ Count(d) <= Count(c) + (IF t = Newline THEN 1 ELSE 0)
  BY <1>1, <1>3, <1>6, <1>7, <1>8
<1>q. QED BY <1>9 DEF d

(* Who writes, writes to the crash log or to one that was cleared. *)
LEMMA WriteTo ==
  ASSUME CrashInv, NEW p \in Proc, proc[p].pc \in {"report", "reportEnd"}, NEW t \in Nat,
         Write(p, t), dir' = dir
  PROVE  /\ DOMAIN data' = Inode /\ Contents("crash") \in Seq(Nat)
         /\ Contents("crash")' = IF proc[p].fd = dir["crash"] THEN Append(Contents("crash"), t)
                                 ELSE Contents("crash")
<1>1. /\ data' = [data EXCEPT ![proc[p].fd] = Append(data[proc[p].fd], t)] /\ DOMAIN data = Inode
      /\ proc[p].fd \in Inode /\ proc[p].fd # NoInode
  BY DEF Write, CrashInv, Separate
<1>2. CASE proc[p].fd = dir["crash"]
  BY <1>1, <1>2 DEF Contents, CrashInv, Reported
<1>3. CASE proc[p].fd # dir["crash"]
  <2>1. dir["crash"] # NoInode => data'[dir["crash"]] = data[dir["crash"]]
    BY <1>1, <1>3 DEF CrashInv, Separate, Name
  <2>q. QED BY <1>1, <1>3, <2>1 DEF Contents, CrashInv, Reported
<1>q. QED BY <1>2, <1>3

LEMMA StoreLineKeeps == ASSUME CrashInv, NEW p \in Proc, StoreLine(p) PROVE CrashInv'
<1>0. /\ Shaped /\ Separate /\ Reported /\ proc[p].pc = "report" /\ jobs' = jobs /\ acked' = acked
      /\ dir' = dir /\ Write(p, proc[p].job) /\ proc' = [proc EXCEPT ![p].pc = "reportEnd"]
  BY DEF CrashInv, StoreLine, Is, Step, history
<1>1. proc[p].job \in Job /\ proc[p].job \in Nat /\ proc[p].job # Newline
  BY <1>0 DEF Reported, CrashPc, Job, Newline
<1>2. /\ DOMAIN data' = Inode /\ Contents("crash") \in Seq(Nat)
      /\ Contents("crash")' = IF proc[p].fd = dir["crash"] THEN Append(Contents("crash"), proc[p].job)
                              ELSE Contents("crash")
  BY <1>0, <1>1, WriteTo
<1>3. /\ Contents("crash")' \in Seq(Nat)
      /\ ToSet(Contents("crash")) \subseteq ToSet(Contents("crash")')
      /\ proc[p].fd = dir["crash"] => proc[p].job \in ToSet(Contents("crash")')
      /\ Count(Contents("crash")') <= Count(Contents("crash"))
      /\ Count(Contents("crash")) \in Nat /\ Count(Contents("crash")') \in Nat
  <2> DEFINE c == Contents("crash")
             d == Append(c, proc[p].job)
  <2>1. Count(c) \in Nat
    BY <1>2, CountIs
  <2>2. d \in Seq(Nat) /\ ToSet(d) = ToSet(c) \cup {proc[p].job} /\ Count(d) <= Count(c) + 0
    BY <1>1, <1>2, CountAppend
  <2>3. Count(d) \in Nat
    BY <2>2, CountIs
  <2>4. Contents("crash")' = IF proc[p].fd = dir["crash"] THEN d ELSE c
    BY <1>2
  <2> HIDE DEF c, d
  <2>5. c \in Seq(Nat) /\ c = Contents("crash")
    BY <1>2 DEF c
  <2>q. QED BY <2>1, <2>2, <2>3, <2>4, <2>5
<1>4. /\ DOMAIN proc' = Proc /\ \A q \in Proc : q # p => proc'[q] = proc[q]
      /\ proc'[p].pc = "reportEnd" /\ proc'[p].fd = proc[p].fd /\ proc'[p].job = proc[p].job
      /\ DOMAIN proc'[p] = {"pc", "job", "fd", "off", "keep"}
  BY <1>0 DEF Shaped
<1>5. Shaped'
  BY <1>0, <1>4 DEF Shaped
<1>6. Separate'
  <2>1. \A q \in Proc : proc'[q].fd = proc[q].fd
    BY <1>4
  <2>2. \A q \in Proc : proc'[q].pc \in {"report", "reportEnd"} <=> proc[q].pc \in {"report", "reportEnd"}
    BY <1>0, <1>4
  <2>q. QED BY <1>0, <1>2, <2>1, <2>2 DEF Separate
<1>7. Reported'
  <2>1. \A q \in Proc : proc'[q].pc \in CrashPc => proc'[q].job \in Job
    BY <1>0, <1>1, <1>4 DEF Reported
  <2>2. \A q \in Proc : proc'[q].pc = "reportEnd" /\ proc'[q].fd = dir["crash"] =>
          proc'[q].job \in ToSet(Contents("crash")')
    BY <1>0, <1>3, <1>4 DEF Reported
  <2>q. QED BY <1>0, <1>3, <2>1, <2>2 DEF Reported
<1>8. CountedIn'
  <2>1. \A q \in Proc : Storing(q)' <=> Storing(q)
    BY <1>0, <1>4 DEF Storing, CrashPc
  <2>q. QED BY <1>3, <2>1, ProcFinite DEF CrashInv, CountedIn
<1>q. QED BY <1>5, <1>6, <1>7, <1>8 DEF CrashInv

LEMMA StoreNewlineKeeps == ASSUME CrashInv, NEW p \in Proc, StoreNewline(p) PROVE CrashInv'
<1>0. /\ Shaped /\ Separate /\ Reported /\ proc[p].pc = "reportEnd" /\ jobs' = jobs
      /\ dir' = dir /\ Write(p, Newline) /\ proc' = [proc EXCEPT ![p] = Idle]
      /\ acked' = IF proc[p].fd = dir["crash"] THEN acked \cup {proc[p].job} ELSE acked
  BY DEF CrashInv, StoreNewline, Is, Finish
<1>1. Newline \in Nat
  BY DEF Newline
<1>2. /\ DOMAIN data' = Inode /\ Contents("crash") \in Seq(Nat)
      /\ Contents("crash")' = IF proc[p].fd = dir["crash"] THEN Append(Contents("crash"), Newline)
                              ELSE Contents("crash")
  BY <1>0, <1>1, WriteTo
<1>3. /\ Contents("crash")' \in Seq(Nat)
      /\ ToSet(Contents("crash")) \subseteq ToSet(Contents("crash")')
      /\ Count(Contents("crash")') <= Count(Contents("crash")) + 1
      /\ Count(Contents("crash")) \in Nat /\ Count(Contents("crash")') \in Nat
  <2> DEFINE c == Contents("crash")
             d == Append(c, Newline)
  <2>1. Count(c) \in Nat
    BY <1>2, CountIs
  <2>2. d \in Seq(Nat) /\ ToSet(d) = ToSet(c) \cup {Newline} /\ Count(d) <= Count(c) + 1
    BY <1>1, <1>2, CountAppend
  <2>3. Count(d) \in Nat
    BY <2>2, CountIs
  <2>4. Contents("crash")' = IF proc[p].fd = dir["crash"] THEN d ELSE c
    BY <1>2
  <2> HIDE DEF c, d
  <2>5. c \in Seq(Nat) /\ c = Contents("crash")
    BY <1>2 DEF c
  <2>q. QED BY <2>1, <2>2, <2>3, <2>4, <2>5
<1>4. /\ DOMAIN proc' = Proc /\ \A q \in Proc : q # p => proc'[q] = proc[q]
      /\ proc'[p].pc = "idle" /\ proc'[p].fd = NoInode
      /\ DOMAIN proc'[p] = {"pc", "job", "fd", "off", "keep"}
  BY <1>0 DEF Shaped, Idle
<1>5. Shaped'
  BY <1>0, <1>4 DEF Shaped
<1>6. Separate'
  <2>1. \A q \in Proc : proc'[q].fd \in Inode \cup {NoInode}
    BY <1>0, <1>4 DEF Separate
  <2>2. \A q \in Proc : proc'[q].pc \in {"report", "reportEnd"} => proc'[q].fd # NoInode
    BY <1>0, <1>4 DEF Separate
  <2>3. dir["crash"] # NoInode =>
          \A q \in Proc : proc'[q].fd = dir["crash"] => proc'[q].pc \in {"report", "reportEnd"}
    BY <1>0, <1>4 DEF Separate
  <2>q. QED BY <1>0, <1>2, <2>1, <2>2, <2>3 DEF Separate
<1>7. Reported'
  <2>1. \A q \in Proc : proc'[q].pc \in CrashPc => proc'[q].job \in Job
    BY <1>0, <1>4 DEF Reported, CrashPc
  <2>2. \A q \in Proc : proc'[q].pc = "reportEnd" /\ proc'[q].fd = dir["crash"] =>
          proc'[q].job \in ToSet(Contents("crash")')
    BY <1>0, <1>3, <1>4 DEF Reported
  <2>3. acked' \subseteq ToSet(Contents("crash")')
    BY <1>0, <1>3 DEF Reported
  <2>q. QED BY <1>0, <1>3, <2>1, <2>2, <2>3 DEF Reported
<1>8. CountedIn'
  <2>1. Storing(p)
    BY <1>0 DEF Storing, CrashPc
  <2>2. \A q \in Proc : ~Storing(q)'
    BY <1>0, <1>4, <2>1 DEF CrashInv, CountedIn, Storing, CrashPc
  <2>3. Count(Contents("crash")) < MaxReports
    BY <2>1 DEF CrashInv, CountedIn
  <2>q. QED BY <1>3, <2>2, <2>3, ProcFinite DEF CountedIn
<1>q. QED BY <1>5, <1>6, <1>7, <1>8 DEF CrashInv

-----------------------------------------------------------------------------
(* The commands that clear a log: the writers of a cleared crash log write *)
(* on to a file without a name.                                            *)
LEMMA ClearCrashesKeeps == ASSUME CrashInv, ClearCrashes PROVE CrashInv'
<1>0. /\ Shaped /\ Separate /\ Reported /\ jobs' = jobs /\ acked' = {} /\ data' = data /\ proc' = proc
      /\ dir' = [dir EXCEPT !["crash"] = NoInode]
  BY DEF CrashInv, ClearCrashes
<1>1. dir' \in [Name -> Inode \cup {NoInode}] /\ dir'["crash"] = NoInode
  BY <1>0 DEF Separate, Name
<1>2. Contents("crash")' = <<>>
  BY <1>1 DEF Contents
<1>3. Separate'
  BY <1>0, <1>1 DEF Separate
<1>4. Reported'
  <2>1. \A q \in Proc : ~(proc'[q].pc = "reportEnd" /\ proc'[q].fd = NoInode)
    BY <1>0 DEF Separate
  <2>q. QED BY <1>0, <1>1, <1>2, <2>1, NothingCounted DEF Reported
<1>5. CountedIn'
  <2>1. \A q \in Proc : Storing(q)' <=> Storing(q)
    BY <1>0 DEF Storing
  <2>q. QED BY <1>2, <2>1, NothingCounted, ProcFinite DEF CrashInv, CountedIn
<1>q. QED BY <1>0, <1>3, <1>4, <1>5 DEF CrashInv, Shaped

LEMMA ClearAuditKeeps == ASSUME CrashInv, ClearAudit PROVE CrashInv'
<1>0. /\ Shaped /\ Separate /\ jobs' = jobs /\ acked' = acked /\ data' = data /\ proc' = proc
      /\ dir' = [dir EXCEPT !["audit"] = NoInode]
  BY DEF CrashInv, ClearAudit
<1>1. dir' \in [Name -> Inode \cup {NoInode}] /\ dir'["crash"] = dir["crash"] /\ dir'["tmp"] = dir["tmp"]
  BY <1>0 DEF Separate, Name
<1>2. dir'["audit"] = NoInode
  BY <1>0 DEF Separate, Name
<1>3. Contents("crash")' = Contents("crash")
  BY <1>0, <1>1 DEF Contents
<1>q. QED BY <1>0, <1>1, <1>2, <1>3 DEF CrashInv, Shaped, Separate, Reported, CountedIn, Storing

LEMMA StandStill == ASSUME CrashInv, UNCHANGED <<dir, data, proc, acked>>, jobs' \in 0 .. MaxJobs
                    PROVE  CrashInv'
<1>1. Contents("crash")' = Contents("crash")
  BY DEF Contents
<1>q. QED BY <1>1 DEF CrashInv, Shaped, Separate, Reported, CountedIn, Storing

LEMMA CrashInit == Init => CrashInv
<1> SUFFICES ASSUME Init PROVE CrashInv
  OBVIOUS
<1>1. \A p \in Proc : proc[p] = Idle
  BY DEF Init
<1>2. Idle.pc = "idle" /\ Idle.fd = NoInode /\ DOMAIN Idle = {"pc", "job", "fd", "off", "keep"}
  BY DEF Idle
<1>3. Contents("crash") = <<>> /\ dir["crash"] = NoInode
  BY DEF Init, Contents, Name
<1>4. Shaped
  BY <1>1, <1>2 DEF Shaped, Init
<1>5. Separate
  BY <1>1, <1>2, <1>3 DEF Separate, Init
<1>6. Reported
  <2>1. \A p \in Proc : proc[p].pc \notin CrashPc /\ proc[p].pc # "reportEnd"
    BY <1>1, <1>2 DEF CrashPc
  <2>2. jobs \in 0 .. MaxJobs /\ acked = {}
    BY KeyValues DEF Init
  <2>q. QED BY <1>3, <2>1, <2>2, NothingCounted DEF Reported
<1>7. CountedIn
  <2>1. \A p \in Proc : ~Storing(p)
    BY <1>1, <1>2 DEF Storing, CrashPc
  <2>q. QED BY <1>3, <2>1, NothingCounted, ProcFinite DEF CountedIn
<1>q. QED BY <1>4, <1>5, <1>6, <1>7 DEF CrashInv

LEMMA CrashNext == CrashInv /\ [Next]_vars => CrashInv'
<1> SUFFICES ASSUME CrashInv, [Next]_vars PROVE CrashInv'
  OBVIOUS
<1>1. ASSUME NEW p \in Proc, Record(p) \/ Prune(p) \/ Key(p) \/ Stop(p) PROVE CrashInv'
  BY <1>1, RecordElsewhere, PruneElsewhere, KeyElsewhere, ElsewhereKeeps, StandStill
<1>2. ASSUME NEW p \in Proc, Store(p) PROVE CrashInv'
  BY <1>2, StoreCountKeeps, StoreOpenKeeps, StoreLineKeeps, StoreNewlineKeeps DEF Store
<1>3. CASE ClearAudit \/ ClearCrashes
  BY <1>3, ClearAuditKeeps, ClearCrashesKeeps
<1>4. CASE DeleteEmptyKey \/ Tick \/ UNCHANGED vars
  <2>1. UNCHANGED <<dir, data, proc, acked, jobs>>
    BY <1>4 DEF DeleteEmptyKey, Tick, vars, history
  <2>q. QED BY <2>1, StandStill DEF CrashInv, Reported
<1>q. QED BY <1>1, <1>2, <1>3, <1>4 DEF Next

(* The crash log keeps what it was trusted with (store of crashlog.rs): a  *)
(* report whose number was answered is in the file until it is cleared,    *)
(* whatever is stored, pruned elsewhere or killed meanwhile, and the file  *)
(* never holds more than MAX_REPORTS.                                      *)
THEOREM ReportsAreKept == Spec => []CrashLogKeeps
<1>1. CrashInv => CrashLogKeeps
  <2> SUFFICES ASSUME CrashInv PROVE CrashLogKeeps
    OBVIOUS
  <2>q. QED BY DEF CrashInv, Reported, CountedIn, CrashLogKeeps
<1>q. QED BY <1>1, CrashInit, CrashNext, PTL DEF Spec

=============================================================================
