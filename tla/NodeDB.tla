------------------------------- MODULE NodeDB -------------------------------
(***************************************************************************)
(* llarp_nodedb: router contacts (RCs) in memory, under the mutex access,  *)
(* and one file per RC, written and removed by the single thread of the    *)
(* disk pool.  The logic thread and the crypto workers call it.  An RC is  *)
(* its version, which stands for last_updated; 0 is no RC.                 *)
(***************************************************************************)
EXTENDS Integers, Sequences, FiniteSets

CONSTANTS
    Callers,      \* threads that call the nodedb
    Routers,
    Keep,         \* bootstrap routers, which RemoveStaleRCs keeps
    MaxVersion,   \* bound: versions of an RC
    Capacity,     \* of the disk pool's job queue (1000)
    MaxCalls,     \* bound: calls of the nodedb
    MaxCrashes,   \* bound: crashes of the process
    Nobody

ASSUME NodeDBAssumption ==
    /\ {MaxVersion, Capacity} \subseteq Nat \ {0} /\ {MaxCalls, MaxCrashes} \subseteq Nat
    /\ Nobody \notin Callers \cup {"disk"} /\ "disk" \notin Callers
    /\ IsFiniteSet(Callers) /\ IsFiniteSet(Routers) /\ Keep \subseteq Routers

Versions == 1 .. MaxVersion
None == 0
Broken == -1    \* a file that was truncated and not written

VARIABLES
    access,     \* who holds the mutex
    entries,    \* [Routers -> version in memory]
    fresh,      \* routers inserted after the cutoff of the stale RCs
    files,      \* [Routers -> version in the file]
    jobs,       \* queue of the disk pool
    enabled,    \* the queue takes jobs
    disk,       \* the disk thread: where it is, its job
    th,         \* [Callers -> where the call is, the job it adds]
    up,         \* the process is running and has loaded the files
    calls, crashes,
    lost,       \* history: routers whose write failed, or whose file was removed, while
                \* they have an entry
    expired     \* history: routers whose file was not loaded as it did not verify

control == <<jobs, enabled, disk, up, crashes>>
history == <<lost, expired>>
vars == <<access, entries, fresh, files, control, th, calls, history>>

Job(op, r, v, S) == [op |-> op, r |-> r, v |-> v, S |-> S]
NoJob == Job("none", Nobody, None, {})
Out == [pc |-> "out", job |-> NoJob]
Present == {r \in Routers : entries[r] # None}

Init ==
    /\ access = Nobody /\ entries = [r \in Routers |-> None] /\ fresh = {}
    /\ files = [r \in Routers |-> None]
    /\ jobs = <<>> /\ enabled = TRUE /\ disk = Out
    /\ th = [t \in Callers |-> Out] /\ up = TRUE /\ calls = 0 /\ crashes = 0
    /\ lost = {} /\ expired = {}

-----------------------------------------------------------------------------
(* Calls                                                                   *)

Call(t) == up /\ th[t].pc = "out" /\ calls < MaxCalls /\ calls' = calls + 1
Free == access = Nobody

\* The call goes on to addJob with this job
Adding(t, job) == th' = [th EXCEPT ![t] = [pc |-> "add", job |-> job]]

InsertAsync(t, r, v) ==
    /\ Call(t)
    /\ Adding(t, Job("insert", r, v, {}))
    /\ UNCHANGED <<access, entries, fresh, files, control, history>>

\* InsertAsync is called with access held
UpdateAsyncIfNewer(t, r, v) ==
    /\ Call(t) /\ Free
    /\ IF entries[r] < v
       THEN /\ access' = t
            /\ Adding(t, Job("insert", r, v, {}))
            /\ UNCHANGED fresh
       ELSE /\ fresh' = IF r \in Present THEN fresh \cup {r} ELSE fresh
            /\ UNCHANGED <<access, th>>
    /\ UNCHANGED <<entries, files, control, history>>

\* mutant: the files to remove are looked up when the entries are gone
Erased_After(t, S) ==
    /\ entries' = [r \in Routers |-> IF r \in S THEN None ELSE entries[r]]
    /\ fresh' = fresh \ S /\ lost' = lost \ S
    /\ Adding(t, Job("kill", Nobody, None, {r \in S : entries'[r] # None}))

\* RemoveIf, with a filter that holds for S; then KillRCJobs is added
Erased(t, S) ==
    /\ entries' = [r \in Routers |-> IF r \in S THEN None ELSE entries[r]]
    /\ fresh' = fresh \ S /\ lost' = lost \ S
    /\ Adding(t, Job("kill", Nobody, None, S \cap Present))

Remove(t, r) ==
    /\ Call(t) /\ Free
    /\ Erased(t, {r})
    /\ UNCHANGED <<access, files, control, expired>>

\* RemoveStaleRCs takes access twice: to visit the stale RCs, and to remove them
VisitInsertedBefore(t) ==
    /\ Call(t) /\ Free
    /\ th' = [th EXCEPT ![t] = [pc |-> "stale",
                                job |-> Job("kill", Nobody, None, Present \ (fresh \cup Keep))]]
    /\ UNCHANGED <<access, entries, fresh, files, control, history>>

RemoveStaleRCs(t) ==
    /\ th[t].pc = "stale" /\ Free
    /\ Erased(t, th[t].job.S)
    /\ UNCHANGED <<access, files, control, calls, expired>>

AsyncFlushToDisk(t) ==
    /\ Call(t)
    /\ Adding(t, Job("save", Nobody, None, {}))
    /\ UNCHANGED <<access, entries, fresh, files, control, history>>

Return(t) ==
    /\ th' = [th EXCEPT ![t] = Out]
    /\ access' = IF access = t THEN Nobody ELSE access

\* addJob blocks while the queue is full
AddJob(t) ==
    /\ th[t].pc = "add" /\ enabled /\ Len(jobs) < Capacity
    /\ jobs' = Append(jobs, th[t].job)
    /\ Return(t)
    /\ UNCHANGED <<entries, fresh, files, enabled, disk, up, calls, crashes, history>>

\* addJob fails: InsertAsync gives up after ten more tries, when tries has wrapped
\* and is not 0; the others do not look at what addJob returns
AddJobFails(t) ==
    /\ th[t].pc = "add" /\ ~enabled
    /\ Return(t)
    /\ UNCHANGED <<entries, fresh, files, control, calls, history>>

\* An RC grows older than the cutoff
Age(r) ==
    /\ r \in fresh /\ fresh' = fresh \ {r}
    /\ UNCHANGED <<access, entries, files, control, th, calls, history>>

-----------------------------------------------------------------------------
(* The thread of the disk pool                                             *)

DiskVars == <<enabled, up, crashes, th, calls>>
AtJob(op) == disk.pc = "job" /\ disk.job.op = op

\* ThreadPool::runJobs, in the disk thread
Pop ==
    /\ up /\ disk.pc = "out" /\ jobs # <<>>
    /\ disk' = [pc |-> "job", job |-> Head(jobs)]
    /\ jobs' = Tail(jobs)
    /\ UNCHANGED <<access, entries, fresh, files, DiskVars, history>>

\* Opening a file truncates it
Truncated(r) == files' = [files EXCEPT ![r] = Broken]

\* Insert opens the file, or cannot
InsertOpen ==
    /\ AtJob("insert")
    /\ \/ disk' = Out /\ UNCHANGED <<files, lost>>
       \/ Truncated(disk.job.r) /\ disk' = [disk EXCEPT !.pc = "opened"]
          /\ lost' = IF disk.job.r \in Present THEN lost \cup {disk.job.r} ELSE lost
    /\ UNCHANGED <<access, entries, fresh, jobs, DiskVars, expired>>

\* ... writes it, or cannot and leaves the entry as it is
InsertWrite ==
    /\ disk.pc = "opened"
    /\ \/ disk' = Out /\ UNCHANGED <<files, expired>>
       \/ /\ files' = [files EXCEPT ![disk.job.r] = disk.job.v]
          /\ disk' = [disk EXCEPT !.pc = "written"]
          /\ expired' = expired \ {disk.job.r}
    /\ UNCHANGED <<access, entries, fresh, jobs, DiskVars, lost>>

\* mutant: emplace does not replace an entry
Replaced_Emplace(r, v) == entries' = [entries EXCEPT ![r] = IF @ = None THEN v ELSE @]

\* the entry is erased first, as emplace would keep it
Replaced(r, v) == entries' = [entries EXCEPT ![r] = v]

\* ... and "save rc after writing to disk"
InsertEntry ==
    /\ disk.pc = "written" /\ Free
    /\ Replaced(disk.job.r, disk.job.v)
    /\ fresh' = fresh \cup {disk.job.r}
    /\ lost' = lost \ {disk.job.r}
    /\ disk' = Out
    /\ UNCHANGED <<access, files, jobs, DiskVars, expired>>

\* KillRCJobs, a file at a time.  Nobody catches what fs::remove throws: a removal
\* that fails ends the process (Crash)
KillRC ==
    /\ AtJob("kill")
    /\ IF disk.job.S = {}
       THEN disk' = Out /\ UNCHANGED <<files, lost, expired>>
       ELSE \E r \in disk.job.S :
               /\ files' = [files EXCEPT ![r] = None]
               /\ disk' = [disk EXCEPT !.job.S = @ \ {r}]
               /\ lost' = IF r \in Present THEN lost \cup {r} ELSE lost
               /\ expired' = expired \ {r}
    /\ UNCHANGED <<access, entries, fresh, jobs, DiskVars>>

\* SaveAll holds access until all the files are written
SaveLock ==
    /\ AtJob("save") /\ Free
    /\ access' = "disk"
    /\ disk' = [pc |-> "saving", job |-> [disk.job EXCEPT !.S = Present]]
    /\ UNCHANGED <<entries, fresh, files, jobs, DiskVars, history>>

\* A file that cannot be opened is skipped, a failed write is not noticed
SaveFile(r) ==
    /\ disk.pc = "saving" /\ r \in disk.job.S
    /\ \/ files' = [files EXCEPT ![r] = entries[r]] /\ lost' = lost \ {r}
       \/ UNCHANGED <<files, lost>>
       \/ Truncated(r) /\ lost' = lost \cup {r}
    /\ disk' = [disk EXCEPT !.job.S = @ \ {r}]
    /\ expired' = IF files'[r] = files[r] THEN expired ELSE expired \ {r}
    /\ UNCHANGED <<access, entries, fresh, jobs, DiskVars>>

\* mutant: the mutex is not released
SaveDone_KeepsLock ==
    /\ disk.pc = "saving" /\ disk.job.S = {}
    /\ disk' = Out
    /\ UNCHANGED <<access, entries, fresh, files, jobs, DiskVars, history>>

SaveDone ==
    /\ disk.pc = "saving" /\ disk.job.S = {}
    /\ access' = Nobody /\ disk' = Out
    /\ UNCHANGED <<entries, fresh, files, jobs, DiskVars, history>>

\* Router::Close stops the disk pool, which runs what is queued
StopDisk ==
    /\ up /\ enabled /\ enabled' = FALSE
    /\ UNCHANGED <<access, entries, fresh, files, jobs, disk, th, up, calls, crashes, history>>

-----------------------------------------------------------------------------
(* A crash leaves the files; the next start loads those that can be read   *)
(* and verify                                                              *)

Crash ==
    /\ up /\ crashes < MaxCrashes
    /\ crashes' = crashes + 1 /\ up' = FALSE
    /\ access' = Nobody /\ entries' = [r \in Routers |-> None] /\ fresh' = {}
    /\ jobs' = <<>> /\ disk' = Out /\ th' = [t \in Callers |-> Out] /\ enabled' = TRUE
    /\ lost' = {}
    /\ UNCHANGED <<files, calls, expired>>

Readable(r) == files[r] \in Versions

Load(verified) ==
    /\ ~up /\ up' = TRUE
    /\ entries' = [r \in Routers |->
                     IF Readable(r) /\ r \in verified THEN files[r] ELSE None]
    /\ fresh' = {r \in verified : Readable(r)}
    /\ expired' = {r \in Routers \ verified : Readable(r)}
    /\ UNCHANGED <<access, files, jobs, enabled, disk, th, calls, crashes, lost>>

DiskStep ==
    \/ Pop \/ InsertOpen \/ InsertWrite \/ InsertEntry \/ KillRC
    \/ SaveLock \/ SaveDone \/ \E r \in Routers : SaveFile(r)

CallStep(t) == RemoveStaleRCs(t) \/ AddJob(t) \/ AddJobFails(t)

Next ==
    \/ \E t \in Callers :
          \/ \E r \in Routers, v \in Versions :
                InsertAsync(t, r, v) \/ UpdateAsyncIfNewer(t, r, v)
          \/ \E r \in Routers : Remove(t, r)
          \/ VisitInsertedBefore(t) \/ AsyncFlushToDisk(t) \/ CallStep(t)
    \/ \E r \in Routers : Age(r)
    \/ DiskStep \/ StopDisk \/ Crash
    \/ \E verified \in SUBSET Routers : Load(verified)

Spec == Init /\ [][Next]_vars

\* Threads go on, and a thread that waits for the mutex gets it in the end
FairSpec ==
    /\ Spec /\ WF_vars(DiskStep) /\ SF_vars(InsertEntry) /\ SF_vars(SaveLock)
    /\ \A t \in Callers : WF_vars(AddJob(t)) /\ WF_vars(AddJobFails(t))
                          /\ SF_vars(RemoveStaleRCs(t))

-----------------------------------------------------------------------------
(* Properties                                                              *)

JobType ==
    [op : {"insert", "kill", "save", "none"}, r : Routers \cup {Nobody},
     v : 0 .. MaxVersion, S : SUBSET Routers]

\* Types, and what is in memory is an RC
TypeOK ==
    /\ access \in Callers \cup {"disk", Nobody}
    /\ entries \in [Routers -> 0 .. MaxVersion] /\ fresh \subseteq Present
    /\ files \in [Routers -> -1 .. MaxVersion]
    /\ jobs \in Seq(JobType) /\ Len(jobs) <= Capacity
    /\ disk \in [pc : {"out", "job", "opened", "written", "saving"}, job : JobType]
    /\ th \in [Callers -> [pc : {"out", "stale", "add"}, job : JobType]]
    /\ enabled \in BOOLEAN /\ up \in BOOLEAN
    /\ calls \in 0 .. MaxCalls /\ crashes \in 0 .. MaxCrashes
    /\ lost \subseteq Routers /\ expired \subseteq Routers

\* No call is under way and the disk thread has nothing to do
Quiescent ==
    /\ up /\ jobs = <<>> /\ disk = Out /\ \A t \in Callers : th[t] = Out

\* Once the disk thread has caught up, a router that was removed has no file the next
\* start would load: although files are removed by a job, and an insert of the router
\* may be queued, or half done, when its entry is erased.  (A pool that was stopped
\* takes no such job, and Load passes over a file that does not verify.)
NoGhostFiles ==
    Quiescent /\ enabled =>
        \A r \in Routers \ expired : files[r] \in Versions => r \in Present

\* The state is well typed (no RC is read from a file that was not written); once the
\* disk thread has caught up, an RC in memory is the one in its file, so a
\* restart loses nothing: unless a write failed, or the file was removed by a job
\* queued behind an insert that put the router back.
EntriesOnDisk ==
    /\ TypeOK
    /\ Quiescent => \A r \in Present \ lost : files[r] = entries[r]

\* A call of the nodedb returns, although it may hold access while it waits for room
\* in the disk pool, whose thread takes access.
CallsReturn == \A t \in Callers : th[t].pc # "out" ~> th[t].pc = "out"

\* UpdateAsyncIfNewer waits for room with access held, the disk thread for access
Jammed ==
    /\ \E t \in Callers : access = t /\ th[t].pc = "add"
    /\ Len(jobs) = Capacity /\ enabled
    /\ disk.pc = "written" \/ AtJob("save")

\* Calls return unless the disk queue is full, its last place is waited for by a caller
\* that holds access, and the disk thread waits for access: nothing else makes a call
\* of the nodedb wait for ever.
CallsReturnUnlessJammed == \A t \in Callers : []<>(th[t].pc = "out") \/ <>[]Jammed
=============================================================================
