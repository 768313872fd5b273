---------------------------- MODULE NodeDB_proofs ----------------------------
(***************************************************************************)
(* Proofs about NodeDB, for any callers, routers and queue length: once    *)
(* the disk thread has caught up, the files are those of the entries in    *)
(* memory and no file is left of a router that was removed.                *)
(***************************************************************************)
EXTENDS NodeDB, TLAPS

-----------------------------------------------------------------------------
(* The inductive invariant                                                 *)

Kill(job) == job.op = "kill"

\* What addJob is called with
Sound(job) ==
    /\ job.op \in {"insert", "kill", "save"}
    /\ job.op = "insert" => job.r \in Routers /\ job.v \in Versions

\* Jobs are sound wherever they are, and Insert writes for an insert
JobsInv ==
    /\ \A t \in Callers : th[t].pc = "add" => Sound(th[t].job)
    /\ \A i \in 1 .. Len(jobs) : Sound(jobs[i])
    /\ disk.pc # "out" => Sound(disk.job)
    /\ disk.pc \in {"opened", "written"} => disk.job.op = "insert"

\* SaveAll holds the mutex, and the entries it has yet to write stay
SavingInv == disk.pc = "saving" => access = "disk" /\ disk.job.S \subseteq Present

\* A process that is down has no entries and no threads
DownInv == ~up => Present = {} /\ jobs = <<>> /\ disk = Out /\ \A t \in Callers : th[t] = Out

ControlInv == JobsInv /\ SavingInv /\ DownInv

\* An entry whose file was not touched since it was written is in that file; the
\* file of the router that is being inserted was
FileInv ==
    /\ \A r \in Present \ lost : files[r] = entries[r]
    /\ disk.pc \in {"opened", "written"} /\ disk.job.r \in Present => disk.job.r \in lost
    /\ disk.pc = "written" => files[disk.job.r] = disk.job.v

\* The file of r is going to be removed, or r to have an entry
Pending(r) ==
    \/ \E t \in Callers : th[t].pc = "add" /\ Kill(th[t].job) /\ r \in th[t].job.S
    \/ \E i \in 1 .. Len(jobs) : Kill(jobs[i]) /\ r \in jobs[i].S
    \/ AtJob("kill") /\ r \in disk.job.S
    \/ disk.pc = "written" /\ disk.job.r = r

Ghost(r) == r \in Routers \ expired /\ files[r] \in Versions /\ r \notin Present

GhostInv == up /\ enabled => \A r \in Routers : Ghost(r) => Pending(r)

IInv == TypeOK /\ ControlInv /\ FileInv /\ GhostInv

-----------------------------------------------------------------------------
(* Types                                                                   *)

LEMMA JobsTyped ==
  /\ NoJob \in JobType
  /\ \A r \in Routers, v \in Versions : Job("insert", r, v, {}) \in JobType
  /\ \A S \in SUBSET Routers : Job("kill", Nobody, None, S) \in JobType
  /\ Job("save", Nobody, None, {}) \in JobType
  BY NodeDBAssumption DEF NoJob, Job, JobType, Versions, None

DiskType == [pc : {"out", "job", "opened", "written", "saving"}, job : JobType]
CallType == [pc : {"out", "stale", "add"}, job : JobType]

LEMMA OutTyped == Out \in DiskType /\ Out \in CallType
  BY JobsTyped DEF Out, DiskType, CallType

\* What the disk thread sets
LEMMA DiskTyped ==
  ASSUME NEW d \in DiskType
  PROVE  /\ d.job \in JobType /\ d.job.S \in SUBSET Routers
         /\ \A p \in {"opened", "written"} :
               /\ [d EXCEPT !.pc = p] \in DiskType
               /\ [d EXCEPT !.pc = p].pc = p /\ [d EXCEPT !.pc = p].job = d.job
         /\ \A S \in SUBSET Routers : [d.job EXCEPT !.S = S] \in JobType
         /\ \A r : [d EXCEPT !.job.S = @ \ {r}] \in DiskType
  BY DEF DiskType, JobType

LEMMA FileTyped ==
  ASSUME TypeOK, NEW r, NEW v \in -1 .. MaxVersion, files' = [files EXCEPT ![r] = v]
  PROVE  files' \in [Routers -> -1 .. MaxVersion]
  BY Zenon DEF TypeOK

LEMMA CallCounted ==
  ASSUME TypeOK, NEW t \in Callers, Call(t)
  PROVE  calls' \in 0 .. MaxCalls
  BY NodeDBAssumption DEF TypeOK, Call

\* What a call sets: its own state, and perhaps the entries and the mutex
LEMMA CallTyped ==
  ASSUME TypeOK, NEW t \in Callers, NEW x \in CallType, th' = [th EXCEPT ![t] = x]
  PROVE  th' \in [Callers -> CallType]
  BY Zenon DEF TypeOK, CallType

\* What RemoveIf sets
LEMMA EraseTyped ==
  ASSUME TypeOK, NEW t \in Callers, NEW S \in SUBSET Routers, Erased(t, S)
  PROVE  /\ entries' \in [Routers -> 0 .. MaxVersion] /\ fresh' \subseteq Present' /\ lost' \subseteq Routers
         /\ th' \in [Callers -> [pc : {"out", "stale", "add"}, job : JobType]]
  <1>1. Job("kill", Nobody, None, S \cap Present) \in JobType
    BY JobsTyped
  <1>2. th' \in [Callers -> CallType]
    BY <1>1, CallTyped, Zenon DEF Erased, Adding, CallType
  <1>3. QED
    BY <1>2, NodeDBAssumption DEF Erased, TypeOK, Present, None, CallType

\* Every step keeps the types
LEMMA TypeNext ==
  ASSUME TypeOK, ControlInv, [Next]_vars
  PROVE  TypeOK'
<1>a. disk \in DiskType
  BY Zenon DEF TypeOK, DiskType
<1>b. None \in -1 .. MaxVersion /\ Broken \in -1 .. MaxVersion
  BY NodeDBAssumption DEF None, Broken
<1>1. ASSUME NEW t \in Callers, NEW r \in Routers, NEW v \in Versions,
             InsertAsync(t, r, v)
      PROVE  TypeOK'
  <2>1. [pc |-> "add", job |-> Job("insert", r, v, {})] \in CallType
    BY JobsTyped DEF CallType
  <2>2. th' \in [Callers -> CallType]
    BY <1>1, <2>1, CallTyped, Zenon DEF InsertAsync, Adding
  <2>3. QED
    BY <1>1, <2>2, CallCounted, Zenon DEF InsertAsync, TypeOK, CallType, Present, control, history
<1>2. ASSUME NEW t \in Callers, NEW r \in Routers, NEW v \in Versions,
             UpdateAsyncIfNewer(t, r, v)
      PROVE  TypeOK'
  <2>1. [pc |-> "add", job |-> Job("insert", r, v, {})] \in CallType
    BY JobsTyped DEF CallType
  <2>2. th' \in [Callers -> CallType]
    BY <1>2, <2>1, CallTyped, Zenon DEF UpdateAsyncIfNewer, Adding, TypeOK, CallType
  <2>3. fresh' \subseteq Present' /\ access' \in Callers \cup {"disk", Nobody}
    BY <1>2, Zenon DEF UpdateAsyncIfNewer, TypeOK, Present
  <2>4. QED
    BY <1>2, <2>2, <2>3, CallCounted, Zenon DEF UpdateAsyncIfNewer, TypeOK, CallType, control,
       history
<1>3. ASSUME NEW t \in Callers, NEW r \in Routers,
             Remove(t, r)
      PROVE  TypeOK'
  BY <1>3, EraseTyped, CallCounted, Zenon DEF Remove, TypeOK, control
<1>4. ASSUME NEW t \in Callers,
             VisitInsertedBefore(t)
      PROVE  TypeOK'
  <2>1. Job("kill", Nobody, None, Present \ (fresh \cup Keep)) \in JobType
    BY JobsTyped DEF Present
  <2>2. th' \in [Callers -> CallType]
    BY <1>4, <2>1, CallTyped, Zenon DEF VisitInsertedBefore, CallType
  <2>3. QED
    BY <1>4, <2>2, CallCounted, Zenon DEF VisitInsertedBefore, TypeOK, CallType, Present, control,
       history
<1>5. ASSUME NEW t \in Callers,
             AsyncFlushToDisk(t)
      PROVE  TypeOK'
  <2>1. [pc |-> "add", job |-> Job("save", Nobody, None, {})] \in CallType
    BY JobsTyped DEF CallType
  <2>2. th' \in [Callers -> CallType]
    BY <1>5, <2>1, CallTyped, Zenon DEF AsyncFlushToDisk, Adding
  <2>3. QED
    BY <1>5, <2>2, CallCounted, Zenon DEF AsyncFlushToDisk, TypeOK, CallType, Present, control,
       history
<1>6. ASSUME NEW t \in Callers,
             RemoveStaleRCs(t)
      PROVE  TypeOK'
  <2>1. th[t].job.S \in SUBSET Routers
    BY DEF TypeOK, JobType
  <2>2. QED
    BY <1>6, <2>1, EraseTyped, Zenon DEF RemoveStaleRCs, TypeOK, control
<1>7. ASSUME NEW t \in Callers,
             AddJob(t)
      PROVE  TypeOK'
  <2>1. th' \in [Callers -> CallType]
    BY <1>7, OutTyped, CallTyped, Zenon DEF AddJob, Return
  <2>2. jobs' \in Seq(JobType) /\ Len(jobs') <= Capacity
    BY <1>7, NodeDBAssumption DEF AddJob, TypeOK
  <2>3. access' \in Callers \cup {"disk", Nobody}
    BY <1>7 DEF AddJob, Return, TypeOK
  <2>4. QED
    BY <1>7, <2>1, <2>2, <2>3, Zenon DEF AddJob, TypeOK, CallType, Present, history
<1>8. ASSUME NEW t \in Callers,
             AddJobFails(t)
      PROVE  TypeOK'
  <2>1. th' \in [Callers -> CallType]
    BY <1>8, OutTyped, CallTyped, Zenon DEF AddJobFails, Return
  <2>2. access' \in Callers \cup {"disk", Nobody}
    BY <1>8 DEF AddJobFails, Return, TypeOK
  <2>3. QED
    BY <1>8, <2>1, <2>2, Zenon DEF AddJobFails, TypeOK, CallType, Present, control, history
<1>9. ASSUME NEW r \in Routers,
             Age(r)
      PROVE  TypeOK'
  BY <1>9, Zenon DEF Age, TypeOK, Present, control, history
<1>10. CASE Pop
  <2>1. disk' \in DiskType /\ jobs' \in Seq(JobType) /\ Len(jobs') <= Capacity
    BY <1>10, NodeDBAssumption DEF Pop, TypeOK, DiskType
  <2>2. QED
    BY <1>10, <2>1, Zenon DEF Pop, TypeOK, DiskType, Present, DiskVars, history
<1>11. CASE InsertOpen
  <2>1. disk' \in DiskType
    BY <1>11, <1>a, OutTyped, DiskTyped, Zenon DEF InsertOpen
  <2>2. files' \in [Routers -> -1 .. MaxVersion]
    BY <1>11, <1>b, FileTyped, Zenon DEF InsertOpen, Truncated, TypeOK
  <2>3. lost' \subseteq Routers
    BY <1>11, Zenon DEF InsertOpen, TypeOK, Present
  <2>4. QED
    BY <1>11, <2>1, <2>2, <2>3, Zenon DEF InsertOpen, TypeOK, DiskType, Present, DiskVars
<1>12. CASE InsertWrite
  <2>1. disk' \in DiskType
    BY <1>12, <1>a, OutTyped, DiskTyped, Zenon DEF InsertWrite
  <2>2. disk.job.v \in -1 .. MaxVersion
    BY <1>12 DEF InsertWrite, ControlInv, JobsInv, Sound, Versions
  <2>3. files' \in [Routers -> -1 .. MaxVersion]
    BY <1>12, <2>2, FileTyped, Zenon DEF InsertWrite, TypeOK
  <2>4. QED
    BY <1>12, <2>1, <2>3, Zenon DEF InsertWrite, TypeOK, DiskType, Present, DiskVars
<1>13. CASE InsertEntry
  <2>1. disk.job.r \in Routers /\ disk.job.v \in 1 .. MaxVersion
    BY <1>13 DEF InsertEntry, ControlInv, JobsInv, Sound, Versions
  <2>2. entries' \in [Routers -> 0 .. MaxVersion] /\ fresh' \subseteq Present'
    BY <1>13, <2>1 DEF InsertEntry, Replaced, TypeOK, Present, None
  <2>3. disk' \in DiskType /\ lost' \subseteq Routers
    BY <1>13, OutTyped, Zenon DEF InsertEntry, TypeOK
  <2>4. QED
    BY <1>13, <2>2, <2>3, Zenon DEF InsertEntry, TypeOK, DiskType, DiskVars
<1>14. CASE KillRC
  <2>1. disk' \in DiskType
    <3>1. CASE disk.job.S = {}
      BY <1>14, <3>1, OutTyped, Zenon DEF KillRC
    <3>2. CASE disk.job.S # {}
      <4>1. PICK r : disk' = [disk EXCEPT !.job.S = @ \ {r}]
        BY <1>14, <3>2, Zenon DEF KillRC
      <4>2. QED
        BY <4>1, <1>a, DiskTyped, Zenon
    <3>3. QED
      BY <3>1, <3>2, Zenon
  <2>2. files' \in [Routers -> -1 .. MaxVersion]
    BY <1>14, <1>b, FileTyped, Zenon DEF KillRC, TypeOK
  <2>3. lost' \subseteq Routers /\ expired' \subseteq Routers
    BY <1>14, Zenon DEF KillRC, TypeOK, Present
  <2>4. QED
    BY <1>14, <2>1, <2>2, <2>3, Zenon DEF KillRC, TypeOK, DiskType, Present, DiskVars
<1>15. CASE SaveLock
  <2>1. Present \in SUBSET Routers
    BY DEF Present
  <2>2. disk' \in DiskType
    <3>1. [disk.job EXCEPT !.S = Present] \in JobType
      BY <1>a, <2>1, DiskTyped, Zenon
    <3>2. QED
      BY <1>15, <3>1 DEF SaveLock, DiskType
  <2>3. QED
    BY <1>15, <2>2, Zenon DEF SaveLock, TypeOK, DiskType, Present, DiskVars, history
<1>16. CASE SaveDone
  BY <1>16, OutTyped, Zenon DEF SaveDone, TypeOK, DiskType, Present, DiskVars, history
<1>17. ASSUME NEW r \in Routers,
             SaveFile(r)
      PROVE  TypeOK'
  <2>1. disk' \in DiskType
    BY <1>17, <1>a, DiskTyped, Zenon DEF SaveFile
  <2>2. entries[r] \in -1 .. MaxVersion
    BY DEF TypeOK
  <2>3. files' \in [Routers -> -1 .. MaxVersion]
    BY <1>17, <1>b, <2>2, FileTyped, Zenon DEF SaveFile, Truncated, TypeOK
  <2>4. lost' \subseteq Routers /\ expired' \subseteq Routers
    BY <1>17, Zenon DEF SaveFile, TypeOK
  <2>5. QED
    BY <1>17, <2>1, <2>3, <2>4, Zenon DEF SaveFile, TypeOK, DiskType, Present, DiskVars
<1>18. CASE StopDisk
  BY <1>18, Zenon DEF StopDisk, TypeOK, Present, history
<1>19. CASE Crash
  <2>1. /\ entries' \in [Routers -> 0 .. MaxVersion] /\ fresh' \subseteq Present'
        /\ jobs' \in Seq(JobType) /\ Len(jobs') <= Capacity /\ crashes' \in 0 .. MaxCrashes
    BY <1>19, NodeDBAssumption DEF Crash, TypeOK, None
  <2>2. disk' \in DiskType /\ th' \in [Callers -> CallType] /\ access' \in Callers \cup {"disk", Nobody}
    BY <1>19, OutTyped, Zenon DEF Crash
  <2>3. QED
    BY <1>19, <2>1, <2>2, Zenon DEF Crash, TypeOK, DiskType, CallType
<1>20. ASSUME NEW verified \in SUBSET Routers,
             Load(verified)
      PROVE  TypeOK'
  <2>1. /\ entries' \in [Routers -> 0 .. MaxVersion] /\ fresh' \subseteq Present'
        /\ expired' \subseteq Routers
    BY <1>20, NodeDBAssumption DEF Load, TypeOK, Present, Readable, Versions, None
  <2>2. QED
    BY <1>20, <2>1, Zenon DEF Load, TypeOK
<1>21. CASE UNCHANGED vars
  BY <1>21, Zenon DEF vars, TypeOK, Present, control, history
<1>22. QED
  BY <1>1, <1>2, <1>3, <1>4, <1>5, <1>6, <1>7, <1>8, <1>9, <1>10, <1>11, <1>12, <1>13, <1>14,
     <1>15, <1>16, <1>17, <1>18, <1>19, <1>20, <1>21, Zenon DEF Next, DiskStep, CallStep

-----------------------------------------------------------------------------
(* The threads and their jobs                                              *)

LEMMA SoundJobs ==
  /\ \A r \in Routers, v \in Versions : Sound(Job("insert", r, v, {}))
  /\ \A S : Sound(Job("kill", Nobody, None, S))
  /\ Sound(Job("save", Nobody, None, {}))
  BY DEF Sound, Job

LEMMA OutPc == Out.pc = "out"
  BY DEF Out

\* A thread at work is that of a process that is up
LEMMA Working ==
  ASSUME DownInv
  PROVE  /\ disk.pc # "out" => up
         /\ \A t \in Callers : th[t].pc # "out" => up
  BY OutPc, Zenon DEF DownInv

\* A call puts a sound job up, or returns
LEMMA CallSound ==
  ASSUME TypeOK, JobsInv, NEW t \in Callers, NEW x, th' = [th EXCEPT ![t] = x],
         x.pc = "add" => Sound(x.job)
  PROVE  \A u \in Callers : th'[u].pc = "add" => Sound(th'[u].job)
<1>1. th' = [u \in Callers |-> IF u = t THEN x ELSE th[u]]
  BY Zenon DEF TypeOK
<1>2. QED
  BY <1>1, Zenon DEF JobsInv

LEMMA CallJobs ==
  ASSUME TypeOK, JobsInv, NEW t \in Callers, NEW x, th' = [th EXCEPT ![t] = x],
         x.pc = "add" => Sound(x.job), UNCHANGED <<jobs, disk>>
  PROVE  JobsInv'
  BY CallSound, Zenon DEF JobsInv

\* While entries are saved the mutex is not free
LEMMA FreeNotSaving ==
  ASSUME SavingInv, Free
  PROVE  disk.pc # "saving"
  BY NodeDBAssumption, Zenon DEF SavingInv, Free

\* Returning does not release the mutex of SaveAll
LEMMA ReturnSaving ==
  ASSUME SavingInv, NEW t \in Callers, Return(t), UNCHANGED <<disk, entries>>
  PROVE  SavingInv'
  BY NodeDBAssumption, Zenon DEF SavingInv, Return, Present

\* Every step keeps the jobs sound and the saving thread in its lock
LEMMA ControlNext ==
  ASSUME TypeOK, JobsInv, SavingInv, DownInv, [Next]_vars
  PROVE  JobsInv' /\ SavingInv' /\ DownInv'
<1>a. disk \in DiskType
  BY Zenon DEF TypeOK, DiskType
<1>1. ASSUME NEW t \in Callers, NEW r \in Routers, NEW v \in Versions,
             InsertAsync(t, r, v)
      PROVE  JobsInv' /\ SavingInv' /\ DownInv'
  <2>1. Sound(Job("insert", r, v, {}))
    BY SoundJobs, Zenon
  <2>2. JobsInv'
    BY <1>1, <2>1, CallJobs, Zenon DEF InsertAsync, Adding, control
  <2>3. QED
    BY <1>1, <2>2, Zenon DEF InsertAsync, Call, SavingInv, DownInv, Present, control
<1>2. ASSUME NEW t \in Callers, NEW r \in Routers, NEW v \in Versions,
             UpdateAsyncIfNewer(t, r, v)
      PROVE  JobsInv' /\ SavingInv' /\ DownInv'
  <2>1. Sound(Job("insert", r, v, {}))
    BY SoundJobs, Zenon
  <2>2. JobsInv'
    <3>1. CASE entries[r] < v
      BY <1>2, <2>1, <3>1, CallJobs, Zenon DEF UpdateAsyncIfNewer, Adding, control
    <3>2. CASE ~(entries[r] < v)
      BY <1>2, <3>2, Zenon DEF UpdateAsyncIfNewer, JobsInv, control
    <3>3. QED
      BY <3>1, <3>2, Zenon
  <2>3. disk.pc # "saving"
    BY <1>2, FreeNotSaving, Zenon DEF UpdateAsyncIfNewer
  <2>4. QED
    BY <1>2, <2>2, <2>3, Zenon DEF UpdateAsyncIfNewer, Call, SavingInv, DownInv, control
<1>3. ASSUME NEW t \in Callers, NEW r \in Routers,
             Remove(t, r)
      PROVE  JobsInv' /\ SavingInv' /\ DownInv'
  <2>1. Sound(Job("kill", Nobody, None, {r} \cap Present))
    BY SoundJobs, Zenon
  <2>2. JobsInv'
    BY <1>3, <2>1, CallJobs, Zenon DEF Remove, Erased, Adding, control
  <2>3. disk.pc # "saving"
    BY <1>3, FreeNotSaving, Zenon DEF Remove
  <2>4. up
    BY <1>3, Zenon DEF Remove, Call
  <2>5. QED
    BY <1>3, <2>2, <2>3, <2>4, Zenon DEF Remove, SavingInv, DownInv, control
<1>4. ASSUME NEW t \in Callers,
             VisitInsertedBefore(t)
      PROVE  JobsInv' /\ SavingInv' /\ DownInv'
  <2>1. JobsInv'
    BY <1>4, CallJobs, Zenon DEF VisitInsertedBefore, control
  <2>2. QED
    BY <1>4, <2>1, Zenon DEF VisitInsertedBefore, Call, SavingInv, DownInv, Present, control
<1>5. ASSUME NEW t \in Callers,
             AsyncFlushToDisk(t)
      PROVE  JobsInv' /\ SavingInv' /\ DownInv'
  <2>1. Sound(Job("save", Nobody, None, {}))
    BY SoundJobs, Zenon
  <2>2. JobsInv'
    BY <1>5, <2>1, CallJobs, Zenon DEF AsyncFlushToDisk, Adding, control
  <2>3. QED
    BY <1>5, <2>2, Zenon DEF AsyncFlushToDisk, Call, SavingInv, DownInv, Present, control
<1>6. ASSUME NEW t \in Callers,
             RemoveStaleRCs(t)
      PROVE  JobsInv' /\ SavingInv' /\ DownInv'
  <2>1. Sound(Job("kill", Nobody, None, th[t].job.S \cap Present))
    BY SoundJobs, Zenon
  <2>2. JobsInv'
    BY <1>6, <2>1, CallJobs, Zenon DEF RemoveStaleRCs, Erased, Adding, control
  <2>3. disk.pc # "saving"
    BY <1>6, FreeNotSaving, Zenon DEF RemoveStaleRCs
  <2>4. up
    BY <1>6, Working, Zenon DEF RemoveStaleRCs
  <2>5. QED
    BY <1>6, <2>2, <2>3, <2>4, Zenon DEF RemoveStaleRCs, SavingInv, DownInv, control
<1>7. ASSUME NEW t \in Callers,
             AddJob(t)
      PROVE  JobsInv' /\ SavingInv' /\ DownInv'
  <2>1. jobs \in Seq(JobType) /\ th[t].job \in JobType /\ Sound(th[t].job)
    BY <1>7 DEF AddJob, TypeOK, JobsInv
  <2>2. \A i \in 1 .. Len(jobs') : Sound(jobs'[i])
    BY <1>7, <2>1 DEF AddJob, JobsInv
  <2>3. \A u \in Callers : th'[u].pc = "add" => Sound(th'[u].job)
    BY <1>7, CallSound, Zenon DEF AddJob, Return, Out
  <2>4. JobsInv' /\ SavingInv'
    BY <1>7, <2>2, <2>3, ReturnSaving, Zenon DEF AddJob, JobsInv
  <2>5. up
    BY <1>7, Working, Zenon DEF AddJob
  <2>6. QED
    BY <1>7, <2>4, <2>5, Zenon DEF AddJob, DownInv
<1>8. ASSUME NEW t \in Callers,
             AddJobFails(t)
      PROVE  JobsInv' /\ SavingInv' /\ DownInv'
  <2>1. JobsInv'
    BY <1>8, CallJobs, Zenon DEF AddJobFails, Return, Out, control
  <2>2. SavingInv'
    BY <1>8, ReturnSaving, Zenon DEF AddJobFails, control
  <2>3. up
    BY <1>8, Working, Zenon DEF AddJobFails
  <2>4. QED
    BY <1>8, <2>1, <2>2, <2>3, Zenon DEF AddJobFails, DownInv, control
<1>9. ASSUME NEW r \in Routers,
             Age(r)
      PROVE  JobsInv' /\ SavingInv' /\ DownInv'
  BY <1>9, Zenon DEF Age, JobsInv, SavingInv, DownInv, Present, control
<1>10. CASE Pop
  <2>1. jobs \in Seq(JobType) /\ jobs # <<>>
    BY <1>10 DEF Pop, TypeOK
  <2>2. /\ Sound(Head(jobs))
        /\ \A i \in 1 .. Len(Tail(jobs)) : Sound(Tail(jobs)[i])
    BY <2>1 DEF JobsInv
  <2>3. disk'.pc = "job" /\ disk'.job = Head(jobs)
    BY <1>10, Zenon DEF Pop
  <2>4. QED
    BY <1>10, <2>2, <2>3, Zenon DEF Pop, JobsInv, SavingInv, DownInv, DiskVars
<1>11. CASE InsertOpen
  <2>1. up
    BY <1>11, Working, Zenon DEF InsertOpen, AtJob
  <2>2. disk'.pc = "out" \/ (disk'.pc = "opened" /\ disk'.job = disk.job /\ disk.job.op = "insert")
    BY <1>11, <1>a, OutPc, DiskTyped, Zenon DEF InsertOpen, AtJob, JobsInv
  <2>3. JobsInv'
    BY <1>11, <2>2, Zenon DEF InsertOpen, AtJob, JobsInv, DiskVars
  <2>4. QED
    BY <1>11, <2>1, <2>2, <2>3, Zenon DEF InsertOpen, SavingInv, DownInv, DiskVars
<1>12. CASE InsertWrite
  <2>1. up
    BY <1>12, Working, Zenon DEF InsertWrite, AtJob
  <2>2. disk'.pc = "out" \/ (disk'.pc = "written" /\ disk'.job = disk.job /\ disk.job.op = "insert")
    BY <1>12, <1>a, OutPc, DiskTyped, Zenon DEF InsertWrite, AtJob, JobsInv
  <2>3. JobsInv'
    BY <1>12, <2>2, Zenon DEF InsertWrite, AtJob, JobsInv, DiskVars
  <2>4. QED
    BY <1>12, <2>1, <2>2, <2>3, Zenon DEF InsertWrite, SavingInv, DownInv, DiskVars
<1>13. CASE InsertEntry
  <2>1. up
    BY <1>13, Working, Zenon DEF InsertEntry
  <2>2. disk'.pc = "out"
    BY <1>13, Zenon DEF InsertEntry, Out
  <2>3. QED
    BY <1>13, <2>1, <2>2, Zenon DEF InsertEntry, JobsInv, SavingInv, DownInv, DiskVars
<1>14. CASE KillRC
  <2>1. up
    BY <1>14, Working, Zenon DEF KillRC, AtJob
  <2>2. disk'.pc = "out" \/ (disk'.pc = "job" /\ Sound(disk'.job))
    <3>1. CASE disk.job.S = {}
      BY <1>14, <3>1, OutPc, Zenon DEF KillRC
    <3>2. CASE disk.job.S # {}
      <4>1. PICK r : disk' = [disk EXCEPT !.job.S = @ \ {r}]
        BY <1>14, <3>2, Zenon DEF KillRC
      <4>2. Sound(disk.job)
        BY <1>14, Zenon DEF KillRC, AtJob, JobsInv
      <4>3. QED
        BY <1>14, <4>1, <4>2, <1>a DEF KillRC, AtJob, DiskType, JobType, Sound
    <3>3. QED
      BY <3>1, <3>2, Zenon
  <2>3. QED
    BY <1>14, <2>1, <2>2, Zenon DEF KillRC, JobsInv, SavingInv, DownInv, DiskVars
<1>15. CASE SaveLock
  <2>1. up
    BY <1>15, Working, Zenon DEF SaveLock, AtJob
  <2>2. disk'.pc = "saving" /\ disk'.job.op = "save" /\ disk'.job.S = Present
    BY <1>15, <1>a DEF SaveLock, AtJob, DiskType, JobType
  <2>3. Sound(disk'.job)
    BY <2>2, Zenon DEF Sound
  <2>4. QED
    BY <1>15, <2>1, <2>2, <2>3, Zenon DEF SaveLock, JobsInv, SavingInv, DownInv, Present, DiskVars
<1>16. CASE SaveDone
  <2>1. up
    BY <1>16, Working, Zenon DEF SaveDone
  <2>2. disk'.pc = "out"
    BY <1>16, Zenon DEF SaveDone, Out
  <2>3. QED
    BY <1>16, <2>1, <2>2, Zenon DEF SaveDone, JobsInv, SavingInv, DownInv, DiskVars
<1>17. ASSUME NEW r \in Routers,
             SaveFile(r)
      PROVE  JobsInv' /\ SavingInv' /\ DownInv'
  <2>1. up
    BY <1>17, Working, Zenon DEF SaveFile
  <2>2. Sound(disk.job)
    BY <1>17, Zenon DEF SaveFile, JobsInv
  <2>3. disk'.pc = "saving" /\ disk'.job.S = disk.job.S \ {r} /\ Sound(disk'.job)
    BY <1>17, <1>a, <2>2 DEF SaveFile, DiskType, JobType, Sound
  <2>4. disk'.job.S \subseteq Present /\ access = "disk"
    BY <1>17, <2>3, Zenon DEF SaveFile, SavingInv
  <2>5. QED
    BY <1>17, <2>1, <2>3, <2>4, Zenon DEF SaveFile, JobsInv, SavingInv, DownInv, Present, DiskVars
<1>18. CASE StopDisk
  BY <1>18, Zenon DEF StopDisk, JobsInv, SavingInv, DownInv, Present
<1>19. CASE Crash
  <2>1. Present' = {} /\ Len(jobs') = 0
    BY <1>19 DEF Crash, Present
  <2>2. disk'.pc = "out" /\ \A t \in Callers : th'[t] = Out /\ th'[t].pc = "out"
    BY <1>19, Zenon DEF Crash, Out
  <2>3. \A i \in 1 .. Len(jobs') : Sound(jobs'[i])
    BY <2>1
  <2>4. QED
    BY <1>19, <2>1, <2>2, <2>3, Zenon DEF Crash, JobsInv, SavingInv, DownInv
<1>20. ASSUME NEW verified \in SUBSET Routers,
             Load(verified)
      PROVE  JobsInv' /\ SavingInv' /\ DownInv'
  <2>1. disk.pc = "out"
    BY <1>20, OutPc, Zenon DEF Load, DownInv
  <2>2. QED
    BY <1>20, <2>1, Zenon DEF Load, JobsInv, SavingInv, DownInv
<1>21. CASE UNCHANGED vars
  BY <1>21, Zenon DEF vars, JobsInv, SavingInv, DownInv, Present, control
<1>22. QED
  BY <1>1, <1>2, <1>3, <1>4, <1>5, <1>6, <1>7, <1>8, <1>9, <1>10, <1>11, <1>12, <1>13, <1>14,
     <1>15, <1>16, <1>17, <1>18, <1>19, <1>20, <1>21, Zenon DEF Next, DiskStep, CallStep

-----------------------------------------------------------------------------
(* The files of the entries                                                *)

\* A step that touches neither keeps them equal
LEMMA FileFrame ==
  ASSUME FileInv, UNCHANGED <<entries, files, lost>>,
         disk' = disk \/ disk'.pc \notin {"opened", "written"}
  PROVE  FileInv'
  BY Zenon DEF FileInv, Present

\* The file of one router is written, and the router is lost if it has an entry
LEMMA FileLost ==
  ASSUME TypeOK, FileInv, NEW r \in Routers, NEW v, files' = [files EXCEPT ![r] = v],
         lost' = IF r \in Present THEN lost \cup {r} ELSE lost, UNCHANGED entries
  PROVE  /\ \A q \in Present' \ lost' : files'[q] = entries'[q]
         /\ r \in Present => r \in lost'
<1>1. \A q \in Routers : q # r => files'[q] = files[q]
  BY Zenon DEF TypeOK
<1>2. Present' = Present /\ Present \subseteq Routers
  BY Zenon DEF Present
<1>3. QED
  BY <1>1, <1>2, Zenon DEF FileInv

\* RemoveIf erases entries
LEMMA FileErased ==
  ASSUME FileInv, NEW t \in Callers, NEW S, Erased(t, S), UNCHANGED <<files, disk>>
  PROVE  FileInv'
<1>1. \A r \in Routers : entries'[r] = IF r \in S THEN None ELSE entries[r]
  BY Zenon DEF Erased
<1>2. Present' = Present \ S
  BY <1>1, Zenon DEF Present
<1>3. \A r \in Present' : entries'[r] = entries[r]
  BY <1>1, <1>2, Zenon DEF Present
<1>4. QED
  BY <1>2, <1>3, Zenon DEF FileInv, Erased

\* Every step keeps the files those of the entries, or makes the router a lost one
LEMMA FileNext ==
  ASSUME TypeOK, JobsInv, SavingInv, DownInv, FileInv, [Next]_vars
  PROVE  FileInv'
<1>a. disk \in DiskType
  BY Zenon DEF TypeOK, DiskType
<1>1. ASSUME NEW t \in Callers, NEW r \in Routers, NEW v \in Versions,
             InsertAsync(t, r, v)
      PROVE  FileInv'
  BY <1>1, FileFrame, Zenon DEF InsertAsync, control, history
<1>2. ASSUME NEW t \in Callers, NEW r \in Routers, NEW v \in Versions,
             UpdateAsyncIfNewer(t, r, v)
      PROVE  FileInv'
  BY <1>2, FileFrame, Zenon DEF UpdateAsyncIfNewer, control, history
<1>3. ASSUME NEW t \in Callers, NEW r \in Routers,
             Remove(t, r)
      PROVE  FileInv'
  BY <1>3, FileErased, Zenon DEF Remove, control
<1>4. ASSUME NEW t \in Callers,
             VisitInsertedBefore(t)
      PROVE  FileInv'
  BY <1>4, FileFrame, Zenon DEF VisitInsertedBefore, control, history
<1>5. ASSUME NEW t \in Callers,
             AsyncFlushToDisk(t)
      PROVE  FileInv'
  BY <1>5, FileFrame, Zenon DEF AsyncFlushToDisk, control, history
<1>6. ASSUME NEW t \in Callers,
             RemoveStaleRCs(t)
      PROVE  FileInv'
  BY <1>6, FileErased, Zenon DEF RemoveStaleRCs, control
<1>7. ASSUME NEW t \in Callers,
             AddJob(t)
      PROVE  FileInv'
  BY <1>7, FileFrame, Zenon DEF AddJob, history
<1>8. ASSUME NEW t \in Callers,
             AddJobFails(t)
      PROVE  FileInv'
  BY <1>8, FileFrame, Zenon DEF AddJobFails, control, history
<1>9. ASSUME NEW r \in Routers,
             Age(r)
      PROVE  FileInv'
  BY <1>9, FileFrame, Zenon DEF Age, control, history
<1>10. CASE Pop
  <2>1. disk'.pc = "job"
    BY <1>10, Zenon DEF Pop
  <2>2. QED
    BY <1>10, <2>1, FileFrame, Zenon DEF Pop, history
<1>11. CASE InsertOpen
  <2>1. CASE disk' = Out /\ UNCHANGED <<files, lost>>
    BY <1>11, <2>1, OutPc, FileFrame, Zenon DEF InsertOpen
  <2>2. CASE /\ Truncated(disk.job.r) /\ disk' = [disk EXCEPT !.pc = "opened"]
             /\ lost' = IF disk.job.r \in Present THEN lost \cup {disk.job.r} ELSE lost
    <3>1. disk.job.r \in Routers
      BY <1>11, Zenon DEF InsertOpen, AtJob, JobsInv, Sound
    <3>2. disk'.pc = "opened" /\ disk'.job = disk.job /\ Present' = Present
      BY <1>11, <2>2, <1>a, DiskTyped, Zenon DEF InsertOpen, Present
    <3>3. QED
      BY <1>11, <2>2, <3>1, <3>2, FileLost, Zenon DEF InsertOpen, Truncated, FileInv
  <2>3. QED
    BY <1>11, <2>1, <2>2, Zenon DEF InsertOpen
<1>12. CASE InsertWrite
  <2>1. CASE disk' = Out /\ UNCHANGED files
    BY <1>12, <2>1, OutPc, FileFrame, Zenon DEF InsertWrite
  <2>2. CASE files' = [files EXCEPT ![disk.job.r] = disk.job.v] /\ disk' = [disk EXCEPT !.pc = "written"]
    <3>1. disk.job.r \in Routers /\ lost' = (IF disk.job.r \in Present THEN lost \cup {disk.job.r} ELSE lost)
      <4>1. disk.job.r \in Routers /\ lost' = lost /\ (disk.job.r \in Present => disk.job.r \in lost)
        BY <1>12, Zenon DEF InsertWrite, JobsInv, Sound, FileInv
      <4>2. QED
        BY <4>1
    <3>2. disk'.job = disk.job /\ Present' = Present
      BY <1>12, <2>2, <1>a, DiskTyped, Zenon DEF InsertWrite, Present
    <3>3. files'[disk.job.r] = disk.job.v
      BY <2>2, <3>1, Zenon DEF TypeOK
    <3>4. QED
      BY <1>12, <2>2, <3>1, <3>2, <3>3, FileLost, Zenon DEF InsertWrite, FileInv
  <2>3. QED
    BY <1>12, <2>1, <2>2, Zenon DEF InsertWrite
<1>13. CASE InsertEntry
  <2>1. disk'.pc = "out"
    BY <1>13, OutPc, Zenon DEF InsertEntry
  <2>2. files[disk.job.r] = disk.job.v
    BY <1>13, Zenon DEF InsertEntry, FileInv
  <2>3. ASSUME NEW q \in Present' \ lost'
        PROVE  files'[q] = entries'[q]
    <3>1. CASE q = disk.job.r
      BY <1>13, <2>2, <2>3, <3>1, Zenon DEF InsertEntry, Replaced, TypeOK, Present
    <3>2. CASE q # disk.job.r
      BY <1>13, <2>3, <3>2, Zenon DEF InsertEntry, Replaced, TypeOK, Present, FileInv
    <3>3. QED
      BY <3>1, <3>2, Zenon
  <2>4. QED
    BY <2>1, <2>3, Zenon DEF FileInv
<1>14. CASE KillRC
  <2>1. CASE disk.job.S = {}
    BY <1>14, <2>1, OutPc, FileFrame, Zenon DEF KillRC
  <2>2. CASE disk.job.S # {}
    <3>1. PICK r \in disk.job.S :
             /\ files' = [files EXCEPT ![r] = None]
             /\ disk' = [disk EXCEPT !.job.S = @ \ {r}]
             /\ lost' = IF r \in Present THEN lost \cup {r} ELSE lost
      BY <1>14, <2>2, Zenon DEF KillRC
    <3>2. r \in Routers
      BY <1>a, DiskTyped, Zenon
    <3>3. disk'.pc = "job"
      BY <1>14, <3>1, <1>a DEF KillRC, AtJob, DiskType
    <3>4. QED
      BY <1>14, <3>1, <3>2, <3>3, FileLost, Zenon DEF KillRC, FileInv
  <2>3. QED
    BY <2>1, <2>2, Zenon
<1>15. CASE SaveLock
  <2>1. disk'.pc = "saving"
    BY <1>15, Zenon DEF SaveLock
  <2>2. QED
    BY <1>15, <2>1, FileFrame, Zenon DEF SaveLock, history
<1>16. CASE SaveDone
  BY <1>16, OutPc, FileFrame, Zenon DEF SaveDone, history
<1>17. ASSUME NEW r \in Routers,
             SaveFile(r)
      PROVE  FileInv'
  <2>1. disk'.pc = "saving"
    BY <1>17, <1>a DEF SaveFile, DiskType
  <2>2. CASE files' = [files EXCEPT ![r] = entries[r]] /\ lost' = lost \ {r}
    <3>1. \A q \in Routers : files'[q] = IF q = r THEN entries[r] ELSE files[q]
      BY <2>2, Zenon DEF TypeOK
    <3>2. QED
      BY <1>17, <2>1, <2>2, <3>1, Zenon DEF SaveFile, FileInv, Present
  <2>3. CASE UNCHANGED <<files, lost>>
    BY <1>17, <2>1, <2>3, FileFrame, Zenon DEF SaveFile
  <2>4. CASE Truncated(r) /\ lost' = lost \cup {r}
    <3>1. r \in Present
      BY <1>17, Zenon DEF SaveFile, SavingInv
    <3>2. QED
      BY <1>17, <2>1, <2>4, <3>1, FileLost, Zenon DEF SaveFile, Truncated, FileInv
  <2>5. QED
    BY <1>17, <2>2, <2>3, <2>4, Zenon DEF SaveFile
<1>18. CASE StopDisk
  BY <1>18, FileFrame, Zenon DEF StopDisk, history
<1>19. CASE Crash
  <2>1. disk'.pc = "out"
    BY <1>19, OutPc, Zenon DEF Crash
  <2>2. Present' = {}
    BY <1>19 DEF Crash, Present
  <2>3. QED
    BY <2>1, <2>2, Zenon DEF FileInv
<1>20. ASSUME NEW verified \in SUBSET Routers,
             Load(verified)
      PROVE  FileInv'
  <2>1. disk'.pc = "out"
    BY <1>20, OutPc, Zenon DEF Load, DownInv
  <2>2. \A q \in Present' : entries'[q] = files[q]
    BY <1>20, Zenon DEF Load, Present
  <2>3. QED
    BY <1>20, <2>1, <2>2, Zenon DEF Load, FileInv
<1>21. CASE UNCHANGED vars
  BY <1>21, FileFrame, Zenon DEF vars, control, history
<1>22. QED
  BY <1>1, <1>2, <1>3, <1>4, <1>5, <1>6, <1>7, <1>8, <1>9, <1>10, <1>11, <1>12, <1>13, <1>14,
     <1>15, <1>16, <1>17, <1>18, <1>19, <1>20, <1>21, Zenon DEF Next, DiskStep, CallStep

-----------------------------------------------------------------------------
(* The files of routers that have no entry                                 *)

\* What is pending stays pending while the calls that add its removal, the queue
\* and the disk thread do
LEMMA PendingFrame ==
  ASSUME UNCHANGED <<jobs, disk>>, NEW q \in Routers, Pending(q),
         \A t \in Callers : th[t].pc = "add" => th'[t] = th[t]
  PROVE  Pending(q)'
  BY Zenon DEF Pending, AtJob

\* A call that starts, or goes on from the visit of the stale RCs
LEMMA PendingCall ==
  ASSUME TypeOK, UNCHANGED <<jobs, disk>>, NEW q \in Routers, Pending(q),
         NEW t \in Callers, NEW x, th[t].pc # "add", th' = [th EXCEPT ![t] = x]
  PROVE  Pending(q)'
<1>1. \A u \in Callers : th[u].pc = "add" => th'[u] = th[u]
  BY Zenon DEF TypeOK
<1>2. QED
  BY <1>1, PendingFrame, Zenon

\* A step that changes no entry and no file, and none of what is pending
LEMMA GhostFrame ==
  ASSUME GhostInv, UNCHANGED <<entries, files, expired>>, up' /\ enabled' => up /\ enabled,
         \A q \in Routers : Pending(q) => Pending(q)'
  PROVE  GhostInv'
  BY Zenon DEF GhostInv, Ghost, Present

\* RemoveIf: the file of an erased entry is in the job that is added
LEMMA GhostErased ==
  ASSUME TypeOK, GhostInv, NEW t \in Callers, NEW S, Erased(t, S), th[t].pc # "add",
         UNCHANGED <<files, disk, jobs, expired, up, enabled>>
  PROVE  GhostInv'
<1>1. SUFFICES ASSUME up, enabled, NEW q \in Routers, Ghost(q)'
               PROVE  Pending(q)'
  BY Zenon DEF GhostInv
<1>2. entries'[q] = IF q \in S THEN None ELSE entries[q]
  BY Zenon DEF Erased
<1>3. CASE q \in Present
  <2>1. q \in S \cap Present
    BY <1>1, <1>2, <1>3, Zenon DEF Ghost, Present
  <2>2. th'[t] = [pc |-> "add", job |-> Job("kill", Nobody, None, S \cap Present)]
    BY Zenon DEF Erased, Adding, TypeOK
  <2>3. th'[t].pc = "add" /\ th'[t].job.op = "kill" /\ th'[t].job.S = S \cap Present
    BY <2>2 DEF Job
  <2>4. QED
    BY <2>1, <2>3, Zenon DEF Pending, Kill
<1>4. CASE q \notin Present
  <2>1. Pending(q)
    BY <1>1, <1>4, Zenon DEF GhostInv, Ghost
  <2>2. QED
    BY <2>1, PendingCall, Zenon DEF Erased, Adding
<1>5. QED
  BY <1>3, <1>4, Zenon

\* The disk thread at work on anything but a removal or a written file
LEMMA PendingDisk ==
  ASSUME UNCHANGED <<jobs, th>>, ~AtJob("kill"), disk.pc # "written", NEW q \in Routers, Pending(q)
  PROVE  Pending(q)'
  BY Zenon DEF Pending

\* Every step keeps the file of a router without an entry pending
LEMMA GhostNext ==
  ASSUME TypeOK, JobsInv, SavingInv, GhostInv, [Next]_vars
  PROVE  GhostInv'
<1>a. disk \in DiskType
  BY Zenon DEF TypeOK, DiskType
<1>1. ASSUME NEW t \in Callers, NEW r \in Routers, NEW v \in Versions,
             InsertAsync(t, r, v)
      PROVE  GhostInv'
  <2>1. th[t].pc # "add"
    BY <1>1, Zenon DEF InsertAsync, Call
  <2>2. \A q \in Routers : Pending(q) => Pending(q)'
    BY <1>1, <2>1, PendingCall, Zenon DEF InsertAsync, Adding, control
  <2>3. QED
    BY <1>1, <2>2, GhostFrame, Zenon DEF InsertAsync, control, history
<1>2. ASSUME NEW t \in Callers, NEW r \in Routers, NEW v \in Versions,
             UpdateAsyncIfNewer(t, r, v)
      PROVE  GhostInv'
  <2>1. th[t].pc # "add"
    BY <1>2, Zenon DEF UpdateAsyncIfNewer, Call
  <2>2. \A q \in Routers : Pending(q) => Pending(q)'
    <3>1. CASE entries[r] < v
      BY <1>2, <2>1, <3>1, PendingCall, Zenon DEF UpdateAsyncIfNewer, Adding, control
    <3>2. CASE ~(entries[r] < v)
      BY <1>2, <3>2, PendingFrame, Zenon DEF UpdateAsyncIfNewer, control
    <3>3. QED
      BY <3>1, <3>2, Zenon
  <2>3. QED
    BY <1>2, <2>2, GhostFrame, Zenon DEF UpdateAsyncIfNewer, control, history
<1>3. ASSUME NEW t \in Callers, NEW r \in Routers,
             Remove(t, r)
      PROVE  GhostInv'
  BY <1>3, GhostErased, Zenon DEF Remove, Call, control
<1>4. ASSUME NEW t \in Callers,
             VisitInsertedBefore(t)
      PROVE  GhostInv'
  <2>1. th[t].pc # "add"
    BY <1>4, Zenon DEF VisitInsertedBefore, Call
  <2>2. \A q \in Routers : Pending(q) => Pending(q)'
    BY <1>4, <2>1, PendingCall, Zenon DEF VisitInsertedBefore, Adding, control
  <2>3. QED
    BY <1>4, <2>2, GhostFrame, Zenon DEF VisitInsertedBefore, control, history
<1>5. ASSUME NEW t \in Callers,
             AsyncFlushToDisk(t)
      PROVE  GhostInv'
  <2>1. th[t].pc # "add"
    BY <1>5, Zenon DEF AsyncFlushToDisk, Call
  <2>2. \A q \in Routers : Pending(q) => Pending(q)'
    BY <1>5, <2>1, PendingCall, Zenon DEF AsyncFlushToDisk, Adding, control
  <2>3. QED
    BY <1>5, <2>2, GhostFrame, Zenon DEF AsyncFlushToDisk, control, history
<1>6. ASSUME NEW t \in Callers,
             RemoveStaleRCs(t)
      PROVE  GhostInv'
  BY <1>6, GhostErased, Zenon DEF RemoveStaleRCs, control
<1>7. ASSUME NEW t \in Callers,
             AddJob(t)
      PROVE  GhostInv'
  <2>1. th' = [u \in Callers |-> IF u = t THEN Out ELSE th[u]]
    BY <1>7, Zenon DEF AddJob, Return, TypeOK
  <2>2. jobs \in Seq(JobType) /\ th[t].job \in JobType /\ jobs' = Append(jobs, th[t].job)
    BY <1>7 DEF AddJob, TypeOK
  <2>3. /\ \A i \in 1 .. Len(jobs) : i \in 1 .. Len(jobs') /\ jobs'[i] = jobs[i]
        /\ Len(jobs) + 1 \in 1 .. Len(jobs') /\ jobs'[Len(jobs) + 1] = th[t].job
    BY <2>2
  <2>4. ASSUME NEW q \in Routers, Pending(q)
        PROVE  Pending(q)'
    BY <1>7, <2>1, <2>3, <2>4, Zenon DEF AddJob, Pending, AtJob
  <2>5. QED
    BY <1>7, <2>4, GhostFrame, Zenon DEF AddJob, history
<1>8. ASSUME NEW t \in Callers,
             AddJobFails(t)
      PROVE  GhostInv'
  BY <1>8, Zenon DEF AddJobFails, GhostInv, control
<1>9. ASSUME NEW r \in Routers,
             Age(r)
      PROVE  GhostInv'
  <2>1. \A q \in Routers : Pending(q) => Pending(q)'
    BY <1>9, PendingFrame, Zenon DEF Age, control
  <2>2. QED
    BY <1>9, <2>1, GhostFrame, Zenon DEF Age, control, history
<1>10. CASE Pop
  <2>1. jobs \in Seq(JobType) /\ jobs # <<>> /\ jobs' = Tail(jobs)
    BY <1>10 DEF Pop, TypeOK
  <2>2. \A i \in 1 .. Len(jobs) : jobs[i] = Head(jobs) \/ (i - 1 \in 1 .. Len(jobs') /\ jobs'[i - 1] = jobs[i])
    BY <2>1
  <2>3. disk'.pc = "job" /\ disk'.job = Head(jobs)
    BY <1>10, Zenon DEF Pop
  <2>4. ASSUME NEW q \in Routers, Pending(q)
        PROVE  Pending(q)'
    BY <1>10, <2>2, <2>3, <2>4, Zenon DEF Pop, Pending, AtJob, Kill, DiskVars
  <2>5. QED
    BY <1>10, <2>4, GhostFrame, Zenon DEF Pop, DiskVars, history
<1>11. CASE InsertOpen
  <2>1. ~AtJob("kill") /\ disk.pc # "written"
    BY <1>11, Zenon DEF InsertOpen, AtJob
  <2>2. \A q \in Routers : Pending(q) => Pending(q)'
    BY <1>11, <2>1, PendingDisk, Zenon DEF InsertOpen, DiskVars
  <2>3. \A q \in Routers : Ghost(q)' => Ghost(q)
    <3>1. Broken \notin Versions
      BY DEF Broken, Versions
    <3>2. \A q \in Routers : files'[q] = files[q] \/ files'[q] = Broken
      BY <1>11, Zenon DEF InsertOpen, Truncated, TypeOK
    <3>3. QED
      BY <1>11, <3>1, <3>2, Zenon DEF InsertOpen, Ghost, Present
  <2>4. QED
    BY <1>11, <2>2, <2>3, Zenon DEF InsertOpen, GhostInv, DiskVars
<1>12. CASE InsertWrite
  <2>1. ~AtJob("kill") /\ disk.pc # "written"
    BY <1>12, Zenon DEF InsertWrite, AtJob
  <2>2. \A q \in Routers : Pending(q) => Pending(q)'
    BY <1>12, <2>1, PendingDisk, Zenon DEF InsertWrite, DiskVars
  <2>3. CASE disk' = Out /\ UNCHANGED <<files, expired>>
    BY <1>12, <2>2, <2>3, GhostFrame, Zenon DEF InsertWrite, DiskVars
  <2>4. CASE /\ files' = [files EXCEPT ![disk.job.r] = disk.job.v]
             /\ disk' = [disk EXCEPT !.pc = "written"] /\ expired' = expired \ {disk.job.r}
    <3>1. disk'.pc = "written" /\ disk'.job = disk.job
      BY <2>4, <1>a, DiskTyped, Zenon
    <3>2. ASSUME NEW q \in Routers, Ghost(q)'
          PROVE  Ghost(q) \/ Pending(q)'
      <4>1. CASE q = disk.job.r
        BY <3>1, <4>1, Zenon DEF Pending
      <4>2. CASE q # disk.job.r
        BY <1>12, <2>4, <3>2, <4>2, Zenon DEF InsertWrite, Ghost, Present, TypeOK
      <4>3. QED
        BY <4>1, <4>2, Zenon
    <3>3. QED
      BY <1>12, <2>2, <3>2, Zenon DEF InsertWrite, GhostInv, DiskVars
  <2>5. QED
    BY <1>12, <2>3, <2>4, Zenon DEF InsertWrite
<1>13. CASE InsertEntry
  <2>1. disk.job.r \in Routers /\ disk.job.v # None
    BY <1>13 DEF InsertEntry, JobsInv, Sound, Versions, None
  <2>2. ASSUME NEW q \in Routers, Ghost(q)'
        PROVE  q # disk.job.r /\ Ghost(q)
    BY <1>13, <2>1, <2>2, Zenon DEF InsertEntry, Replaced, Ghost, Present, TypeOK
  <2>3. ASSUME NEW q \in Routers, q # disk.job.r, Pending(q)
        PROVE  Pending(q)'
    BY <1>13, <2>3, Zenon DEF InsertEntry, Pending, AtJob, DiskVars
  <2>4. QED
    BY <1>13, <2>2, <2>3, Zenon DEF InsertEntry, GhostInv, DiskVars
<1>14. CASE KillRC
  <2>1. CASE disk.job.S = {}
    <3>1. \A q \in Routers : Pending(q) => Pending(q)'
      BY <1>14, <2>1, Zenon DEF KillRC, Pending, AtJob, DiskVars
    <3>2. QED
      BY <1>14, <2>1, <3>1, GhostFrame, Zenon DEF KillRC, DiskVars
  <2>2. CASE disk.job.S # {}
    <3>1. PICK r \in disk.job.S :
             /\ files' = [files EXCEPT ![r] = None]
             /\ disk' = [disk EXCEPT !.job.S = @ \ {r}]
             /\ expired' = expired \ {r}
      BY <1>14, <2>2, Zenon DEF KillRC
    <3>2. disk'.pc = "job" /\ disk'.job.op = "kill" /\ disk'.job.S = disk.job.S \ {r}
      BY <1>14, <3>1, <1>a DEF KillRC, AtJob, DiskType, JobType
    <3>3. None \notin Versions
      BY DEF None, Versions
    <3>4. ASSUME NEW q \in Routers, Ghost(q)'
          PROVE  q # r /\ Ghost(q)
      BY <1>14, <3>1, <3>3, <3>4, Zenon DEF KillRC, Ghost, Present, TypeOK
    <3>5. ASSUME NEW q \in Routers, q # r, Pending(q)
          PROVE  Pending(q)'
      BY <1>14, <3>2, <3>5, Zenon DEF KillRC, Pending, AtJob, DiskVars
    <3>6. QED
      BY <1>14, <3>4, <3>5, Zenon DEF KillRC, GhostInv, DiskVars
  <2>3. QED
    BY <2>1, <2>2, Zenon
<1>15. CASE SaveLock
  <2>1. ~AtJob("kill") /\ disk.pc # "written"
    BY <1>15, Zenon DEF SaveLock, AtJob
  <2>2. \A q \in Routers : Pending(q) => Pending(q)'
    BY <1>15, <2>1, PendingDisk, Zenon DEF SaveLock, DiskVars
  <2>3. QED
    BY <1>15, <2>2, GhostFrame, Zenon DEF SaveLock, DiskVars, history
<1>16. CASE SaveDone
  <2>1. ~AtJob("kill") /\ disk.pc # "written"
    BY <1>16, Zenon DEF SaveDone, AtJob
  <2>2. \A q \in Routers : Pending(q) => Pending(q)'
    BY <1>16, <2>1, PendingDisk, Zenon DEF SaveDone, DiskVars
  <2>3. QED
    BY <1>16, <2>2, GhostFrame, Zenon DEF SaveDone, DiskVars, history
<1>17. ASSUME NEW r \in Routers,
             SaveFile(r)
      PROVE  GhostInv'
  <2>1. ~AtJob("kill") /\ disk.pc # "written"
    BY <1>17, Zenon DEF SaveFile, AtJob
  <2>2. \A q \in Routers : Pending(q) => Pending(q)'
    BY <1>17, <2>1, PendingDisk, Zenon DEF SaveFile, DiskVars
  <2>3. r \in Present
    BY <1>17, Zenon DEF SaveFile, SavingInv
  <2>4. \A q \in Routers : q # r => files'[q] = files[q] /\ (q \in expired' <=> q \in expired)
    BY <1>17, Zenon DEF SaveFile, Truncated, TypeOK
  <2>5. \A q \in Routers : Ghost(q)' => Ghost(q)
    BY <1>17, <2>3, <2>4, Zenon DEF SaveFile, Ghost, Present
  <2>6. QED
    BY <1>17, <2>2, <2>5, Zenon DEF SaveFile, GhostInv, DiskVars
<1>18. CASE StopDisk
  BY <1>18, Zenon DEF StopDisk, GhostInv
<1>19. CASE Crash
  BY <1>19, Zenon DEF Crash, GhostInv
<1>20. ASSUME NEW verified \in SUBSET Routers,
             Load(verified)
      PROVE  GhostInv'
  <2>1. None \notin Versions
    BY DEF None, Versions
  <2>2. \A q \in Routers : ~Ghost(q)'
    BY <1>20, <2>1, Zenon DEF Load, Readable, Ghost, Present
  <2>3. QED
    BY <2>2, Zenon DEF GhostInv
<1>21. CASE UNCHANGED vars
  <2>1. \A q \in Routers : Pending(q) => Pending(q)'
    BY <1>21, PendingFrame, Zenon DEF vars, control
  <2>2. QED
    BY <1>21, <2>1, GhostFrame, Zenon DEF vars, control, history
<1>22. QED
  BY <1>1, <1>2, <1>3, <1>4, <1>5, <1>6, <1>7, <1>8, <1>9, <1>10, <1>11, <1>12, <1>13, <1>14,
     <1>15, <1>16, <1>17, <1>18, <1>19, <1>20, <1>21, Zenon DEF Next, DiskStep, CallStep

-----------------------------------------------------------------------------
(* Theorems                                                                *)

LEMMA InvInit == Init => IInv
<1> SUFFICES ASSUME Init
             PROVE  IInv
  OBVIOUS
<1>1. Present = {} /\ Len(jobs) = 0 /\ disk.pc = "out" /\ \A t \in Callers : th[t].pc = "out"
  BY DEF Init, Present, Out
<1>2. TypeOK
  <2>1. disk \in DiskType /\ th \in [Callers -> CallType]
    BY OutTyped, Zenon DEF Init
  <2>2. QED
    BY <2>1, <1>1, NodeDBAssumption DEF Init, TypeOK, DiskType, CallType, None
<1>3. ControlInv
  BY <1>1 DEF Init, ControlInv, JobsInv, SavingInv, DownInv
<1>4. FileInv
  BY <1>1, Zenon DEF FileInv
<1>5. GhostInv
  BY DEF Init, GhostInv, Ghost, Versions, None
<1>6. QED
  BY <1>2, <1>3, <1>4, <1>5 DEF IInv

LEMMA InvNext == IInv /\ [Next]_vars => IInv'
  BY TypeNext, ControlNext, FileNext, GhostNext, Zenon DEF IInv, ControlInv

LEMMA InvAlways == Spec => []IInv
  BY InvInit, InvNext, PTL DEF Spec

\* Once the disk thread has caught up, an RC in memory is the one in its file, so a
\* restart loses nothing: unless Insert or SaveAll failed to write it, or KillRCJobs
\* removed the file behind an insert that put the router back.  The state is well
\* typed: no RC is loaded from a file that was not written.
THEOREM EntriesKept == Spec => []EntriesOnDisk
<1>1. IInv => EntriesOnDisk
  BY Zenon DEF IInv, FileInv, EntriesOnDisk
<1>2. QED
  BY <1>1, InvAlways, PTL

\* Once the disk thread has caught up, and the pool was not stopped, a router that was
\* removed has no file the next start would load: whatever inserts of it were queued or
\* half done when RemoveIf erased its entry.
THEOREM RemovedStayRemoved == Spec => []NoGhostFiles
<1>1. ASSUME IInv
      PROVE  NoGhostFiles
  <2>1. SUFFICES ASSUME Quiescent, enabled, NEW r \in Routers \ expired, files[r] \in Versions
                 PROVE  r \in Present
    BY Zenon DEF NoGhostFiles
  <2>2. disk.pc = "out" /\ Len(jobs) = 0 /\ \A t \in Callers : th[t].pc = "out"
    BY <2>1, OutPc DEF Quiescent
  <2>3. ~Pending(r)
    BY <2>2 DEF Pending, AtJob
  <2>4. QED
    BY <1>1, <2>1, <2>3, Zenon DEF IInv, GhostInv, Ghost, Quiescent
<1>2. QED
  BY <1>1, InvAlways, PTL
==============================================================================
