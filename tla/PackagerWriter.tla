---- MODULE PackagerWriter ----
(***************************************************************************)
(* The per-channel disk writer of src/dash/writer.rs: a bounded queue, a   *)
(* task that takes one job at a time and runs it in the blocking pool, and *)
(* the ways a writer ends: drained, dropped, or dead and respawned.  A     *)
(* job's file operations outlive an aborted task, so a second job may be   *)
(* on its way when the task is replaced.  Files are inodes: a rename moves *)
(* whatever inode the temp name stands for.                                *)
(***************************************************************************)
EXTENDS Naturals, Sequences

CONSTANTS Name,      \* file names of the channel directory
          Inodes,    \* bound on the inodes of the file system
          Depth,     \* WRITE_QUEUE_DEPTH
          Version,   \* versions of a file's content
          MaxEpoch,  \* bound on the writers opened on the directory
          MaxDeaths, \* bound on the abnormal ends of a writer task
          MayDrop,   \* whether an owner may drop its writer without draining it
          MayFail,   \* whether file operations may fail
          NoData, Torn, NoOp

ASSUME WriterAssumption ==
    /\ Depth \in Nat \ {0} /\ MaxEpoch \in Nat \ {0} /\ MaxDeaths \in Nat
    /\ MayDrop \in BOOLEAN /\ MayFail \in BOOLEAN /\ Inodes \in Nat \ {0}

VARIABLES
    files, tmp,  \* the inode of each file and of its temp file, or NoInode
    content,     \* what an inode holds: data, or Torn while it is being written
    queue,       \* jobs in the mpsc channel
    task,        \* the drain task
    owner,       \* what the packager is doing with its writer
    blocked,     \* the job of a send waiting for room, or NoOp
    op,          \* the running job, and one left behind by an aborted task
    epoch,       \* number of writers opened on this directory so far
    deaths,
    overtaken    \* history: a writer began beside the job of an aborted task

disk   == <<files, tmp, content>>
vars   == <<disk, queue, task, owner, blocked, op, epoch, deaths>>
allvars == <<vars, overtaken>>

Inode == 1..Inodes
NoInode == 0

\* A writer's data is tagged with the writer it came from.
Data   == [epoch : 1..MaxEpoch, version : Version]
Fresh  == {d \in Data : d.epoch = epoch}
Ordered == INSTANCE OrderedFiles WITH
    files <- [n \in Name |-> IF files[n] = NoInode THEN NoData ELSE content[files[n]]],
    pipe  <- (IF op["stray"] = NoOp THEN <<>> ELSE <<op["stray"].job>>) \o
             (IF op["live"] = NoOp THEN <<>> ELSE <<op["live"].job>>) \o queue
Jobs   == Ordered!Jobs
Ops    == [job : Jobs, stage : {"start", "fill", "rename"}, fd : Inode \cup {NoInode}]

ASSUME ContentAssumption == Torn \notin Data /\ NoOp \notin Jobs \cup Ops

TypeOK ==
    /\ files \in [Name -> Inode \cup {NoInode}] /\ tmp \in [Name -> Inode \cup {NoInode}]
    /\ content \in [Inode -> Data \cup {Torn}]
    /\ queue \in Seq(Jobs) /\ Len(queue) <= Depth
    /\ task \in {"running", "dead", "ended", "aborted"}
    /\ owner \in {"open", "draining", "gone"}
    /\ blocked \in Jobs \cup {NoOp}
    /\ op \in [{"live", "stray"} -> Ops \cup {NoOp}]
    /\ epoch \in 1..MaxEpoch /\ deaths \in 0..MaxDeaths /\ overtaken \in BOOLEAN

Init ==
    /\ files = [n \in Name |-> NoInode] /\ tmp = [n \in Name |-> NoInode]
    /\ content = [i \in Inode |-> Torn]
    /\ queue = <<>> /\ task = "running" /\ owner = "open" /\ blocked = NoOp
    /\ op = [k \in {"live", "stray"} |-> NoOp]
    /\ epoch = 1 /\ deaths = 0 /\ overtaken = FALSE

-----------------------------------------------------------------------------
\* Mutant: one job more than the queue holds.
SendOneMore(job) ==
    /\ owner = "open" /\ blocked = NoOp
    /\ task = "running" /\ Len(queue) <= Depth
    /\ queue' = Append(queue, job)
    /\ UNCHANGED <<disk, task, owner, blocked, op, epoch, deaths>>

\* send_job: try_send finds room.
Send(job) ==
    /\ owner = "open" /\ blocked = NoOp
    /\ task = "running" /\ Len(queue) < Depth
    /\ queue' = Append(queue, job)
    /\ UNCHANGED <<disk, task, owner, blocked, op, epoch, deaths>>

\* try_send finds the queue full: the caller blocks.
SendFull(job) ==
    /\ owner = "open" /\ blocked = NoOp
    /\ task = "running" /\ Len(queue) = Depth
    /\ blocked' = job
    /\ UNCHANGED <<disk, queue, task, owner, op, epoch, deaths>>

\* blocking_send gets room.
Unblock ==
    /\ blocked # NoOp /\ task = "running" /\ Len(queue) < Depth
    /\ queue' = Append(queue, blocked)
    /\ blocked' = NoOp
    /\ UNCHANGED <<disk, task, owner, op, epoch, deaths>>

\* Mutant: the job whose send was interrupted is not retried.
RespawnIdle(job) ==
    /\ owner = "open" /\ task = "dead" /\ blocked = NoOp
    /\ task' = "running" /\ queue' = <<job>>
    /\ UNCHANGED <<disk, owner, blocked, op, epoch, deaths>>

\* The task is gone while the owner still writes: a new one takes the job.
Respawn(job) ==
    /\ owner = "open" /\ task = "dead"
    /\ blocked \in {job, NoOp}
    /\ task' = "running" /\ queue' = <<job>> /\ blocked' = NoOp
    /\ UNCHANGED <<disk, owner, op, epoch, deaths>>

\* shutdown_and_drain: the sender is closed, the task drains the queue.
Shutdown ==
    /\ owner = "open" /\ blocked = NoOp
    /\ owner' = "draining"
    /\ UNCHANGED <<disk, queue, task, blocked, op, epoch, deaths>>

\* Mutant: the join handle is not awaited.
DrainedAtOnce ==
    /\ owner = "draining" /\ owner' = "gone"
    /\ UNCHANGED <<disk, queue, task, blocked, op, epoch, deaths>>

\* The join handle returns.
Drained ==
    /\ owner = "draining" /\ task \in {"ended", "dead"}
    /\ owner' = "gone"
    /\ UNCHANGED <<disk, queue, task, blocked, op, epoch, deaths>>

\* Drop: the task is aborted and its queue lost; a file operation that has
\* reached the blocking pool goes on without it.
Detach == op' = [op EXCEPT !["live"] = NoOp,
                           !["stray"] = IF op["live"] = NoOp THEN @ ELSE op["live"]]
Drop ==
    /\ MayDrop /\ owner = "open" /\ blocked = NoOp
    /\ op["stray"] = NoOp \/ op["live"] = NoOp
    /\ owner' = "gone" /\ queue' = <<>>
    /\ task' = IF task = "running" THEN "aborted" ELSE task
    /\ Detach
    /\ UNCHANGED <<disk, blocked, epoch, deaths>>

\* The next packager of the channel: clear_channel_dir, then a new writer.
Reopen ==
    /\ owner = "gone" /\ epoch < MaxEpoch
    /\ files' = [n \in Name |-> NoInode] /\ tmp' = [n \in Name |-> NoInode]
    /\ owner' = "open" /\ task' = "running" /\ queue' = <<>>
    /\ epoch' = epoch + 1
    /\ UNCHANGED <<content, blocked, op, deaths>>

-----------------------------------------------------------------------------
\* Mutant: the newest job first.
RecvNewest ==
    /\ task = "running" /\ op["live"] = NoOp /\ queue # <<>>
    /\ op' = [op EXCEPT !["live"] = [job |-> queue[Len(queue)], stage |-> "start", fd |-> NoInode]]
    /\ queue' = SubSeq(queue, 1, Len(queue) - 1)
    /\ UNCHANGED <<disk, task, owner, blocked, epoch, deaths>>

\* The task takes the next job; its file operation is one of the blocking pool.
Recv ==
    /\ task = "running" /\ op["live"] = NoOp /\ queue # <<>>
    /\ op' = [op EXCEPT !["live"] = [job |-> Head(queue), stage |-> "start", fd |-> NoInode]]
    /\ queue' = Tail(queue)
    /\ UNCHANGED <<disk, task, owner, blocked, epoch, deaths>>

\* Mutant: a sender is still alive while the owner waits for the task.
TaskWaits ==
    /\ task = "running" /\ owner = "gone" /\ queue = <<>> /\ op["live"] = NoOp
    /\ task' = "ended"
    /\ UNCHANGED <<disk, queue, owner, blocked, op, epoch, deaths>>

\* The sender is closed and everything has been taken and done.
TaskEnds ==
    /\ task = "running" /\ owner = "draining" /\ queue = <<>> /\ op["live"] = NoOp
    /\ task' = "ended"
    /\ UNCHANGED <<disk, queue, owner, blocked, op, epoch, deaths>>

\* The task ends abnormally (the case ensure_sender and respawn_sender are for).
TaskDies ==
    /\ deaths < MaxDeaths /\ task = "running"
    /\ op["stray"] = NoOp \/ op["live"] = NoOp
    /\ deaths' = deaths + 1
    /\ task' = "dead" /\ queue' = <<>>
    /\ Detach
    /\ UNCHANGED <<disk, owner, blocked, epoch>>

Doing(k, what, stage) == op[k] # NoOp /\ op[k].job.op = what /\ op[k].stage = stage
Done(k) == op' = [op EXCEPT ![k] = NoOp]
Used == {files[n] : n \in Name} \cup {tmp[n] : n \in Name} \cup {o.fd : o \in {op[k] : k \in DOMAIN op} \ {NoOp}}
\* Inodes are interchangeable: a new file gets the first that is not used.
Unused(i) == i \in Inode \ Used /\ \A j \in Inode \ Used : i <= j
rest == <<queue, task, owner, blocked, epoch, deaths>>

\* Mutant: no temp file, the data is written under its own name.
CreateInPlace(k) ==
    /\ Doing(k, "write", "start")
    /\ LET n == op[k].job.name IN
       \E i \in Inode :
         /\ IF files[n] = NoInode THEN Unused(i) ELSE i = files[n]
         /\ files' = [files EXCEPT ![n] = i]
         /\ content' = [content EXCEPT ![i] = Torn]
         /\ op' = [op EXCEPT ![k].stage = "fill", ![k].fd = i]
    /\ UNCHANGED <<tmp, rest>>

\* fs::write opens the temp file: it is truncated, or created.
Create(k) ==
    /\ Doing(k, "write", "start")
    /\ LET n == op[k].job.name IN
       \E i \in Inode :
         /\ IF tmp[n] = NoInode THEN Unused(i) ELSE i = tmp[n]
         /\ tmp' = [tmp EXCEPT ![n] = i]
         /\ content' = [content EXCEPT ![i] = Torn]
         /\ op' = [op EXCEPT ![k].stage = "fill", ![k].fd = i]
    /\ UNCHANGED <<files, rest>>

Fill(k) ==
    /\ Doing(k, "write", "fill")
    /\ content' = [content EXCEPT ![op[k].fd] = op[k].job.data]
    /\ op' = [op EXCEPT ![k].stage = "rename"]
    /\ UNCHANGED <<files, tmp, rest>>

\* rename(tmp, path): it fails if the temp name has gone.
Rename(k) ==
    /\ Doing(k, "write", "rename")
    /\ LET n == op[k].job.name IN
         /\ files' = [files EXCEPT ![n] = IF tmp[n] = NoInode THEN @ ELSE tmp[n]]
         /\ tmp' = [tmp EXCEPT ![n] = NoInode]
    /\ Done(k)
    /\ UNCHANGED <<content, rest>>

\* An I/O error: nothing happens, a write leaves its temp file behind, or the
\* rename fails and removes it.  The error is logged and the task goes on.
JobFails(k) ==
    /\ MayFail
    /\ \/ (Doing(k, "write", "start") \/ Doing(k, "write", "fill") \/ Doing(k, "delete", "start"))
          /\ UNCHANGED tmp
       \/ Doing(k, "write", "rename") /\ tmp' = [tmp EXCEPT ![op[k].job.name] = NoInode]
    /\ Done(k)
    /\ UNCHANGED <<files, content, rest>>

Remove(k) ==
    /\ Doing(k, "delete", "start")
    /\ files' = [files EXCEPT ![op[k].job.name] = NoInode]
    /\ Done(k)
    /\ UNCHANGED <<tmp, content, rest>>

FileStep(k) == Create(k) \/ Fill(k) \/ Rename(k) \/ JobFails(k) \/ Remove(k)

SendsJob == \E job \in {j \in Jobs : j.op = "write" => j.data \in Fresh} :
                Send(job) \/ SendFull(job) \/ Respawn(job)
TaskStep == Recv \/ TaskEnds \/ \E k \in {"live", "stray"} : FileStep(k)

Steps == SendsJob \/ Unblock \/ Shutdown \/ Drained \/ Drop \/ Reopen \/ TaskStep \/ TaskDies

Begins == task # "running" /\ task' = "running"
Next == Steps /\ overtaken' = (overtaken \/ (Begins /\ op["stray"] # NoOp))

Spec == Init /\ [][Next]_allvars

\* The runtime runs the task and the blocking pool; a blocked caller goes on
\* when it has room or finds the task dead; a closed-down writer is awaited.
FairSpec ==
    /\ Spec
    /\ WF_vars(Recv) /\ WF_vars(TaskEnds) /\ \A k \in {"live", "stray"} : WF_vars(FileStep(k))
    /\ WF_vars(Unblock) /\ WF_vars(blocked # NoOp /\ Respawn(blocked)) /\ WF_vars(Drained)

-----------------------------------------------------------------------------
\* writer.rs:210, "readers never see a partial file": unless two writers'
\* jobs were at work at once.
NoTornFile == \A n \in Name : files[n] # NoInode /\ ~overtaken => content[files[n]] # Torn

\* writer.rs:74-75: once a packager has been replaced, nothing an older writer
\* wrote is in the directory.
NoStaleFile ==
    \A n \in Name : files[n] # NoInode /\ ~overtaken /\ content[files[n]] # Torn
                      => content[files[n]].epoch = epoch

\* Seen from the packager, jobs take effect whole and in order, and a task that
\* dies or is aborted only loses the last ones; until a job it left behind in
\* the blocking pool runs beside those of its successor.
ImplementsOrderedFiles ==
    Ordered!Init /\ [][overtaken' \/ Ordered!Next]_Ordered!orderedVars

\* Backpressure ends: a send that found the queue full is accepted.
BlockedSendEnds == blocked # NoOp ~> blocked = NoOp

\* shutdown_and_drain returns.
DrainEnds == owner = "draining" ~> owner = "gone"
====
