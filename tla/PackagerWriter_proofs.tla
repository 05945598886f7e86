---- MODULE PackagerWriter_proofs ----
(***************************************************************************)
(* Theorems about PackagerWriter for any names, queue depth, number of     *)
(* writers and number of deaths, checked with the TLA+ proof system.       *)
(***************************************************************************)
EXTENDS PackagerWriter, SequenceTheorems, TLAPS

K == {"live", "stray"}

\* A job is a write of data or a delete.
LEMMA JobShape ==
    ASSUME NEW job \in Jobs
    PROVE  /\ job.name \in Name /\ job.op \in {"write", "delete"}
           /\ job.op = "write" => job.data \in Data
           /\ job.op = "delete" => job.data = NoData
BY DEF Jobs, Ordered!Jobs, Ordered!Write, Ordered!Delete

\* An operation that is doing something has a job and a stage.
LEMMA OpShape ==
    ASSUME TypeOK, NEW k \in K, op[k] # NoOp
    PROVE  /\ op[k] \in Ops /\ op[k].job \in Jobs /\ op[k].fd \in Inode \cup {NoInode}
           /\ op[k].job.name \in Name
BY JobShape DEF TypeOK, K, Ops

LEMMA InitType == Init => TypeOK
<1>. SUFFICES ASSUME Init PROVE TypeOK OBVIOUS
<1>. USE WriterAssumption DEF Init, TypeOK
<1>1. queue \in Seq(Jobs) /\ Len(queue) <= Depth BY DEF Init
<1>2. content \in [Inode -> Data \cup {Torn}] BY DEF Init
<1>3. files \in [Name -> Inode \cup {NoInode}] /\ tmp \in [Name -> Inode \cup {NoInode}] OBVIOUS
<1>4. op \in [K -> Ops \cup {NoOp}] BY DEF K
<1>5. epoch \in 1..MaxEpoch /\ deaths \in 0..MaxDeaths OBVIOUS
<1>6. overtaken \in BOOLEAN OBVIOUS
<1>. QED BY <1>1, <1>2, <1>3, <1>4, <1>5, <1>6 DEF K

\* What the blocking pool does to files keeps their types.
LEMMA FileStepType ==
    ASSUME TypeOK, NEW k \in K, FileStep(k), overtaken' \in BOOLEAN
    PROVE  TypeOK'
<1>. USE WriterAssumption DEF K, Doing, Done, rest
<1>0. op[k] # NoOp BY DEF FileStep, Create, Fill, Rename, JobFails, Remove
<1>1. PICK n \in Name : n = op[k].job.name BY <1>0, OpShape
<1>2. UNCHANGED rest
  BY DEF FileStep, Create, Fill, Rename, JobFails, Remove
<1>3. NoInode \in Inode \cup {NoInode} /\ NoOp \in Ops \cup {NoOp} OBVIOUS
<1>4. op' \in [K -> Ops \cup {NoOp}]
  <2>1. CASE op' = [op EXCEPT ![k] = NoOp] BY <2>1 DEF TypeOK
  <2>2. CASE Create(k)
    <3>1. PICK i \in Inode : op' = [op EXCEPT ![k].stage = "fill", ![k].fd = i] BY <2>2 DEF Create
    <3>2. PICK o \in Ops : o = op[k] BY <1>0, OpShape
    <3>3. [o EXCEPT !.stage = "fill", !.fd = i] \in Ops BY DEF Ops
    <3>4. op' = [op EXCEPT ![k] = [o EXCEPT !.stage = "fill", !.fd = i]] BY <3>1, <3>2 DEF TypeOK
    <3>. QED BY <3>3, <3>4 DEF TypeOK
  <2>3. CASE Fill(k)
    <3>2. PICK o \in Ops : o = op[k] BY <1>0, OpShape
    <3>3. [o EXCEPT !.stage = "rename"] \in Ops BY DEF Ops
    <3>4. op' = [op EXCEPT ![k] = [o EXCEPT !.stage = "rename"]] BY <2>3, <3>2 DEF TypeOK, Fill
    <3>. QED BY <3>3, <3>4 DEF TypeOK
  <2>. QED BY <2>1, <2>2, <2>3 DEF FileStep, Rename, JobFails, Remove
<1>5. content' \in [Inode -> Data \cup {Torn}]
  <2>1. CASE Create(k) BY <2>1 DEF Create, TypeOK
  <2>2. CASE Fill(k)
    <3>1. op[k].job.data \in Data BY <1>0, <2>2, OpShape, JobShape DEF Fill
    <3>. QED BY <3>1, <2>2 DEF Fill, TypeOK
  <2>. QED BY <2>1, <2>2 DEF FileStep, Rename, JobFails, Remove, TypeOK
<1>6. tmp' \in [Name -> Inode \cup {NoInode}]
  <2>1. CASE Create(k)
    <3>1. PICK i \in Inode : tmp' = [tmp EXCEPT ![n] = i] BY <1>1, <2>1 DEF Create
    <3>. QED BY <3>1 DEF TypeOK
  <2>2. CASE tmp' = [tmp EXCEPT ![n] = NoInode] BY <2>2 DEF TypeOK
  <2>. QED BY <1>1, <2>1, <2>2 DEF FileStep, Fill, Rename, JobFails, Remove, TypeOK
<1>7. files' \in [Name -> Inode \cup {NoInode}]
  <2>1. CASE Rename(k) BY <1>1, <2>1 DEF Rename, TypeOK
  <2>2. CASE Remove(k) BY <1>1, <2>2 DEF Remove, TypeOK
  <2>. QED BY <2>1, <2>2 DEF FileStep, Create, Fill, JobFails, TypeOK
<1>. QED BY <1>2, <1>4, <1>5, <1>6, <1>7 DEF TypeOK

\* The steps of the writer and of its owner keep the types.
LEMMA StepType ==
    ASSUME TypeOK, Next PROVE TypeOK'
<1>0. Steps /\ overtaken' \in BOOLEAN BY DEF Next, TypeOK
<1>. USE <1>0, WriterAssumption DEF TypeOK, disk
<1>1. ASSUME NEW job \in Jobs, Send(job) PROVE TypeOK' BY <1>1 DEF Send
<1>2. ASSUME NEW job \in Jobs, SendFull(job) PROVE TypeOK' BY <1>2 DEF SendFull
<1>3. ASSUME NEW job \in Jobs, Respawn(job) PROVE TypeOK'
  <2>1. <<job>> \in Seq(Jobs) /\ Len(<<job>>) = 1 BY <1>3
  <2>. QED BY <1>3, <2>1 DEF Respawn
<1>4. CASE Unblock BY <1>4 DEF Unblock
<1>5. CASE Shutdown BY <1>5 DEF Shutdown
<1>6. CASE Drained BY <1>6 DEF Drained
<1>7. op' \in [K -> Ops \cup {NoOp}] \/ ~Detach BY DEF Detach, K
<1>8. <<>> \in Seq(Jobs) /\ Len(<<>>) = 0 OBVIOUS
<1>9. CASE Drop BY <1>7, <1>8, <1>9 DEF Drop, K
<1>10. CASE Reopen BY <1>8, <1>10 DEF Reopen
<1>11. CASE Recv
  <2>1. Head(queue) \in Jobs /\ Tail(queue) \in Seq(Jobs) /\ Len(Tail(queue)) <= Depth BY <1>11 DEF Recv
  <2>2. [job |-> Head(queue), stage |-> "start", fd |-> NoInode] \in Ops BY <2>1 DEF Ops
  <2>3. op' \in [K -> Ops \cup {NoOp}] BY <2>2, <1>11 DEF Recv, K
  <2>. QED BY <2>1, <2>3, <1>11 DEF Recv, K
<1>12. CASE TaskEnds BY <1>12 DEF TaskEnds
<1>13. CASE TaskDies BY <1>7, <1>8, <1>13 DEF TaskDies, K
<1>14. ASSUME NEW k \in K, FileStep(k) PROVE TypeOK' BY <1>14, FileStepType
<1>. QED BY <1>1, <1>2, <1>3, <1>4, <1>5, <1>6, <1>9, <1>10, <1>11, <1>12, <1>13, <1>14
         DEF Steps, SendsJob, TaskStep, K

LEMMA NextType == TypeOK /\ [Next]_allvars => TypeOK'
<1>1. TypeOK /\ UNCHANGED allvars => TypeOK' BY DEF TypeOK, allvars, vars, disk
<1>. QED BY <1>1, StepType

\* The writer's state keeps its types: in particular the queue its bound, and every
\* operation its job, whoever sends, dies or is dropped (writer.rs:24-207).
THEOREM TypeCorrect == Spec => []TypeOK
BY InitType, NextType, PTL DEF Spec

-----------------------------------------------------------------------------
\* What the owner, the task and its jobs are to each other.
Alive ==
    /\ op["live"] # NoOp => task = "running"
    /\ blocked # NoOp => owner = "open"
    /\ owner = "gone" => task # "running"
    /\ task # "running" => queue = <<>>

\* A job left behind runs alone, unless a task has begun beside it.
Apart == ~overtaken => (op["stray"] # NoOp => task # "running")

\* Everything on its way comes from the writer that is open.
Current(job) == job.op = "write" => job.data.epoch = epoch
AllCurrent ==
    /\ \A i \in 1..Len(queue) : Current(queue[i])
    /\ blocked # NoOp => Current(blocked)
    /\ ~overtaken => \A k \in K : op[k] # NoOp => Current(op[k].job)

\* A file and a temp file are never the same inode, nor are two temp files; the
\* job at work owns its temp file; and what has a name is whole and current.
FilesApart ==
    /\ \A n, m \in Name : files[n] # NoInode => files[n] # tmp[m]
    /\ \A n, m \in Name : tmp[n] # NoInode /\ tmp[n] = tmp[m] => n = m
JobOwnsTemp ==
    \A k \in K : op[k] # NoOp /\ op[k].stage # "start" =>
        /\ op[k].job.op = "write" /\ op[k].fd # NoInode /\ tmp[op[k].job.name] = op[k].fd
        /\ op[k].stage = "rename" => content[op[k].fd] = op[k].job.data
FilesWhole ==
    \A n \in Name : files[n] # NoInode =>
        content[files[n]] \in Data /\ content[files[n]].epoch = epoch
Safe == FilesApart /\ JobOwnsTemp /\ FilesWhole

WInv == TypeOK /\ Alive /\ Apart /\ AllCurrent /\ (~overtaken => Safe)

\* Without an overtaken job, at most one job is at work.
LEMMA OneAtWork ==
    ASSUME Alive, Apart, ~overtaken, NEW k \in K, NEW j \in K, op[k] # NoOp, op[j] # NoOp
    PROVE  k = j
BY DEF Alive, Apart, K

LEMMA InitWInv == Init => WInv
<1>. SUFFICES ASSUME Init PROVE WInv OBVIOUS
<1>1. TypeOK BY InitType
<1>2. Alive /\ Apart BY DEF Init, Alive, Apart
<1>3. AllCurrent BY DEF Init, AllCurrent, K
<1>4. Safe BY DEF Init, Safe, FilesApart, JobOwnsTemp, FilesWhole, K
<1>. QED BY <1>1, <1>2, <1>3, <1>4 DEF WInv

\* What a file operation does to the jobs at work.
LEMMA FileStepJobs ==
    ASSUME TypeOK, NEW k \in K, FileStep(k)
    PROVE  /\ UNCHANGED <<queue, task, owner, blocked, epoch, deaths>> /\ op[k] # NoOp
           /\ \A j \in K : op'[j] # NoOp => op[j] # NoOp /\ op'[j].job = op[j].job
           /\ \A j \in K \ {k} : op'[j] = op[j]
<1>. USE DEF Doing, Done, rest
<1>1. UNCHANGED <<queue, task, owner, blocked, epoch, deaths>> /\ op[k] # NoOp
  BY DEF FileStep, Create, Fill, Rename, JobFails, Remove
<1>2. PICK o \in Ops : o = op[k] BY <1>1, OpShape
<1>3. op \in [K -> Ops \cup {NoOp}] BY DEF TypeOK, K
<1>4. CASE op' = [op EXCEPT ![k] = NoOp] BY <1>1, <1>3, <1>4
<1>5. ASSUME NEW q \in Ops, q.job = o.job, op' = [op EXCEPT ![k] = q]
      PROVE  /\ \A j \in K : op'[j] # NoOp => op[j] # NoOp /\ op'[j].job = op[j].job
             /\ \A j \in K \ {k} : op'[j] = op[j]
  BY <1>1, <1>2, <1>3, <1>5
<1>6. CASE Create(k)
  <2>1. PICK i \in Inode : op' = [op EXCEPT ![k].stage = "fill", ![k].fd = i] BY <1>6 DEF Create
  <2>2. PICK q \in Ops : q = [o EXCEPT !.stage = "fill", !.fd = i] BY DEF Ops
  <2>3. q.job = o.job /\ op' = [op EXCEPT ![k] = q] BY <1>2, <1>3, <2>1, <2>2 DEF Ops
  <2>. QED BY <1>1, <1>5, <2>3
<1>7. CASE Fill(k)
  <2>1. op' = [op EXCEPT ![k].stage = "rename"] BY <1>7 DEF Fill
  <2>2. PICK q \in Ops : q = [o EXCEPT !.stage = "rename"] BY DEF Ops
  <2>3. q.job = o.job /\ op' = [op EXCEPT ![k] = q] BY <1>2, <1>3, <2>1, <2>2 DEF Ops
  <2>. QED BY <1>1, <1>5, <2>3
<1>. QED BY <1>1, <1>4, <1>6, <1>7 DEF FileStep, Rename, JobFails, Remove

-----------------------------------------------------------------------------
LEMMA AliveKept == ASSUME TypeOK, Alive, Apart, Next PROVE Alive' /\ Apart'
<1>. USE DEF Alive, Apart, TypeOK
<1>0. Steps /\ overtaken' = (overtaken \/ (Begins /\ op["stray"] # NoOp)) BY DEF Next
<1>1. CASE \E job \in Jobs : Send(job) \/ SendFull(job)
  BY <1>0, <1>1 DEF Send, SendFull, Begins
<1>2. CASE \E job \in Jobs : Respawn(job) BY <1>0, <1>2 DEF Respawn, Begins
<1>3. CASE Unblock \/ Shutdown \/ Drained BY <1>0, <1>3 DEF Unblock, Shutdown, Drained, Begins
<1>4. CASE Drop BY <1>0, <1>4 DEF Drop, Detach, Begins
<1>5. CASE Reopen BY <1>0, <1>5 DEF Reopen, Begins
<1>6. CASE Recv BY <1>0, <1>6 DEF Recv, Begins
<1>7. CASE TaskEnds BY <1>0, <1>7 DEF TaskEnds, Begins
<1>8. CASE TaskDies BY <1>0, <1>8 DEF TaskDies, Detach, Begins
<1>9. CASE \E k \in K : FileStep(k)
  BY <1>0, <1>9, FileStepJobs DEF Begins, K
<1>. QED BY <1>0, <1>1, <1>2, <1>3, <1>4, <1>5, <1>6, <1>7, <1>8, <1>9
         DEF Steps, SendsJob, TaskStep, K

LEMMA CurrentKept ==
    ASSUME TypeOK, Alive, Apart, AllCurrent, Next PROVE AllCurrent'
<1>. USE DEF AllCurrent, Current
<1>0. Steps /\ overtaken' = (overtaken \/ (Begins /\ op["stray"] # NoOp)) BY DEF Next
<1>. DEFINE Ok(job) == job.op = "write" => job.data \in Fresh
<1>1. ASSUME NEW job \in Jobs, Ok(job) PROVE Current(job) BY <1>1 DEF Fresh
<1>2. ASSUME NEW job \in Jobs, Current(job)
      PROVE \A i \in 1..Len(Append(queue, job)) : Current(Append(queue, job)[i])
  BY <1>2 DEF TypeOK
<1>3. ASSUME NEW job \in Jobs, Ok(job), Send(job) PROVE AllCurrent'
  BY <1>0, <1>1, <1>2, <1>3 DEF Send
<1>4. ASSUME NEW job \in Jobs, Ok(job), SendFull(job) PROVE AllCurrent'
  BY <1>0, <1>1, <1>4 DEF SendFull
<1>5. ASSUME NEW job \in Jobs, Ok(job), Respawn(job) PROVE AllCurrent'
  <2>1. queue' = <<job>> /\ blocked' = NoOp /\ UNCHANGED <<op, epoch>> BY <1>5 DEF Respawn
  <2>2. job.op = "write" => job.data.epoch = epoch' BY <1>1, <1>5, <2>1
  <2>3. \A i \in 1..Len(queue') : queue'[i] = job BY <2>1
  <2>4. ~overtaken' => ~overtaken BY <1>0
  <2>. QED BY <2>1, <2>2, <2>3, <2>4
<1>6. CASE Unblock BY <1>0, <1>2, <1>6 DEF Unblock, TypeOK
<1>7. CASE Shutdown \/ Drained BY <1>0, <1>7 DEF Shutdown, Drained
<1>8. CASE Drop BY <1>0, <1>8 DEF Drop, Detach, K, TypeOK
<1>9. CASE Reopen
  <2>1. blocked' = NoOp /\ queue' = <<>> BY <1>9 DEF Reopen, Alive
  <2>2. op["live"] = NoOp /\ (~overtaken' => op["stray"] = NoOp) /\ op' = op
    BY <1>0, <1>9 DEF Reopen, Alive, Begins
  <2>3. \A i \in 1..Len(queue') : FALSE BY <2>1
  <2>4. ~overtaken' => \A k \in K : op'[k] = NoOp BY <2>2 DEF K
  <2>. QED BY <2>1, <2>3, <2>4
<1>10. CASE Recv
  <2>0. Head(queue) = queue[1] /\ 1 \in 1..Len(queue) BY <1>10 DEF Recv, TypeOK
  <2>1. Current(Head(queue)) /\ \A i \in 1..Len(Tail(queue)) : Current(Tail(queue)[i])
    BY <1>10, <2>0 DEF Recv, TypeOK
  <2>. QED BY <1>0, <1>10, <2>1 DEF Recv, K, TypeOK
<1>11. CASE TaskEnds BY <1>0, <1>11 DEF TaskEnds
<1>12. CASE TaskDies BY <1>0, <1>12 DEF TaskDies, Detach, K, TypeOK
<1>13. CASE \E k \in K : FileStep(k) BY <1>0, <1>13, FileStepJobs
<1>. QED BY <1>0, <1>3, <1>4, <1>5, <1>6, <1>7, <1>8, <1>9, <1>10, <1>11, <1>12, <1>13
         DEF Steps, SendsJob, TaskStep, K

-----------------------------------------------------------------------------
\* While one job is at work, what it does to the files keeps them apart and whole.
LEMMA FileStepSafe ==
    ASSUME TypeOK, AllCurrent, Alive, Apart, ~overtaken, Safe, NEW k \in K, FileStep(k)
    PROVE  Safe'
<1>. USE DEF Doing, Done, rest
<1>0. op[k] # NoOp /\ UNCHANGED epoch BY FileStepJobs
<1>1. PICK o \in Ops : o = op[k] BY <1>0, OpShape
<1>2. PICK n \in Name : n = o.job.name BY <1>0, <1>1, OpShape
<1>3. op \in [K -> Ops \cup {NoOp}] BY DEF TypeOK, K
<1>4. \A j \in K \ {k} : op[j] = NoOp /\ op'[j] = NoOp BY <1>0, OneAtWork, FileStepJobs
<1>5. files \in [Name -> Inode \cup {NoInode}] /\ tmp \in [Name -> Inode \cup {NoInode}]
      /\ content \in [Inode -> Data \cup {Torn}] /\ NoInode \notin Inode
  BY DEF TypeOK, Inode, NoInode
<1>6. FilesApart /\ JobOwnsTemp /\ FilesWhole BY DEF Safe
<1>7. CASE Create(k)
  <2>1. PICK i \in Inode :
          /\ IF tmp[n] = NoInode THEN Unused(i) ELSE i = tmp[n]
          /\ tmp' = [tmp EXCEPT ![n] = i] /\ content' = [content EXCEPT ![i] = Torn]
          /\ op' = [op EXCEPT ![k].stage = "fill", ![k].fd = i]
    BY <1>1, <1>2, <1>7 DEF Create
  <2>2. \A m \in Name : files[m] # i /\ (m # n => tmp[m] # i)
    <3>1. CASE tmp[n] = NoInode BY <2>1, <3>1 DEF Unused, Used
    <3>2. CASE tmp[n] # NoInode BY <1>5, <1>6, <2>1, <3>2 DEF FilesApart
    <3>. QED BY <3>1, <3>2
  <2>3. FilesApart' /\ FilesWhole'
    BY <1>0, <1>5, <1>6, <1>7, <2>1, <2>2 DEF FilesApart, FilesWhole, Create
  <2>4. op'[k].job = o.job /\ op'[k].stage = "fill" /\ op'[k].fd = i
    <3>1. PICK q \in Ops : q = [o EXCEPT !.stage = "fill", !.fd = i] BY <1>1 DEF Ops
    <3>2. op' = [op EXCEPT ![k] = q] BY <1>1, <1>3, <2>1, <3>1
    <3>. QED BY <1>3, <3>1, <3>2 DEF Ops
  <2>5. o.job.op = "write" /\ tmp'[n] = i BY <1>1, <1>5, <1>7, <2>1 DEF Create
  <2>6. JobOwnsTemp' BY <1>2, <1>4, <1>5, <2>4, <2>5 DEF JobOwnsTemp
  <2>. QED BY <2>3, <2>6 DEF Safe
<1>8. CASE Fill(k)
  <2>1. o.fd \in Inode /\ o.job.op = "write" /\ tmp[n] = o.fd
    BY <1>0, <1>1, <1>2, <1>5, <1>6, <1>8 DEF Fill, JobOwnsTemp
  <2>2. content' = [content EXCEPT ![o.fd] = o.job.data] /\ UNCHANGED <<files, tmp>>
    BY <1>1, <1>8 DEF Fill
  <2>3. FilesApart' /\ FilesWhole'
    BY <1>0, <1>5, <1>6, <2>1, <2>2 DEF FilesApart, FilesWhole
  <2>4. op'[k].job = o.job /\ op'[k].fd = o.fd
    <3>1. PICK q \in Ops : q = [o EXCEPT !.stage = "rename"] BY <1>1 DEF Ops
    <3>2. op' = [op EXCEPT ![k] = q] BY <1>1, <1>3, <1>8, <3>1 DEF Fill
    <3>. QED BY <1>3, <3>1, <3>2 DEF Ops
  <2>5. JobOwnsTemp' BY <1>2, <1>4, <1>5, <2>1, <2>2, <2>4 DEF JobOwnsTemp
  <2>. QED BY <2>3, <2>5 DEF Safe
<1>9. CASE op' = [op EXCEPT ![k] = NoOp] /\ UNCHANGED content /\ FilesApart' /\ FilesWhole'
  <2>1. \A j \in K : op'[j] = NoOp BY <1>3, <1>4, <1>9
  <2>. QED BY <1>9, <2>1 DEF Safe, JobOwnsTemp
<1>10. CASE Rename(k)
  <2>1. /\ tmp[n] = o.fd /\ o.fd \in Inode
        /\ content[o.fd] = o.job.data /\ o.job.data \in Data /\ o.job.data.epoch = epoch
    BY <1>0, <1>1, <1>2, <1>5, <1>6, <1>10, JobShape, OpShape DEF Rename, JobOwnsTemp, AllCurrent, Current
  <2>2. files' = [files EXCEPT ![n] = tmp[n]] /\ tmp' = [tmp EXCEPT ![n] = NoInode]
    BY <1>1, <1>2, <1>5, <1>10, <2>1 DEF Rename
  <2>3. FilesApart' BY <1>5, <1>6, <2>1, <2>2 DEF FilesApart
  <2>4. FilesWhole' BY <1>0, <1>5, <1>6, <1>10, <2>1, <2>2 DEF FilesWhole, Rename
  <2>. QED BY <1>9, <1>10, <2>3, <2>4 DEF Rename
<1>11. CASE JobFails(k)
  <2>1. FilesApart' /\ FilesWhole'
    BY <1>0, <1>1, <1>2, <1>5, <1>6, <1>11 DEF JobFails, FilesApart, FilesWhole
  <2>. QED BY <1>9, <1>11, <2>1 DEF JobFails
<1>12. CASE Remove(k)
  <2>1. FilesApart' /\ FilesWhole'
    BY <1>0, <1>1, <1>2, <1>5, <1>6, <1>12 DEF Remove, FilesApart, FilesWhole
  <2>. QED BY <1>9, <1>12, <2>1 DEF Remove
<1>. QED BY <1>7, <1>8, <1>10, <1>11, <1>12 DEF FileStep

\* Every other step leaves the disk alone, or wipes it with no job at work.
LEMMA SafeKept ==
    ASSUME TypeOK, AllCurrent, Alive, Apart, ~overtaken => Safe, Next, ~overtaken'
    PROVE  Safe'
<1>0. Steps /\ ~overtaken /\ ~(Begins /\ op["stray"] # NoOp) /\ Safe BY DEF Next, TypeOK
<1>1. op \in [K -> Ops \cup {NoOp}] BY DEF TypeOK, K
<1>2. ASSUME UNCHANGED <<disk, epoch>>,
             \A k \in K : op'[k] # NoOp => op'[k].stage = "start" \/ \E j \in K : op[j] = op'[k]
      PROVE Safe'
  BY <1>0, <1>2 DEF disk, Safe, FilesApart, JobOwnsTemp, FilesWhole
<1>3. CASE UNCHANGED <<disk, epoch, op>> BY <1>2, <1>3
<1>4. CASE Detach /\ UNCHANGED <<disk, epoch>>
  <2>1. \A k \in K : op'[k] # NoOp => \E j \in K : op[j] = op'[k]
    BY <1>1, <1>4 DEF Detach, K
  <2>. QED BY <1>2, <1>4, <2>1
<1>5. CASE Reopen
  <2>1. op["live"] = NoOp /\ op["stray"] = NoOp /\ op' = op
    BY <1>0, <1>5 DEF Reopen, Alive, Begins
  <2>2. JobOwnsTemp' BY <2>1 DEF JobOwnsTemp, K
  <2>3. FilesApart' /\ FilesWhole' BY <1>5 DEF Reopen, FilesApart, FilesWhole
  <2>. QED BY <2>2, <2>3 DEF Safe
<1>6. CASE Recv
  <2>1. PICK q : q = [job |-> Head(queue), stage |-> "start", fd |-> NoInode] OBVIOUS
  <2>2. q.stage = "start" /\ op' = [op EXCEPT !["live"] = q] BY <1>6, <2>1 DEF Recv
  <2>3. \A k \in K : op'[k] # NoOp => op'[k].stage = "start" \/ op[k] = op'[k]
    BY <1>1, <2>2 DEF K
  <2>. QED BY <1>2, <1>6, <2>3 DEF Recv
<1>7. CASE \E k \in K : FileStep(k) BY <1>0, <1>7, FileStepSafe
<1>. QED BY <1>0, <1>3, <1>4, <1>5, <1>6, <1>7
         DEF Steps, SendsJob, TaskStep, K, Send, SendFull, Respawn, Unblock, Shutdown, Drained,
             Drop, TaskEnds, TaskDies

LEMMA NextWInv == WInv /\ [Next]_allvars => WInv'
<1>1. WInv /\ Next => WInv' BY StepType, AliveKept, CurrentKept, SafeKept DEF WInv
<1>2. WInv /\ UNCHANGED allvars => WInv'
  <2>. SUFFICES ASSUME WInv, UNCHANGED allvars PROVE WInv' OBVIOUS
  <2>. USE DEF WInv, allvars, vars, disk
  <2>1. TypeOK' BY NextType
  <2>2. Alive' /\ Apart' BY DEF Alive, Apart
  <2>3. AllCurrent' BY DEF AllCurrent, Current
  <2>4. ~overtaken' => Safe' BY DEF Safe, FilesApart, JobOwnsTemp, FilesWhole
  <2>. QED BY <2>1, <2>2, <2>3, <2>4
<1>. QED BY <1>1, <1>2

\* A file that has a name is whole (writer.rs:210-221), whichever jobs fail, and
\* however the writer ends, as long as no job was overtaken.
THEOREM FilesAreWhole == Spec => []NoTornFile
<1>1. WInv => NoTornFile
  BY ContentAssumption DEF WInv, Safe, FilesWhole, NoTornFile
<1>. QED BY InitWInv, NextWInv, <1>1, PTL DEF Spec

\* And it is of the writer that is open: an older packager's file never comes
\* back into the directory of its successor (writer.rs:74-93, 223-236).
THEOREM FilesAreCurrent == Spec => []NoStaleFile
<1>1. WInv => NoStaleFile BY DEF WInv, Safe, FilesWhole, NoStaleFile
<1>. QED BY InitWInv, NextWInv, <1>1, PTL DEF Spec

-----------------------------------------------------------------------------
\* The files and the accepted jobs, as ImplementsOrderedFiles shows them.
F     == [n \in Name |-> IF files[n] = NoInode THEN NoData ELSE content[files[n]]]
Stray == IF op["stray"] = NoOp THEN <<>> ELSE <<op["stray"].job>>
Live  == IF op["live"] = NoOp THEN <<>> ELSE <<op["live"].job>>
Pipe  == Stray \o Live \o queue

\* What may happen to them.
Accepts == \E job \in Jobs : Pipe' = Append(Pipe, job) /\ F' = F
Applies == Pipe # <<>> /\ Pipe' = Tail(Pipe) /\ F' = Ordered!After(F, Head(Pipe))
Fails   == Pipe # <<>> /\ Pipe' = Tail(Pipe) /\ F' = F
Loses   == F' = F /\ \E k \in 0..Len(Pipe) : Pipe' = SubSeq(Pipe, 1, k)
Wipes   == Pipe = <<>> /\ Pipe' = <<>> /\ F' = [n \in Name |-> NoData]
Nothing == Pipe' = Pipe /\ F' = F
Abstractly == Accepts \/ Applies \/ Fails \/ Loses \/ Wipes \/ Nothing

\* A job appended to the end of a pipe is appended to the pipe.
LEMMA AppendLast ==
    ASSUME NEW S, NEW s \in Seq(S), NEW q \in Seq(S), NEW j \in S
    PROVE  s \o Append(q, j) = Append(s \o q, j)
<1>1. Append(q, j) = q \o <<j>> /\ <<j>> \in Seq(S) BY AppendIsConcat
<1>2. s \o q \in Seq(S) BY ConcatProperties
<1>3. Append(s \o q, j) = (s \o q) \o <<j>> BY <1>2, AppendIsConcat
<1>. QED BY <1>1, <1>3, ConcatAssociative

\* The front of a pipe is what is left of it when the rest is lost.
LEMMA FrontIsLeft ==
    ASSUME NEW S, NEW s \in Seq(S), NEW q \in Seq(S)
    PROVE  \E k \in 0..Len(s \o q) : s = SubSeq(s \o q, 1, k)
<1>1. Len(s) \in Nat /\ Len(q) \in Nat /\ Len(s \o q) = Len(s) + Len(q) BY ConcatProperties
<1>2. s = SubSeq(s \o q, 1, Len(s))
  <2>1. CASE s = <<>> BY <2>1, SubSeqEmpty
  <2>2. CASE s # <<>>
    <3>1. Len(s) \in 1..Len(s) /\ 1 \in 1..Len(s) BY <2>2, <1>1, EmptySeq
    <3>. QED BY <3>1, SubSeqOfConcat1, SubSeqFull
  <2>. QED BY <2>1, <2>2
<1>3. Len(s) \in 0..Len(s \o q) BY <1>1
<1>. QED BY <1>2, <1>3

\* The parts of the pipe are sequences of jobs.
LEMMA PipeType ==
    ASSUME TypeOK
    PROVE  /\ Stray \in Seq(Jobs) /\ Live \in Seq(Jobs) /\ queue \in Seq(Jobs)
           /\ Stray \o Live \in Seq(Jobs) /\ Pipe \in Seq(Jobs)
<1>1. Stray \in Seq(Jobs)
  <2>1. CASE op["stray"] = NoOp BY <2>1, EmptySeq DEF Stray
  <2>2. CASE op["stray"] # NoOp
    <3>1. op["stray"].job \in Jobs BY <2>2, OpShape DEF K
    <3>. QED BY <2>2, <3>1 DEF Stray
  <2>. QED BY <2>1, <2>2
<1>2. Live \in Seq(Jobs)
  <2>1. CASE op["live"] = NoOp BY <2>1, EmptySeq DEF Live
  <2>2. CASE op["live"] # NoOp
    <3>1. op["live"].job \in Jobs BY <2>2, OpShape DEF K
    <3>. QED BY <2>2, <3>1 DEF Live
  <2>. QED BY <2>1, <2>2
<1>3. queue \in Seq(Jobs) BY DEF TypeOK
<1>. QED BY <1>1, <1>2, <1>3, ConcatProperties DEF Pipe

\* With one job at work, it is the first of the pipe; once it is done, the rest
\* is left.
LEMMA OneAtWorkPipe ==
    ASSUME TypeOK, NEW k \in K, op[k] # NoOp, \A j \in K \ {k} : op[j] = NoOp
    PROVE  /\ Pipe = <<op[k].job>> \o queue /\ Pipe # <<>>
           /\ Head(Pipe) = op[k].job /\ Tail(Pipe) = queue
<1>1. op[k].job \in Jobs BY OpShape
<1>2. <<op[k].job>> \in Seq(Jobs) /\ queue \in Seq(Jobs) BY <1>1 DEF TypeOK
<1>3. Stray \o Live = <<op[k].job>>
  <2>1. CASE k = "live"
    <3>1. Stray = <<>> /\ Live = <<op[k].job>> BY <2>1 DEF Stray, Live, K
    <3>. QED BY <1>2, <3>1, ConcatEmptySeq
  <2>2. CASE k = "stray"
    <3>1. Live = <<>> /\ Stray = <<op[k].job>> BY <2>2 DEF Stray, Live, K
    <3>. QED BY <1>2, <3>1, ConcatEmptySeq
  <2>. QED BY <2>1, <2>2 DEF K
<1>4. Pipe = <<op[k].job>> \o queue BY <1>3 DEF Pipe
<1>5. ASSUME NEW j \in Jobs, NEW q \in Seq(Jobs)
      PROVE <<j>> \o q # <<>> /\ Head(<<j>> \o q) = j /\ Tail(<<j>> \o q) = q
  OBVIOUS
<1>. QED BY <1>1, <1>2, <1>4, <1>5

\* What a job that is not overtaken does is what its writer promises.
LEMMA FileStepAbstractly ==
    ASSUME WInv, ~overtaken, NEW k \in K, FileStep(k), TypeOK'
    PROVE  Abstractly
<1>. USE DEF Doing, Done, rest
<1>1. TypeOK /\ Alive /\ Apart /\ Safe BY DEF WInv
<1>2. op[k] # NoOp /\ UNCHANGED queue BY <1>1, FileStepJobs
<1>3. PICK o \in Ops : o = op[k] BY <1>1, <1>2, OpShape
<1>4. PICK n \in Name : n = o.job.name BY <1>1, <1>2, <1>3, OpShape
<1>5. \A j \in K \ {k} : op[j] = NoOp /\ op'[j] = NoOp BY <1>1, <1>2, OneAtWork, FileStepJobs
<1>6. op \in [K -> Ops \cup {NoOp}] BY <1>1 DEF TypeOK, K
<1>7. files \in [Name -> Inode \cup {NoInode}] /\ tmp \in [Name -> Inode \cup {NoInode}]
      /\ content \in [Inode -> Data \cup {Torn}] /\ NoInode \notin Inode
  BY <1>1 DEF TypeOK, Inode, NoInode
<1>8. FilesApart /\ JobOwnsTemp BY <1>1 DEF Safe
<1>9. Head(Pipe) = o.job /\ Pipe # <<>> /\ Tail(Pipe) = queue
  BY <1>1, <1>2, <1>3, <1>5, OneAtWorkPipe
<1>10. ASSUME op' = [op EXCEPT ![k] = NoOp] PROVE Pipe' = Tail(Pipe)
  <2>1. \A j \in K : op'[j] = NoOp BY <1>5, <1>6, <1>10
  <2>2. Stray' = <<>> /\ Live' = <<>> BY <2>1 DEF Stray, Live, K
  <2>3. Pipe' = <<>> \o <<>> \o queue BY <1>2, <2>2 DEF Pipe
  <2>4. queue \in Seq(Jobs) /\ <<>> \in Seq(Jobs) BY <1>1 DEF TypeOK
  <2>5. <<>> \o <<>> = <<>> /\ <<>> \o queue = queue BY <2>4, ConcatEmptySeq
  <2>. QED BY <1>9, <2>3, <2>5
<1>11. ASSUME op'[k] # NoOp PROVE Pipe' = Pipe
  <2>1. \A j \in K : (op'[j] = NoOp <=> op[j] = NoOp) /\ (op[j] # NoOp => op'[j].job = op[j].job)
    BY <1>1, <1>2, <1>5, <1>11, FileStepJobs
  <2>. QED BY <1>2, <2>1 DEF Pipe, Stray, Live, K
<1>12. CASE Create(k)
  <2>1. PICK i \in Inode :
          /\ IF tmp[n] = NoInode THEN Unused(i) ELSE i = tmp[n]
          /\ content' = [content EXCEPT ![i] = Torn] /\ UNCHANGED files
          /\ op' = [op EXCEPT ![k].stage = "fill", ![k].fd = i]
    BY <1>3, <1>4, <1>12 DEF Create
  <2>2. \A m \in Name : files[m] # i
    <3>1. CASE tmp[n] = NoInode BY <2>1, <3>1 DEF Unused, Used
    <3>2. CASE tmp[n] # NoInode BY <1>7, <1>8, <2>1, <3>2 DEF FilesApart
    <3>. QED BY <3>1, <3>2
  <2>3. F' = F BY <1>7, <2>1, <2>2 DEF F
  <2>4. op'[k] # NoOp
    <3>1. PICK q \in Ops : q = [o EXCEPT !.stage = "fill", !.fd = i] BY <1>3 DEF Ops
    <3>2. op' = [op EXCEPT ![k] = q] BY <1>3, <1>6, <2>1, <3>1
    <3>. QED BY <1>6, <3>2, ContentAssumption
  <2>. QED BY <1>11, <2>3, <2>4 DEF Abstractly, Nothing
<1>13. CASE Fill(k)
  <2>1. o.fd \in Inode /\ tmp[n] = o.fd
    BY <1>2, <1>3, <1>4, <1>7, <1>8, <1>13 DEF Fill, JobOwnsTemp
  <2>2. content' = [content EXCEPT ![o.fd] = o.job.data] /\ UNCHANGED files
    BY <1>3, <1>13 DEF Fill
  <2>3. F' = F BY <1>7, <1>8, <2>1, <2>2 DEF F, FilesApart
  <2>4. op'[k] # NoOp
    <3>1. PICK q \in Ops : q = [o EXCEPT !.stage = "rename"] BY <1>3 DEF Ops
    <3>2. op' = [op EXCEPT ![k] = q] BY <1>3, <1>6, <1>13, <3>1 DEF Fill
    <3>. QED BY <1>6, <3>2, ContentAssumption
  <2>. QED BY <1>11, <2>3, <2>4 DEF Abstractly, Nothing
<1>14. CASE Rename(k)
  <2>1. /\ tmp[n] = o.fd /\ o.fd \in Inode /\ content[o.fd] = o.job.data
    BY <1>2, <1>3, <1>4, <1>7, <1>8, <1>14 DEF Rename, JobOwnsTemp
  <2>2. files' = [files EXCEPT ![n] = o.fd] /\ UNCHANGED content
    BY <1>3, <1>4, <1>7, <1>14, <2>1 DEF Rename
  <2>3. F' = [F EXCEPT ![n] = o.job.data] BY <1>7, <2>1, <2>2 DEF F
  <2>4. F' = Ordered!After(F, Head(Pipe)) BY <1>4, <1>9, <2>3 DEF Ordered!After
  <2>. QED BY <1>9, <1>10, <1>14, <2>4 DEF Abstractly, Applies, Rename
<1>15. CASE JobFails(k)
  <2>1. F' = F BY <1>15 DEF JobFails, F
  <2>. QED BY <1>9, <1>10, <1>15, <2>1 DEF Abstractly, Fails, JobFails
<1>16. CASE Remove(k)
  <2>1. o.job.data = NoData BY <1>1, <1>2, <1>3, <1>16, OpShape, JobShape DEF Remove
  <2>2. files' = [files EXCEPT ![n] = NoInode] /\ UNCHANGED content
    BY <1>3, <1>4, <1>16 DEF Remove
  <2>3. F' = [F EXCEPT ![n] = o.job.data] BY <1>7, <2>1, <2>2 DEF F
  <2>4. F' = Ordered!After(F, Head(Pipe)) BY <1>4, <1>9, <2>3 DEF Ordered!After
  <2>. QED BY <1>9, <1>10, <1>16, <2>4 DEF Abstractly, Applies, Remove
<1>. QED BY <1>12, <1>13, <1>14, <1>15, <1>16 DEF FileStep

\* And so are the steps of the owner and of the task.
LEMMA StepAbstractly ==
    ASSUME WInv, WInv', Next, ~overtaken' PROVE Abstractly
<1>0. Steps /\ ~overtaken /\ ~(Begins /\ op["stray"] # NoOp) BY DEF Next, WInv, TypeOK
<1>1. TypeOK /\ TypeOK' /\ Alive BY DEF WInv
<1>2. op \in [K -> Ops \cup {NoOp}] BY <1>1 DEF TypeOK, K
<1>3. /\ Stray \in Seq(Jobs) /\ Live \in Seq(Jobs) /\ queue \in Seq(Jobs)
      /\ Stray \o Live \in Seq(Jobs) /\ Pipe \in Seq(Jobs)
  BY <1>1, PipeType
<1>4. ASSUME UNCHANGED disk PROVE F' = F BY <1>4 DEF F, disk
<1>5. ASSUME UNCHANGED op PROVE UNCHANGED <<Stray, Live>> BY <1>5 DEF Stray, Live
<1>6. ASSUME NEW job \in Jobs, queue' = Append(queue, job), UNCHANGED <<disk, op>>
      PROVE Abstractly
  BY <1>3, <1>4, <1>5, <1>6, AppendLast DEF Abstractly, Accepts, Pipe
<1>7. ASSUME UNCHANGED <<disk, op, queue>> PROVE Abstractly
  BY <1>4, <1>5, <1>7 DEF Abstractly, Nothing, Pipe
<1>8. ASSUME NEW job \in Jobs, Respawn(job) PROVE Abstractly
  <2>1. queue = <<>> /\ op["live"] = NoOp /\ op["stray"] = NoOp
        /\ queue' = <<job>> /\ UNCHANGED <<disk, op>>
    BY <1>0, <1>8 DEF Respawn, Alive, WInv, Begins
  <2>2. queue' = Append(queue, job) BY <2>1
  <2>. QED BY <1>6, <2>1, <2>2
<1>9. ASSUME Detach, queue' = <<>>, UNCHANGED disk, op["stray"] = NoOp \/ op["live"] = NoOp
      PROVE Abstractly
  <2>1. Live' = <<>> /\ Stray' = Stray \o Live
    <3>1. CASE op["live"] = NoOp
      <4>1. op' = op BY <1>2, <1>9, <3>1 DEF Detach, K
      <4>2. Live = <<>> /\ Live' = <<>> /\ Stray' = Stray BY <3>1, <4>1 DEF Live, Stray
      <4>. QED BY <1>3, <4>2, ConcatEmptySeq
    <3>2. CASE op["live"] # NoOp
      <4>1. op'["live"] = NoOp /\ op'["stray"] = op["live"] BY <1>2, <1>9, <3>2 DEF Detach, K
      <4>2. Live' = <<>> /\ Stray' = Live /\ Stray = <<>> BY <1>9, <3>2, <4>1 DEF Live, Stray
      <4>. QED BY <1>3, <4>2, ConcatEmptySeq
    <3>. QED BY <3>1, <3>2
  <2>2. Pipe' = ((Stray \o Live) \o <<>>) \o <<>> BY <1>9, <2>1 DEF Pipe
  <2>3. Pipe' = Stray \o Live BY <1>3, <2>2, ConcatEmptySeq
  <2>4. \E k \in 0..Len(Pipe) : Pipe' = SubSeq(Pipe, 1, k)
    <3>1. PICK t \in Seq(Jobs) : t = Stray \o Live BY <1>3
    <3>2. Pipe = t \o queue BY <3>1 DEF Pipe
    <3>3. \E k \in 0..Len(t \o queue) : t = SubSeq(t \o queue, 1, k) BY <1>3, FrontIsLeft
    <3>4. Pipe' = t BY <2>3, <3>1
    <3>. QED BY <3>2, <3>3, <3>4
  <2>. QED BY <1>4, <1>9, <2>4 DEF Abstractly, Loses
<1>10. CASE Reopen
  <2>0. task # "running" /\ task' = "running" /\ queue' = <<>> /\ op' = op
    BY <1>1, <1>10 DEF Reopen, Alive
  <2>1. op["live"] = NoOp /\ op["stray"] = NoOp /\ queue = <<>>
    BY <1>0, <1>1, <2>0 DEF Alive, Begins
  <2>2. Stray = <<>> /\ Live = <<>> /\ Stray' = <<>> /\ Live' = <<>>
    BY <2>0, <2>1 DEF Stray, Live
  <2>3. Pipe = <<>> /\ Pipe' = <<>> BY <1>3, <2>0, <2>1, <2>2, ConcatEmptySeq DEF Pipe
  <2>4. F' = [n \in Name |-> NoData] BY <1>10 DEF Reopen, F
  <2>. QED BY <2>3, <2>4 DEF Abstractly, Wipes
<1>11. CASE Recv
  <2>1. PICK q : q = [job |-> Head(queue), stage |-> "start", fd |-> NoInode] OBVIOUS
  <2>2. op' = [op EXCEPT !["live"] = q] /\ q.job = Head(queue) BY <1>11, <2>1 DEF Recv
  <2>3. Head(queue) \in Jobs /\ Tail(queue) \in Seq(Jobs) /\ queue = <<Head(queue)>> \o Tail(queue)
    BY <1>3, <1>11 DEF Recv
  <2>4. q \in Ops BY <2>1, <2>3 DEF Ops
  <2>5. Stray' = Stray /\ Live' = <<Head(queue)>> /\ Live = <<>>
    BY <1>2, <1>11, <2>2, <2>4, ContentAssumption DEF Recv, Stray, Live, K
  <2>6. Pipe' = (Stray \o <<Head(queue)>>) \o Tail(queue) BY <1>11, <2>5 DEF Recv, Pipe
  <2>7. Pipe = Stray \o queue BY <1>3, <2>5, ConcatEmptySeq DEF Pipe
  <2>8. Pipe' = Pipe
    <3>1. <<Head(queue)>> \in Seq(Jobs) BY <2>3
    <3>. QED BY <1>3, <2>3, <2>6, <2>7, <3>1, ConcatAssociative
  <2>. QED BY <1>4, <1>11, <2>8 DEF Recv, Abstractly, Nothing
<1>12. CASE \E k \in K : FileStep(k) BY <1>0, <1>1, <1>12, FileStepAbstractly
<1>13. CASE Unblock BY <1>1, <1>6, <1>13 DEF Unblock, TypeOK
<1>. QED BY <1>0, <1>6, <1>7, <1>8, <1>9, <1>10, <1>11, <1>12, <1>13
         DEF Steps, SendsJob, TaskStep, K, Send, SendFull, Shutdown, Drained, Drop, TaskEnds, TaskDies

\* What happens abstractly is a step of OrderedFiles, or a stutter.
LEMMA AbstractlyIsOrdered == Abstractly => [Ordered!Next]_Ordered!orderedVars
BY DEF Abstractly, Accepts, Applies, Fails, Loses, Wipes, Nothing, Pipe, Stray, Live, F, Jobs,
       Ordered!Next, Ordered!orderedVars, Ordered!Accept, Ordered!Apply, Ordered!Fail,
       Ordered!Lose, Ordered!Wipe

LEMMA InitIsOrdered == Init => Ordered!Init
<1>. SUFFICES ASSUME Init PROVE Ordered!Init OBVIOUS
<1>1. Stray = <<>> /\ Live = <<>> /\ queue = <<>> BY DEF Init, Stray, Live
<1>2. Pipe = <<>> BY <1>1, ConcatEmptySeq, EmptySeq DEF Pipe
<1>3. F = [n \in Name |-> NoData] BY DEF Init, F
<1>. QED BY <1>2, <1>3 DEF Ordered!Init, Pipe, Stray, Live, F

LEMMA StepIsOrdered ==
    WInv /\ WInv' /\ [Next]_allvars => [overtaken' \/ Ordered!Next]_Ordered!orderedVars
<1>1. WInv /\ WInv' /\ Next /\ ~overtaken' => [Ordered!Next]_Ordered!orderedVars
  BY StepAbstractly, AbstractlyIsOrdered
<1>2. UNCHANGED allvars => UNCHANGED Ordered!orderedVars
  BY DEF allvars, vars, disk, Ordered!orderedVars
<1>. QED BY <1>1, <1>2

\* Jobs take effect whole, one at a time and in the order they were accepted, and
\* a task that dies or is aborted only loses the last ones (writer.rs:95-207);
\* until a job left behind in the blocking pool runs beside its successor's.
THEOREM WriterKeepsOrder == Spec => ImplementsOrderedFiles
BY InitWInv, NextWInv, InitIsOrdered, StepIsOrdered, PTL DEF Spec, ImplementsOrderedFiles
====
