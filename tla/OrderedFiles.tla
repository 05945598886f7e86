---- MODULE OrderedFiles ----
(***************************************************************************)
(* What a packager relies on when it hands files to its disk writer: the   *)
(* jobs it is given take effect one at a time, whole, and in the order     *)
(* they were accepted; a job may fail, and dropping the writer may lose    *)
(* the last ones.  PackagerWriter implements this specification.           *)
(***************************************************************************)
EXTENDS Sequences, Naturals

CONSTANTS Name, Data, NoData

VARIABLES
    files,  \* the content of each file of the channel directory, or NoData
    pipe    \* the accepted jobs that have not taken effect

Write(n, d) == [op |-> "write", name |-> n, data |-> d]
Delete(n)   == [op |-> "delete", name |-> n, data |-> NoData]
Jobs        == {Write(n, d) : n \in Name, d \in Data} \cup {Delete(n) : n \in Name}

\* A delete leaves NoData, a write its data.
After(fs, job) == [fs EXCEPT ![job.name] = job.data]

Init == files = [n \in Name |-> NoData] /\ pipe = <<>>

Accept(job) == pipe' = Append(pipe, job) /\ UNCHANGED files
Apply == pipe # <<>> /\ files' = After(files, Head(pipe)) /\ pipe' = Tail(pipe)
Fail  == pipe # <<>> /\ pipe' = Tail(pipe) /\ UNCHANGED files
Lose  == \E k \in 0..Len(pipe) : pipe' = SubSeq(pipe, 1, k) /\ UNCHANGED files
Wipe  == pipe = <<>> /\ files' = [n \in Name |-> NoData] /\ UNCHANGED pipe

Next == (\E job \in Jobs : Accept(job)) \/ Apply \/ Fail \/ Lose \/ Wipe

orderedVars == <<files, pipe>>
Spec == Init /\ [][Next]_orderedVars
====
