---- MODULE DirectoryJobs ----
(***************************************************************************)
(* The files of a channel directory and the jobs that change them: what    *)
(* DashPackager hands to its writer, and what ChannelFiles promises of it. *)
(***************************************************************************)
EXTENDS Naturals, Sequences

CONSTANTS WindowSegments, \* cache.window_segments
          MaxSeg          \* bound on segment numbers

ASSUME DirectoryAssumption == WindowSegments \in Nat \ {0} /\ MaxSeg \in Nat \ {0}

Grace == 2                       \* PRUNE_GRACE_SEGMENTS
Keep  == WindowSegments + Grace

\* Files carry the generation they belong to; 0 and NoMpd stand for no file.
\* lost: they are not, or no longer, what the jobs have made of them: since the
\* directory was wiped an operation has failed, or a new wipe has begun.
NoMpd == [gen |-> 0, segs |-> <<>>]
EmptyDir == [init |-> 0, mpd |-> NoMpd, seg |-> [n \in 1..MaxSeg |-> 0], lost |-> FALSE]

InitJob(g)   == [kind |-> "init", gen |-> g]
SegJob(g, n) == [kind |-> "seg", gen |-> g, n |-> n]
MpdJob(g, s) == [kind |-> "mpd", gen |-> g, segs |-> s]
DelSeg(n)    == [kind |-> "del_seg", n |-> n]
DelMpd       == [kind |-> "del_mpd"]

After(d, job) ==
    CASE job.kind = "init"    -> [d EXCEPT !.init = job.gen]
      [] job.kind = "seg"     -> [d EXCEPT !.seg[job.n] = job.gen]
      [] job.kind = "mpd"     -> [d EXCEPT !.mpd = [gen |-> job.gen, segs |-> job.segs]]
      [] job.kind = "del_seg" -> [d EXCEPT !.seg[job.n] = 0]
      [] job.kind = "del_mpd" -> [d EXCEPT !.mpd = NoMpd]

\* A wipe removes the files one by one, in the order the directory lists them
\* (any order, here); what it cannot remove it leaves.
Fewer(d) ==
    LET less == {After(d, job) : job \in {DelMpd} \cup {DelSeg(n) : n \in 1..MaxSeg}}
                \cup {[d EXCEPT !.init = 0]}
    IN  {[e EXCEPT !.lost = TRUE] : e \in less \ {d}}
Swept(d) == [d EXCEPT !.lost = FALSE] = EmptyDir
====
