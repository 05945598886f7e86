---- MODULE ChannelFiles ----
(***************************************************************************)
(* What a channel's packager promises of the files it leaves behind: one   *)
(* generation after the other, each an init.mp4, numbered segments and the *)
(* manifests that list the last Keep of them, changed by jobs that take    *)
(* effect one at a time.  DashPackager implements this specification;      *)
(* Cache puts the janitor beside it.                                       *)
(***************************************************************************)
EXTENDS DirectoryJobs

CONSTANTS Lag,      \* jobs that may be outstanding when the packager goes on
          MaxBatch, \* bound on the segments of one call
          MaxGen,   \* bound on generations
          FirstGen, \* the number of a packager's first generation
          LastSeg,  \* bound on the segment numbers of each generation
          MayFail   \* whether a file operation may fail

ASSUME FilesAssumption ==
    /\ Lag \in Nat /\ MaxBatch \in Nat /\ MaxGen \in Nat /\ MayFail \in BOOLEAN
    /\ FirstGen \subseteq 1..MaxGen /\ LastSeg \in [1..MaxGen -> 0..MaxSeg]

VARIABLES
    dir,  \* the channel directory
    jobs, \* the jobs that have not taken effect
    feed  \* the packager: its generation, whether it has an init.mp4, its next segment

fileVars == <<dir, jobs, feed>>

Off == [live |-> FALSE, gen |-> 0, ready |-> FALSE, next |-> 1]
New(g) == [Off EXCEPT !.live = TRUE, !.gen = g]

Init == dir = EmptyDir /\ jobs = <<>> /\ feed = Off

\* The first segment kept when next is the number to come, and those kept.
First(next) == IF next > Keep THEN next - Keep ELSE 1
Window(next) == [i \in 1..(next - First(next)) |-> First(next) + i - 1]

\* The directory is wiped, file by file, before a packager has the channel.
Wipe ==
    /\ ~feed.live /\ jobs = <<>>
    /\ dir' \in Fewer(dir)
    /\ UNCHANGED <<jobs, feed>>

\* A packager has the channel: nothing is left in its directory, or what could
\* not be removed, a manifest of an earlier generation included.
Open ==
    /\ ~feed.live /\ jobs = <<>>
    /\ \E g \in FirstGen : feed' = New(g) /\ dir.mpd.gen < g
    /\ \/ Swept(dir) /\ dir' = EmptyDir
       \/ MayFail /\ ~Swept(dir) /\ dir' = [dir EXCEPT !.lost = TRUE]
    /\ UNCHANGED jobs

Goes == feed.live /\ Len(jobs) <= Lag

\* Both codecs are known: init.mp4.
Prepare ==
    /\ Goes /\ ~feed.ready
    /\ feed' = [feed EXCEPT !.ready = TRUE]
    /\ jobs' = Append(jobs, InitJob(feed.gen)) /\ UNCHANGED dir

Segments(k) == [i \in 1..k |-> SegJob(feed.gen, feed.next + i - 1)]
Deletes(s) == [i \in DOMAIN s |-> DelSeg(s[i])]
Slides(k) == [i \in 1..(First(feed.next + k) - First(feed.next)) |-> First(feed.next) + i - 1]

\* k segments, the old ones that leave the window, and the manifest.
Add(k) ==
    /\ Goes /\ feed.ready /\ feed.next + k - 1 <= LastSeg[feed.gen]
    /\ feed' = [feed EXCEPT !.next = @ + k]
    /\ jobs' = jobs \o Segments(k) \o Deletes(Slides(k))
               \o <<MpdJob(feed.gen, Window(feed.next + k))>>
    /\ UNCHANGED dir

\* A new generation: the window is deleted (twice: by timeline and by number)
\* and the manifest too, and init.mp4 is written anew if it can be.
Rotate(k, ready) ==
    /\ Goes /\ feed.gen < MaxGen
    /\ k > 0 => feed.ready /\ feed.next + k - 1 <= LastSeg[feed.gen]
    /\ LET old == [i \in 1..(feed.next + k - First(feed.next)) |-> First(feed.next) + i - 1] IN
       jobs' = jobs \o Segments(k) \o Deletes(old \o old) \o <<DelMpd>>
               \o (IF ready THEN <<InitJob(feed.gen + 1)>> ELSE <<>>)
    /\ feed' = [New(feed.gen + 1) EXCEPT !.ready = ready]
    /\ UNCHANGED dir

\* The packager is finished or dropped; dropped, it loses its last jobs.
End ==
    /\ feed.live /\ Len(jobs) <= Lag
    /\ feed' = Off
    /\ jobs' \in {jobs} \cup {SubSeq(jobs, 1, k) : k \in {0, 1} \cap 0..Len(jobs)}
    /\ UNCHANGED dir

Do ==
    /\ jobs # <<>>
    /\ dir' = After(dir, Head(jobs)) /\ jobs' = Tail(jobs)
    /\ UNCHANGED feed

Fail ==
    /\ MayFail /\ jobs # <<>>
    /\ dir' = [dir EXCEPT !.lost = TRUE] /\ jobs' = Tail(jobs)
    /\ UNCHANGED feed

FilesNext ==
    \/ Wipe \/ Open \/ Prepare \/ End \/ Do \/ Fail
    \/ \E k \in 1..MaxBatch : Add(k)
    \/ \E k \in 0..MaxBatch, ready \in BOOLEAN : Rotate(k, ready)

FilesSpec == Init /\ [][FilesNext]_fileVars
====
