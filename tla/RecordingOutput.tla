-------------------------- MODULE RecordingOutput --------------------------
(***************************************************************************)
(* modules/outputs/recording_output.py: each chunk is copied to a temporary *)
(* file named after its number; stop() hands the list of files to a         *)
(* background thread that joins them into one recording and removes them.   *)
(*                                                                          *)
(* The numbers begin at 0 in every life and the directory is one and the    *)
(* same, so a thread of an earlier life and the writes of a later one can   *)
(* meet on the same names.                                                  *)
(***************************************************************************)
EXTENDS Naturals, FiniteSets

CONSTANTS MaxRecordings, \* bound: calls of start()
          MaxRecChunks   \* bound: chunks of one life

ASSUME RecordingAssumption == {MaxRecordings, MaxRecChunks} \subseteq Nat

RecTakes   == 1..MaxRecordings
RChunks == 1..MaxRecChunks

VARIABLES
    take,     \* which life this is
    running,  \* _running
    writing,  \* the write under way: 0, or the chunk it copies
    saved,    \* _saved_video_paths, as the set of chunk numbers
    dir,      \* the temporary directory: "plain", "listed" (it holds a concat.txt,
              \* which nobody removes), or "gone"
    temp,     \* the temporary files: the life that wrote each one, 0 for none
    jobs,     \* the background threads: position and the list they were given
    result,   \* what the file at output_path holds: a set of <<life, chunk>>
    backups,  \* what earlier results were renamed to hold
    copied,   \* history: how many chunks each life has copied
    met,      \* history: a life has begun before the job of an earlier one was done
    cut       \* history: the lives whose recording FFmpeg did not finish

recvars == <<take, running, writing, saved, dir, temp, jobs, result, backups, copied, met, cut>>

NoJob   == [pc |-> "none", list |-> {}, found |-> {}]
Pending == {t \in RecTakes : jobs[t].pc \notin {"none", "done"}}

RTypeOK ==
    /\ take \in 0..MaxRecordings /\ {running, met} \subseteq BOOLEAN
    /\ dir \in {"plain", "listed", "gone"}
    /\ writing \in 0..MaxRecChunks
    /\ saved \subseteq RChunks
    /\ temp \in [RChunks -> 0..MaxRecordings]
    /\ jobs \in [RecTakes -> [pc : {"none", "backup", "list", "join", "clean", "done"},
                           list : SUBSET RChunks, found : SUBSET RChunks]]
    /\ result \subseteq RecTakes \X RChunks
    /\ backups \subseteq SUBSET (RecTakes \X RChunks)
    /\ copied \in [RecTakes -> 0..MaxRecChunks] /\ cut \subseteq RecTakes

RecInit ==
    /\ take = 0 /\ running = FALSE /\ writing = 0
    /\ saved = {} /\ dir = "plain" /\ temp = [c \in RChunks |-> 0]
    /\ jobs = [t \in RecTakes |-> NoJob]
    /\ result = {} /\ backups = {}
    /\ copied = [t \in RecTakes |-> 0] /\ met = FALSE /\ cut = {}

----------------------------------------------------------------------------
StartTake ==
    /\ ~running /\ writing = 0 /\ take < MaxRecordings
    /\ take' = take + 1 /\ running' = TRUE
    /\ saved' = {}
    /\ met' = (met \/ Pending # {})
    /\ UNCHANGED <<writing, dir, temp, jobs, result, backups, copied, cut>>

(* write(): a look at _running, then the copy, then the list.  A copy that    *)
(* fails, for want of space or of the directory, is reported and leaves no     *)
(* entry.  Only set_output_dir makes the directory, when the program starts.  *)
WriteBegin ==
    /\ running /\ writing = 0 /\ copied[take] < MaxRecChunks
    /\ writing' = copied[take] + 1
    /\ UNCHANGED <<take, running, saved, dir, temp, jobs, result, backups, copied, met, cut>>

WriteCopies ==
    /\ writing # 0
    /\ writing' = 0
    /\ copied' = [copied EXCEPT ![take] = @ + 1]
    /\ \/ dir # "gone" /\ temp' = [temp EXCEPT ![writing] = take] /\ saved' = saved \cup {writing}
       \/ UNCHANGED <<temp, saved>>
    /\ UNCHANGED <<take, running, dir, jobs, result, backups, met, cut>>

(* _cleanup_recording_dir: rmdir, which only removes an empty directory.      *)
AfterCleanup(files) ==
    IF dir = "plain" /\ \A c \in RChunks : files[c] = 0 THEN "gone" ELSE dir

(* stop(): the list is copied and cleared before the thread is started, so   *)
(* that a write which is still under way cannot change what it works on.     *)
(* Without a list there is only the clean-up.                               *)
StopTake ==
    /\ running
    /\ running' = FALSE
    /\ saved' = {}
    /\ IF saved = {} THEN dir' = AfterCleanup(temp) /\ jobs' = jobs
       ELSE /\ jobs' = [jobs EXCEPT ![take] = [pc |-> "backup", list |-> saved, found |-> {}]]
            /\ dir' = dir
    /\ UNCHANGED <<take, writing, temp, result, backups, copied, met, cut>>

(* _do_concat_background: an existing file at output_path is renamed; when    *)
(* that fails it stays, and FFmpeg writes over it (-y) ...                    *)
JobBacksUp(t) ==
    /\ jobs[t].pc = "backup"
    /\ jobs' = [jobs EXCEPT ![t].pc = "list"]
    /\ \/ /\ backups' = IF result = {} THEN backups ELSE backups \cup {result}
          /\ result' = {}
       \/ result # {} /\ UNCHANGED <<result, backups>>
    /\ UNCHANGED <<take, running, writing, saved, dir, temp, copied, met, cut>>

(* ... the names that still exist are listed for FFmpeg (writing concat.txt     *)
(* itself is taken to succeed) ...                                           *)
JobLists(t) ==
    /\ jobs[t].pc = "list"
    /\ jobs' = [jobs EXCEPT ![t].pc = "join",
                            ![t].found = {c \in jobs[t].list : temp[c] # 0}]
    /\ dir' = "listed"
    /\ UNCHANGED <<take, running, writing, saved, temp, result, backups, copied, met, cut>>

(* ... which joins what it finds under them, one file after the other.  When   *)
(* it ends in an error, or is killed after five minutes, what it has written    *)
(* so far stays at output_path, for the next job to back up; when it has not    *)
(* even opened its output, what is there stays as it is ...                     *)
Joined(t, upto) == {<<temp[c], c>> : c \in {d \in jobs[t].found : temp[d] # 0 /\ d <= upto}}

JobJoins(t) ==
    /\ jobs[t].pc = "join"
    /\ jobs' = [jobs EXCEPT ![t].pc = "clean"]
    /\ \/ result' = Joined(t, MaxRecChunks) /\ cut' = cut
       \/ /\ cut' = cut \cup {t}
          /\ \/ \E upto \in 0..MaxRecChunks : result' = Joined(t, upto)
             \/ result' = result
    /\ UNCHANGED <<take, running, writing, saved, dir, temp, backups, copied, met>>

(* ... and in any case the files of the list are removed.                    *)
Removed_AllOfThem(t) == RChunks
Removed(t) == jobs[t].list

JobCleans(t) ==
    /\ jobs[t].pc = "clean"
    /\ jobs' = [jobs EXCEPT ![t].pc = "done"]
    /\ temp' = [c \in RChunks |-> IF c \in Removed(t) THEN 0 ELSE temp[c]]
    /\ dir' = AfterCleanup(temp')
    /\ UNCHANGED <<take, running, writing, saved, result, backups, copied, met, cut>>

RecNext ==
    \/ StartTake \/ WriteBegin \/ WriteCopies \/ StopTake
    \/ \E t \in RecTakes : JobBacksUp(t) \/ JobLists(t) \/ JobJoins(t) \/ JobCleans(t)

RecSpec == RecInit /\ [][RecNext]_recvars

----------------------------------------------------------------------------
(* If every job is done before the next life begins, a recording and a backup *)
(* hold the chunks of one life only, none but those that its list named, and,  *)
(* unless the FFmpeg of that life did not finish, all of them; and every chunk *)
(* that is still listed is on disk.  That is so whatever a write in progress   *)
(* does while stop() runs, and whichever renames and joins fail.               *)
OneLife(rec)  == Cardinality({x[1] : x \in rec}) <= 1
Whole(t, rec) == {x[1] : x \in rec} = {t} =>
                     /\ {x[2] : x \in rec} \subseteq jobs[t].list
                     /\ t \notin cut => {x[2] : x \in rec} = jobs[t].list

RecordingIsWhole ==
    ~met =>
        /\ \A rec \in backups \cup {result} : OneLife(rec) /\ \A t \in RecTakes : Whole(t, rec)
        /\ \A c \in saved : temp[c] = take

(* While a recording runs there is the directory its chunks are copied to      *)
(* ("prepare recording temp dir", set_output_dir).                           *)
RecordingHasDirectory == running => dir # "gone"
=============================================================================
