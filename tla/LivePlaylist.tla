---------------------------- MODULE LivePlaylist ----------------------------
(***************************************************************************)
(* The two playlists a browser plays side by side: stream.m3u8, which        *)
(* modules/outputs/hls_output.py publishes, and subs.m3u8, which             *)
(* modules/subtitle_generator_pkg keeps next to it.                          *)
(*                                                                          *)
(* Subtitle fragments are named after the number of the chunk; the parallel  *)
(* workers bring them in any order and the generator puts them into order.   *)
(* Video segments are named after a counter of the output, which counts the  *)
(* chunks that the output thread brings it.  The two agree only as long as   *)
(* every number a chunk has been given uses up one number of the output.     *)
(***************************************************************************)
EXTENDS Naturals, Integers, FiniteSets, Sequences

CONSTANTS MaxChunks,     \* bound: chunks of one life
          MaxLiveLives,  \* bound: starts of the pipeline
          InFlight,      \* bound: how far the workers are ahead of the output thread
          ListSize,      \* HLSOutput._list_size
          SubListSize,   \* SubtitleGenerator._list_size
          MaxPending,    \* SubtitleGenerator._MAX_PENDING
          MaxMishaps,    \* bound: how many of the following happen
          Mishaps        \* "lost", "skipped", "no_file", "encode", "variant",
                         \* "publish", "raise", "reconfigure", "fragment", "list"

ASSUME LivePlaylistAssumption ==
    /\ {MaxChunks, InFlight, MaxPending, MaxMishaps} \subseteq Nat
    /\ {MaxLiveLives, ListSize, SubListSize} \subseteq Nat \ {0}

Numbers  == 0..(MaxChunks - 1)
Torn     == MaxChunks      \* what a segment file holds that a failed encode left

VARIABLES
    live_life,     \* which start of the pipeline this is
    abr,      \* _abr_enabled
    wired,    \* _subtitle_resync_callback is set: by create_app_context for the outputs
              \* it makes, and not for one that POST /outputs adds later
    stage,    \* the chunks: "new", "through" the modules, "lost" before them
    next,     \* the number the output thread brings next
    hls_at,       \* where write() is: "idle", "trim", "publish", "resync", "down" (reconnecting)
    seg,      \* HLSOutput._segment_index
    segments,     \* the files seg_*.ts: index -> chunk
    vdisk,    \* the indices in the directory of another rendition
    win,      \* the indices stream.m3u8 names
    vwin,     \* the indices the rendition's playlist names
    last_index,     \* SubtitleGenerator._last_chunk_index
    subs_pending,  \* _pending
    frags,    \* _fragments: chunk numbers, the oldest first
    vtt,      \* the files subs_seg_*.vtt
    subs,     \* the indices subs.m3u8 names
    asked_of,    \* history: the greatest number the generator was given since it began anew
    mishaps   \* history: what has happened, in order; also "jump", when the generator
              \* goes on without the numbers before

hlsvars == <<hls_at, seg, segments, vdisk, win, vwin>>
subvars == <<last_index, subs_pending, frags, vtt, subs, asked_of>>
lvars   == <<live_life, abr, wired, stage, next, hls_at, seg, segments, vdisk, win, vwin,
             last_index, subs_pending, frags, vtt, subs, asked_of, mishaps>>

Happened(m) == \E i \in 1..Len(mishaps) : mishaps[i] = m
Mishap(m)   == m \in Mishaps /\ Len(mishaps) < MaxMishaps /\ mishaps' = Append(mishaps, m)
LastListed(S)   == {x \in S : Cardinality({y \in S : y > x}) < ListSize}
Fragments   == {frags[i] : i \in 1..Len(frags)}

LTypeOK ==
    /\ live_life \in 1..MaxLiveLives /\ abr \in BOOLEAN /\ wired \in BOOLEAN
    /\ stage \in [Numbers -> {"new", "through", "lost"}] /\ next \in 0..MaxChunks
    /\ hls_at \in {"idle", "trim", "publish", "resync", "down"} /\ seg \in 0..MaxChunks
    /\ DOMAIN segments \subseteq Numbers /\ \A i \in DOMAIN segments : segments[i] \in Numbers \cup {Torn}
    /\ vdisk \subseteq Numbers /\ win \subseteq Numbers /\ vwin \subseteq Numbers
    /\ last_index \in Numbers \cup {-1} /\ subs_pending \subseteq Numbers /\ asked_of \in Numbers \cup {-1}
    /\ frags \in Seq(Numbers) /\ Len(frags) <= SubListSize
    /\ vtt \subseteq Numbers /\ subs \subseteq Numbers

NoFiles == [i \in {} |-> Torn]

LInit ==
    /\ live_life = 1 /\ abr \in BOOLEAN /\ wired \in BOOLEAN
    /\ stage = [c \in Numbers |-> "new"] /\ next = 0
    /\ hls_at = "idle" /\ seg = 0 /\ segments = NoFiles /\ vdisk = {} /\ win = {} /\ vwin = {}
    /\ last_index = -1 /\ subs_pending = {} /\ frags = <<>> /\ vtt = {} /\ subs = {} /\ asked_of = -1
    /\ mishaps = <<>>

----------------------------------------------------------------------------
(* The subtitle generator, in the worker threads, under its own lock.        *)

(* add_fragment for each number of a run: the rolling list.                  *)
Extended(fs, run) ==
    LET all == fs \o run
    IN  SubSeq(all, IF Len(all) > SubListSize THEN Len(all) - SubListSize + 1 ELSE 1, Len(all))

(* _drain_pending_locked: the buffered successors, as far as they go on      *)
(* without a gap.                                                           *)
DrainedTo_NoDrain(c) == c
DrainedTo(c) == CHOOSE k \in c..(MaxChunks - 1) :
                  /\ \A j \in (c + 1)..k : j \in subs_pending
                  /\ (k + 1) \notin subs_pending

(* _do_process: a stale number is ignored, a later one waits for the ones    *)
(* before it, unless too many are missing.                                  *)
TooLate(c)   == c < last_index + 1
TooFar(c)    == c > last_index + 1 + MaxPending
MustWait(c)  == c > last_index + 1 /\ ~TooFar(c)

(* _write_chunk_locked for each chunk of the run that begins at c: the last    *)
(* number is taken first, then the fragment is written and listed ...        *)
Ascending(s) == \A i, j \in DOMAIN s : i < j => s[i] < s[j]
SomeOf(c, k) == {s \in UNION {[1..n -> c..k] : n \in 0..(k - c)} : Ascending(s)}

WriteRun(c, k) ==
    /\ frags' = Extended(frags, [i \in 1..(k - c + 1) |-> c + i - 1])
    /\ vtt' = vtt \cup (c..k)
    /\ mishaps' = IF TooFar(c) THEN Append(mishaps, "jump") ELSE mishaps

(* ... or write_fragment cannot write some of them: these are not listed, and  *)
(* a file that was opened stays, with a part of the fragment.                *)
WriteRunInPart(c, k) ==
    /\ Mishap("fragment")
    /\ \E run \in SomeOf(c, k), opened \in SUBSET (c..k) :
          /\ {run[i] : i \in DOMAIN run} \subseteq opened
          /\ frags' = Extended(frags, run)
          /\ vtt' = vtt \cup opened

Ready(c) == stage[c] = "new" /\ c < next + InFlight

Subtitle(c) ==
    /\ Ready(c)
    /\ stage' = [stage EXCEPT ![c] = "through"]
    /\ asked_of' = IF c > asked_of THEN c ELSE asked_of
    /\ \/ TooLate(c)  /\ UNCHANGED <<last_index, subs_pending, frags, vtt, mishaps>>
       \/ MustWait(c) /\ subs_pending' = subs_pending \cup {c} /\ UNCHANGED <<last_index, frags, vtt, mishaps>>
       \/ /\ ~TooLate(c) /\ ~MustWait(c)
          /\ last_index' = DrainedTo(c)
          /\ subs_pending' = subs_pending \ ((c + 1)..DrainedTo(c))
          /\ WriteRun(c, DrainedTo(c)) \/ WriteRunInPart(c, DrainedTo(c))
    /\ UNCHANGED <<live_life, abr, wired, next, hlsvars, subs>>

(* A chunk that passes the modules without the generator: it is disabled,    *)
(* failed, or behind an open circuit.                                       *)
SubtitleSkipped(c) ==
    /\ Ready(c) /\ Mishap("skipped")
    /\ stage' = [stage EXCEPT ![c] = "through"]
    /\ UNCHANGED <<live_life, abr, wired, next, hlsvars, subvars>>

(* A number that was given to a chunk which never reaches the modules: the    *)
(* chunk queue was full.                                                    *)
ChunkLost(c) ==
    /\ Ready(c) /\ Mishap("lost")
    /\ stage' = [stage EXCEPT ![c] = "lost"]
    /\ UNCHANGED <<live_life, abr, wired, next, hlsvars, subvars>>

(* rewrite_playlist: the video window, as far as there are fragments for it;  *)
(* all fragments when no video playlist lists anything, or it cannot be read.  *)
(* When the new list cannot be written the old one stays.                    *)
Listed_InMemoryOnly(fs, files) == IF win = {} THEN fs ELSE win \cap fs
Listed(fs, files) == IF win = {} THEN fs ELSE {i \in win : i \in fs \cup files}

Rewritten == subs' = Listed(Fragments, vtt) /\ UNCHANGED mishaps
NotRewritten == Mishap("list") /\ subs' \in {subs, Fragments}

(* configure() with another chunk duration, from the server's thread.        *)
Reconfigure ==
    /\ Mishap("reconfigure")
    /\ last_index' = -1 /\ subs_pending' = {} /\ frags' = <<>> /\ asked_of' = -1
    /\ subs' \in {Listed({}, vtt), {}, subs}
    /\ UNCHANGED <<live_life, abr, wired, stage, next, hlsvars, vtt>>

----------------------------------------------------------------------------
(* The output thread: HLSOutput.write() for one chunk after the other.       *)
Passed == next' = next + 1

OutputPasses ==
    /\ hls_at \in {"idle", "down"} /\ next < MaxChunks /\ stage[next] = "lost"
    /\ Passed
    /\ UNCHANGED <<live_life, abr, wired, stage, hlsvars, subvars, mishaps>>

(* A chunk that takes too long is given up, and may be subtitled yet.         *)
OutputGivesUp ==
    /\ hls_at \in {"idle", "down"} /\ next < MaxChunks /\ stage[next] = "new"
    /\ Mishap("lost")
    /\ Passed
    /\ UNCHANGED <<live_life, abr, wired, stage, hlsvars, subvars>>

(* Without a video file write() returns and uses no number.                  *)
WriteWithoutFile ==
    /\ hls_at = "idle" /\ next < MaxChunks /\ stage[next] = "through"
    /\ Mishap("no_file")
    /\ Passed
    /\ UNCHANGED <<live_life, abr, wired, stage, hlsvars, subvars>>

(* The segment is copied, muxed or encoded, with a second try on the CPU, and *)
(* each other rendition made from it.                                       *)
Stored(i, c) == segments' = [j \in DOMAIN segments \cup {i} |-> IF j = i THEN c ELSE segments[j]]

WriteSegment ==
    /\ hls_at = "idle" /\ next < MaxChunks /\ stage[next] = "through"
    /\ hls_at' = "trim"
    /\ Stored(seg, next)
    /\ \/ vdisk' = (IF abr THEN vdisk \cup {seg} ELSE vdisk) /\ UNCHANGED mishaps
       \/ abr /\ Mishap("variant") /\ UNCHANGED vdisk
    /\ UNCHANGED <<live_life, abr, wired, stage, next, seg, win, vwin, subvars>>

(* No slot in the FFmpeg pool, an exit code, a timeout, or an exception: the  *)
(* number is used up all the same.  What FFmpeg has written stays.           *)
NumberUsed == seg + 1

WriteFails ==
    /\ hls_at = "idle" /\ next < MaxChunks /\ stage[next] = "through"
    /\ Mishap("encode")
    /\ Passed /\ seg' = NumberUsed
    /\ Stored(seg, Torn) \/ UNCHANGED segments
    /\ UNCHANGED <<live_life, abr, wired, stage, hls_at, vdisk, win, vwin, subvars>>

(* _update_manifest: the oldest files beyond list_size go first ...          *)
TrimSegments ==
    /\ hls_at = "trim"
    /\ hls_at' = "publish"
    /\ segments'  = [i \in LastListed(DOMAIN segments) |-> segments[i]]
    /\ vdisk' = vdisk \ (DOMAIN segments \ LastListed(DOMAIN segments))
    /\ UNCHANGED <<live_life, abr, wired, stage, next, seg, win, vwin, subvars, mishaps>>

(* ... then each playlist is replaced as a whole, or an error is logged ...   *)
PublishPlaylists ==
    /\ hls_at = "publish"
    /\ hls_at' = "resync"
    /\ \/ win' = DOMAIN segments /\ vwin' = vdisk /\ UNCHANGED mishaps
       \/ Mishap("publish") /\ UNCHANGED <<win, vwin>>
    /\ UNCHANGED <<live_life, abr, wired, stage, next, seg, segments, vdisk, subvars>>

(* ... and the generator's sync_playlist is called, if the output knows it,    *)
(* after which write() is done.                                             *)
ResyncSubtitles ==
    /\ hls_at = "resync"
    /\ hls_at' = "idle" /\ Passed /\ seg' = NumberUsed
    /\ \/ wired /\ (Rewritten \/ NotRewritten)
       \/ ~wired /\ UNCHANGED <<subs, mishaps>>
    /\ UNCHANGED <<live_life, abr, wired, stage, segments, vdisk, win, vwin,
                   last_index, subs_pending, frags, vtt, asked_of>>

(* An exception that leaves write() (the encoder's configuration before the   *)
(* segment, its size after the lists): the composite stops writing to this    *)
(* output ...                                                               *)
WriteRaises ==
    /\ hls_at \in {"idle", "resync"} /\ next < MaxChunks /\ stage[next] = "through"
    /\ Mishap("raise")
    /\ hls_at' = "down" /\ Passed
    /\ subs' \in {subs} \cup IF hls_at = "resync" /\ wired THEN {Listed(Fragments, vtt), Fragments} ELSE {}
    /\ UNCHANGED <<live_life, abr, wired, stage, seg, segments, vdisk, win, vwin,
                   last_index, subs_pending, frags, vtt, asked_of>>

ChunkForNobody ==
    /\ hls_at = "down" /\ next < MaxChunks /\ stage[next] = "through"
    /\ Passed
    /\ UNCHANGED <<live_life, abr, wired, stage, hlsvars, subvars, mishaps>>

(* HLSOutput.start(): old files go, the lists are empty, numbers begin at 0.  *)
Emptied == seg' = 0 /\ segments' = NoFiles /\ vdisk' = {} /\ win' = {} /\ vwin' = {}

(* ... until its worker has stopped and started it.                          *)
Reconnected ==
    /\ hls_at = "down"
    /\ hls_at' = "idle" /\ Emptied
    /\ UNCHANGED <<live_life, abr, wired, stage, next, subvars, mishaps>>

(* A stop and a start of the pipeline: the generator's files go before the    *)
(* output's, while the video playlist of the earlier life is still there.     *)
StartAgain ==
    /\ hls_at \in {"idle", "down"} /\ live_life < MaxLiveLives
    /\ live_life' = live_life + 1
    /\ stage' = [c \in Numbers |-> "new"] /\ next' = 0
    /\ hls_at' = "idle" /\ Emptied
    /\ last_index' = -1 /\ subs_pending' = {} /\ frags' = <<>> /\ vtt' = {} /\ asked_of' = -1
    /\ \/ subs' = Listed({}, {}) /\ mishaps' = <<>>
       \/ "list" \in Mishaps /\ MaxMishaps > 0 /\ subs' = subs /\ mishaps' = <<"list">>
    /\ UNCHANGED <<abr, wired>>

HlsWrite == \/ OutputPasses \/ OutputGivesUp \/ WriteWithoutFile \/ WriteSegment \/ WriteFails
            \/ TrimSegments \/ PublishPlaylists \/ ResyncSubtitles
            \/ WriteRaises \/ ChunkForNobody

LNext ==
    \/ \E c \in Numbers : Subtitle(c) \/ SubtitleSkipped(c) \/ ChunkLost(c)
    \/ HlsWrite \/ Reconnected \/ Reconfigure \/ StartAgain

LSpec == LInit /\ [][LNext]_lvars

----------------------------------------------------------------------------
(* The generator keeps chunk order ("fragments and the rolling playlist stay   *)
(* in strictly ascending chunk order", _do_process), whichever fragments it    *)
(* could not write; it lists none after the last number, and that one if no    *)
(* fragment failed; and a number that never comes holds it up for no more than *)
(* _MAX_PENDING numbers.                                                     *)
SubtitlesInOrder ==
    /\ Ascending(frags)
    /\ \A i \in 1..Len(frags) : frags[i] <= last_index
    /\ ~Happened("fragment") /\ frags # <<>> => last_index = frags[Len(frags)]
    /\ asked_of <= last_index + 1 + MaxPending
    /\ last_index + 1 \notin subs_pending

(* Both playlists show the same chunks.  A segment that stream.m3u8 names is   *)
(* the chunk of that number, or what a failed encode left, however many        *)
(* encodes failed, as long as each chunk reached the output with its file;     *)
(* unless a list could not be written, subtitles are listed only for video     *)
(* that has been published and, between two chunks, subs.m3u8 names all of the *)
(* video window if the output knows the generator, no encode and no fragment   *)
(* failed and the generator took every chunk, in one configuration; and so     *)
(* does the playlist of every other rendition if none failed.                *)
NumbersAgree == \A m \in {"lost", "no_file", "raise"} : ~Happened(m)
Published == ~Happened("publish") /\ ~Happened("list")
Smooth  == /\ NumbersAgree /\ Published /\ wired
           /\ \A m \in {"skipped", "encode", "reconfigure", "fragment", "jump"} : ~Happened(m)

SubsMatchVideo ==
    /\ NumbersAgree => \A i \in DOMAIN segments : segments[i] \in {i, Torn}
    /\ Published /\ NumbersAgree => \A i \in subs : i < seg + 1
    /\ ~Happened("publish") /\ hls_at # "publish" => win \subseteq DOMAIN segments
    /\ Smooth /\ hls_at = "idle" => subs = win
    /\ Smooth /\ abr /\ ~Happened("variant") /\ hls_at \in {"idle", "resync"} => vwin = win
=============================================================================
