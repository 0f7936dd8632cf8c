---------------------------- MODULE AudioMixing ----------------------------
(* modules/audio_extractor.py and modules/audio_mixer.py.  The workers of the *)
(* pipeline extract the audio of their chunks and mix the dubbing into it, in *)
(* any order; the end of the last mix is kept to fade the next one in.  Both  *)
(* modules keep their objects over the lives of the pipeline, chunk numbers   *)
(* begin anew in each, and a worker may outlive the join of its stop.        *)
EXTENDS Integers

CONSTANTS
    Mixers,         \* worker threads
    MaxMixLives,    \* lives of the pipeline (bound)
    MaxMixIndex     \* number of a life's last chunk (bound)

ASSUME MixAssumption == MaxMixLives \in Nat /\ MaxMixIndex \in Nat

VARIABLES
    mixlife,         \* lives started so far
    mixrunning,      \* the current one is not stopped
    upcoming,        \* number of the next chunk of the input
    mixers,          \* per worker: its step, chunk, and whether that has audio
    audio_files,     \* the numbers that have a file in temp_audio
    _last_chunk_index,
    _prev_end_sample, \* the chunk whose end it is, NoMix for None
    blend            \* history: the last two chunks that were faded into each
                     \* other, <<>> before

amvars == <<mixlife, mixrunning, upcoming, mixers, audio_files,
            _last_chunk_index, _prev_end_sample, blend>>
crossfade   == <<_last_chunk_index, _prev_end_sample, blend>>

MixNumbers == 0 .. MaxMixIndex
MixChunks  == [life : 1 .. MaxMixLives, number : MixNumbers]
NoMix    == [life |-> 0, number |-> -1]
IdleMixer    == [at |-> "idle", chunk |-> NoMix, audio |-> FALSE]

AMInit ==
    /\ mixlife = 0 /\ mixrunning = FALSE /\ upcoming = 0
    /\ mixers = [w \in Mixers |-> IdleMixer]
    /\ audio_files = {}
    /\ _last_chunk_index = -1 /\ _prev_end_sample = NoMix
    /\ blend = <<>>

(* start() of both modules: the state of the cross-fade stays.  The extractor *)
(* probes the machine, makes its directory and runs, whatever it has found.  *)
ExtractorStart == mixrunning' = TRUE

MixStart ==
    /\ ~mixrunning /\ mixlife < MaxMixLives
    /\ mixlife' = mixlife + 1 /\ ExtractorStart
    /\ upcoming' = 0
    /\ UNCHANGED <<mixers, audio_files, crossfade>>

(* stop() of both: the files go, also those a worker is about to read.       *)
AudioRemoved == audio_files' = {}

MixStop ==
    /\ mixrunning /\ mixrunning' = FALSE
    /\ AudioRemoved
    /\ UNCHANGED <<mixlife, upcoming, mixers, crossfade>>

----------------------------------------------------------------------------
(* One chunk through the two modules.                                       *)
TakeChunk(w) ==
    /\ mixrunning /\ mixers[w].at = "idle" /\ upcoming \in MixNumbers
    /\ mixers' = [mixers EXCEPT ![w] = [IdleMixer EXCEPT !.at = "extract",
                        !.chunk = [life |-> mixlife, number |-> upcoming]]]
    /\ upcoming' = upcoming + 1
    /\ UNCHANGED <<mixlife, mixrunning, audio_files, crossfade>>

(* FFmpegWrapper.run_command raises when the pool has no slot for 30 s, when *)
(* FFmpeg fails, and after the extractor's 5 s.                             *)
CommandWorks == BOOLEAN

(* The extractor catches each and leaves the chunk without audio.            *)
Extract(w) ==
    /\ mixers[w].at = "extract"
    /\ \E works \in CommandWorks :
        /\ mixers' = [mixers EXCEPT ![w].at = "mix", ![w].audio = works]
        /\ audio_files' = IF works THEN audio_files \cup {mixers[w].chunk.number}
                                   ELSE audio_files
    /\ UNCHANGED <<mixlife, mixrunning, upcoming, crossfade>>

HasAudio(w) == mixers[w].audio /\ mixers[w].chunk.number \in audio_files

(* The chunk goes on with its mix, the original audio, or none.             *)
Finishes(w) == mixers' = [mixers EXCEPT ![w] = IdleMixer]

(* No audio, or none left: the chunk goes on as it is.                       *)
NothingToMix(w) ==
    /\ mixers[w].at = "mix" /\ ~HasAudio(w)
    /\ Finishes(w)
    /\ UNCHANGED <<mixlife, mixrunning, upcoming, audio_files, crossfade>>

(* No dubbing: the original at its volume, past the cross-fade         *)
MixUndubbed(w) ==
    /\ mixers[w].at = "mix" /\ HasAudio(w)
    /\ Finishes(w)
    /\ UNCHANGED <<mixlife, mixrunning, upcoming, audio_files, crossfade>>

(* With a dubbing the samples are read and added; reading may fail.          *)
MixDubbed(w) ==
    /\ mixers[w].at = "mix" /\ HasAudio(w)
    /\ mixers' = [mixers EXCEPT ![w].at = "fade"] \/ Finishes(w)
    /\ UNCHANGED <<mixlife, mixrunning, upcoming, audio_files, crossfade>>

(* Under _mix_lock: the successor of the last chunk is faded in over its end *)
(* and leaves its own; any other resets the cross-fade, and one that is      *)
(* ahead becomes the last.                                                  *)
InOrder(w) == mixers[w].chunk.number = _last_chunk_index + 1

OutOfOrder_KeepsEnd(w) ==
    /\ _prev_end_sample' = _prev_end_sample
    /\ _last_chunk_index' = IF mixers[w].chunk.number > _last_chunk_index
                            THEN mixers[w].chunk.number ELSE _last_chunk_index
OutOfOrder(w) ==
    /\ _prev_end_sample' = NoMix
    /\ _last_chunk_index' = IF mixers[w].chunk.number > _last_chunk_index
                            THEN mixers[w].chunk.number ELSE _last_chunk_index

Crossfade(w) ==
    /\ mixers[w].at = "fade"
    /\ mixers' = [mixers EXCEPT ![w].at = "write"]
    /\ \/ /\ InOrder(w)
          /\ blend' = IF _prev_end_sample = NoMix THEN blend
                      ELSE <<_prev_end_sample, mixers[w].chunk>>
          /\ _prev_end_sample' = mixers[w].chunk
          /\ _last_chunk_index' = mixers[w].chunk.number
       \/ /\ ~InOrder(w)
          /\ OutOfOrder(w)
          /\ UNCHANGED blend
    /\ UNCHANGED <<mixlife, mixrunning, upcoming, audio_files>>

(* The mix is written after the lock; when that fails the original goes on,  *)
(* and the end kept for the next chunk is of a mix nobody hears.             *)
WriteMix(w) ==
    /\ mixers[w].at = "write"
    /\ Finishes(w)
    /\ UNCHANGED <<mixlife, mixrunning, upcoming, audio_files, crossfade>>

AMNext ==
    \/ MixStart \/ MixStop
    \/ \E w \in Mixers : \/ TakeChunk(w) \/ Extract(w) \/ NothingToMix(w)
                         \/ MixUndubbed(w) \/ MixDubbed(w)
                         \/ Crossfade(w) \/ WriteMix(w)

AMSpec == AMInit /\ [][AMNext]_amvars
----------------------------------------------------------------------------
AMTypeOK ==
    /\ mixlife \in 0 .. MaxMixLives /\ mixrunning \in BOOLEAN
    /\ upcoming \in 0 .. MaxMixIndex + 1
    /\ mixers \in [Mixers -> [at : {"idle", "extract", "mix", "fade", "write"},
                              chunk : MixChunks \cup {NoMix}, audio : BOOLEAN]]
    /\ audio_files \subseteq MixNumbers
    /\ _last_chunk_index \in -1 .. MaxMixIndex
    /\ _prev_end_sample \in MixChunks \cup {NoMix}
    /\ blend \in (MixChunks \X MixChunks) \cup {<<>>}

(* A chunk is only ever faded in over the end of the chunk numbered just     *)
(* before it, however the workers overtake each other, chunks without        *)
(* dubbing pass by, and workers of an older life come late                   *)
(* (audio_mixer.py:182-220).  That it is the same life's chunk does not hold *)
(* when the first chunks of a life are undubbed.                            *)
FadesJoinNeighbours ==
    blend # <<>> => blend[2].number = blend[1].number + 1
=============================================================================
