---------------------------- MODULE Transcription ----------------------------
(* modules/transcriber.py with the result cache of core/cache.py and the     *)
(* model of core/model_cache.py.  The workers of the pipeline transcribe at  *)
(* once; handlers change the language under them, which stops and starts the *)
(* module, and switch the module off and on.                                *)
EXTENDS Naturals

CONSTANTS
    Transcribers,    \* the threads that process chunks
    Audios,          \* contents of audio chunks; equal ones share an entry
    Languages,       \* languages that can be configured
    MaxLanguageChanges,      \* changes of the configuration (bound)
    MaxTranscribed   \* chunks (bound)

VARIABLES
    piped,           \* the pipeline is running
    language,        \* self._language
    whisper,         \* the module's model is there
    whisper_state,   \* self._state; "reloading" between stop() and start()
    whisper_enabled, \* self.enabled
    transcripts,     \* the LRU cache: audio and language of the key, to the
                     \* language of the stored text or "none"
    transcribing,    \* per worker its call: step, audio, key, language the
                     \* model was called with, languages configured meanwhile
    heard,           \* the last answer: language of the text and those
                     \* configured while the chunk was processed
    mixed,           \* some text was stored under another language's key
    effort_spent            \* chunks begun and changes made (for the bounds)

trvars == <<piped, language, whisper, whisper_state, whisper_enabled, transcripts,
            transcribing, heard, mixed, effort_spent>>
moduleState == <<piped, language, whisper, whisper_state, whisper_enabled>>

CacheKeys     == Audios \X Languages
NoCall   == [at |-> "none", audio |-> "none", key |-> "none", used |-> "none", during |-> {}]
Silence  == [text |-> "none", during |-> {}]
NothingCached == [k \in CacheKeys |-> "none"]

TRInit ==
    /\ piped = FALSE
    /\ language \in Languages
    /\ whisper = FALSE /\ whisper_state = "idle" /\ whisper_enabled = TRUE
    /\ transcripts = NothingCached
    /\ transcribing = [w \in Transcribers |-> NoCall]
    /\ heard = Silence /\ mixed = FALSE
    /\ effort_spent = [chunks |-> 0, changes |-> 0]

Nobody == \A w \in Transcribers : transcribing[w].at = "none"

----------------------------------------------------------------------------
(* Life cycle.  start() takes the model from the ModelCache or loads it; if  *)
(* that fails the module disables itself.  stop() drops the model and the    *)
(* transcripts.                                                             *)
Loads(enabled) ==
    \E works \in BOOLEAN :
        /\ whisper' = works
        /\ whisper_state' = IF works THEN "running" ELSE "error"
        /\ whisper_enabled' = (enabled /\ works)

WhisperStart ==
    /\ ~piped /\ piped' = TRUE
    /\ Loads(whisper_enabled)
    /\ UNCHANGED <<language, transcripts, transcribing, heard, mixed, effort_spent>>

Dropped(state) == whisper' = FALSE /\ whisper_state' = state /\ transcripts' = NothingCached

WhisperStop ==
    /\ piped /\ piped' = FALSE
    /\ whisper_state # "reloading" /\ Nobody
    /\ Dropped("idle")
    /\ UNCHANGED <<language, whisper_enabled, transcribing, heard, mixed, effort_spent>>

LanguageChanges ==
    /\ effort_spent.changes < MaxLanguageChanges /\ whisper_state # "reloading"
    /\ effort_spent' = [effort_spent EXCEPT !.changes = @ + 1]
    /\ UNCHANGED <<heard, mixed>>

(* configure(), for a saved configuration: switched off, the module is marked *)
(* disabled, which configure() never takes back; with another language and   *)
(* running it is stopped ...                                                *)
Configure(on, l) ==
    /\ LanguageChanges
    /\ whisper_enabled' = on /\ language' = l
    /\ IF on /\ l # language /\ whisper_state = "running"
       THEN Dropped("reloading")
       ELSE /\ whisper_state' = IF on THEN whisper_state ELSE "disabled"
            /\ UNCHANGED <<whisper, transcripts>>
    /\ transcribing' = [w \in Transcribers |->
                            [transcribing[w] EXCEPT !.during = @ \cup {l}]]
    /\ UNCHANGED piped

(* toggle_module on a running pipeline: on, it is configured and started;    *)
(* off, it is stopped.                                                      *)
Toggle ==
    /\ piped /\ LanguageChanges
    /\ IF whisper_enabled
       THEN Dropped("idle") /\ whisper_enabled' = FALSE
       ELSE Loads(TRUE) /\ UNCHANGED transcripts
    /\ UNCHANGED <<piped, language, transcribing>>

(* ... and start() again.                                                   *)
Reload ==
    /\ whisper_state = "reloading"
    /\ Loads(whisper_enabled)
    /\ UNCHANGED <<piped, language, transcripts, transcribing, heard, mixed, effort_spent>>

----------------------------------------------------------------------------
(* _do_process of one chunk.                                                *)

KeyOf_AudioOnly(a) == <<a, CHOOSE l \in Languages : TRUE>>
KeyOf(a) == <<a, language>>

ModelAnswers(w, text, during) ==
    /\ heard' = [text |-> text, during |-> during]
    /\ transcribing' = [transcribing EXCEPT ![w] = NoCall]

(* The key is made of the audio and the settings of this moment; a hit is    *)
(* the answer.                                                              *)
CacheLookUp(w) ==
    /\ transcribing[w].at = "none" /\ piped /\ whisper_enabled
    /\ whisper_state # "disabled" /\ whisper
    /\ effort_spent.chunks < MaxTranscribed
    /\ effort_spent' = [effort_spent EXCEPT !.chunks = @ + 1]
    /\ \E a \in Audios :
          IF transcripts[KeyOf(a)] # "none"
          THEN ModelAnswers(w, transcripts[KeyOf(a)], {language})
          ELSE /\ transcribing' = [transcribing EXCEPT ![w] =
                      [at |-> "missed", audio |-> a, key |-> KeyOf(a),
                       used |-> "none", during |-> {language}]]
               /\ heard' = heard
    /\ UNCHANGED <<moduleState, transcripts, mixed>>

(* A thread of its own calls the model, with the language of that moment; if *)
(* stop() has taken the model the call raises, and the chunk passes as it is. *)
CallModel(w) ==
    /\ transcribing[w].at = "missed"
    /\ IF whisper
       THEN /\ transcribing' = [transcribing EXCEPT ![w].at = "called", ![w].used = language]
            /\ heard' = heard
       ELSE ModelAnswers(w, "none", transcribing[w].during)
    /\ UNCHANGED <<moduleState, transcripts, mixed, effort_spent>>

(* The call ends in time, and the text is stored under the key of before ... *)
CacheStore(w) ==
    /\ transcribing[w].at = "called"
    /\ transcripts' = [transcripts EXCEPT ![transcribing[w].key] = transcribing[w].used]
    /\ mixed' = (mixed \/ transcribing[w].used # transcribing[w].key[2])
    /\ ModelAnswers(w, transcribing[w].used, transcribing[w].during)
    /\ UNCHANGED <<moduleState, effort_spent>>

(* ... or it is given up after timeout_sec (or raises): no transcript.       *)
GiveUp(w) ==
    /\ transcribing[w].at \in {"missed", "called"}
    /\ ModelAnswers(w, "none", transcribing[w].during)
    /\ UNCHANGED <<moduleState, transcripts, mixed, effort_spent>>

(* The cache drops its oldest entries and those older than ttl_seconds.      *)
Expire ==
    /\ \E k \in CacheKeys : /\ transcripts[k] # "none"
                       /\ transcripts' = [transcripts EXCEPT ![k] = "none"]
    /\ UNCHANGED <<moduleState, transcribing, heard, mixed, effort_spent>>

----------------------------------------------------------------------------
TRNext ==
    \/ WhisperStart \/ WhisperStop \/ Reload \/ Toggle \/ Expire
    \/ \E on \in BOOLEAN, l \in Languages : Configure(on, l)
    \/ \E w \in Transcribers : CacheLookUp(w) \/ CallModel(w) \/ CacheStore(w) \/ GiveUp(w)

TRSpec == TRInit /\ [][TRNext]_trvars

TRTypeOK ==
    /\ piped \in BOOLEAN /\ language \in Languages
    /\ whisper \in BOOLEAN /\ whisper_enabled \in BOOLEAN /\ mixed \in BOOLEAN
    /\ whisper_state \in {"idle", "running", "reloading", "disabled", "error"}
    /\ transcripts \in [CacheKeys -> Languages \cup {"none"}]
    /\ \A w \in Transcribers :
          /\ transcribing[w].at \in {"none", "missed", "called"}
          /\ transcribing[w].during \subseteq Languages
    /\ heard.text \in Languages \cup {"none"}

(* A chunk that gets a transcript gets it in a language that was configured  *)
(* while the chunk was processed, however often the language changes and     *)
(* however late a call that began before comes to its end - unless a change  *)
(* between a look-up and its call has put a text under the wrong key.        *)
TranscriptInLanguage ==
    ~mixed => heard.text \in heard.during \cup {"none"}
=============================================================================
