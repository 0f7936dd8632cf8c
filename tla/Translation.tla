----------------------------- MODULE Translation -----------------------------
(* The translators: modules/translator.py (Argos, one pair of languages      *)
(* loaded at a time) and modules/dmr_translator.py (a model behind HTTP).    *)
(* Both keep the translations of the last texts, first in first out, in a    *)
(* dictionary that the workers share without a lock.                        *)
EXTENDS Naturals, Sequences, FiniteSets, SequencesExt

CONSTANTS
    Translators,     \* the threads that process chunks
    Texts,           \* transcripts and segments
    Tongues,         \* source languages, the target being fixed; "auto" is
                     \* another choice
    CacheSize,       \* _TRANSLATION_CACHE_SIZE
    MaxSettings,     \* changes of the configuration (bound)
    MaxTranslated    \* texts (bound)

ASSUME CacheSizeAssumption == CacheSize \in Nat \ {0}
ASSUME TranslatorsAssumption == IsFiniteSet(Translators) /\ Translators # {}

VARIABLES
    translator,      \* "argos" or "dmr"
    translating,     \* the pipeline is running and the module enabled
    source,          \* self._source_lang
    awaiting,        \* self._waiting_for_language
    current_lang,         \* self._current_source_lang
    pair,            \* the source language of what is loaded, or "none"; for
                     \* DMR "up" if it was available
    stored,          \* the cache: the texts in it, oldest first
    chunk,           \* per worker: its step, its text, the entry it drops
    effort           \* texts and settings so far (for the bounds)

translatorState == <<translator, translating, source, awaiting, current_lang, pair>>
xvars == <<translatorState, stored, chunk, effort>>

NoChunk == [at |-> "none", text |-> "none", oldest |-> "none"]
IsStored(t) == Contains(stored, t)

XInit ==
    /\ translator \in {"argos", "dmr"}
    /\ translating = FALSE /\ pair = "none" /\ current_lang = "none"
    /\ source \in Tongues \cup {"auto"}
    /\ awaiting = (source = "auto" /\ translator = "argos")
    /\ stored = <<>>
    /\ chunk = [w \in Translators |-> NoChunk]
    /\ effort = [texts |-> 0, settings |-> 0]

----------------------------------------------------------------------------
(* Life cycle and configuration.                                            *)

(* The pair of the ModelCache, or one installed and put there; at most one is *)
(* used at a time.                                                          *)
ArgosPair(s) == pair' = s

(* start(): Argos loads its pair unless it waits for a language, and         *)
(* disables itself if that fails, as it does for "auto" once it has detected *)
(* a language; DMR asks once whether its model is there.                     *)
ArgosStart ==
    /\ translator = "argos" /\ ~translating
    /\ \/ awaiting /\ UNCHANGED pair /\ translating' = TRUE
       \/ source # "auto" /\ ArgosPair(source) /\ translating' = TRUE
       \/ ~awaiting /\ UNCHANGED <<pair, translating>>
    /\ UNCHANGED <<translator, source, awaiting, current_lang, stored, chunk, effort>>

DmrStart ==
    /\ translator = "dmr" /\ ~translating
    /\ pair' \in {"up", "none"} /\ translating' = TRUE
    /\ UNCHANGED <<translator, source, awaiting, current_lang, stored, chunk, effort>>

(* stop(), after the workers have been joined.                              *)
XStop ==
    /\ translating /\ \A w \in Translators : chunk[w].at = "none"
    /\ translating' = FALSE /\ pair' = "none" /\ stored' = <<>>
    /\ UNCHANGED <<translator, source, awaiting, current_lang, chunk, effort>>

(* configure(), which also runs when the module is not started.  Argos loads *)
(* the new pair first; if that raises nothing has changed.  What is stored   *)
(* stays, although it was translated from, or into, another language.        *)
NeedsReload(s) == s # "auto" /\ (s # source \/ awaiting)

Setting(s) ==
    /\ effort.settings < MaxSettings
    /\ effort' = [effort EXCEPT !.settings = @ + 1]
    /\ source' = s
    /\ UNCHANGED <<translator, translating, stored, chunk>>

ArgosConfigure(s) ==
    /\ translator = "argos" /\ Setting(s)
    /\ IF NeedsReload(s) THEN ArgosPair(s) /\ current_lang' = s
                         ELSE UNCHANGED <<pair, current_lang>>
    /\ awaiting' = (s = "auto")

DmrConfigure(s) ==
    /\ translator = "dmr" /\ Setting(s)
    /\ UNCHANGED <<awaiting, current_lang, pair>>

----------------------------------------------------------------------------
(* One text of one chunk.                                                   *)

Step(w, at)   == chunk' = [chunk EXCEPT ![w].at = at]
Begins(w, t)  == chunk' = [chunk EXCEPT ![w] = [NoChunk EXCEPT !.at = "look", !.text = t]]
Passes(w)     == chunk' = [chunk EXCEPT ![w] = NoChunk]

(* _do_process up to the cache.  Without a loaded pair Argos lets the chunk  *)
(* pass, so a translator that waits for a language never loads one, unless   *)
(* a pair of before is still there; then the language the transcriber        *)
(* detected, if any, is loaded, once; if that raises the chunk passes.       *)
Takes(w) ==
    /\ translating /\ chunk[w].at = "none"
    /\ effort.texts < MaxTranslated
    /\ effort' = [effort EXCEPT !.texts = @ + 1]
    /\ UNCHANGED <<translator, translating, source, stored>>

ArgosTakes(w, t) ==
    /\ translator = "argos" /\ pair # "none" /\ Takes(w)
    /\ \/ UNCHANGED <<pair, current_lang, awaiting>> /\ Begins(w, t)
       \/ /\ awaiting
          /\ \E detected \in Tongues \ {current_lang} :
                \/ /\ current_lang' = detected /\ ArgosPair(detected)
                   /\ awaiting' = FALSE
                   /\ Begins(w, t)
                \/ UNCHANGED <<pair, current_lang, awaiting>> /\ Passes(w)

(* What a translator before it has translated is left alone.                 *)
DmrTakes(w, t) ==
    /\ translator = "dmr" /\ Takes(w)
    /\ Begins(w, t) \/ Passes(w)
    /\ UNCHANGED <<pair, current_lang, awaiting>>

LooksUp(w) ==
    /\ chunk[w].at = "look"
    /\ Step(w, IF IsStored(chunk[w].text) THEN "hit" ELSE "ask")
    /\ UNCHANGED <<translatorState, stored, effort>>

(* The entry is read; one that was dropped meanwhile raises, and the rest of *)
(* the chunk is not translated.                                             *)
ReadsEntry(w) ==
    /\ chunk[w].at = "hit"
    /\ Passes(w)
    /\ UNCHANGED <<translatorState, stored, effort>>

(* The translation; it can fail, and DMR answers with the text itself then   *)
(* or when it is not available.  Neither is stored.                         *)
Translates(w) ==
    /\ chunk[w].at = "ask"
    /\ \/ pair # "none" /\ Step(w, "got")
       \/ Passes(w)
    /\ UNCHANGED <<translatorState, stored, effort>>

(* A full cache gives up its oldest entry, which is looked up first ...      *)
IsFull_Beyond == Len(stored) > CacheSize
IsFull == Len(stored) >= CacheSize

MakesRoom(w) ==
    /\ chunk[w].at = "got"
    /\ chunk' = IF IsFull THEN [chunk EXCEPT ![w].at = "drop", ![w].oldest = Head(stored)]
                ELSE [chunk EXCEPT ![w].at = "store"]
    /\ UNCHANGED <<translatorState, stored, effort>>

(* ... and then deleted, which raises if another worker was faster.          *)
DropsOldest(w) ==
    /\ chunk[w].at = "drop"
    /\ IF IsStored(chunk[w].oldest)
       THEN /\ \E i \in 1 .. Len(stored) : /\ stored[i] = chunk[w].oldest
                                          /\ stored' = RemoveAt(stored, i)
            /\ Step(w, "store")
       ELSE Passes(w) /\ stored' = stored
    /\ UNCHANGED <<translatorState, effort>>

Stores(w) ==
    /\ chunk[w].at = "store"
    /\ stored' = IF IsStored(chunk[w].text) THEN stored ELSE Append(stored, chunk[w].text)
    /\ Passes(w)
    /\ UNCHANGED <<translatorState, effort>>

----------------------------------------------------------------------------
TranslateStep(w) ==
    \/ LooksUp(w) \/ ReadsEntry(w) \/ Translates(w)
    \/ MakesRoom(w) \/ DropsOldest(w) \/ Stores(w)

XNext ==
    \/ ArgosStart \/ DmrStart \/ XStop
    \/ \E s \in Tongues \cup {"auto"} : ArgosConfigure(s) \/ DmrConfigure(s)
    \/ \E w \in Translators : \/ TranslateStep(w)
                              \/ \E t \in Texts : ArgosTakes(w, t) \/ DmrTakes(w, t)

XSpec == XInit /\ [][XNext]_xvars

XTypeOK ==
    /\ translator \in {"argos", "dmr"}
    /\ translating \in BOOLEAN /\ awaiting \in BOOLEAN
    /\ source \in Tongues \cup {"auto"}
    /\ pair \in Tongues \cup {"none", "up"}
    /\ \A w \in Translators :
          chunk[w].at \in {"none", "look", "hit", "ask", "got", "drop", "store"}

(* "Mantener el cache acotado" (translator.py:205): the check, the removal   *)
(* and the insertion are steps of their own, so workers that run together    *)
(* may exceed the size - but each of them once, and it does not add up over  *)
(* the chunks: what is stored and what is about to be never exceeds the size *)
(* by more than the workers but one.                                        *)
Storing == {w \in Translators : chunk[w].at = "store"}
CacheIsBounded == Len(stored) + Cardinality(Storing) < CacheSize + Cardinality(Translators)
=============================================================================
