--------------------------- MODULE Modules_proofs ---------------------------
(***************************************************************************)
(* Theorems about what the modules of the pipeline share between their     *)
(* threads and lives - the FFmpeg pool, models and caches -, about the     *)
(* serial strategies that run them, and about the outputs that keep files. *)
(* One part per component; the parts are independent of each other.        *)
(***************************************************************************)
EXTENDS FFmpegPool, AudioMixing, PlayerFeedback, SerialStrategies, Transcription,
        Translation, RecordingOutput, LivePlaylist, PiperSynthesis, SequenceTheorems, FiniteSetTheorems,
        WellFoundedInduction, TLAPS

-----------------------------------------------------------------------------
(* The FFmpeg pool: slots are conserved and at most max_size FFmpeg           *)
(* processes run, and only renamed entries leak, for any number of callers,  *)
(* any ids and any number of shutdowns.  PoolTypes is the part of TypeOK      *)
(* that does not bound slots and owed from above; that bound follows from    *)
(* the conservation of slots.                                               *)

PoolTypes ==
    /\ slots \in Nat
    /\ active \subseteq Names
    /\ IsFiniteSet(active)
    /\ at \in [Callers -> Places]
    /\ jobId \in [Callers -> Ids]
    /\ shutdowns \in 0..MaxShutdowns
    /\ owed \in Nat

(* Without a shutdown every running FFmpeg has an entry standing for it,    *)
(* its own or the one a renamed job left behind.                            *)
EntriesStandForRuns ==
    shutdowns = 0 => Cardinality(In("runs")) <= Cardinality(active)

PoolInv == PoolTypes /\ SlotsConserved /\ EntriesStandForRuns

(* The set of the callers at one place is finite. *)
LEMMA InFinite ==
    ASSUME NEW place
    PROVE  /\ IsFiniteSet(In(place))
           /\ Cardinality(In(place)) \in Nat
<1>1. In(place) \subseteq Callers
  BY DEF In
<1> QED
  BY <1>1, PoolAssumption, FS_Subset, FS_CardinalityType

(* One element more or less in a finite set. *)
LEMMA OneMoreIn ==
    ASSUME NEW S, IsFiniteSet(S), NEW e, e \notin S
    PROVE  Cardinality(S \cup {e}) = Cardinality(S) + 1
  BY FS_AddElement

LEMMA OneLessIn ==
    ASSUME NEW S, IsFiniteSet(S), NEW e \in S
    PROVE  Cardinality(S \ {e}) = Cardinality(S) - 1
  BY FS_RemoveElement

LEMMA PoolCounts ==
    ASSUME PoolTypes
    PROVE  /\ Cardinality(active) \in Nat
           /\ Cardinality(In("taken")) \in Nat
           /\ Cardinality(In("leaves")) \in Nat
           /\ Cardinality(In("runs")) \in Nat
<1>1. Cardinality(active) \in Nat
  BY FS_CardinalityType DEF PoolTypes
<1> QED
  BY <1>1, InFinite

LEMMA PoolInit == Init => PoolInv
<1> SUFFICES ASSUME Init PROVE PoolInv
  OBVIOUS
<1>1. IsFiniteSet(active) /\ Cardinality(active) = 0
  BY FS_EmptySet DEF Init
<1>2. \A c \in Callers : (CHOOSE id \in CallerIds[c] : TRUE) \in Ids
  BY PoolAssumption DEF Ids
<1>3. jobId \in [Callers -> Ids]
  BY <1>2 DEF Init
<1>4. at \in [Callers -> Places]
  BY DEF Init, Places
<1>5. PoolTypes
  BY <1>1, <1>3, <1>4, PoolAssumption DEF Init, PoolTypes
<1>6. ASSUME NEW p \in Places \ {"outside"} PROVE Cardinality(In(p)) = 0
  <2>1. In(p) = {}
    BY DEF Init, In
  <2> QED
    BY <2>1, FS_EmptySet
<1>7. /\ Cardinality(In("taken")) = 0
      /\ Cardinality(In("leaves")) = 0
      /\ Cardinality(In("runs")) = 0
  BY <1>6 DEF Places
<1>8. SlotsConserved
  BY <1>1, <1>7, PoolAssumption DEF Init, SlotsConserved
<1>9. EntriesStandForRuns
  BY <1>1, <1>7 DEF EntriesStandForRuns
<1> QED
  BY <1>5, <1>8, <1>9 DEF PoolInv

LEMMA AskStep ==
    ASSUME PoolInv, NEW c \in Callers, Ask(c) PROVE PoolInv'
<1> USE DEF PoolInv, PoolTypes
<1>1. PICK id \in CallerIds[c] : jobId' = [jobId EXCEPT ![c] = id]
  BY DEF Ask
<1>2. jobId' \in [Callers -> Ids]
  BY <1>1 DEF Ids
<1>3. at' \in [Callers -> Places]
  BY DEF Ask, Places
<1>4. PoolTypes'
  BY <1>2, <1>3 DEF Ask
<1>5. /\ In("taken")' = In("taken") /\ In("leaves")' = In("leaves")
      /\ In("runs")' = In("runs")
  BY DEF Ask, In
<1>6. SlotsConserved' /\ EntriesStandForRuns'
  BY <1>5 DEF Ask, SlotsConserved, EntriesStandForRuns
<1> QED
  BY <1>4, <1>6

LEMMA GrantedStep ==
    ASSUME PoolInv, NEW c \in Callers, Granted(c) PROVE PoolInv'
<1> USE DEF PoolInv, PoolTypes
<1>1. at' \in [Callers -> Places]
  BY DEF Granted, Places
<1>2. PoolTypes'
  BY <1>1 DEF Granted
<1>3b. c \notin In("taken") /\ In("taken")' = In("taken") \cup {c}
  BY DEF Granted, In
<1>3c. In("leaves")' = In("leaves") /\ In("runs")' = In("runs")
  BY DEF Granted, In
<1>3. /\ Cardinality(In("taken")') = Cardinality(In("taken")) + 1
      /\ In("leaves")' = In("leaves") /\ In("runs")' = In("runs")
  BY <1>3b, <1>3c, InFinite, OneMoreIn, OneLessIn
<1>4. SlotsConserved' /\ EntriesStandForRuns'
  BY <1>3, PoolCounts DEF Granted, SlotsConserved, EntriesStandForRuns
<1> QED
  BY <1>2, <1>4

LEMMA TimesOutStep ==
    ASSUME PoolInv, NEW c \in Callers, TimesOut(c) PROVE PoolInv'
<1> USE DEF PoolInv, PoolTypes
<1>1. at' \in [Callers -> Places]
  BY DEF TimesOut, Places
<1>2. PoolTypes'
  BY <1>1 DEF TimesOut
<1>3. /\ In("taken")' = In("taken") /\ In("leaves")' = In("leaves")
      /\ In("runs")' = In("runs")
  BY DEF TimesOut, In
<1>4. SlotsConserved' /\ EntriesStandForRuns'
  BY <1>3 DEF TimesOut, SlotsConserved, EntriesStandForRuns
<1> QED
  BY <1>2, <1>4

(* Whatever name the job is entered under, the name is new. *)
LEMMA EnterStep ==
    ASSUME PoolInv, NEW c \in Callers, Enter(c) PROVE PoolInv'
<1> USE DEF PoolInv, PoolTypes
<1>1. PICK name \in EntryNames(jobId[c]) : active' = active \cup {name}
  BY DEF Enter
<1>2. jobId[c] \in Ids
  OBVIOUS
<1>3. name \in Names /\ name \notin active
  BY <1>2, PoolAssumption DEF EntryNames, Names, Renamed, Own
<1>4. IsFiniteSet(active') /\ Cardinality(active') = Cardinality(active) + 1
  BY <1>1, <1>3, FS_AddElement
<1>5. at' \in [Callers -> Places]
  BY DEF Enter, Places
<1>6. PoolTypes'
  BY <1>1, <1>3, <1>4, <1>5 DEF Enter
<1>7a. c \in In("taken") /\ In("taken")' = In("taken") \ {c}
  BY DEF Enter, In
<1>7b. c \notin In("runs") /\ In("runs")' = In("runs") \cup {c}
  BY DEF Enter, In
<1>7c. In("leaves")' = In("leaves")
  BY DEF Enter, In
<1>7. /\ Cardinality(In("taken")') = Cardinality(In("taken")) - 1
      /\ Cardinality(In("runs")') = Cardinality(In("runs")) + 1
      /\ In("leaves")' = In("leaves")
  BY <1>7a, <1>7b, <1>7c, InFinite, OneMoreIn, OneLessIn
<1>8. SlotsConserved' /\ EntriesStandForRuns'
  BY <1>4, <1>7, PoolCounts DEF Enter, SlotsConserved, EntriesStandForRuns
<1> QED
  BY <1>6, <1>8

(* A release of a known id moves the slot to "leaves"; a release of an      *)
(* unknown one changes neither the table nor the slots.                     *)
LEMMA LeaveStep ==
    ASSUME PoolInv, NEW c \in Callers, Leave(c) PROVE PoolInv'
<1> USE DEF PoolInv, PoolTypes
<1>1. at' = [at EXCEPT ![c] = AfterRelease(jobId[c])] /\ at[c] = "runs"
  BY DEF Leave
<1>2. CASE Own(jobId[c]) \in active
  <2>1. AfterRelease(jobId[c]) = "leaves"
    BY <1>2 DEF AfterRelease, Known
  <2>2. IsFiniteSet(active') /\ Cardinality(active') = Cardinality(active) - 1
    BY <1>2, FS_RemoveElement DEF Leave, Remaining
  <2>3. at' \in [Callers -> Places]
    BY <1>1, <2>1 DEF Places
  <2>4. PoolTypes'
    BY <2>2, <2>3 DEF Leave, Remaining
  <2>5a. c \in In("runs") /\ In("runs")' = In("runs") \ {c}
    BY <1>1, <2>1 DEF In
  <2>5b. c \notin In("leaves") /\ In("leaves")' = In("leaves") \cup {c}
    BY <1>1, <2>1 DEF In
  <2>5c. In("taken")' = In("taken")
    BY <1>1, <2>1 DEF In
  <2>5. /\ Cardinality(In("runs")') = Cardinality(In("runs")) - 1
        /\ Cardinality(In("leaves")') = Cardinality(In("leaves")) + 1
        /\ In("taken")' = In("taken")
    BY <2>5a, <2>5b, <2>5c, InFinite, OneMoreIn, OneLessIn
  <2>6. SlotsConserved' /\ EntriesStandForRuns'
    BY <2>2, <2>5, PoolCounts
    DEF Leave, SlotsConserved, EntriesStandForRuns
  <2> QED
    BY <2>4, <2>6
<1>3. CASE Own(jobId[c]) \notin active
  <2>1. AfterRelease(jobId[c]) = "outside"
    BY <1>3 DEF AfterRelease, Known
  <2>2. active' = active
    BY <1>3 DEF Leave, Remaining
  <2>3. at' \in [Callers -> Places]
    BY <1>1, <2>1 DEF Places
  <2>4. PoolTypes'
    BY <2>2, <2>3 DEF Leave, Remaining
  <2>5a. c \in In("runs") /\ In("runs")' = In("runs") \ {c}
    BY <1>1, <2>1 DEF In
  <2>5c. In("taken")' = In("taken") /\ In("leaves")' = In("leaves")
    BY <1>1, <2>1 DEF In
  <2>5. /\ Cardinality(In("runs")') = Cardinality(In("runs")) - 1
        /\ In("taken")' = In("taken") /\ In("leaves")' = In("leaves")
    BY <2>5a, <2>5c, InFinite, OneMoreIn, OneLessIn
  <2>6. SlotsConserved'
    BY <2>2, <2>5 DEF Leave, SlotsConserved
  <2>7. EntriesStandForRuns'
    BY <2>2, <2>5, PoolCounts DEF Leave, EntriesStandForRuns
  <2> QED
    BY <2>4, <2>6, <2>7
<1> QED
  BY <1>2, <1>3

LEMMA GiveBackStep ==
    ASSUME PoolInv, NEW c \in Callers, GiveBack(c) PROVE PoolInv'
<1> USE DEF PoolInv, PoolTypes
<1>1. at' \in [Callers -> Places]
  BY DEF GiveBack, Places
<1>2. PoolTypes'
  BY <1>1 DEF GiveBack, GivenBack
<1>3a. c \in In("leaves") /\ In("leaves")' = In("leaves") \ {c}
  BY DEF GiveBack, In
<1>3c. In("taken")' = In("taken") /\ In("runs")' = In("runs")
  BY DEF GiveBack, In
<1>3. /\ Cardinality(In("leaves")') = Cardinality(In("leaves")) - 1
      /\ In("taken")' = In("taken") /\ In("runs")' = In("runs")
  BY <1>3a, <1>3c, InFinite, OneMoreIn, OneLessIn
<1>4. SlotsConserved' /\ EntriesStandForRuns'
  BY <1>3, PoolCounts
  DEF GiveBack, GivenBack, SlotsConserved, EntriesStandForRuns
<1> QED
  BY <1>2, <1>4

LEMMA ClearStep ==
    ASSUME PoolInv, Clear PROVE PoolInv'
<1> USE DEF PoolInv, PoolTypes
<1>1. IsFiniteSet(active') /\ Cardinality(active') = 0
  BY FS_EmptySet DEF Clear
<1>2. Cardinality(active) \in Nat
  BY FS_CardinalityType
<1>3. shutdowns' \in 0..MaxShutdowns /\ shutdowns' # 0
  BY PoolAssumption DEF Clear
<1>4. PoolTypes'
  BY <1>1, <1>2, <1>3 DEF Clear
<1>5. In("taken")' = In("taken") /\ In("leaves")' = In("leaves")
  BY DEF Clear, In
<1>6. SlotsConserved'
  BY <1>1, <1>2, <1>5, PoolCounts DEF Clear, SlotsConserved
<1>7. EntriesStandForRuns'
  BY <1>3 DEF EntriesStandForRuns
<1> QED
  BY <1>4, <1>6, <1>7

LEMMA RepayStep ==
    ASSUME PoolInv, Repay PROVE PoolInv'
<1> USE DEF PoolInv, PoolTypes
<1>1. PoolTypes'
  BY DEF Repay
<1>2. /\ In("taken")' = In("taken") /\ In("leaves")' = In("leaves")
      /\ In("runs")' = In("runs")
  BY DEF Repay, In
<1>3. SlotsConserved' /\ EntriesStandForRuns'
  BY <1>2, PoolCounts DEF Repay, SlotsConserved, EntriesStandForRuns
<1> QED
  BY <1>1, <1>3

LEMMA PoolStutter ==
    ASSUME PoolInv, UNCHANGED vars PROVE PoolInv'
<1> QED
  BY DEF PoolInv, PoolTypes, SlotsConserved, EntriesStandForRuns, In, vars

LEMMA PoolStep == PoolInv /\ [Next]_vars => PoolInv'
<1> SUFFICES ASSUME PoolInv, [Next]_vars PROVE PoolInv'
  OBVIOUS
<1>1. ASSUME NEW c \in Callers,
             Ask(c) \/ Granted(c) \/ TimesOut(c) \/ Enter(c) \/ Leave(c) \/ GiveBack(c)
      PROVE  PoolInv'
  BY <1>1, AskStep, GrantedStep, TimesOutStep, EnterStep, LeaveStep, GiveBackStep
<1> QED
  BY <1>1, ClearStep, RepayStep, PoolStutter DEF Next

LEMMA PoolInvariant == Spec => []PoolInv
<1> QED
  BY PoolInit, PoolStep, PTL DEF Spec

(* Every variable keeps its type; that slots and owed stay within max_size  *)
(* is a consequence of conservation.                                        *)
THEOREM PoolTyped == Spec => []TypeOK
<1>1. ASSUME PoolInv PROVE TypeOK
  <2>1. /\ Cardinality(active) \in Nat
        /\ Cardinality(In("taken")) \in Nat
        /\ Cardinality(In("leaves")) \in Nat
    BY <1>1, PoolCounts DEF PoolInv, PoolTypes
  <2>2. slots \in 0..MaxSize /\ owed \in 0..MaxSize
    BY <1>1, <2>1, PoolAssumption DEF PoolInv, PoolTypes, SlotsConserved
  <2> QED
    BY <1>1, <2>2 DEF PoolInv, PoolTypes, TypeOK
<1> QED
  BY <1>1, PoolInvariant, PTL

(* No interleaving of acquire(), release() and shutdown() loses or invents  *)
(* a slot.                                                                  *)
THEOREM NoSlotLostOrInvented == Spec => []SlotsConserved
<1>1. PoolInv => SlotsConserved
  BY DEF PoolInv
<1> QED
  BY <1>1, PoolInvariant, PTL

(* Until a shutdown(), at most max_size FFmpeg processes run, whatever ids  *)
(* the callers use.                                                         *)
THEOREM ConcurrencyLimit == Spec => []AtMostMaxSizeRun
<1>1. ASSUME PoolInv PROVE AtMostMaxSizeRun
  <2>1. /\ Cardinality(active) \in Nat
        /\ Cardinality(In("runs")) \in Nat
        /\ Cardinality(In("taken")) \in Nat
        /\ Cardinality(In("leaves")) \in Nat
    BY <1>1, PoolCounts DEF PoolInv, PoolTypes
  <2> QED
    BY <1>1, <2>1, PoolAssumption
    DEF PoolInv, PoolTypes, SlotsConserved, EntriesStandForRuns, AtMostMaxSizeRun
<1> QED
  BY <1>1, PoolInvariant, PTL

(* The entry of an id is left by whoever leaves with that id, so the job    *)
(* that entered it is still running.                                        *)
LEMMA NextOwnEntries ==
    ASSUME PoolTypes, OnlyRenamedEntriesLeak, [Next]_vars
    PROVE  OnlyRenamedEntriesLeak'
<1> SUFFICES ASSUME NEW id \in Ids, Own(id) \in active'
             PROVE  \E c \in Callers : at'[c] = "runs" /\ jobId'[c] = id
  BY DEF OnlyRenamedEntriesLeak, In
<1> USE DEF PoolTypes
<1>1. Own(id) \in active =>
        \E r \in Callers : at[r] = "runs" /\ jobId[r] = id
  BY DEF OnlyRenamedEntriesLeak, In
<1>2. ASSUME NEW c \in Callers,
             Ask(c) \/ Granted(c) \/ TimesOut(c) \/ GiveBack(c)
      PROVE  \E r \in Callers : at'[r] = "runs" /\ jobId'[r] = id
  <2>1. Own(id) \in active
    BY <1>2 DEF Ask, Granted, TimesOut, GiveBack
  <2>2. PICK r \in Callers : at[r] = "runs" /\ jobId[r] = id
    BY <1>1, <2>1
  <2>3. at[c] # "runs"
    BY <1>2 DEF Ask, Granted, TimesOut, GiveBack
  <2>4. at'[r] = at[r]
    BY <1>2, <2>2, <2>3 DEF Ask, Granted, TimesOut, GiveBack
  <2>5. jobId'[r] = jobId[r]
    BY <1>2, <2>2, <2>3 DEF Ask, Granted, TimesOut, GiveBack
  <2> QED
    BY <2>2, <2>4, <2>5
<1>3. ASSUME NEW c \in Callers, Enter(c)
      PROVE  \E r \in Callers : at'[r] = "runs" /\ jobId'[r] = id
  <2>1. at'[c] = "runs" /\ jobId' = jobId
    BY <1>3 DEF Enter
  <2>2. CASE Own(id) \in active
    <3>1. PICK r \in Callers : at[r] = "runs" /\ jobId[r] = id
      BY <1>1, <2>2
    <3>2. at'[r] = "runs"
      BY <1>3, <3>1 DEF Enter
    <3> QED
      BY <2>1, <3>1, <3>2
  <2>3. CASE Own(id) \notin active
    <3>1. PICK name \in EntryNames(jobId[c]) : active' = active \cup {name}
      BY <1>3 DEF Enter
    <3>2. name = Own(id)
      BY <2>3, <3>1
    <3>3. name \in Renamed(jobId[c]) \/ name = Own(jobId[c])
      BY <3>1 DEF EntryNames
    <3>4. jobId[c] = id
      BY <3>2, <3>3, PoolAssumption DEF Renamed, Own
    <3> QED
      BY <2>1, <3>4
  <2> QED
    BY <2>2, <2>3
<1>4. ASSUME NEW c \in Callers, Leave(c)
      PROVE  \E r \in Callers : at'[r] = "runs" /\ jobId'[r] = id
  <2>1. Own(id) \in active /\ Own(id) # Own(jobId[c]) /\ jobId' = jobId
    BY <1>4 DEF Leave, Remaining
  <2>2. PICK r \in Callers : at[r] = "runs" /\ jobId[r] = id
    BY <1>1, <2>1
  <2>3. r # c
    BY <2>1, <2>2
  <2>4. at'[r] = at[r]
    BY <1>4, <2>2, <2>3 DEF Leave
  <2> QED
    BY <2>1, <2>2, <2>4
<1>5. CASE Clear
  BY <1>5 DEF Clear
<1>6. CASE Repay
  BY <1>1, <1>6 DEF Repay
<1>7. CASE UNCHANGED vars
  BY <1>1, <1>7 DEF vars
<1> QED
  BY <1>2, <1>3, <1>4, <1>5, <1>6, <1>7 DEF Next

(* An entry of the table that its id names always belongs to a running      *)
(* FFmpeg, for any callers, ids and shutdowns: only renamed entries leak.   *)
THEOREM OwnEntriesRun == Spec => []OnlyRenamedEntriesLeak
<1>1. Init => OnlyRenamedEntriesLeak
  BY DEF Init, OnlyRenamedEntriesLeak
<1>2. PoolInv /\ OnlyRenamedEntriesLeak /\ [Next]_vars => OnlyRenamedEntriesLeak'
  BY NextOwnEntries DEF PoolInv
<1> QED
  BY <1>1, <1>2, PoolInvariant, PTL DEF Spec

(* The ids that make the pool keep its slots: no two callers can compute the *)
(* same one.                                                                *)
DistinctIds == \A c, d \in Callers : c # d => CallerIds[c] \cap CallerIds[d] = {}

(* Every entry is the own one of a caller whose FFmpeg runs: acquire() has   *)
(* had nothing to rename.                                                   *)
NothingRenamed ==
    /\ DistinctIds
    /\ \A c \in Callers : jobId[c] \in CallerIds[c]
    /\ \A name \in active : \E c \in In("runs") : name = Own(jobId[c])

LEMMA NothingIsRenamed ==
    ASSUME PoolTypes, NothingRenamed, [Next]_vars
    PROVE  NothingRenamed'
<1> USE DEF PoolTypes
<1>1. /\ DistinctIds
      /\ \A c \in Callers : jobId[c] \in CallerIds[c]
      /\ \A name \in active : \E r \in Callers : at[r] = "runs" /\ name = Own(jobId[r])
  BY DEF NothingRenamed, In
<1>2. SUFFICES /\ \A c \in Callers : jobId'[c] \in CallerIds[c]
               /\ \A name \in active' : \E r \in Callers : at'[r] = "runs" /\ name = Own(jobId'[r])
  BY <1>1 DEF NothingRenamed, In, DistinctIds, Own
<1>3. ASSUME NEW c \in Callers, Ask(c)
      PROVE  /\ \A e \in Callers : jobId'[e] \in CallerIds[e]
             /\ \A name \in active' : \E r \in Callers : at'[r] = "runs" /\ name = Own(jobId'[r])
  <2>1. PICK id \in CallerIds[c] : jobId' = [jobId EXCEPT ![c] = id]
    BY <1>3 DEF Ask
  <2>2. /\ active' = active /\ at[c] = "outside"
        /\ \A r \in Callers \ {c} : at'[r] = at[r] /\ jobId'[r] = jobId[r]
    BY <1>3, <2>1 DEF Ask
  <2>3. \A e \in Callers : jobId'[e] \in CallerIds[e]
    BY <1>1, <2>1
  <2>4. ASSUME NEW name \in active
        PROVE  \E r \in Callers : at'[r] = "runs" /\ name = Own(jobId'[r])
    <3>1. PICK r \in Callers : at[r] = "runs" /\ name = Own(jobId[r])
      BY <1>1
    <3>2. r # c
      BY <2>2, <3>1
    <3> QED
      BY <2>2, <3>1, <3>2
  <2> QED
    BY <2>2, <2>3, <2>4
<1>4. ASSUME NEW c \in Callers, Granted(c) \/ TimesOut(c) \/ GiveBack(c)
      PROVE  /\ jobId' = jobId
             /\ \A name \in active' : \E r \in Callers : at'[r] = "runs" /\ name = Own(jobId'[r])
  <2>1. active' = active /\ jobId' = jobId /\ \A r \in Callers : at[r] = "runs" => at'[r] = "runs"
    BY <1>4 DEF Granted, TimesOut, GiveBack
  <2> QED
    BY <1>1, <2>1
<1>5. ASSUME NEW c \in Callers, Enter(c)
      PROVE  /\ jobId' = jobId
             /\ \A name \in active' : \E r \in Callers : at'[r] = "runs" /\ name = Own(jobId'[r])
  <2>1. /\ jobId' = jobId /\ at[c] = "taken" /\ at'[c] = "runs"
        /\ \A r \in Callers : at[r] = "runs" => at'[r] = "runs"
    BY <1>5 DEF Enter
  <2>2. Own(jobId[c]) \notin active
    <3>1. SUFFICES ASSUME Own(jobId[c]) \in active PROVE FALSE
      OBVIOUS
    <3>2. PICK r \in Callers : at[r] = "runs" /\ Own(jobId[c]) = Own(jobId[r])
      BY <1>1, <3>1
    <3>3. r # c /\ jobId[r] = jobId[c]
      BY <2>1, <3>2 DEF Own
    <3>4. jobId[c] \in CallerIds[c] \cap CallerIds[r]
      BY <1>1, <3>3
    <3> QED
      BY <1>1, <3>3, <3>4 DEF DistinctIds
  <2>3. active' = active \cup {Own(jobId[c])}
    BY <1>5, <2>2 DEF Enter, EntryNames
  <2> QED
    BY <1>1, <2>1, <2>3
<1>6. ASSUME NEW c \in Callers, Leave(c)
      PROVE  /\ jobId' = jobId
             /\ \A name \in active' : \E r \in Callers : at'[r] = "runs" /\ name = Own(jobId'[r])
  <2>1. /\ jobId' = jobId /\ active' = active \ {Own(jobId[c])}
        /\ \A r \in Callers \ {c} : at'[r] = at[r]
    BY <1>6 DEF Leave, Remaining
  <2>2. ASSUME NEW name \in active'
        PROVE  \E r \in Callers : at'[r] = "runs" /\ name = Own(jobId'[r])
    <3>1. PICK r \in Callers : at[r] = "runs" /\ name = Own(jobId[r])
      BY <1>1, <2>1
    <3>2. r # c
      BY <2>1, <3>1
    <3> QED
      BY <2>1, <3>1, <3>2
  <2> QED
    BY <2>1, <2>2
<1>7. CASE Clear
  BY <1>1, <1>7 DEF Clear
<1>8. CASE Repay
  BY <1>1, <1>8 DEF Repay
<1>9. CASE UNCHANGED vars
  BY <1>1, <1>9 DEF vars
<1> QED
  BY <1>1, <1>3, <1>4, <1>5, <1>6, <1>7, <1>8, <1>9 DEF Next

(* What AllSlotsReturn needs to hold: if no two callers can come up with the  *)
(* same job id, every slot is free again whenever nobody uses the pool,       *)
(* across time-outs and shutdowns.  The ids of run_command carry the          *)
(* millisecond and the name of the wrapper, which the workers share: that    *)
(* does not make them distinct.                                             *)
THEOREM DistinctIdsLoseNoSlot == DistinctIds /\ Spec => []AllSlotsReturn
<1>1. DistinctIds /\ Init => NothingRenamed
  <2> SUFFICES ASSUME DistinctIds, Init PROVE NothingRenamed
    OBVIOUS
  <2>1. \A c \in Callers : (CHOOSE id \in CallerIds[c] : TRUE) \in CallerIds[c]
    BY PoolAssumption
  <2> QED
    BY <2>1 DEF Init, NothingRenamed
<1>2. PoolInv /\ NothingRenamed /\ [Next]_vars => NothingRenamed'
  BY NothingIsRenamed DEF PoolInv
<1>3. PoolInv /\ NothingRenamed => AllSlotsReturn
  <2> SUFFICES ASSUME PoolInv, NothingRenamed, \A c \in Callers : at[c] = "outside", owed = 0
               PROVE  slots = MaxSize
    BY DEF AllSlotsReturn
  <2>1. In("runs") = {} /\ In("taken") = {} /\ In("leaves") = {}
    BY DEF In
  <2>2. active = {}
    BY <2>1 DEF NothingRenamed
  <2>3. Cardinality(active) = 0 /\ Cardinality(In("taken")) = 0 /\ Cardinality(In("leaves")) = 0
    BY <2>1, <2>2, FS_EmptySet
  <2> QED
    BY <2>3, PoolAssumption DEF PoolInv, PoolTypes, SlotsConserved
<1> QED
  BY <1>1, <1>2, <1>3, PoolInvariant, PTL DEF Spec

-----------------------------------------------------------------------------
(* The mixing of audio: types, and that a cross-fade only ever joins          *)
(* neighbours.  The pair that is faded is only as good as the two variables   *)
(* it is chosen by, which are written in different branches: KeptEnd relates  *)
(* them.                                                                    *)
(* The end that is kept is that of the last chunk in order. *)
KeptEnd == _prev_end_sample # NoMix => _prev_end_sample.number = _last_chunk_index

(* A worker that is not idle holds a chunk; a life runs only once begun. *)
HoldsChunk ==
    /\ \A w \in Mixers : mixers[w].at # "idle" => mixers[w].chunk \in MixChunks
    /\ mixrunning => mixlife \in 1 .. MaxMixLives

IInv == AMTypeOK /\ HoldsChunk /\ KeptEnd /\ FadesJoinNeighbours

LEMMA InitHolds == AMInit => IInv
<1> SUFFICES ASSUME AMInit PROVE IInv
  OBVIOUS
<1> USE MixAssumption DEF AMInit
<1>1. AMTypeOK
  <2>1. IdleMixer \in [at : {"idle", "extract", "mix", "fade", "write"},
                       chunk : MixChunks \cup {NoMix}, audio : BOOLEAN]
    BY DEF IdleMixer
  <2>2. /\ mixlife \in 0 .. MaxMixLives
        /\ upcoming \in 0 .. MaxMixIndex + 1
        /\ _last_chunk_index \in -1 .. MaxMixIndex
    OBVIOUS
  <2>4. mixrunning \in BOOLEAN
    OBVIOUS
  <2>3. blend \in (MixChunks \X MixChunks) \cup {<<>>}
    OBVIOUS
  <2> QED  BY <2>1, <2>2, <2>3, <2>4 DEF AMTypeOK
<1>2. HoldsChunk /\ KeptEnd /\ FadesJoinNeighbours
  BY DEF HoldsChunk, KeptEnd, FadesJoinNeighbours, IdleMixer
<1> QED  BY <1>1, <1>2 DEF IInv

(* The steps of start and stop touch no worker and no cross-fade. *)
LEMMA LifeSteps == ASSUME IInv, MixStart \/ MixStop PROVE IInv'
<1> USE MixAssumption DEF IInv
<1>1. AMTypeOK'
  <2>1. CASE MixStart
    BY <2>1 DEF MixStart, ExtractorStart, AMTypeOK, crossfade, MixNumbers
  <2>2. CASE MixStop
    BY <2>2 DEF MixStop, AMTypeOK, crossfade, AudioRemoved, MixNumbers
  <2> QED  BY <2>1, <2>2
<1>2. HoldsChunk'
  BY DEF MixStart, ExtractorStart, MixStop, HoldsChunk, AMTypeOK
<1>3. KeptEnd' /\ FadesJoinNeighbours'
  BY DEF MixStart, ExtractorStart, MixStop, KeptEnd, FadesJoinNeighbours, crossfade
<1> QED  BY <1>1, <1>2, <1>3

(* A worker's record, changed to r. *)
LEMMA WorkerMoves ==
    ASSUME NEW w \in Mixers, NEW r, AMTypeOK, HoldsChunk,
           r \in [at : {"idle", "extract", "mix", "fade", "write"},
                  chunk : MixChunks \cup {NoMix}, audio : BOOLEAN],
           r.at # "idle" => r.chunk \in MixChunks,
           mixers' = [mixers EXCEPT ![w] = r]
    PROVE  /\ mixers' \in [Mixers -> [at : {"idle", "extract", "mix", "fade", "write"},
                              chunk : MixChunks \cup {NoMix}, audio : BOOLEAN]]
           /\ \A v \in Mixers : mixers'[v].at # "idle" => mixers'[v].chunk \in MixChunks
  BY DEF AMTypeOK, HoldsChunk

(* Whatever a worker does outside the lock leaves the cross-fade alone. *)
LEMMA OutsideLock ==
    ASSUME IInv, NEW w \in Mixers,
           \/ TakeChunk(w) \/ Extract(w) \/ NothingToMix(w)
           \/ MixUndubbed(w) \/ MixDubbed(w) \/ WriteMix(w)
    PROVE  IInv'
<1> USE MixAssumption DEF IInv
<1>w. mixers[w] \in [at : {"idle", "extract", "mix", "fade", "write"},
                     chunk : MixChunks \cup {NoMix}, audio : BOOLEAN]
  BY DEF AMTypeOK
<1>1. KeptEnd' /\ FadesJoinNeighbours'
  BY DEF TakeChunk, Extract, NothingToMix, MixUndubbed, MixDubbed, WriteMix,
         crossfade, KeptEnd, FadesJoinNeighbours
<1>2. \E r : /\ mixers' = [mixers EXCEPT ![w] = r]
             /\ r \in [at : {"idle", "extract", "mix", "fade", "write"},
                       chunk : MixChunks \cup {NoMix}, audio : BOOLEAN]
             /\ r.at # "idle" => r.chunk \in MixChunks
  <2>i. IdleMixer \in [at : {"idle", "extract", "mix", "fade", "write"},
                       chunk : MixChunks \cup {NoMix}, audio : BOOLEAN]
    BY DEF IdleMixer
  <2>1. CASE TakeChunk(w)
    <3> DEFINE r == [IdleMixer EXCEPT !.at = "extract",
                        !.chunk = [life |-> mixlife, number |-> upcoming]]
    <3>1. [life |-> mixlife, number |-> upcoming] \in MixChunks
      BY <2>1 DEF TakeChunk, HoldsChunk, MixChunks
    <3>2. /\ r \in [at : {"idle", "extract", "mix", "fade", "write"},
                    chunk : MixChunks \cup {NoMix}, audio : BOOLEAN]
          /\ r.chunk \in MixChunks
      BY <3>1 DEF IdleMixer
    <3> QED  BY <2>1, <3>2 DEF TakeChunk
  <2>2. CASE Extract(w)
    <3>1. PICK works \in BOOLEAN :
             mixers' = [mixers EXCEPT ![w].at = "mix", ![w].audio = works]
      BY <2>2 DEF Extract, CommandWorks
    <3>2. mixers[w].chunk \in MixChunks
      BY <2>2 DEF Extract, HoldsChunk
    <3> DEFINE r == [mixers[w] EXCEPT !.at = "mix", !.audio = works]
    <3>3. /\ r \in [at : {"idle", "extract", "mix", "fade", "write"},
                    chunk : MixChunks \cup {NoMix}, audio : BOOLEAN]
          /\ r.chunk \in MixChunks
      BY <1>w, <3>2
    <3>4. mixers' = [mixers EXCEPT ![w] = r]
      BY <3>1 DEF AMTypeOK
    <3> QED  BY <3>3, <3>4
  <2>3. CASE \/ NothingToMix(w) \/ MixUndubbed(w) \/ WriteMix(w)
    BY <2>3, <2>i DEF NothingToMix, MixUndubbed, WriteMix, Finishes, IdleMixer
  <2>4. CASE MixDubbed(w)
    <3>1. CASE mixers' = [mixers EXCEPT ![w].at = "fade"]
      <4> DEFINE r == [mixers[w] EXCEPT !.at = "fade"]
      <4>1. mixers[w].chunk \in MixChunks
        BY <2>4 DEF MixDubbed, HoldsChunk
      <4>2. /\ r \in [at : {"idle", "extract", "mix", "fade", "write"},
                      chunk : MixChunks \cup {NoMix}, audio : BOOLEAN]
            /\ r.chunk \in MixChunks
        BY <1>w, <4>1
      <4>3. mixers' = [mixers EXCEPT ![w] = r]
        BY <3>1 DEF AMTypeOK
      <4> QED  BY <4>2, <4>3
    <3>2. CASE Finishes(w)
      BY <3>2, <2>i DEF Finishes, IdleMixer
    <3> QED  BY <2>4, <3>1, <3>2 DEF MixDubbed
  <2> QED  BY <2>1, <2>2, <2>3, <2>4
<1>3. /\ mixers' \in [Mixers -> [at : {"idle", "extract", "mix", "fade", "write"},
                         chunk : MixChunks \cup {NoMix}, audio : BOOLEAN]]
      /\ \A v \in Mixers : mixers'[v].at # "idle" => mixers'[v].chunk \in MixChunks
  BY <1>2, WorkerMoves
<1>4. audio_files' \subseteq MixNumbers
  <2>1. CASE Extract(w)
    <3>1. mixers[w].chunk.number \in MixNumbers
      BY <2>1 DEF Extract, HoldsChunk, MixChunks
    <3> QED  BY <2>1, <3>1 DEF Extract, AMTypeOK
  <2>2. CASE ~Extract(w)
    BY <2>2 DEF TakeChunk, NothingToMix, MixUndubbed, MixDubbed, WriteMix, AMTypeOK
  <2> QED  BY <2>1, <2>2
<1>5. /\ mixlife' = mixlife /\ mixrunning' = mixrunning
      /\ upcoming' \in 0 .. MaxMixIndex + 1
  BY DEF TakeChunk, Extract, NothingToMix, MixUndubbed, MixDubbed, WriteMix,
         AMTypeOK, MixNumbers
<1>6. /\ _last_chunk_index' = _last_chunk_index
      /\ _prev_end_sample' = _prev_end_sample /\ blend' = blend
  BY DEF TakeChunk, Extract, NothingToMix, MixUndubbed, MixDubbed, WriteMix, crossfade
<1>7. AMTypeOK'
  BY <1>3, <1>4, <1>5, <1>6 DEF AMTypeOK
<1>8. HoldsChunk'
  BY <1>3, <1>5 DEF HoldsChunk
<1> QED  BY <1>1, <1>7, <1>8

(* Under the lock. *)
LEMMA UnderLock == ASSUME IInv, NEW w \in Mixers, Crossfade(w) PROVE IInv'
<1> USE MixAssumption DEF IInv
<1> DEFINE c == mixers[w].chunk
<1>1. /\ c \in MixChunks /\ c.number \in MixNumbers
      /\ c.number \in 0 .. MaxMixIndex /\ c # NoMix
  BY DEF Crossfade, HoldsChunk, MixChunks, MixNumbers, NoMix
<1>2. /\ mixers' \in [Mixers -> [at : {"idle", "extract", "mix", "fade", "write"},
                         chunk : MixChunks \cup {NoMix}, audio : BOOLEAN]]
      /\ \A v \in Mixers : mixers'[v].at # "idle" => mixers'[v].chunk \in MixChunks
  <2> DEFINE r == [mixers[w] EXCEPT !.at = "write"]
  <2>1. /\ r \in [at : {"idle", "extract", "mix", "fade", "write"},
                  chunk : MixChunks \cup {NoMix}, audio : BOOLEAN]
        /\ r.chunk \in MixChunks
    BY <1>1 DEF AMTypeOK
  <2>2. mixers' = [mixers EXCEPT ![w] = r]
    BY DEF Crossfade, AMTypeOK
  <2> HIDE DEF r
  <2> QED  BY <2>1, <2>2, WorkerMoves
<1>3. HoldsChunk'
  BY <1>2 DEF Crossfade, HoldsChunk
<1>4. CASE InOrder(w)
  <2>1. /\ _prev_end_sample' = c /\ _last_chunk_index' = c.number
        /\ blend' = IF _prev_end_sample = NoMix THEN blend ELSE <<_prev_end_sample, c>>
    BY <1>4 DEF Crossfade
  <2>2. KeptEnd'
    BY <2>1 DEF KeptEnd
  <2>3. _prev_end_sample # NoMix => c.number = _prev_end_sample.number + 1
    BY <1>4 DEF InOrder, KeptEnd
  <2>4. FadesJoinNeighbours'
    BY <2>1, <2>3 DEF FadesJoinNeighbours
  <2>5. AMTypeOK'
    <3>1. blend' \in (MixChunks \X MixChunks) \cup {<<>>}
      BY <1>1, <2>1 DEF AMTypeOK
    <3> QED  BY <1>1, <1>2, <2>1, <3>1 DEF AMTypeOK, Crossfade
  <2> QED  BY <1>3, <2>2, <2>4, <2>5
<1>5. CASE ~InOrder(w)
  <2>1. /\ _prev_end_sample' = NoMix /\ blend' = blend
        /\ _last_chunk_index' \in {c.number, _last_chunk_index}
    BY <1>5 DEF Crossfade, OutOfOrder
  <2>2. KeptEnd' /\ FadesJoinNeighbours'
    BY <2>1 DEF KeptEnd, FadesJoinNeighbours
  <2>3. AMTypeOK'
    BY <1>1, <1>2, <2>1 DEF AMTypeOK, Crossfade
  <2> QED  BY <1>3, <2>2, <2>3
<1> QED  BY <1>4, <1>5

LEMMA StepHolds == IInv /\ [AMNext]_amvars => IInv'
<1> SUFFICES ASSUME IInv, [AMNext]_amvars PROVE IInv'
  OBVIOUS
<1>1. CASE MixStart \/ MixStop
  BY <1>1, LifeSteps
<1>2. CASE \E w \in Mixers : \/ TakeChunk(w) \/ Extract(w) \/ NothingToMix(w)
                             \/ MixUndubbed(w) \/ MixDubbed(w) \/ WriteMix(w)
  BY <1>2, OutsideLock
<1>3. CASE \E w \in Mixers : Crossfade(w)
  BY <1>3, UnderLock
<1>4. CASE UNCHANGED amvars
  BY <1>4 DEF amvars, IInv, AMTypeOK, HoldsChunk, KeptEnd, FadesJoinNeighbours
<1> QED  BY <1>1, <1>2, <1>3, <1>4 DEF AMNext

(* Every variable of the two modules keeps its type, and a chunk is only ever   *)
(* faded in over the end of the chunk numbered just before it                   *)
(* (audio_mixer.py:182-220), however many workers overtake each other.          *)
THEOREM CrossfadeIsRight == AMSpec => [](AMTypeOK /\ FadesJoinNeighbours)
<1>1. IInv => AMTypeOK /\ FadesJoinNeighbours
  BY DEF IInv
<1> QED  BY InitHolds, StepHolds, <1>1, PTL DEF AMSpec

-----------------------------------------------------------------------------
(* The feedback of the players: the reductions they cause do not add up,      *)
(* whatever the configured durations, the factor and the thresholds are.  The *)
(* invariant is inductive by itself; what makes it so is that a reduction     *)
(* needs a monitor that holds nothing reduced, where the current duration is  *)
(* the configured one, and that a new configuration sets both.               *)
(* A reduction under way has read a duration that was not a reduction.         *)
ReductionInv ==
    /\ OneReduction
    /\ reducing # NotAsked => Adapted /\ reducing.read = reducing.of

(* _evaluate decides by time stamps, level and stall: whatever it decides,   *)
(* one reduction at most is in force after it.                              *)
LEMMA EvaluateKeeps ==
  ASSUME ReductionInv, reducing = NotAsked, NEW stall, NEW level, Evaluate(stall, level)
  PROVE  ReductionInv'
<1>1. CASE ~Adapted /\ \E what \in {"both", "chunk"} : Reduces(what)
  <2>1. PICK what \in {"both", "chunk"} : Reduces(what)
    BY <1>1
  <2>2. chunk_duration = unreduced
    BY <1>1 DEF ReductionInv, OneReduction
  <2>3. UNCHANGED durations /\ reducing' = [read |-> chunk_duration, of |-> unreduced] /\ Adapted'
    BY <2>1 DEF Reduces, Adapted
  <2> QED
    BY <2>2, <2>3 DEF ReductionInv, OneReduction, durations, Shortened
<1>2. CASE Restores
  BY <1>2 DEF Restores, SetTo, ReductionInv, OneReduction
<1>3. CASE UNCHANGED <<reduced, durations, reducing>>
  BY <1>3 DEF durations, ReductionInv, OneReduction, Adapted, Shortened
<1> QED
  BY <1>1, <1>2, <1>3 DEF Evaluate, MayReduce

(* A report, a stall, a tick of the clock, a saved configuration or a step of *)
(* the strategy keeps at most one reduction in force.                       *)
LEMMA StepKeeps ==
  ASSUME ReductionInv, [PFNext]_pfvars
  PROVE  ReductionInv'
<1>1. CASE UNCHANGED <<reduced, durations, reducing>>
  BY <1>1 DEF durations, ReductionInv, OneReduction, Adapted, Shortened
<1>2. CASE TimePasses \/ StrategyStarts \/ StrategyEnds
  BY <1>1, <1>2 DEF TimePasses, StrategyStarts, StrategyEnds, pipelineState, monitorState
<1>3. CASE RecordStall
  BY <1>3, EvaluateKeeps DEF RecordStall, Report
<1>4. ASSUME NEW level \in Levels, RecordBuffer(level)
      PROVE  ReductionInv'
  BY <1>4, EvaluateKeeps DEF RecordBuffer, Report
<1>5. ASSUME NEW level \in Levels, RecordBuffered(level)
      PROVE  ReductionInv'
  BY <1>1, <1>5 DEF RecordBuffered, pipelineState, monitorState
<1>6. ASSUME NEW d, SetTo(d), UNCHANGED <<reduced, reducing>>
      PROVE  ReductionInv'
  BY <1>6 DEF SetTo, ReductionInv, OneReduction, Adapted
<1>7. ASSUME NEW d \in Settings, DurationChanged(d)
      PROVE  ReductionInv'
  BY <1>6, <1>7 DEF DurationChanged, monitorState
<1>8. CASE StrategyAdapts
  BY <1>6, <1>8 DEF StrategyAdapts, monitorState
<1>9. CASE OnAdapt
  <2>1. /\ chunk_duration' = Shortened(reducing.read) /\ unreduced' = reducing.of /\ reducing' = NotAsked
        /\ reduced' = reduced /\ reducing # NotAsked
    BY <1>9 DEF OnAdapt, monitorState
  <2> QED
    BY <2>1 DEF ReductionInv, OneReduction, Adapted, Shortened
<1>10. CASE UNCHANGED pfvars
  BY <1>1, <1>10 DEF pfvars, durations
<1> QED
  BY <1>2, <1>3, <1>4, <1>5, <1>7, <1>8, <1>9, <1>10 DEF PFNext

(* In every reachable state, for every setting of the monitor: the chunk     *)
(* duration of the pipeline is what configuration, restoration or strategy    *)
(* last set or one reduction of it, and no reduction when the monitor holds  *)
(* nothing reduced (PlayerFeedbackMonitor._evaluate, reconfigure_pipeline,   *)
(* ThreadParallelStrategy._output_thread_loop).                              *)
THEOREM ReductionsDoNotAddUp == PFSpec => []OneReduction
<1>1. PFInit => ReductionInv
  BY DEF PFInit, ReductionInv, OneReduction, Adapted
<1>2. ReductionInv /\ [PFNext]_pfvars => ReductionInv'
  BY StepKeeps
<1>3. ReductionInv => OneReduction
  BY DEF ReductionInv
<1> QED
  BY <1>1, <1>2, <1>3, PTL DEF PFSpec

(* In every reachable state the monitor's and the pipeline's values are of    *)
(* their kinds: the configured duration is one that was configured, and the  *)
(* concurrency is the reduced one, the restored one, or not named            *)
(* (PlaybackMonitor.__init__, reconfigure_pipeline).                         *)
THEOREM FeedbackIsTyped == PFSpec => []PFTypeOK
<1>1. PFInit => PFTypeOK
  BY FeedbackAssumption DEF PFInit, PFTypeOK, Started, Levels
<1>2. PFTypeOK /\ [PFNext]_pfvars => PFTypeOK'
  <2> SUFFICES ASSUME PFTypeOK, [PFNext]_pfvars PROVE PFTypeOK'
    OBVIOUS
  <2>1. ASSUME NEW stall, NEW level, Evaluate(stall, level)
        PROVE  /\ reduced' \in {"nothing", "chunk", "both"}
               /\ default_duration' \in Settings /\ input_duration' \in Settings
               /\ max_concurrent' \in {0, 2, 4}
    BY <2>1 DEF Evaluate, Reduces, Restores, PFTypeOK
  <2>2. CASE TimePasses \/ OnAdapt \/ StrategyStarts \/ StrategyEnds \/ StrategyAdapts
    BY <2>2 DEF TimePasses, OnAdapt, StrategyStarts, StrategyEnds, StrategyAdapts,
       monitorState, pipelineState, PFTypeOK
  <2>3. CASE RecordStall
    BY <2>1, <2>3 DEF RecordStall, PFTypeOK
  <2>4. ASSUME NEW level \in Levels, RecordBuffer(level)
        PROVE  PFTypeOK'
    BY <2>1, <2>4 DEF RecordBuffer, PFTypeOK
  <2>5. ASSUME NEW level \in Levels, RecordBuffered(level)
        PROVE  PFTypeOK'
    BY <2>5 DEF RecordBuffered, monitorState, pipelineState, PFTypeOK
  <2>6. ASSUME NEW d \in Settings, DurationChanged(d)
        PROVE  PFTypeOK'
    BY <2>6 DEF DurationChanged, monitorState, PFTypeOK
  <2>7. CASE UNCHANGED pfvars
    BY <2>7 DEF pfvars, PFTypeOK
  <2> QED
    BY <2>2, <2>3, <2>4, <2>5, <2>6, <2>7 DEF PFNext
<1> QED
  BY <1>1, <1>2, PTL DEF PFSpec

-----------------------------------------------------------------------------
(* Both serial strategies implement OrderedDelivery, for every number of      *)
(* modules, every choice of the critical ones and every number of chunks.     *)
(* The refinement needs one invariant: while the loop runs, the chunks that   *)
(* are through, the one in hand, the tasks in their order and the next        *)
(* number line up without a gap.                                             *)
Through == metrics.processed + metrics.failed

(* The first number that is neither through nor in hand.                     *)
FirstPending == IF serial_loop = "work" THEN Through + 1 ELSE Through

SerialTypes ==
    /\ serial_mode \in {"sequential", "asyncio"}
    /\ serial_loop \in {"read", "work", "tasks", "ended", "error"}
    /\ serial_over \in {"no", "ended", "error"}
    /\ chunk_index \in Nat
    /\ async_tasks \in Seq(Nat)
    /\ in_hand \in [chunk : Nat, pos : Nat]
    /\ metrics \in [processed : Nat, failed : Nat]

(* What has been read and is not through or in hand waits in its order.      *)
LinedUp(tasks, first, after) ==
    /\ after = first + Len(tasks)
    /\ \A i \in 1 .. Len(tasks) : tasks[i] = first + i - 1

SerialInv ==
    /\ SerialTypes
    /\ Sequential => async_tasks = <<>>
    /\ serial_loop \in {"read", "work", "tasks"} => LinedUp(async_tasks, FirstPending, chunk_index)
    /\ serial_loop = "work" => in_hand.chunk = Through

(* A new task goes to the end of the line, and the next one comes from its   *)
(* front.                                                                   *)
LEMMA JoinsLine ==
  ASSUME NEW tasks \in Seq(Nat), NEW first \in Nat, NEW after \in Nat,
         LinedUp(tasks, first, after)
  PROVE  /\ Append(tasks, after) \in Seq(Nat)
         /\ LinedUp(Append(tasks, after), first, after + 1)
<1>1. /\ Len(Append(tasks, after)) = Len(tasks) + 1 /\ Len(tasks) \in Nat
      /\ \A i \in 1 .. Len(tasks) : Append(tasks, after)[i] = tasks[i]
      /\ Append(tasks, after)[Len(tasks) + 1] = after
      /\ Append(tasks, after) \in Seq(Nat)
  BY LenProperties, AppendProperties
<1>2. ASSUME NEW i \in 1 .. Len(tasks) + 1
      PROVE  Append(tasks, after)[i] = first + i - 1
  <2>1. CASE i \in 1 .. Len(tasks)
    BY <1>1, <2>1 DEF LinedUp
  <2>2. CASE i = Len(tasks) + 1
    BY <1>1, <2>2 DEF LinedUp
  <2> QED
    BY <1>1, <2>1, <2>2
<1> QED
  BY <1>1, <1>2 DEF LinedUp

LEMMA LeavesLine ==
  ASSUME NEW tasks \in Seq(Nat), tasks # <<>>,
         NEW first \in Nat, NEW after \in Nat, LinedUp(tasks, first, after)
  PROVE  /\ Tail(tasks) \in Seq(Nat)
         /\ tasks[1] = first
         /\ LinedUp(Tail(tasks), first + 1, after)
<1>1. Len(tasks) \in Nat \ {0}
  BY LenProperties, EmptySeq
<1>2. /\ Tail(tasks) \in Seq(Nat) /\ Len(Tail(tasks)) = Len(tasks) - 1
      /\ \A i \in 1 .. Len(tasks) - 1 : Tail(tasks)[i] = tasks[i + 1]
  BY <1>1, HeadTailProperties
<1>3. ASSUME NEW i \in 1 .. Len(tasks) - 1
      PROVE  Tail(tasks)[i] = (first + 1) + i - 1
  <2>1. i + 1 \in 1 .. Len(tasks)
    BY <1>1
  <2> QED
    BY <1>2, <2>1 DEF LinedUp
<1> QED
  BY <1>1, <1>2, <1>3 DEF LinedUp

(* What TaskBegins leaves is the rest of the line.                           *)
LEMMA TakesFirst ==
  ASSUME NEW tasks \in Seq(Nat), tasks # <<>>
  PROVE  SubSeq(tasks, 1, 1 - 1) \o SubSeq(tasks, 1 + 1, Len(tasks)) = Tail(tasks)
<1>1. Len(tasks) \in Nat \ {0}
  BY LenProperties, EmptySeq
<1>2. SubSeq(tasks, 1, 1 - 1) = <<>>
  BY <1>1, SubSeqEmpty
<1>3. SubSeq(tasks, 1 + 1, Len(tasks)) = Tail(tasks) /\ Tail(tasks) \in Seq(Nat)
  BY <1>1, HeadTailProperties, TailIsSubSeq
<1> QED
  BY <1>2, <1>3, ConcatEmptySeq

(* A chunk is through by one of the two counters.                            *)
LEMMA CountedOnce ==
  ASSUME metrics \in [processed : Nat, failed : Nat],
         \/ metrics' = [metrics EXCEPT !.processed = @ + 1]
         \/ metrics' = [metrics EXCEPT !.failed = @ + 1]
  PROVE  /\ metrics' \in [processed : Nat, failed : Nat]
         /\ Through' = Through + 1
<1> DEFINE p == metrics.processed  f == metrics.failed
<1>1. p \in Nat /\ f \in Nat
  OBVIOUS
<1>2. CASE metrics' = [metrics EXCEPT !.processed = @ + 1]
  <2>1. metrics'.processed = p + 1 /\ metrics'.failed = f
    BY <1>2
  <2> QED
    BY <1>1, <1>2, <2>1 DEF Through
<1>3. CASE metrics' = [metrics EXCEPT !.failed = @ + 1]
  <2>1. metrics'.processed = p /\ metrics'.failed = f + 1
    BY <1>3
  <2> QED
    BY <1>1, <1>3, <2>1 DEF Through
<1> QED
  BY <1>2, <1>3

(* Every step keeps the line, and is a step of OrderedDelivery or none.      *)
StepIsFine == SerialInv' /\ [SOD!Next]_(SOD!odvars)

LEMMA StopStep == ASSUME SerialInv, SerialStop PROVE StepIsFine
  BY DEF SerialStop, StepIsFine, SerialInv, SerialTypes, Sequential, Through,
         FirstPending, LinedUp, SOD!odvars

LEMMA ReadStep == ASSUME SerialInv, LoopReads PROVE StepIsFine
<1>1. LinedUp(async_tasks, Through, chunk_index) /\ Through \in Nat
  BY DEF LoopReads, SerialInv, SerialTypes, FirstPending, Through
<1>2. UNCHANGED <<serial_mode, serial_over, metrics, written, Through>>
  BY DEF LoopReads, Through
<1>3. chunk_index' = chunk_index + 1 /\ chunk_index \in Nat /\ chunk_index < MaxSerial
  BY DEF LoopReads, SerialInv, SerialTypes
<1>4. CASE Sequential
  <2>1. /\ async_tasks = <<>> /\ async_tasks' = <<>>
        /\ serial_loop' = "work" /\ in_hand' = [chunk |-> chunk_index, pos |-> 0]
    BY <1>4 DEF LoopReads, SerialInv, Begun
  <2>2. Len(async_tasks) = 0
    BY <2>1
  <2>3. chunk_index = Through
    BY <1>1, <1>3, <2>2 DEF LinedUp
  <2>4. FirstPending' = Through + 1
    BY <1>2, <2>1 DEF FirstPending
  <2>5. LinedUp(async_tasks', FirstPending', chunk_index')
    BY <1>1, <1>3, <2>1, <2>2, <2>3, <2>4 DEF LinedUp
  <2>6. SerialTypes'
    BY <1>2, <1>3, <2>1 DEF SerialInv, SerialTypes
  <2> QED
    BY <1>2, <2>1, <2>3, <2>5, <2>6 DEF StepIsFine, SerialInv, Sequential, SOD!odvars, Through
<1>5. CASE ~Sequential
  <2>1. async_tasks' = Append(async_tasks, chunk_index) /\ UNCHANGED <<serial_loop, in_hand>>
    BY <1>5 DEF LoopReads
  <2>2. async_tasks' \in Seq(Nat) /\ LinedUp(async_tasks', Through, chunk_index')
    BY <1>1, <1>3, <2>1, JoinsLine DEF SerialInv, SerialTypes
  <2>3. SerialTypes'
    BY <1>2, <1>3, <2>1, <2>2 DEF SerialInv, SerialTypes
  <2>4. serial_loop' = "read" /\ FirstPending' = Through
    BY <1>2, <2>1 DEF LoopReads, FirstPending
  <2> QED
    BY <1>2, <1>5, <2>2, <2>3, <2>4 DEF StepIsFine, SerialInv, Sequential, SOD!odvars, Through
<1> QED
  BY <1>4, <1>5

(* The steps of the loop that move no chunk.                                 *)
LEMMA LoopStep ==
  ASSUME SerialInv, LoopSleeps \/ TasksDone \/ LoopEnds \/ InputRaises
  PROVE  StepIsFine
<1>1. /\ UNCHANGED <<serial_mode, chunk_index, async_tasks, in_hand, metrics, written>>
      /\ serial_loop \in {"read", "tasks"}
      /\ serial_loop' \in {"read", "tasks", "ended", "error"}
      /\ serial_over' \in {"no", "ended", "error"}
  BY DEF SerialInv, SerialTypes, LoopSleeps, TasksDone, LoopEnds, InputRaises, Over
<1>2. UNCHANGED <<Through, FirstPending>>
  BY <1>1 DEF Through, FirstPending
<1>3. SerialTypes'
  BY <1>1 DEF SerialInv, SerialTypes
<1> QED
  BY <1>1, <1>2, <1>3 DEF StepIsFine, SerialInv, Sequential, SOD!odvars, Through

LEMMA BeginStep == ASSUME SerialInv, TaskBegins PROVE StepIsFine
<1>1. /\ UNCHANGED <<serial_mode, serial_over, chunk_index, metrics, written, Through>>
      /\ serial_loop = "tasks" /\ serial_loop' = "work"
      /\ async_tasks # <<>> /\ async_tasks \in Seq(Nat) /\ chunk_index \in Nat
  BY DEF TaskBegins, SerialInv, SerialTypes, Through
<1>2. LinedUp(async_tasks, Through, chunk_index) /\ Through \in Nat
  BY <1>1 DEF SerialInv, SerialTypes, FirstPending, Through
<1>3. async_tasks' = Tail(async_tasks)
  BY <1>1, TakesFirst DEF TaskBegins, TaskAt
<1>4. /\ async_tasks[1] = Through
      /\ async_tasks' \in Seq(Nat) /\ LinedUp(async_tasks', Through + 1, chunk_index)
  BY <1>1, <1>2, <1>3, LeavesLine
<1>5. in_hand' = [chunk |-> Through, pos |-> 0]
  BY <1>4 DEF TaskBegins, TaskAt, Begun
<1>6. FirstPending' = Through + 1
  BY <1>1 DEF FirstPending
<1>7. SerialTypes'
  BY <1>1, <1>2, <1>4, <1>5 DEF SerialInv, SerialTypes
<1>8. ~Sequential /\ ~Sequential'
  BY <1>1 DEF SerialInv, Sequential
<1> QED
  BY <1>1, <1>4, <1>5, <1>6, <1>7, <1>8 DEF StepIsFine, SerialInv, SOD!odvars, Through

LEMMA ModuleStep == ASSUME SerialInv, ModuleDone PROVE StepIsFine
<1>1. UNCHANGED <<serial_mode, serial_over, serial_loop, chunk_index, async_tasks, metrics, written>>
  BY DEF ModuleDone
<1>2. in_hand' \in [chunk : Nat, pos : Nat] /\ in_hand'.chunk = in_hand.chunk
  BY SerialAssumption DEF ModuleDone, SerialInv, SerialTypes
<1>3. SerialTypes' /\ UNCHANGED <<Through, FirstPending>>
  BY <1>1, <1>2 DEF SerialInv, SerialTypes, Through, FirstPending
<1> QED
  BY <1>1, <1>2, <1>3 DEF StepIsFine, SerialInv, Sequential, SOD!odvars, Through

(* A chunk that leaves "work": counted once, or the loop is over.            *)
LEMMA LeavesWork ==
  ASSUME SerialInv, serial_loop = "work",
         UNCHANGED <<serial_mode, serial_over, chunk_index, async_tasks>>, in_hand' = None,
         metrics' \in [processed : Nat, failed : Nat],
         \/ serial_loop' \in {"read", "tasks"} /\ Through' = Through + 1
         \/ serial_loop' = "error"
  PROVE  SerialInv'
<1>1. in_hand' \in [chunk : Nat, pos : Nat]
  BY SerialAssumption DEF None
<1>2. SerialTypes'
  BY <1>1 DEF SerialInv, SerialTypes
<1>3. serial_loop' # "error" => FirstPending' = FirstPending
  BY DEF FirstPending
<1> QED
  BY <1>2, <1>3 DEF SerialInv, Sequential

LEMMA RaiseStep == ASSUME SerialInv, ModuleRaises PROVE StepIsFine
<1>1. /\ serial_loop = "work" /\ in_hand' = None
      /\ UNCHANGED <<serial_mode, serial_over, chunk_index, async_tasks, written>>
  BY DEF ModuleRaises, Processing
<1>2. CASE Sequential
  <2>1. serial_loop' = "error" /\ UNCHANGED <<metrics, Through>>
    BY <1>2 DEF ModuleRaises, SerialInv, SerialTypes, Through
  <2>2. SerialInv'
    BY <1>1, <2>1, LeavesWork DEF SerialInv, SerialTypes
  <2> QED
    BY <1>1, <2>1, <2>2 DEF StepIsFine, SOD!odvars, Through
<1>3. CASE ~Sequential
  <2>1. serial_loop' = "tasks" /\ metrics' = [metrics EXCEPT !.failed = @ + 1]
    BY <1>3 DEF ModuleRaises, Resumed
  <2>2. /\ metrics' \in [processed : Nat, failed : Nat]
        /\ Through' = Through + 1
    BY <2>1, CountedOnce DEF SerialInv, SerialTypes
  <2>3. SerialInv'
    BY <1>1, <2>1, <2>2, LeavesWork
  <2> QED
    BY <1>1, <2>2, <2>3 DEF StepIsFine, SOD!Next, SOD!GiveUp, SOD!odvars, Through
<1> QED
  BY <1>2, <1>3

LEMMA WriteStep == ASSUME SerialInv, SinkWrites PROVE StepIsFine
<1>1. /\ serial_loop = "work" /\ in_hand' = None /\ in_hand.chunk = Through
      /\ UNCHANGED <<serial_mode, serial_over, chunk_index, async_tasks>>
      /\ serial_loop' \in {"read", "tasks"}
  BY DEF SinkWrites, SerialInv, Resumed
<1>2. PICK raised \in BOOLEAN :
        /\ written' = IF raised THEN written ELSE Append(written, in_hand.chunk)
        /\ metrics' = Counted(raised)
  BY DEF SinkWrites
<1>3. /\ metrics' \in [processed : Nat, failed : Nat]
      /\ Through' = Through + 1
  BY <1>2, CountedOnce DEF Counted, SerialInv, SerialTypes
<1>4. SerialInv'
  BY <1>1, <1>3, LeavesWork
<1>5. SOD!Next
  BY <1>1, <1>2, <1>3 DEF SOD!Next, SOD!Deliver, SOD!GiveUp, Through
<1> QED
  BY <1>4, <1>5 DEF StepIsFine

LEMMA SerialStep == SerialInv /\ [SSNext]_ssvars => StepIsFine
<1> SUFFICES ASSUME SerialInv, [SSNext]_ssvars PROVE StepIsFine
  OBVIOUS
<1>1. CASE UNCHANGED ssvars
  BY <1>1 DEF ssvars, StepIsFine, SerialInv, SerialTypes, Sequential, Through,
              FirstPending, LinedUp, SOD!odvars
<1> QED
  BY <1>1, StopStep, ReadStep, LoopStep, BeginStep, ModuleStep,
     RaiseStep, WriteStep DEF SSNext

LEMMA SerialInit == SSInit => SerialInv /\ SOD!Init
<1> SUFFICES ASSUME SSInit PROVE SerialInv /\ SOD!Init
  OBVIOUS
<1>1. /\ metrics = [processed |-> 0, failed |-> 0] /\ Through = 0
      /\ in_hand = [chunk |-> MaxSerial, pos |-> 0]
      /\ async_tasks = <<>> /\ chunk_index = 0 /\ serial_loop = "read" /\ written = <<>>
  BY DEF SSInit, NoMetrics, None, Through
<1>2. SerialTypes
  BY <1>1, SerialAssumption DEF SerialTypes, SSInit
<1>3. LinedUp(async_tasks, FirstPending, chunk_index)
  BY <1>1 DEF LinedUp, FirstPending
<1>4. SOD!Init
  BY <1>1 DEF SOD!Init, Through
<1> QED
  BY <1>1, <1>2, <1>3, <1>4 DEF SerialInv

(* Each strategy hands its chunks to the sink, or gives them up for good, one *)
(* by one in the order they were read (_run_sequential_loop, _run_async_loop, *)
(* _process_chunk_unlocked).                                                *)
THEOREM SerialImplementsOrderedDelivery == SSSpec => SerialIsOrdered
<1>1. SSInit => SerialInv /\ SOD!Init
  BY SerialInit
<1>2. SerialInv /\ [SSNext]_ssvars => SerialInv' /\ [SOD!Next]_(SOD!odvars)
  BY SerialStep DEF StepIsFine
<1> QED
  BY <1>1, <1>2, PTL DEF SSSpec, SerialIsOrdered, SOD!Spec

(* Nothing counts past MaxSerial: what is through, in hand and waiting are    *)
(* different chunks that were read, also while the tasks that are left run.   *)
SerialBounds ==
    /\ serial_stop \in BOOLEAN
    /\ chunk_index <= MaxSerial
    /\ FirstPending + Len(async_tasks) <= chunk_index
    /\ \A i \in 1 .. Len(async_tasks) : async_tasks[i] < chunk_index
    /\ in_hand.chunk <= MaxSerial /\ in_hand.pos <= SerialModules

(* One more waits: it has the highest number.                                *)
LEMMA BoundsRead ==
  ASSUME SerialInv, SerialBounds, LoopReads
  PROVE  SerialBounds'
<1>1. /\ UNCHANGED <<serial_stop, metrics, Through>>
      /\ chunk_index \in Nat /\ chunk_index < MaxSerial /\ chunk_index' = chunk_index + 1
      /\ MaxSerial \in Nat /\ SerialModules \in Nat
      /\ serial_loop = "read" /\ FirstPending = Through /\ Through \in Nat
  BY SerialAssumption DEF LoopReads, Through, FirstPending, SerialInv, SerialTypes
<1>2. Through + Len(async_tasks) <= chunk_index /\ async_tasks \in Seq(Nat)
  BY <1>1 DEF SerialBounds, SerialInv, SerialTypes
<1>3. CASE Sequential
  <2>1. /\ async_tasks = <<>> /\ async_tasks' = <<>>
        /\ serial_loop' = "work" /\ in_hand' = [chunk |-> chunk_index, pos |-> 0]
    BY <1>3 DEF LoopReads, SerialInv, Begun
  <2>2. Len(async_tasks') = 0 /\ FirstPending' = Through + 1
    BY <1>1, <2>1 DEF FirstPending
  <2> QED
    BY <1>1, <1>2, <2>1, <2>2 DEF SerialBounds
<1>4. CASE ~Sequential
  <2>1. async_tasks' = Append(async_tasks, chunk_index) /\ UNCHANGED <<serial_loop, in_hand>>
    BY <1>4 DEF LoopReads
  <2>2. Len(async_tasks') = Len(async_tasks) + 1 /\ Len(async_tasks) \in Nat
    BY <1>1, <1>2, <2>1, LenProperties, AppendProperties
  <2>3. \A i \in 1 .. Len(async_tasks') : async_tasks'[i] < chunk_index'
    <3>1. ASSUME NEW i \in 1 .. Len(async_tasks) + 1
          PROVE  async_tasks'[i] < chunk_index + 1
      <4>1. CASE i \in 1 .. Len(async_tasks)
        <5>1. async_tasks'[i] = async_tasks[i] /\ async_tasks[i] \in Nat
          BY <1>1, <1>2, <2>1, <4>1, AppendProperties
        <5>2. async_tasks[i] < chunk_index
          BY <4>1 DEF SerialBounds
        <5> QED
          BY <1>1, <5>1, <5>2
      <4>2. CASE i = Len(async_tasks) + 1
        <5>1. async_tasks'[i] = chunk_index
          BY <1>1, <1>2, <2>1, <4>2, AppendProperties
        <5> QED
          BY <1>1, <5>1
      <4> QED
        BY <2>2, <4>1, <4>2
    <3> QED
      BY <1>1, <2>2, <3>1
  <2>4. FirstPending' = Through
    BY <1>1, <2>1 DEF FirstPending
  <2> QED
    BY <1>1, <1>2, <2>1, <2>2, <2>3, <2>4 DEF SerialBounds
<1> QED
  BY <1>3, <1>4

(* The front of the line leaves it, to be processed.                         *)
LEMMA BoundsFront ==
  ASSUME SerialInv, SerialBounds, TaskBegins
  PROVE  SerialBounds'
<1>1. /\ UNCHANGED <<serial_mode, serial_over, chunk_index, serial_stop>>
      /\ async_tasks # <<>> /\ async_tasks \in Seq(Nat) /\ chunk_index \in Nat
      /\ MaxSerial \in Nat /\ SerialModules \in Nat
      /\ FirstPending = Through /\ Through \in Nat
  <2>1. MaxSerial \in Nat /\ SerialModules \in Nat /\ Through \in Nat
        /\ async_tasks \in Seq(Nat) /\ chunk_index \in Nat
    BY SerialAssumption DEF Through, SerialInv, SerialTypes
  <2> QED
    BY <2>1 DEF TaskBegins, FirstPending
<1>2. async_tasks' = Tail(async_tasks)
  BY <1>1, TakesFirst DEF TaskBegins, TaskAt
<1>3. /\ Len(async_tasks) \in Nat \ {0} /\ Len(async_tasks') = Len(async_tasks) - 1
      /\ \A i \in 1 .. Len(async_tasks) - 1 : async_tasks'[i] = async_tasks[i + 1]
  BY <1>1, <1>2, LenProperties, EmptySeq, HeadTailProperties
<1>4. \A i \in 1 .. Len(async_tasks') : async_tasks'[i] < chunk_index'
  <2>1. ASSUME NEW i \in 1 .. Len(async_tasks) - 1
        PROVE  async_tasks'[i] < chunk_index
    <3>1. i + 1 \in 1 .. Len(async_tasks)
      BY <1>3
    <3> QED
      BY <1>3, <3>1 DEF SerialBounds
  <2> QED
    BY <1>1, <1>3, <2>1
<1>5. FirstPending' = Through + 1
  BY DEF TaskBegins, FirstPending, Through
<1>6. in_hand'.chunk <= MaxSerial /\ in_hand'.pos <= SerialModules
  <2>1. in_hand' = [chunk |-> async_tasks[1], pos |-> 0] /\ 1 \in 1 .. Len(async_tasks)
    BY <1>3 DEF TaskBegins, TaskAt, Begun
  <2>2. async_tasks[1] < chunk_index /\ chunk_index <= MaxSerial /\ async_tasks[1] \in Nat
    BY <1>1, <2>1 DEF SerialBounds
  <2> QED
    BY <1>1, <2>1, <2>2
<1> QED
  BY <1>1, <1>3, <1>4, <1>5, <1>6 DEF SerialBounds

(* The chunk in hand goes one module on, which is at most the last.          *)
LEMMA BoundsModule ==
  ASSUME SerialInv, SerialBounds, ModuleDone
  PROVE  SerialBounds'
<1>1. UNCHANGED <<serial_mode, serial_over, serial_loop, serial_stop, chunk_index, async_tasks, metrics, Through, FirstPending>>
  BY DEF ModuleDone, Through, FirstPending
<1>2. /\ in_hand \in [chunk : Nat, pos : Nat] /\ in_hand.pos < SerialModules
      /\ in_hand' = [in_hand EXCEPT !.pos = IF serial_stop THEN SerialModules ELSE @ + 1]
  BY DEF ModuleDone, Processing, SerialInv, SerialTypes
<1>3. in_hand'.chunk = in_hand.chunk /\ in_hand'.pos <= SerialModules
  BY <1>2, SerialAssumption
<1> QED
  BY <1>1, <1>3 DEF SerialBounds

(* A chunk that leaves the hand is through, or was given up with the loop.   *)
LEMMA BoundsLeave ==
  ASSUME SerialInv, SerialBounds, ModuleRaises \/ SinkWrites
  PROVE  SerialBounds'
<1>1. /\ UNCHANGED <<serial_mode, serial_over, chunk_index, async_tasks, serial_stop>>
      /\ serial_loop = "work" /\ in_hand' = None
      /\ serial_loop' \in {"read", "tasks", "error"}
  BY DEF ModuleRaises, SinkWrites, Processing, Resumed
<1>2. Through \in Nat /\ FirstPending = Through + 1 /\ Len(async_tasks) \in Nat /\ chunk_index \in Nat
  BY <1>1, LenProperties DEF SerialInv, SerialTypes, Through, FirstPending
<1>3. Through' \in {Through, Through + 1}
  <2>1. \/ UNCHANGED metrics
        \/ metrics' = [metrics EXCEPT !.processed = @ + 1]
        \/ metrics' = [metrics EXCEPT !.failed = @ + 1]
    BY DEF ModuleRaises, SinkWrites, Counted, SerialInv, SerialTypes
  <2> QED
    BY <2>1, CountedOnce DEF SerialInv, SerialTypes, Through
<1>4. FirstPending' = Through'
  BY <1>1 DEF FirstPending
<1>5. FirstPending' + Len(async_tasks') <= chunk_index'
  BY <1>1, <1>2, <1>3, <1>4 DEF SerialBounds
<1> QED
  BY <1>1, <1>5, SerialAssumption DEF SerialBounds, None

LEMMA BoundsStep == SerialInv /\ SerialBounds /\ [SSNext]_ssvars => SerialBounds'
<1> SUFFICES ASSUME SerialInv, SerialBounds, [SSNext]_ssvars PROVE SerialBounds'
  OBVIOUS
<1>1. CASE UNCHANGED ssvars
  BY <1>1 DEF ssvars, SerialBounds, FirstPending, Through
<1>2. CASE SerialStop
  BY <1>2 DEF SerialStop, SerialBounds, FirstPending, Through
<1>3. ASSUME LoopSleeps \/ TasksDone \/ LoopEnds \/ InputRaises
      PROVE  SerialBounds'
  <2>1. /\ UNCHANGED <<serial_stop, chunk_index, async_tasks, in_hand, metrics>>
        /\ serial_loop \in {"read", "tasks"}
        /\ serial_loop' \in {"read", "tasks", "ended", "error"}
    BY <1>3 DEF SerialInv, SerialTypes, LoopSleeps, TasksDone, LoopEnds, InputRaises, Over
  <2>2. UNCHANGED <<Through, FirstPending>>
    BY <2>1 DEF Through, FirstPending
  <2> QED
    BY <2>1, <2>2 DEF SerialBounds
<1> QED
  BY <1>1, <1>2, <1>3, BoundsRead, BoundsFront, BoundsModule, BoundsLeave DEF SSNext

(* In every reachable state of either strategy the numbers of the chunks, the *)
(* position in the chain of modules and the two counters are in their        *)
(* ranges: no chunk is counted twice, and none past the ones that were read   *)
(* (PipelineMetrics; the counter of _run_sequential_loop and                 *)
(* _run_async_loop).                                                        *)
THEOREM SerialCountsStayInRange == SSSpec => []SSTypeOK
<1>1. SSInit => SerialInv /\ SerialBounds
  <2> SUFFICES ASSUME SSInit PROVE SerialInv /\ SerialBounds
    OBVIOUS
  <2>1. /\ chunk_index = 0 /\ async_tasks = <<>> /\ serial_stop = FALSE /\ serial_loop = "read"
        /\ in_hand = [chunk |-> MaxSerial, pos |-> 0]
        /\ metrics = [processed |-> 0, failed |-> 0]
    BY DEF SSInit, NoMetrics, None
  <2>2. FirstPending = 0 /\ Len(async_tasks) = 0
    BY <2>1 DEF FirstPending, Through
  <2>3. MaxSerial \in Nat /\ SerialModules \in Nat
    BY SerialAssumption
  <2>4. \A i \in 1 .. Len(async_tasks) : async_tasks[i] < chunk_index
    BY <2>2
  <2>5. in_hand.chunk <= MaxSerial /\ in_hand.pos <= SerialModules
    BY <2>1, <2>3
  <2>6. chunk_index <= MaxSerial /\ FirstPending + Len(async_tasks) <= chunk_index
    BY <2>1, <2>2, <2>3
  <2>7. serial_stop \in BOOLEAN
    BY <2>1
  <2> QED
    BY <2>4, <2>5, <2>6, <2>7, SerialInit DEF SerialBounds
<1>2. SerialInv /\ SerialBounds /\ [SSNext]_ssvars => SerialInv' /\ SerialBounds'
  BY SerialStep, BoundsStep DEF StepIsFine
<1>3. SerialInv /\ SerialBounds => SSTypeOK
  <2> SUFFICES ASSUME SerialInv, SerialBounds PROVE SSTypeOK
    OBVIOUS
  <2> DEFINE p == metrics.processed  f == metrics.failed
  <2>1. /\ metrics = [processed |-> p, failed |-> f]
        /\ p \in Nat /\ f \in Nat
    BY DEF SerialInv, SerialTypes
  <2>2. /\ Len(async_tasks) \in Nat /\ chunk_index \in Nat /\ MaxSerial \in Nat /\ SerialModules \in Nat
        /\ chunk_index <= MaxSerial /\ FirstPending + Len(async_tasks) <= chunk_index
        /\ FirstPending \in {p + f, p + f + 1}
    BY <2>1, LenProperties, SerialAssumption DEF SerialInv, SerialTypes, SerialBounds, FirstPending, Through
  <2>3. p \in 0 .. MaxSerial /\ f \in 0 .. MaxSerial
    BY <2>1, <2>2
  <2>4. metrics \in [{"processed", "failed"} -> 0 .. MaxSerial]
    <3>1. metrics \in [processed : 0 .. MaxSerial, failed : 0 .. MaxSerial]
      BY <2>1, <2>3
    <3> QED
      BY <3>1
  <2>5. \A i \in 1 .. Len(async_tasks) : async_tasks[i] \in 0 .. MaxSerial - 1
    <3>1. ASSUME NEW i \in 1 .. Len(async_tasks) PROVE async_tasks[i] \in 0 .. MaxSerial - 1
      <4>1. async_tasks[i] \in Nat /\ async_tasks[i] < chunk_index
        BY <3>1 DEF SerialInv, SerialTypes, SerialBounds
      <4> QED
        BY <2>2, <4>1
    <3> QED
      BY <3>1
  <2>6. in_hand.chunk \in 0 .. MaxSerial /\ in_hand.pos \in 0 .. SerialModules
    BY <2>2 DEF SerialInv, SerialTypes, SerialBounds
  <2> QED
    BY <2>2, <2>4, <2>5, <2>6 DEF SSTypeOK, SerialInv, SerialTypes, SerialBounds
<1> QED
  BY <1>1, <1>2, <1>3, PTL DEF SSSpec

-----------------------------------------------------------------------------
(* Transcription. *)
(* What a worker remembers of its call, and what is stored: the language of  *)
(* the moment is always among those the chunk has seen, so the language of   *)
(* the call is too; an entry is in the language of its key.                  *)
Calls == [at : {"none", "missed", "called"}, audio : Audios \cup {"none"},
          key : CacheKeys \cup {"none"}, used : Languages \cup {"none"},
          during : SUBSET Languages]

TranscriptionTypes ==
    /\ TRTypeOK
    /\ transcribing \in [Transcribers -> Calls]
    /\ heard \in [text : Languages \cup {"none"}, during : SUBSET Languages]
    /\ effort_spent \in [chunks : Nat, changes : Nat]

CallsAreCurrent ==
    \A w \in Transcribers :
        /\ transcribing[w].at # "none" => /\ language \in transcribing[w].during
                                          /\ transcribing[w].key \in CacheKeys
        /\ transcribing[w].at = "called" => transcribing[w].used \in transcribing[w].during

EntriesMatchKeys ==
    ~mixed => \A k \in CacheKeys : transcripts[k] \in {k[2], "none"}

TranscriptionInv ==
    TranscriptionTypes /\ CallsAreCurrent /\ EntriesMatchKeys /\ TranscriptInLanguage

LEMMA TranscriptionInit == TRInit => TranscriptionInv
<1> SUFFICES ASSUME TRInit PROVE TranscriptionInv
  OBVIOUS
<1> USE DEF TRInit, NoCall, Silence, NothingCached
<1>1. TRTypeOK
  BY DEF TRTypeOK
<1>2. TranscriptionTypes
  BY <1>1 DEF TranscriptionTypes, Calls
<1>3. CallsAreCurrent /\ EntriesMatchKeys /\ TranscriptInLanguage
  BY DEF CallsAreCurrent, EntriesMatchKeys, TranscriptInLanguage
<1> QED
  BY <1>2, <1>3 DEF TranscriptionInv

(* The model comes and goes, no language and no call with it.                *)
LEMMA ModelComesAndGoes ==
  ASSUME TranscriptionInv, WhisperStart \/ WhisperStop \/ Reload
  PROVE  TranscriptionInv'
<1> USE DEF TranscriptionInv, WhisperStart, WhisperStop, Reload, Loads, Dropped, NothingCached
<1>1. UNCHANGED <<language, transcribing, heard, mixed, effort_spent>>
  OBVIOUS
<1>2. TRTypeOK'
  BY DEF TranscriptionTypes, TRTypeOK
<1>3. EntriesMatchKeys'
  BY DEF EntriesMatchKeys
<1> QED
  BY <1>1, <1>2, <1>3 DEF TranscriptionTypes, CallsAreCurrent, TranscriptInLanguage

LEMMA LanguageMoves ==
  ASSUME TranscriptionInv, NEW on \in BOOLEAN, NEW l \in Languages, Configure(on, l)
  PROVE  TranscriptionInv'
<1> USE DEF TranscriptionInv, Configure, LanguageChanges, Dropped, NothingCached
<1>1. /\ transcribing' \in [Transcribers -> Calls]
      /\ \A w \in Transcribers :
            /\ transcribing'[w].at = transcribing[w].at
            /\ transcribing'[w].key = transcribing[w].key
            /\ transcribing'[w].used = transcribing[w].used
            /\ transcribing'[w].during = transcribing[w].during \cup {l}
  BY DEF TranscriptionTypes, Calls
<1>2. TRTypeOK'
  <2>1. /\ piped' \in BOOLEAN /\ whisper_enabled' \in BOOLEAN /\ mixed' \in BOOLEAN
        /\ whisper' \in BOOLEAN
    BY DEF TranscriptionTypes, TRTypeOK
  <2>2. whisper_state' \in {"idle", "running", "reloading", "disabled", "error"}
    BY DEF TranscriptionTypes, TRTypeOK
  <2>3. /\ language' \in Languages /\ heard' = heard
        /\ transcripts' \in [CacheKeys -> Languages \cup {"none"}]
    BY DEF TranscriptionTypes, TRTypeOK
  <2>4. \A w \in Transcribers : /\ transcribing'[w].at \in {"none", "missed", "called"}
                               /\ transcribing'[w].during \subseteq Languages
    <3> HIDE DEF TranscriptionInv, Configure, LanguageChanges, Dropped, NothingCached
    <3> QED  BY <1>1 DEF Calls
  <2>5. heard'.text \in Languages \cup {"none"}
    BY <2>3 DEF TranscriptionTypes, TRTypeOK
  <2> HIDE DEF TranscriptionInv, Configure, LanguageChanges, Dropped, NothingCached
  <2> QED
    BY <2>1, <2>2, <2>3, <2>4, <2>5 DEF TRTypeOK
<1>3. effort_spent' \in [chunks : Nat, changes : Nat] /\ UNCHANGED <<heard, mixed>>
  BY DEF TranscriptionTypes
<1>4. CallsAreCurrent'
  BY <1>1 DEF CallsAreCurrent
<1>5. EntriesMatchKeys'
  BY DEF EntriesMatchKeys
<1>6. TranscriptInLanguage'
  BY <1>3 DEF TranscriptInLanguage
<1>7. TranscriptionTypes'
  BY <1>1, <1>2, <1>3 DEF TranscriptionTypes
<1> QED
  BY <1>4, <1>5, <1>6, <1>7

LEMMA ToggleKeeps == ASSUME TranscriptionInv, Toggle PROVE TranscriptionInv'
<1> USE DEF TranscriptionInv, Toggle, LanguageChanges, Loads, Dropped, NothingCached
<1>1. TRTypeOK'
  BY DEF TranscriptionTypes, TRTypeOK
<1>2. effort_spent' \in [chunks : Nat, changes : Nat]
  BY DEF TranscriptionTypes
<1>3. EntriesMatchKeys'
  BY DEF EntriesMatchKeys
<1> QED
  BY <1>1, <1>2, <1>3 DEF TranscriptionTypes, CallsAreCurrent, TranscriptInLanguage

(* A worker's steps.                                                        *)
LEMMA CallMoves ==
  ASSUME TranscriptionInv, NEW w \in Transcribers,
         CacheLookUp(w) \/ CallModel(w) \/ CacheStore(w) \/ GiveUp(w)
  PROVE  TranscriptionInv'
<1> USE DEF TranscriptionInv, moduleState
<1>1. NoCall \in Calls /\ NoCall.at = "none"
  BY DEF NoCall, Calls
<1>2. /\ transcribing \in [Transcribers -> Calls]
      /\ heard \in [text : Languages \cup {"none"}, during : SUBSET Languages]
      /\ effort_spent \in [chunks : Nat, changes : Nat] /\ TRTypeOK
      /\ transcripts \in [CacheKeys -> Languages \cup {"none"}]
  BY DEF TranscriptionTypes, TRTypeOK
<1>3. CASE CacheLookUp(w)
  <2> USE <1>3 DEF CacheLookUp
  <2>1. PICK a \in Audios :
          IF transcripts[KeyOf(a)] # "none"
          THEN ModelAnswers(w, transcripts[KeyOf(a)], {language})
          ELSE /\ transcribing' = [transcribing EXCEPT ![w] =
                      [at |-> "missed", audio |-> a, key |-> KeyOf(a),
                       used |-> "none", during |-> {language}]]
               /\ heard' = heard
    OBVIOUS
  <2>2. language \in Languages /\ KeyOf(a) \in CacheKeys /\ KeyOf(a)[2] = language
    BY <1>2 DEF KeyOf, CacheKeys, TRTypeOK
  <2>3. effort_spent' \in [chunks : Nat, changes : Nat]
    BY <1>2
  <2>4. CASE transcripts[KeyOf(a)] # "none"
    <3>1. /\ heard' = [text |-> transcripts[KeyOf(a)], during |-> {language}]
          /\ transcribing' = [transcribing EXCEPT ![w] = NoCall]
      BY <2>1, <2>4 DEF ModelAnswers
    <3>2. heard' \in [text : Languages \cup {"none"}, during : SUBSET Languages]
      BY <1>2, <2>2, <3>1
    <3>3. transcribing' \in [Transcribers -> Calls]
      BY <1>1, <1>2, <3>1
    <3>4. TRTypeOK'
      BY <1>2, <3>2, <3>3 DEF TRTypeOK, Calls
    <3>5. CallsAreCurrent'
      BY <1>1, <1>2, <3>1 DEF CallsAreCurrent
    <3>6. TranscriptInLanguage'
      BY <2>2, <3>1 DEF EntriesMatchKeys, TranscriptInLanguage
    <3> QED
      BY <2>3, <3>2, <3>3, <3>4, <3>5, <3>6 DEF TranscriptionTypes, EntriesMatchKeys
  <2>5. CASE transcripts[KeyOf(a)] = "none"
    <3>1. /\ transcribing' = [transcribing EXCEPT ![w] =
                      [at |-> "missed", audio |-> a, key |-> KeyOf(a),
                       used |-> "none", during |-> {language}]]
          /\ heard' = heard
      BY <2>1, <2>5
    <3>2. [at |-> "missed", audio |-> a, key |-> KeyOf(a),
                       used |-> "none", during |-> {language}] \in Calls
      BY <2>2 DEF Calls
    <3>3. transcribing' \in [Transcribers -> Calls]
      BY <3>1, <3>2, <1>2
    <3>4. TRTypeOK'
      BY <1>2, <3>1, <3>3 DEF TRTypeOK, Calls
    <3>5. CallsAreCurrent'
      BY <1>2, <2>2, <3>1 DEF CallsAreCurrent
    <3> QED
      BY <1>2, <2>3, <3>1, <3>3, <3>4, <3>5
      DEF TranscriptionTypes, EntriesMatchKeys, TranscriptInLanguage
  <2> QED
    BY <2>4, <2>5
<1>4. CASE CallModel(w) /\ whisper
  <2>1. /\ transcribing' = [transcribing EXCEPT ![w].at = "called", ![w].used = language]
        /\ transcribing[w].at = "missed" /\ heard' = heard
        /\ UNCHANGED <<piped, language, whisper, whisper_state, whisper_enabled, transcripts, mixed, effort_spent>>
    BY <1>4 DEF CallModel
  <2>2. transcribing' \in [Transcribers -> Calls]
    <3>1. transcribing[w] \in Calls /\ language \in Languages
      BY <1>2 DEF TRTypeOK
    <3>2. [transcribing[w] EXCEPT !.at = "called", !.used = language] \in Calls
      BY <3>1 DEF Calls
    <3> QED
      BY <1>2, <2>1, <3>2
  <2>3. CallsAreCurrent'
    BY <2>1, <1>2 DEF CallsAreCurrent, Calls
  <2>4. TRTypeOK'
    BY <2>1, <2>2, <1>2 DEF TRTypeOK, Calls
  <2> QED
    BY <1>2, <2>1, <2>2, <2>3, <2>4 DEF TranscriptionTypes, EntriesMatchKeys, TranscriptInLanguage
<1>5. CASE (CallModel(w) /\ ~whisper) \/ GiveUp(w)
  <2>1. /\ heard' = [text |-> "none", during |-> transcribing[w].during]
        /\ transcribing' = [transcribing EXCEPT ![w] = NoCall]
        /\ UNCHANGED <<piped, language, whisper, whisper_state, whisper_enabled, transcripts, mixed, effort_spent>>
    BY <1>5 DEF CallModel, GiveUp, ModelAnswers
  <2>2. /\ heard' \in [text : Languages \cup {"none"}, during : SUBSET Languages]
        /\ transcribing' \in [Transcribers -> Calls]
    BY <1>1, <1>2, <2>1 DEF Calls
  <2>3. CallsAreCurrent' /\ TranscriptInLanguage'
    BY <1>1, <1>2, <2>1 DEF CallsAreCurrent, TranscriptInLanguage
  <2>4. TRTypeOK'
    BY <2>1, <2>2, <1>2 DEF TRTypeOK, Calls
  <2> QED
    BY <1>2, <2>1, <2>2, <2>3, <2>4 DEF TranscriptionTypes, EntriesMatchKeys
<1>6. CASE CacheStore(w)
  <2> DEFINE c == transcribing[w]
  <2>1. /\ c.at = "called" /\ c \in Calls
        /\ transcripts' = [transcripts EXCEPT ![c.key] = c.used]
        /\ mixed' = (mixed \/ c.used # c.key[2])
        /\ heard' = [text |-> c.used, during |-> c.during]
        /\ transcribing' = [transcribing EXCEPT ![w] = NoCall]
        /\ UNCHANGED <<piped, language, whisper, whisper_state, whisper_enabled, effort_spent>>
    BY <1>2, <1>6 DEF CacheStore, ModelAnswers
  <2>2. /\ c.key \in CacheKeys /\ c.used \in c.during /\ c.used \in Languages
        /\ c.during \in SUBSET Languages
    BY <2>1 DEF CallsAreCurrent, Calls
  <2> HIDE DEF c
  <2>3. /\ heard' \in [text : Languages \cup {"none"}, during : SUBSET Languages]
        /\ transcribing' \in [Transcribers -> Calls]
        /\ transcripts' \in [CacheKeys -> Languages \cup {"none"}]
    BY <1>1, <1>2, <2>1, <2>2
  <2>4. TRTypeOK'
    BY <2>1, <2>3, <1>2 DEF TRTypeOK, Calls
  <2>5. CallsAreCurrent' /\ TranscriptInLanguage'
    BY <1>1, <1>2, <2>1, <2>2 DEF CallsAreCurrent, TranscriptInLanguage
  <2>6. EntriesMatchKeys'
    BY <1>2, <2>1, <2>2 DEF EntriesMatchKeys
  <2> QED
    BY <1>2, <2>1, <2>3, <2>4, <2>5, <2>6 DEF TranscriptionTypes
<1> QED
  BY <1>3, <1>4, <1>5, <1>6

LEMMA TranscriptionStep == TranscriptionInv /\ [TRNext]_trvars => TranscriptionInv'
<1> SUFFICES ASSUME TranscriptionInv, [TRNext]_trvars PROVE TranscriptionInv'
  OBVIOUS
<1>1. CASE Expire
  <2> USE <1>1 DEF Expire, moduleState
  <2>1. TRTypeOK'
    BY DEF TRTypeOK, TranscriptionInv, TranscriptionTypes
  <2>2. EntriesMatchKeys'
    BY DEF TranscriptionInv, TranscriptionTypes, TRTypeOK, EntriesMatchKeys
  <2> QED
    BY <2>1, <2>2 DEF TranscriptionInv, TranscriptionTypes, CallsAreCurrent, TranscriptInLanguage
<1>2. CASE UNCHANGED trvars
  BY <1>2 DEF trvars, TranscriptionInv, TranscriptionTypes, TRTypeOK, CallsAreCurrent,
              EntriesMatchKeys, TranscriptInLanguage
<1> QED
  BY <1>1, <1>2, ModelComesAndGoes, LanguageMoves, ToggleKeeps, CallMoves DEF TRNext

(* Types, and the language of a transcript, for any number of workers,        *)
(* languages and changes (transcriber.py:180-253).                           *)
THEOREM TranscriptLanguageIsConfigured == TRSpec => [](TRTypeOK /\ TranscriptInLanguage)
<1>1. TranscriptionInv => TRTypeOK /\ TranscriptInLanguage
  BY DEF TranscriptionInv, TranscriptionTypes
<1> QED
  BY TranscriptionInit, TranscriptionStep, <1>1, PTL DEF TRSpec

-----------------------------------------------------------------------------
(* Translation. *)
TranslationSteps == {"none", "look", "hit", "ask", "got", "drop", "store"}
ChunkRecords == [at : TranslationSteps, text : Texts \cup {"none"}, oldest : Texts \cup {"none"}]

TranslationTypes ==
    /\ XTypeOK
    /\ chunk \in [Translators -> ChunkRecords]
    /\ \A w \in Translators :
          /\ chunk[w].at # "none" => chunk[w].text \in Texts
          /\ chunk[w].at = "drop" => chunk[w].oldest \in Texts
    /\ stored \in Seq(Texts)

TranslationInv == TranslationTypes /\ CacheIsBounded

LEMMA TranslationInit == XInit => TranslationInv
<1> SUFFICES ASSUME XInit PROVE TranslationInv
  OBVIOUS
<1> USE DEF XInit, NoChunk
<1>1. chunk \in [Translators -> ChunkRecords] /\ stored \in Seq(Texts) /\ stored = <<>>
  BY DEF ChunkRecords, TranslationSteps
<1>2. XTypeOK
  <2>1. translating \in BOOLEAN /\ awaiting \in BOOLEAN
    OBVIOUS
  <2> QED
    BY <2>1 DEF XTypeOK
<1>3. Storing = {}
  BY DEF Storing
<1>4. Len(stored) + Cardinality(Storing) = 0
  BY <1>1, <1>3, FS_EmptySet
<1>5. Cardinality(Translators) \in Nat
  BY TranslatorsAssumption, FS_CardinalityType
<1> QED
  BY <1>1, <1>2, <1>4, <1>5, CacheSizeAssumption DEF TranslationInv, TranslationTypes, CacheIsBounded

(* A worker that begins or ends to be about to store.                        *)
LEMMA StoringCount ==
  ASSUME TranslationTypes, NEW w \in Translators, NEW r \in ChunkRecords,
         chunk' = [chunk EXCEPT ![w] = r]
  PROVE  /\ IsFiniteSet(Storing) /\ Cardinality(Storing) \in Nat
         /\ Cardinality(Translators) \in Nat
         /\ Cardinality(Storing) <= Cardinality(Translators)
         /\ chunk[w].at # "store" => Cardinality(Storing) < Cardinality(Translators)
         /\ chunk[w].at # "store" /\ r.at = "store" => Cardinality(Storing') = Cardinality(Storing) + 1
         /\ chunk[w].at = "store" /\ r.at # "store" => Cardinality(Storing') = Cardinality(Storing) - 1
         /\ (chunk[w].at = "store" <=> r.at = "store") => Storing' = Storing
<1>1. IsFiniteSet(Translators) /\ Cardinality(Translators) \in Nat
  BY TranslatorsAssumption, FS_CardinalityType
<1>2. Storing \subseteq Translators
  BY DEF Storing
<1>3. IsFiniteSet(Storing) /\ Cardinality(Storing) \in Nat
      /\ Cardinality(Storing) <= Cardinality(Translators)
  BY <1>1, <1>2, FS_Subset, FS_CardinalityType
<1>4. chunk[w].at # "store" => Storing # Translators
  BY DEF Storing
<1>5. chunk[w].at # "store" => Cardinality(Storing) < Cardinality(Translators)
  BY <1>1, <1>2, <1>3, <1>4, FS_Subset
<1>6. chunk \in [Translators -> ChunkRecords]
  BY DEF TranslationTypes
<1>7. r.at = "store" => Storing' = Storing \cup {w}
  BY <1>6 DEF Storing
<1>8. r.at # "store" => Storing' = Storing \ {w}
  BY <1>6 DEF Storing
<1>9. (w \in Storing) <=> (chunk[w].at = "store")
  BY DEF Storing
<1>10. chunk[w].at # "store" /\ r.at = "store" => Cardinality(Storing') = Cardinality(Storing) + 1
  BY <1>3, <1>7, <1>9, FS_AddElement
<1>11. chunk[w].at = "store" /\ r.at # "store" => Cardinality(Storing') = Cardinality(Storing) - 1
  BY <1>3, <1>8, <1>9, FS_RemoveElement
<1>12. (chunk[w].at = "store" <=> r.at = "store") => Storing' = Storing
  BY <1>7, <1>8, <1>9
<1> QED
  BY <1>1, <1>3, <1>5, <1>10, <1>11, <1>12

(* The translator's life and settings leave the workers alone.               *)
LEMMA TranslatorMoves ==
  ASSUME TranslationInv,
         \/ ArgosStart \/ DmrStart
         \/ \E s \in Tongues \cup {"auto"} : ArgosConfigure(s) \/ DmrConfigure(s)
  PROVE  TranslationInv'
<1>1. UNCHANGED <<chunk, stored, translator>>
  BY DEF ArgosStart, DmrStart, ArgosConfigure, DmrConfigure, Setting
<1>2. translating' \in BOOLEAN
  BY DEF ArgosStart, DmrStart, ArgosConfigure, DmrConfigure, Setting,
         TranslationInv, TranslationTypes, XTypeOK
<1>3. awaiting' \in BOOLEAN
  BY DEF ArgosStart, DmrStart, ArgosConfigure, DmrConfigure, Setting,
         TranslationInv, TranslationTypes, XTypeOK
<1>4. source' \in Tongues \cup {"auto"} /\ pair' \in Tongues \cup {"none", "up"}
  BY DEF ArgosStart, DmrStart, ArgosConfigure, DmrConfigure, Setting, ArgosPair, NeedsReload,
         TranslationInv, TranslationTypes, XTypeOK
<1> QED
  BY <1>1, <1>2, <1>3, <1>4
  DEF TranslationInv, TranslationTypes, XTypeOK, CacheIsBounded, Storing

LEMMA TranslatorStops == ASSUME TranslationInv, XStop PROVE TranslationInv'
<1>1. /\ UNCHANGED <<translator, source, awaiting, chunk>>
      /\ translating' = FALSE /\ pair' = "none" /\ stored' = <<>>
      /\ \A w \in Translators : chunk[w].at = "none"
  BY DEF XStop
<1>2. Storing' = {} /\ Len(stored') = 0 /\ stored' \in Seq(Texts)
  BY <1>1 DEF Storing
<1>3. CacheIsBounded'
  BY <1>2, FS_EmptySet, FS_CardinalityType, TranslatorsAssumption, CacheSizeAssumption DEF CacheIsBounded
<1>4. XTypeOK'
  <2>1. translating' \in BOOLEAN /\ awaiting' \in BOOLEAN
    BY <1>1 DEF TranslationInv, TranslationTypes, XTypeOK
  <2> QED
    BY <1>1, <2>1 DEF TranslationInv, TranslationTypes, XTypeOK
<1> QED
  BY <1>1, <1>2, <1>3, <1>4 DEF TranslationInv, TranslationTypes

(* What a worker's step may do: to its own record, to the cache, and only    *)
(* while it takes a text to the pair.                                       *)
LEMMA RecordTypes ==
  ASSUME TranslationTypes, NEW w \in Translators, NEW r \in ChunkRecords,
         chunk' = [chunk EXCEPT ![w] = r],
         r.at # "none" => r.text \in Texts,
         r.at = "drop" => r.oldest \in Texts,
         stored' \in Seq(Texts),
         translator' = translator, translating' = translating, source' = source,
         awaiting' \in BOOLEAN, pair' \in Tongues \cup {"none", "up"}
  PROVE  TranslationTypes'
<1>1. chunk' \in [Translators -> ChunkRecords]
      /\ \A v \in Translators : chunk'[v] = IF v = w THEN r ELSE chunk[v]
  BY DEF TranslationTypes
<1>2. \A v \in Translators :
          /\ chunk'[v].at # "none" => chunk'[v].text \in Texts
          /\ chunk'[v].at = "drop" => chunk'[v].oldest \in Texts
  BY <1>1 DEF TranslationTypes
<1>3. \A v \in Translators : chunk'[v].at \in TranslationSteps
  BY <1>1 DEF ChunkRecords
<1>4. XTypeOK'
  BY <1>3 DEF TranslationTypes, XTypeOK, TranslationSteps
<1> QED
  BY <1>1, <1>2, <1>4 DEF TranslationTypes

LEMMA WorkerTakes ==
  ASSUME TranslationInv, NEW w \in Translators, NEW t \in Texts, ArgosTakes(w, t) \/ DmrTakes(w, t)
  PROVE  TranslationInv'
<1> DEFINE r == [NoChunk EXCEPT !.at = "look", !.text = t]
<1>1. /\ chunk[w].at = "none" /\ UNCHANGED <<translator, translating, source, stored>>
      /\ \/ chunk' = [chunk EXCEPT ![w] = r]
         \/ chunk' = [chunk EXCEPT ![w] = NoChunk]
      /\ awaiting' \in {awaiting, FALSE}
      /\ pair' \in {pair} \cup Tongues
  BY DEF ArgosTakes, DmrTakes, Takes, Begins, Passes, ArgosPair
<1>2. /\ r \in ChunkRecords /\ r.at = "look" /\ r.text = t
      /\ NoChunk \in ChunkRecords /\ NoChunk.at = "none"
  BY DEF NoChunk, ChunkRecords, TranslationSteps
<1>3. awaiting' \in BOOLEAN /\ pair' \in Tongues \cup {"none", "up"} /\ stored' \in Seq(Texts)
  BY <1>1 DEF TranslationInv, TranslationTypes, XTypeOK
<1> HIDE DEF r
<1>4. TranslationTypes'
  BY <1>1, <1>2, <1>3, RecordTypes DEF TranslationInv
<1>5. Storing' = Storing
  BY <1>1, <1>2, StoringCount DEF TranslationInv
<1> QED
  BY <1>1, <1>4, <1>5 DEF TranslationInv, CacheIsBounded

LEMMA RemoveOne ==
  ASSUME NEW s \in Seq(Texts), NEW i \in 1 .. Len(s)
  PROVE  RemoveAt(s, i) \in Seq(Texts) /\ Len(RemoveAt(s, i)) = Len(s) - 1
<1> DEFINE before == SubSeq(s, 1, i - 1)
           after == SubSeq(s, i + 1, Len(s))
<1>1. /\ before \in Seq(Texts) /\ Len(before) = i - 1
      /\ after \in Seq(Texts) /\ Len(after) = Len(s) - i
  OBVIOUS
<1>2. RemoveAt(s, i) = before \o after
  BY DEF RemoveAt
<1> HIDE DEF before, after
<1>3. before \o after \in Seq(Texts) /\ Len(before \o after) = Len(before) + Len(after)
  BY <1>1, ConcatProperties
<1> QED
  BY <1>1, <1>2, <1>3

LEMMA WorkerSteps ==
  ASSUME TranslationInv, NEW w \in Translators, TranslateStep(w)
  PROVE  TranslationInv'
<1> DEFINE c == chunk[w]
<1>1. c \in ChunkRecords /\ TranslationTypes /\ CacheIsBounded /\ stored \in Seq(Texts)
      /\ chunk \in [Translators -> ChunkRecords]
      /\ (c.at # "none" => c.text \in Texts) /\ (c.at = "drop" => c.oldest \in Texts)
      /\ awaiting \in BOOLEAN /\ pair \in Tongues \cup {"none", "up"}
  BY DEF TranslationInv, TranslationTypes, XTypeOK
<1>2. NoChunk \in ChunkRecords /\ NoChunk.at = "none"
  BY DEF NoChunk, ChunkRecords, TranslationSteps
<1>3. UNCHANGED translatorState
  BY DEF TranslateStep, LooksUp, ReadsEntry, Translates, MakesRoom, DropsOldest, Stores
<1>4. ASSUME NEW step \in TranslationSteps
      PROVE  /\ [c EXCEPT !.at = step] \in ChunkRecords /\ [c EXCEPT !.at = step].at = step
             /\ [c EXCEPT !.at = step].text = c.text /\ [c EXCEPT !.at = step].oldest = c.oldest
             /\ Step(w, step) => chunk' = [chunk EXCEPT ![w] = [c EXCEPT !.at = step]]
  BY <1>1 DEF ChunkRecords, Step
<1>5. CASE LooksUp(w) \/ ReadsEntry(w) \/ Translates(w)
  <2>0. \/ chunk' = [chunk EXCEPT ![w] = NoChunk]
        \/ \E step \in {"hit", "ask", "got"} : chunk' = [chunk EXCEPT ![w] = [c EXCEPT !.at = step]]
    BY <1>1, <1>4, <1>5 DEF LooksUp, ReadsEntry, Translates, Passes, TranslationSteps
  <2>1. PICK r \in ChunkRecords :
            /\ chunk' = [chunk EXCEPT ![w] = r]
            /\ r.at \in {"none", "hit", "ask", "got"}
            /\ r.at # "none" => r.text = c.text
    BY <1>2, <1>4, <2>0 DEF TranslationSteps
  <2>2. /\ r \in ChunkRecords /\ r.at # "store" /\ r.at # "drop"
        /\ r.at # "none" => r.text = c.text
    BY <2>1
  <2>3. c.at \in {"look", "hit", "ask"} /\ stored' = stored
    BY <1>5 DEF LooksUp, ReadsEntry, Translates
  <2>4. TranslationTypes'
    BY <1>1, <1>3, <2>1, <2>2, <2>3, RecordTypes DEF translatorState
  <2>5. Storing' = Storing
    BY <1>1, <2>1, <2>2, <2>3, StoringCount
  <2> QED
    BY <1>1, <2>3, <2>4, <2>5 DEF TranslationInv, CacheIsBounded
<1>6. CASE MakesRoom(w) /\ IsFull
  <2> DEFINE r == [c EXCEPT !.at = "drop", !.oldest = Head(stored)]
  <2>1. chunk' = [chunk EXCEPT ![w] = r] /\ stored' = stored /\ c.at = "got"
    BY <1>1, <1>6 DEF MakesRoom
  <2>2. Len(stored) # 0 /\ Head(stored) \in Texts
    BY <1>1, <1>6, CacheSizeAssumption DEF IsFull
  <2>3. r \in ChunkRecords /\ r.at = "drop" /\ r.oldest \in Texts /\ r.text = c.text
    BY <1>1, <2>2 DEF ChunkRecords, TranslationSteps
  <2> HIDE DEF r
  <2>4. TranslationTypes'
    BY <1>1, <1>3, <2>1, <2>3, RecordTypes DEF translatorState
  <2>5. Storing' = Storing
    BY <1>1, <2>1, <2>3, StoringCount
  <2> QED
    BY <1>1, <2>1, <2>4, <2>5 DEF TranslationInv, CacheIsBounded
<1>7. CASE MakesRoom(w) /\ ~IsFull
  <2> DEFINE r == [c EXCEPT !.at = "store"]
  <2>1. chunk' = [chunk EXCEPT ![w] = r] /\ stored' = stored /\ c.at = "got"
    BY <1>1, <1>7 DEF MakesRoom
  <2>2. r \in ChunkRecords /\ r.at = "store" /\ r.text = c.text
    BY <1>4 DEF TranslationSteps
  <2> HIDE DEF r
  <2>3. TranslationTypes'
    BY <1>1, <1>3, <2>1, <2>2, RecordTypes DEF translatorState
  <2>4. /\ Cardinality(Storing') = Cardinality(Storing) + 1
        /\ Cardinality(Storing) < Cardinality(Translators)
        /\ Cardinality(Storing) \in Nat /\ Cardinality(Translators) \in Nat
    BY <1>1, <2>1, <2>2, StoringCount
  <2>5. Len(stored) < CacheSize /\ Len(stored) \in Nat
    BY <1>1, <1>7, CacheSizeAssumption DEF IsFull
  <2>6. CacheIsBounded'
    BY <2>1, <2>4, <2>5, CacheSizeAssumption DEF CacheIsBounded
  <2> QED
    BY <2>3, <2>6 DEF TranslationInv
<1>8. CASE DropsOldest(w) /\ IsStored(c.oldest)
  <2> DEFINE r == [c EXCEPT !.at = "store"]
  <2>1. chunk' = [chunk EXCEPT ![w] = r] /\ c.at = "drop"
    BY <1>4, <1>8 DEF DropsOldest, TranslationSteps
  <2>2. PICK i \in 1 .. Len(stored) : stored' = RemoveAt(stored, i)
    BY <1>8 DEF DropsOldest
  <2>3. stored' \in Seq(Texts) /\ Len(stored') = Len(stored) - 1
    BY <1>1, <2>2, RemoveOne
  <2>4. r \in ChunkRecords /\ r.at = "store" /\ r.text = c.text
    BY <1>4 DEF TranslationSteps
  <2> HIDE DEF r
  <2>5. TranslationTypes'
    BY <1>1, <1>3, <2>1, <2>3, <2>4, RecordTypes DEF translatorState
  <2>6. /\ Cardinality(Storing') = Cardinality(Storing) + 1
        /\ Cardinality(Storing) \in Nat
    BY <1>1, <2>1, <2>4, StoringCount
  <2>7. CacheIsBounded'
    BY <1>1, <2>3, <2>6 DEF CacheIsBounded
  <2> QED
    BY <2>5, <2>7 DEF TranslationInv
<1>9. CASE DropsOldest(w) /\ ~IsStored(c.oldest)
  <2>1. chunk' = [chunk EXCEPT ![w] = NoChunk] /\ c.at = "drop" /\ stored' = stored
    BY <1>9 DEF DropsOldest, Passes
  <2>2. TranslationTypes'
    BY <1>1, <1>2, <1>3, <2>1, RecordTypes DEF translatorState
  <2>3. Storing' = Storing
    BY <1>1, <1>2, <2>1, StoringCount
  <2> QED
    BY <1>1, <2>1, <2>2, <2>3 DEF TranslationInv, CacheIsBounded
<1>10. CASE Stores(w)
  <2>1. /\ chunk' = [chunk EXCEPT ![w] = NoChunk] /\ c.at = "store"
        /\ stored' = IF IsStored(c.text) THEN stored ELSE Append(stored, c.text)
    BY <1>10 DEF Stores, Passes
  <2>2. stored' \in Seq(Texts) /\ Len(stored') \in Nat /\ Len(stored') <= Len(stored) + 1
    BY <1>1, <2>1
  <2>3. TranslationTypes'
    BY <1>1, <1>2, <1>3, <2>1, <2>2, RecordTypes DEF translatorState
  <2>4. /\ Cardinality(Storing') = Cardinality(Storing) - 1
        /\ Cardinality(Storing) \in Nat /\ Cardinality(Translators) \in Nat
    BY <1>1, <1>2, <2>1, StoringCount
  <2>5. CacheIsBounded'
    BY <1>1, <2>2, <2>4, CacheSizeAssumption DEF CacheIsBounded
  <2> QED
    BY <2>3, <2>5 DEF TranslationInv
<1> QED
  BY <1>5, <1>6, <1>7, <1>8, <1>9, <1>10 DEF TranslateStep

LEMMA TranslationStep == TranslationInv /\ [XNext]_xvars => TranslationInv'
<1> SUFFICES ASSUME TranslationInv, [XNext]_xvars PROVE TranslationInv'
  OBVIOUS
<1>1. CASE UNCHANGED xvars
  BY <1>1 DEF xvars, translatorState, TranslationInv, TranslationTypes, XTypeOK, CacheIsBounded, Storing
<1> QED
  BY <1>1, TranslatorMoves, TranslatorStops, WorkerSteps, WorkerTakes DEF XNext

(* The bound of the cache, for any number of workers and any size            *)
(* (translator.py:205, dmr_translator.py:204-209).                          *)
THEOREM CacheStaysBounded == XSpec => [](XTypeOK /\ CacheIsBounded)
<1>1. TranslationInv => XTypeOK /\ CacheIsBounded
  BY DEF TranslationInv, TranslationTypes
<1> QED
  BY TranslationInit, TranslationStep, <1>1, PTL DEF XSpec

-----------------------------------------------------------------------------
(* The recording. *)
LEMMA RecordingNat == MaxRecordings \in Nat /\ MaxRecChunks \in Nat
  BY RecordingAssumption

JobRecord == [pc : {"none", "backup", "list", "join", "clean", "done"},
              list : SUBSET RChunks, found : SUBSET RChunks]

(* Everything of RTypeOK; a write copies the number after the last one that was copied, and
   what is listed has been copied, in a life that has begun. *)
RecordingTypes ==
    /\ RTypeOK
    /\ running \/ writing # 0 \/ saved # {} => take # 0
    /\ writing # 0 => writing = copied[take] + 1
    /\ \A c \in saved : c <= copied[take]

LEMMA RecordingTypesInit == RecInit => RecordingTypes
<1> SUFFICES ASSUME RecInit PROVE RecordingTypes
  OBVIOUS
<1>1. NoJob \in JobRecord
  BY DEF NoJob, JobRecord
<1>2. jobs \in [RecTakes -> JobRecord]
  BY <1>1 DEF RecInit
<1>3. temp \in [RChunks -> 0..MaxRecordings] /\ copied \in [RecTakes -> 0..MaxRecChunks]
  BY RecordingNat DEF RecInit
<1>4. /\ backups \subseteq SUBSET (RecTakes \X RChunks) /\ result \subseteq RecTakes \X RChunks
      /\ cut \subseteq RecTakes
  BY DEF RecInit
<1>5. /\ take \in 0..MaxRecordings /\ {running, met} \subseteq BOOLEAN /\ writing \in 0..MaxRecChunks
      /\ saved \subseteq RChunks /\ dir \in {"plain", "listed", "gone"}
  <2>1. running \in BOOLEAN /\ met \in BOOLEAN
    BY DEF RecInit
  <2>2. take \in 0..MaxRecordings /\ writing \in 0..MaxRecChunks
    BY RecordingNat DEF RecInit
  <2>3. saved \subseteq RChunks /\ dir \in {"plain", "listed", "gone"}
    BY DEF RecInit
  <2> QED  BY <2>1, <2>2, <2>3
<1>6. RTypeOK
  BY <1>2, <1>3, <1>4, <1>5 DEF RTypeOK, JobRecord
<1> QED  BY <1>6 DEF RecInit, RecordingTypes

LEMMA RecordingTypesStep == RecordingTypes /\ [RecNext]_recvars => RecordingTypes'
<1> SUFFICES ASSUME RecordingTypes, [RecNext]_recvars PROVE RecordingTypes'
  OBVIOUS
<1> DEFINE Life == /\ take \in 0..MaxRecordings /\ {running, met} \subseteq BOOLEAN
                   /\ writing \in 0..MaxRecChunks /\ saved \subseteq RChunks
                   /\ copied \in [RecTakes -> 0..MaxRecChunks]
                   /\ running \/ writing # 0 \/ saved # {} => take # 0
                   /\ writing # 0 => writing = copied[take] + 1
                   /\ \A c \in saved : c <= copied[take]
           Disk == /\ dir \in {"plain", "listed", "gone"} /\ temp \in [RChunks -> 0..MaxRecordings]
                   /\ jobs \in [RecTakes -> JobRecord]
           Made == /\ result \subseteq RecTakes \X RChunks
                   /\ backups \subseteq SUBSET (RecTakes \X RChunks)
                   /\ cut \subseteq RecTakes
<1>k. Life /\ Disk /\ Made
  BY DEF RecordingTypes, RTypeOK, JobRecord
<1>q. ASSUME Life', Disk', Made' PROVE RecordingTypes'
  BY <1>q DEF RecordingTypes, RTypeOK, JobRecord
<1>0. /\ MaxRecordings \in Nat /\ MaxRecChunks \in Nat /\ take \in Nat
      /\ \A t : t \in RecTakes <=> t \in Nat /\ 1 <= t /\ t <= MaxRecordings
      /\ \A c : c \in RChunks <=> c \in Nat /\ 1 <= c /\ c <= MaxRecChunks
  BY RecordingNat, <1>k DEF RecTakes, RChunks
<1>c. \A t \in RecTakes : copied[t] \in Nat /\ copied[t] <= MaxRecChunks
  BY <1>k, <1>0
<1>d. \A f : AfterCleanup(f) \in {"plain", "listed", "gone"}
  BY <1>k DEF AfterCleanup
<1>1. CASE StartTake
  <2>1. /\ writing = 0 /\ take < MaxRecordings /\ take' = take + 1 /\ running' = TRUE /\ saved' = {}
        /\ UNCHANGED <<writing, dir, temp, jobs, result, backups, copied, cut>>
    BY <1>1 DEF StartTake
  <2>2. met' \in BOOLEAN
    BY <1>1, <1>k DEF StartTake
  <2>3. Life'
    <3>1. take' \in 0..MaxRecordings /\ take' # 0
      BY <2>1, <1>0
    <3> QED  BY <2>1, <2>2, <3>1, <1>k
  <2>4. Disk' /\ Made'
    BY <2>1, <1>k
  <2> HIDE DEF Life, Disk, Made
  <2> QED  BY <2>3, <2>4, <1>q
<1>2. CASE WriteBegin
  <2>1. /\ running /\ writing = 0 /\ copied[take] < MaxRecChunks /\ writing' = copied[take] + 1
        /\ UNCHANGED <<take, running, saved, dir, temp, jobs, result, backups, copied, met, cut>>
    BY <1>2 DEF WriteBegin
  <2>2. take \in RecTakes
    BY <2>1, <1>k, <1>0
  <2>3. writing' \in 0..MaxRecChunks /\ take' # 0
    BY <2>1, <2>2, <1>c, <1>0
  <2>4. Life'
    BY <2>1, <2>3, <1>k
  <2>5. Disk' /\ Made'
    BY <2>1, <1>k
  <2> HIDE DEF Life, Disk, Made
  <2> QED  BY <2>4, <2>5, <1>q
<1>3. CASE WriteCopies
  <2>1. /\ writing # 0 /\ writing' = 0 /\ copied' = [copied EXCEPT ![take] = @ + 1]
        /\ \/ temp' = [temp EXCEPT ![writing] = take] /\ saved' = saved \cup {writing}
           \/ UNCHANGED <<temp, saved>>
        /\ UNCHANGED <<take, running, dir, jobs, result, backups, met, cut>>
    BY <1>3 DEF WriteCopies
  <2>2. take \in RecTakes /\ writing = copied[take] + 1 /\ writing \in RChunks
    BY <2>1, <1>k, <1>0
  <2>3. copied' \in [RecTakes -> 0..MaxRecChunks] /\ copied'[take] = copied[take] + 1
    BY <2>1, <2>2, <1>k, <1>c, <1>0
  <2>4. \A c \in saved \cup {writing} : c <= copied[take] + 1
    <3>1. \A c \in saved : c \in Nat /\ c <= copied[take] /\ copied[take] \in Nat
      BY <1>k, <1>0, <1>c, <2>2
    <3>2. \A c \in saved : c <= copied[take] + 1
      BY <3>1
    <3> QED  BY <3>2, <2>2, <1>c
  <2>5. Life'
    <3>1. take' # 0 /\ writing' = 0 /\ writing' \in 0..MaxRecChunks
      BY <2>1, <2>2, <1>0
    <3>2. saved' \subseteq RChunks
      BY <2>1, <2>2, <1>k
    <3>3. \A c \in saved' : c <= copied'[take']
      BY <2>1, <2>3, <2>4
    <3>4. take' \in 0..MaxRecordings /\ {running', met'} \subseteq BOOLEAN
      BY <2>1, <1>k
    <3> QED  BY <2>3, <3>1, <3>2, <3>3, <3>4
  <2>6. Disk' /\ Made'
    <3>1. temp' \in [RChunks -> 0..MaxRecordings]
      BY <2>1, <2>2, <1>k
    <3> QED  BY <2>1, <3>1, <1>k
  <2> HIDE DEF Life, Disk, Made
  <2> QED  BY <2>5, <2>6, <1>q
<1>4. CASE StopTake
  <2>1. /\ running /\ running' = FALSE /\ saved' = {}
        /\ UNCHANGED <<take, writing, temp, result, backups, copied, met, cut>>
    BY <1>4 DEF StopTake
  <2>2. take \in RecTakes
    BY <2>1, <1>k, <1>0
  <2>3. Life' /\ Made'
    BY <2>1, <1>k
  <2>4. Disk'
    <3>1. CASE saved = {}
      <4>1. dir' = AfterCleanup(temp) /\ jobs' = jobs
        BY <1>4, <3>1 DEF StopTake
      <4> QED  BY <4>1, <2>1, <1>d, <1>k
    <3>2. CASE saved # {}
      <4>1. /\ jobs' = [jobs EXCEPT ![take] = [pc |-> "backup", list |-> saved, found |-> {}]]
            /\ dir' = dir
        BY <1>4, <3>2 DEF StopTake
      <4>2. [pc |-> "backup", list |-> saved, found |-> {}] \in JobRecord
        BY <1>k DEF JobRecord
      <4>3. jobs' \in [RecTakes -> JobRecord]
        BY <4>1, <4>2, <1>k
      <4> QED  BY <4>1, <4>3, <2>1, <1>k
    <3> QED  BY <3>1, <3>2
  <2> HIDE DEF Life, Disk, Made
  <2> QED  BY <2>3, <2>4, <1>q
<1>j. ASSUME NEW t \in RecTakes, NEW p \in {"list", "join", "clean", "done"},
             jobs' = [jobs EXCEPT ![t].pc = p]
      PROVE  jobs' \in [RecTakes -> JobRecord]
  <2>1. [jobs[t] EXCEPT !.pc = p] \in JobRecord
    BY <1>k DEF JobRecord
  <2>2. jobs' = [jobs EXCEPT ![t] = [jobs[t] EXCEPT !.pc = p]]
    BY <1>j, <1>k
  <2> QED  BY <2>1, <2>2, <1>k
<1>5. ASSUME NEW t \in RecTakes, JobBacksUp(t) PROVE RecordingTypes'
  <2>1. /\ jobs' = [jobs EXCEPT ![t].pc = "list"]
        /\ \/ backups' = (IF result = {} THEN backups ELSE backups \cup {result}) /\ result' = {}
           \/ UNCHANGED <<result, backups>>
        /\ UNCHANGED <<take, running, writing, saved, dir, temp, copied, met, cut>>
    BY <1>5 DEF JobBacksUp
  <2>2. Life'
    BY <2>1, <1>k
  <2>3. Disk'
    BY <2>1, <1>j, <1>k
  <2>4. Made'
    BY <2>1, <1>k
  <2> HIDE DEF Life, Disk, Made
  <2> QED  BY <2>2, <2>3, <2>4, <1>q
<1>6. ASSUME NEW t \in RecTakes, JobLists(t) PROVE RecordingTypes'
  <2>1. /\ jobs' = [jobs EXCEPT ![t].pc = "join", ![t].found = {c \in jobs[t].list : temp[c] # 0}]
        /\ dir' = "listed"
        /\ UNCHANGED <<take, running, writing, saved, temp, result, backups, copied, met, cut>>
    BY <1>6 DEF JobLists
  <2>2. Life' /\ Made'
    BY <2>1, <1>k
  <2>3. Disk'
    <3> DEFINE F == {c \in jobs[t].list : temp[c] # 0}
    <3>1. F \in SUBSET RChunks
      BY <1>k DEF JobRecord
    <3> HIDE DEF F
    <3>2. [[jobs[t] EXCEPT !.pc = "join"] EXCEPT !.found = F] \in JobRecord
      <4>1. jobs[t] \in JobRecord
        BY <1>k
      <4>2. [jobs[t] EXCEPT !.pc = "join"] \in JobRecord
        BY <4>1 DEF JobRecord
      <4> DEFINE r == [jobs[t] EXCEPT !.pc = "join"]
      <4> HIDE DEF r
      <4>3. r \in JobRecord
        BY <4>2 DEF r
      <4>4. [r EXCEPT !.found = F] \in JobRecord
        BY <4>3, <3>1 DEF JobRecord
      <4> QED  BY <4>4 DEF r
    <3>3. jobs' = [jobs EXCEPT ![t] = [[jobs[t] EXCEPT !.pc = "join"] EXCEPT !.found = F]]
      BY <2>1, <1>k DEF F
    <3>4. jobs' \in [RecTakes -> JobRecord]
      BY <3>2, <3>3, <1>k
    <3> QED  BY <2>1, <3>4, <1>k
  <2> HIDE DEF Life, Disk, Made
  <2> QED  BY <2>2, <2>3, <1>q
<1>7. ASSUME NEW t \in RecTakes, JobJoins(t) PROVE RecordingTypes'
  <2>1. /\ jobs' = [jobs EXCEPT ![t].pc = "clean"]
        /\ (\E n : result' = Joined(t, n)) \/ result' = result
        /\ cut' \subseteq cut \cup {t}
        /\ UNCHANGED <<take, running, writing, saved, dir, temp, backups, copied, met>>
    BY <1>7 DEF JobJoins
  <2>2. Life'
    BY <2>1, <1>k
  <2>3. Disk'
    BY <2>1, <1>j, <1>k
  <2>4. Made'
    <3>1. jobs[t].found \subseteq RChunks
      BY <1>k DEF JobRecord
    <3>2. \A c \in jobs[t].found : temp[c] # 0 => temp[c] \in RecTakes
      BY <3>1, <1>k, <1>0
    <3>3. \A n : Joined(t, n) \subseteq RecTakes \X RChunks
      BY <3>1, <3>2 DEF Joined
    <3> QED  BY <2>1, <3>3, <1>k
  <2> HIDE DEF Life, Disk, Made
  <2> QED  BY <2>2, <2>3, <2>4, <1>q
<1>8. ASSUME NEW t \in RecTakes, JobCleans(t) PROVE RecordingTypes'
  <2>1. /\ jobs' = [jobs EXCEPT ![t].pc = "done"]
        /\ temp' = [c \in RChunks |-> IF c \in Removed(t) THEN 0 ELSE temp[c]]
        /\ dir' = AfterCleanup(temp')
        /\ UNCHANGED <<take, running, writing, saved, result, backups, copied, met, cut>>
    BY <1>8 DEF JobCleans
  <2>2. Life' /\ Made'
    BY <2>1, <1>k
  <2>3. Disk'
    <3>1. temp' \in [RChunks -> 0..MaxRecordings]
      BY <2>1, <1>k, <1>0
    <3> QED  BY <2>1, <3>1, <1>d, <1>j
  <2> HIDE DEF Life, Disk, Made
  <2> QED  BY <2>2, <2>3, <1>q
<1>9. CASE UNCHANGED recvars
  BY <1>9 DEF recvars, RecordingTypes, RTypeOK
<1> HIDE DEF Life, Disk, Made
<1> QED  BY <1>1, <1>2, <1>3, <1>4, <1>5, <1>6, <1>7, <1>8, <1>9 DEF RecNext

(***************************************************************************)
(* As long as no life has begun before the job of an earlier one was done,   *)
(* the only job under way is that of the last life, which no longer runs;    *)
(* its list names files of that life, which a write that is under way does   *)
(* not touch, and a recording is what one job has joined: its whole list, or  *)
(* a part of it when its FFmpeg did not finish.                              *)
(***************************************************************************)
OwnJob(t) ==
    /\ t = take /\ ~running
    /\ jobs[t].list # {} /\ jobs[t].list \cap saved = {}
    /\ \A c \in jobs[t].list : temp[c] = take /\ c <= copied[take]
    /\ jobs[t].pc = "join" => jobs[t].found = jobs[t].list

JobsApart ==
    /\ \A t \in Pending : OwnJob(t)
    /\ \A t \in RecTakes : t > take \/ (t = take /\ running) => jobs[t].pc = "none"
    /\ \A c \in saved : temp[c] = take

OfOneJob(rec, js, parts) ==
    \/ rec = {}
    \/ \E t \in RecTakes : /\ js[t].pc \in {"clean", "done"}
                           /\ \E S \in SUBSET js[t].list :
                                 /\ t \notin parts => S = js[t].list
                                 /\ rec = {<<t, c>> : c \in S}

RecordingsOfOneJob ==
    /\ OfOneJob(result, jobs, cut)
    /\ \A rec \in backups : OfOneJob(rec, jobs, cut)

WholeInv == ~met => JobsApart /\ RecordingsOfOneJob

LEMMA WholeInit == RecInit => WholeInv
<1> SUFFICES ASSUME RecInit PROVE WholeInv
  OBVIOUS
<1>1. Pending = {} /\ \A t \in RecTakes : jobs[t].pc = "none"
  BY DEF RecInit, Pending, NoJob
<1> QED  BY <1>1 DEF RecInit, WholeInv, JobsApart, RecordingsOfOneJob, OfOneJob

(* A finished job keeps its list. *)
LEMMA RecordingsKept ==
    ASSUME NEW rec, NEW js, NEW ks, NEW old, NEW new, OfOneJob(rec, js, old), old \subseteq new,
           \A t \in RecTakes : js[t].pc \in {"clean", "done"} =>
              ks[t].pc \in {"clean", "done"} /\ ks[t].list = js[t].list
    PROVE  OfOneJob(rec, ks, new)
<1>1. CASE rec = {}
  BY <1>1 DEF OfOneJob
<1>2. CASE rec # {}
  <2>1. PICK t \in RecTakes : /\ js[t].pc \in {"clean", "done"}
                              /\ \E S \in SUBSET js[t].list : /\ t \notin old => S = js[t].list
                                                             /\ rec = {<<t, c>> : c \in S}
    BY <1>2 DEF OfOneJob
  <2>2. ks[t].pc \in {"clean", "done"} /\ ks[t].list = js[t].list
    BY <2>1
  <2> QED  BY <2>1, <2>2 DEF OfOneJob
<1> QED  BY <1>1, <1>2

LEMMA WholeStep == RecordingTypes /\ WholeInv /\ [RecNext]_recvars => WholeInv'
<1> SUFFICES ASSUME RecordingTypes, WholeInv, [RecNext]_recvars, ~met' PROVE JobsApart' /\ RecordingsOfOneJob'
  BY DEF WholeInv
<1>0. /\ take \in Nat /\ temp \in [RChunks -> 0..MaxRecordings] /\ jobs \in [RecTakes -> JobRecord]
      /\ copied \in [RecTakes -> 0..MaxRecChunks] /\ met \in BOOLEAN /\ saved \subseteq RChunks
      /\ \A t \in RecTakes : t \in Nat /\ 1 <= t
      /\ \A c \in RChunks : c \in Nat
  BY RecordingNat DEF RecordingTypes, RTypeOK, JobRecord, RecTakes, RChunks
<1>m. ~met
  BY <1>0 DEF RecNext, recvars, StartTake, WriteBegin, WriteCopies, StopTake, JobBacksUp, JobLists, JobJoins, JobCleans
<1>k. JobsApart /\ RecordingsOfOneJob
  BY <1>m DEF WholeInv
<1>p. \A t \in RecTakes : jobs[t].pc \in {"none", "backup", "list", "join", "clean", "done"}
  BY <1>0 DEF JobRecord
<1>r. ASSUME UNCHANGED <<result, backups, cut>>,
             \A t \in RecTakes : jobs[t].pc \in {"clean", "done"} =>
                jobs'[t].pc \in {"clean", "done"} /\ jobs'[t].list = jobs[t].list
      PROVE  RecordingsOfOneJob'
  <2>1. \A rec : OfOneJob(rec, jobs, cut) => OfOneJob(rec, jobs', cut')
    BY <1>r, RecordingsKept
  <2> QED  BY <1>r, <2>1, <1>k DEF RecordingsOfOneJob
<1>1. CASE StartTake
  <2>1. /\ take' = take + 1 /\ running' = TRUE /\ saved' = {} /\ Pending = {}
        /\ UNCHANGED <<jobs, result, backups, cut>>
    BY <1>1 DEF StartTake
  <2>2. Pending' = {}
    BY <2>1 DEF Pending
  <2>3. \A t \in RecTakes : t > take \/ ~(t > take')
    BY <2>1, <1>0
  <2>4. \A t \in RecTakes : t > take' \/ t = take' => t > take
    BY <2>1, <1>0
  <2>5. JobsApart'
    BY <2>1, <2>2, <2>4, <1>k DEF JobsApart
  <2>6. RecordingsOfOneJob'
    BY <2>1, <1>r
  <2> QED  BY <2>5, <2>6
<1>2. CASE WriteBegin
  <2>1. UNCHANGED <<take, running, saved, temp, jobs, result, backups, copied, cut>>
    BY <1>2 DEF WriteBegin
  <2>2. JobsApart'
    BY <2>1, <1>k DEF JobsApart, OwnJob, Pending
  <2> QED  BY <2>1, <2>2, <1>r
<1>3. CASE WriteCopies
  <2>1. /\ writing # 0 /\ copied' = [copied EXCEPT ![take] = @ + 1]
        /\ \/ temp' = [temp EXCEPT ![writing] = take] /\ saved' = saved \cup {writing}
           \/ UNCHANGED <<temp, saved>>
        /\ UNCHANGED <<take, running, jobs, result, backups, cut>>
    BY <1>3 DEF WriteCopies
  <2>2. /\ take \in RecTakes /\ writing = copied[take] + 1 /\ writing \in RChunks /\ copied[take] \in Nat
    BY <2>1, RecordingNat DEF RecordingTypes, RTypeOK, RecTakes, RChunks
  <2>3. copied'[take] = copied[take] + 1
    BY <2>1, <2>2, <1>0
  <2>4. /\ \A c \in saved : temp'[c] = take
        /\ \A c \in saved' : temp'[c] = take
        /\ \A c \in RChunks : temp[c] = take => temp'[c] = take
    BY <2>1, <2>2, <1>0, <1>k DEF JobsApart
  <2>5. ASSUME NEW t \in Pending PROVE OwnJob(t)'
    <3>1. OwnJob(t) /\ t \in RecTakes
      BY <1>k DEF JobsApart, Pending
    <3>2. jobs[t].list \subseteq RChunks
      BY <3>1, <1>0 DEF JobRecord
    <3>3. \A c \in jobs[t].list : c \in Nat /\ c <= copied[take]
      BY <3>1, <3>2, <1>0 DEF OwnJob
    <3>4. \A c \in jobs[t].list : c <= copied[take] + 1 /\ c # writing
      BY <3>3, <2>2
    <3>5. jobs[t].list \cap saved' = {}
      BY <3>1, <3>4, <2>1 DEF OwnJob
    <3>6. \A c \in jobs[t].list : temp'[c] = take /\ c <= copied'[take]
      BY <3>1, <3>2, <3>4, <2>3, <2>4 DEF OwnJob
    <3> QED  BY <3>1, <3>5, <3>6, <2>1 DEF OwnJob
  <2>6. Pending' = Pending
    BY <2>1 DEF Pending
  <2>7. JobsApart'
    BY <2>1, <2>4, <2>5, <2>6, <1>k DEF JobsApart
  <2> QED  BY <2>1, <2>7, <1>r
<1>4. CASE StopTake
  <2>1. /\ running /\ running' = FALSE /\ saved' = {} /\ UNCHANGED <<take, temp, result, backups, copied, cut>>
        /\ IF saved = {} THEN jobs' = jobs
           ELSE jobs' = [jobs EXCEPT ![take] = [pc |-> "backup", list |-> saved, found |-> {}]]
    BY <1>4 DEF StopTake
  <2>2. take \in RecTakes
    BY <2>1 DEF RecordingTypes, RTypeOK, RecTakes
  <2>3. Pending = {} /\ jobs[take].pc = "none"
    BY <2>1, <2>2, <1>k DEF JobsApart, OwnJob
  <2>4. CASE saved = {}
    <3>1. jobs' = jobs
      BY <2>1, <2>4
    <3>2. Pending' = {}
      BY <2>3, <3>1 DEF Pending
    <3>3. JobsApart'
      BY <2>1, <3>1, <3>2, <1>k DEF JobsApart
    <3>4. RecordingsOfOneJob'
      BY <2>1, <3>1, <1>r
    <3> QED  BY <3>3, <3>4
  <2>5. CASE saved # {}
    <3>1. /\ jobs'[take] = [pc |-> "backup", list |-> saved, found |-> {}]
          /\ \A t \in RecTakes \ {take} : jobs'[t] = jobs[t]
      BY <2>1, <2>5, <2>2, <1>0
    <3>2. jobs'[take].pc = "backup" /\ jobs'[take].list = saved
      BY <3>1
    <3>3. Pending' = {take}
      BY <2>2, <2>3, <3>1, <3>2 DEF Pending
    <3>4. OwnJob(take)'
      BY <2>1, <2>5, <3>2, <1>k DEF OwnJob, JobsApart, RecordingTypes
    <3>5. \A t \in RecTakes : t > take' \/ (t = take' /\ running') => jobs'[t].pc = "none"
      BY <2>1, <3>1, <1>0, <1>k DEF JobsApart
    <3>6. JobsApart'
      BY <2>1, <3>3, <3>4, <3>5 DEF JobsApart
    <3>7. RecordingsOfOneJob'
      BY <2>1, <2>3, <3>1, <1>r
    <3> QED  BY <3>6, <3>7
  <2> QED  BY <2>4, <2>5
<1>j. ASSUME NEW t \in RecTakes, jobs[t].pc \in {"backup", "list", "join", "clean"},
             NEW p \in {"list", "join", "clean", "done"},
             jobs'[t].pc = p, jobs'[t].list = jobs[t].list,
             \A u \in RecTakes \ {t} : jobs'[u] = jobs[u],
             UNCHANGED <<take, running, saved, copied>>,
             p # "done" => temp' = temp,
             p = "join" => jobs'[t].found = jobs[t].list,
             \A c \in saved : temp'[c] = temp[c]
      PROVE  /\ t = take /\ OwnJob(t) /\ JobsApart'
             /\ \A u \in RecTakes : jobs[u].pc \in {"clean", "done"} /\ (u = t => p \in {"clean", "done"}) =>
                   jobs'[u].pc \in {"clean", "done"} /\ jobs'[u].list = jobs[u].list
  <2>1. t \in Pending
    BY <1>j DEF Pending
  <2>2. OwnJob(t) /\ t = take /\ ~running
    BY <2>1, <1>k DEF JobsApart, OwnJob
  <2>3. \A u \in Pending : u = t
    BY <2>2, <1>k DEF JobsApart, OwnJob
  <2>4. \A u \in Pending' : u = t /\ p # "done"
    BY <2>3, <1>j DEF Pending
  <2>5. p # "done" => OwnJob(t)'
    BY <2>2, <1>j DEF OwnJob
  <2>6. \A u \in RecTakes : u > take' \/ (u = take' /\ running') => jobs'[u].pc = "none"
    BY <2>2, <1>j, <1>0, <1>k DEF JobsApart
  <2>7. \A c \in saved' : temp'[c] = take'
    BY <1>j, <1>k DEF JobsApart
  <2>8. JobsApart'
    BY <2>4, <2>5, <2>6, <2>7 DEF JobsApart
  <2> QED  BY <2>2, <2>8, <1>j
<1>5. ASSUME NEW t \in RecTakes, JobBacksUp(t) PROVE JobsApart' /\ RecordingsOfOneJob'
  <2>1. /\ jobs[t].pc = "backup" /\ jobs' = [jobs EXCEPT ![t].pc = "list"]
        /\ \/ backups' = (IF result = {} THEN backups ELSE backups \cup {result}) /\ result' = {}
           \/ UNCHANGED <<result, backups>>
        /\ UNCHANGED <<take, running, saved, temp, copied, cut>>
    BY <1>5 DEF JobBacksUp
  <2>2. /\ jobs'[t].pc = "list" /\ jobs'[t].list = jobs[t].list /\ \A u \in RecTakes \ {t} : jobs'[u] = jobs[u]
    BY <2>1, <1>0 DEF JobRecord
  <2>3. JobsApart'
    BY <2>1, <2>2, <1>j
  <2>4. \A rec : OfOneJob(rec, jobs, cut) => OfOneJob(rec, jobs', cut')
    <3>1. \A u \in RecTakes : jobs[u].pc \in {"clean", "done"} =>
             jobs'[u].pc \in {"clean", "done"} /\ jobs'[u].list = jobs[u].list
      BY <2>1, <2>2
    <3>2. cut \subseteq cut'
      BY <2>1
    <3> QED  BY <3>1, <3>2, RecordingsKept
  <2>5. \A rec \in backups' : OfOneJob(rec, jobs', cut')
    <3>1. \A rec \in backups \cup {result} : OfOneJob(rec, jobs', cut')
      BY <2>4, <1>k DEF RecordingsOfOneJob
    <3>2. backups' \subseteq backups \cup {result}
      BY <2>1
    <3> QED  BY <3>1, <3>2
  <2>6. OfOneJob(result', jobs', cut')
    <3>1. OfOneJob({}, jobs', cut')
      BY DEF OfOneJob
    <3> QED  BY <2>1, <2>4, <3>1, <1>k DEF RecordingsOfOneJob
  <2> QED  BY <2>3, <2>5, <2>6 DEF RecordingsOfOneJob
<1>6. ASSUME NEW t \in RecTakes, JobLists(t) PROVE JobsApart' /\ RecordingsOfOneJob'
  <2> DEFINE F == {c \in jobs[t].list : temp[c] # 0}
  <2>1. /\ jobs[t].pc = "list" /\ jobs' = [jobs EXCEPT ![t].pc = "join", ![t].found = F]
        /\ UNCHANGED <<take, running, saved, temp, result, backups, copied, cut>>
    BY <1>6 DEF JobLists
  <2>2. F = jobs[t].list
    <3>1. OwnJob(t) /\ take # 0
      BY <2>1, <1>k, <1>0 DEF JobsApart, OwnJob, Pending
    <3> QED  BY <3>1 DEF OwnJob
  <2> HIDE DEF F
  <2>3. /\ jobs'[t].pc = "join" /\ jobs'[t].list = jobs[t].list /\ jobs'[t].found = F
        /\ \A u \in RecTakes \ {t} : jobs'[u] = jobs[u]
    BY <2>1, <1>0 DEF JobRecord
  <2>4. JobsApart'
    BY <2>1, <2>2, <2>3, <1>j
  <2>5. RecordingsOfOneJob'
    BY <2>1, <2>3, <1>r
  <2> QED  BY <2>4, <2>5
<1>7. ASSUME NEW t \in RecTakes, JobJoins(t) PROVE JobsApart' /\ RecordingsOfOneJob'
  <2>1. /\ jobs[t].pc = "join" /\ jobs' = [jobs EXCEPT ![t].pc = "clean"]
        /\ \/ result' = Joined(t, MaxRecChunks) /\ cut' = cut
           \/ /\ cut' = cut \cup {t}
              /\ (\E n : result' = Joined(t, n)) \/ result' = result
        /\ UNCHANGED <<take, running, saved, temp, backups, copied>>
    BY <1>7 DEF JobJoins
  <2>2. /\ jobs'[t].pc = "clean" /\ jobs'[t].list = jobs[t].list
        /\ \A u \in RecTakes \ {t} : jobs'[u] = jobs[u]
    BY <2>1, <1>0 DEF JobRecord
  <2>3. JobsApart' /\ OwnJob(t) /\ t = take /\ t # 0
    BY <2>1, <2>2, <1>j, <1>0
  <2>4. \A rec : OfOneJob(rec, jobs, cut) => OfOneJob(rec, jobs', cut')
    <3>1. \A u \in RecTakes : jobs[u].pc \in {"clean", "done"} =>
             jobs'[u].pc \in {"clean", "done"} /\ jobs'[u].list = jobs[u].list
      BY <2>1, <2>2
    <3>2. cut \subseteq cut'
      BY <2>1
    <3> QED  BY <3>1, <3>2, RecordingsKept
  <2>5. OfOneJob(result', jobs', cut')
    <3>e. /\ jobs[t].found = jobs[t].list /\ jobs[t].list \subseteq RChunks
          /\ \A c \in jobs[t].list : temp[c] = t
      <4>1. jobs[t].list \subseteq RChunks
        BY <1>0 DEF JobRecord
      <4> QED  BY <4>1, <2>1, <2>3 DEF OwnJob
    <3>f. \A n : \E S \in SUBSET jobs[t].list : Joined(t, n) = {<<t, c>> : c \in S}
      <4> TAKE n
      <4>1. Joined(t, n) = {<<t, c>> : c \in {d \in jobs[t].list : d <= n}}
        BY <3>e, <2>3 DEF Joined
      <4>2. {d \in jobs[t].list : d <= n} \in SUBSET jobs[t].list
        OBVIOUS
      <4> QED  BY <4>1, <4>2
    <3>g. Joined(t, MaxRecChunks) = {<<t, c>> : c \in jobs[t].list}
      <4>1. \A c \in jobs[t].list : c <= MaxRecChunks
        BY <3>e, RecordingNat DEF RChunks
      <4>2. {d \in jobs[t].found : temp[d] # 0 /\ d <= MaxRecChunks} = jobs[t].list
        BY <4>1, <3>e, <2>3
      <4> QED  BY <4>2, <3>e DEF Joined
    <3>1. CASE result' = result
      BY <3>1, <2>4, <1>k DEF RecordingsOfOneJob
    <3>2. CASE cut' = cut \cup {t} /\ \E n : result' = Joined(t, n)
      <4>1. PICK n : result' = Joined(t, n)
        BY <3>2
      <4>2. PICK S \in SUBSET jobs[t].list : result' = {<<t, c>> : c \in S}
        BY <3>f, <4>1
      <4> QED  BY <3>2, <4>2, <2>2 DEF OfOneJob
    <3>3. CASE result' = Joined(t, MaxRecChunks) /\ cut' = cut
      <4>1. result' = {<<t, c>> : c \in jobs[t].list}
        BY <3>3, <3>g
      <4> QED  BY <4>1, <2>2 DEF OfOneJob
    <3> QED  BY <2>1, <3>1, <3>2, <3>3
  <2>6. \A rec \in backups' : OfOneJob(rec, jobs', cut')
    BY <2>1, <2>4, <1>k DEF RecordingsOfOneJob
  <2> QED  BY <2>3, <2>5, <2>6 DEF RecordingsOfOneJob
<1>8. ASSUME NEW t \in RecTakes, JobCleans(t) PROVE JobsApart' /\ RecordingsOfOneJob'
  <2>1. /\ jobs[t].pc = "clean" /\ jobs' = [jobs EXCEPT ![t].pc = "done"]
        /\ temp' = [c \in RChunks |-> IF c \in jobs[t].list THEN 0 ELSE temp[c]]
        /\ UNCHANGED <<take, running, saved, result, backups, copied, cut>>
    BY <1>8 DEF JobCleans, Removed
  <2>2. /\ jobs'[t].pc = "done" /\ jobs'[t].list = jobs[t].list
        /\ \A u \in RecTakes \ {t} : jobs'[u] = jobs[u]
    BY <2>1, <1>0 DEF JobRecord
  <2>3. jobs[t].list \cap saved = {}
    BY <2>1, <1>k DEF JobsApart, OwnJob, Pending
  <2>4. \A c \in saved : temp'[c] = temp[c]
    BY <2>1, <2>3, <1>0
  <2>5. JobsApart'
    BY <2>1, <2>2, <2>4, <1>j
  <2>6. RecordingsOfOneJob'
    BY <2>1, <2>2, <1>r
  <2> QED  BY <2>5, <2>6
<1>9. CASE UNCHANGED recvars
  <2>1. UNCHANGED <<take, running, saved, temp, jobs, result, backups, copied, cut>>
    BY <1>9 DEF recvars
  <2>2. JobsApart'
    BY <2>1, <1>k DEF JobsApart, OwnJob, Pending
  <2> QED  BY <2>1, <2>2, <1>r
<1> QED  BY <1>1, <1>2, <1>3, <1>4, <1>5, <1>6, <1>7, <1>8, <1>9 DEF RecNext

(* What one job has found is of one life, and all that the job was given. *)
LEMMA OneJobIsWhole ==
    ASSUME RecordingTypes, NEW rec, OfOneJob(rec, jobs, cut)
    PROVE  OneLife(rec) /\ \A t \in RecTakes : Whole(t, rec)
<1>1. CASE rec = {}
  <2>1. {x[1] : x \in rec} = {}
    BY <1>1
  <2>2. \A t \in RecTakes : Whole(t, rec)
    <3>1. \A t : {} # {t}
      OBVIOUS
    <3> QED  BY <2>1, <3>1 DEF Whole
  <2>3. Cardinality({}) <= 1
    BY FS_EmptySet
  <2>4. OneLife(rec)
    BY <2>1, <2>3, Zenon DEF OneLife
  <2> QED  BY <2>2, <2>4
<1>2. CASE rec # {}
  <2>0. PICK t \in RecTakes : \E S \in SUBSET jobs[t].list : /\ t \notin cut => S = jobs[t].list
                                                            /\ rec = {<<t, c>> : c \in S}
    BY <1>2 DEF OfOneJob
  <2>1. PICK S \in SUBSET jobs[t].list : /\ t \notin cut => S = jobs[t].list
                                         /\ rec = {<<t, c>> : c \in S}
    BY <2>0
  <2>2. {x[1] : x \in rec} = {t}
    <3>1. \A x \in rec : x[1] = t
      BY <2>1
    <3> QED  BY <3>1, <1>2
  <2>3. {x[2] : x \in rec} = S
    <3>1. \A x \in rec : x[2] \in S
      BY <2>1
    <3>2. \A c \in S : \E x \in rec : x[2] = c
      <4> SUFFICES ASSUME NEW c \in S PROVE \E x \in rec : x[2] = c
        OBVIOUS
      <4>1. <<t, c>> \in rec /\ <<t, c>>[2] = c
        BY <2>1
      <4> QED  BY <4>1
    <3> QED  BY <3>1, <3>2
  <2>4. Cardinality({t}) = 1
    BY FS_Singleton
  <2>5. Cardinality({t}) <= 1
    BY <2>4
  <2>6. OneLife(rec)
    BY <2>2, <2>5, Zenon DEF OneLife
  <2>7. \A u : {t} = {u} => u = t
    OBVIOUS
  <2>8. ASSUME NEW u \in RecTakes PROVE Whole(u, rec)
    <3>1. CASE u = t
      BY <3>1, <2>1, <2>3 DEF Whole
    <3>2. CASE u # t
      BY <3>2, <2>2, <2>7, Zenon DEF Whole
    <3> QED  BY <3>1, <3>2
  <2> QED  BY <2>6, <2>8
<1> QED  BY <1>1, <1>2

LEMMA WholeFollows == RecordingTypes /\ WholeInv => RecordingIsWhole
  BY OneJobIsWhole DEF WholeInv, RecordingsOfOneJob, JobsApart, RecordingIsWhole

(* Type correctness of the recording and its background jobs. *)
THEOREM RecordingTyped == RecSpec => []RTypeOK
<1>1. RecordingTypes => RTypeOK
  BY DEF RecordingTypes
<1> QED  BY <1>1, RecordingTypesInit, RecordingTypesStep, PTL DEF RecSpec

(* If every background job is done before the next life begins, each recording and each backup
   holds chunks of one life that its list named, all of them unless the FFmpeg of that life did
   not finish, and every listed chunk is on disk, whichever renames and joins fail. *)
THEOREM RecordingsAreWhole == RecSpec => []RecordingIsWhole
<1> QED  BY RecordingTypesInit, RecordingTypesStep, WholeInit, WholeStep, WholeFollows, PTL DEF RecSpec

(* When the directory is gone nothing has been recorded; as long as it is there without a
   list, no job has come further than to its own list, and the files that are to be listed
   are still there. *)
DirectoryInv ==
    /\ dir # "listed" => result = {} /\ \A t \in RecTakes : jobs[t].pc \in {"none", "backup", "list"}
    /\ dir = "plain" => /\ \A c \in saved : temp[c] # 0
                        /\ (\E t \in RecTakes : jobs[t].pc # "none") => \E c \in RChunks : temp[c] # 0
    /\ dir = "gone" => /\ \A c \in RChunks : temp[c] = 0
                       /\ \A t \in RecTakes : jobs[t].pc = "none"
                       /\ saved = {}

LEMMA DirectoryInit == RecInit => DirectoryInv
  BY DEF RecInit, DirectoryInv, NoJob

LEMMA DirectoryStep == RecordingTypes /\ DirectoryInv /\ [RecNext]_recvars => DirectoryInv'
<1> SUFFICES ASSUME RecordingTypes, DirectoryInv, [RecNext]_recvars PROVE DirectoryInv'
  OBVIOUS
<1>0. /\ take \in Nat /\ temp \in [RChunks -> 0..MaxRecordings] /\ jobs \in [RecTakes -> JobRecord]
      /\ saved \subseteq RChunks /\ dir \in {"plain", "listed", "gone"} /\ writing \in 0..MaxRecChunks
      /\ running \/ writing # 0 => take \in RecTakes
      /\ \A t \in RecTakes : t # 0
  BY RecordingNat DEF RecordingTypes, RTypeOK, JobRecord, RecTakes
<1>1. CASE StartTake
  BY <1>1 DEF StartTake, DirectoryInv
<1>2. CASE WriteBegin
  BY <1>2 DEF WriteBegin, DirectoryInv
<1>3. CASE WriteCopies
  <2>1. /\ writing \in RChunks /\ take \in RecTakes /\ take # 0
        /\ UNCHANGED <<take, dir, jobs, result>>
    BY <1>3, <1>0, RecordingNat DEF WriteCopies, RChunks
  <2>2. CASE UNCHANGED <<temp, saved>>
    BY <2>1, <2>2 DEF DirectoryInv
  <2>3. CASE dir # "gone" /\ temp' = [temp EXCEPT ![writing] = take] /\ saved' = saved \cup {writing}
    <3>1. temp'[writing] # 0 /\ \A c \in RChunks : temp[c] # 0 => temp'[c] # 0
      BY <2>1, <2>3, <1>0
    <3>2. dir = "plain" => \A c \in saved' : temp'[c] # 0
      BY <2>3, <3>1, <1>0 DEF DirectoryInv
    <3>. QED  BY <2>1, <2>3, <3>1, <3>2 DEF DirectoryInv
  <2>. QED  BY <1>3, <2>2, <2>3 DEF WriteCopies
<1>4. CASE StopTake
  <2>1. saved' = {} /\ UNCHANGED <<temp, result>> /\ take \in RecTakes
    BY <1>4, <1>0 DEF StopTake
  <2>2. CASE saved = {}
    <3>1. jobs' = jobs /\ dir' = AfterCleanup(temp)
      BY <1>4, <2>2 DEF StopTake
    <3>2. CASE dir = "plain" /\ \A c \in RChunks : temp[c] = 0
      <4>1. dir' = "gone" /\ \A t \in RecTakes : jobs[t].pc = "none"
        BY <3>1, <3>2 DEF AfterCleanup, DirectoryInv
      <4>. QED  BY <2>1, <3>1, <3>2, <4>1 DEF DirectoryInv
    <3>3. CASE ~(dir = "plain" /\ \A c \in RChunks : temp[c] = 0)
      BY <2>1, <3>1, <3>3 DEF AfterCleanup, DirectoryInv
    <3>. QED  BY <3>2, <3>3
  <2>3. CASE saved # {}
    <3>1. jobs' = [jobs EXCEPT ![take] = [pc |-> "backup", list |-> saved, found |-> {}]] /\ dir' = dir
      BY <1>4, <2>3 DEF StopTake
    <3>2. jobs'[take].pc = "backup" /\ \A t \in RecTakes \ {take} : jobs'[t] = jobs[t]
      BY <3>1, <2>1, <1>0
    <3>3. dir = "plain" => \E c \in RChunks : temp[c] # 0
      BY <2>3, <1>0 DEF DirectoryInv
    <3>4. dir # "gone"
      BY <2>3 DEF DirectoryInv
    <3>5. dir # "listed" => result = {} /\ \A t \in RecTakes : jobs'[t].pc \in {"none", "backup", "list"}
      BY <3>2, <2>1 DEF DirectoryInv
    <3>. QED  BY <2>1, <3>1, <3>3, <3>4, <3>5 DEF DirectoryInv
  <2>. QED  BY <2>2, <2>3
<1>5. ASSUME NEW t \in RecTakes, JobBacksUp(t) PROVE DirectoryInv'
  <2>1. /\ jobs[t].pc = "backup" /\ jobs' = [jobs EXCEPT ![t].pc = "list"] /\ result' \in {result, {}}
        /\ UNCHANGED <<saved, dir, temp>>
    BY <1>5 DEF JobBacksUp
  <2>2. jobs'[t].pc = "list" /\ \A u \in RecTakes \ {t} : jobs'[u] = jobs[u]
    BY <2>1, <1>0 DEF JobRecord
  <2>. QED  BY <2>1, <2>2 DEF DirectoryInv
<1>6. ASSUME NEW t \in RecTakes, JobLists(t) PROVE DirectoryInv'
  BY <1>6 DEF JobLists, DirectoryInv
<1>7. ASSUME NEW t \in RecTakes, JobJoins(t) \/ JobCleans(t) PROVE DirectoryInv'
  <2>1. jobs[t].pc \in {"join", "clean"}
    BY <1>7 DEF JobJoins, JobCleans
  <2>2. dir = "listed"
    BY <2>1, <1>0 DEF DirectoryInv
  <2>3. dir' = "listed"
    BY <1>7, <2>2 DEF JobJoins, JobCleans, AfterCleanup
  <2>. QED  BY <2>3 DEF DirectoryInv
<1>8. CASE UNCHANGED recvars
  BY <1>8 DEF recvars, DirectoryInv
<1>. QED  BY <1>1, <1>2, <1>3, <1>4, <1>5, <1>6, <1>7, <1>8 DEF RecNext

(* The directory is only lost to a life that ends before anything was ever recorded: no
   chunk is on disk or in a list, no job was ever started, and there is no recording (stop,
   _cleanup_recording_dir). *)
LostBeforeRecording ==
    dir = "gone" => /\ \A t \in RecTakes : jobs[t].pc = "none"
                    /\ \A c \in RChunks : temp[c] = 0
                    /\ saved = {} /\ result = {}

(* LostBeforeRecording, whatever the writes and the background jobs of the lives do to each
   other.  It bounds what goes wrong with RecordingHasDirectory: once a chunk has been copied
   the directory stays, for this life and for all later ones. *)
THEOREM RecordedDirectoryStays == RecSpec => []LostBeforeRecording
<1>1. DirectoryInv => LostBeforeRecording
  BY DEF DirectoryInv, LostBeforeRecording
<1>2. RecordingTypes /\ DirectoryInv /\ [RecNext]_recvars => (RecordingTypes /\ DirectoryInv)'
  BY RecordingTypesStep, DirectoryStep
<1>. QED  BY <1>1, <1>2, RecordingTypesInit, DirectoryInit, PTL DEF RecSpec

-----------------------------------------------------------------------------
(* The video playlist and the subtitles next to it. *)
LEMMA LiveNat ==
    /\ MaxChunks \in Nat /\ MaxLiveLives \in Nat /\ InFlight \in Nat /\ MaxPending \in Nat
    /\ MaxMishaps \in Nat /\ ListSize \in Nat /\ SubListSize \in Nat /\ MaxLiveLives > 0
    /\ ListSize > 0 /\ SubListSize > 0
  BY LivePlaylistAssumption

Writing == {"trim", "publish", "resync"}
Ledger  == Mishaps \cup {"jump"}

(* Everything of LTypeOK, and what keeps the counters in their ranges: the output has used
   no more numbers than it was brought chunks, and a write that is under way has one. *)
LiveTypes ==
    /\ LTypeOK
    /\ mishaps \in Seq(Ledger)
    /\ seg <= next
    /\ hls_at \in Writing => next < MaxChunks /\ stage[next] = "through"
    /\ DOMAIN segments \subseteq 0..seg /\ win \subseteq 0..seg

(* The lowest of the candidates for the end of a run is one. *)
LEMMA DrainEnds ==
    ASSUME subs_pending \subseteq Numbers, NEW c \in Numbers
    PROVE  /\ DrainedTo(c) \in c..(MaxChunks - 1)
           /\ \A j \in (c + 1)..DrainedTo(c) : j \in subs_pending
           /\ (DrainedTo(c) + 1) \notin subs_pending
<1> DEFINE T == {k \in c..(MaxChunks - 1) : (k + 1) \notin subs_pending}
           R == OpToRel(<, Nat)
<1>0. MaxChunks \in Nat /\ c \in Nat /\ c <= MaxChunks - 1
  BY LiveNat DEF Numbers
<1>1. MaxChunks - 1 \in T
  BY <1>0 DEF Numbers
<1>2. T \in SUBSET Nat
  BY <1>0
<1>3. IsWellFoundedOn(R, Nat)
  BY NatLessThanWellFounded
<1>4. PICK k \in T : \A y \in T : ~(<<y, k>> \in R)
  <2> HIDE DEF R, T
  <2> QED  BY <1>1, <1>2, <1>3, WFMin
<1>5. \A y \in T : ~(y < k)
  BY <1>2, <1>4 DEF OpToRel
<1>6. k \in c..(MaxChunks - 1) /\ (k + 1) \notin subs_pending
  OBVIOUS
<1>7. \A j \in (c + 1)..k : j \in subs_pending
  <2> SUFFICES ASSUME NEW j \in (c + 1)..k, j \notin subs_pending PROVE FALSE
    OBVIOUS
  <2>1. j - 1 \in c..(MaxChunks - 1) /\ (j - 1) + 1 = j /\ j - 1 < k
    BY <1>0, <1>6
  <2>2. j - 1 \in T
    BY <2>1
  <2> QED  BY <1>5, <2>1, <2>2
<1> QED  BY <1>6, <1>7 DEF DrainedTo

(* The rolling list after some numbers of a run were listed behind it: it is no longer than it
   may be, its last number is the last of them, and it is in order if it was and they go on
   behind it. *)
LEMMA ExtendedIs ==
    ASSUME frags \in Seq(Numbers), NEW c \in Numbers, NEW k \in c..(MaxChunks - 1),
           NEW n \in Nat, NEW run \in [1..n -> c..k], Ascending(run)
    PROVE  LET e == Extended(frags, run)
           IN  /\ e \in Seq(Numbers) /\ Len(e) <= SubListSize
               /\ n > 0 => e # <<>> /\ e[Len(e)] = run[n]
               /\ Ascending(frags) /\ (\A i \in 1..Len(frags) : frags[i] < c) =>
                     Ascending(e) /\ \A i \in 1..Len(e) : e[i] <= k
<1> DEFINE all == frags \o run
           L == Len(frags)
           lo == IF Len(all) > SubListSize THEN Len(all) - SubListSize + 1 ELSE 1
           hi == L + n
           e == Extended(frags, run)
<1>0. /\ MaxChunks \in Nat /\ c \in Nat /\ k \in Nat /\ c <= k /\ k <= MaxChunks - 1
      /\ SubListSize \in Nat /\ SubListSize > 0
  BY LiveNat DEF Numbers
<1>1. run \in Seq(Numbers) /\ Len(run) = n /\ \A i \in 1..n : run[i] \in Nat /\ c <= run[i] /\ run[i] <= k
  <2>1. \A x \in c..k : x \in Numbers /\ x \in Nat /\ c <= x /\ x <= k
    BY <1>0 DEF Numbers
  <2>2. run \in [1..n -> Numbers] /\ \A i \in 1..n : run[i] \in c..k
    BY <2>1
  <2> QED  BY <2>1, <2>2
<1>2. L \in Nat /\ all \in Seq(Numbers) /\ Len(all) = L + n
      /\ \A i \in 1..(L + n) : all[i] = IF i <= L THEN frags[i] ELSE run[i - L]
  <2>1. L \in Nat
    OBVIOUS
  <2>2. /\ frags \o run \in Seq(Numbers)
        /\ Len(frags \o run) = Len(frags) + Len(run)
        /\ \A i \in 1 .. Len(frags) + Len(run) : (frags \o run)[i] =
                     IF i <= Len(frags) THEN frags[i] ELSE run[i - Len(frags)]
    BY <1>1, ConcatProperties
  <2> QED  BY <1>1, <2>1, <2>2
<1> HIDE DEF all
<1>4. lo \in Nat /\ lo >= 1 /\ hi \in Nat /\ lo <= hi + 1 /\ hi - lo + 1 \in Nat /\ hi - lo + 1 <= SubListSize
      /\ (hi > 0 => lo <= hi)
  BY <1>0, <1>2
<1>5. e = SubSeq(all, lo, hi)
  BY <1>2 DEF Extended, all
<1>6. \A i \in lo..hi : all[i] \in Numbers
  <2>1. \A i \in lo..hi : i \in 1..Len(all)
    BY <1>2, <1>4
  <2> HIDE DEF lo, hi
  <2> QED  BY <1>2, <2>1
<1>7. /\ e \in Seq(Numbers) /\ Len(e) = hi - lo + 1
      /\ \A i \in 1..(hi - lo + 1) : e[i] = all[lo + i - 1]
  <2> HIDE DEF lo, hi, e, L
  <2>1. lo \in Int /\ hi \in Int /\ (lo <= hi \/ hi - lo + 1 = 0)
    BY <1>4
  <2>2. /\ SubSeq(all, lo, hi) \in Seq(Numbers)
        /\ Len(SubSeq(all, lo, hi)) = (IF lo <= hi THEN hi - lo + 1 ELSE 0)
        /\ \A i \in 1..(hi - lo + 1) : SubSeq(all, lo, hi)[i] = all[lo + i - 1]
    BY <2>1, <1>6, SubSeqProperties
  <2> QED  BY <1>5, <2>1, <2>2
<1>8. ASSUME n > 0 PROVE e # <<>> /\ e[Len(e)] = run[n]
  <2>1. hi - lo + 1 \in 1..(hi - lo + 1) /\ lo + (hi - lo + 1) - 1 = hi
    BY <1>8, <1>4, <1>2
  <2>2. hi \in 1..(L + n) /\ ~(hi <= L) /\ hi - L = n
    BY <1>8, <1>2
  <2>3. all[hi] = run[n]
    BY <1>2, <2>2
  <2> HIDE DEF lo, hi, e, L
  <2> QED  BY <1>7, <2>1, <2>3
<1>9. ASSUME Ascending(frags), \A i \in 1..Len(frags) : frags[i] < c
      PROVE  Ascending(e) /\ \A i \in 1..Len(e) : e[i] <= k
  <2>0. \A i \in 1..L : frags[i] \in Numbers /\ frags[i] < c
    BY <1>9
  <2>1. \A i \in 1..L : frags[i] \in Nat /\ frags[i] < c
    BY <1>0, <2>0 DEF Numbers
  <2>a. \A i \in 1..hi : /\ i <= L => i \in 1..L /\ all[i] = frags[i]
                         /\ ~(i <= L) => i - L \in 1..n /\ all[i] = run[i - L]
    BY <1>2
  <2>2. \A i \in 1..hi : all[i] \in Nat /\ all[i] <= k
    <3> SUFFICES ASSUME NEW i \in 1..hi PROVE all[i] \in Nat /\ all[i] <= k
      OBVIOUS
    <3>1. CASE i <= L
      <4>1. all[i] = frags[i] /\ frags[i] \in Nat /\ frags[i] < c
        BY <3>1, <2>1, <2>a
      <4> QED  BY <4>1, <1>0
    <3>2. CASE ~(i <= L)
      BY <3>2, <2>a, <1>1
    <3> QED  BY <3>1, <3>2
  <2>3. \A i, j \in 1..hi : i < j => all[i] < all[j]
    <3> SUFFICES ASSUME NEW i \in 1..hi, NEW j \in 1..hi, i < j PROVE all[i] < all[j]
      OBVIOUS
    <3>0. i \in Nat /\ j \in Nat /\ L \in Nat
      BY <1>2
    <3>1. CASE j <= L
      <4>1. i <= L
        BY <3>0, <3>1
      <4>2. i \in DOMAIN frags /\ j \in DOMAIN frags
        BY <4>1, <3>1, <2>a
      <4> QED  BY <4>1, <4>2, <3>1, <2>a, <1>9 DEF Ascending
    <3>2. CASE i <= L /\ ~(j <= L)
      <4>1. all[i] = frags[i] /\ frags[i] \in Nat /\ frags[i] < c
        BY <3>2, <2>1, <2>a
      <4>2. all[j] = run[j - L] /\ run[j - L] \in Nat /\ c <= run[j - L]
        BY <3>2, <2>a, <1>1
      <4> QED  BY <4>1, <4>2, <1>0
    <3>3. CASE ~(i <= L) /\ ~(j <= L)
      <4>1. i - L \in DOMAIN run /\ j - L \in DOMAIN run /\ i - L < j - L
        BY <3>0, <3>3, <2>a
      <4> QED  BY <4>1, <3>3, <2>a DEF Ascending
    <3> QED  BY <3>0, <3>1, <3>2, <3>3
  <2> HIDE DEF lo, hi, e, L
  <2>4. /\ \A i \in 1..(hi - lo + 1) : lo + i - 1 \in 1..hi
        /\ \A i, j \in 1..(hi - lo + 1) : i < j => lo + i - 1 < lo + j - 1
    BY <1>4
  <2>5. DOMAIN e = 1..Len(e)
    BY <1>7
  <2>6. Ascending(e)
    <3> SUFFICES ASSUME NEW i \in 1..(hi - lo + 1), NEW j \in 1..(hi - lo + 1), i < j PROVE e[i] < e[j]
      BY <1>7, <2>5 DEF Ascending
    <3> QED  BY <1>7, <2>3, <2>4
  <2> QED  BY <1>7, <2>2, <2>4, <2>6
<1>10. Len(e) <= SubListSize
  BY <1>4, <1>7
<1> HIDE DEF e
<1>11. Extended(frags, run) = e
  BY DEF e
<1> QED  BY <1>7, <1>8, <1>9, <1>10, <1>11

LEMMA LastListedIsPart == \A S : LastListed(S) \subseteq S
  BY DEF LastListed

(* What has happened stays so, until the pipeline starts again. *)
LEMMA LedgerNotes ==
    ASSUME mishaps \in Seq(Ledger), NEW m \in Ledger, mishaps' = Append(mishaps, m)
    PROVE  mishaps' \in Seq(Ledger) /\ (\A x : Happened(x)' <=> Happened(x) \/ x = m)
<1>1. mishaps' = Append(mishaps, m)
  OBVIOUS
<1>2. Len(mishaps) \in Nat /\ Len(mishaps') = Len(mishaps) + 1 /\ mishaps' \in Seq(Ledger)
  BY <1>1
<1>3. /\ \A i \in 1..Len(mishaps) : mishaps'[i] = mishaps[i]
      /\ mishaps'[Len(mishaps) + 1] = m
  BY <1>1
<1>4. ASSUME NEW x PROVE Happened(x)' <=> Happened(x) \/ x = m
  <2>1. ASSUME Happened(x) PROVE Happened(x)'
    BY <2>1, <1>2, <1>3 DEF Happened
  <2>2. ASSUME x = m PROVE Happened(x)'
    <3>1. Len(mishaps) + 1 \in 1..Len(mishaps')
      BY <1>2
    <3> QED  BY <2>2, <1>3, <3>1 DEF Happened
  <2>3. ASSUME Happened(x)', x # m PROVE Happened(x)
    <3>1. PICK i \in 1..Len(mishaps') : mishaps'[i] = x
      BY <2>3 DEF Happened
    <3>2. i \in 1..Len(mishaps)
      BY <3>1, <2>3, <1>2, <1>3
    <3> QED  BY <3>1, <3>2, <1>3 DEF Happened
  <2> QED  BY <2>1, <2>2, <2>3
<1> QED  BY <1>2, <1>4

LEMMA LedgerGrows ==
    ASSUME mishaps \in Seq(Ledger), NEW m, Mishap(m)
    PROVE  mishaps' \in Seq(Ledger) /\ (\A x : Happened(x)' <=> Happened(x) \/ x = m)
<1>1. m \in Ledger /\ mishaps' = Append(mishaps, m)
  BY DEF Mishap, Ledger
<1> QED  BY <1>1, LedgerNotes

LEMMA LedgerJumps ==
    ASSUME mishaps \in Seq(Ledger), mishaps' = Append(mishaps, "jump")
    PROVE  mishaps' \in Seq(Ledger) /\ (\A x : Happened(x)' <=> Happened(x) \/ x = "jump")
<1>1. "jump" \in Ledger
  BY DEF Ledger
<1> QED  BY <1>1, LedgerNotes

LEMMA LedgerKept == ASSUME UNCHANGED mishaps PROVE \A x : Happened(x)' <=> Happened(x)
  BY DEF Happened

LEMMA NothingHappened == ASSUME mishaps' = <<>> PROVE \A x : ~Happened(x)'
<1>1. Len(mishaps') = 0
  BY Zenon, SMT
<1> QED  BY <1>1 DEF Happened

LEMMA OneHappened == ASSUME mishaps' = <<"list">> PROVE \A x : Happened(x)' <=> x = "list"
<1>1. Len(mishaps') = 1 /\ mishaps'[1] = "list"
  OBVIOUS
<1> QED  BY <1>1 DEF Happened

LEMMA LiveTypesInit == LInit => LiveTypes
<1> SUFFICES ASSUME LInit PROVE LiveTypes
  OBVIOUS
<1> USE LiveNat DEF LInit, Numbers, Torn, NoFiles
<1>1. mishaps \in Seq(Ledger) /\ frags \in Seq(Numbers) /\ Len(frags) = 0
  OBVIOUS
<1>2. DOMAIN segments = {}
  OBVIOUS
<1>3. LTypeOK
  BY <1>1, <1>2 DEF LTypeOK
<1> QED  BY <1>1, <1>2, <1>3 DEF LiveTypes, Writing

(* A run of numbers from c to k, of which all or some could be written. *)
LEMMA RunWritten ==
    ASSUME frags \in Seq(Numbers), NEW c \in Numbers, NEW k \in c..(MaxChunks - 1),
           WriteRun(c, k) \/ WriteRunInPart(c, k)
    PROVE  /\ frags' \in Seq(Numbers) /\ Len(frags') <= SubListSize
           /\ vtt' \subseteq vtt \cup (c..k)
           /\ Ascending(frags) /\ (\A i \in 1..Len(frags) : frags[i] < c) =>
                 Ascending(frags') /\ \A i \in 1..Len(frags') : frags'[i] <= k
           /\ WriteRun(c, k) => frags' # <<>> /\ frags'[Len(frags')] = k
<1>0. MaxChunks \in Nat /\ c \in Nat /\ k \in Nat /\ c <= k
  BY LiveNat DEF Numbers
<1>1. CASE WriteRun(c, k)
  <2> DEFINE run == [i \in 1..(k - c + 1) |-> c + i - 1]
  <2>1. k - c + 1 \in Nat /\ k - c + 1 > 0 /\ run \in [1..(k - c + 1) -> c..k]
    BY <1>0
  <2>2. Ascending(run)
    BY <1>0 DEF Ascending
  <2>3. run[k - c + 1] = k
    BY <1>0
  <2>4. frags' = Extended(frags, run) /\ vtt' = vtt \cup (c..k)
    BY <1>1 DEF WriteRun
  <2> DEFINE n == k - c + 1
             e == Extended(frags, run)
  <2>5. n \in Nat /\ n > 0 /\ run \in [1..n -> c..k] /\ run[n] = k
    BY <2>1, <2>3
  <2> HIDE DEF run, n
  <2>6. /\ e \in Seq(Numbers) /\ Len(e) <= SubListSize
        /\ n > 0 => e # <<>> /\ e[Len(e)] = run[n]
        /\ Ascending(frags) /\ (\A i \in 1..Len(frags) : frags[i] < c) =>
              Ascending(e) /\ \A i \in 1..Len(e) : e[i] <= k
    BY <2>2, <2>5, ExtendedIs
  <2> HIDE DEF e
  <2>7. frags' = e
    BY <2>4 DEF e
  <2> QED  BY <2>4, <2>5, <2>6, <2>7
<1>2. CASE ~WriteRun(c, k)
  <2>1. PICK run \in SomeOf(c, k), opened \in SUBSET (c..k) :
          frags' = Extended(frags, run) /\ vtt' = vtt \cup opened
    BY <1>2 DEF WriteRunInPart
  <2>2. PICK n \in 0..(k - c) : run \in [1..n -> c..k]
    BY <2>1 DEF SomeOf
  <2>3. Ascending(run) /\ n \in Nat
    BY <2>1, <2>2, <1>0 DEF SomeOf
  <2> QED  BY <1>2, <2>1, <2>2, <2>3, ExtendedIs
<1> QED  BY <1>1, <1>2

LEMMA LiveTypesStep == LiveTypes /\ [LNext]_lvars => LiveTypes'
<1> SUFFICES ASSUME LiveTypes, [LNext]_lvars PROVE LiveTypes'
  OBVIOUS
<1>0. /\ MaxChunks \in Nat /\ seg \in Nat /\ next \in Nat /\ seg <= next /\ next <= MaxChunks
      /\ MaxLiveLives \in Nat /\ live_life \in Nat
  BY LiveNat DEF LiveTypes, LTypeOK
<1>n. \A i : i \in Numbers <=> i \in Nat /\ i < MaxChunks
  BY LiveNat DEF Numbers
<1> DEFINE Files == /\ DOMAIN segments \subseteq Numbers
                    /\ \A i \in DOMAIN segments : segments[i] \in Numbers \cup {Torn}
           Order == /\ seg <= next
                    /\ hls_at \in Writing => next < MaxChunks /\ stage[next] = "through"
                    /\ DOMAIN segments \subseteq 0..seg /\ win \subseteq 0..seg
           Sub == /\ last_index \in Numbers \cup {-1} /\ subs_pending \subseteq Numbers
                  /\ asked_of \in Numbers \cup {-1}
                  /\ frags \in Seq(Numbers) /\ Len(frags) <= SubListSize /\ vtt \subseteq Numbers
           Hls == /\ hls_at \in {"idle", "trim", "publish", "resync", "down"} /\ seg \in 0..MaxChunks
                  /\ Files /\ vdisk \subseteq Numbers /\ win \subseteq Numbers /\ vwin \subseteq Numbers
           Top == /\ live_life \in 1..MaxLiveLives /\ abr \in BOOLEAN /\ wired \in BOOLEAN
                  /\ stage \in [Numbers -> {"new", "through", "lost"}] /\ next \in 0..MaxChunks
<1>k. Top /\ Hls /\ Sub /\ Order /\ subs \subseteq Numbers /\ mishaps \in Seq(Ledger)
  BY DEF LiveTypes, LTypeOK
<1>q. ASSUME Top', Hls', Sub', Order', subs' \subseteq Numbers, mishaps' \in Seq(Ledger)
      PROVE  LiveTypes'
  BY <1>q DEF LiveTypes, LTypeOK
<1>m. ASSUME NEW m, Mishap(m) PROVE mishaps' \in Seq(Ledger)
  BY <1>k, <1>m, LedgerGrows
<1>l. \A fs, files : win \subseteq Numbers /\ fs \subseteq Numbers => Listed(fs, files) \subseteq Numbers
  BY DEF Listed
<1>s. ASSUME NEW c \in Numbers, Ready(c) /\ UNCHANGED <<live_life, abr, wired, next, hlsvars>>,
             NEW v \in {"through", "lost"}, stage' = [stage EXCEPT ![c] = v]
      PROVE  Top' /\ Hls' /\ Order'
  <2>1. Top'
    BY <1>k, <1>s
  <2>2. Hls'
    BY <1>k, <1>s DEF hlsvars
  <2>3. Order'
    <3>1. seg' = seg /\ next' = next /\ hls_at' = hls_at /\ segments' = segments /\ win' = win
      BY <1>s DEF hlsvars
    <3>2. ASSUME hls_at \in Writing PROVE stage'[next] = "through"
      <4>1. next \in Numbers /\ stage[next] = "through" /\ c # next
        BY <3>2, <1>k, <1>s, <1>n, <1>0 DEF Ready
      <4> QED  BY <4>1, <1>s, <1>k
    <3> QED  BY <1>k, <3>1, <3>2
  <2> QED  BY <2>1, <2>2, <2>3
<1>1. ASSUME NEW c \in Numbers, Subtitle(c) PROVE LiveTypes'
  <2>1. Top' /\ Hls' /\ Order'
    <3>1. Ready(c) /\ UNCHANGED <<live_life, abr, wired, next, hlsvars>> /\ stage' = [stage EXCEPT ![c] = "through"]
      BY <1>1 DEF Subtitle
    <3> HIDE DEF Top, Hls, Order
    <3> QED  BY <3>1, <1>s
  <2>2. Sub'
    <3>1. asked_of' \in Numbers \cup {-1}
      BY <1>1, <1>k DEF Subtitle
    <3>2. CASE c < last_index + 1 \/ (c > last_index + 1 /\ ~(c > last_index + 1 + MaxPending))
      BY <3>1, <3>2, <1>1, <1>k DEF Subtitle, TooLate, MustWait, TooFar
    <3>3. CASE /\ last_index' = DrainedTo(c) /\ subs_pending' = subs_pending \ ((c + 1)..DrainedTo(c))
               /\ WriteRun(c, DrainedTo(c)) \/ WriteRunInPart(c, DrainedTo(c))
      <4>1. DrainedTo(c) \in c..(MaxChunks - 1)
        BY <1>k, DrainEnds
      <4>2. frags' \in Seq(Numbers) /\ Len(frags') <= SubListSize /\ vtt' \subseteq vtt \cup (c..DrainedTo(c))
        <5> HIDE DEF Top, Hls, Order, Files
        <5> QED  BY <3>3, <4>1, <1>k, RunWritten
      <4>3. c \in Nat /\ \A x \in c..DrainedTo(c) : x \in Numbers
        BY <1>n, <4>1, <1>0
      <4>4. last_index' \in Numbers
        BY <3>3, <4>1, <4>3
      <4> QED  BY <3>1, <3>3, <4>2, <4>3, <4>4, <1>k
    <3>4. \/ c < last_index + 1 \/ (c > last_index + 1 /\ ~(c > last_index + 1 + MaxPending))
          \/ /\ last_index' = DrainedTo(c) /\ subs_pending' = subs_pending \ ((c + 1)..DrainedTo(c))
             /\ WriteRun(c, DrainedTo(c)) \/ WriteRunInPart(c, DrainedTo(c))
      <4> HIDE DEF Top, Hls, Sub, Order, Files
      <4>1. TooLate(c) \/ MustWait(c)
               \/ /\ last_index' = DrainedTo(c) /\ subs_pending' = subs_pending \ ((c + 1)..DrainedTo(c))
                  /\ WriteRun(c, DrainedTo(c)) \/ WriteRunInPart(c, DrainedTo(c))
        BY <1>1, Zenon DEF Subtitle
      <4> QED  BY <4>1 DEF TooLate, MustWait, TooFar
    <3> HIDE DEF Sub
    <3> QED  BY <3>2, <3>3, <3>4
  <2>3. subs' = subs
    BY <1>1 DEF Subtitle
  <2>4. mishaps' \in Seq(Ledger)
    BY <1>1, <1>k, <1>m, LedgerJumps DEF Subtitle, WriteRun, WriteRunInPart
  <2> HIDE DEF Top, Hls, Sub, Order
  <2> QED  BY <2>1, <2>2, <2>3, <2>4, <1>k, <1>q
<1>2. ASSUME NEW c \in Numbers, SubtitleSkipped(c) \/ ChunkLost(c) PROVE LiveTypes'
  <2>1. PICK v \in {"through", "lost"} :
          /\ Ready(c) /\ UNCHANGED <<live_life, abr, wired, next, hlsvars, subvars>>
          /\ stage' = [stage EXCEPT ![c] = v] /\ \E m : Mishap(m)
    BY <1>2 DEF SubtitleSkipped, ChunkLost
  <2>2. Top' /\ Hls' /\ Order'
    <3> HIDE DEF Top, Hls, Order
    <3> QED  BY <2>1, <1>s
  <2>3. Sub' /\ subs' \subseteq Numbers
    BY <2>1, <1>k DEF subvars
  <2>4. mishaps' \in Seq(Ledger)
    BY <2>1, <1>m
  <2> HIDE DEF Top, Hls, Sub, Order
  <2> QED  BY <2>2, <2>3, <2>4, <1>q
<1>3. CASE OutputPasses \/ OutputGivesUp \/ WriteWithoutFile \/ ChunkForNobody
  <2>1. /\ hls_at \in {"idle", "down"} /\ next < MaxChunks /\ next' = next + 1
        /\ UNCHANGED <<live_life, abr, wired, stage, hlsvars, subvars>>
    BY <1>3 DEF OutputPasses, OutputGivesUp, WriteWithoutFile, ChunkForNobody, Passed
  <2>2. mishaps' \in Seq(Ledger)
    BY <1>3, <1>k, <1>m DEF OutputPasses, OutputGivesUp, WriteWithoutFile, ChunkForNobody
  <2>3. Top' /\ Hls'
    BY <2>1, <1>k, <1>0 DEF hlsvars
  <2>4. Order'
    BY <2>1, <1>k, <1>0 DEF hlsvars, Writing
  <2>5. Sub' /\ subs' \subseteq Numbers
    BY <2>1, <1>k DEF subvars
  <2> HIDE DEF Top, Hls, Sub, Order
  <2> QED  BY <2>2, <2>3, <2>4, <2>5, <1>q
<1>t. ASSUME NEW c \in Numbers \cup {Torn}, seg < MaxChunks, Stored(seg, c)
      PROVE  /\ Files' /\ DOMAIN segments' \subseteq 0..seg
             /\ DOMAIN segments' = DOMAIN segments \cup {seg}
             /\ \A j \in DOMAIN segments' : segments'[j] = IF j = seg THEN c ELSE segments[j]
  <2>1. segments' = [j \in DOMAIN segments \cup {seg} |-> IF j = seg THEN c ELSE segments[j]]
    BY <1>t DEF Stored
  <2>2. seg \in Numbers /\ seg \in 0..seg
    BY <1>t, <1>n, <1>0
  <2>3. /\ DOMAIN segments' = DOMAIN segments \cup {seg}
        /\ \A j \in DOMAIN segments' : segments'[j] = IF j = seg THEN c ELSE segments[j]
    BY <2>1
  <2> QED  BY <2>2, <2>3, <1>k, <1>t
<1>4. CASE WriteSegment
  <2>1. /\ next < MaxChunks /\ stage[next] = "through" /\ hls_at' = "trim" /\ Stored(seg, next)
        /\ vdisk' \in {vdisk, vdisk \cup {seg}}
        /\ UNCHANGED <<live_life, abr, wired, stage, next, seg, win, vwin, subvars>>
    BY <1>4 DEF WriteSegment
  <2>2. mishaps' \in Seq(Ledger)
    BY <1>4, <1>k, <1>m DEF WriteSegment
  <2>3. next \in Numbers /\ seg \in Numbers /\ seg < MaxChunks
    BY <2>1, <1>n, <1>0
  <2>4. Files' /\ DOMAIN segments' \subseteq 0..seg
    <3> HIDE DEF Files
    <3> QED  BY <2>1, <2>3, <1>t
  <2>5. Top' /\ Hls'
    BY <2>1, <2>3, <2>4, <1>k
  <2>6. Order'
    BY <2>1, <2>4, <1>k DEF Writing
  <2>7. Sub' /\ subs' \subseteq Numbers
    BY <2>1, <1>k DEF subvars
  <2> HIDE DEF Top, Hls, Sub, Order, Files
  <2> QED  BY <2>2, <2>5, <2>6, <2>7, <1>q
<1>5. CASE WriteFails
  <2>1. /\ hls_at = "idle" /\ next < MaxChunks /\ Mishap("encode") /\ next' = next + 1 /\ seg' = seg + 1
        /\ Stored(seg, Torn) \/ segments' = segments
        /\ UNCHANGED <<live_life, abr, wired, stage, hls_at, vdisk, win, vwin, subvars>>
    BY <1>5 DEF WriteFails, Passed, NumberUsed
  <2>2. mishaps' \in Seq(Ledger)
    BY <2>1, <1>m
  <2>3. Files' /\ DOMAIN segments' \subseteq 0..seg
    <3>1. CASE Stored(seg, Torn)
      <4>1. seg < MaxChunks
        BY <2>1, <1>0
      <4> HIDE DEF Files
      <4> QED  BY <3>1, <4>1, <1>t
    <3>2. CASE segments' = segments
      BY <3>2, <1>k
    <3> QED  BY <3>1, <3>2, <2>1
  <2>4. Top' /\ Hls'
    BY <2>1, <2>3, <1>k, <1>0
  <2>5. Order'
    <3>1. \A i \in 0..seg : i \in 0..seg'
      BY <2>1, <1>0
    <3>2. seg' <= next'
      BY <2>1, <1>0
    <3> QED  BY <2>1, <2>3, <3>1, <3>2, <1>k DEF Writing
  <2>6. Sub' /\ subs' \subseteq Numbers
    BY <2>1, <1>k DEF subvars
  <2> HIDE DEF Top, Hls, Sub, Order, Files
  <2> QED  BY <2>2, <2>4, <2>5, <2>6, <1>q
<1>6. CASE TrimSegments
  <2>1. /\ hls_at = "trim" /\ hls_at' = "publish"
        /\ segments' = [i \in LastListed(DOMAIN segments) |-> segments[i]]
        /\ vdisk' \subseteq vdisk
        /\ UNCHANGED <<live_life, abr, wired, stage, next, seg, win, vwin, subvars, mishaps>>
    BY <1>6 DEF TrimSegments
  <2>2. /\ DOMAIN segments' \subseteq DOMAIN segments
        /\ \A i \in DOMAIN segments' : segments'[i] = segments[i]
    BY <2>1, LastListedIsPart
  <2>3. Top' /\ Hls'
    BY <2>1, <2>2, <1>k
  <2>4. Order'
    BY <2>1, <2>2, <1>k DEF Writing
  <2>6. Sub' /\ subs' \subseteq Numbers
    BY <2>1, <1>k DEF subvars
  <2> HIDE DEF Top, Hls, Sub, Order, Files
  <2> QED  BY <2>1, <2>3, <2>4, <2>6, <1>k, <1>q
<1>7. CASE PublishPlaylists
  <2>1. /\ hls_at = "publish" /\ hls_at' = "resync"
        /\ (win' = DOMAIN segments /\ vwin' = vdisk) \/ UNCHANGED <<win, vwin>>
        /\ UNCHANGED <<live_life, abr, wired, stage, next, seg, segments, vdisk, subvars>>
    BY <1>7 DEF PublishPlaylists
  <2>2. mishaps' \in Seq(Ledger)
    BY <1>7, <1>k, <1>m DEF PublishPlaylists
  <2>3. Top' /\ Hls'
    BY <2>1, <1>k
  <2>4. Order'
    BY <2>1, <1>k DEF Writing
  <2>6. Sub' /\ subs' \subseteq Numbers
    BY <2>1, <1>k DEF subvars
  <2> HIDE DEF Top, Hls, Sub, Order, Files
  <2> QED  BY <2>2, <2>3, <2>4, <2>6, <1>q
<1>f. Fragments \subseteq Numbers
  BY <1>k DEF Fragments
<1>8. CASE ResyncSubtitles
  <2>1. /\ hls_at = "resync" /\ hls_at' = "idle" /\ next' = next + 1 /\ seg' = seg + 1
        /\ subs' \in {subs, Fragments, Listed(Fragments, vtt)}
        /\ mishaps' = mishaps \/ Mishap("list")
        /\ UNCHANGED <<live_life, abr, wired, stage, segments, vdisk, win, vwin,
                       last_index, subs_pending, frags, vtt, asked_of>>
    BY <1>8 DEF ResyncSubtitles, Rewritten, NotRewritten, Passed, NumberUsed
  <2>2. next < MaxChunks
    BY <2>1, <1>k DEF Writing
  <2>3. Top' /\ Hls'
    BY <2>1, <2>2, <1>k, <1>0
  <2>4. Order'
    <3>1. \A i \in 0..seg : i \in 0..seg'
      BY <2>1, <1>0
    <3>2. seg' <= next'
      BY <2>1, <1>0
    <3> QED  BY <2>1, <3>1, <3>2, <1>k DEF Writing
  <2>5. subs' \subseteq Numbers
    <3>1. Listed(Fragments, vtt) \subseteq Numbers
      BY <1>k, <1>l, <1>f
    <3> HIDE DEF Top, Hls, Sub, Order, Files
    <3> QED  BY <2>1, <3>1, <1>k, <1>f
  <2>6. Sub' /\ mishaps' \in Seq(Ledger)
    BY <2>1, <1>k, <1>m
  <2> HIDE DEF Top, Hls, Sub, Order, Files
  <2> QED  BY <2>3, <2>4, <2>5, <2>6, <1>q
<1>9. CASE WriteRaises
  <2>1. /\ next < MaxChunks /\ Mishap("raise") /\ hls_at' = "down" /\ next' = next + 1
        /\ subs' \in {subs, Fragments, Listed(Fragments, vtt)}
        /\ UNCHANGED <<live_life, abr, wired, stage, seg, segments, vdisk, win, vwin,
                       last_index, subs_pending, frags, vtt, asked_of>>
    BY <1>9 DEF WriteRaises, Passed
  <2>2. mishaps' \in Seq(Ledger)
    BY <2>1, <1>m
  <2>3. Top' /\ Hls'
    BY <2>1, <1>k, <1>0
  <2>4. Order'
    BY <2>1, <1>k, <1>0 DEF Writing
  <2>5. subs' \subseteq Numbers
    <3>1. Listed(Fragments, vtt) \subseteq Numbers
      BY <1>k, <1>l, <1>f
    <3> QED  BY <2>1, <3>1, <1>k, <1>f
  <2>6. Sub'
    BY <2>1, <1>k
  <2> HIDE DEF Top, Hls, Sub, Order, Files
  <2> QED  BY <2>2, <2>3, <2>4, <2>5, <2>6, <1>q
<1>e. ASSUME Emptied, hls_at' = "idle", next' \in Nat
      PROVE  Hls' /\ Order'
  <2>1. /\ seg' = 0 /\ segments' = NoFiles /\ vdisk' = {} /\ win' = {} /\ vwin' = {}
    BY <1>e DEF Emptied
  <2>2. DOMAIN segments' = {}
    BY <2>1 DEF NoFiles
  <2> QED  BY <2>1, <2>2, <1>e, <1>0 DEF Writing
<1>10. CASE Reconnected
  <2>1. /\ Emptied /\ hls_at' = "idle"
        /\ UNCHANGED <<live_life, abr, wired, stage, next, subvars, mishaps>>
    BY <1>10 DEF Reconnected
  <2>2. Top' /\ Sub' /\ subs' \subseteq Numbers /\ mishaps' \in Seq(Ledger)
    BY <2>1, <1>k DEF subvars
  <2>3. Hls' /\ Order'
    BY <2>1, <1>e, <1>0
  <2> HIDE DEF Top, Hls, Sub, Order, Files
  <2> QED  BY <2>2, <2>3, <1>q
<1>a. ASSUME last_index' = -1, subs_pending' = {}, frags' = <<>>, asked_of' = -1, vtt' \subseteq Numbers
      PROVE  Sub'
  <2>1. frags' \in Seq(Numbers)
    BY <1>a, EmptySeq
  <2>2. Len(frags') = 0
    BY <1>a
  <2> QED  BY <1>a, <2>1, <2>2, LiveNat
<1>11. CASE StartAgain
  <2>1. /\ Emptied /\ hls_at' = "idle" /\ next' = 0
        /\ live_life < MaxLiveLives /\ live_life' = live_life + 1 /\ UNCHANGED <<abr, wired>>
        /\ stage' = [c \in Numbers |-> "new"] /\ subs' \in {subs, Listed({}, {})}
        /\ mishaps' = <<>> \/ (mishaps' = <<"list">> /\ "list" \in Mishaps)
        /\ last_index' = -1 /\ subs_pending' = {} /\ frags' = <<>> /\ vtt' = {} /\ asked_of' = -1
    BY <1>11 DEF StartAgain
  <2>2. Top'
    BY <2>1, <1>k, <1>0
  <2>3. Hls' /\ Order'
    BY <2>1, <1>e
  <2>4. Sub'
    BY <2>1, <1>a
  <2>5. subs' \subseteq Numbers
    BY <2>1, <1>l, <1>k
  <2>6. mishaps' \in Seq(Ledger)
    <3>1. "list" \in Mishaps => <<"list">> \in Seq(Ledger)
      BY DEF Ledger
    <3>2. <<>> \in Seq(Ledger)
      BY EmptySeq
    <3> HIDE DEF Ledger, Emptied, Top, Hls, Sub, Order, Files
    <3> QED  BY <2>1, <3>1, <3>2
  <2> HIDE DEF Top, Hls, Sub, Order, Files
  <2> QED  BY <2>2, <2>3, <2>4, <2>5, <2>6, <1>q
<1>12. CASE Reconfigure
  <2>1. /\ Mishap("reconfigure") /\ subs' \in {Listed({}, vtt), {}, subs}
        /\ last_index' = -1 /\ subs_pending' = {} /\ frags' = <<>> /\ asked_of' = -1
        /\ UNCHANGED <<live_life, abr, wired, stage, next, hlsvars, vtt>>
    BY <1>12 DEF Reconfigure
  <2>2. Top' /\ Hls' /\ Order'
    BY <2>1, <1>k DEF hlsvars
  <2>3. Sub'
    BY <2>1, <1>a, <1>k
  <2>4. subs' \subseteq Numbers
    <3>1. Listed({}, vtt) \subseteq Numbers
      BY <1>k, <1>l
    <3> HIDE DEF Top, Hls, Sub, Order, Files
    <3> QED  BY <2>1, <3>1, <1>k
  <2>5. mishaps' \in Seq(Ledger)
    BY <2>1, <1>m
  <2> HIDE DEF Top, Hls, Sub, Order, Files
  <2> QED  BY <2>2, <2>3, <2>4, <2>5, <1>q
<1>13. CASE UNCHANGED lvars
  BY <1>13 DEF lvars, LiveTypes, LTypeOK
<1> HIDE DEF Top, Hls, Sub, Order, Files
<1> QED  BY <1>1, <1>2, <1>3, <1>4, <1>5, <1>6, <1>7, <1>8, <1>9, <1>10, <1>11, <1>12, <1>13
         DEF LNext, HlsWrite

(* The order of the subtitles. *)
LEMMA OrderInit == LInit => SubtitlesInOrder
<1> SUFFICES ASSUME LInit PROVE SubtitlesInOrder
  OBVIOUS
<1>1. Len(frags) = 0 /\ frags = <<>> /\ DOMAIN frags = {}
  BY DEF LInit
<1> QED  BY <1>1, LiveNat DEF LInit, SubtitlesInOrder, Ascending

LEMMA OrderStep == LiveTypes /\ SubtitlesInOrder /\ [LNext]_lvars => SubtitlesInOrder'
<1> SUFFICES ASSUME LiveTypes, SubtitlesInOrder, [LNext]_lvars PROVE SubtitlesInOrder'
  OBVIOUS
<1>0. /\ MaxPending \in Nat /\ MaxChunks \in Nat /\ last_index \in Int /\ asked_of \in Int
      /\ last_index >= -1 /\ mishaps \in Seq(Ledger)
      /\ frags \in Seq(Numbers) /\ subs_pending \subseteq Numbers
  BY LiveNat DEF LiveTypes, LTypeOK, Numbers
<1> DEFINE Ordered == Ascending(frags) /\ \A i \in 1..Len(frags) : frags[i] <= last_index
           EndsThere == ~Happened("fragment") /\ frags # <<>> => last_index = frags[Len(frags)]
           Bounded == asked_of <= last_index + 1 + MaxPending /\ last_index + 1 \notin subs_pending
<1>k. Ordered /\ EndsThere /\ Bounded
  BY DEF SubtitlesInOrder
<1>q. ASSUME Ordered', EndsThere', Bounded' PROVE SubtitlesInOrder'
  BY <1>q DEF SubtitlesInOrder
<1>s. ASSUME UNCHANGED <<last_index, subs_pending, frags, asked_of>>,
             Happened("fragment") => Happened("fragment")'
      PROVE  SubtitlesInOrder'
  BY <1>s, <1>k, <1>q DEF Ascending
<1>z. ASSUME last_index' = -1, subs_pending' = {}, frags' = <<>>, asked_of' = -1
      PROVE  SubtitlesInOrder'
  <2>1. Len(frags') = 0 /\ DOMAIN frags' = {}
    BY <1>z
  <2>2. Ordered' /\ EndsThere'
    BY <1>z, <2>1 DEF Ascending
  <2>3. Bounded'
    BY <1>z, <1>0
  <2> QED  BY <2>2, <2>3, <1>q
<1>g. mishaps' = mishaps \/ (\E m : Mishap(m)) =>
         (Happened("fragment") => Happened("fragment")')
  BY <1>0, LedgerGrows, LedgerKept
<1>1. ASSUME NEW c \in Numbers, Subtitle(c) PROVE SubtitlesInOrder'
  <2>0. c \in Nat /\ c < MaxChunks
    BY <1>0 DEF Numbers
  <2>1. asked_of' = IF c > asked_of THEN c ELSE asked_of
    BY <1>1 DEF Subtitle
  <2>3. CASE c < last_index + 1
    <3>1. UNCHANGED <<last_index, subs_pending, frags, mishaps>>
      BY <1>1, <2>3, <2>0, <1>0 DEF Subtitle, TooLate, MustWait, TooFar
    <3>2. Bounded'
      BY <2>0, <2>1, <2>3, <3>1, <1>0, <1>k
    <3>3. Ordered' /\ EndsThere'
      BY <3>1, <1>k, <1>g DEF Ascending
    <3> QED  BY <3>2, <3>3, <1>q
  <2>4. CASE c > last_index + 1 /\ ~(c > last_index + 1 + MaxPending)
    <3>1. subs_pending' = subs_pending \cup {c} /\ UNCHANGED <<last_index, frags, mishaps>>
      BY <1>1, <2>4, <2>0, <1>0 DEF Subtitle, TooLate, MustWait, TooFar
    <3>2. Bounded'
      BY <2>0, <2>1, <2>4, <3>1, <1>0, <1>k
    <3>3. Ordered' /\ EndsThere'
      BY <3>1, <1>k, <1>g DEF Ascending
    <3> QED  BY <3>2, <3>3, <1>q
  <2>5. CASE ~(c < last_index + 1) /\ ~(c > last_index + 1 /\ ~(c > last_index + 1 + MaxPending))
    <3> DEFINE k == DrainedTo(c)
               l == last_index
    <3>1. /\ last_index' = k /\ subs_pending' = subs_pending \ ((c + 1)..k)
          /\ WriteRun(c, k) \/ WriteRunInPart(c, k)
      BY <1>1, <2>5 DEF Subtitle, TooLate, MustWait, TooFar
    <3>2. k \in c..(MaxChunks - 1) /\ k + 1 \notin subs_pending
      BY <1>0, DrainEnds
    <3>3. l \in Int /\ l >= -1 /\ k \in Int /\ c \in Int /\ c <= k /\ l + 1 <= c
      BY <3>2, <2>0, <2>5, <1>0
    <3> HIDE DEF k, l
    <3>4. \A i \in 1..Len(frags) : frags[i] < c
      <4> SUFFICES ASSUME NEW i \in 1..Len(frags) PROVE frags[i] < c
        OBVIOUS
      <4>1. frags[i] \in Nat /\ frags[i] <= l
        BY <1>0, <1>k DEF Numbers, l
      <4> QED  BY <4>1, <3>3
    <3>5. /\ Ascending(frags') /\ \A i \in 1..Len(frags') : frags'[i] <= k
          /\ WriteRun(c, k) => frags' # <<>> /\ frags'[Len(frags')] = k
      <4> HIDE DEF Ordered, EndsThere, Bounded
      <4>1. Ascending(frags)
        BY <1>k DEF Ordered
      <4> QED  BY <4>1, <3>1, <3>2, <3>4, <1>0, RunWritten
    <3>6. Ordered'
      BY <3>1, <3>5
    <3>7. EndsThere'
      <4>1. WriteRunInPart(c, k) => Happened("fragment")'
        BY <1>0, LedgerGrows DEF WriteRunInPart
      <4> QED  BY <3>1, <3>5, <4>1
    <3>8. Bounded'
      <4>1. asked_of <= l + 1 + MaxPending /\ asked_of \in Int /\ MaxPending \in Nat
        BY <1>k, <1>0 DEF l
      <4>2. asked_of' <= k + 1 + MaxPending
        BY <4>1, <3>3, <2>1
      <4> QED  BY <4>2, <3>1, <3>2
    <3> QED  BY <3>6, <3>7, <3>8, <1>q
  <2> QED  BY <2>3, <2>4, <2>5
<1>2. CASE \E c \in Numbers : SubtitleSkipped(c) \/ ChunkLost(c)
  <2>1. UNCHANGED subvars /\ \E m : Mishap(m)
    BY <1>2 DEF SubtitleSkipped, ChunkLost
  <2> QED  BY <2>1, <1>g, <1>s DEF subvars
<1>3. CASE HlsWrite
  <2>1. UNCHANGED <<last_index, subs_pending, frags, asked_of>>
    BY <1>3 DEF HlsWrite, OutputPasses, OutputGivesUp, WriteWithoutFile, WriteSegment, WriteFails,
                TrimSegments, PublishPlaylists, ResyncSubtitles, WriteRaises, ChunkForNobody, subvars
  <2>2. mishaps' = mishaps \/ \E m : Mishap(m)
    BY <1>3 DEF HlsWrite, OutputPasses, OutputGivesUp, WriteWithoutFile, WriteSegment, WriteFails,
                TrimSegments, PublishPlaylists, ResyncSubtitles, Rewritten, NotRewritten,
                WriteRaises, ChunkForNobody
  <2> QED  BY <2>1, <2>2, <1>g, <1>s
<1>4. CASE Reconnected
  BY <1>4, <1>g, <1>s DEF Reconnected, subvars
<1>5. CASE Reconfigure \/ StartAgain
  BY <1>5, <1>z DEF Reconfigure, StartAgain
<1>6. CASE UNCHANGED lvars
  BY <1>6, <1>g, <1>s DEF lvars
<1> QED  BY <1>1, <1>2, <1>3, <1>4, <1>5, <1>6 DEF LNext

(***************************************************************************)
(* The numbers.  As long as every chunk reached the output with its file,   *)
(* the output is at the number of the chunk it was brought last.  What the   *)
(* playlist of a finished publication names has been stored.                *)
(***************************************************************************)
NumbersInv ==
    /\ NumbersAgree => /\ hls_at # "down" /\ seg = next
                       /\ \A c \in Numbers : stage[c] # "lost"
                       /\ \A i \in DOMAIN segments : segments[i] \in {i, Torn}
    /\ Published /\ NumbersAgree => \A i \in subs : i < seg + 1
    /\ ~Happened("publish") /\ hls_at # "publish" => win \subseteq DOMAIN segments
    /\ hls_at \in {"trim", "publish"} => seg \in DOMAIN segments
    /\ ~Happened("publish") /\ hls_at = "resync" => win # {}

LEMMA LastIsListed ==
    ASSUME NEW n \in Nat, NEW S \in SUBSET (0..n), n \in S
    PROVE  n \in LastListed(S)
<1>1. {y \in S : y > n} = {}
  <2>1. \A y \in S : y \in Nat /\ y <= n
    OBVIOUS
  <2>2. \A y \in S : ~(y > n)
    BY <2>1
  <2> QED  BY <2>2
<1>2. Cardinality({y \in S : y > n}) < ListSize
  BY <1>1, FS_EmptySet, LiveNat
<1> QED  BY <1>2 DEF LastListed

LEMMA NumbersInit == LInit => NumbersInv
<1> SUFFICES ASSUME LInit PROVE NumbersInv
  OBVIOUS
<1>1. DOMAIN segments = {}
  BY DEF LInit, NoFiles
<1> QED  BY <1>1 DEF LInit, NumbersInv

(* A file more, and the window of the subtitles within the window of the video. *)
LEMMA ListedInWindow ==
    ASSUME NEW fs, NEW files, win # {} \/ fs = {}
    PROVE  Listed(fs, files) \subseteq win
  BY DEF Listed

LEMMA NumbersStep == LiveTypes /\ LiveTypes' /\ NumbersInv /\ [LNext]_lvars => NumbersInv'
<1> SUFFICES ASSUME LiveTypes, LiveTypes', NumbersInv, [LNext]_lvars PROVE NumbersInv'
  OBVIOUS
<1>0. /\ MaxChunks \in Nat /\ seg \in Nat /\ next \in Nat /\ seg <= next
      /\ DOMAIN segments \subseteq 0..seg /\ win \subseteq 0..seg /\ stage \in [Numbers -> {"new", "through", "lost"}]
      /\ mishaps \in Seq(Ledger)
  BY LiveNat DEF LiveTypes, LTypeOK
<1> DEFINE Agrees == NumbersAgree => /\ hls_at # "down" /\ seg = next
                                     /\ \A c \in Numbers : stage[c] # "lost"
                                     /\ \A i \in DOMAIN segments : segments[i] \in {i, Torn}
           Under == Published /\ NumbersAgree => \A i \in subs : i < seg + 1
           Named == ~Happened("publish") /\ hls_at # "publish" => win \subseteq DOMAIN segments
           There == hls_at \in {"trim", "publish"} => seg \in DOMAIN segments
           Shown == ~Happened("publish") /\ hls_at = "resync" => win # {}
<1>k. Agrees /\ Under /\ Named /\ There /\ Shown
  BY DEF NumbersInv
<1>q. ASSUME Agrees', Under', Named', There', Shown' PROVE NumbersInv'
  BY <1>q DEF NumbersInv
<1>m. ASSUME NEW m, Mishap(m)
      PROVE  /\ Happened(m)' /\ (NumbersAgree' => NumbersAgree) /\ (Published' => Published)
             /\ (~Happened("publish")' => ~Happened("publish"))
  BY <1>0, <1>m, LedgerGrows DEF NumbersAgree, Published
<1>u. ASSUME mishaps' = mishaps
      PROVE  /\ (NumbersAgree' <=> NumbersAgree) /\ (Happened("publish")' <=> Happened("publish"))
             /\ (Published' <=> Published)
  BY <1>u, LedgerKept DEF NumbersAgree, Published
<1>j. ASSUME mishaps' = Append(mishaps, "jump")
      PROVE  /\ (NumbersAgree' => NumbersAgree) /\ (~Happened("publish")' => ~Happened("publish"))
             /\ (Published' => Published)
  BY <1>0, <1>j, LedgerJumps DEF NumbersAgree, Published
<1>g. mishaps' = mishaps \/ (\E m : Mishap(m)) \/ mishaps' = Append(mishaps, "jump") =>
         /\ (NumbersAgree' => NumbersAgree) /\ (~Happened("publish")' => ~Happened("publish"))
         /\ (Published' => Published)
  BY <1>m, <1>u, <1>j
<1>h. ASSUME UNCHANGED <<hlsvars, subs>>, (NumbersAgree' => NumbersAgree),
             ~Happened("publish")' => ~Happened("publish"), Published' => Published
      PROVE  Under' /\ Named' /\ There' /\ Shown'
  BY <1>h, <1>k DEF hlsvars
<1>1. ASSUME NEW c \in Numbers, Subtitle(c) \/ SubtitleSkipped(c) PROVE NumbersInv'
  <2>1. /\ UNCHANGED <<next, hlsvars, subs>>
        /\ mishaps' = mishaps \/ (\E m : Mishap(m)) \/ mishaps' = Append(mishaps, "jump")
        /\ stage' = [stage EXCEPT ![c] = "through"]
    BY <1>1 DEF Subtitle, SubtitleSkipped, subvars, WriteRun, WriteRunInPart
  <2>2. /\ (NumbersAgree' => NumbersAgree) /\ (~Happened("publish")' => ~Happened("publish"))
        /\ (Published' => Published)
    BY <2>1, <1>g
  <2>3. Agrees'
    <3>1. \A d \in Numbers : stage[d] # "lost" => stage'[d] # "lost"
      BY <2>1, <1>0
    <3>2. UNCHANGED <<hls_at, seg, next, segments>>
      BY <2>1 DEF hlsvars
    <3> QED  BY <3>1, <3>2, <2>2, <1>k
  <2>4. Under' /\ Named' /\ There' /\ Shown'
    <3> HIDE DEF Under, Named, There, Shown
    <3> QED  BY <2>1, <2>2, <1>h
  <2> QED  BY <2>3, <2>4, <1>q
<1>2. ASSUME NEW c \in Numbers, ChunkLost(c) PROVE NumbersInv'
  <2>1. /\ UNCHANGED <<hlsvars, subs>> /\ Mishap("lost")
    BY <1>2 DEF ChunkLost, subvars
  <2>2. ~NumbersAgree'
    BY <2>1, <1>m DEF NumbersAgree
  <2>3. Under' /\ Named' /\ There' /\ Shown'
    BY <2>1, <2>2, <1>m, <1>h
  <2> QED  BY <2>2, <2>3, <1>q
<1>3. CASE OutputPasses
  <2>1. /\ UNCHANGED <<hlsvars, subs, mishaps>> /\ hls_at \in {"idle", "down"}
        /\ next < MaxChunks /\ stage[next] = "lost"
    BY <1>3 DEF OutputPasses, subvars
  <2>2. ~NumbersAgree
    BY <2>1, <1>k, <1>0 DEF Numbers
  <2>3. ~NumbersAgree' /\ Under' /\ Named' /\ There' /\ Shown'
    BY <2>1, <2>2, <1>u, <1>h
  <2> QED  BY <2>3, <1>q
<1>4. CASE OutputGivesUp \/ WriteWithoutFile
  <2>1. /\ UNCHANGED <<hlsvars, subs>> /\ \E m \in {"lost", "no_file"} : Mishap(m)
    BY <1>4 DEF OutputGivesUp, WriteWithoutFile, subvars
  <2>2. ~NumbersAgree'
    BY <2>1, <1>m DEF NumbersAgree
  <2>3. Under' /\ Named' /\ There' /\ Shown'
    BY <2>1, <2>2, <1>m, <1>h
  <2> QED  BY <2>2, <2>3, <1>q
<1>5. CASE ChunkForNobody
  <2>1. /\ UNCHANGED <<hlsvars, subs, mishaps>> /\ hls_at = "down"
    BY <1>5 DEF ChunkForNobody, subvars
  <2>2. ~NumbersAgree
    BY <2>1, <1>k
  <2>3. ~NumbersAgree' /\ Under' /\ Named' /\ There' /\ Shown'
    BY <2>1, <2>2, <1>u, <1>h
  <2> QED  BY <2>3, <1>q
<1>t. ASSUME NEW c, Stored(seg, c)
      PROVE  /\ DOMAIN segments' = DOMAIN segments \cup {seg}
             /\ \A j \in DOMAIN segments' : segments'[j] = IF j = seg THEN c ELSE segments[j]
  <2>1. segments' = [j \in DOMAIN segments \cup {seg} |-> IF j = seg THEN c ELSE segments[j]]
    BY <1>t DEF Stored
  <2> QED  BY <2>1
<1>6. CASE WriteSegment
  <2>1. /\ hls_at = "idle" /\ next < MaxChunks /\ hls_at' = "trim" /\ Stored(seg, next)
        /\ UNCHANGED <<stage, next, seg, win, subs>>
        /\ mishaps' = mishaps \/ (\E m : Mishap(m))
    BY <1>6 DEF WriteSegment, subvars
  <2>2. /\ (NumbersAgree' => NumbersAgree) /\ (~Happened("publish")' => ~Happened("publish"))
        /\ (Published' => Published)
    BY <2>1, <1>g
  <2>f. /\ DOMAIN segments' = DOMAIN segments \cup {seg}
        /\ \A j \in DOMAIN segments' : segments'[j] = IF j = seg THEN next ELSE segments[j]
    BY <2>1, <1>t
  <2>3. Agrees'
    <3>1. SUFFICES ASSUME NumbersAgree PROVE Agrees'
      BY <2>2
    <3>2. seg = next /\ (\A c \in Numbers : stage[c] # "lost") /\ \A i \in DOMAIN segments : segments[i] \in {i, Torn}
      BY <3>1, <1>k
    <3>3. \A i \in DOMAIN segments' : segments'[i] \in {i, Torn}
      BY <2>f, <3>2
    <3> QED  BY <2>1, <3>2, <3>3
  <2>4. Under'
    BY <2>1, <2>2, <1>k
  <2>5. Named'
    BY <2>1, <2>2, <2>f, <1>k
  <2>6. There' /\ Shown'
    BY <2>1, <2>f
  <2> QED  BY <2>3, <2>4, <2>5, <2>6, <1>q
<1>7. CASE WriteFails
  <2>1. /\ hls_at = "idle" /\ Mishap("encode") /\ next' = next + 1 /\ seg' = seg + 1
        /\ Stored(seg, Torn) \/ segments' = segments
        /\ UNCHANGED <<stage, hls_at, win, subs>>
    BY <1>7 DEF WriteFails, Passed, NumberUsed, subvars
  <2>2. /\ (NumbersAgree' => NumbersAgree) /\ (~Happened("publish")' => ~Happened("publish"))
        /\ (Published' => Published)
    BY <2>1, <1>m
  <2>3. Agrees'
    BY <2>1, <2>2, <1>k, <1>t
  <2>4. Under'
    <3>1. SUFFICES ASSUME NEW i \in subs', i < seg + 1 PROVE i < seg' + 1
      BY <2>1, <2>2, <1>k
    <3>2. i \in Nat
      BY LiveNat DEF LiveTypes, LTypeOK, Numbers
    <3> QED  BY <3>1, <3>2, <2>1, <1>0
  <2>5. Named' /\ There' /\ Shown'
    BY <2>1, <2>2, <1>k, <1>t
  <2> QED  BY <2>3, <2>4, <2>5, <1>q
<1>8. CASE TrimSegments
  <2>1. /\ hls_at = "trim" /\ hls_at' = "publish"
        /\ segments' = [i \in LastListed(DOMAIN segments) |-> segments[i]]
        /\ UNCHANGED <<stage, next, seg, win, subs, mishaps>>
    BY <1>8 DEF TrimSegments, subvars
  <2>2. seg \in LastListed(DOMAIN segments)
    BY <2>1, <1>k, <1>0, LastIsListed
  <2>3. /\ DOMAIN segments' = LastListed(DOMAIN segments) /\ DOMAIN segments' \subseteq DOMAIN segments
        /\ \A i \in DOMAIN segments' : segments'[i] = segments[i]
    BY <2>1, LastListedIsPart
  <2>4. /\ (NumbersAgree' <=> NumbersAgree) /\ (Happened("publish")' <=> Happened("publish"))
        /\ (Published' <=> Published)
    BY <2>1, <1>u
  <2>5. Agrees' /\ Under'
    BY <2>1, <2>3, <2>4, <1>k
  <2>6. Named' /\ There' /\ Shown'
    BY <2>1, <2>2, <2>3
  <2> QED  BY <2>5, <2>6, <1>q
<1>9. CASE PublishPlaylists
  <2>1. /\ hls_at = "publish" /\ hls_at' = "resync" /\ UNCHANGED <<stage, next, seg, segments, subs>>
        /\ \/ win' = DOMAIN segments /\ mishaps' = mishaps
           \/ Mishap("publish")
    BY <1>9 DEF PublishPlaylists, subvars
  <2>2. /\ (NumbersAgree' => NumbersAgree) /\ (~Happened("publish")' => ~Happened("publish"))
        /\ (Published' => Published)
    BY <2>1, <1>g
  <2>3. Agrees' /\ Under'
    BY <2>1, <2>2, <1>k
  <2>4. Happened("publish")' \/ win' = DOMAIN segments
    BY <2>1, <1>m
  <2>5. Named' /\ There' /\ Shown'
    BY <2>1, <2>4, <1>k
  <2> QED  BY <2>3, <2>5, <1>q
<1>10. CASE ResyncSubtitles
  <2>1. /\ hls_at = "resync" /\ hls_at' = "idle" /\ next' = next + 1 /\ seg' = seg + 1
        /\ \/ subs' = Listed(Fragments, vtt) /\ mishaps' = mishaps
           \/ Mishap("list")
           \/ UNCHANGED <<subs, mishaps>>
        /\ UNCHANGED <<stage, segments, win>>
    BY <1>10 DEF ResyncSubtitles, Rewritten, NotRewritten, Passed, NumberUsed
  <2>4. /\ (NumbersAgree' => NumbersAgree) /\ (~Happened("publish")' => ~Happened("publish"))
        /\ (Published' => Published)
    BY <2>1, <1>g
  <2>5. Agrees'
    BY <2>1, <2>4, <1>k
  <2>6. Under'
    <3>1. CASE subs' = Listed(Fragments, vtt) /\ mishaps' = mishaps
      <4>1. ~Happened("publish") => subs' \subseteq win
        BY <2>1, <3>1, <1>k, ListedInWindow
      <4>2. \A i \in win : i < seg' + 1
        BY <2>1, <1>0
      <4> QED  BY <2>4, <4>1, <4>2 DEF Published
    <3>2. CASE Mishap("list")
      <4>1. ~Published'
        BY <3>2, <1>m DEF Published
      <4> QED  BY <4>1
    <3>3. CASE UNCHANGED <<subs, mishaps>>
      <4>1. SUFFICES ASSUME NEW i \in subs', i < seg + 1 PROVE i < seg' + 1
        BY <2>4, <3>3, <1>k
      <4>2. i \in Nat
        BY LiveNat DEF LiveTypes, LTypeOK, Numbers
      <4> QED  BY <4>1, <4>2, <2>1, <1>0
    <3> QED  BY <2>1, <3>1, <3>2, <3>3
  <2>7. Named' /\ There' /\ Shown'
    BY <2>1, <2>4, <1>k
  <2> QED  BY <2>5, <2>6, <2>7, <1>q
<1>11. CASE WriteRaises
  <2>1. /\ Mishap("raise") /\ hls_at \in {"idle", "resync"} /\ hls_at' = "down" /\ UNCHANGED <<segments, win>>
    BY <1>11 DEF WriteRaises
  <2>2. ~NumbersAgree' /\ (~Happened("publish")' => ~Happened("publish"))
    BY <2>1, <1>m DEF NumbersAgree
  <2>3. Named' /\ There' /\ Shown'
    BY <2>1, <2>2, <1>k
  <2> QED  BY <2>2, <2>3, <1>q
<1>12. CASE Reconnected
  <2>1. /\ hls_at = "down" /\ hls_at' = "idle" /\ mishaps' = mishaps /\ win' = {}
    BY <1>12 DEF Reconnected, Emptied
  <2>2. ~NumbersAgree'
    BY <2>1, <1>u, <1>k
  <2> QED  BY <2>1, <2>2, <1>q
<1>13. CASE StartAgain
  <2>1. /\ hls_at' = "idle" /\ seg' = 0 /\ next' = 0 /\ segments' = NoFiles /\ win' = {}
        /\ stage' = [c \in Numbers |-> "new"]
        /\ subs' = Listed({}, {}) \/ mishaps' = <<"list">>
    BY <1>13 DEF StartAgain, Emptied
  <2>2. DOMAIN segments' = {}
    BY <2>1 DEF NoFiles
  <2>3. subs' = {} \/ ~Published'
    BY <2>1, OneHappened DEF Listed, Published
  <2> QED  BY <2>1, <2>2, <2>3, <1>q
<1>14. CASE Reconfigure
  <2>1. /\ Mishap("reconfigure") /\ subs' \in {Listed({}, vtt), {}, subs} /\ UNCHANGED <<stage, next, hlsvars>>
    BY <1>14 DEF Reconfigure
  <2>2. /\ (NumbersAgree' => NumbersAgree) /\ (~Happened("publish")' => ~Happened("publish"))
        /\ (Published' => Published)
    BY <2>1, <1>m
  <2>3. Agrees' /\ Named' /\ There' /\ Shown'
    BY <2>1, <2>2, <1>k DEF hlsvars
  <2>4. Under'
    <3>1. subs' \subseteq win \/ subs' = subs
      BY <2>1, ListedInWindow
    <3>2. \A i \in win : i < seg' + 1
      BY <2>1, <1>0 DEF hlsvars
    <3>3. subs' = subs => Under'
      BY <2>1, <2>2, <1>k DEF hlsvars
    <3> QED  BY <3>1, <3>2, <3>3
  <2> QED  BY <2>3, <2>4, <1>q
<1>15. CASE UNCHANGED lvars
  <2>1. UNCHANGED <<hlsvars, subs, stage, next, mishaps>>
    BY <1>15 DEF lvars, hlsvars
  <2>2. /\ (NumbersAgree' <=> NumbersAgree) /\ (Happened("publish")' <=> Happened("publish"))
        /\ (Published' <=> Published)
    BY <2>1, <1>u
  <2>3. Agrees' /\ Under' /\ Named' /\ There' /\ Shown'
    BY <2>1, <2>2, <1>k DEF hlsvars
  <2> QED  BY <2>3, <1>q
<1> QED  BY <1>1, <1>2, <1>3, <1>4, <1>5, <1>6, <1>7, <1>8, <1>9, <1>10, <1>11, <1>12, <1>13, <1>14, <1>15
         DEF LNext, HlsWrite

(***************************************************************************)
(* Both playlists together.  Without a mishap the generator has all that is  *)
(* through the modules: in a fragment, or behind a number that is missing.   *)
(* As the output is brought no chunk before it is through, none is missing   *)
(* below the number it is at, unless the generator jumped over one.          *)
(***************************************************************************)
Renditions == Smooth /\ abr /\ ~Happened("variant")

SmoothInv ==
    /\ Smooth => /\ \A c \in Numbers : stage[c] = "through" => c <= last_index \/ c \in subs_pending
                 /\ \A i \in 0..last_index : i \in vtt
                 /\ \A c \in Numbers : c < next => stage[c] = "through"
    /\ Renditions => vdisk = DOMAIN segments
    /\ Smooth /\ hls_at = "idle" => subs = win
    /\ Renditions /\ hls_at \in {"idle", "resync"} => vwin = win

LEMMA GeneratorKeepsUp ==
    ASSUME LiveTypes, SubtitlesInOrder, SmoothInv, Smooth,
           NEW n \in 0..MaxChunks, \A c \in Numbers : c < n => stage[c] = "through"
    PROVE  n <= last_index + 1
<1> SUFFICES ASSUME ~(n <= last_index + 1) PROVE FALSE
  OBVIOUS
<1>1. MaxChunks \in Nat /\ last_index \in Int /\ last_index >= -1
  BY LiveNat DEF LiveTypes, LTypeOK, Numbers
<1>2. last_index + 1 \in Numbers /\ last_index + 1 < n /\ ~(last_index + 1 <= last_index)
  BY <1>1 DEF Numbers
<1>3. last_index + 1 \in subs_pending
  BY <1>2 DEF SmoothInv
<1> QED  BY <1>3 DEF SubtitlesInOrder

LEMMA SmoothInit == LInit => SmoothInv
<1> SUFFICES ASSUME LInit PROVE SmoothInv
  OBVIOUS
<1>1. DOMAIN segments = {}
  BY DEF LInit, NoFiles
<1>2. \A c \in Numbers : ~(c < next) /\ stage[c] # "through"
  BY DEF LInit, Numbers
<1>3. \A i \in 0..last_index : FALSE
  BY DEF LInit
<1> QED  BY <1>1, <1>2, <1>3 DEF LInit, SmoothInv

LEMMA SmoothStep ==
    LiveTypes /\ LiveTypes' /\ SubtitlesInOrder /\ NumbersInv /\ SmoothInv /\ [LNext]_lvars => SmoothInv'
<1> SUFFICES ASSUME LiveTypes, LiveTypes', SubtitlesInOrder, NumbersInv, SmoothInv, [LNext]_lvars
             PROVE  SmoothInv'
  OBVIOUS
<1>0. /\ MaxChunks \in Nat /\ seg \in Nat /\ next \in 0..MaxChunks /\ last_index \in Int /\ last_index >= -1
      /\ DOMAIN segments \subseteq 0..seg /\ win \subseteq 0..seg /\ stage \in [Numbers -> {"new", "through", "lost"}]
      /\ mishaps \in Seq(Ledger)
  BY LiveNat DEF LiveTypes, LTypeOK, Numbers
<1>n. \A i : i \in Numbers <=> i \in Nat /\ i < MaxChunks
  BY LiveNat DEF Numbers
<1> DEFINE Given == Smooth => /\ \A c \in Numbers : stage[c] = "through" => c <= last_index \/ c \in subs_pending
                              /\ \A i \in 0..last_index : i \in vtt
           Brought == Smooth => \A c \in Numbers : c < next => stage[c] = "through"
           Stored2 == Renditions => vdisk = DOMAIN segments
           Same == Smooth /\ hls_at = "idle" => subs = win
           Same2 == Renditions /\ hls_at \in {"idle", "resync"} => vwin = win
<1>k. Given /\ Brought /\ Stored2 /\ Same /\ Same2
  BY DEF SmoothInv
<1>q. ASSUME Given', Brought', Stored2', Same', Same2' PROVE SmoothInv'
  BY <1>q DEF SmoothInv
<1>w. wired' = wired
  BY DEF LNext, HlsWrite, Subtitle, SubtitleSkipped, ChunkLost, OutputPasses, OutputGivesUp, WriteWithoutFile,
         WriteSegment, WriteFails, TrimSegments, PublishPlaylists, ResyncSubtitles, WriteRaises, ChunkForNobody,
         Reconnected, Reconfigure, StartAgain, lvars
<1>m. ASSUME NEW m, Mishap(m)
      PROVE  /\ (Smooth' => Smooth) /\ (Happened("variant") => Happened("variant")')
             /\ Happened(m)'
  BY <1>0, <1>m, <1>w, LedgerGrows DEF Smooth, NumbersAgree, Published
<1>u. ASSUME mishaps' = mishaps
      PROVE  (Smooth' <=> Smooth) /\ (Happened("variant")' <=> Happened("variant"))
  BY <1>u, <1>w, LedgerKept DEF Smooth, NumbersAgree, Published
<1>g. mishaps' = mishaps \/ (\E m : Mishap(m)) =>
         (Smooth' => Smooth) /\ (Happened("variant") => Happened("variant")')
  BY <1>m, <1>u
<1>r. ASSUME \/ \E m \in {"lost", "no_file", "raise", "skipped", "encode", "publish", "reconfigure",
                          "fragment", "list"} : Mishap(m)
             \/ mishaps' = Append(mishaps, "jump")
      PROVE  ~Smooth'
  BY <1>0, <1>r, <1>m, LedgerJumps DEF Smooth, NumbersAgree, Published
<1>z. ASSUME ~Smooth' PROVE SmoothInv'
  BY <1>z DEF SmoothInv, Renditions
<1>h. ASSUME UNCHANGED <<hlsvars, subs, abr>>, mishaps' = mishaps
      PROVE  Stored2' /\ Same' /\ Same2'
  BY <1>h, <1>k, <1>u DEF hlsvars, Renditions
<1>y. ASSUME NEW c \in Numbers,
             UNCHANGED <<abr, next, hlsvars, subs, mishaps>>, stage' = [stage EXCEPT ![c] = "through"],
             \/ c < last_index + 1 /\ UNCHANGED <<last_index, subs_pending, vtt>>
             \/ /\ c > last_index + 1 /\ subs_pending' = subs_pending \cup {c} /\ UNCHANGED <<last_index, vtt>>
             \/ /\ ~(c < last_index + 1) /\ ~(c > last_index + 1)
                /\ last_index' = DrainedTo(c) /\ subs_pending' = subs_pending \ ((c + 1)..DrainedTo(c))
                /\ vtt' = vtt \cup (c..DrainedTo(c))
      PROVE  SmoothInv'
  <2>2. Stored2' /\ Same' /\ Same2'
    <3> HIDE DEF Stored2, Same, Same2
    <3> QED  BY <1>y, <1>h
  <2>3. /\ stage'[c] = "through" /\ \A d \in Numbers : d # c => stage'[d] = stage[d]
    BY <1>y, <1>0
  <2>4. Brought'
    BY <1>y, <2>3, <1>k, <1>u
  <2>5. Given'
    <3>1. SUFFICES ASSUME Smooth PROVE Given'
      BY <1>y, <1>u
    <3>2. /\ \A d \in Numbers : stage[d] = "through" => d <= last_index \/ d \in subs_pending
          /\ \A i \in 0..last_index : i \in vtt
      BY <3>1, <1>k
    <3>3. c \in Int /\ c >= 0
      BY <1>n
    <3>4. CASE c < last_index + 1 /\ UNCHANGED <<last_index, subs_pending, vtt>>
      <4>1. c <= last_index
        BY <3>3, <3>4, <1>0
      <4> QED  BY <2>3, <3>2, <3>4, <4>1
    <3>5. CASE /\ c > last_index + 1 /\ subs_pending' = subs_pending \cup {c} /\ UNCHANGED <<last_index, vtt>>
      BY <2>3, <3>2, <3>5
    <3>6. CASE /\ ~(c < last_index + 1) /\ ~(c > last_index + 1)
               /\ last_index' = DrainedTo(c) /\ subs_pending' = subs_pending \ ((c + 1)..DrainedTo(c))
               /\ vtt' = vtt \cup (c..DrainedTo(c))
      <4>2. c = last_index + 1
        <5> DEFINE l == last_index
        <5>1. c \in Int /\ l \in Int /\ ~(c < l + 1) /\ ~(c > l + 1)
          BY <3>6, <3>3, <1>0
        <5> HIDE DEF l
        <5>2. c = l + 1
          BY <5>1
        <5> QED  BY <5>2 DEF l
      <4>3. /\ last_index' \in c..(MaxChunks - 1)
            /\ subs_pending' = subs_pending \ ((c + 1)..last_index')
            /\ vtt' = vtt \cup (c..last_index')
        BY <3>6, DrainEnds DEF LiveTypes, LTypeOK
      <4> DEFINE k == last_index'
                 l == last_index
      <4>4. /\ k \in Int /\ l \in Int /\ c = l + 1 /\ c <= k
        BY <4>2, <4>3, <1>0, <3>3
      <4>5. /\ \A d \in Numbers : stage[d] = "through" => d <= l \/ d \in subs_pending
            /\ \A i \in 0..l : i \in vtt
            /\ subs_pending' = subs_pending \ ((c + 1)..k) /\ vtt' = vtt \cup (c..k)
        BY <3>2, <4>3
      <4> HIDE DEF k, l
      <4>6. \A d \in Numbers : stage'[d] = "through" => d <= k \/ d \in subs_pending'
        <5> SUFFICES ASSUME NEW d \in Numbers, stage'[d] = "through", ~(d <= k) PROVE d \in subs_pending'
          OBVIOUS
        <5>1. d \in Int
          BY <1>n
        <5>2. d # c /\ ~(d <= l) /\ d \notin (c + 1)..k
          BY <5>1, <4>4, <3>3
        <5> QED  BY <5>2, <2>3, <4>5
      <4>7. \A i \in 0..k : i \in vtt'
        <5> SUFFICES ASSUME NEW i \in 0..k PROVE i \in vtt'
          OBVIOUS
        <5>1. i \in 0..l \/ i \in c..k
          BY <4>4, <3>3
        <5> QED  BY <5>1, <4>5
      <4> QED  BY <4>6, <4>7 DEF k
    <3> QED  BY <1>y, <3>4, <3>5, <3>6
  <2> HIDE DEF Given, Brought, Stored2, Same, Same2
  <2> QED  BY <2>2, <2>4, <2>5, <1>q
<1>1. ASSUME NEW c \in Numbers, Subtitle(c) PROVE SmoothInv'
  <2>a. CASE WriteRunInPart(c, DrainedTo(c)) \/ mishaps' = Append(mishaps, "jump")
    BY <2>a, <1>r, <1>z DEF WriteRunInPart
  <2>b. CASE ~(WriteRunInPart(c, DrainedTo(c)) \/ mishaps' = Append(mishaps, "jump"))
   <3> USE <2>b
   <3>1. /\ UNCHANGED <<abr, next, hlsvars, subs, mishaps>>
         /\ stage' = [stage EXCEPT ![c] = "through"]
         /\ \/ c < last_index + 1 /\ UNCHANGED <<last_index, subs_pending, vtt>>
            \/ /\ c > last_index + 1 /\ subs_pending' = subs_pending \cup {c} /\ UNCHANGED <<last_index, vtt>>
            \/ /\ ~(c < last_index + 1) /\ ~(c > last_index + 1)
               /\ last_index' = DrainedTo(c) /\ subs_pending' = subs_pending \ ((c + 1)..DrainedTo(c))
               /\ vtt' = vtt \cup (c..DrainedTo(c))
     BY <1>1 DEF Subtitle, TooLate, MustWait, TooFar, WriteRun
   <3> QED  BY <3>1, <1>y
  <2> QED  BY <2>a, <2>b
<1>2. CASE (\E c \in Numbers : SubtitleSkipped(c) \/ ChunkLost(c)) \/ OutputGivesUp \/ WriteWithoutFile
           \/ WriteFails \/ WriteRaises \/ Reconfigure
  <2>1. \E m \in {"lost", "no_file", "raise", "skipped", "encode", "publish", "reconfigure"} : Mishap(m)
    BY <1>2 DEF SubtitleSkipped, ChunkLost, OutputGivesUp, WriteWithoutFile, WriteFails, WriteRaises, Reconfigure
  <2> QED  BY <2>1, <1>r, <1>z
<1>3. CASE OutputPasses \/ ChunkForNobody \/ Reconnected
  <2>1. mishaps' = mishaps /\ (hls_at = "down" \/ (next < MaxChunks /\ stage[next] = "lost"))
    BY <1>3 DEF OutputPasses, ChunkForNobody, Reconnected
  <2>2. ~NumbersAgree
    BY <2>1, <1>0 DEF NumbersInv, Numbers
  <2> QED  BY <2>1, <2>2, <1>u, <1>z DEF Smooth
<1>s. ASSUME UNCHANGED <<stage, next, last_index, subs_pending, vtt>>, Smooth' => Smooth
      PROVE  Given' /\ Brought'
  BY <1>s, <1>k
<1>4. CASE WriteSegment
  <2>1. /\ hls_at' = "trim" /\ Stored(seg, next)
        /\ UNCHANGED <<abr, stage, next, last_index, subs_pending, vtt>>
        /\ \/ vdisk' = (IF abr THEN vdisk \cup {seg} ELSE vdisk) /\ mishaps' = mishaps
           \/ Mishap("variant")
    BY <1>4 DEF WriteSegment, subvars
  <2>2. Given' /\ Brought'
    <3> HIDE DEF Given, Brought
    <3> QED  BY <2>1, <1>g, <1>s
  <2>3. DOMAIN segments' = DOMAIN segments \cup {seg}
    BY <2>1 DEF Stored
  <2>4. Stored2'
    BY <2>1, <2>3, <1>k, <1>u, <1>m DEF Renditions
  <2>5. Same' /\ Same2'
    BY <2>1
  <2> HIDE DEF Given, Brought, Stored2, Same, Same2
  <2> QED  BY <2>2, <2>4, <2>5, <1>q
<1>5. CASE TrimSegments
  <2>1. /\ hls_at' = "publish"
        /\ segments' = [i \in LastListed(DOMAIN segments) |-> segments[i]]
        /\ vdisk' = vdisk \ (DOMAIN segments \ LastListed(DOMAIN segments))
        /\ UNCHANGED <<abr, stage, next, last_index, subs_pending, vtt, mishaps>>
    BY <1>5 DEF TrimSegments, subvars
  <2>2. Given' /\ Brought'
    <3> HIDE DEF Given, Brought
    <3> QED  BY <2>1, <1>u, <1>s
  <2>3. DOMAIN segments' = LastListed(DOMAIN segments) /\ DOMAIN segments' \subseteq DOMAIN segments
    BY <2>1, LastListedIsPart
  <2>4. Stored2'
    BY <2>1, <2>3, <1>k, <1>u DEF Renditions
  <2>5. Same' /\ Same2'
    BY <2>1
  <2> HIDE DEF Given, Brought, Stored2, Same, Same2
  <2> QED  BY <2>2, <2>4, <2>5, <1>q
<1>6. CASE PublishPlaylists
  <2>1. CASE Mishap("publish")
    BY <2>1, <1>r, <1>z
  <2>2. CASE win' = DOMAIN segments /\ vwin' = vdisk /\ mishaps' = mishaps
    <3>1. /\ hls_at' = "resync"
          /\ UNCHANGED <<abr, stage, next, last_index, subs_pending, vtt, segments, vdisk>>
      BY <1>6 DEF PublishPlaylists, subvars
    <3>2. Given' /\ Brought'
      <4> HIDE DEF Given, Brought
      <4> QED  BY <2>2, <3>1, <1>u, <1>s
    <3>3. Stored2' /\ Same' /\ Same2'
      BY <2>2, <3>1, <1>k, <1>u DEF Renditions
    <3> HIDE DEF Given, Brought, Stored2, Same, Same2
    <3> QED  BY <3>2, <3>3, <1>q
  <2> QED  BY <1>6, <2>1, <2>2 DEF PublishPlaylists
<1>7. CASE ResyncSubtitles
  <2>a. CASE ~wired \/ NotRewritten
    <3>1. ~Smooth'
      BY <2>a, <1>r, <1>w DEF Smooth, NotRewritten
    <3> QED  BY <3>1, <1>z
  <2>b. CASE wired /\ ~NotRewritten
    <3>1. /\ hls_at = "resync" /\ hls_at' = "idle" /\ next' = next + 1
          /\ subs' = Listed(Fragments, vtt)
          /\ UNCHANGED <<abr, stage, segments, vdisk, win, vwin, last_index, subs_pending, vtt, mishaps>>
      BY <1>7, <2>b DEF ResyncSubtitles, Rewritten, Passed
    <3>2. next < MaxChunks /\ stage[next] = "through" /\ next' \in 0..MaxChunks
      BY <3>1, <1>0 DEF LiveTypes, Writing
    <3>3. Brought'
      <4>1. \A c \in Numbers : c < next + 1 => c < next \/ c = next
        BY <1>0, <1>n
      <4> QED  BY <3>1, <3>2, <4>1, <1>k, <1>u
    <3>4. Given' /\ Stored2' /\ Same2'
      BY <3>1, <1>k, <1>u DEF Renditions
    <3>5. Same'
      <4>1. SUFFICES ASSUME Smooth PROVE subs' = win
        BY <3>1, <1>u
      <4>2. /\ NumbersAgree /\ ~Happened("publish") /\ win # {}
        BY <4>1, <3>1 DEF Smooth, NumbersInv, Published
      <4>3. next + 1 <= last_index + 1
        <5>1. \A c \in Numbers : c < next + 1 => c < next \/ c = next
          BY <1>0, <1>n
        <5>2. next + 1 \in 0..MaxChunks /\ \A c \in Numbers : c < next + 1 => stage[c] = "through"
          BY <5>1, <1>0, <3>2, <4>1, <1>k
        <5> QED  BY <5>2, <4>1, GeneratorKeepsUp
      <4>4. \A i \in win : i \in vtt
        <5> SUFFICES ASSUME NEW i \in win PROVE i \in vtt
          OBVIOUS
        <5>1. seg <= next
          BY DEF LiveTypes
        <5>2. i \in 0..last_index
          BY <1>0, <4>3, <5>1
        <5> QED  BY <5>2, <4>1, <1>k
      <4> QED  BY <3>1, <4>2, <4>4 DEF Listed
    <3> HIDE DEF Given, Brought, Stored2, Same, Same2
    <3> QED  BY <3>3, <3>4, <3>5, <1>q
  <2> QED  BY <2>a, <2>b
<1>8. CASE StartAgain
  <2>1. /\ hls_at' = "idle" /\ next' = 0 /\ segments' = NoFiles /\ win' = {} /\ vwin' = {} /\ vdisk' = {}
        /\ stage' = [c \in Numbers |-> "new"] /\ last_index' = -1
        /\ subs' = Listed({}, {}) \/ mishaps' = <<"list">>
    BY <1>8 DEF StartAgain, Emptied
  <2>2. DOMAIN segments' = {} /\ (subs' = {} \/ ~Smooth')
    BY <2>1, OneHappened DEF NoFiles, Listed, Smooth, Published
  <2>3. Stored2' /\ Same' /\ Same2'
    BY <2>1, <2>2
  <2>4. Given' /\ Brought'
    <3>1. \A c \in Numbers : ~(c < next') /\ stage'[c] # "through"
      BY <2>1, <1>n
    <3>2. \A i \in 0..last_index' : FALSE
      BY <2>1
    <3> QED  BY <3>1, <3>2
  <2> HIDE DEF Given, Brought, Stored2, Same, Same2
  <2> QED  BY <2>3, <2>4, <1>q
<1>9. CASE UNCHANGED lvars
  <2>1. UNCHANGED <<hlsvars, subs, abr, stage, next, last_index, subs_pending, vtt, mishaps>>
    BY <1>9 DEF lvars, hlsvars
  <2>2. Stored2' /\ Same' /\ Same2' /\ Given' /\ Brought'
    <3> HIDE DEF Given, Brought, Stored2, Same, Same2
    <3> QED  BY <2>1, <1>h, <1>s, <1>u
  <2> HIDE DEF Given, Brought, Stored2, Same, Same2
  <2> QED  BY <2>2, <1>q
<1> QED  BY <1>1, <1>2, <1>3, <1>4, <1>5, <1>6, <1>7, <1>8, <1>9 DEF LNext, HlsWrite

LEMMA SubsMatchFollows == LiveTypes /\ NumbersInv /\ SmoothInv => SubsMatchVideo
  BY DEF NumbersInv, SmoothInv, SubsMatchVideo, Renditions

(* Type correctness of what the two playlists are made from. *)
THEOREM PlaylistsTyped == LSpec => []LTypeOK
<1>1. LiveTypes => LTypeOK
  BY DEF LiveTypes
<1> QED  BY <1>1, LiveTypesInit, LiveTypesStep, PTL DEF LSpec

(* The generator keeps the order of the chunks whatever order the workers bring them in, and
   a number that never comes holds it up for no more than _MAX_PENDING numbers. *)
THEOREM SubtitlesKeepOrder == LSpec => []SubtitlesInOrder
<1> QED  BY LiveTypesInit, LiveTypesStep, OrderInit, OrderStep, PTL DEF LSpec

(* stream.m3u8 and subs.m3u8 show the same chunks. *)
THEOREM PlaylistsShowTheSame == LSpec => []SubsMatchVideo
<1> QED  BY LiveTypesInit, LiveTypesStep, OrderInit, OrderStep, NumbersInit, NumbersStep,
            SmoothInit, SmoothStep, SubsMatchFollows, PTL DEF LSpec

-----------------------------------------------------------------------------
(* Speech synthesis. *)
Heard == 0 .. MaxTexts
Commands == {Shutdown} \cup Heard
Asked == {"loading", "pinging", "speaking"}
WithManager == {"boot", "load", "wait", "ping", "restart", "speak", "join", "halt", "ending"} \cup Asked
PiperPcs == WithManager \cup {"idle", "lazy", "loaded", "failed", "noting", "use", "gone", "ended"}

EngineRecord ==
    [stopped : BOOLEAN, loaded : BOOLEAN, manager : 0 .. MaxManagers, starts : 0 .. MaxStarts,
     changes : 0 .. MaxChanges, texts : 0 .. MaxTexts, made : 0 .. MaxManagers,
     loader : PiperThreads \cup {Unlocked}]
ManagerRecord ==
    [proc : 0 .. MaxProcesses, ready : BOOLEAN, told : BOOLEAN, handle : BOOLEAN,
     voice : 0 .. MaxChanges, lock : PiperThreads \cup {Unlocked}, talk : PiperThreads \cup {Unlocked}]
PipeRecord == [up : BOOLEAN, inbox : Seq(Commands), outbox : Seq(Heard)]
DoesRecord == [pc : PiperPcs, mgr : 0 .. MaxManagers, proc : 0 .. MaxProcesses, text : Heard]
BudgetRecord == [spawned : 0 .. MaxProcesses, pings : Nat, crashes : Nat, late : Nat]

(* What a thread has at each point: a manager, a text to speak; who comes there at all;
   and the warm-up thread of a start is not there before it. *)
Knows(t, d, started) ==
    /\ d.pc \in WithManager => d.mgr \in Managers
    /\ d.pc \in {"use", "speak", "speaking"} => t \in Speakers
    /\ d.pc \in {"lazy", "loaded"} => t \notin Beats
    /\ t \in Speakers /\ d.pc # "idle" => d.text \in 1 .. MaxTexts
    /\ \A m \in Managers : t = Beat(m) /\ d.pc # "idle" => d.mgr = m
    /\ \A n \in 1 .. MaxStarts : t = Warm(n) /\ d.pc # "idle" => n <= started

SynthesisTypes ==
    /\ engine \in EngineRecord
    /\ mgr \in [Managers -> ManagerRecord]
    /\ piper \in [Processes -> PipeRecord]
    /\ does \in [PiperThreads -> DoesRecord]
    /\ budget \in BudgetRecord
    /\ spoken \subseteq (1 .. MaxTexts) \X Heard
    /\ \A t \in PiperThreads : Knows(t, does[t], engine.starts)

(* Whoever waits for an answer holds the command lock of its manager, and nobody else does. *)
OneTalks ==
    \A t \in PiperThreads, m \in Managers :
        mgr[m].talk = t <=> does[t].pc \in Asked /\ does[t].mgr = m

(* A subprocess belongs to one manager, and one that has not been started has no pipes. *)
Unborn(r) == ~r.up /\ r.inbox = <<>> /\ r.outbox = <<>>
OwnProcesses ==
    /\ \A m \in Managers : mgr[m].proc <= budget.spawned
    /\ \A m, n \in Managers : mgr[m].proc # 0 /\ mgr[m].proc = mgr[n].proc => m = n
    /\ \A p \in Processes : p > budget.spawned => Unborn(piper[p])

(* What may be in the pipes of a subprocess when nobody waits for an answer: nothing that
   leads to audio, whether it is up, told to end or ended; and while an answer is awaited:
   that one, as a command or an answer, behind nothing and before nothing that leads to audio. *)
LastOrders(s) == s = <<>> \/ Head(s) = Shutdown
NothingHeard(s) == \A i \in 1 .. Len(s) : s[i] = NoAudio
Clean(r) == IF r.up THEN r.outbox = <<>> /\ LastOrders(r.inbox) ELSE NothingHeard(r.outbox)
Carries(r, x) ==
    \/ Clean(r)
    \/ r.up /\ r.outbox = <<x>> /\ LastOrders(r.inbox)
    \/ r.up /\ r.outbox = <<>> /\ r.inbox # <<>> /\ Head(r.inbox) = x /\ LastOrders(Tail(r.inbox))
    \/ ~r.up /\ r.outbox # <<>> /\ r.outbox[1] = x /\ NothingHeard(Tail(r.outbox))

Expected(d) == IF d.pc = "speaking" THEN d.text ELSE NoAudio
PipesInStep ==
    budget.late = 0 =>
        \A m \in Managers : mgr[m].proc # 0 =>
            /\ mgr[m].talk = Unlocked => Clean(piper[mgr[m].proc])
            /\ \A t \in PiperThreads : mgr[m].talk = t => Carries(piper[mgr[m].proc], Expected(does[t]))

SynthesisInv == SynthesisTypes /\ OneTalks /\ OwnProcesses /\ PipesInStep /\ AudioIsOwnText

LEMMA SynthesisBounds ==
    /\ MaxManagers \in Nat /\ MaxProcesses \in Nat /\ MaxStarts \in Nat /\ MaxChanges \in Nat
    /\ MaxTexts \in Nat
  BY PiperAssumption

(* No thread is another one, and none is nobody. *)
LEMMA ThreadsApart ==
    /\ Unlocked \notin PiperThreads
    /\ Control \in PiperThreads /\ Control \notin Speakers /\ Control \notin Beats
    /\ \A n \in 1 .. MaxStarts : /\ Warm(n) \in PiperThreads /\ Warm(n) \notin Speakers
                                 /\ Warm(n) \notin Beats /\ Warm(n) # Control
    /\ \A w \in Workers : Work(w) \in Speakers
    /\ Speakers \subseteq PiperThreads /\ Beats \subseteq PiperThreads
    /\ \A t \in Speakers : t \notin Beats /\ t # Control
    /\ \A m \in Managers : Beat(m) \in Beats
    /\ \A t \in Beats : \E m \in Managers : t = Beat(m)
    /\ \A m, n \in Managers : Beat(m) = Beat(n) => m = n
    /\ \A n, k \in 1 .. MaxStarts : Warm(n) = Warm(k) => n = k
    /\ \A m \in Managers, n \in 1 .. MaxStarts : Beat(m) # Warm(n)
<1> USE DEF PiperThreads, Speakers, Warmups, Beats, Control, Work, Warm, Beat, Unlocked
<1>1. Unlocked \notin PiperThreads
  OBVIOUS
<1>2. Control \in PiperThreads /\ Control \notin Speakers /\ Control \notin Beats
  OBVIOUS
<1>3. ASSUME NEW n \in 1 .. MaxStarts
      PROVE  /\ Warm(n) \in PiperThreads /\ Warm(n) \notin Speakers
             /\ Warm(n) \notin Beats /\ Warm(n) # Control
  OBVIOUS
<1>4. Speakers \subseteq PiperThreads /\ Beats \subseteq PiperThreads
  OBVIOUS
<1>5. ASSUME NEW t \in Speakers PROVE t \notin Beats /\ t # Control
  OBVIOUS
<1>6. /\ \A w \in Workers : Work(w) \in Speakers
      /\ \A m \in Managers : Beat(m) \in Beats
      /\ \A t \in Beats : \E m \in Managers : t = Beat(m)
  OBVIOUS
<1>7. /\ \A m, n \in Managers : Beat(m) = Beat(n) => m = n
      /\ \A n, k \in 1 .. MaxStarts : Warm(n) = Warm(k) => n = k
      /\ \A m \in Managers, n \in 1 .. MaxStarts : Beat(m) # Warm(n)
  OBVIOUS
<1> HIDE DEF PiperThreads, Speakers, Warmups, Beats, Control, Work, Warm, Beat, Unlocked
<1>. QED  BY <1>1, <1>2, <1>3, <1>4, <1>5, <1>6, <1>7

(* A thread moves on, and the others stay. *)
LEMMA OneMoves ==
    ASSUME SynthesisTypes, NEW t \in PiperThreads, NEW d \in DoesRecord,
           does' = [does EXCEPT ![t] = d],
           engine' \in EngineRecord, engine.starts <= engine'.starts,
           Knows(t, d, engine'.starts)
    PROVE  /\ does' \in [PiperThreads -> DoesRecord]
           /\ \A u \in PiperThreads : Knows(u, does'[u], engine'.starts)
           /\ does'[t] = d
           /\ \A u \in PiperThreads \ {t} : does'[u] = does[u]
<1>1. does' \in [PiperThreads -> DoesRecord] /\ does'[t] = d
      /\ \A u \in PiperThreads \ {t} : does'[u] = does[u]
  BY DEF SynthesisTypes
<1>2. ASSUME NEW u \in PiperThreads PROVE Knows(u, does[u], engine'.starts)
  <2>1. engine.starts \in Nat /\ engine'.starts \in Nat
    BY SynthesisBounds DEF SynthesisTypes, EngineRecord
  <2>2. Knows(u, does[u], engine.starts)
    BY DEF SynthesisTypes
  <2>. QED  BY <2>1, <2>2, SynthesisBounds DEF Knows
<1>. QED  BY <1>1, <1>2

(* The record of a thread that goes to another point, with another manager, process or text. *)
LEMMA GoesTo ==
    ASSUME SynthesisTypes, NEW t \in PiperThreads, NEW c \in PiperPcs
    PROVE  /\ [does EXCEPT ![t].pc = c]
               = [does EXCEPT ![t] = [pc |-> c, mgr |-> does[t].mgr, proc |-> does[t].proc, text |-> does[t].text]]
           /\ does[t].mgr \in 0 .. MaxManagers /\ does[t].proc \in 0 .. MaxProcesses
           /\ does[t].text \in Heard
<1>1. does[t] \in DoesRecord /\ does \in [PiperThreads -> DoesRecord]
  BY DEF SynthesisTypes
<1>2. [does[t] EXCEPT !.pc = c] = [pc |-> c, mgr |-> does[t].mgr, proc |-> does[t].proc, text |-> does[t].text]
  BY <1>1 DEF DoesRecord
<1>3. [does EXCEPT ![t].pc = c] = [does EXCEPT ![t] = [does[t] EXCEPT !.pc = c]]
  BY <1>1
<1>4. does[t].mgr \in 0 .. MaxManagers /\ does[t].proc \in 0 .. MaxProcesses /\ does[t].text \in Heard
  BY <1>1 DEF DoesRecord
<1>. QED  BY <1>2, <1>3, <1>4

LEMMA GoesWith ==
    ASSUME SynthesisTypes, NEW t \in PiperThreads, NEW c \in PiperPcs, NEW m \in 0 .. MaxManagers
    PROVE  [does EXCEPT ![t].pc = c, ![t].mgr = m]
             = [does EXCEPT ![t] = [pc |-> c, mgr |-> m, proc |-> does[t].proc, text |-> does[t].text]]
<1> DEFINE d == [pc |-> c, mgr |-> does[t].mgr, proc |-> does[t].proc, text |-> does[t].text]
           g == [does EXCEPT ![t] = d]
<1>1. does \in [PiperThreads -> DoesRecord]
  BY DEF SynthesisTypes
<1>2. [does EXCEPT ![t].pc = c] = g
  BY GoesTo
<1>3. [does EXCEPT ![t].pc = c, ![t].mgr = m] = [[does EXCEPT ![t].pc = c] EXCEPT ![t].mgr = m]
  OBVIOUS
<1>4. [g EXCEPT ![t].mgr = m] = [does EXCEPT ![t] = [d EXCEPT !.mgr = m]]
  <2> HIDE DEF d
  <2>. QED  BY <1>1
<1>. QED  BY <1>2, <1>3, <1>4

(* What a step leaves alone of the talk with the subprocesses. *)
SameTalk(d, e) ==
    /\ e.pc \in Asked <=> d.pc \in Asked
    /\ d.pc \in Asked => e.mgr = d.mgr /\ Expected(e) = Expected(d)

Keeps(r, q) ==
    /\ Unborn(r) => Unborn(q)
    /\ Clean(r) => Clean(q)
    /\ \A x \in Heard : Carries(r, x) => Carries(q, x)

Undisturbed ==
    /\ budget'.spawned = budget.spawned /\ budget'.late = budget.late
    /\ \A p \in Processes : Keeps(piper[p], piper'[p])
    /\ \A m \in Managers : mgr'[m].talk = mgr[m].talk /\ mgr'[m].proc \in {0, mgr[m].proc}
    /\ \A u \in PiperThreads : SameTalk(does[u], does'[u])
    /\ \A s \in spoken' : s \in spoken \/ s[2] = NoAudio

LEMMA KeepsItself == \A r : Keeps(r, r)
  BY DEF Keeps

(* A thread that was under way moves on with its text, and a heartbeat with its manager. *)
LEMMA Onward ==
    ASSUME SynthesisTypes, NEW t \in PiperThreads, NEW d \in DoesRecord,
           does' = [does EXCEPT ![t] = d],
           engine' \in EngineRecord, engine'.starts = engine.starts,
           does[t].pc # "idle", d.text = does[t].text,
           d.pc \in WithManager => d.mgr \in Managers,
           d.pc \in {"use", "speak", "speaking"} => t \in Speakers,
           d.pc \in {"lazy", "loaded"} => t \notin Beats,
           t \in Beats => d.mgr = does[t].mgr
    PROVE  /\ does' \in [PiperThreads -> DoesRecord]
           /\ \A u \in PiperThreads : Knows(u, does'[u], engine'.starts)
           /\ does'[t] = d
           /\ \A u \in PiperThreads \ {t} : does'[u] = does[u]
           /\ does[t].pc \notin Asked /\ d.pc \notin Asked
                => \A u \in PiperThreads : SameTalk(does[u], does'[u])
<1>1. engine.starts \in Nat /\ engine.starts <= engine'.starts
  BY SynthesisBounds DEF SynthesisTypes, EngineRecord
<1>2. Knows(t, does[t], engine.starts)
  BY DEF SynthesisTypes
<1>3. \A m \in Managers : t = Beat(m) => t \in Beats
  BY ThreadsApart
<1>4. Knows(t, d, engine'.starts)
  BY <1>2, <1>3 DEF Knows
<1>5. /\ does' \in [PiperThreads -> DoesRecord]
      /\ \A u \in PiperThreads : Knows(u, does'[u], engine'.starts)
      /\ does'[t] = d
      /\ \A u \in PiperThreads \ {t} : does'[u] = does[u]
  BY <1>1, <1>4, OneMoves
<1>6. ASSUME does[t].pc \notin Asked, d.pc \notin Asked, NEW u \in PiperThreads
      PROVE  SameTalk(does[u], does'[u])
  <2>1. CASE u = t
    BY <1>5, <1>6, <2>1 DEF SameTalk
  <2>2. CASE u # t
    BY <1>5, <2>2 DEF SameTalk
  <2>. QED  BY <2>1, <2>2
<1>. QED  BY <1>5, <1>6

(* A thread that rests, or begins to do something that needs no manager's answer. *)
LEMMA SetsOut ==
    ASSUME SynthesisTypes, NEW t \in PiperThreads, NEW d \in DoesRecord,
           does' = [does EXCEPT ![t] = d],
           engine' \in EngineRecord, engine.starts <= engine'.starts,
           Knows(t, d, engine'.starts), does[t].pc = "idle", d.pc \notin Asked
    PROVE  /\ does' \in [PiperThreads -> DoesRecord]
           /\ \A u \in PiperThreads : Knows(u, does'[u], engine'.starts)
           /\ \A u \in PiperThreads : SameTalk(does[u], does'[u])
<1>1. /\ does' \in [PiperThreads -> DoesRecord]
      /\ \A u \in PiperThreads : Knows(u, does'[u], engine'.starts)
      /\ does'[t] = d
      /\ \A u \in PiperThreads \ {t} : does'[u] = does[u]
  BY OneMoves
<1>2. ASSUME NEW u \in PiperThreads PROVE SameTalk(does[u], does'[u])
  <2>1. CASE u = t
    BY <1>1, <2>1 DEF SameTalk, Asked
  <2>2. CASE u # t
    BY <1>1, <2>2 DEF SameTalk
  <2>. QED  BY <2>1, <2>2
<1>. QED  BY <1>1, <1>2

-----------------------------------------------------------------------------
(* The end of a command: its thread lets go of the manager. *)
LetsGo(t) ==
    /\ does' \in [PiperThreads -> DoesRecord]
    /\ \A u \in PiperThreads : Knows(u, does'[u], engine.starts)
    /\ mgr' \in [Managers -> ManagerRecord]
    /\ mgr'[does[t].mgr].talk = Unlocked
    /\ \A n \in Managers : /\ mgr'[n].proc = mgr[n].proc
                           /\ n # does[t].mgr => mgr'[n].talk = mgr[n].talk
    /\ does'[t].pc \notin Asked
    /\ \A u \in PiperThreads \ {t} : SameTalk(does[u], does'[u])

(* What else the end of a load does: it opens the lock of its manager, and wakes the
   heartbeat of that manager. *)
LoadOver(t, ok) ==
    LET m == does[t].mgr IN
    /\ does'[t].pc = IF t \in Beats THEN "wait" ELSE IF ok THEN "loaded" ELSE "failed"
    /\ does'[t].mgr = m
    /\ \A u \in PiperThreads \ {t} :
          \/ does'[u] = does[u]
          \/ /\ u \in Beats /\ does'[u].mgr = m /\ does'[u].proc = does[u].proc
             /\ \/ does'[u].pc = does[u].pc /\ (does[u].pc # "idle" => does[u].mgr = m)
                \/ does'[u].pc = "wait" /\ does[u].pc \in {"idle", "gone"}
    /\ mgr'[m].lock = Unlocked
    /\ \A n \in Managers : /\ mgr'[n].proc = mgr[n].proc /\ mgr'[n].voice = mgr[n].voice
                           /\ n # m => mgr'[n].lock = mgr[n].lock

LEMMA LoadEndsIs ==
    ASSUME SynthesisTypes, NEW t \in PiperThreads, NEW ok \in BOOLEAN,
           does[t].pc \in {"load", "loading"}, LoadEnds(t, ok)
    PROVE  LetsGo(t) /\ LoadOver(t, ok)
<1> DEFINE m == does[t].mgr
           b == Beat(m)
           c == IF t \in Beats THEN "wait" ELSE IF ok THEN "loaded" ELSE "failed"
           e == IF ok /\ does[b].pc \in {"idle", "gone"} THEN "wait" ELSE does[b].pc
           dt == [pc |-> c, mgr |-> m, proc |-> does[t].proc, text |-> does[t].text]
           db == [pc |-> e, mgr |-> m, proc |-> does[b].proc, text |-> does[b].text]
<1>1. Knows(t, does[t], engine.starts) /\ does[t] \in DoesRecord
  BY DEF SynthesisTypes
<1>2. m \in Managers
  BY <1>1 DEF Knows, WithManager, Asked
<1>3. b \in PiperThreads /\ b \in Beats
  BY <1>2, ThreadsApart
<1>4. Knows(b, does[b], engine.starts) /\ does[b] \in DoesRecord
  BY <1>3 DEF SynthesisTypes
<1>5. t \in Beats => t = b
  BY <1>1, <1>2, ThreadsApart DEF Knows
<1>6. does' = [[does EXCEPT ![b].pc = e, ![b].mgr = m] EXCEPT ![t].pc = c]
  BY <1>3 DEF LoadEnds, SynthesisTypes
<1>7. c \in PiperPcs /\ e \in PiperPcs /\ m \in 0 .. MaxManagers
  BY <1>1, <1>4 DEF PiperPcs, WithManager, DoesRecord
<1>8. dt \in DoesRecord /\ db \in DoesRecord
  BY <1>1, <1>4, <1>7 DEF DoesRecord
<1>9. does' = [[does EXCEPT ![b] = db] EXCEPT ![t].pc = c]
  <2>1. [does EXCEPT ![b].pc = e, ![b].mgr = m] = [does EXCEPT ![b] = db]
    <3> HIDE DEF e, c, m, b
    <3>1. [does EXCEPT ![b].pc = e, ![b].mgr = m]
            = [does EXCEPT ![b] = [pc |-> e, mgr |-> m, proc |-> does[b].proc, text |-> does[b].text]]
      BY <1>3, <1>7, GoesWith
    <3>. QED  BY <3>1
  <2> HIDE DEF db, c, e, m, b
  <2>. QED  BY <1>6, <2>1
<1>10. does' \in [PiperThreads -> DoesRecord] /\ does'[t] = dt
       /\ (b # t => does'[b] = db)
       /\ \A u \in PiperThreads \ {t, b} : does'[u] = does[u]
  <2>0. does \in [PiperThreads -> DoesRecord]
    BY DEF SynthesisTypes
  <2>1. CASE b = t
    <3>1. does' = [does EXCEPT ![t] = [db EXCEPT !.pc = c]]
      BY <1>9, <2>0, <2>1
    <3>2. [db EXCEPT !.pc = c] = dt
      BY <2>1
    <3>3. does' = [does EXCEPT ![t] = dt]
      BY <3>1, <3>2
    <3> HIDE DEF dt, db, c, e
    <3>. QED  BY <1>8, <2>0, <2>1, <3>3
  <2>2. CASE b # t
    <3>1. does' = [[does EXCEPT ![b] = db] EXCEPT ![t] = [does[t] EXCEPT !.pc = c]]
      BY <1>3, <1>9, <2>0, <2>2
    <3>2. [does[t] EXCEPT !.pc = c] = dt
      BY <1>1 DEF DoesRecord
    <3>3. does' = [[does EXCEPT ![b] = db] EXCEPT ![t] = dt]
      BY <3>1, <3>2
    <3> HIDE DEF dt, db, c, e
    <3>. QED  BY <1>3, <1>8, <2>0, <2>2, <3>3
  <2>. QED  BY <2>1, <2>2
<1>11. mgr' \in [Managers -> ManagerRecord] /\ mgr'[m].talk = Unlocked /\ mgr'[m].lock = Unlocked
       /\ \A n \in Managers : /\ mgr'[n].proc = mgr[n].proc /\ mgr'[n].voice = mgr[n].voice
                              /\ n # m => mgr'[n].talk = mgr[n].talk /\ mgr'[n].lock = mgr[n].lock
  <2> DEFINE h == mgr[m].handle \/ ok
             told == IF ok /\ ~mgr[m].handle THEN FALSE ELSE mgr[m].told
             f1 == [mgr EXCEPT ![m].talk = Unlocked]
             f2 == [f1 EXCEPT ![m].lock = Unlocked]
             f3 == [f2 EXCEPT ![m].ready = ok]
             f4 == [f3 EXCEPT ![m].handle = h]
             f5 == [f4 EXCEPT ![m].told = told]
             P(f) == /\ f \in [Managers -> ManagerRecord] /\ f[m].talk = Unlocked
                     /\ f[m].proc = mgr[m].proc /\ f[m].voice = mgr[m].voice
                     /\ \A n \in Managers \ {m} : f[n] = mgr[n]
             Q(f) == P(f) /\ f[m].lock = Unlocked
  <2>0. mgr \in [Managers -> ManagerRecord] /\ h \in BOOLEAN /\ told \in BOOLEAN
    BY <1>2 DEF SynthesisTypes, ManagerRecord
  <2>1. mgr' = f5
    BY <1>2, <2>0 DEF LoadEnds, ManagerRecord
  <2> HIDE DEF m, h, told
  <2>2. P(f1)
    BY <1>2, <2>0 DEF ManagerRecord
  <2> HIDE DEF f1
  <2>3. Q(f2)
    BY <1>2, <2>2 DEF ManagerRecord
  <2> HIDE DEF f2
  <2>4. Q(f3)
    BY <1>2, <2>3 DEF ManagerRecord
  <2> HIDE DEF f3
  <2>5. Q(f4)
    BY <1>2, <2>0, <2>4 DEF ManagerRecord
  <2> HIDE DEF f4
  <2>6. Q(f5)
    BY <1>2, <2>0, <2>5 DEF ManagerRecord
  <2> HIDE DEF f5
  <2>. QED  BY <2>1, <2>6
<1>12. ASSUME NEW u \in PiperThreads PROVE Knows(u, does'[u], engine.starts)
  <2>0. Knows(u, does[u], engine.starts)
    BY DEF SynthesisTypes
  <2>1. CASE u = t
    <3>1. c \in {"wait", "loaded", "failed"} /\ (c = "loaded" => t \notin Beats)
      OBVIOUS
    <3>2. Knows(t, dt, engine.starts)
      BY <1>1, <1>2, <3>1 DEF Knows
    <3>. QED  BY <1>10, <2>1, <3>2
  <2>2. CASE u = b /\ b # t
    <3>1. e = "wait" \/ e = does[b].pc
      OBVIOUS
    <3>2. b \notin Speakers /\ (\A n \in Managers : b = Beat(n) => n = m)
          /\ \A n \in 1 .. MaxStarts : b # Warm(n)
      BY <1>2, <1>3, ThreadsApart
    <3>3. Knows(b, db, engine.starts)
      BY <1>2, <1>4, <3>1, <3>2 DEF Knows
    <3>. QED  BY <1>10, <2>2, <3>3
  <2>3. CASE u # t /\ u # b
    BY <1>10, <2>0, <2>3
  <2>. QED  BY <2>1, <2>2, <2>3
<1>13. ASSUME NEW u \in PiperThreads \ {t} PROVE SameTalk(does[u], does'[u])
  <2>1. CASE u = b
    <3>1. does'[b] = db
      BY <1>10, <2>1
    <3>2. does[b].pc \in Asked => e = does[b].pc /\ does[b].mgr = m
      BY <1>2, <1>4 DEF Knows, Asked
    <3>3. e \in Asked => does[b].pc \in Asked
      BY DEF Asked
    <3>. QED  BY <2>1, <3>1, <3>2, <3>3 DEF SameTalk, Expected
  <2>2. CASE u # b
    BY <1>10, <2>2 DEF SameTalk
  <2>. QED  BY <2>1, <2>2
<1>14. does'[t].pc \notin Asked
  BY <1>10 DEF Asked
<1>15. LetsGo(t)
  BY <1>10, <1>11, <1>12, <1>13, <1>14 DEF LetsGo
<1>16. ASSUME NEW u \in PiperThreads \ {t}
       PROVE  \/ does'[u] = does[u]
              \/ /\ u \in Beats /\ does'[u].mgr = m /\ does'[u].proc = does[u].proc
                 /\ \/ does'[u].pc = does[u].pc /\ (does[u].pc # "idle" => does[u].mgr = m)
                    \/ does'[u].pc = "wait" /\ does[u].pc \in {"idle", "gone"}
  <2>1. CASE u = b
    <3>1. does'[u] = db
      BY <1>10, <2>1
    <3>2. does[b].pc # "idle" => does[b].mgr = m
      BY <1>2, <1>4 DEF Knows
    <3>. QED  BY <1>3, <2>1, <3>1, <3>2
  <2>2. CASE u # b
    BY <1>10, <2>2
  <2>. QED  BY <2>1, <2>2
<1>17. LoadOver(t, ok)
  BY <1>10, <1>11, <1>16 DEF LoadOver
<1>. QED  BY <1>15, <1>17

LEMMA PingedIs ==
    ASSUME SynthesisTypes, NEW t \in PiperThreads, NEW ok \in BOOLEAN,
           does[t].pc \in {"ping", "pinging"}, Pinged(t, ok), engine' = engine
    PROVE  LetsGo(t)
<1> DEFINE c == IF ok THEN "wait" ELSE "restart"
           d == [pc |-> c, mgr |-> does[t].mgr, proc |-> does[t].proc, text |-> does[t].text]
<1>1. Knows(t, does[t], engine.starts)
  BY DEF SynthesisTypes
<1>2. does[t].mgr \in Managers
  BY <1>1 DEF Knows, WithManager, Asked
<1>3. c \in PiperPcs
  BY DEF PiperPcs, WithManager
<1>4. does' = [does EXCEPT ![t] = d] /\ d \in DoesRecord
  BY <1>3, GoesTo DEF Pinged, DoesRecord
<1>5. engine' \in EngineRecord /\ engine'.starts = engine.starts
  BY DEF SynthesisTypes
<1>6. d.text = does[t].text /\ d.mgr = does[t].mgr /\ d.pc \notin Asked
      /\ d.pc \notin {"use", "speak", "speaking", "lazy", "loaded"}
  BY DEF Asked
<1> HIDE DEF d
<1>7. /\ does' \in [PiperThreads -> DoesRecord]
      /\ \A u \in PiperThreads : Knows(u, does'[u], engine'.starts)
      /\ does'[t] = d
      /\ \A u \in PiperThreads \ {t} : does'[u] = does[u]
  BY <1>2, <1>4, <1>5, <1>6, Onward
<1>8. mgr' \in [Managers -> ManagerRecord] /\ mgr'[does[t].mgr].talk = Unlocked
      /\ \A n \in Managers : /\ mgr'[n].proc = mgr[n].proc
                             /\ n # does[t].mgr => mgr'[n].talk = mgr[n].talk
  BY <1>2 DEF Pinged, SynthesisTypes, ManagerRecord
<1>. QED  BY <1>5, <1>6, <1>7, <1>8 DEF LetsGo, SameTalk

LEMMA SpokeIs ==
    ASSUME SynthesisTypes, NEW t \in PiperThreads, NEW audio \in Heard,
           does[t].pc \in {"speak", "speaking"}, Spoke(t, audio), engine' = engine
    PROVE  LetsGo(t) /\ spoken' = spoken \cup {<<does[t].text, audio>>}
           /\ spoken' \subseteq (1 .. MaxTexts) \X Heard
<1> DEFINE d == [pc |-> "idle", mgr |-> 0, proc |-> 0, text |-> 0]
<1>1. Knows(t, does[t], engine.starts)
  BY DEF SynthesisTypes
<1>2. does[t].mgr \in Managers /\ t \in Speakers /\ does[t].text \in 1 .. MaxTexts
  BY <1>1 DEF Knows, WithManager, Asked
<1>3. d \in DoesRecord /\ Knows(t, d, engine.starts) /\ d.pc \notin Asked
  BY SynthesisBounds DEF DoesRecord, PiperPcs, Heard, Knows, WithManager, Asked
<1>4. engine' \in EngineRecord /\ engine'.starts = engine.starts /\ engine.starts <= engine'.starts
  BY SynthesisBounds DEF SynthesisTypes, EngineRecord
<1>5. does' = [does EXCEPT ![t] = d]
  BY DEF Spoke
<1> HIDE DEF d
<1>6. /\ does' \in [PiperThreads -> DoesRecord]
      /\ \A u \in PiperThreads : Knows(u, does'[u], engine'.starts)
      /\ does'[t] = d
      /\ \A u \in PiperThreads \ {t} : does'[u] = does[u]
  BY <1>3, <1>4, <1>5, OneMoves
<1>7. mgr' \in [Managers -> ManagerRecord] /\ mgr'[does[t].mgr].talk = Unlocked
      /\ \A n \in Managers : /\ mgr'[n].proc = mgr[n].proc
                             /\ n # does[t].mgr => mgr'[n].talk = mgr[n].talk
  BY <1>2 DEF Spoke, SynthesisTypes, ManagerRecord
<1>8. spoken' = spoken \cup {<<does[t].text, audio>>}
  BY DEF Spoke
<1>9. spoken' \subseteq (1 .. MaxTexts) \X Heard
  BY <1>2, <1>8 DEF SynthesisTypes
<1>. QED  BY <1>3, <1>4, <1>6, <1>7, <1>8, <1>9 DEF LetsGo, SameTalk

-----------------------------------------------------------------------------
(* The steps that leave what is said to the subprocesses alone. *)

LEMMA AloneUndisturbed ==
    ASSUME SynthesisTypes, UNCHANGED <<piper, budget>>, spoken' = spoken,
           \A m \in Managers : mgr'[m].talk = mgr[m].talk /\ mgr'[m].proc = mgr[m].proc,
           \A u \in PiperThreads : SameTalk(does[u], does'[u])
    PROVE  Undisturbed
  BY KeepsItself DEF Undisturbed

(* Start, stop, voice change and synthesis begin with a thread that rests. *)
LEMMA EngineStartIs == SynthesisTypes /\ EngineStart => SynthesisTypes' /\ Undisturbed
<1> SUFFICES ASSUME SynthesisTypes, EngineStart PROVE SynthesisTypes' /\ Undisturbed
  OBVIOUS
<1> DEFINE t == Warm(engine.starts + 1)
           d == [pc |-> "lazy", mgr |-> does[t].mgr, proc |-> does[t].proc, text |-> does[t].text]
<1>1. engine.starts \in 0 .. MaxStarts /\ engine.starts + 1 \in 1 .. MaxStarts
  BY SynthesisBounds DEF SynthesisTypes, EngineRecord, EngineStart
<1>2. t \in PiperThreads /\ t \notin Speakers /\ t \notin Beats
      /\ \A m \in Managers : t # Beat(m)
  BY <1>1, ThreadsApart
<1>3. Knows(t, does[t], engine.starts)
  BY <1>2 DEF SynthesisTypes
<1>4. does[t].pc = "idle"
  BY <1>1, <1>3 DEF Knows
<1>5. engine' \in EngineRecord /\ engine'.starts = engine.starts + 1 /\ engine.starts <= engine'.starts
  <2> DEFINE e1 == [engine EXCEPT !.stopped = FALSE]
             e2 == [e1 EXCEPT !.loaded = FALSE]
             n == engine.starts + 1
  <2>1. engine' = [e2 EXCEPT !.starts = n]
    BY DEF EngineStart, SynthesisTypes, EngineRecord
  <2>2. e1 \in EngineRecord
    BY DEF SynthesisTypes, EngineRecord
  <2>3. n \in 0 .. MaxStarts /\ engine.starts <= n
    BY <1>1, SynthesisBounds
  <2> HIDE DEF e1, n
  <2>4. e2 \in EngineRecord
    BY <2>2 DEF EngineRecord
  <2> HIDE DEF e2
  <2>5. engine' \in EngineRecord /\ engine'.starts = n
    BY <2>1, <2>3, <2>4 DEF EngineRecord
  <2>. QED  BY <2>3, <2>5 DEF n
<1>6. does' = [does EXCEPT ![t] = d] /\ d \in DoesRecord
  BY <1>2, GoesTo DEF EngineStart, Go, DoesRecord, PiperPcs
<1>7. \A n \in 1 .. MaxStarts : t = Warm(n) => n = engine.starts + 1
  BY <1>1, ThreadsApart
<1>8. d.pc = "lazy"
  OBVIOUS
<1> HIDE DEF t, d
<1>9. Knows(t, d, engine'.starts) /\ d.pc \notin Asked
  BY <1>1, <1>2, <1>5, <1>7, <1>8 DEF Knows, WithManager, Asked
<1>10. /\ does' \in [PiperThreads -> DoesRecord]
       /\ \A u \in PiperThreads : Knows(u, does'[u], engine'.starts)
       /\ \A u \in PiperThreads : SameTalk(does[u], does'[u])
  BY <1>2, <1>4, <1>5, <1>6, <1>9, SetsOut
<1>11. UNCHANGED <<mgr, piper, budget, spoken>>
  BY DEF EngineStart
<1>. QED  BY <1>5, <1>10, <1>11, AloneUndisturbed DEF SynthesisTypes

LEMMA ChangesIs ==
    ASSUME SynthesisTypes, NEW b \in BOOLEAN, Changes(b)
    PROVE  SynthesisTypes' /\ Undisturbed
<1>1. engine' \in EngineRecord /\ engine'.starts = engine.starts /\ engine.starts <= engine'.starts
  <2> DEFINE n == engine.changes + 1
             l == engine.loaded /\ b
             e1 == [engine EXCEPT !.stopped = b]
             e2 == [e1 EXCEPT !.changes = n]
  <2>1. engine' = [e2 EXCEPT !.loaded = l]
    BY DEF Changes, SynthesisTypes, EngineRecord
  <2>2. n \in 0 .. MaxChanges /\ l \in BOOLEAN /\ engine.starts \in Nat
    BY SynthesisBounds DEF SynthesisTypes, EngineRecord, Changes
  <2>3. e1 \in EngineRecord /\ e1.starts = engine.starts
    BY DEF SynthesisTypes, EngineRecord
  <2> HIDE DEF e1, n, l
  <2>4. e2 \in EngineRecord /\ e2.starts = engine.starts
    BY <2>2, <2>3 DEF EngineRecord
  <2> HIDE DEF e2
  <2>5. engine' \in EngineRecord /\ engine'.starts = engine.starts
    BY <2>1, <2>2, <2>4 DEF EngineRecord
  <2>. QED  BY <2>2, <2>5
<1>2. UNCHANGED <<piper, budget, spoken>>
  BY DEF Changes
<1>3. CASE engine.manager = 0
  <2>1. UNCHANGED <<mgr, does>>
    BY <1>3 DEF Changes
  <2>2. \A u \in PiperThreads : SameTalk(does[u], does'[u])
    BY <2>1 DEF SameTalk
  <2>. QED  BY <1>1, <1>2, <2>1, <2>2, AloneUndisturbed DEF SynthesisTypes
<1>4. CASE engine.manager # 0
  <2> DEFINE m == engine.manager
             d == [pc |-> "join", mgr |-> m, proc |-> does[Control].proc, text |-> does[Control].text]
  <2>1. StopManager(Control, m) /\ does[Control].pc = "idle"
    BY <1>4 DEF Changes, At
  <2>2. m \in Managers /\ m \in 0 .. MaxManagers
    BY <1>4, SynthesisBounds DEF SynthesisTypes, EngineRecord, Managers
  <2>3. Control \in PiperThreads /\ Control \notin Speakers /\ Control \notin Beats
        /\ (\A k \in Managers : Control # Beat(k)) /\ \A n \in 1 .. MaxStarts : Control # Warm(n)
    BY ThreadsApart
  <2>4. d \in DoesRecord
    BY <2>2, <2>3, GoesTo DEF DoesRecord, PiperPcs, WithManager
  <2>5. does' = [does EXCEPT ![Control] = d]
    <3>1. "join" \in PiperPcs
      BY DEF PiperPcs, WithManager
    <3>2. does' = [does EXCEPT ![Control].pc = "join", ![Control].mgr = m]
      BY <2>1 DEF StopManager
    <3> HIDE DEF m
    <3>. QED  BY <2>2, <2>3, <3>1, <3>2, GoesWith
  <2>6. d.pc = "join" /\ d.mgr = m
    OBVIOUS
  <2>7. mgr' \in [Managers -> ManagerRecord]
        /\ \A k \in Managers : mgr'[k].talk = mgr[k].talk /\ mgr'[k].proc = mgr[k].proc
    BY <2>1, <2>2 DEF StopManager, SynthesisTypes, ManagerRecord
  <2> HIDE DEF d, m
  <2>8. Knows(Control, d, engine'.starts) /\ d.pc \notin Asked
    BY <2>2, <2>3, <2>6 DEF Knows, Asked
  <2>9. /\ does' \in [PiperThreads -> DoesRecord]
        /\ \A u \in PiperThreads : Knows(u, does'[u], engine'.starts)
        /\ \A u \in PiperThreads : SameTalk(does[u], does'[u])
    BY <1>1, <2>1, <2>3, <2>4, <2>5, <2>8, SetsOut
  <2>. QED  BY <1>1, <1>2, <2>7, <2>9, AloneUndisturbed DEF SynthesisTypes
<1>. QED  BY <1>3, <1>4

LEMMA SynthesizeIs ==
    ASSUME SynthesisTypes, NEW w \in Workers, Synthesize(w)
    PROVE  SynthesisTypes' /\ Undisturbed
<1> DEFINE t == Work(w)
           x == engine.texts + 1
           c == IF engine.loaded THEN "use" ELSE "lazy"
           d == [pc |-> c, mgr |-> does[t].mgr, proc |-> does[t].proc, text |-> x]
<1>1. t \in PiperThreads /\ t \in Speakers /\ t \notin Beats
      /\ (\A k \in Managers : t # Beat(k)) /\ \A n \in 1 .. MaxStarts : t # Warm(n)
  BY ThreadsApart
<1>2. x \in 1 .. MaxTexts /\ x \in Heard /\ x \in 0 .. MaxTexts
  BY SynthesisBounds DEF Synthesize, SynthesisTypes, EngineRecord, Heard
<1>3. engine' \in EngineRecord /\ engine'.starts = engine.starts /\ engine.starts <= engine'.starts
  <2>1. engine \in EngineRecord /\ engine' = [engine EXCEPT !.texts = x]
    BY DEF Synthesize, SynthesisTypes
  <2>2. engine.starts \in Nat
    BY <2>1, SynthesisBounds DEF EngineRecord
  <2> HIDE DEF x
  <2>. QED  BY <1>2, <2>1, <2>2 DEF EngineRecord
<1>4. c \in PiperPcs /\ c \in {"use", "lazy"}
  BY DEF PiperPcs
<1>5. does' = [does EXCEPT ![t] = d]
  <2> DEFINE d0 == [pc |-> c, mgr |-> does[t].mgr, proc |-> does[t].proc, text |-> does[t].text]
             g == [does EXCEPT ![t] = d0]
  <2>1. does' = [[does EXCEPT ![t].pc = c] EXCEPT ![t].text = x]
    BY DEF Synthesize
  <2>2. does \in [PiperThreads -> DoesRecord]
    BY DEF SynthesisTypes
  <2> HIDE DEF t, c, x
  <2>3. [does EXCEPT ![t].pc = c] = g
    BY <1>1, <1>4, GoesTo
  <2>4. [g EXCEPT ![t].text = x] = [does EXCEPT ![t] = [d0 EXCEPT !.text = x]]
    <3> HIDE DEF d0
    <3>. QED  BY <1>1, <2>2
  <2>. QED  BY <2>1, <2>3, <2>4
<1>6. d \in DoesRecord
  BY <1>1, <1>2, <1>4, GoesTo DEF DoesRecord
<1>7. does[t].pc = "idle" /\ UNCHANGED <<mgr, piper, budget, spoken>>
  BY DEF Synthesize, At
<1>8. d.pc = c /\ d.text = x
  OBVIOUS
<1> HIDE DEF t, c, x, d
<1>9. Knows(t, d, engine'.starts) /\ d.pc \notin Asked
  BY <1>1, <1>2, <1>4, <1>8 DEF Knows, Asked, WithManager
<1>10. /\ does' \in [PiperThreads -> DoesRecord]
       /\ \A u \in PiperThreads : Knows(u, does'[u], engine'.starts)
       /\ \A u \in PiperThreads : SameTalk(does[u], does'[u])
  BY <1>1, <1>3, <1>5, <1>6, <1>7, <1>9, SetsOut
<1>. QED  BY <1>3, <1>7, <1>10, AloneUndisturbed DEF SynthesisTypes

(* A thread that is under way and asks nobody goes on, with its manager, or with another. *)
LEMMA GoesOn ==
    ASSUME SynthesisTypes, NEW t \in PiperThreads, NEW c \in PiperPcs, Go(t, c),
           does[t].pc # "idle", does[t].pc \notin Asked, c \notin Asked,
           c \in WithManager => does[t].mgr \in Managers,
           c \in {"use", "speak", "speaking"} => t \in Speakers,
           c \in {"lazy", "loaded"} => t \notin Beats,
           engine' \in EngineRecord, engine'.starts = engine.starts
    PROVE  /\ does' \in [PiperThreads -> DoesRecord]
           /\ \A u \in PiperThreads : Knows(u, does'[u], engine'.starts)
           /\ \A u \in PiperThreads : SameTalk(does[u], does'[u])
<1> DEFINE d == [pc |-> c, mgr |-> does[t].mgr, proc |-> does[t].proc, text |-> does[t].text]
<1>1. does' = [does EXCEPT ![t] = d] /\ d \in DoesRecord
  BY GoesTo DEF Go, DoesRecord
<1>2. d.pc = c /\ d.mgr = does[t].mgr /\ d.text = does[t].text
  OBVIOUS
<1> HIDE DEF d
<1>. QED  BY <1>1, <1>2, Onward

LEMMA GoesTogether ==
    ASSUME SynthesisTypes, NEW t \in PiperThreads, NEW c \in PiperPcs, NEW m \in 0 .. MaxManagers,
           does' = [does EXCEPT ![t].pc = c, ![t].mgr = m],
           does[t].pc # "idle", does[t].pc \notin Asked, c \notin Asked,
           c \in WithManager => m \in Managers,
           c \in {"use", "speak", "speaking"} => t \in Speakers,
           c \notin {"lazy", "loaded"}, t \notin Beats,
           engine' \in EngineRecord, engine'.starts = engine.starts
    PROVE  /\ does' \in [PiperThreads -> DoesRecord]
           /\ \A u \in PiperThreads : Knows(u, does'[u], engine'.starts)
           /\ \A u \in PiperThreads : SameTalk(does[u], does'[u])
<1> DEFINE d == [pc |-> c, mgr |-> m, proc |-> does[t].proc, text |-> does[t].text]
<1>1. does' = [does EXCEPT ![t] = d] /\ d \in DoesRecord
  BY GoesWith, GoesTo DEF DoesRecord
<1>2. d.pc = c /\ d.mgr = m /\ d.text = does[t].text
  OBVIOUS
<1> HIDE DEF d
<1>. QED  BY <1>1, <1>2, Onward

LEMMA LazyLoadIs ==
    ASSUME SynthesisTypes, NEW t \in PiperThreads, LazyLoad(t)
    PROVE  SynthesisTypes' /\ Undisturbed
<1>1. UNCHANGED <<piper, budget, spoken>> /\ does[t].pc = "lazy" /\ does[t].pc \notin Asked
  BY DEF LazyLoad, At, Asked
<1>2. t \notin Beats
  BY <1>1 DEF SynthesisTypes, Knows
<1>3. CASE engine.loaded \/ engine.stopped
  <2> DEFINE c == AfterLoad(t)
  <2>1. Go(t, c) /\ UNCHANGED <<engine, mgr>>
    BY <1>3 DEF LazyLoad
  <2>2. c \in PiperPcs /\ c \notin Asked /\ c \notin WithManager /\ c \notin {"lazy", "loaded"}
        /\ (c \in {"use", "speak", "speaking"} => t \in Speakers)
    BY DEF AfterLoad, PiperPcs, WithManager, Asked
  <2>3. engine' \in EngineRecord /\ engine'.starts = engine.starts
    BY <2>1 DEF SynthesisTypes
  <2> HIDE DEF c
  <2>4. /\ does' \in [PiperThreads -> DoesRecord]
        /\ \A u \in PiperThreads : Knows(u, does'[u], engine'.starts)
        /\ \A u \in PiperThreads : SameTalk(does[u], does'[u])
    BY <1>1, <2>1, <2>2, <2>3, GoesOn
  <2>. QED  BY <1>1, <2>1, <2>4, AloneUndisturbed DEF SynthesisTypes
<1>4. CASE ~(engine.loaded \/ engine.stopped)
  <2> DEFINE m == engine.made + 1
             e1 == [engine EXCEPT !.made = m]
             e2 == [e1 EXCEPT !.manager = m]
  <2>1. /\ m \in Managers
        /\ engine' = [e2 EXCEPT !.loader = t]
        /\ mgr' = [mgr EXCEPT ![m].voice = engine.changes]
        /\ does' = [does EXCEPT ![t].pc = "boot", ![t].mgr = m]
    BY <1>4 DEF LazyLoad, SynthesisTypes, EngineRecord
  <2>2. engine.changes \in 0 .. MaxChanges
    BY DEF SynthesisTypes, EngineRecord
  <2> HIDE DEF m
  <2>3. m \in 0 .. MaxManagers
    BY <2>1, SynthesisBounds DEF Managers
  <2>4. e1 \in EngineRecord /\ e1.starts = engine.starts
    BY <2>3 DEF SynthesisTypes, EngineRecord
  <2> HIDE DEF e1
  <2>5. e2 \in EngineRecord /\ e2.starts = engine.starts
    BY <2>3, <2>4 DEF EngineRecord
  <2> HIDE DEF e2
  <2>6. engine' \in EngineRecord /\ engine'.starts = engine.starts
    BY <2>1, <2>5 DEF EngineRecord
  <2>7. mgr' \in [Managers -> ManagerRecord]
        /\ \A k \in Managers : mgr'[k].talk = mgr[k].talk /\ mgr'[k].proc = mgr[k].proc
    BY <2>1, <2>2 DEF SynthesisTypes, ManagerRecord
  <2>8. "boot" \in PiperPcs /\ "boot" \notin Asked
    BY DEF PiperPcs, WithManager, Asked
  <2>9. /\ does' \in [PiperThreads -> DoesRecord]
        /\ \A u \in PiperThreads : Knows(u, does'[u], engine'.starts)
        /\ \A u \in PiperThreads : SameTalk(does[u], does'[u])
    BY <1>1, <1>2, <2>1, <2>3, <2>6, <2>8, GoesTogether
  <2>. QED  BY <1>1, <2>6, <2>7, <2>9, AloneUndisturbed DEF SynthesisTypes
<1>. QED  BY <1>3, <1>4

LEMMA LoadDoneIs ==
    ASSUME SynthesisTypes, NEW t \in PiperThreads, LoadDone(t)
    PROVE  SynthesisTypes' /\ Undisturbed
<1>1. UNCHANGED <<piper, budget, spoken>> /\ does[t].pc = "loaded" /\ does[t].pc \notin Asked
  BY DEF LoadDone, At, Asked
<1>2. t \notin Beats
  BY <1>1 DEF SynthesisTypes, Knows
<1>3. CASE engine.stopped /\ engine.manager # 0
  <2> DEFINE m == engine.manager
  <2>1. engine' = [engine EXCEPT !.loaded = TRUE] /\ StopManager(t, m)
    BY <1>3 DEF LoadDone
  <2>2. m \in Managers /\ m \in 0 .. MaxManagers
    BY <1>3, SynthesisBounds DEF SynthesisTypes, EngineRecord, Managers
  <2>3. engine' \in EngineRecord /\ engine'.starts = engine.starts
    BY <2>1 DEF SynthesisTypes, EngineRecord
  <2>4. does' = [does EXCEPT ![t].pc = "join", ![t].mgr = m]
        /\ mgr' = [mgr EXCEPT ![m].told = TRUE]
    BY <2>1 DEF StopManager
  <2> HIDE DEF m
  <2>5. mgr' \in [Managers -> ManagerRecord]
        /\ \A k \in Managers : mgr'[k].talk = mgr[k].talk /\ mgr'[k].proc = mgr[k].proc
    BY <2>2, <2>4 DEF SynthesisTypes, ManagerRecord
  <2>6. "join" \in PiperPcs /\ "join" \notin Asked
    BY DEF PiperPcs, WithManager, Asked
  <2>7. /\ does' \in [PiperThreads -> DoesRecord]
        /\ \A u \in PiperThreads : Knows(u, does'[u], engine'.starts)
        /\ \A u \in PiperThreads : SameTalk(does[u], does'[u])
    BY <1>1, <1>2, <2>2, <2>3, <2>4, <2>6, GoesTogether
  <2>. QED  BY <1>1, <2>3, <2>5, <2>7, AloneUndisturbed DEF SynthesisTypes
<1>4. CASE ~(engine.stopped /\ engine.manager # 0)
  <2> DEFINE c == AfterLoad(t)
             b == ~engine.stopped
             e1 == [engine EXCEPT !.loaded = b]
  <2>1. engine' = [e1 EXCEPT !.loader = Unlocked] /\ Go(t, c) /\ UNCHANGED mgr
    BY <1>4 DEF LoadDone, SynthesisTypes, EngineRecord
  <2>2. c \in PiperPcs /\ c \notin Asked /\ c \notin WithManager /\ c \notin {"lazy", "loaded"}
        /\ (c \in {"use", "speak", "speaking"} => t \in Speakers)
    BY DEF AfterLoad, PiperPcs, WithManager, Asked
  <2>3. b \in BOOLEAN
    OBVIOUS
  <2> HIDE DEF c, b
  <2>4. e1 \in EngineRecord /\ e1.starts = engine.starts
    BY <2>3 DEF SynthesisTypes, EngineRecord
  <2> HIDE DEF e1
  <2>5. engine' \in EngineRecord /\ engine'.starts = engine.starts
    BY <2>1, <2>4 DEF EngineRecord
  <2>6. /\ does' \in [PiperThreads -> DoesRecord]
        /\ \A u \in PiperThreads : Knows(u, does'[u], engine'.starts)
        /\ \A u \in PiperThreads : SameTalk(does[u], does'[u])
    BY <1>1, <2>1, <2>2, <2>5, GoesOn
  <2>. QED  BY <1>1, <2>1, <2>5, <2>6, AloneUndisturbed DEF SynthesisTypes
<1>. QED  BY <1>3, <1>4

LEMMA LoadFailedIs ==
    ASSUME SynthesisTypes, NEW t \in PiperThreads, LoadFailed(t) \/ WarmupNotes(t)
    PROVE  SynthesisTypes' /\ Undisturbed
<1>1. UNCHANGED <<mgr, piper, budget, spoken>> /\ does[t].pc \in {"failed", "noting"}
      /\ does[t].pc \notin Asked
  BY DEF LoadFailed, WarmupNotes, At, Asked
<1>2. PICK c \in {"noting", "idle"} : Go(t, c)
  BY DEF LoadFailed, WarmupNotes
<1>3. engine' = [engine EXCEPT !.loader = Unlocked] \/ engine' = [engine EXCEPT !.loaded = FALSE]
  BY DEF LoadFailed, WarmupNotes
<1>4. engine' \in EngineRecord /\ engine'.starts = engine.starts
  BY <1>3 DEF SynthesisTypes, EngineRecord
<1>5. c \in PiperPcs /\ c \notin Asked /\ c \notin WithManager
      /\ c \notin {"use", "speak", "speaking", "lazy", "loaded"}
  BY <1>2 DEF PiperPcs, Asked, WithManager
<1>6. /\ does' \in [PiperThreads -> DoesRecord]
      /\ \A u \in PiperThreads : Knows(u, does'[u], engine'.starts)
      /\ \A u \in PiperThreads : SameTalk(does[u], does'[u])
  BY <1>1, <1>2, <1>4, <1>5, GoesOn
<1>. QED  BY <1>1, <1>4, <1>6, AloneUndisturbed DEF SynthesisTypes

LEMMA UsesIs ==
    ASSUME SynthesisTypes, NEW t \in PiperThreads, Uses(t)
    PROVE  SynthesisTypes' /\ Undisturbed
<1> DEFINE m == engine.manager
           c == IF m # 0 /\ mgr[m].ready /\ Breathing(mgr[m].proc) THEN "speak" ELSE "idle"
<1>1. UNCHANGED <<engine, mgr, piper, budget, spoken>> /\ does[t].pc = "use"
      /\ does[t].pc \notin Asked
  BY DEF Uses, At, Asked
<1>2. t \in Speakers
  BY <1>1 DEF SynthesisTypes, Knows
<1>3. does' = [does EXCEPT ![t].pc = c, ![t].mgr = m]
  BY DEF Uses
<1>4. m \in 0 .. MaxManagers /\ (c = "speak" => m \in Managers) /\ c \in {"speak", "idle"}
  BY SynthesisBounds DEF SynthesisTypes, EngineRecord, Managers
<1>5. t \notin Beats
  BY <1>2, ThreadsApart
<1> HIDE DEF m, c
<1>6. c \in PiperPcs /\ c \notin Asked /\ c \notin {"lazy", "loaded"}
      /\ (c \in WithManager => m \in Managers)
  BY <1>4 DEF PiperPcs, Asked, WithManager
<1>7. engine' \in EngineRecord /\ engine'.starts = engine.starts
  BY <1>1 DEF SynthesisTypes
<1>8. /\ does' \in [PiperThreads -> DoesRecord]
      /\ \A u \in PiperThreads : Knows(u, does'[u], engine'.starts)
      /\ \A u \in PiperThreads : SameTalk(does[u], does'[u])
  BY <1>1, <1>2, <1>3, <1>4, <1>5, <1>6, <1>7, GoesTogether
<1>. QED  BY <1>1, <1>7, <1>8, AloneUndisturbed DEF SynthesisTypes

LEMMA ForgetsIs ==
    ASSUME SynthesisTypes, NEW t \in PiperThreads, Forgets(t)
    PROVE  SynthesisTypes' /\ Undisturbed
<1> DEFINE c == IF t \in Speakers THEN "use" ELSE "idle"
           e1 == [engine EXCEPT !.manager = 0]
           e2 == [e1 EXCEPT !.loaded = FALSE]
<1>1. UNCHANGED <<mgr, piper, budget, spoken>> /\ does[t].pc = "ended" /\ does[t].pc \notin Asked
      /\ Go(t, c)
  BY DEF Forgets, At, Asked, Go
<1>2. engine' = e1 \/ engine' = [e2 EXCEPT !.loader = Unlocked]
  BY DEF Forgets, SynthesisTypes, EngineRecord
<1>3. c \in PiperPcs /\ c \notin Asked /\ c \notin WithManager /\ c \notin {"lazy", "loaded"}
      /\ (c \in {"use", "speak", "speaking"} => t \in Speakers)
  BY DEF PiperPcs, Asked, WithManager
<1>4. e1 \in EngineRecord /\ e1.starts = engine.starts
  BY SynthesisBounds DEF SynthesisTypes, EngineRecord
<1> HIDE DEF c, e1
<1>5. e2 \in EngineRecord /\ e2.starts = engine.starts
  BY <1>4 DEF EngineRecord
<1> HIDE DEF e2
<1>6. engine' \in EngineRecord /\ engine'.starts = engine.starts
  BY <1>2, <1>4, <1>5 DEF EngineRecord
<1>7. /\ does' \in [PiperThreads -> DoesRecord]
      /\ \A u \in PiperThreads : Knows(u, does'[u], engine'.starts)
      /\ \A u \in PiperThreads : SameTalk(does[u], does'[u])
  BY <1>1, <1>3, <1>6, GoesOn
<1>. QED  BY <1>1, <1>6, <1>7, AloneUndisturbed DEF SynthesisTypes

LEMMA JoinsIs ==
    ASSUME SynthesisTypes, NEW t \in PiperThreads, Joins(t)
    PROVE  SynthesisTypes' /\ Undisturbed
<1>1. UNCHANGED <<engine, piper, budget, spoken>> /\ does[t].pc = "join" /\ does[t].pc \notin Asked
      /\ Go(t, "halt")
  BY DEF Joins, At, Asked
<1>2. does[t].mgr \in Managers
  BY <1>1 DEF SynthesisTypes, Knows, WithManager
<1>3. mgr' \in [Managers -> ManagerRecord]
      /\ \A k \in Managers : mgr'[k].talk = mgr[k].talk /\ mgr'[k].proc = mgr[k].proc
  BY <1>2 DEF Joins, SynthesisTypes, ManagerRecord
<1>4. engine' \in EngineRecord /\ engine'.starts = engine.starts
  BY <1>1 DEF SynthesisTypes
<1>5. "halt" \in PiperPcs /\ "halt" \notin Asked
  BY DEF PiperPcs, WithManager, Asked
<1>6. /\ does' \in [PiperThreads -> DoesRecord]
      /\ \A u \in PiperThreads : Knows(u, does'[u], engine'.starts)
      /\ \A u \in PiperThreads : SameTalk(does[u], does'[u])
  BY <1>1, <1>2, <1>4, <1>5, GoesOn
<1>. QED  BY <1>1, <1>3, <1>4, <1>6, AloneUndisturbed DEF SynthesisTypes

LEMMA BeatIs ==
    ASSUME SynthesisTypes, NEW m \in Managers, BeatEnds(m) \/ BeatAsks(m)
    PROVE  SynthesisTypes' /\ Undisturbed
<1> DEFINE t == Beat(m)
<1>1. UNCHANGED <<engine, mgr, piper, spoken>> /\ does[t].pc = "wait" /\ does[t].pc \notin Asked
  BY DEF BeatEnds, BeatAsks, At, Asked
<1>2. PICK c \in {"gone", "ping", "restart"} : Go(t, c)
  <2>1. CASE BeatEnds(m)
    BY <2>1 DEF BeatEnds
  <2>2. CASE BeatAsks(m)
    <3>1. CASE Breathing(mgr[m].proc)
      BY <2>2, <3>1 DEF BeatAsks, Go
    <3>2. CASE ~Breathing(mgr[m].proc)
      BY <2>2, <3>2 DEF BeatAsks, Go
    <3>. QED  BY <3>1, <3>2
  <2>. QED  BY <2>1, <2>2
<1>3. t \in PiperThreads
  BY ThreadsApart
<1>4. budget' = budget \/ budget' = [budget EXCEPT !.pings = budget.pings + 1]
  BY DEF BeatEnds, BeatAsks
<1> HIDE DEF t
<1>5. does[t].mgr \in Managers
  BY <1>1, <1>3 DEF SynthesisTypes, Knows, WithManager
<1>6. engine' \in EngineRecord /\ engine'.starts = engine.starts
  BY <1>1 DEF SynthesisTypes
<1>7. c \in PiperPcs /\ c \notin Asked /\ c \notin {"use", "speak", "speaking", "lazy", "loaded"}
  BY <1>2 DEF PiperPcs, WithManager, Asked
<1>8. /\ does' \in [PiperThreads -> DoesRecord]
      /\ \A u \in PiperThreads : Knows(u, does'[u], engine'.starts)
      /\ \A u \in PiperThreads : SameTalk(does[u], does'[u])
  BY <1>1, <1>2, <1>3, <1>5, <1>6, <1>7, GoesOn
<1>9. budget' \in BudgetRecord /\ budget'.spawned = budget.spawned /\ budget'.late = budget.late
  BY <1>4 DEF SynthesisTypes, BudgetRecord
<1>10. Undisturbed
  BY <1>1, <1>8, <1>9, KeepsItself DEF Undisturbed
<1>. QED  BY <1>1, <1>6, <1>8, <1>9, <1>10 DEF SynthesisTypes

(* The end of a subprocess, by itself or by its manager, and its answers. *)
LEMMA HungKeeps ==
    ASSUME NEW r \in PipeRecord
    PROVE  LET q == [r EXCEPT !.inbox = IF r.up THEN Append(@, Shutdown) ELSE @]
           IN  q \in PipeRecord /\ Keeps(r, q)
<1> DEFINE i == IF r.up THEN Append(r.inbox, Shutdown) ELSE r.inbox
           q == [r EXCEPT !.inbox = i]
<1>1. r.inbox \in Seq(Commands) /\ r.outbox \in Seq(Heard) /\ r.up \in BOOLEAN
  BY DEF PipeRecord
<1>2. i \in Seq(Commands)
  BY <1>1 DEF Commands
<1>3. q \in PipeRecord /\ q.up = r.up /\ q.outbox = r.outbox /\ q.inbox = i
  <2> HIDE DEF i
  <2>. QED  BY <1>2 DEF PipeRecord
<1>4. ASSUME ~r.up PROVE Keeps(r, q)
  <2>1. i = r.inbox
    BY <1>4
  <2> HIDE DEF i
  <2>2. q = r
    BY <2>1 DEF PipeRecord
  <2>. QED  BY <2>2, KeepsItself
<1>5. ASSUME r.up PROVE Keeps(r, q)
  <2>1. LastOrders(r.inbox) => LastOrders(i)
    BY <1>1, <1>5 DEF LastOrders, Commands
  <2>2. r.inbox # <<>> => i # <<>> /\ Head(i) = Head(r.inbox)
    BY <1>1, <1>5 DEF Commands
  <2>3. r.inbox # <<>> /\ LastOrders(Tail(r.inbox)) => LastOrders(Tail(i))
    <3>1. r.inbox # <<>> => Tail(i) = Append(Tail(r.inbox), Shutdown) /\ Tail(r.inbox) \in Seq(Commands)
      BY <1>1, <1>5 DEF Commands
    <3>. QED  BY <3>1 DEF LastOrders, Commands
  <2> HIDE DEF q, i
  <2>4. Unborn(r) => Unborn(q)
    BY <1>5 DEF Unborn
  <2>5. Clean(r) => Clean(q)
    BY <1>3, <1>5, <2>1 DEF Clean
  <2>6. ASSUME NEW x \in Heard, Carries(r, x) PROVE Carries(q, x)
    BY <1>3, <1>5, <2>1, <2>2, <2>3, <2>5, <2>6 DEF Carries
  <2>. QED  BY <2>4, <2>5, <2>6 DEF Keeps
<1>. QED  BY <1>1, <1>3, <1>4, <1>5

LEMMA DeadKeeps ==
    ASSUME NEW r \in PipeRecord, r.up
    PROVE  LET q == [r EXCEPT !.up = FALSE] IN q \in PipeRecord /\ Keeps(r, q)
<1> DEFINE q == [r EXCEPT !.up = FALSE]
<1>1. r.outbox \in Seq(Heard)
  BY DEF PipeRecord
<1>2. q \in PipeRecord /\ ~q.up /\ q.outbox = r.outbox
  BY DEF PipeRecord
<1>3. r.outbox = <<>> => Clean(q)
  BY <1>2 DEF Clean, NothingHeard
<1>4. ASSUME NEW x \in Heard, r.outbox = <<x>> PROVE Carries(q, x)
  <2>1. q.outbox # <<>> /\ q.outbox[1] = x /\ NothingHeard(Tail(q.outbox))
    <3>1. q.outbox = <<x>>
      BY <1>2, <1>4
    <3>2. <<x>> # <<>> /\ <<x>>[1] = x /\ Len(Tail(<<x>>)) = 0
      OBVIOUS
    <3>3. NothingHeard(Tail(<<x>>))
      BY <3>2 DEF NothingHeard
    <3> HIDE DEF q
    <3>. QED  BY <3>1, <3>2, <3>3
  <2>. QED  BY <1>2, <2>1 DEF Carries
<1> HIDE DEF q
<1>5. Clean(r) => Clean(q)
  BY <1>3 DEF Clean
<1>6. ASSUME NEW x \in Heard, Carries(r, x) PROVE Carries(q, x)
  BY <1>3, <1>4, <1>5, <1>6 DEF Carries
<1>7. Unborn(r) => Unborn(q)
  BY DEF Unborn
<1>. QED  BY <1>2, <1>5, <1>6, <1>7 DEF Keeps, q

LEMMA EmptyKeeps ==
    LET q == [up |-> FALSE, inbox |-> <<>>, outbox |-> <<>>]
    IN  q \in PipeRecord /\ Unborn(q) /\ Clean(q) /\ \A r : Keeps(r, q)
<1> DEFINE q == [up |-> FALSE, inbox |-> <<>>, outbox |-> <<>>]
<1>1. q \in PipeRecord
  BY DEF PipeRecord
<1>2. Unborn(q) /\ Clean(q)
  BY DEF Unborn, Clean, NothingHeard
<1> HIDE DEF q
<1>. QED  BY <1>1, <1>2 DEF Keeps, Carries, q

LEMMA AnsweredKeeps ==
    ASSUME NEW r \in PipeRecord, r.up, r.inbox # <<>>
    PROVE  LET cmd == Head(r.inbox)
               q == [up |-> cmd # Shutdown, inbox |-> Tail(r.inbox),
                     outbox |-> Append(r.outbox, IF cmd = Shutdown THEN NoAudio ELSE cmd)]
           IN  q \in PipeRecord /\ Keeps(r, q)
<1> DEFINE cmd == Head(r.inbox)
           a == IF cmd = Shutdown THEN NoAudio ELSE cmd
           o == Append(r.outbox, a)
           q == [up |-> cmd # Shutdown, inbox |-> Tail(r.inbox), outbox |-> o]
<1>1. r.inbox \in Seq(Commands) /\ r.outbox \in Seq(Heard)
  BY DEF PipeRecord
<1>2. cmd \in Commands /\ Tail(r.inbox) \in Seq(Commands)
  BY <1>1
<1>3. a \in Heard
  BY <1>2, SynthesisBounds DEF Commands, Heard, NoAudio
<1>4. q \in PipeRecord
  <2>1. o \in Seq(Heard)
    BY <1>1, <1>3
  <2> HIDE DEF o, a, cmd
  <2>. QED  BY <1>2, <2>1 DEF PipeRecord
<1>5. q.up = (cmd # Shutdown) /\ q.inbox = Tail(r.inbox) /\ q.outbox = o
  OBVIOUS
<1>6. r.outbox = <<>> => o = <<a>>
  BY <1>1
<1> HIDE DEF q
<1>7. Clean(r) => Clean(q)
  <2> SUFFICES ASSUME Clean(r) PROVE Clean(q)
    OBVIOUS
  <2>1. r.outbox = <<>> /\ cmd = Shutdown
    BY DEF Clean, LastOrders
  <2>2. q.outbox = <<NoAudio>> /\ ~q.up
    BY <1>5, <1>6, <2>1
  <2>. QED  BY <2>2 DEF Clean, NothingHeard
<1>8. ASSUME NEW x \in Heard, Carries(r, x) PROVE Carries(q, x)
  <2>1. CASE Clean(r)
    BY <1>7, <2>1 DEF Carries
  <2>2. CASE r.outbox = <<x>> /\ LastOrders(r.inbox)
    <3>1. cmd = Shutdown
      BY <2>2 DEF LastOrders
    <3>2. q.outbox = Append(<<x>>, NoAudio) /\ ~q.up
      BY <1>5, <2>2, <3>1
    <3>3. q.outbox # <<>> /\ q.outbox[1] = x /\ NothingHeard(Tail(q.outbox))
      BY <3>2 DEF NothingHeard
    <3>. QED  BY <3>2, <3>3 DEF Carries
  <2>3. CASE r.outbox = <<>> /\ Head(r.inbox) = x /\ LastOrders(Tail(r.inbox))
    <3>1. cmd = x /\ cmd # Shutdown
      BY <2>3, SynthesisBounds DEF Heard, Shutdown
    <3>2. q.up /\ q.outbox = <<x>>
      BY <1>5, <1>6, <2>3, <3>1
    <3>. QED  BY <1>5, <2>3, <3>2 DEF Carries
  <2>. QED  BY <1>8, <2>1, <2>2, <2>3 DEF Carries
<1>9. Unborn(r) => Unborn(q)
  BY DEF Unborn
<1>. QED  BY <1>4, <1>7, <1>8, <1>9 DEF Keeps, q

LEMMA PipeMoves ==
    ASSUME SynthesisTypes, NEW p \in Processes, NEW q \in PipeRecord, Keeps(piper[p], q),
           piper' = [piper EXCEPT ![p] = q]
    PROVE  /\ piper' \in [Processes -> PipeRecord]
           /\ \A k \in Processes : Keeps(piper[k], piper'[k])
<1>1. piper \in [Processes -> PipeRecord]
  BY DEF SynthesisTypes
<1>. QED  BY <1>1, KeepsItself

LEMMA AnswersIs ==
    ASSUME SynthesisTypes, NEW p \in Processes, Answers(p)
    PROVE  SynthesisTypes' /\ Undisturbed
<1> DEFINE r == piper[p]
           cmd == Head(r.inbox)
           q == [up |-> cmd # Shutdown, inbox |-> Tail(r.inbox),
                 outbox |-> Append(r.outbox, IF cmd = Shutdown THEN NoAudio ELSE cmd)]
<1>1. r \in PipeRecord /\ r.up /\ r.inbox # <<>>
  BY DEF Answers, SynthesisTypes
<1>2. q \in PipeRecord /\ Keeps(r, q)
  BY <1>1, AnsweredKeeps
<1>3. piper' = [piper EXCEPT ![p] = q]
  BY DEF Answers
<1>4. UNCHANGED <<engine, mgr, does, budget, spoken>>
  BY DEF Answers
<1> HIDE DEF q
<1>5. piper' \in [Processes -> PipeRecord] /\ \A k \in Processes : Keeps(piper[k], piper'[k])
  BY <1>2, <1>3, PipeMoves
<1>. QED  BY <1>4, <1>5 DEF SynthesisTypes, Undisturbed, SameTalk

LEMMA DiesIs ==
    ASSUME SynthesisTypes, NEW p \in Processes, Dies(p)
    PROVE  SynthesisTypes' /\ Undisturbed
<1> DEFINE q == [piper[p] EXCEPT !.up = FALSE]
<1>1. piper[p] \in PipeRecord /\ piper[p].up
  BY DEF Dies, SynthesisTypes
<1>2. q \in PipeRecord /\ Keeps(piper[p], q)
  BY <1>1, DeadKeeps
<1>3. piper' = [piper EXCEPT ![p] = q]
  BY DEF Dies, SynthesisTypes
<1>4. UNCHANGED <<engine, mgr, does, spoken>>
  BY DEF Dies
<1>5. budget' \in BudgetRecord /\ budget'.spawned = budget.spawned /\ budget'.late = budget.late
  BY DEF Dies, SynthesisTypes, BudgetRecord
<1> HIDE DEF q
<1>6. piper' \in [Processes -> PipeRecord] /\ \A k \in Processes : Keeps(piper[k], piper'[k])
  BY <1>2, <1>3, PipeMoves
<1>. QED  BY <1>4, <1>5, <1>6 DEF SynthesisTypes, Undisturbed, SameTalk

LEMMA BeginsEndIs ==
    ASSUME SynthesisTypes, NEW t \in PiperThreads, BeginsEnd(t)
    PROVE  SynthesisTypes' /\ Undisturbed
<1> DEFINE m == does[t].mgr
           p == mgr[m].proc
<1>1. UNCHANGED <<engine, mgr, budget, spoken>> /\ does[t].pc \in {"halt", "restart"}
      /\ does[t].pc \notin Asked
  BY DEF BeginsEnd, Asked
<1>2. m \in Managers
  BY <1>1 DEF SynthesisTypes, Knows, WithManager
<1>3. p \in 0 .. MaxProcesses
  BY <1>2 DEF SynthesisTypes, ManagerRecord
<1>4. engine' \in EngineRecord /\ engine'.starts = engine.starts
  BY <1>1 DEF SynthesisTypes
<1>5. CASE p = 0
  <2> DEFINE c == AfterEnd(t)
  <2>1. Go(t, c) /\ UNCHANGED piper
    BY <1>5 DEF BeginsEnd
  <2>2. c \in PiperPcs /\ c \in {"boot", "ended"}
    BY DEF AfterEnd, PiperPcs, WithManager
  <2> HIDE DEF c
  <2>3. c \notin Asked /\ c \notin {"use", "speak", "speaking", "lazy", "loaded"}
    BY <2>2 DEF Asked
  <2>4. /\ does' \in [PiperThreads -> DoesRecord]
        /\ \A u \in PiperThreads : Knows(u, does'[u], engine'.starts)
        /\ \A u \in PiperThreads : SameTalk(does[u], does'[u])
    BY <1>1, <1>2, <1>4, <2>1, <2>2, <2>3, GoesOn
  <2>. QED  BY <1>1, <1>4, <2>1, <2>4, AloneUndisturbed DEF SynthesisTypes
<1>6. CASE p # 0
  <2> DEFINE q == [piper[p] EXCEPT !.inbox = IF piper[p].up THEN Append(@, Shutdown) ELSE @]
             d == [pc |-> "ending", mgr |-> m, proc |-> p, text |-> does[t].text]
  <2>1. does' = [does EXCEPT ![t].pc = "ending", ![t].proc = p] /\ piper' = [piper EXCEPT ![p] = q]
    BY <1>6 DEF BeginsEnd, Hung
  <2>2. p \in Processes /\ piper[p] \in PipeRecord
    BY <1>3, <1>6, SynthesisBounds DEF Processes, SynthesisTypes
  <2>3. q \in PipeRecord /\ Keeps(piper[p], q)
    BY <2>2, HungKeeps
  <2>4. "ending" \in PiperPcs /\ "ending" \notin Asked
    BY DEF PiperPcs, WithManager, Asked
  <2>5. d \in DoesRecord
    BY <1>2, <1>3, <2>4, GoesTo DEF DoesRecord
  <2>6. does' = [does EXCEPT ![t] = d]
    <3> DEFINE d0 == [pc |-> "ending", mgr |-> does[t].mgr, proc |-> does[t].proc, text |-> does[t].text]
               g == [does EXCEPT ![t] = d0]
    <3>1. does' = [[does EXCEPT ![t].pc = "ending"] EXCEPT ![t].proc = p]
      BY <2>1
    <3>2. does \in [PiperThreads -> DoesRecord]
      BY DEF SynthesisTypes
    <3> HIDE DEF p
    <3>3. [does EXCEPT ![t].pc = "ending"] = g
      BY <2>4, GoesTo
    <3>4. [g EXCEPT ![t].proc = p] = [does EXCEPT ![t] = [d0 EXCEPT !.proc = p]]
      <4> HIDE DEF d0
      <4>. QED  BY <3>2
    <3>. QED  BY <3>1, <3>3, <3>4
  <2>7. d.pc = "ending" /\ d.mgr = m /\ d.text = does[t].text
    OBVIOUS
  <2> HIDE DEF q, d, p
  <2>8. piper' \in [Processes -> PipeRecord] /\ \A k \in Processes : Keeps(piper[k], piper'[k])
    BY <2>1, <2>2, <2>3, PipeMoves
  <2>9. /\ does' \in [PiperThreads -> DoesRecord]
        /\ \A u \in PiperThreads : Knows(u, does'[u], engine'.starts)
        /\ \A u \in PiperThreads : SameTalk(does[u], does'[u])
    BY <1>1, <1>2, <1>4, <2>4, <2>5, <2>6, <2>7, Onward
  <2>. QED  BY <1>1, <1>4, <2>8, <2>9 DEF SynthesisTypes, Undisturbed
<1>. QED  BY <1>5, <1>6

LEMMA EndsIs ==
    ASSUME SynthesisTypes, NEW t \in PiperThreads, Ends(t)
    PROVE  SynthesisTypes' /\ Undisturbed
<1> DEFINE m == does[t].mgr
           p == does[t].proc
           q == [up |-> FALSE, inbox |-> <<>>, outbox |-> <<>>]
           c == AfterEnd(t)
<1>1. UNCHANGED <<engine, budget, spoken>> /\ does[t].pc = "ending" /\ does[t].pc \notin Asked
      /\ Go(t, c) /\ piper' = [piper EXCEPT ![p] = q]
  BY DEF Ends, At, Asked
<1>2. m \in Managers
  BY <1>1 DEF SynthesisTypes, Knows, WithManager
<1>3. engine' \in EngineRecord /\ engine'.starts = engine.starts
  BY <1>1 DEF SynthesisTypes
<1>4. c \in PiperPcs /\ c \in {"boot", "ended"}
  BY DEF AfterEnd, PiperPcs, WithManager
<1>5. mgr' \in [Managers -> ManagerRecord]
      /\ \A k \in Managers : mgr'[k].talk = mgr[k].talk /\ mgr'[k].proc \in {0, mgr[k].proc}
  <2> DEFINE f == [mgr EXCEPT ![m].proc = 0]
  <2>1. mgr' = [f EXCEPT ![m].ready = FALSE]
    BY DEF Ends, SynthesisTypes, ManagerRecord
  <2>2. f \in [Managers -> ManagerRecord]
        /\ \A k \in Managers : f[k].talk = mgr[k].talk /\ f[k].proc \in {0, mgr[k].proc}
    BY <1>2, SynthesisBounds DEF SynthesisTypes, ManagerRecord
  <2> HIDE DEF f, m
  <2>. QED  BY <1>2, <2>1, <2>2 DEF ManagerRecord
<1>6. piper' \in [Processes -> PipeRecord] /\ \A k \in Processes : Keeps(piper[k], piper'[k])
  <2>1. q \in PipeRecord /\ \A r : Keeps(r, q)
    BY EmptyKeeps
  <2>2. piper \in [Processes -> PipeRecord]
    BY DEF SynthesisTypes
  <2> HIDE DEF q, p
  <2>3. piper' \in [Processes -> PipeRecord]
    BY <1>1, <2>1, <2>2
  <2>4. \A k \in Processes : piper'[k] = piper[k] \/ piper'[k] = q
    BY <1>1, <2>2
  <2>. QED  BY <2>1, <2>3, <2>4, KeepsItself
<1> HIDE DEF c, m
<1>7. c \notin Asked /\ c \notin {"use", "speak", "speaking", "lazy", "loaded"}
  BY <1>4 DEF Asked
<1>8. /\ does' \in [PiperThreads -> DoesRecord]
      /\ \A u \in PiperThreads : Knows(u, does'[u], engine'.starts)
      /\ \A u \in PiperThreads : SameTalk(does[u], does'[u])
  BY <1>1, <1>2, <1>3, <1>4, <1>7, GoesOn DEF m
<1>. QED  BY <1>1, <1>3, <1>5, <1>6, <1>8 DEF SynthesisTypes, Undisturbed

-----------------------------------------------------------------------------
(* What a manager and a subprocess say to each other. *)

LEMMA BootsIs ==
    ASSUME SynthesisInv, NEW t \in PiperThreads, Boots(t)
    PROVE  SynthesisInv'
<1> DEFINE m == does[t].mgr
           p == budget.spawned + 1
           q == [piper[p] EXCEPT !.up = TRUE]
<1> USE DEF SynthesisInv
<1>1. UNCHANGED <<engine, spoken>> /\ does[t].pc = "boot" /\ does[t].pc \notin Asked
      /\ Go(t, "load") /\ p \in Processes
      /\ budget' = [budget EXCEPT !.spawned = p]
  BY DEF Boots, At, Asked
<1>2. m \in Managers
  BY <1>1 DEF SynthesisTypes, Knows, WithManager
<1>3. engine' \in EngineRecord /\ engine'.starts = engine.starts
  BY <1>1 DEF SynthesisTypes
<1>4. "load" \in PiperPcs /\ "load" \notin Asked
  BY DEF PiperPcs, WithManager, Asked
<1>5. /\ does' \in [PiperThreads -> DoesRecord]
      /\ \A u \in PiperThreads : Knows(u, does'[u], engine'.starts)
      /\ \A u \in PiperThreads : SameTalk(does[u], does'[u])
  BY <1>1, <1>2, <1>3, <1>4, GoesOn
<1>6. budget.spawned \in 0 .. MaxProcesses /\ p \in Nat /\ p # 0 /\ p \in 0 .. MaxProcesses
  BY <1>1, SynthesisBounds DEF SynthesisTypes, BudgetRecord, Processes
<1>7. budget' \in BudgetRecord /\ budget'.spawned = p /\ budget'.late = budget.late
  <2> HIDE DEF p
  <2>. QED  BY <1>1, <1>6 DEF SynthesisTypes, BudgetRecord
<1>8. piper[p] \in PipeRecord /\ Unborn(piper[p])
  BY <1>1, <1>6 DEF SynthesisTypes, OwnProcesses
<1>9. q \in PipeRecord /\ Clean(q)
  BY <1>8 DEF PipeRecord, Unborn, Clean, LastOrders
<1>10. piper' = [piper EXCEPT ![p] = q]
  BY <1>1 DEF Boots, SynthesisTypes
<1>11. mgr' \in [Managers -> ManagerRecord] /\ mgr'[m].proc = p
       /\ (\A k \in Managers : mgr'[k].talk = mgr[k].talk)
       /\ \A k \in Managers \ {m} : mgr'[k].proc = mgr[k].proc
  <2> DEFINE f == [mgr EXCEPT ![m].proc = p]
  <2>1. mgr' = [f EXCEPT ![m].lock = t]
    BY DEF Boots, SynthesisTypes, ManagerRecord
  <2> HIDE DEF p
  <2>2. f \in [Managers -> ManagerRecord] /\ f[m].proc = p
        /\ (\A k \in Managers : f[k].talk = mgr[k].talk)
        /\ \A k \in Managers \ {m} : f[k].proc = mgr[k].proc
    BY <1>2, <1>6 DEF SynthesisTypes, ManagerRecord
  <2> HIDE DEF f, m
  <2>. QED  BY <1>2, <2>1, <2>2 DEF ManagerRecord
<1> HIDE DEF q
<1>12. piper' \in [Processes -> PipeRecord] /\ piper'[p] = q
       /\ \A k \in Processes \ {p} : piper'[k] = piper[k]
  <2> HIDE DEF p
  <2>. QED  BY <1>1, <1>9, <1>10 DEF SynthesisTypes
<1>13. SynthesisTypes'
  BY <1>1, <1>3, <1>5, <1>7, <1>11, <1>12 DEF SynthesisTypes
<1>14. OneTalks'
  BY <1>5, <1>11 DEF OneTalks, SameTalk
<1>15. \A k \in Managers : mgr[k].proc \in 0 .. budget.spawned /\ mgr[k].proc \in Nat
  BY SynthesisBounds DEF SynthesisTypes, ManagerRecord, OwnProcesses
<1>16. \A k \in Managers : mgr[k].proc # p
  BY <1>6, <1>15
<1>17. OwnProcesses'
  <2>1. ASSUME NEW k \in Managers PROVE mgr'[k].proc <= budget'.spawned
    <3>1. mgr[k].proc <= p
      BY <1>6, <1>15
    <3> HIDE DEF p
    <3>. QED  BY <1>6, <1>7, <1>11, <3>1
  <2>2. ASSUME NEW k \in Managers, NEW n \in Managers, mgr'[k].proc # 0, mgr'[k].proc = mgr'[n].proc
        PROVE  k = n
    BY <1>11, <1>16, <2>2 DEF OwnProcesses
  <2>3. ASSUME NEW k \in Processes, k > budget'.spawned PROVE Unborn(piper'[k])
    <3>1. k \in Nat /\ k > budget.spawned /\ k # p
      BY <1>6, <1>7, <2>3, SynthesisBounds DEF Processes
    <3>. QED  BY <1>12, <3>1 DEF OwnProcesses
  <2>. QED  BY <2>1, <2>2, <2>3 DEF OwnProcesses
<1>18. PipesInStep'
  <2> SUFFICES ASSUME budget'.late = 0, NEW k \in Managers, mgr'[k].proc # 0
               PROVE  /\ mgr'[k].talk = Unlocked => Clean(piper'[mgr'[k].proc])
                      /\ \A u \in PiperThreads :
                            mgr'[k].talk = u => Carries(piper'[mgr'[k].proc], Expected(does'[u]))
    BY DEF PipesInStep
  <2>1. CASE k = m
    BY <1>9, <1>11, <1>12, <2>1 DEF Carries
  <2>2. CASE k # m
    <3>1. mgr'[k].proc = mgr[k].proc /\ mgr[k].proc \in Processes \ {p}
      BY <1>11, <1>15, <1>16, <2>2, SynthesisBounds DEF Processes, SynthesisTypes, ManagerRecord
    <3>2. piper'[mgr'[k].proc] = piper[mgr[k].proc] /\ mgr'[k].talk = mgr[k].talk
      BY <1>11, <1>12, <3>1
    <3>3. mgr[k].talk = Unlocked => Clean(piper[mgr[k].proc])
      BY <1>7, <3>1 DEF PipesInStep
    <3>4. ASSUME NEW u \in PiperThreads, mgr[k].talk = u
          PROVE  Carries(piper[mgr[k].proc], Expected(does'[u]))
      <4>1. does[u].pc \in Asked
        BY <3>4 DEF OneTalks
      <4>2. Expected(does'[u]) = Expected(does[u])
        BY <1>5, <4>1 DEF SameTalk
      <4>. QED  BY <1>7, <3>1, <3>4, <4>2 DEF PipesInStep
    <3>. QED  BY <3>2, <3>3, <3>4
  <2>. QED  BY <2>1, <2>2
<1>19. AudioIsOwnText'
  BY <1>1, <1>7 DEF AudioIsOwnText
<1>. QED  BY <1>13, <1>14, <1>17, <1>18, <1>19

(* A step that leaves the talk alone keeps the invariant. *)
LEMMA UndisturbedKeeps ==
    ASSUME SynthesisInv, SynthesisTypes', Undisturbed
    PROVE  SynthesisInv'
<1> USE DEF SynthesisInv
<1>1. OneTalks'
  BY DEF Undisturbed, OneTalks, SameTalk
<1>2. \A k \in Managers : mgr[k].proc \in 0 .. MaxProcesses
  BY DEF SynthesisTypes, ManagerRecord
<1>3. budget.spawned \in Nat
  BY SynthesisBounds DEF SynthesisTypes, BudgetRecord
<1>4. OwnProcesses'
  <2>1. ASSUME NEW k \in Managers PROVE mgr'[k].proc <= budget'.spawned
    BY <1>2, <1>3, SynthesisBounds DEF Undisturbed, OwnProcesses
  <2>2. ASSUME NEW k \in Managers, NEW n \in Managers, mgr'[k].proc # 0, mgr'[k].proc = mgr'[n].proc
        PROVE  k = n
    BY <2>2 DEF Undisturbed, OwnProcesses
  <2>3. ASSUME NEW k \in Processes, k > budget'.spawned PROVE Unborn(piper'[k])
    BY <2>3 DEF Undisturbed, OwnProcesses, Keeps
  <2>. QED  BY <2>1, <2>2, <2>3 DEF OwnProcesses
<1>5. PipesInStep'
  <2> SUFFICES ASSUME budget'.late = 0, NEW k \in Managers, mgr'[k].proc # 0
               PROVE  /\ mgr'[k].talk = Unlocked => Clean(piper'[mgr'[k].proc])
                      /\ \A u \in PiperThreads :
                            mgr'[k].talk = u => Carries(piper'[mgr'[k].proc], Expected(does'[u]))
    BY DEF PipesInStep
  <2> DEFINE p == mgr[k].proc
  <2>1. mgr'[k].proc = p /\ mgr'[k].talk = mgr[k].talk /\ p # 0 /\ budget.late = 0
    BY DEF Undisturbed
  <2>2. p \in Processes
    BY <1>2, <2>1, SynthesisBounds DEF Processes
  <2>3. Keeps(piper[p], piper'[p])
    BY <2>2 DEF Undisturbed
  <2>4. mgr[k].talk = Unlocked => Clean(piper[p])
    BY <2>1 DEF PipesInStep
  <2>5. ASSUME NEW u \in PiperThreads, mgr[k].talk = u
        PROVE  Carries(piper'[p], Expected(does'[u]))
    <3>1. does[u].pc \in Asked
      BY <2>5 DEF OneTalks
    <3>2. Expected(does'[u]) = Expected(does[u])
      BY <3>1 DEF Undisturbed, SameTalk
    <3>3. Carries(piper[p], Expected(does[u]))
      BY <2>1, <2>5 DEF PipesInStep
    <3>4. Expected(does[u]) \in Heard
      BY SynthesisBounds DEF Expected, Heard, NoAudio, SynthesisTypes, DoesRecord
    <3>. QED  BY <2>3, <3>2, <3>3, <3>4 DEF Keeps
  <2> HIDE DEF p
  <2>. QED  BY <2>1, <2>3, <2>4, <2>5 DEF Keeps
<1>6. AudioIsOwnText'
  BY DEF Undisturbed, AudioIsOwnText
<1>. QED  BY <1>1, <1>4, <1>5, <1>6

LEMMA WaitingIs ==
    /\ DOMAIN Waiting = {"load", "ping", "speak"}
    /\ Waiting["load"] = "loading" /\ Waiting["ping"] = "pinging" /\ Waiting["speak"] = "speaking"
  BY DEF Waiting

(* A command into clean pipes. *)
LEMMA SentCarries ==
    ASSUME NEW r \in PipeRecord, NEW x \in Heard, r.up, Clean(r)
    PROVE  LET q == [r EXCEPT !.inbox = Append(@, x)]
           IN  q \in PipeRecord /\ Carries(q, x)
<1> DEFINE i == Append(r.inbox, x)
           q == [r EXCEPT !.inbox = i]
<1>1. r.inbox \in Seq(Commands) /\ x \in Commands
  BY DEF PipeRecord, Commands
<1>2. i \in Seq(Commands) /\ i # <<>>
  BY <1>1
<1>3. q \in PipeRecord /\ q.up /\ q.outbox = r.outbox /\ q.inbox = i
  <2> HIDE DEF i
  <2>. QED  BY <1>2 DEF PipeRecord
<1>4. r.outbox = <<>> /\ LastOrders(r.inbox)
  BY DEF Clean
<1>5. CASE r.inbox = <<>>
  <2>1. i = <<x>>
    BY <1>5
  <2>2. Head(i) = x /\ Tail(i) = <<>>
    BY <2>1
  <2> HIDE DEF q, i
  <2>3. Carries(q, x)
    BY <1>2, <1>3, <1>4, <2>2 DEF Carries, LastOrders
  <2>. QED  BY <1>3, <2>3 DEF q, i
<1>6. CASE r.inbox # <<>>
  <2>1. Head(i) = Shutdown
    BY <1>1, <1>4, <1>6 DEF LastOrders
  <2> HIDE DEF q, i
  <2>2. Clean(q)
    BY <1>3, <1>4, <2>1 DEF Clean, LastOrders
  <2>. QED  BY <1>3, <2>2 DEF Carries, q, i
<1>. QED  BY <1>5, <1>6

LEMMA SendsIs ==
    ASSUME SynthesisInv, NEW t \in PiperThreads, Sends(t)
    PROVE  SynthesisInv'
<1> DEFINE m == does[t].mgr
           p == mgr[m].proc
           x == IF At(t, "speak") THEN does[t].text ELSE NoAudio
           c == Waiting[does[t].pc]
           q == [piper[p] EXCEPT !.inbox = Append(@, x)]
           d == [pc |-> c, mgr |-> m, proc |-> p, text |-> does[t].text]
<1> USE DEF SynthesisInv
<1>1. /\ UNCHANGED <<engine, budget, spoken>>
      /\ does[t].pc \in {"load", "ping", "speak"}
      /\ mgr[m].talk = Unlocked /\ p # 0 /\ piper[p].up
      /\ mgr' = [mgr EXCEPT ![m].talk = t]
      /\ piper' = [piper EXCEPT ![p] = q]
  BY WaitingIs DEF Sends, MayTalk, Owned, Breathing, SynthesisTypes
<1>2. Knows(t, does[t], engine.starts) /\ does[t] \in DoesRecord
  BY DEF SynthesisTypes
<1>3. m \in Managers /\ (does[t].pc = "speak" => t \in Speakers)
  BY <1>1, <1>2 DEF Knows, WithManager
<1>4. p \in 0 .. MaxProcesses /\ p \in Processes
  BY <1>1, <1>3, SynthesisBounds DEF SynthesisTypes, ManagerRecord, Processes
<1>5. x \in Heard
  BY <1>2, SynthesisBounds DEF DoesRecord, Heard, NoAudio
<1>6. c \in Asked /\ c \in PiperPcs /\ c \in WithManager /\ (c = "speaking" <=> does[t].pc = "speak")
  BY <1>1, WaitingIs DEF Asked, PiperPcs, WithManager
<1>7. does[t].pc \notin Asked
  BY <1>1 DEF Asked
<1>8. does' = [does EXCEPT ![t] = d]
  <2> DEFINE d0 == [pc |-> c, mgr |-> does[t].mgr, proc |-> does[t].proc, text |-> does[t].text]
             g == [does EXCEPT ![t] = d0]
  <2>1. does \in [PiperThreads -> DoesRecord]
    BY DEF SynthesisTypes
  <2>2. does' = [[does EXCEPT ![t].pc = c] EXCEPT ![t].proc = p]
    BY <2>1 DEF Sends, Owned
  <2> HIDE DEF p, c
  <2>3. [does EXCEPT ![t].pc = c] = g
    BY <1>6, GoesTo
  <2>4. [g EXCEPT ![t].proc = p] = [does EXCEPT ![t] = [d0 EXCEPT !.proc = p]]
    <3> HIDE DEF d0
    <3>. QED  BY <2>1
  <2>. QED  BY <2>2, <2>3, <2>4
<1>9. d.pc = c /\ d.mgr = m /\ d.text = does[t].text /\ Expected(d) = x
  BY <1>6 DEF Expected, At
<1>10. d \in DoesRecord
  BY <1>2, <1>4, <1>6 DEF DoesRecord
<1>11. engine' \in EngineRecord /\ engine'.starts = engine.starts
  BY <1>1 DEF SynthesisTypes
<1> HIDE DEF d, c
<1>12. /\ does' \in [PiperThreads -> DoesRecord]
       /\ \A u \in PiperThreads : Knows(u, does'[u], engine'.starts)
       /\ does'[t] = d
       /\ \A u \in PiperThreads \ {t} : does'[u] = does[u]
  <2>1. does[t].pc # "idle" /\ d.pc \notin {"lazy", "loaded", "use", "speak"}
        /\ (d.pc = "speaking" => t \in Speakers)
    BY <1>1, <1>3, <1>6, <1>9 DEF Asked
  <2>. QED  BY <1>3, <1>8, <1>9, <1>10, <1>11, <2>1, Onward
<1> HIDE DEF x, p, m
<1>13. mgr' \in [Managers -> ManagerRecord] /\ mgr'[m].talk = t
       /\ (\A k \in Managers : mgr'[k].proc = mgr[k].proc)
       /\ \A k \in Managers \ {m} : mgr'[k].talk = mgr[k].talk
  BY <1>1, <1>3 DEF SynthesisTypes, ManagerRecord
<1>14. piper[p] \in PipeRecord
  BY <1>4 DEF SynthesisTypes
<1>15. q \in PipeRecord /\ (Clean(piper[p]) => Carries(q, x))
       /\ (Unborn(piper[p]) => FALSE)
  <2>1. q \in PipeRecord
    <3>1. Append(piper[p].inbox, x) \in Seq(Commands)
      BY <1>5, <1>14 DEF PipeRecord, Commands
    <3>. QED  BY <1>14, <3>1 DEF PipeRecord
  <2>2. Clean(piper[p]) => Carries(q, x)
    BY <1>1, <1>5, <1>14, SentCarries
  <2>. QED  BY <1>1, <2>1, <2>2 DEF Unborn
<1> HIDE DEF q
<1>16. piper' \in [Processes -> PipeRecord] /\ piper'[p] = q
       /\ \A k \in Processes \ {p} : piper'[k] = piper[k]
  BY <1>1, <1>4, <1>15 DEF SynthesisTypes
<1>17. SynthesisTypes'
  BY <1>1, <1>11, <1>12, <1>13, <1>16 DEF SynthesisTypes
<1>18. OneTalks'
  <2> SUFFICES ASSUME NEW u \in PiperThreads, NEW k \in Managers
               PROVE  mgr'[k].talk = u <=> does'[u].pc \in Asked /\ does'[u].mgr = k
    BY DEF OneTalks
  <2>1. CASE u = t
    <3>1. does'[u].pc \in Asked /\ does'[u].mgr = m
      BY <1>6, <1>9, <1>12, <2>1
    <3>2. mgr[k].talk # t
      BY <1>7 DEF OneTalks
    <3>. QED  BY <1>13, <2>1, <3>1, <3>2
  <2>2. CASE u # t
    <3>1. does'[u] = does[u]
      BY <1>12, <2>2
    <3>2. mgr[m].talk # u
      BY <1>1, ThreadsApart DEF m
    <3>. QED  BY <1>3, <1>13, <2>2, <3>1, <3>2 DEF OneTalks
  <2>. QED  BY <2>1, <2>2
<1>19. OwnProcesses'
  BY <1>1, <1>13, <1>15, <1>16 DEF OwnProcesses
<1>20. PipesInStep'
  <2> SUFFICES ASSUME budget'.late = 0, NEW k \in Managers, mgr'[k].proc # 0
               PROVE  /\ mgr'[k].talk = Unlocked => Clean(piper'[mgr'[k].proc])
                      /\ \A u \in PiperThreads :
                            mgr'[k].talk = u => Carries(piper'[mgr'[k].proc], Expected(does'[u]))
    BY DEF PipesInStep
  <2>0. budget.late = 0
    BY <1>1
  <2>1. CASE k = m
    <3>1. Clean(piper[p])
      BY <1>1, <1>3, <2>0 DEF PipesInStep, p
    <3>2. mgr'[k].proc = p /\ mgr'[k].talk = t
      BY <1>3, <1>13, <2>1 DEF p
    <3>3. Carries(piper'[p], Expected(does'[t]))
      BY <1>9, <1>12, <1>15, <1>16, <3>1
    <3>4. t # Unlocked
      BY ThreadsApart
    <3>. QED  BY <3>2, <3>3, <3>4
  <2>2. CASE k # m
    <3>1. mgr'[k].proc = mgr[k].proc /\ mgr[k].proc # 0 /\ mgr'[k].talk = mgr[k].talk
      BY <1>13, <2>2
    <3>2. mgr[k].proc # p
      BY <1>3, <2>2, <3>1 DEF OwnProcesses, p
    <3>3. mgr[k].proc \in Processes
      BY <3>1, SynthesisBounds DEF SynthesisTypes, ManagerRecord, Processes
    <3>4. piper'[mgr'[k].proc] = piper[mgr[k].proc]
      BY <1>16, <3>1, <3>2, <3>3
    <3>5. ASSUME NEW u \in PiperThreads, mgr[k].talk = u
          PROVE  Carries(piper[mgr[k].proc], Expected(does'[u]))
      <4>1. u # t
        BY <1>7, <3>5 DEF OneTalks
      <4>. QED  BY <1>12, <2>0, <3>1, <3>5, <4>1 DEF PipesInStep
    <3>. QED  BY <2>0, <3>1, <3>4, <3>5 DEF PipesInStep
  <2>. QED  BY <2>1, <2>2
<1>21. AudioIsOwnText'
  BY <1>1 DEF AudioIsOwnText
<1>. QED  BY <1>17, <1>18, <1>19, <1>20, <1>21

LEMMA CannotSendIs ==
    ASSUME SynthesisInv, NEW t \in PiperThreads, CannotSend(t)
    PROVE  SynthesisInv'
<1> USE DEF SynthesisInv
<1>1. /\ UNCHANGED <<engine, piper, budget>> /\ does[t].pc \in {"load", "ping", "speak"}
      /\ mgr[does[t].mgr].talk = Unlocked
  BY WaitingIs DEF CannotSend, MayTalk, Owned
<1>2. \/ does[t].pc = "load" /\ LoadEnds(t, FALSE)
      \/ does[t].pc = "ping" /\ Pinged(t, FALSE)
      \/ does[t].pc = "speak" /\ Spoke(t, NoAudio)
  BY <1>1 DEF CannotSend, At
<1>3. NoAudio \in Heard
  BY SynthesisBounds DEF NoAudio, Heard
<1>4. LetsGo(t) /\ spoken' \subseteq (1 .. MaxTexts) \X Heard
      /\ \A s \in spoken' : s \in spoken \/ s[2] = NoAudio
  <2>1. CASE does[t].pc = "load" /\ LoadEnds(t, FALSE)
    <3>1. spoken' = spoken
      BY <2>1 DEF LoadEnds
    <3>. QED  BY <2>1, <3>1, LoadEndsIs DEF SynthesisTypes
  <2>2. CASE does[t].pc = "ping" /\ Pinged(t, FALSE)
    <3>1. spoken' = spoken
      BY <2>2 DEF Pinged
    <3>. QED  BY <1>1, <2>2, <3>1, PingedIs DEF SynthesisTypes
  <2>3. CASE does[t].pc = "speak" /\ Spoke(t, NoAudio)
    <3>1. LetsGo(t) /\ spoken' = spoken \cup {<<does[t].text, NoAudio>>}
          /\ spoken' \subseteq (1 .. MaxTexts) \X Heard
      BY <1>1, <1>3, <2>3, SpokeIs
    <3>. QED  BY <3>1
  <2>. QED  BY <1>2, <2>1, <2>2, <2>3
<1>5. does[t].pc \notin Asked
  BY <1>1 DEF Asked
<1>6. SynthesisTypes'
  BY <1>1, <1>4 DEF SynthesisTypes, LetsGo
<1>7. \A u \in PiperThreads : SameTalk(does[u], does'[u])
  BY <1>4, <1>5 DEF LetsGo, SameTalk
<1>8. \A k \in Managers : mgr'[k].talk = mgr[k].talk /\ mgr'[k].proc = mgr[k].proc
  BY <1>1, <1>4 DEF LetsGo
<1>9. Undisturbed
  BY <1>1, <1>4, <1>7, <1>8, KeepsItself DEF Undisturbed
<1>. QED  BY <1>6, <1>9, UndisturbedKeeps

(* An answer, or the end of the wait for one. *)
LEMMA ReceivesIs ==
    ASSUME SynthesisTypes, NEW t \in PiperThreads, does[t].pc \in Asked, engine' = engine,
           NEW a, a = <<>> \/ \E x \in Heard : a = <<x>>, Receives(t, a)
    PROVE  /\ LetsGo(t) /\ spoken' \subseteq (1 .. MaxTexts) \X Heard
           /\ \A s \in spoken' :
                 s \in spoken \/ (/\ does[t].pc = "speaking"
                                  /\ s = <<does[t].text, IF a = <<>> THEN NoAudio ELSE a[1]>>)
<1>1. \/ does[t].pc = "loading" /\ (LoadEnds(t, a # <<>>) \/ LoadEnds(t, FALSE))
      \/ does[t].pc = "pinging" /\ Pinged(t, a # <<>>)
      \/ does[t].pc = "speaking" /\ Spoke(t, IF a = <<>> THEN NoAudio ELSE a[1])
  BY DEF Receives, At, Asked
<1> DEFINE x == IF a = <<>> THEN NoAudio ELSE a[1]
           ok == a # <<>>
<1>2. x \in Heard /\ ok \in BOOLEAN
  BY SynthesisBounds DEF NoAudio, Heard
<1> HIDE DEF x, ok
<1>3. CASE does[t].pc = "loading" /\ (LoadEnds(t, ok) \/ LoadEnds(t, FALSE))
  <2>1. spoken' = spoken
    BY <1>3 DEF LoadEnds
  <2>. QED  BY <1>2, <1>3, <2>1, LoadEndsIs DEF SynthesisTypes
<1>4. CASE does[t].pc = "pinging" /\ Pinged(t, ok)
  <2>1. spoken' = spoken
    BY <1>4 DEF Pinged
  <2>. QED  BY <1>2, <1>4, <2>1, PingedIs DEF SynthesisTypes
<1>5. CASE does[t].pc = "speaking" /\ Spoke(t, x)
  <2>1. LetsGo(t) /\ spoken' = spoken \cup {<<does[t].text, x>>}
        /\ spoken' \subseteq (1 .. MaxTexts) \X Heard
    BY <1>2, <1>5, SpokeIs
  <2>. QED  BY <1>5, <2>1 DEF x
<1>. QED  BY <1>1, <1>3, <1>4, <1>5 DEF x, ok

LEMMA LetsGoKeeps ==
    ASSUME SynthesisInv, NEW t \in PiperThreads, does[t].pc \in Asked, LetsGo(t),
           budget'.spawned = budget.spawned,
           \A k \in Processes : Unborn(piper[k]) => Unborn(piper'[k])
    PROVE  OneTalks' /\ OwnProcesses' /\ does[t].mgr \in Managers /\ mgr[does[t].mgr].talk = t
<1> USE DEF SynthesisInv
<1> DEFINE m == does[t].mgr
<1>1. m \in Managers
  BY DEF SynthesisTypes, Knows, WithManager
<1>2. mgr[m].talk = t
  BY <1>1 DEF OneTalks
<1> HIDE DEF m
<1>3. OneTalks'
  <2> SUFFICES ASSUME NEW u \in PiperThreads, NEW k \in Managers
               PROVE  mgr'[k].talk = u <=> does'[u].pc \in Asked /\ does'[u].mgr = k
    BY DEF OneTalks
  <2>1. mgr'[m].talk = Unlocked /\ (k # m => mgr'[k].talk = mgr[k].talk)
    BY DEF LetsGo, m
  <2>2. mgr'[m].talk # u
    BY <2>1, ThreadsApart
  <2>3. CASE u = t
    <3>1. does'[u].pc \notin Asked
      BY <2>3 DEF LetsGo
    <3>2. k # m => mgr[k].talk # t
      BY DEF OneTalks, m
    <3>. QED  BY <2>1, <2>2, <2>3, <3>1, <3>2
  <2>4. CASE u # t
    <3>1. SameTalk(does[u], does'[u])
      BY <2>4 DEF LetsGo
    <3>2. mgr[m].talk # u
      BY <1>2, <2>4
    <3>. QED  BY <1>1, <2>1, <2>2, <3>1, <3>2 DEF OneTalks, SameTalk
  <2>. QED  BY <2>3, <2>4
<1>4. OwnProcesses'
  BY DEF OwnProcesses, LetsGo
<1>. QED  BY <1>1, <1>2, <1>3, <1>4 DEF m

LEMMA AnswerTimesOutIs ==
    ASSUME SynthesisInv, NEW t \in PiperThreads, AnswerTimesOut(t)
    PROVE  SynthesisInv'
<1> USE DEF SynthesisInv
<1>1. UNCHANGED <<engine, piper>> /\ does[t].pc \in Asked /\ Receives(t, <<>>)
      /\ budget' = [budget EXCEPT !.late = budget.late + 1]
  BY DEF AnswerTimesOut, Asked
<1>2. budget' \in BudgetRecord /\ budget'.spawned = budget.spawned /\ budget'.late # 0
  BY <1>1 DEF SynthesisTypes, BudgetRecord
<1>3. LetsGo(t) /\ spoken' \subseteq (1 .. MaxTexts) \X Heard
  BY <1>1, ReceivesIs
<1>4. SynthesisTypes'
  BY <1>1, <1>2, <1>3 DEF SynthesisTypes, LetsGo
<1>5. OneTalks' /\ OwnProcesses'
  BY <1>1, <1>2, <1>3, LetsGoKeeps
<1>. QED  BY <1>2, <1>4, <1>5 DEF PipesInStep, AudioIsOwnText

(* What is read from pipes that carry an answer is that one or no audio, and leaves them clean. *)
LEMMA ReadFromPipes ==
    ASSUME NEW r \in PipeRecord, NEW x \in Heard, Carries(r, x)
    PROVE  /\ r.outbox = <<>> /\ ~r.up => Clean(r)
           /\ r.outbox # <<>> =>
                /\ Head(r.outbox) \in {x, NoAudio}
                /\ Clean([r EXCEPT !.outbox = Tail(@)])
<1> DEFINE q == [r EXCEPT !.outbox = Tail(@)]
<1>1. r.outbox \in Seq(Heard)
  BY DEF PipeRecord
<1>2. r.outbox = <<>> /\ ~r.up => Clean(r)
  BY DEF Clean, NothingHeard
<1>3. ASSUME r.outbox # <<>> PROVE Head(r.outbox) \in {x, NoAudio} /\ Clean(q)
  <2>0. q.up = r.up /\ q.outbox = Tail(r.outbox) /\ q.inbox = r.inbox
    BY DEF PipeRecord
  <2> HIDE DEF q
  <2>1. CASE Clean(r)
    <3>1. ~r.up /\ NothingHeard(r.outbox)
      BY <1>3, <2>1 DEF Clean
    <3>2. Head(r.outbox) = NoAudio /\ NothingHeard(Tail(r.outbox))
      BY <1>1, <1>3, <3>1 DEF NothingHeard
    <3>. QED  BY <2>0, <3>1, <3>2 DEF Clean
  <2>2. CASE r.up /\ r.outbox = <<x>> /\ LastOrders(r.inbox)
    <3>1. Head(<<x>>) = x /\ Tail(<<x>>) = <<>>
      OBVIOUS
    <3>. QED  BY <2>0, <2>2, <3>1 DEF Clean
  <2>3. CASE ~r.up /\ r.outbox[1] = x /\ NothingHeard(Tail(r.outbox))
    BY <1>1, <1>3, <2>0, <2>3 DEF Clean
  <2>. QED  BY <1>3, <2>1, <2>2, <2>3 DEF Carries
<1>. QED  BY <1>2, <1>3

LEMMA ReadsIs ==
    ASSUME SynthesisInv, NEW t \in PiperThreads, Reads(t)
    PROVE  SynthesisInv'
<1> DEFINE m == does[t].mgr
           p == mgr[m].proc
           answered == p # 0 /\ piper[p].outbox # <<>>
           a == IF answered THEN <<Head(piper[p].outbox)>> ELSE <<>>
           q == [piper[p] EXCEPT !.outbox = Tail(@)]
<1> USE DEF SynthesisInv
<1>1. UNCHANGED <<engine, budget>> /\ does[t].pc \in Asked /\ Receives(t, a)
      /\ (answered => piper' = [piper EXCEPT ![p] = q])
      /\ (~answered => piper' = piper /\ (p = 0 \/ (~piper[p].up /\ piper[p].outbox = <<>>)))
  <2>1. CASE answered
    BY <2>1 DEF Reads, Owned, Asked, SynthesisTypes
  <2>2. CASE ~answered
    <3>1. a = <<>> /\ (p = 0 \/ piper[p].outbox = <<>>)
      BY <2>2
    <3>2. /\ UNCHANGED <<engine, budget>> /\ does[t].pc \in {"loading", "pinging", "speaking"}
          /\ Receives(t, <<>>) /\ piper' = piper /\ ~(p # 0 /\ piper[p].up)
      BY <2>2 DEF Reads, Owned, Breathing
    <3>3. p = 0 \/ (~piper[p].up /\ piper[p].outbox = <<>>)
      <4>1. p = 0 \/ ~piper[p].up
        BY <3>2
      <4>2. p = 0 \/ piper[p].outbox = <<>>
        BY <3>1
      <4> HIDE DEF p
      <4>. QED  BY <4>1, <4>2
    <3>4. does[t].pc \in Asked /\ ~answered
      BY <2>2, <3>2 DEF Asked
    <3> HIDE DEF answered, a, p, q, m
    <3>. QED  BY <3>1, <3>2, <3>3, <3>4
  <2>. QED  BY <2>1, <2>2
<1>2. m \in Managers
  BY <1>1 DEF SynthesisTypes, Knows, WithManager
<1>3. p \in 0 .. MaxProcesses /\ (p # 0 => p \in Processes)
  BY <1>2, SynthesisBounds DEF SynthesisTypes, ManagerRecord, Processes
<1>4. p # 0 => piper[p] \in PipeRecord
  BY <1>3 DEF SynthesisTypes
<1>5. answered => piper[p].outbox \in Seq(Heard) /\ Head(piper[p].outbox) \in Heard
               /\ Tail(piper[p].outbox) \in Seq(Heard)
  BY <1>4 DEF PipeRecord
<1>6. a = <<>> \/ \E x \in Heard : a = <<x>>
  BY <1>5
<1>7. /\ LetsGo(t) /\ spoken' \subseteq (1 .. MaxTexts) \X Heard
      /\ \A s \in spoken' :
            s \in spoken \/ (/\ does[t].pc = "speaking"
                             /\ s = <<does[t].text, IF a = <<>> THEN NoAudio ELSE a[1]>>)
  <2> HIDE DEF a
  <2>. QED  BY <1>1, <1>6, ReceivesIs
<1>8. answered => q \in PipeRecord /\ ~Unborn(piper[p])
  BY <1>4, <1>5 DEF PipeRecord, Unborn
<1> HIDE DEF q
<1>9. /\ piper' \in [Processes -> PipeRecord]
      /\ answered => piper'[p] = q
      /\ ~answered => piper' = piper
      /\ \A k \in Processes \ {p} : piper'[k] = piper[k]
  <2>1. CASE answered
    <3>1. piper' = [piper EXCEPT ![p] = q] /\ p \in Processes /\ q \in PipeRecord
      BY <1>1, <1>3, <1>8, <2>1
    <3> HIDE DEF p, answered
    <3>. QED  BY <2>1, <3>1 DEF SynthesisTypes
  <2>2. CASE ~answered
    BY <1>1, <2>2 DEF SynthesisTypes
  <2>. QED  BY <2>1, <2>2
<1>10. SynthesisTypes'
  BY <1>1, <1>7, <1>9 DEF SynthesisTypes, LetsGo
<1>11. \A k \in Processes : Unborn(piper[k]) => Unborn(piper'[k])
  BY <1>8, <1>9
<1>12. OneTalks' /\ OwnProcesses' /\ mgr[m].talk = t
  BY <1>1, <1>7, <1>11, LetsGoKeeps
<1>13. Expected(does[t]) \in Heard
  BY SynthesisBounds DEF Expected, Heard, NoAudio, SynthesisTypes, DoesRecord
<1>14. ASSUME budget.late = 0, p # 0 PROVE Carries(piper[p], Expected(does[t]))
  BY <1>2, <1>12, <1>14 DEF PipesInStep
<1>15. ASSUME budget.late = 0, p # 0
       PROVE  /\ Clean(piper'[p])
              /\ answered => Head(piper[p].outbox) \in {Expected(does[t]), NoAudio}
  <2>1. CASE answered
    BY <1>4, <1>9, <1>13, <1>14, <1>15, <2>1, ReadFromPipes DEF q
  <2>2. CASE ~answered
    BY <1>1, <1>4, <1>9, <1>13, <1>14, <1>15, <2>2, ReadFromPipes
  <2>. QED  BY <2>1, <2>2
<1>16. PipesInStep'
  <2> SUFFICES ASSUME budget'.late = 0, NEW k \in Managers, mgr'[k].proc # 0
               PROVE  /\ mgr'[k].talk = Unlocked => Clean(piper'[mgr'[k].proc])
                      /\ \A u \in PiperThreads :
                            mgr'[k].talk = u => Carries(piper'[mgr'[k].proc], Expected(does'[u]))
    BY DEF PipesInStep
  <2>0. budget.late = 0 /\ mgr'[k].proc = mgr[k].proc /\ mgr[k].proc # 0
    BY <1>1, <1>7 DEF LetsGo
  <2>1. CASE k = m
    <3>1. mgr'[k].talk = Unlocked
      BY <1>7, <2>1 DEF LetsGo
    <3>2. mgr'[k].proc = p /\ p # 0
      BY <2>0, <2>1
    <3>3. Clean(piper'[p])
      BY <1>15, <2>0, <3>2
    <3>. QED  BY <3>1, <3>2, <3>3, ThreadsApart
  <2>2. CASE k # m
    <3>1. mgr'[k].talk = mgr[k].talk
      BY <1>7, <2>2 DEF LetsGo
    <3>2. mgr[k].proc # p
      BY <1>2, <2>0, <2>2 DEF OwnProcesses
    <3>3. mgr[k].proc \in Processes
      BY <2>0, SynthesisBounds DEF SynthesisTypes, ManagerRecord, Processes
    <3>4. piper'[mgr'[k].proc] = piper[mgr[k].proc]
      BY <1>9, <2>0, <3>2, <3>3
    <3>5. ASSUME NEW u \in PiperThreads, mgr[k].talk = u
          PROVE  Carries(piper[mgr[k].proc], Expected(does'[u]))
      <4>1. u # t /\ does[u].pc \in Asked
        BY <2>2, <3>5 DEF OneTalks
      <4>2. Expected(does'[u]) = Expected(does[u])
        BY <1>7, <4>1 DEF LetsGo, SameTalk
      <4>. QED  BY <2>0, <3>5, <4>2 DEF PipesInStep
    <3>6. mgr[k].talk = Unlocked => Clean(piper[mgr[k].proc])
      BY <2>0 DEF PipesInStep
    <3>. QED  BY <3>1, <3>4, <3>5, <3>6
  <2>. QED  BY <2>1, <2>2
<1>17. AudioIsOwnText'
  <2> SUFFICES ASSUME budget'.late = 0, NEW s \in spoken'
               PROVE  s[2] \in {NoAudio, s[1]}
    BY DEF AudioIsOwnText
  <2>1. CASE s \in spoken
    BY <1>1, <2>1 DEF AudioIsOwnText
  <2>2. CASE /\ does[t].pc = "speaking"
             /\ s = <<does[t].text, IF a = <<>> THEN NoAudio ELSE a[1]>>
    <3>1. CASE answered
      <4>1. a # <<>> /\ a[1] = Head(piper[p].outbox)
        BY <3>1
      <4>2. Head(piper[p].outbox) \in {Expected(does[t]), NoAudio}
        BY <1>1, <1>15, <3>1
      <4>3. Expected(does[t]) = does[t].text
        BY <2>2 DEF Expected
      <4> HIDE DEF a
      <4>. QED  BY <2>2, <4>1, <4>2, <4>3
    <3>2. CASE ~answered
      BY <2>2, <3>2
    <3>. QED  BY <3>1, <3>2
  <2>. QED  BY <1>7, <2>1, <2>2
<1>. QED  BY <1>10, <1>12, <1>16, <1>17

-----------------------------------------------------------------------------
LEMMA InitSynthesisInv == PSInit => SynthesisInv
<1> SUFFICES ASSUME PSInit PROVE SynthesisInv
  OBVIOUS
<1>1. SynthesisTypes
  <2>1. engine \in EngineRecord /\ mgr \in [Managers -> ManagerRecord]
    BY SynthesisBounds DEF PSInit, EngineRecord, ManagerRecord
  <2>2. piper \in [Processes -> PipeRecord]
    BY DEF PSInit, PipeRecord
  <2>3. does \in [PiperThreads -> DoesRecord] /\ \A t \in PiperThreads : does[t].pc = "idle"
    BY SynthesisBounds DEF PSInit, DoesRecord, PiperPcs, Heard
  <2>4. budget \in BudgetRecord /\ spoken = {}
    BY SynthesisBounds DEF PSInit, BudgetRecord
  <2>5. \A t \in PiperThreads : Knows(t, does[t], engine.starts)
    BY <2>3 DEF Knows, WithManager, Asked
  <2>. QED  BY <2>1, <2>2, <2>3, <2>4, <2>5 DEF SynthesisTypes
<1>2. OneTalks
  BY ThreadsApart DEF PSInit, OneTalks, Asked
<1>3. OwnProcesses
  BY SynthesisBounds DEF PSInit, OwnProcesses, Unborn, Processes
<1>4. PipesInStep /\ AudioIsOwnText
  BY DEF PSInit, PipesInStep, AudioIsOwnText
<1>. QED  BY <1>1, <1>2, <1>3, <1>4 DEF SynthesisInv

LEMMA StepSynthesisInv == SynthesisInv /\ [PSNext]_psvars => SynthesisInv'
<1> SUFFICES ASSUME SynthesisInv, [PSNext]_psvars PROVE SynthesisInv'
  OBVIOUS
<1>0. SynthesisTypes
  BY DEF SynthesisInv
<1>1. ASSUME EngineStart PROVE SynthesisInv'
  BY <1>0, <1>1, EngineStartIs, UndisturbedKeeps
<1>2. ASSUME EngineStop \/ VoiceChange PROVE SynthesisInv'
  <2>1. Changes(TRUE) \/ Changes(FALSE)
    BY <1>2 DEF EngineStop, VoiceChange
  <2>2. SynthesisTypes' /\ Undisturbed
    BY <1>0, <2>1, ChangesIs
  <2>. QED  BY <2>2, UndisturbedKeeps
<1>3. ASSUME NEW w \in Workers, Synthesize(w) PROVE SynthesisInv'
  BY <1>0, <1>3, SynthesizeIs, UndisturbedKeeps
<1>4. ASSUME NEW t \in PiperThreads,
             \/ LazyLoad(t) \/ LoadDone(t) \/ LoadFailed(t) \/ WarmupNotes(t) \/ Uses(t)
             \/ Forgets(t) \/ BeginsEnd(t) \/ Ends(t) \/ Joins(t)
      PROVE  SynthesisInv'
  <2>1. SynthesisTypes' /\ Undisturbed
    BY <1>0, <1>4, LazyLoadIs, LoadDoneIs, LoadFailedIs, UsesIs, ForgetsIs, BeginsEndIs, EndsIs,
       JoinsIs
  <2>. QED  BY <2>1, UndisturbedKeeps
<1>5. ASSUME NEW t \in PiperThreads,
             Sends(t) \/ CannotSend(t) \/ Reads(t) \/ AnswerTimesOut(t) \/ Boots(t)
      PROVE  SynthesisInv'
  BY <1>5, SendsIs, CannotSendIs, ReadsIs, AnswerTimesOutIs, BootsIs
<1>6. ASSUME NEW m \in Managers, BeatEnds(m) \/ BeatAsks(m) PROVE SynthesisInv'
  BY <1>0, <1>6, BeatIs, UndisturbedKeeps
<1>7. ASSUME NEW p \in Processes, Answers(p) \/ Dies(p) PROVE SynthesisInv'
  BY <1>0, <1>7, AnswersIs, DiesIs, UndisturbedKeeps
<1>8. CASE UNCHANGED psvars
  <2>1. SynthesisTypes' /\ Undisturbed
    BY <1>0, <1>8, KeepsItself DEF psvars, SynthesisTypes, Undisturbed, SameTalk
  <2>. QED  BY <2>1, UndisturbedKeeps
<1>. QED  BY <1>1, <1>2, <1>3, <1>4, <1>5, <1>6, <1>7, <1>8 DEF PSNext

(* Every variable of the synthesis keeps its type: for any number of workers, managers and *)
(* subprocesses (tts_engine.py, piper_loader.py). *)
THEOREM SynthesisTyped == PSSpec => []PSTypeOK
<1>1. PSSpec => []SynthesisInv
  BY InitSynthesisInv, StepSynthesisInv, PTL DEF PSSpec
<1>2. SynthesisInv => PSTypeOK
  BY DEF SynthesisInv, SynthesisTypes, PSTypeOK, EngineRecord, ManagerRecord, PipeRecord, Heard
<1>. QED  BY <1>1, <1>2, PTL

(* As long as no command times out, a text is answered with its own audio or with none, *)
(* whatever pings, restarts, voice changes and stops fall between: the answers carry no *)
(* name, and it is the lock around a command and its answer that keeps them in step *)
(* (piper_loader.py, _send_command). *)
THEOREM TextGetsItsAudio == PSSpec => []AudioIsOwnText
<1>1. PSSpec => []SynthesisInv
  BY InitSynthesisInv, StepSynthesisInv, PTL DEF PSSpec
<1>. QED  BY <1>1, PTL DEF SynthesisInv

-----------------------------------------------------------------------------
(* One subprocess per voice, as long as no load fails.  Two things have to be known: that a
   load which nothing breaks succeeds, for which the subprocess of a manager that loads must
   be out of everybody's reach; and that a voice which has a manager is loaded or being
   loaded, so that nobody makes another. *)
Intact == ~LoadsFail /\ budget.crashes = 0 /\ budget.late = 0

LoadsAt(d) == d.pc \in {"load", "loading"}
SafePipe(r) == r.up /\ \A i \in 1 .. Len(r.inbox) : r.inbox[i] # Shutdown

(* A load holds the lock of its manager; its subprocess runs, is told nothing of an end, and
   is not one that a thread is about to end. *)
LoadsApart ==
    /\ \A t \in PiperThreads, m \in Managers :
          mgr[m].lock = t <=> LoadsAt(does[t]) /\ does[t].mgr = m
    /\ \A t \in PiperThreads : LoadsAt(does[t]) =>
          LET p == mgr[does[t].mgr].proc IN
          /\ p # 0
          /\ \A u \in PiperThreads : does[u].pc = "ending" => does[u].proc # p
          /\ Intact => SafePipe(piper[p])
    /\ \A t \in PiperThreads : does[t].pc = "ending" => does[t].proc <= budget.spawned

LoadPcs == {"boot", "load", "loading", "loaded", "failed"}
UndoPcs == {"join", "halt", "ending", "ended"}
BeatPcs == {"wait", "ping", "pinging", "restart"}
FailPcs == {"failed", "noting"}

NoneCurrent == \A m \in Managers : m <= engine.made => mgr[m].voice # engine.changes

(* Who loads, or undoes a load, holds the load lock of the engine; a stopped engine has no
   manager of its voice; no two managers have the same voice, and the voice of the engine is
   loaded or in the hands of whoever holds the load lock. *)
VoicesApart ==
    /\ \A t \in PiperThreads \ Beats :
          /\ does[t].pc \notin BeatPcs
          /\ does[t].pc \in LoadPcs => engine.loader = t
          /\ t # Control /\ does[t].pc \in UndoPcs => engine.loader = t /\ NoneCurrent
    /\ \A t \in Beats : does[t].pc \notin {"failed", "ended"}
    /\ \A t \in PiperThreads : does[t].mgr <= engine.made
    /\ engine.manager <= engine.made
    /\ \A m \in Managers : /\ m <= engine.made => mgr[m].voice <= engine.changes
                           /\ m > engine.made => mgr[m].proc = 0
    /\ engine.stopped => NoneCurrent
    /\ Intact => /\ \A t \in PiperThreads : does[t].pc \notin FailPcs
                 /\ \A m, n \in Managers : m <= engine.made /\ n <= engine.made
                                             /\ mgr[m].voice = mgr[n].voice => m = n
                 /\ ~NoneCurrent => engine.loaded \/ engine.loader # Unlocked

(* The types in the form the proofs below use. *)
LEMMA PlainTypes ==
    ASSUME SynthesisTypes
    PROVE  /\ \A m \in Managers : m \in Nat /\ m # 0
           /\ engine.made \in Nat /\ engine.changes \in Nat /\ engine.manager \in Nat
           /\ engine.stopped \in BOOLEAN /\ engine.loaded \in BOOLEAN
           /\ \A m \in Managers : mgr[m].voice \in Nat /\ mgr[m].proc \in Nat
                                  /\ (mgr[m].proc # 0 => mgr[m].proc \in Processes)
           /\ \A t \in PiperThreads : does[t].mgr \in Nat /\ does[t].proc \in Nat
           /\ budget.spawned \in Nat /\ budget.crashes \in Nat /\ budget.late \in Nat
<1>1. \A m \in Managers : m \in Nat /\ m # 0
  BY SynthesisBounds DEF Managers
<1>2. /\ engine.made \in 0 .. MaxManagers /\ engine.changes \in 0 .. MaxChanges
      /\ engine.manager \in 0 .. MaxManagers
      /\ engine.stopped \in BOOLEAN /\ engine.loaded \in BOOLEAN
  BY DEF SynthesisTypes, EngineRecord
<1>3. engine.made \in Nat /\ engine.changes \in Nat /\ engine.manager \in Nat
  BY <1>2, SynthesisBounds
<1>4. ASSUME NEW m \in Managers
      PROVE  mgr[m].voice \in Nat /\ mgr[m].proc \in Nat /\ (mgr[m].proc # 0 => mgr[m].proc \in Processes)
  <2>1. mgr[m].voice \in 0 .. MaxChanges /\ mgr[m].proc \in 0 .. MaxProcesses
    BY DEF SynthesisTypes, ManagerRecord
  <2>. QED  BY <2>1, SynthesisBounds DEF Processes
<1>5. ASSUME NEW t \in PiperThreads PROVE does[t].mgr \in Nat /\ does[t].proc \in Nat
  <2>1. does[t].mgr \in 0 .. MaxManagers /\ does[t].proc \in 0 .. MaxProcesses
    BY DEF SynthesisTypes, DoesRecord
  <2>. QED  BY <2>1, SynthesisBounds
<1>6. budget.spawned \in Nat /\ budget.crashes \in Nat /\ budget.late \in Nat
  <2>1. budget.spawned \in 0 .. MaxProcesses /\ budget.crashes \in Nat /\ budget.late \in Nat
    BY DEF SynthesisTypes, BudgetRecord
  <2>. QED  BY <2>1, SynthesisBounds
<1>. QED  BY <1>1, <1>2, <1>3, <1>4, <1>5, <1>6

LEMMA LoadManager ==
    ASSUME SynthesisTypes, NEW t \in PiperThreads, does[t].pc \in WithManager
    PROVE  does[t].mgr \in Managers
  BY DEF SynthesisTypes, Knows

-----------------------------------------------------------------------------
(* What leaves the loads alone. *)
SameLoad(d, e) ==
    /\ LoadsAt(e) <=> LoadsAt(d)
    /\ LoadsAt(d) => e.mgr = d.mgr
    /\ e.pc = "ending" => d.pc = "ending" /\ e.proc = d.proc

LoadsLeft ==
    /\ \A m \in Managers : mgr'[m].lock = mgr[m].lock /\ mgr'[m].proc = mgr[m].proc
    /\ \A u \in PiperThreads : SameLoad(does[u], does'[u])
    /\ budget'.spawned = budget.spawned
    /\ Intact' => Intact
    /\ Intact' => \A p \in Processes : SafePipe(piper[p]) => SafePipe(piper'[p])

LEMMA LoadsLeftApart ==
    ASSUME SynthesisTypes, LoadsApart, LoadsLeft
    PROVE  LoadsApart'
<1>1. ASSUME NEW t \in PiperThreads, NEW m \in Managers
      PROVE  mgr'[m].lock = t <=> LoadsAt(does'[t]) /\ does'[t].mgr = m
  BY DEF LoadsApart, LoadsLeft, SameLoad
<1>2. ASSUME NEW t \in PiperThreads, LoadsAt(does'[t])
      PROVE  /\ mgr'[does'[t].mgr].proc # 0
             /\ \A u \in PiperThreads : does'[u].pc = "ending" => does'[u].proc # mgr'[does'[t].mgr].proc
             /\ Intact' => SafePipe(piper'[mgr'[does'[t].mgr].proc])
  <2>1. LoadsAt(does[t]) /\ does'[t].mgr = does[t].mgr
    BY <1>2 DEF LoadsLeft, SameLoad
  <2>2. does[t].mgr \in Managers
    BY <2>1, LoadManager DEF LoadsAt, WithManager, Asked
  <2> DEFINE p == mgr[does[t].mgr].proc
  <2>3. mgr'[does'[t].mgr].proc = p
    BY <2>1, <2>2 DEF LoadsLeft
  <2>4. p # 0 /\ p \in Processes
    BY <2>1, <2>2, PlainTypes DEF LoadsApart
  <2>5. \A u \in PiperThreads : does[u].pc = "ending" => does[u].proc # p
    BY <2>1 DEF LoadsApart
  <2>6. Intact' => SafePipe(piper'[p])
    BY <2>1, <2>4 DEF LoadsApart, LoadsLeft
  <2> HIDE DEF p
  <2>7. \A u \in PiperThreads : does'[u].pc = "ending" => does'[u].proc # p
    BY <2>5 DEF LoadsLeft, SameLoad
  <2>. QED  BY <2>3, <2>4, <2>6, <2>7
<1>3. \A t \in PiperThreads : does'[t].pc = "ending" => does'[t].proc <= budget'.spawned
  BY DEF LoadsApart, LoadsLeft, SameLoad
<1>. QED  BY <1>1, <1>2, <1>3 DEF LoadsApart

(* What leaves the voices alone. *)
SameStage(u, d, e) ==
    /\ u \notin Beats => /\ e.pc \in LoadPcs => d.pc \in LoadPcs
                         /\ e.pc \in UndoPcs => d.pc \in UndoPcs
                         /\ e.pc \in BeatPcs => d.pc \in BeatPcs
    /\ u \in Beats => e.pc \notin {"failed", "ended"}
    /\ e.mgr <= engine.made
    /\ Intact' => e.pc \notin FailPcs

SameEngine ==
    /\ engine'.made = engine.made /\ engine'.changes = engine.changes
    /\ engine'.manager = engine.manager /\ engine'.stopped = engine.stopped
    /\ engine'.loaded = engine.loaded /\ engine'.loader = engine.loader

VoicesLeft ==
    /\ SameEngine
    /\ \A m \in Managers : /\ mgr'[m].voice = mgr[m].voice
                           /\ m > engine.made => mgr'[m].proc = 0
    /\ \A u \in PiperThreads : SameStage(u, does[u], does'[u])
    /\ Intact' => Intact

LEMMA VoicesLeftApart ==
    ASSUME VoicesApart, VoicesLeft
    PROVE  VoicesApart'
<1>1. NoneCurrent' <=> NoneCurrent
  BY DEF NoneCurrent, VoicesLeft, SameEngine
<1> HIDE DEF NoneCurrent
<1>2. Beats' = Beats /\ PiperThreads' = PiperThreads /\ Managers' = Managers
  BY DEF Beats, PiperThreads, Managers, Speakers, Warmups, Beat, Work, Warm
<1>3. ASSUME NEW t \in PiperThreads \ Beats
      PROVE  /\ does'[t].pc \notin BeatPcs
             /\ does'[t].pc \in LoadPcs => engine'.loader = t
             /\ t # Control /\ does'[t].pc \in UndoPcs => engine'.loader = t /\ NoneCurrent'
  <2>1. SameStage(t, does[t], does'[t]) /\ engine'.loader = engine.loader
    BY DEF VoicesLeft, SameEngine
  <2>. QED  BY <1>1, <2>1 DEF VoicesApart, SameStage
<1>4. \A t \in Beats : does'[t].pc \notin {"failed", "ended"}
  BY ThreadsApart DEF VoicesLeft, SameStage
<1>5. /\ \A t \in PiperThreads : does'[t].mgr <= engine'.made
      /\ engine'.manager <= engine'.made
      /\ \A m \in Managers : /\ m <= engine'.made => mgr'[m].voice <= engine'.changes
                             /\ m > engine'.made => mgr'[m].proc = 0
  BY DEF VoicesLeft, SameEngine, VoicesApart, SameStage
<1>6. engine'.stopped => NoneCurrent'
  BY <1>1 DEF VoicesLeft, SameEngine, VoicesApart
<1>7. Intact' => /\ \A t \in PiperThreads : does'[t].pc \notin FailPcs
                 /\ \A m, n \in Managers : m <= engine'.made /\ n <= engine'.made
                                             /\ mgr'[m].voice = mgr'[n].voice => m = n
                 /\ ~NoneCurrent' => engine'.loaded \/ engine'.loader # Unlocked
  BY <1>1 DEF VoicesLeft, SameEngine, VoicesApart, SameStage
<1>. QED  BY <1>3, <1>4, <1>5, <1>6, <1>7 DEF VoicesApart

(* A thread that comes to another point. *)
LEMMA Enters ==
    ASSUME SynthesisTypes, NEW t \in PiperThreads, NEW c, does' = [does EXCEPT ![t].pc = c]
    PROVE  /\ does'[t].pc = c /\ does'[t].mgr = does[t].mgr /\ does'[t].proc = does[t].proc
           /\ \A u \in PiperThreads \ {t} : does'[u] = does[u]
<1>1. does \in [PiperThreads -> DoesRecord] /\ does[t] \in DoesRecord
  BY DEF SynthesisTypes
<1>2. does' = [does EXCEPT ![t] = [does[t] EXCEPT !.pc = c]]
  BY <1>1
<1>3. does'[t] = [does[t] EXCEPT !.pc = c] /\ \A u \in PiperThreads \ {t} : does'[u] = does[u]
  BY <1>1, <1>2
<1>. QED  BY <1>1, <1>3 DEF DoesRecord

(* A command that is no order to end leaves none in the pipe. *)
LEMMA NoOrderAdded ==
    ASSUME NEW s \in Seq(Commands), NEW x \in Heard, \A i \in 1 .. Len(s) : s[i] # Shutdown
    PROVE  \A i \in 1 .. Len(Append(s, x)) : Append(s, x)[i] # Shutdown
<1>1. x # Shutdown /\ x \in Commands
  BY SynthesisBounds DEF Heard, Shutdown, Commands
<1>2. /\ Len(Append(s, x)) = Len(s) + 1 /\ Append(s, x)[Len(s) + 1] = x
      /\ \A i \in 1 .. Len(s) : Append(s, x)[i] = s[i]
      /\ Len(s) \in Nat
  BY <1>1, AppendProperties
<1> DEFINE q == Append(s, x)
<1> HIDE DEF q
<1>3. /\ Len(q) = Len(s) + 1 /\ q[Len(s) + 1] = x
      /\ \A i \in 1 .. Len(s) : q[i] = s[i]
  BY <1>2 DEF q
<1>4. ASSUME NEW i \in 1 .. Len(q) PROVE q[i] # Shutdown
  <2>1. i = Len(s) + 1 \/ i \in 1 .. Len(s)
    BY <1>2, <1>3
  <2>. QED  BY <1>1, <1>3, <2>1
<1>. QED  BY <1>4 DEF q

(* A step of one thread leaves alone what it leaves alone for that thread. *)
LEMMA OneSame ==
    ASSUME SynthesisTypes, VoicesApart, NEW t \in PiperThreads, Intact' => Intact,
           \A u \in PiperThreads \ {t} : does'[u] = does[u]
    PROVE  /\ SameLoad(does[t], does'[t]) => \A u \in PiperThreads : SameLoad(does[u], does'[u])
           /\ SameStage(t, does[t], does'[t]) => \A u \in PiperThreads : SameStage(u, does[u], does'[u])
<1>1. ASSUME NEW u \in PiperThreads \ {t} PROVE SameLoad(does[u], does'[u])
  BY DEF SameLoad
<1>2. ASSUME NEW u \in PiperThreads \ {t} PROVE SameStage(u, does[u], does'[u])
  BY DEF SameStage, VoicesApart
<1>. QED  BY <1>1, <1>2

(* A step that leaves the managers' locks and subprocesses, the counters and the pipes. *)
LEMMA OnlyPcs ==
    ASSUME SynthesisTypes, LoadsApart, VoicesApart, NEW t \in PiperThreads,
           \A u \in PiperThreads \ {t} : does'[u] = does[u],
           SameLoad(does[t], does'[t]), SameStage(t, does[t], does'[t]), SameEngine,
           \A m \in Managers : mgr'[m].lock = mgr[m].lock /\ mgr'[m].proc = mgr[m].proc
                               /\ mgr'[m].voice = mgr[m].voice,
           budget'.spawned = budget.spawned, Intact' => Intact,
           Intact' => \A p \in Processes : SafePipe(piper[p]) => SafePipe(piper'[p])
    PROVE  LoadsApart' /\ VoicesApart'
<1>1. LoadsLeft
  BY OneSame DEF LoadsLeft
<1>2. VoicesLeft
  BY OneSame DEF VoicesLeft, VoicesApart
<1>. QED  BY <1>1, <1>2, LoadsLeftApart, VoicesLeftApart

-----------------------------------------------------------------------------
(* The steps. *)
LEMMA JoinsApart ==
    ASSUME SynthesisTypes, LoadsApart, VoicesApart, NEW t \in PiperThreads, Joins(t)
    PROVE  LoadsApart' /\ VoicesApart'
<1> DEFINE m == does[t].mgr
<1>1. /\ does[t].pc = "join" /\ does' = [does EXCEPT ![t].pc = "halt"]
      /\ mgr' = [mgr EXCEPT ![m].handle = FALSE] /\ UNCHANGED <<engine, piper, budget, spoken>>
  BY DEF Joins, Go, At
<1>2. m \in Managers
  BY <1>1, LoadManager DEF WithManager
<1>3. \A n \in Managers : mgr'[n].lock = mgr[n].lock /\ mgr'[n].proc = mgr[n].proc
                          /\ mgr'[n].voice = mgr[n].voice
  BY <1>1, <1>2 DEF SynthesisTypes, ManagerRecord
<1>4. /\ does'[t].pc = "halt" /\ does'[t].mgr = does[t].mgr
      /\ \A u \in PiperThreads \ {t} : does'[u] = does[u]
  BY <1>1, Enters
<1>5. SameLoad(does[t], does'[t]) /\ SameStage(t, does[t], does'[t])
  BY <1>1, <1>4 DEF SameLoad, LoadsAt, SameStage, LoadPcs, UndoPcs, BeatPcs, FailPcs, VoicesApart
<1>. QED  BY <1>1, <1>3, <1>4, <1>5, OnlyPcs DEF SameEngine, Intact

LEMMA UsesApart ==
    ASSUME SynthesisTypes, LoadsApart, VoicesApart, NEW t \in PiperThreads, Uses(t)
    PROVE  LoadsApart' /\ VoicesApart'
<1>1. PICK c \in {"speak", "idle"} : does' = [does EXCEPT ![t].pc = c, ![t].mgr = engine.manager]
  BY DEF Uses
<1>2. does[t].pc = "use" /\ UNCHANGED <<engine, mgr, piper, budget, spoken>>
  BY DEF Uses, At
<1>3. engine.manager \in 0 .. MaxManagers /\ c \in PiperPcs
  BY DEF SynthesisTypes, EngineRecord, PiperPcs, WithManager
<1>4. /\ does'[t].pc = c /\ does'[t].mgr = engine.manager
      /\ \A u \in PiperThreads \ {t} : does'[u] = does[u]
  <2>1. PICK m \in 0 .. MaxManagers : m = engine.manager
    BY <1>3
  <2>2. does' = [does EXCEPT ![t].pc = c, ![t].mgr = m]
    BY <1>1, <2>1
  <2>3. c \in PiperPcs
    BY <1>3
  <2>4. does' = [does EXCEPT ![t] = [pc |-> c, mgr |-> m, proc |-> does[t].proc, text |-> does[t].text]]
    BY <2>2, <2>3, GoesWith
  <2>5. /\ does'[t].pc = c /\ does'[t].mgr = m
        /\ \A u \in PiperThreads \ {t} : does'[u] = does[u]
    BY <2>4 DEF SynthesisTypes
  <2>. QED  BY <2>1, <2>5
<1>5. SameLoad(does[t], does'[t]) /\ SameStage(t, does[t], does'[t])
  BY <1>2, <1>4 DEF SameLoad, LoadsAt, SameStage, LoadPcs, UndoPcs, BeatPcs, FailPcs, VoicesApart
<1>. QED  BY <1>2, <1>4, <1>5, OnlyPcs DEF SameEngine, Intact

LEMMA SynthesizeApart ==
    ASSUME SynthesisTypes, LoadsApart, VoicesApart, NEW w \in Workers, Synthesize(w)
    PROVE  LoadsApart' /\ VoicesApart'
<1> DEFINE t == Work(w)
<1>0. t \in PiperThreads /\ t \notin Beats
  BY ThreadsApart
<1>1. PICK c \in {"use", "lazy"} :
         does' = [does EXCEPT ![t].pc = c, ![t].text = engine.texts + 1]
  BY DEF Synthesize
<1>2. /\ does[t].pc = "idle" /\ engine' = [engine EXCEPT !.texts = @ + 1]
      /\ UNCHANGED <<mgr, piper, budget, spoken>>
  BY DEF Synthesize, At
<1>3. does \in [PiperThreads -> DoesRecord] /\ does[t] \in DoesRecord /\ engine \in EngineRecord
  BY <1>0 DEF SynthesisTypes
<1> HIDE DEF t
<1>4. /\ does'[t].pc = c /\ does'[t].mgr = does[t].mgr
      /\ \A u \in PiperThreads \ {t} : does'[u] = does[u]
  BY <1>0, <1>1, <1>3 DEF DoesRecord
<1>5. SameLoad(does[t], does'[t]) /\ SameStage(t, does[t], does'[t])
  BY <1>0, <1>2, <1>4 DEF SameLoad, LoadsAt, SameStage, LoadPcs, UndoPcs, BeatPcs, FailPcs, VoicesApart
<1>6. SameEngine
  BY <1>2, <1>3 DEF SameEngine, EngineRecord
<1>. QED  BY <1>0, <1>2, <1>4, <1>5, <1>6, OnlyPcs DEF Intact

LEMMA BeatApart ==
    ASSUME SynthesisTypes, LoadsApart, VoicesApart, NEW m \in Managers, BeatEnds(m) \/ BeatAsks(m)
    PROVE  LoadsApart' /\ VoicesApart'
<1> DEFINE t == Beat(m)
<1>0. t \in PiperThreads /\ t \in Beats
  BY ThreadsApart
<1>1. PICK c \in {"gone", "ping", "restart"} : does' = [does EXCEPT ![t].pc = c]
  BY DEF BeatEnds, BeatAsks, Go
<1>2. does[t].pc = "wait" /\ UNCHANGED <<engine, mgr, piper, spoken>>
  BY DEF BeatEnds, BeatAsks, At
<1>3. /\ budget'.spawned = budget.spawned /\ budget'.crashes = budget.crashes
      /\ budget'.late = budget.late
  BY DEF BeatEnds, BeatAsks, SynthesisTypes, BudgetRecord
<1> HIDE DEF t
<1>4. /\ does'[t].pc = c /\ does'[t].mgr = does[t].mgr
      /\ \A u \in PiperThreads \ {t} : does'[u] = does[u]
  BY <1>0, <1>1, Enters
<1>5. SameLoad(does[t], does'[t]) /\ SameStage(t, does[t], does'[t])
  BY <1>0, <1>2, <1>4 DEF SameLoad, LoadsAt, SameStage, FailPcs, VoicesApart
<1>. QED  BY <1>0, <1>2, <1>3, <1>4, <1>5, OnlyPcs DEF SameEngine, Intact

LEMMA SendsApart ==
    ASSUME SynthesisTypes, LoadsApart, VoicesApart, NEW t \in PiperThreads, Sends(t)
    PROVE  LoadsApart' /\ VoicesApart'
<1> DEFINE m == does[t].mgr
           p == mgr[m].proc
<1>1. /\ does[t].pc \in {"load", "ping", "speak"} /\ Breathing(p)
      /\ mgr' = [mgr EXCEPT ![m].talk = t] /\ UNCHANGED <<engine, budget, spoken>>
      /\ does' = [does EXCEPT ![t].pc = Waiting[@], ![t].proc = p]
  BY DEF Sends, Owned, Waiting
<1>2. m \in Managers /\ m \in 0 .. MaxManagers /\ p \in Processes
  <2>1. m \in Managers
    BY <1>1, LoadManager DEF WithManager
  <2>. QED  BY <1>1, <2>1, PlainTypes DEF SynthesisTypes, DoesRecord, Breathing
<1>3. PICK x \in Heard : piper' = [piper EXCEPT ![p].inbox = Append(@, x)]
  <2>1. does[t].text \in Heard /\ NoAudio \in Heard
    BY SynthesisBounds DEF SynthesisTypes, DoesRecord, Heard, NoAudio
  <2>. QED  BY <2>1 DEF Sends, Owned
<1>4. \A n \in Managers : mgr'[n].lock = mgr[n].lock /\ mgr'[n].proc = mgr[n].proc
                          /\ mgr'[n].voice = mgr[n].voice
  BY <1>1, <1>2 DEF SynthesisTypes, ManagerRecord
<1>5. \A q \in Processes : SafePipe(piper[q]) => SafePipe(piper'[q])
  <2>1. /\ piper'[p].up = piper[p].up /\ piper'[p].inbox = Append(piper[p].inbox, x)
        /\ \A q \in Processes \ {p} : piper'[q] = piper[q]
        /\ piper[p].inbox \in Seq(Commands)
    BY <1>2, <1>3 DEF SynthesisTypes, PipeRecord
  <2>2. SafePipe(piper[p]) => SafePipe(piper'[p])
    <3>1. ASSUME SafePipe(piper[p])
          PROVE  \A i \in 1 .. Len(piper'[p].inbox) : piper'[p].inbox[i] # Shutdown
      <4> DEFINE s == piper[p].inbox
      <4>1. s \in Seq(Commands) /\ \A i \in 1 .. Len(s) : s[i] # Shutdown
        BY <2>1, <3>1 DEF SafePipe
      <4> HIDE DEF s
      <4>2. \A i \in 1 .. Len(Append(s, x)) : Append(s, x)[i] # Shutdown
        BY <4>1, NoOrderAdded
      <4>3. piper'[p].inbox = Append(s, x)
        BY <2>1 DEF s
      <4>. QED  BY <4>2, <4>3, Zenon
    <3>. QED  BY <2>1, <3>1 DEF SafePipe
  <2>. QED  BY <2>1, <2>2 DEF SafePipe
<1>6. PICK c \in {"loading", "pinging", "speaking"} :
         /\ does' = [does EXCEPT ![t].pc = c, ![t].proc = p]
         /\ c = "loading" <=> does[t].pc = "load"
         /\ c = "pinging" <=> does[t].pc = "ping"
  <2>1. Waiting[does[t].pc] \in {"loading", "pinging", "speaking"}
    BY <1>1 DEF Waiting
  <2>2. /\ Waiting[does[t].pc] = "loading" <=> does[t].pc = "load"
        /\ Waiting[does[t].pc] = "pinging" <=> does[t].pc = "ping"
    BY <1>1 DEF Waiting
  <2>3. does' = [does EXCEPT ![t].pc = Waiting[does[t].pc], ![t].proc = p]
    BY <1>1 DEF SynthesisTypes
  <2>. QED  BY <2>1, <2>2, <2>3
<1>7. /\ does'[t].pc = c /\ does'[t].mgr = does[t].mgr
      /\ \A u \in PiperThreads \ {t} : does'[u] = does[u]
  <2>1. does \in [PiperThreads -> DoesRecord] /\ does[t] \in DoesRecord
    BY DEF SynthesisTypes
  <2> HIDE DEF m, p
  <2>. QED  BY <1>6, <2>1 DEF DoesRecord
<1>8. SameLoad(does[t], does'[t]) /\ SameStage(t, does[t], does'[t])
  BY <1>1, <1>6, <1>7 DEF SameLoad, LoadsAt, SameStage, LoadPcs, UndoPcs, BeatPcs, FailPcs, VoicesApart
<1>. QED  BY <1>1, <1>4, <1>5, <1>7, <1>8, OnlyPcs DEF SameEngine, Intact

(* A load that is over, well or badly; badly only where something breaks. *)
LEMMA LoadOverApart ==
    ASSUME SynthesisTypes, LoadsApart, VoicesApart, NEW t \in PiperThreads, NEW ok \in BOOLEAN,
           does[t].pc \in {"load", "loading"}, LoadOver(t, ok), SameEngine,
           budget'.spawned = budget.spawned, Intact' => Intact /\ ok,
           \A p \in Processes : SafePipe(piper[p]) => SafePipe(piper'[p])
    PROVE  LoadsApart' /\ VoicesApart'
<1> DEFINE m == does[t].mgr
<1>1. m \in Managers /\ LoadsAt(does[t]) /\ mgr[m].lock = t
  BY LoadManager DEF WithManager, Asked, LoadsAt, LoadsApart
<1>2. /\ does'[t].pc \in {"wait", "loaded", "failed"} /\ does'[t].mgr = m
      /\ mgr'[m].lock = Unlocked
      /\ \A n \in Managers : /\ mgr'[n].proc = mgr[n].proc /\ mgr'[n].voice = mgr[n].voice
                             /\ n # m => mgr'[n].lock = mgr[n].lock
  BY DEF LoadOver
<1>3. ASSUME NEW u \in PiperThreads
      PROVE  /\ LoadsAt(does'[u]) <=> LoadsAt(does[u]) /\ u # t
             /\ LoadsAt(does[u]) => does'[u].mgr = does[u].mgr
             /\ does'[u].pc = "ending" => does[u].pc = "ending" /\ does'[u].proc = does[u].proc
  <2>1. CASE u = t
    BY <1>1, <1>2, <2>1 DEF LoadsAt
  <2>2. CASE u # t
    BY <2>2 DEF LoadOver, LoadsAt
  <2>. QED  BY <2>1, <2>2
<1>4. ASSUME NEW u \in PiperThreads \ {t}, LoadsAt(does[u]) PROVE does[u].mgr # m
  BY <1>1, <1>4 DEF LoadsApart
<1>5. ASSUME NEW u \in PiperThreads, NEW n \in Managers
      PROVE  mgr'[n].lock = u <=> LoadsAt(does'[u]) /\ does'[u].mgr = n
  <2>1. CASE n = m
    <3>1. mgr'[n].lock # u
      BY <1>2, <2>1, ThreadsApart
    <3>2. ~(LoadsAt(does'[u]) /\ does'[u].mgr = m)
      BY <1>3, <1>4
    <3>. QED  BY <2>1, <3>1, <3>2
  <2>2. CASE n # m
    <3>1. mgr'[n].lock = u <=> LoadsAt(does[u]) /\ does[u].mgr = n
      BY <1>2, <2>2 DEF LoadsApart
    <3>. QED  BY <1>3, <2>2, <3>1
  <2>. QED  BY <2>1, <2>2
<1>6. ASSUME NEW u \in PiperThreads, LoadsAt(does'[u])
      PROVE  /\ mgr'[does'[u].mgr].proc # 0
             /\ \A v \in PiperThreads : does'[v].pc = "ending" => does'[v].proc # mgr'[does'[u].mgr].proc
             /\ Intact' => SafePipe(piper'[mgr'[does'[u].mgr].proc])
  <2>1. LoadsAt(does[u]) /\ does'[u].mgr = does[u].mgr
    BY <1>3, <1>6
  <2>2. does[u].mgr \in Managers
    BY <2>1, LoadManager DEF LoadsAt, WithManager, Asked
  <2> DEFINE q == mgr[does[u].mgr].proc
  <2>3. mgr'[does'[u].mgr].proc = q
    BY <1>2, <2>1, <2>2
  <2>4. q # 0 /\ q \in Processes /\ (\A v \in PiperThreads : does[v].pc = "ending" => does[v].proc # q)
    BY <2>1, <2>2, PlainTypes DEF LoadsApart
  <2>5. Intact' => SafePipe(piper'[q])
    BY <2>1, <2>4 DEF LoadsApart
  <2> HIDE DEF q
  <2>6. \A v \in PiperThreads : does'[v].pc = "ending" => does'[v].proc # q
    BY <1>3, <2>4
  <2>. QED  BY <2>3, <2>4, <2>5, <2>6
<1>7. LoadsApart'
  <2>1. \A u \in PiperThreads : does'[u].pc = "ending" => does'[u].proc <= budget'.spawned
    BY <1>3 DEF LoadsApart
  <2>. QED  BY <1>5, <1>6, <2>1 DEF LoadsApart
<1>8. ASSUME NEW u \in PiperThreads PROVE SameStage(u, does[u], does'[u])
  <2>1. CASE u = t
    <3>1. /\ u \notin Beats => does'[u].pc \in LoadPcs /\ does[u].pc \in LoadPcs
          /\ u \in Beats => does'[u].pc = "wait"
          /\ Intact' => does'[u].pc # "failed"
      BY <2>1 DEF LoadOver, LoadPcs
    <3>2. does'[u].pc \in {"wait", "loaded", "failed"} /\ does'[u].mgr <= engine.made
      BY <1>2, <2>1 DEF VoicesApart
    <3>. QED  BY <2>1, <3>1, <3>2 DEF SameStage, LoadPcs, UndoPcs, BeatPcs, FailPcs
  <2>2. CASE u # t
    <3>1. m <= engine.made /\ does[u].mgr <= engine.made
      BY DEF VoicesApart
    <3>2. CASE does'[u] = does[u]
      BY <3>1, <3>2 DEF SameStage, VoicesApart
    <3>3. CASE u \in Beats /\ does'[u].mgr = m /\ does'[u].pc \in {does[u].pc, "wait"}
      BY <3>1, <3>3 DEF SameStage, VoicesApart, FailPcs
    <3>. QED  BY <2>2, <3>2, <3>3 DEF LoadOver
  <2>. QED  BY <2>1, <2>2
<1>9. VoicesLeft
  BY <1>2, <1>8 DEF VoicesLeft, VoicesApart
<1>. QED  BY <1>7, <1>9, VoicesLeftApart

LEMMA PingedApart ==
    ASSUME SynthesisTypes, LoadsApart, VoicesApart, NEW t \in PiperThreads, NEW ok \in BOOLEAN,
           does[t].pc \in {"ping", "pinging"}, Pinged(t, ok), SameEngine,
           budget'.spawned = budget.spawned, Intact' => Intact,
           \A p \in Processes : SafePipe(piper[p]) => SafePipe(piper'[p])
    PROVE  LoadsApart' /\ VoicesApart'
<1>1. does[t].mgr \in Managers
  BY LoadManager DEF WithManager, Asked
<1>2. PICK c \in {"wait", "restart"} : does' = [does EXCEPT ![t].pc = c]
  BY DEF Pinged
<1>3. /\ does'[t].pc = c /\ does'[t].mgr = does[t].mgr
      /\ \A u \in PiperThreads \ {t} : does'[u] = does[u]
  BY <1>2, Enters
<1>4. \A n \in Managers : mgr'[n].lock = mgr[n].lock /\ mgr'[n].proc = mgr[n].proc
                          /\ mgr'[n].voice = mgr[n].voice
  BY <1>1 DEF Pinged, SynthesisTypes, ManagerRecord
<1>5. SameLoad(does[t], does'[t]) /\ SameStage(t, does[t], does'[t])
  BY <1>2, <1>3 DEF SameLoad, LoadsAt, SameStage, LoadPcs, UndoPcs, BeatPcs, FailPcs, VoicesApart
<1>. QED  BY <1>3, <1>4, <1>5, OnlyPcs

LEMMA SpokeApart ==
    ASSUME SynthesisTypes, LoadsApart, VoicesApart, NEW t \in PiperThreads, NEW a,
           does[t].pc \in {"speak", "speaking"}, Spoke(t, a), SameEngine,
           budget'.spawned = budget.spawned, Intact' => Intact,
           \A p \in Processes : SafePipe(piper[p]) => SafePipe(piper'[p])
    PROVE  LoadsApart' /\ VoicesApart'
<1>1. does[t].mgr \in Managers
  BY LoadManager DEF WithManager, Asked
<1>2. does' = [does EXCEPT ![t] = [pc |-> "idle", mgr |-> 0, proc |-> 0, text |-> 0]]
  BY DEF Spoke
<1>3. /\ does'[t].pc = "idle" /\ does'[t].mgr = 0
      /\ \A u \in PiperThreads \ {t} : does'[u] = does[u]
  BY <1>2 DEF SynthesisTypes
<1>4. \A n \in Managers : mgr'[n].lock = mgr[n].lock /\ mgr'[n].proc = mgr[n].proc
                          /\ mgr'[n].voice = mgr[n].voice
  BY <1>1 DEF Spoke, SynthesisTypes, ManagerRecord
<1>5. 0 <= engine.made
  BY PlainTypes
<1>6. SameLoad(does[t], does'[t]) /\ SameStage(t, does[t], does'[t])
  BY <1>3, <1>5 DEF SameLoad, LoadsAt, SameStage, LoadPcs, UndoPcs, BeatPcs, FailPcs
<1>. QED  BY <1>3, <1>4, <1>6, OnlyPcs

(* A command that could not be sent, and an answer. *)
LEMMA CannotSendApart ==
    ASSUME SynthesisTypes, LoadsApart, VoicesApart, NEW t \in PiperThreads, CannotSend(t)
    PROVE  LoadsApart' /\ VoicesApart'
<1>1. UNCHANGED <<engine, piper, budget>> /\ does[t].pc \in {"load", "ping", "speak"}
      /\ ~Breathing(mgr[does[t].mgr].proc)
  BY DEF CannotSend, Waiting, Owned
<1>2. SameEngine /\ budget'.spawned = budget.spawned /\ (Intact' => Intact)
      /\ \A p \in Processes : SafePipe(piper[p]) => SafePipe(piper'[p])
  BY <1>1 DEF SameEngine, Intact
<1>3. CASE does[t].pc = "load"
  <2>1. LoadEnds(t, FALSE)
    BY <1>3 DEF CannotSend, At
  <2>2. LoadOver(t, FALSE)
    BY <1>1, <1>3, <2>1, LoadEndsIs
  <2>3. ~Intact
    BY <1>1, <1>3 DEF LoadsApart, LoadsAt, SafePipe, Breathing
  <2>. QED  BY <1>2, <1>3, <2>2, <2>3, LoadOverApart
<1>4. CASE does[t].pc = "ping"
  <2>1. Pinged(t, FALSE)
    BY <1>4 DEF CannotSend, At
  <2>. QED  BY <1>2, <1>4, <2>1, PingedApart
<1>5. CASE does[t].pc = "speak"
  <2>1. Spoke(t, NoAudio)
    BY <1>5 DEF CannotSend, At
  <2>. QED  BY <1>2, <1>5, <2>1, SpokeApart
<1>. QED  BY <1>1, <1>3, <1>4, <1>5

LEMMA ReceivesApart ==
    ASSUME SynthesisTypes, LoadsApart, VoicesApart, NEW t \in PiperThreads, NEW a,
           does[t].pc \in {"loading", "pinging", "speaking"}, Receives(t, a), engine' = engine,
           budget'.spawned = budget.spawned, Intact' => Intact,
           does[t].pc = "loading" /\ Intact' => a # <<>>,
           \A p \in Processes : SafePipe(piper[p]) => SafePipe(piper'[p])
    PROVE  LoadsApart' /\ VoicesApart'
<1>1. SameEngine
  BY DEF SameEngine
<1>2. CASE does[t].pc = "loading"
  <2>1. PICK ok \in BOOLEAN : LoadEnds(t, ok) /\ (Intact' => ok)
    <3>1. LoadEnds(t, a # <<>>) \/ (LoadsFail /\ LoadEnds(t, FALSE))
      BY <1>2 DEF Receives, At
    <3>2. CASE LoadEnds(t, a # <<>>)
      <4>1. CASE a # <<>>
        <5>1. (a # <<>>) = TRUE
          BY <4>1
        <5>2. LoadEnds(t, TRUE)
          BY <3>2, <5>1, Zenon
        <5>. QED  BY <5>2
      <4>2. CASE a = <<>>
        <5>1. (a # <<>>) = FALSE /\ ~Intact'
          BY <1>2, <4>2
        <5>2. LoadEnds(t, FALSE)
          BY <3>2, <5>1, Zenon
        <5>. QED  BY <5>1, <5>2
      <4>. QED  BY <4>1, <4>2
    <3>3. CASE LoadsFail /\ LoadEnds(t, FALSE)
      BY <3>3 DEF Intact
    <3>. QED  BY <3>1, <3>2, <3>3
  <2>2. LoadOver(t, ok)
    BY <1>2, <2>1, LoadEndsIs
  <2>. QED  BY <1>1, <1>2, <2>1, <2>2, LoadOverApart
<1>3. CASE does[t].pc = "pinging"
  <2>1. PICK ok \in BOOLEAN : Pinged(t, ok)
    BY <1>3 DEF Receives, At
  <2>. QED  BY <1>1, <1>3, <2>1, PingedApart
<1>4. CASE does[t].pc = "speaking"
  <2>1. \E x : Spoke(t, x)
    BY <1>4 DEF Receives, At
  <2>. QED  BY <1>1, <1>4, <2>1, SpokeApart
<1>. QED  BY <1>2, <1>3, <1>4

LEMMA ReadsApart ==
    ASSUME SynthesisTypes, LoadsApart, VoicesApart, NEW t \in PiperThreads, Reads(t)
    PROVE  LoadsApart' /\ VoicesApart'
<1> DEFINE q == mgr[does[t].mgr].proc
<1>1. UNCHANGED <<engine, budget>> /\ does[t].pc \in {"loading", "pinging", "speaking"}
  BY DEF Reads
<1>2. budget'.spawned = budget.spawned /\ (Intact' => Intact)
  BY <1>1 DEF Intact
<1>3. CASE q # 0 /\ piper[q].outbox # <<>>
  <2>1. PICK a : /\ a = <<Head(piper[q].outbox)>> /\ Receives(t, a)
                 /\ piper' = [piper EXCEPT ![q].outbox = Tail(@)]
    BY <1>3 DEF Reads, Owned
  <2>2. \A p \in Processes : SafePipe(piper[p]) => SafePipe(piper'[p])
    <3>1. \A p \in Processes : piper'[p].up = piper[p].up /\ piper'[p].inbox = piper[p].inbox
      BY <2>1 DEF SynthesisTypes, PipeRecord
    <3>. QED  BY <3>1 DEF SafePipe
  <2>3. a # <<>> /\ Receives(t, a)
    BY <2>1
  <2>4. engine' = engine /\ does[t].pc \in {"loading", "pinging", "speaking"}
    BY <1>1
  <2>. QED  BY <1>2, <2>2, <2>3, <2>4, ReceivesApart
<1>4. CASE ~(q # 0 /\ piper[q].outbox # <<>>)
  <2>1. ~Breathing(q) /\ Receives(t, <<>>) /\ piper' = piper
    BY <1>4 DEF Reads, Owned
  <2>2. does[t].pc = "loading" => ~Intact
    BY <2>1 DEF LoadsApart, LoadsAt, SafePipe, Breathing
  <2>. QED  BY <1>1, <1>2, <2>1, <2>2, ReceivesApart
<1>. QED  BY <1>3, <1>4

LEMMA AnswerTimesOutApart ==
    ASSUME SynthesisTypes, LoadsApart, VoicesApart, NEW t \in PiperThreads, AnswerTimesOut(t)
    PROVE  LoadsApart' /\ VoicesApart'
<1>1. /\ budget' = [budget EXCEPT !.late = @ + 1] /\ Receives(t, <<>>) /\ UNCHANGED <<engine, piper>>
      /\ does[t].pc \in {"loading", "pinging", "speaking"}
  BY DEF AnswerTimesOut
<1>2. budget \in BudgetRecord
  BY DEF SynthesisTypes
<1>3. budget'.spawned = budget.spawned /\ budget'.late = budget.late + 1
  BY <1>1, <1>2 DEF BudgetRecord
<1>4. ~Intact'
  <2>1. budget'.late # 0
    BY <1>3, PlainTypes
  <2>. QED  BY <2>1 DEF Intact
<1>. QED  BY <1>1, <1>3, <1>4, ReceivesApart

(* The subprocess itself. *)
LEMMA AnswersApart ==
    ASSUME SynthesisTypes, LoadsApart, VoicesApart, NEW p \in Processes, Answers(p)
    PROVE  LoadsApart' /\ VoicesApart'
<1> DEFINE r == piper[p]
<1>1. /\ r.up /\ r.inbox # <<>> /\ UNCHANGED <<engine, mgr, does, budget, spoken>>
      /\ \A q \in Processes \ {p} : piper'[q] = piper[q]
      /\ piper'[p].up = (Head(r.inbox) # Shutdown) /\ piper'[p].inbox = Tail(r.inbox)
      /\ r.inbox \in Seq(Commands)
  BY DEF Answers, SynthesisTypes, PipeRecord
<1>2. SafePipe(r) => SafePipe(piper'[p])
  <2> SUFFICES ASSUME SafePipe(r) PROVE SafePipe(piper'[p])
    OBVIOUS
  <2> DEFINE s == r.inbox
  <2>1. /\ s \in Seq(Commands) /\ s # <<>> /\ (\A i \in 1 .. Len(s) : s[i] # Shutdown)
        /\ piper'[p].inbox = Tail(s) /\ piper'[p].up = (Head(s) # Shutdown)
    BY <1>1 DEF SafePipe
  <2> HIDE DEF s, r
  <2>2. Head(s) = s[1] /\ Len(s) >= 1 /\ Len(s) \in Nat /\ Len(Tail(s)) = Len(s) - 1
        /\ \A i \in 1 .. Len(s) - 1 : Tail(s)[i] = s[i + 1]
    BY <2>1
  <2>3. Head(s) # Shutdown
    BY <2>1, <2>2
  <2>4. ASSUME NEW i \in 1 .. Len(Tail(s)) PROVE Tail(s)[i] # Shutdown
    <3>1. i + 1 \in 1 .. Len(s) /\ i \in 1 .. Len(s) - 1
      BY <2>2
    <3>. QED  BY <2>1, <2>2, <3>1
  <2>5. \A i \in 1 .. Len(piper'[p].inbox) : piper'[p].inbox[i] # Shutdown
    BY <2>1, <2>4, Zenon
  <2>. QED  BY <2>1, <2>3, <2>5 DEF SafePipe
<1>3. \A q \in Processes : SafePipe(piper[q]) => SafePipe(piper'[q])
  BY <1>1, <1>2 DEF SafePipe
<1>4. LoadsLeft
  BY <1>1, <1>3 DEF LoadsLeft, SameLoad, Intact
<1>5. VoicesLeft
  BY <1>1 DEF VoicesLeft, SameEngine, SameStage, Intact, VoicesApart
<1>. QED  BY <1>4, <1>5, LoadsLeftApart, VoicesLeftApart

LEMMA DiesApart ==
    ASSUME SynthesisTypes, LoadsApart, VoicesApart, NEW p \in Processes, Dies(p)
    PROVE  LoadsApart' /\ VoicesApart'
<1>1. budget' = [budget EXCEPT !.crashes = @ + 1] /\ UNCHANGED <<engine, mgr, does, spoken>>
  BY DEF Dies
<1>2. budget \in BudgetRecord
  BY DEF SynthesisTypes
<1>3. budget'.spawned = budget.spawned /\ budget'.crashes = budget.crashes + 1
  BY <1>1, <1>2 DEF BudgetRecord
<1>4. ~Intact'
  <2>1. budget'.crashes # 0
    BY <1>3, PlainTypes
  <2>. QED  BY <2>1 DEF Intact
<1>5. LoadsLeft
  BY <1>1, <1>3, <1>4 DEF LoadsLeft, SameLoad
<1>6. VoicesLeft
  BY <1>1, <1>4 DEF VoicesLeft, SameEngine, SameStage, VoicesApart
<1>. QED  BY <1>5, <1>6, LoadsLeftApart, VoicesLeftApart

(* The start of a subprocess and its end. *)
LEMMA BootsApart ==
    ASSUME SynthesisTypes, OwnProcesses, LoadsApart, VoicesApart, NEW t \in PiperThreads, Boots(t)
    PROVE  LoadsApart' /\ VoicesApart'
<1> DEFINE m == does[t].mgr
           p == budget.spawned + 1
<1>1. /\ does[t].pc = "boot" /\ mgr[m].lock = Unlocked /\ p \in Processes
      /\ does' = [does EXCEPT ![t].pc = "load"] /\ UNCHANGED <<engine, spoken>>
  BY DEF Boots, At, Go
<1>2. m \in Managers /\ m <= engine.made
  BY <1>1, LoadManager DEF WithManager, VoicesApart
<1>3. /\ mgr'[m].proc = p /\ mgr'[m].lock = t /\ mgr'[m].voice = mgr[m].voice
      /\ \A n \in Managers \ {m} : mgr'[n] = mgr[n]
  <2>1. mgr' = [mgr EXCEPT ![m].proc = p, ![m].lock = t]
    BY DEF Boots
  <2>2. mgr \in [Managers -> ManagerRecord] /\ mgr[m] \in ManagerRecord
    BY <1>2 DEF SynthesisTypes
  <2> HIDE DEF m, p
  <2>. QED  BY <1>2, <2>1, <2>2 DEF ManagerRecord
<1>4. /\ piper'[p].up = TRUE /\ piper'[p].inbox = piper[p].inbox
      /\ \A q \in Processes \ {p} : piper'[q] = piper[q]
  BY <1>1 DEF Boots, SynthesisTypes, PipeRecord
<1>5. budget'.spawned = p /\ budget'.late = budget.late /\ budget'.crashes = budget.crashes
  BY DEF Boots, SynthesisTypes, BudgetRecord
<1>6. /\ does'[t].pc = "load" /\ does'[t].mgr = m
      /\ \A u \in PiperThreads \ {t} : does'[u] = does[u]
  BY <1>1, Enters
<1>7. /\ p # 0 /\ budget.spawned \in Nat /\ p > budget.spawned
      /\ \A n \in Managers : mgr[n].proc \in Nat /\ mgr[n].proc # p
      /\ \A u \in PiperThreads : does[u].pc = "ending" => does[u].proc # p
  BY PlainTypes DEF OwnProcesses, LoadsApart
<1>8. SafePipe(piper'[p])
  <2>1. piper[p].inbox = <<>>
    BY <1>1, <1>7 DEF OwnProcesses, Unborn
  <2>. QED  BY <1>4, <2>1 DEF SafePipe
<1> HIDE DEF m, p
<1>9. ASSUME NEW u \in PiperThreads, NEW n \in Managers
      PROVE  mgr'[n].lock = u <=> LoadsAt(does'[u]) /\ does'[u].mgr = n
  <2>0. mgr[n].lock = u <=> LoadsAt(does[u]) /\ does[u].mgr = n
    BY DEF LoadsApart
  <2>1. ~LoadsAt(does[t]) /\ LoadsAt(does'[t])
    BY <1>1, <1>6 DEF LoadsAt
  <2>2. Unlocked # u
    BY ThreadsApart
  <2>3. CASE u = t
    BY <1>3, <1>6, <2>0, <2>1, <2>3 DEF m
  <2>4. CASE u # t
    <3>1. does'[u] = does[u]
      BY <1>6, <2>4
    <3>2. CASE n = m
      BY <1>1, <1>3, <2>0, <2>2, <2>4, <3>1, <3>2
    <3>3. CASE n # m
      BY <1>3, <2>0, <3>1, <3>3
    <3>. QED  BY <3>2, <3>3
  <2>. QED  BY <2>3, <2>4
<1>10. \A u \in PiperThreads : does'[u].pc = "ending" => does[u].pc = "ending" /\ does'[u].proc = does[u].proc
  BY <1>6
<1>11. ASSUME NEW u \in PiperThreads, LoadsAt(does'[u])
       PROVE  /\ mgr'[does'[u].mgr].proc # 0
              /\ \A v \in PiperThreads : does'[v].pc = "ending" => does'[v].proc # mgr'[does'[u].mgr].proc
              /\ Intact' => SafePipe(piper'[mgr'[does'[u].mgr].proc])
  <2>1. CASE u = t
    BY <1>3, <1>6, <1>7, <1>8, <1>10, <2>1
  <2>2. CASE u # t
    <3>1. does'[u] = does[u] /\ LoadsAt(does[u])
      BY <1>6, <1>11, <2>2
    <3>2. does[u].mgr \in Managers
      BY <3>1, LoadManager DEF LoadsAt, WithManager, Asked
    <3>3. mgr[does[u].mgr].lock = u /\ u # Unlocked
      BY <3>1, <3>2, ThreadsApart DEF LoadsApart
    <3>4. mgr'[does[u].mgr] = mgr[does[u].mgr]
      BY <1>1, <1>3, <3>2, <3>3
    <3> DEFINE q == mgr[does[u].mgr].proc
    <3>5. q # 0 /\ (\A v \in PiperThreads : does[v].pc = "ending" => does[v].proc # q)
          /\ (Intact => SafePipe(piper[q]))
      BY <3>1 DEF LoadsApart
    <3>6. q \in Processes /\ q # p
      BY <1>7, <3>2, <3>5, PlainTypes
    <3>7. mgr'[does'[u].mgr].proc = q
      BY <3>1, <3>4
    <3> HIDE DEF q
    <3>8. Intact' => SafePipe(piper'[q])
      BY <1>4, <1>5, <3>5, <3>6 DEF Intact
    <3>. QED  BY <1>10, <3>5, <3>7, <3>8
  <2>. QED  BY <2>1, <2>2
<1>12. LoadsApart'
  <2>1. \A u \in PiperThreads : does'[u].pc = "ending" => does'[u].proc <= budget'.spawned
    <3>1. ASSUME NEW u \in PiperThreads, does[u].pc = "ending" PROVE does[u].proc <= p
      <4>1. does[u].proc <= budget.spawned /\ does[u].proc \in Nat
        BY <3>1, PlainTypes DEF LoadsApart
      <4>. QED  BY <4>1, <1>7 DEF p
    <3>. QED  BY <1>5, <1>10, <3>1
  <2>. QED  BY <1>9, <1>11, <2>1 DEF LoadsApart
<1>13. VoicesLeft
  <2>1. \A n \in Managers : mgr'[n].voice = mgr[n].voice /\ (n > engine.made => mgr'[n].proc = 0)
    <3>1. ASSUME NEW n \in Managers, n > engine.made PROVE n # m
      BY <1>2, <3>1, PlainTypes
    <3>. QED  BY <1>3, <3>1 DEF VoicesApart
  <2>2. Intact' => Intact
    BY <1>5 DEF Intact
  <2>3. SameStage(t, does[t], does'[t])
    BY <1>1, <1>2, <1>6 DEF SameStage, LoadPcs, UndoPcs, BeatPcs, FailPcs
  <2>. QED  BY <1>1, <1>6, <2>1, <2>2, <2>3, OneSame DEF VoicesLeft, SameEngine
<1>. QED  BY <1>12, <1>13, VoicesLeftApart

(* Where the end of a subprocess begins, and where it leads. *)
LEMMA EndStage ==
    ASSUME VoicesApart, NEW t \in PiperThreads, NEW c,
           does[t].pc \in {"halt", "restart", "ending"}, c \in {"ending", AfterEnd(t)},
           does'[t].pc = c, does'[t].mgr = does[t].mgr
    PROVE  SameStage(t, does[t], does'[t]) /\ c \in {"ending", "boot", "ended"}
<1>1. CASE t \in Beats
  BY <1>1 DEF AfterEnd, SameStage, VoicesApart, FailPcs
<1>2. CASE t \notin Beats
  <2>1. c \in {"ending", "ended"} /\ does[t].pc \in {"halt", "ending"}
    BY <1>2 DEF AfterEnd, VoicesApart, BeatPcs
  <2>. QED  BY <1>2, <2>1 DEF SameStage, VoicesApart, FailPcs, LoadPcs, UndoPcs, BeatPcs
<1>. QED  BY <1>1, <1>2

LEMMA BeginsEndApart ==
    ASSUME SynthesisTypes, OwnProcesses, LoadsApart, VoicesApart, NEW t \in PiperThreads, BeginsEnd(t)
    PROVE  LoadsApart' /\ VoicesApart'
<1> DEFINE m == does[t].mgr
           p == mgr[m].proc
<1>1. /\ does[t].pc \in {"halt", "restart"} /\ mgr[m].lock = Unlocked
      /\ UNCHANGED <<engine, mgr, budget, spoken>>
  BY DEF BeginsEnd
<1>2. m \in Managers
  BY <1>1, LoadManager DEF WithManager
<1>3. CASE p = 0
  <2>1. does' = [does EXCEPT ![t].pc = AfterEnd(t)] /\ UNCHANGED piper
    BY <1>3 DEF BeginsEnd, Go
  <2>2. /\ does'[t].pc = AfterEnd(t) /\ does'[t].mgr = does[t].mgr
        /\ \A u \in PiperThreads \ {t} : does'[u] = does[u]
    BY <2>1, Enters
  <2>3. SameStage(t, does[t], does'[t])
    BY <1>1, <2>2, EndStage
  <2>4. SameLoad(does[t], does'[t])
    BY <1>1, <2>2 DEF SameLoad, LoadsAt, AfterEnd
  <2>. QED  BY <1>1, <2>1, <2>2, <2>3, <2>4, OnlyPcs DEF SameEngine, Intact
<1>4. CASE p # 0
  <2>1. does' = [does EXCEPT ![t].pc = "ending", ![t].proc = p]
        /\ piper' = [piper EXCEPT ![p] = Hung(p)]
    BY <1>4 DEF BeginsEnd
  <2>2. p \in Processes /\ p <= budget.spawned
    BY <1>2, <1>4, PlainTypes DEF OwnProcesses
  <2>3. \A q \in Processes \ {p} : piper'[q] = piper[q]
    BY <2>1, <2>2 DEF SynthesisTypes
  <2>4. /\ does'[t].pc = "ending" /\ does'[t].mgr = m /\ does'[t].proc = p
        /\ \A u \in PiperThreads \ {t} : does'[u] = does[u]
    <3>1. does \in [PiperThreads -> DoesRecord] /\ does[t] \in DoesRecord
      BY DEF SynthesisTypes
    <3> HIDE DEF p
    <3>. QED  BY <2>1, <3>1 DEF DoesRecord
  <2> HIDE DEF p
  <2>5. ~LoadsAt(does[t]) /\ ~LoadsAt(does'[t])
    BY <1>1, <2>4 DEF LoadsAt
  <2>6. ASSUME NEW u \in PiperThreads, NEW n \in Managers
        PROVE  mgr'[n].lock = u <=> LoadsAt(does'[u]) /\ does'[u].mgr = n
    BY <1>1, <2>4, <2>5 DEF LoadsApart
  <2>7. ASSUME NEW u \in PiperThreads, LoadsAt(does'[u])
        PROVE  /\ mgr'[does'[u].mgr].proc # 0
               /\ \A v \in PiperThreads : does'[v].pc = "ending" => does'[v].proc # mgr'[does'[u].mgr].proc
               /\ Intact' => SafePipe(piper'[mgr'[does'[u].mgr].proc])
    <3>1. does'[u] = does[u] /\ LoadsAt(does[u])
      BY <2>4, <2>5, <2>7
    <3>2. does[u].mgr \in Managers
      BY <3>1, LoadManager DEF LoadsAt, WithManager, Asked
    <3>3. mgr[does[u].mgr].lock = u /\ u # Unlocked
      BY <3>1, <3>2, ThreadsApart DEF LoadsApart
    <3>4. does[u].mgr # m
      BY <1>1, <3>3
    <3> DEFINE q == mgr[does[u].mgr].proc
    <3>5. q # 0 /\ (\A v \in PiperThreads : does[v].pc = "ending" => does[v].proc # q)
          /\ (Intact => SafePipe(piper[q]))
      BY <3>1 DEF LoadsApart
    <3>6. q \in Processes
      BY <3>2, <3>5, PlainTypes
    <3>7. q # p
      BY <1>2, <3>2, <3>4, <3>5 DEF OwnProcesses, p
    <3>8. mgr'[does'[u].mgr].proc = q
      BY <1>1, <3>1
    <3> HIDE DEF q
    <3>9. Intact' => SafePipe(piper'[q])
      BY <1>1, <2>3, <3>5, <3>6, <3>7 DEF Intact
    <3>10. \A v \in PiperThreads : does'[v].pc = "ending" => does'[v].proc # q
      BY <2>4, <3>5, <3>7
    <3>. QED  BY <3>5, <3>8, <3>9, <3>10
  <2>8. \A u \in PiperThreads : does'[u].pc = "ending" => does'[u].proc <= budget'.spawned
    BY <1>1, <2>2, <2>4 DEF LoadsApart
  <2>9. LoadsApart'
    BY <2>6, <2>7, <2>8 DEF LoadsApart
  <2>10. SameStage(t, does[t], does'[t])
    BY <1>1, <2>4, EndStage
  <2>11. VoicesLeft
    BY <1>1, <2>4, <2>10, OneSame DEF VoicesLeft, SameEngine, Intact, VoicesApart
  <2>. QED  BY <2>9, <2>11, VoicesLeftApart
<1>. QED  BY <1>3, <1>4

LEMMA EndsApart ==
    ASSUME SynthesisTypes, OwnProcesses, LoadsApart, VoicesApart, NEW t \in PiperThreads, Ends(t)
    PROVE  LoadsApart' /\ VoicesApart'
<1> DEFINE m == does[t].mgr
           p == does[t].proc
<1>1. /\ does[t].pc = "ending" /\ mgr[m].lock = Unlocked /\ UNCHANGED <<engine, budget, spoken>>
      /\ does' = [does EXCEPT ![t].pc = AfterEnd(t)]
  BY DEF Ends, At, Go
<1>2. m \in Managers
  BY <1>1, LoadManager DEF WithManager
<1>3. /\ mgr'[m].proc = 0 /\ mgr'[m].lock = mgr[m].lock /\ mgr'[m].voice = mgr[m].voice
      /\ \A n \in Managers \ {m} : mgr'[n] = mgr[n]
  <2>1. mgr' = [mgr EXCEPT ![m].proc = 0, ![m].ready = FALSE]
    BY DEF Ends
  <2>2. mgr \in [Managers -> ManagerRecord] /\ mgr[m] \in ManagerRecord
    BY <1>2 DEF SynthesisTypes
  <2> HIDE DEF m
  <2>. QED  BY <1>2, <2>1, <2>2 DEF ManagerRecord
<1>4. \A q \in Processes \ {p} : piper'[q] = piper[q]
  BY DEF Ends, SynthesisTypes
<1>5. /\ does'[t].pc = AfterEnd(t) /\ does'[t].mgr = m
      /\ \A u \in PiperThreads \ {t} : does'[u] = does[u]
  BY <1>1, Enters
<1>6. ~LoadsAt(does[t]) /\ ~LoadsAt(does'[t]) /\ does'[t].pc # "ending"
  BY <1>1, <1>5 DEF LoadsAt, AfterEnd
<1>7. ASSUME NEW u \in PiperThreads, NEW n \in Managers
      PROVE  mgr'[n].lock = u <=> LoadsAt(does'[u]) /\ does'[u].mgr = n
  BY <1>3, <1>5, <1>6 DEF LoadsApart
<1>8. ASSUME NEW u \in PiperThreads, LoadsAt(does'[u])
      PROVE  /\ mgr'[does'[u].mgr].proc # 0
             /\ \A v \in PiperThreads : does'[v].pc = "ending" => does'[v].proc # mgr'[does'[u].mgr].proc
             /\ Intact' => SafePipe(piper'[mgr'[does'[u].mgr].proc])
  <2>1. does'[u] = does[u] /\ LoadsAt(does[u])
    BY <1>5, <1>6, <1>8
  <2>2. does[u].mgr \in Managers
    BY <2>1, LoadManager DEF LoadsAt, WithManager, Asked
  <2>3. mgr[does[u].mgr].lock = u /\ u # Unlocked
    BY <2>1, <2>2, ThreadsApart DEF LoadsApart
  <2>4. mgr'[does[u].mgr] = mgr[does[u].mgr]
    BY <1>1, <1>3, <2>2, <2>3
  <2> DEFINE q == mgr[does[u].mgr].proc
  <2>5. q # 0 /\ (\A v \in PiperThreads : does[v].pc = "ending" => does[v].proc # q)
        /\ (Intact => SafePipe(piper[q]))
    BY <2>1 DEF LoadsApart
  <2>6. q \in Processes /\ q # p
    BY <1>1, <2>2, <2>5, PlainTypes
  <2>7. mgr'[does'[u].mgr].proc = q
    BY <2>1, <2>4
  <2> HIDE DEF q, p
  <2>8. Intact' => SafePipe(piper'[q])
    BY <1>1, <1>4, <2>5, <2>6 DEF Intact
  <2>9. \A v \in PiperThreads : does'[v].pc = "ending" => does'[v].proc # q
    BY <1>5, <1>6, <2>5
  <2>. QED  BY <2>5, <2>7, <2>8, <2>9
<1>9. LoadsApart'
  <2>1. \A u \in PiperThreads : does'[u].pc = "ending" => does'[u].proc <= budget'.spawned
    BY <1>1, <1>5, <1>6 DEF LoadsApart
  <2>. QED  BY <1>7, <1>8, <2>1 DEF LoadsApart
<1>10. SameStage(t, does[t], does'[t])
  BY <1>1, <1>5, EndStage
<1>11. VoicesLeft
  <2>1. \A n \in Managers : mgr'[n].voice = mgr[n].voice /\ (n > engine.made => mgr'[n].proc = 0)
    BY <1>3 DEF VoicesApart
  <2>. QED  BY <1>1, <1>5, <1>10, <2>1, OneSame DEF VoicesLeft, SameEngine, Intact
<1>. QED  BY <1>9, <1>11, VoicesLeftApart

-----------------------------------------------------------------------------
(* The steps that change the engine. *)
LEMMA LoadsStay ==
    ASSUME SynthesisTypes, LoadsApart, NEW t \in PiperThreads,
           \A u \in PiperThreads \ {t} : does'[u] = does[u], SameLoad(does[t], does'[t]),
           \A m \in Managers : mgr'[m].lock = mgr[m].lock /\ mgr'[m].proc = mgr[m].proc,
           UNCHANGED <<piper, budget>>
    PROVE  LoadsApart'
<1>1. \A u \in PiperThreads : SameLoad(does[u], does'[u])
  BY DEF SameLoad
<1>2. LoadsLeft
  BY <1>1 DEF LoadsLeft, Intact
<1>. QED  BY <1>2, LoadsLeftApart

(* Where a thread may be, for a given engine. *)
Placed(u, d, holder, current) ==
    /\ d.pc \notin BeatPcs
    /\ d.pc \in LoadPcs => holder = u
    /\ u # Control /\ d.pc \in UndoPcs => holder = u /\ ~current

LEMMA VoicesAre ==
    ASSUME SynthesisTypes, VoicesApart, NEW t \in PiperThreads \ Beats,
           \A u \in PiperThreads \ {t} : does'[u] = does[u],
           \A u \in PiperThreads \ Beats : Placed(u, does'[u], engine'.loader, ~NoneCurrent'),
           does'[t].mgr <= engine'.made, engine.made <= engine'.made, engine'.made \in Nat,
           engine'.manager <= engine'.made,
           \A m \in Managers : /\ m <= engine'.made => mgr'[m].voice <= engine'.changes
                               /\ m > engine'.made => mgr'[m].proc = 0,
           engine'.stopped => NoneCurrent',
           Intact' => /\ Intact /\ does'[t].pc \notin FailPcs
                      /\ \A m, n \in Managers : m <= engine'.made /\ n <= engine'.made
                                                  /\ mgr'[m].voice = mgr'[n].voice => m = n
                      /\ ~NoneCurrent' => engine'.loaded \/ engine'.loader # Unlocked
    PROVE  VoicesApart'
<1>1. ASSUME NEW u \in PiperThreads PROVE does'[u].mgr <= engine'.made
  <2>1. does[u].mgr <= engine.made /\ does[u].mgr \in Nat /\ engine.made \in Nat
    BY PlainTypes DEF VoicesApart
  <2>. QED  BY <2>1
<1>2. \A u \in Beats : does'[u].pc \notin {"failed", "ended"}
  BY ThreadsApart DEF VoicesApart
<1>3. Intact' => \A u \in PiperThreads : does'[u].pc \notin FailPcs
  BY DEF VoicesApart
<1>4. ASSUME NEW u \in PiperThreads \ Beats
      PROVE  /\ does'[u].pc \notin BeatPcs
             /\ does'[u].pc \in LoadPcs => engine'.loader = u
             /\ u # Control /\ does'[u].pc \in UndoPcs => engine'.loader = u /\ NoneCurrent'
  <2> HIDE DEF NoneCurrent
  <2>. QED  BY DEF Placed
<1> HIDE DEF NoneCurrent
<1>. QED  BY <1>1, <1>2, <1>3, <1>4 DEF VoicesApart

(* What the voices say before a step. *)
LEMMA WerePlaced ==
    ASSUME VoicesApart
    PROVE  /\ \A u \in PiperThreads \ Beats : Placed(u, does[u], engine.loader, ~NoneCurrent)
           /\ engine.stopped => NoneCurrent
  BY DEF VoicesApart, Placed

LEMMA EngineStartApart ==
    ASSUME SynthesisTypes, LoadsApart, VoicesApart, EngineStart
    PROVE  LoadsApart' /\ VoicesApart'
<1> DEFINE t == Warm(engine.starts + 1)
<1>1. engine.starts + 1 \in 1 .. MaxStarts /\ engine.starts \in Nat
  BY SynthesisBounds DEF SynthesisTypes, EngineRecord, EngineStart
<1>2. t \in PiperThreads \ Beats
  BY <1>1, ThreadsApart
<1>3. Knows(t, does[t], engine.starts)
  BY <1>2 DEF SynthesisTypes
<1>4. does[t].pc = "idle"
  BY <1>1, <1>3 DEF Knows
<1>5. /\ engine'.stopped = FALSE /\ engine'.made = engine.made /\ engine'.changes = engine.changes
      /\ engine'.manager = engine.manager /\ engine'.loader = engine.loader /\ engine.stopped
  <2>1. engine \in EngineRecord
    BY DEF SynthesisTypes
  <2>. QED  BY <2>1 DEF EngineStart, EngineRecord
<1>6. UNCHANGED <<mgr, piper, budget>> /\ does' = [does EXCEPT ![t].pc = "lazy"]
  BY DEF EngineStart, Go
<1> HIDE DEF t
<1>7. /\ does'[t].pc = "lazy" /\ does'[t].mgr = does[t].mgr
      /\ \A u \in PiperThreads \ {t} : does'[u] = does[u]
  BY <1>2, <1>6, Enters
<1>8. SameLoad(does[t], does'[t])
  BY <1>4, <1>7 DEF SameLoad, LoadsAt
<1>9. LoadsApart'
  BY <1>2, <1>6, <1>7, <1>8, LoadsStay
<1>10. NoneCurrent /\ NoneCurrent'
  BY <1>5, <1>6, WerePlaced DEF NoneCurrent
<1>11. ASSUME NEW u \in PiperThreads \ Beats
       PROVE  Placed(u, does'[u], engine'.loader, ~NoneCurrent')
  <2>1. Placed(u, does[u], engine.loader, ~NoneCurrent)
    BY WerePlaced
  <2> HIDE DEF NoneCurrent
  <2>2. CASE u = t
    BY <1>7, <2>2 DEF Placed, LoadPcs, UndoPcs, BeatPcs
  <2>3. CASE u # t
    BY <1>5, <1>7, <1>10, <2>1, <2>3 DEF Placed
  <2>. QED  BY <2>2, <2>3
<1>12. does'[t].mgr <= engine'.made /\ engine.made <= engine'.made /\ engine'.made \in Nat
       /\ engine'.manager <= engine'.made
  BY <1>2, <1>5, <1>7, PlainTypes DEF VoicesApart
<1>13. \A m \in Managers : /\ m <= engine'.made => mgr'[m].voice <= engine'.changes
                           /\ m > engine'.made => mgr'[m].proc = 0
  BY <1>5, <1>6 DEF VoicesApart
<1>14. Intact' => /\ Intact /\ does'[t].pc \notin FailPcs
                  /\ \A m, n \in Managers : m <= engine'.made /\ n <= engine'.made
                                              /\ mgr'[m].voice = mgr'[n].voice => m = n
  BY <1>5, <1>6, <1>7 DEF Intact, FailPcs, VoicesApart
<1> HIDE DEF NoneCurrent
<1>. QED  BY <1>2, <1>5, <1>7, <1>9, <1>10, <1>11, <1>12, <1>13, <1>14, VoicesAre

(* The manager that is told to stop keeps its lock, its subprocess and its voice. *)
LEMMA StopManagerIs ==
    ASSUME SynthesisTypes, NEW t \in PiperThreads, NEW m \in Managers, StopManager(t, m)
    PROVE  /\ does'[t].pc = "join" /\ does'[t].mgr = m
           /\ \A u \in PiperThreads \ {t} : does'[u] = does[u]
           /\ \A n \in Managers : mgr'[n].lock = mgr[n].lock /\ mgr'[n].proc = mgr[n].proc
                                  /\ mgr'[n].voice = mgr[n].voice
<1>1. /\ mgr' = [mgr EXCEPT ![m].told = TRUE]
      /\ does' = [does EXCEPT ![t].pc = "join", ![t].mgr = m]
  BY DEF StopManager
<1>2. "join" \in PiperPcs /\ m \in 0 .. MaxManagers
  BY SynthesisBounds DEF PiperPcs, WithManager, Managers
<1>3. does' = [does EXCEPT ![t] = [pc |-> "join", mgr |-> m, proc |-> does[t].proc, text |-> does[t].text]]
  BY <1>1, <1>2, GoesWith
<1>4. /\ does'[t].pc = "join" /\ does'[t].mgr = m
      /\ \A u \in PiperThreads \ {t} : does'[u] = does[u]
  BY <1>3 DEF SynthesisTypes
<1>5. \A n \in Managers : mgr'[n].lock = mgr[n].lock /\ mgr'[n].proc = mgr[n].proc
                          /\ mgr'[n].voice = mgr[n].voice
  BY <1>1 DEF SynthesisTypes, ManagerRecord
<1>. QED  BY <1>4, <1>5

LEMMA ChangesApart ==
    ASSUME SynthesisTypes, LoadsApart, VoicesApart, NEW b \in BOOLEAN, Changes(b)
    PROVE  LoadsApart' /\ VoicesApart'
<1> DEFINE t == Control
<1>1. t \in PiperThreads \ Beats
  BY ThreadsApart
<1>2. /\ engine'.made = engine.made /\ engine'.changes = engine.changes + 1
      /\ engine'.manager = engine.manager /\ engine'.loader = engine.loader
  <2>1. engine \in EngineRecord
    BY DEF SynthesisTypes
  <2>. QED  BY <2>1 DEF Changes, EngineRecord
<1>3. UNCHANGED <<piper, budget>> /\ does[t].pc = "idle"
  BY DEF Changes, At
<1>4. /\ \A u \in PiperThreads \ {t} : does'[u] = does[u]
      /\ does'[t].pc \in {"idle", "join"} /\ does'[t].mgr <= engine.made
      /\ \A n \in Managers : mgr'[n].lock = mgr[n].lock /\ mgr'[n].proc = mgr[n].proc
                             /\ mgr'[n].voice = mgr[n].voice
  <2>1. CASE engine.manager = 0
    <3>1. UNCHANGED <<mgr, does>>
      BY <2>1 DEF Changes
    <3>. QED  BY <1>1, <1>3, <3>1 DEF VoicesApart
  <2>2. CASE engine.manager # 0
    <3>1. engine.manager \in Managers
      BY <2>2, SynthesisBounds DEF SynthesisTypes, EngineRecord, Managers
    <3>2. PICK m \in Managers : m = engine.manager
      BY <3>1
    <3>3. StopManager(t, m)
      BY <2>2, <3>2 DEF Changes
    <3>4. m <= engine.made
      BY <3>2 DEF VoicesApart
    <3> HIDE DEF t
    <3>. QED  BY <1>1, <3>3, <3>4, StopManagerIs
  <2>. QED  BY <2>1, <2>2
<1>5. SameLoad(does[t], does'[t])
  BY <1>3, <1>4 DEF SameLoad, LoadsAt
<1>6. LoadsApart'
  BY <1>1, <1>3, <1>4, <1>5, LoadsStay
<1>7. ASSUME NEW m \in Managers, m <= engine.made
      PROVE  mgr'[m].voice < engine'.changes
  <2>1. mgr[m].voice <= engine.changes /\ mgr[m].voice \in Nat /\ engine.changes \in Nat
    BY <1>7, PlainTypes DEF VoicesApart
  <2>2. mgr'[m].voice = mgr[m].voice
    BY <1>4
  <2>. QED  BY <1>2, <2>1, <2>2
<1>8. \A m \in Managers : m <= engine.made => mgr'[m].voice <= engine'.changes /\ mgr'[m].voice # engine'.changes
  <2> SUFFICES ASSUME NEW m \in Managers, m <= engine.made
               PROVE  mgr'[m].voice <= engine'.changes /\ mgr'[m].voice # engine'.changes
    OBVIOUS
  <2>1. mgr'[m].voice \in Nat /\ engine'.changes \in Nat
    BY <1>2, <1>4, PlainTypes
  <2>. QED  BY <1>7, <2>1
<1>9. NoneCurrent'
  BY <1>2, <1>8 DEF NoneCurrent
<1>10. ASSUME NEW u \in PiperThreads \ Beats
       PROVE  Placed(u, does'[u], engine'.loader, ~NoneCurrent')
  <2>1. Placed(u, does[u], engine.loader, ~NoneCurrent)
    BY WerePlaced
  <2> HIDE DEF NoneCurrent
  <2>2. CASE u = t
    BY <1>4, <2>2 DEF Placed, LoadPcs, UndoPcs, BeatPcs
  <2>3. CASE u # t
    BY <1>2, <1>4, <1>9, <2>1, <2>3 DEF Placed
  <2>. QED  BY <2>2, <2>3
<1>11. does'[t].mgr <= engine'.made /\ engine.made <= engine'.made /\ engine'.made \in Nat
       /\ engine'.manager <= engine'.made
  BY <1>2, <1>4, PlainTypes DEF VoicesApart
<1>12. \A m \in Managers : /\ m <= engine'.made => mgr'[m].voice <= engine'.changes
                           /\ m > engine'.made => mgr'[m].proc = 0
  BY <1>2, <1>4, <1>8 DEF VoicesApart
<1>13. Intact' => /\ Intact /\ does'[t].pc \notin FailPcs
                  /\ \A m, n \in Managers : m <= engine'.made /\ n <= engine'.made
                                              /\ mgr'[m].voice = mgr'[n].voice => m = n
  BY <1>2, <1>3, <1>4 DEF Intact, FailPcs, VoicesApart
<1> HIDE DEF NoneCurrent, t
<1>. QED  BY <1>1, <1>4, <1>6, <1>9, <1>10, <1>11, <1>12, <1>13, VoicesAre

LEMMA LazyLoadApart ==
    ASSUME SynthesisTypes, LoadsApart, VoicesApart, NEW t \in PiperThreads, LazyLoad(t)
    PROVE  LoadsApart' /\ VoicesApart'
<1>1. UNCHANGED <<piper, budget, spoken>> /\ does[t].pc = "lazy" /\ engine.loader = Unlocked
  BY DEF LazyLoad, At
<1>2. t \in PiperThreads \ Beats
  BY <1>1 DEF SynthesisTypes, Knows
<1>3. CASE engine.loaded \/ engine.stopped
  <2>1. PICK c \in {"use", "idle"} : does' = [does EXCEPT ![t].pc = c]
    BY <1>3 DEF LazyLoad, Go, AfterLoad
  <2>2. UNCHANGED <<engine, mgr>>
    BY <1>3 DEF LazyLoad
  <2>3. /\ does'[t].pc = c /\ does'[t].mgr = does[t].mgr
        /\ \A u \in PiperThreads \ {t} : does'[u] = does[u]
    BY <2>1, Enters
  <2>4. SameLoad(does[t], does'[t]) /\ SameStage(t, does[t], does'[t])
    BY <1>1, <1>2, <2>3 DEF SameLoad, LoadsAt, SameStage, LoadPcs, UndoPcs, BeatPcs, FailPcs, VoicesApart
  <2>. QED  BY <1>1, <2>2, <2>3, <2>4, OnlyPcs DEF SameEngine, Intact
<1>4. CASE ~(engine.loaded \/ engine.stopped)
  <2>1. PICK m \in Managers :
           /\ m = engine.made + 1
           /\ engine' = [engine EXCEPT !.made = m, !.manager = m, !.loader = t]
           /\ mgr' = [mgr EXCEPT ![m].voice = engine.changes]
           /\ does' = [does EXCEPT ![t].pc = "boot", ![t].mgr = m]
    BY <1>4 DEF LazyLoad
  <2>2. /\ engine'.made = m /\ engine'.manager = m /\ engine'.loader = t
        /\ engine'.changes = engine.changes /\ engine'.stopped = engine.stopped
    <3>1. engine \in EngineRecord
      BY DEF SynthesisTypes
    <3>. QED  BY <2>1, <3>1 DEF EngineRecord
  <2>3. "boot" \in PiperPcs /\ m \in 0 .. MaxManagers
    BY SynthesisBounds DEF PiperPcs, WithManager, Managers
  <2>4. /\ does'[t].pc = "boot" /\ does'[t].mgr = m
        /\ \A u \in PiperThreads \ {t} : does'[u] = does[u]
    <3>1. does' = [does EXCEPT ![t].pc = "boot", ![t].mgr = m]
      BY <2>1
    <3>2. does' = [does EXCEPT ![t] = [pc |-> "boot", mgr |-> m, proc |-> does[t].proc, text |-> does[t].text]]
      BY <2>3, <3>1, GoesWith
    <3>. QED  BY <3>2 DEF SynthesisTypes
  <2>5. /\ \A n \in Managers : mgr'[n].lock = mgr[n].lock /\ mgr'[n].proc = mgr[n].proc
        /\ mgr'[m].voice = engine.changes
        /\ \A n \in Managers \ {m} : mgr'[n].voice = mgr[n].voice
    BY <2>1 DEF SynthesisTypes, ManagerRecord
  <2>6. SameLoad(does[t], does'[t])
    BY <1>1, <2>4 DEF SameLoad, LoadsAt
  <2>7. LoadsApart'
    BY <1>1, <2>4, <2>5, <2>6, LoadsStay
  <2>8. engine.made \in Nat /\ m = engine.made + 1 /\ engine.changes \in Nat
        /\ (\A n \in Managers : n \in Nat)
        /\ \A n \in Managers : n <= engine.made => n # m
    BY <2>1, PlainTypes
  <2>9. ASSUME NEW u \in PiperThreads \ Beats
        PROVE  Placed(u, does'[u], engine'.loader, ~NoneCurrent')
    <3>1. Placed(u, does[u], engine.loader, ~NoneCurrent) /\ u # Unlocked
      BY WerePlaced, ThreadsApart
    <3> HIDE DEF NoneCurrent
    <3>2. CASE u = t
      BY <2>2, <2>4, <3>2 DEF Placed, LoadPcs, UndoPcs, BeatPcs
    <3>3. CASE u # t
      BY <1>1, <2>4, <3>1, <3>3 DEF Placed
    <3>. QED  BY <3>2, <3>3
  <2>10. does'[t].mgr <= engine'.made /\ engine.made <= engine'.made /\ engine'.made \in Nat
         /\ engine'.manager <= engine'.made
    BY <2>2, <2>4, <2>8
  <2>11. ASSUME NEW n \in Managers
         PROVE  /\ n <= engine'.made => mgr'[n].voice <= engine'.changes
                /\ n > engine'.made => mgr'[n].proc = 0
    <3>1. CASE n = m
      BY <2>2, <2>5, <2>8, <3>1
    <3>2. CASE n # m
      <4>1. /\ n <= engine'.made => n <= engine.made
            /\ n > engine'.made => n > engine.made
        BY <2>2, <2>8, <3>2
      <4>. QED  BY <2>2, <2>5, <3>2, <4>1 DEF VoicesApart
    <3>. QED  BY <3>1, <3>2
  <2>12. ~engine'.stopped
    BY <1>4, <2>2
  <2>13. ASSUME Intact'
         PROVE  /\ Intact /\ does'[t].pc \notin FailPcs
                /\ \A k, n \in Managers : k <= engine'.made /\ n <= engine'.made
                                            /\ mgr'[k].voice = mgr'[n].voice => k = n
                /\ ~NoneCurrent' => engine'.loaded \/ engine'.loader # Unlocked
    <3>1. Intact
      BY <1>1, <2>13 DEF Intact
    <3>2. NoneCurrent
      BY <1>1, <1>4, <3>1 DEF VoicesApart
    <3>3. ASSUME NEW k \in Managers, NEW n \in Managers, k <= engine'.made, n <= engine'.made,
                 mgr'[k].voice = mgr'[n].voice
          PROVE  k = n
      <4>1. /\ k # m => k <= engine.made
            /\ n # m => n <= engine.made
        BY <2>2, <2>8, <3>3
      <4>2. /\ k # m => mgr[k].voice # engine.changes
            /\ n # m => mgr[n].voice # engine.changes
        BY <3>2, <4>1 DEF NoneCurrent
      <4>3. CASE k # m /\ n # m
        <5>1. mgr[k].voice = mgr[n].voice
          BY <2>5, <3>3, <4>3
        <5>. QED  BY <3>1, <4>1, <4>3, <5>1 DEF VoicesApart
      <4>4. CASE k = m \/ n = m
        BY <2>5, <3>3, <4>2, <4>4
      <4>. QED  BY <4>3, <4>4
    <3>4. engine'.loader # Unlocked
      BY <2>2, ThreadsApart
    <3>. QED  BY <2>4, <3>1, <3>3, <3>4 DEF FailPcs
  <2> HIDE DEF NoneCurrent
  <2>. QED  BY <1>2, <2>4, <2>7, <2>9, <2>10, <2>11, <2>12, <2>13, VoicesAre
<1>. QED  BY <1>3, <1>4

(* Who holds the load lock at the end of a load or of its undoing is alone there. *)
LEMMA HolderAlone ==
    ASSUME VoicesApart, NEW t \in PiperThreads \ Beats, NEW u \in PiperThreads \ Beats, u # t,
           engine.loader = t, NEW holder, NEW current
    PROVE  Placed(u, does[u], holder, current)
<1>1. Placed(u, does[u], engine.loader, ~NoneCurrent)
  BY WerePlaced
<1> HIDE DEF NoneCurrent
<1>. QED  BY <1>1 DEF Placed

LEMMA LoadDoneApart ==
    ASSUME SynthesisTypes, LoadsApart, VoicesApart, NEW t \in PiperThreads, LoadDone(t)
    PROVE  LoadsApart' /\ VoicesApart'
<1>1. UNCHANGED <<piper, budget, spoken>> /\ does[t].pc = "loaded"
  BY DEF LoadDone, At
<1>2. t \in PiperThreads \ Beats
  BY <1>1 DEF SynthesisTypes, Knows
<1>3. engine.loader = t
  BY <1>1, <1>2 DEF VoicesApart, LoadPcs
<1>4. engine \in EngineRecord
  BY DEF SynthesisTypes
<1>5. /\ engine'.made = engine.made /\ engine'.changes = engine.changes
      /\ engine'.manager = engine.manager /\ engine'.stopped = engine.stopped
  BY <1>4 DEF LoadDone, EngineRecord
<1>6. /\ \A u \in PiperThreads \ {t} : does'[u] = does[u]
      /\ does'[t].mgr <= engine.made
      /\ \A n \in Managers : mgr'[n].lock = mgr[n].lock /\ mgr'[n].proc = mgr[n].proc
                             /\ mgr'[n].voice = mgr[n].voice
      /\ \/ does'[t].pc \in {"use", "idle"} /\ engine'.loaded = ~engine.stopped
         \/ does'[t].pc = "join" /\ engine.stopped /\ engine'.loader = t
  <2>1. CASE engine.stopped /\ engine.manager # 0
    <3>1. engine.manager \in Managers
      BY <2>1, SynthesisBounds DEF SynthesisTypes, EngineRecord, Managers
    <3>2. PICK m \in Managers : m = engine.manager
      BY <3>1
    <3>3. StopManager(t, m) /\ engine' = [engine EXCEPT !.loaded = TRUE]
      BY <2>1, <3>2 DEF LoadDone
    <3>4. m <= engine.made
      BY <3>2 DEF VoicesApart
    <3>5. engine'.loader = t
      BY <1>3, <1>4, <3>3 DEF EngineRecord
    <3>6. StopManager(t, m)
      BY <3>3
    <3>. QED  BY <2>1, <3>4, <3>5, <3>6, StopManagerIs
  <2>2. CASE ~(engine.stopped /\ engine.manager # 0)
    <3>1. PICK c \in {"use", "idle"} : does' = [does EXCEPT ![t].pc = c]
      BY <2>2 DEF LoadDone, Go, AfterLoad
    <3>2. UNCHANGED mgr /\ engine' = [engine EXCEPT !.loaded = ~engine.stopped, !.loader = Unlocked]
      BY <2>2 DEF LoadDone
    <3>3. /\ does'[t].pc = c /\ does'[t].mgr = does[t].mgr
          /\ \A u \in PiperThreads \ {t} : does'[u] = does[u]
      BY <3>1, Enters
    <3>4. engine'.loaded = ~engine.stopped
      BY <1>4, <3>2 DEF EngineRecord
    <3>. QED  BY <3>2, <3>3, <3>4 DEF VoicesApart
  <2>. QED  BY <2>1, <2>2
<1>7. SameLoad(does[t], does'[t])
  BY <1>1, <1>6 DEF SameLoad, LoadsAt
<1>8. LoadsApart'
  BY <1>1, <1>6, <1>7, LoadsStay
<1>9. (NoneCurrent' <=> NoneCurrent) /\ (engine.stopped => NoneCurrent)
  BY <1>5, <1>6, WerePlaced DEF NoneCurrent
<1>10. ASSUME NEW u \in PiperThreads \ Beats
       PROVE  Placed(u, does'[u], engine'.loader, ~NoneCurrent')
  <2> HIDE DEF NoneCurrent
  <2>1. CASE u = t
    BY <1>6, <1>9, <2>1 DEF Placed, LoadPcs, UndoPcs, BeatPcs
  <2>2. CASE u # t
    <3>1. Placed(u, does[u], engine'.loader, ~NoneCurrent')
      BY <1>2, <1>3, <2>2, HolderAlone
    <3>. QED  BY <1>6, <2>2, <3>1
  <2>. QED  BY <2>1, <2>2
<1>11. does'[t].mgr <= engine'.made /\ engine.made <= engine'.made /\ engine'.made \in Nat
       /\ engine'.manager <= engine'.made
  BY <1>5, <1>6, PlainTypes DEF VoicesApart
<1>12. \A m \in Managers : /\ m <= engine'.made => mgr'[m].voice <= engine'.changes
                           /\ m > engine'.made => mgr'[m].proc = 0
  BY <1>5, <1>6 DEF VoicesApart
<1>13. Intact' => /\ Intact /\ does'[t].pc \notin FailPcs
                  /\ \A m, n \in Managers : m <= engine'.made /\ n <= engine'.made
                                              /\ mgr'[m].voice = mgr'[n].voice => m = n
  BY <1>1, <1>5, <1>6 DEF Intact, FailPcs, VoicesApart
<1>14. (engine'.stopped => NoneCurrent') /\ (~NoneCurrent' => engine'.loaded)
  <2> HIDE DEF NoneCurrent
  <2>. QED  BY <1>5, <1>6, <1>9
<1> HIDE DEF NoneCurrent
<1>. QED  BY <1>2, <1>6, <1>8, <1>10, <1>11, <1>12, <1>13, <1>14, VoicesAre

LEMMA LoadFailedApart ==
    ASSUME SynthesisTypes, LoadsApart, VoicesApart, NEW t \in PiperThreads,
           LoadFailed(t) \/ WarmupNotes(t)
    PROVE  LoadsApart' /\ VoicesApart'
<1>1. UNCHANGED <<mgr, piper, budget, spoken>> /\ does[t].pc \in {"failed", "noting"}
  BY DEF LoadFailed, WarmupNotes, At
<1>2. engine \in EngineRecord
  BY DEF SynthesisTypes
<1>3. /\ engine'.made = engine.made /\ engine'.changes = engine.changes
      /\ engine'.manager = engine.manager /\ engine'.stopped = engine.stopped
      /\ engine'.loader = engine.loader \/ does[t].pc = "failed"
  BY <1>2 DEF LoadFailed, WarmupNotes, EngineRecord, At
<1>4. PICK c \in {"noting", "idle"} : does' = [does EXCEPT ![t].pc = c]
  BY DEF LoadFailed, WarmupNotes, Go
<1>5. /\ does'[t].pc = c /\ does'[t].mgr = does[t].mgr
      /\ \A u \in PiperThreads \ {t} : does'[u] = does[u]
  BY <1>4, Enters
<1>6. SameLoad(does[t], does'[t])
  BY <1>1, <1>5 DEF SameLoad, LoadsAt
<1>7. LoadsApart'
  BY <1>1, <1>5, <1>6, LoadsStay
<1>8. ~Intact /\ ~Intact'
  BY <1>1 DEF VoicesApart, FailPcs, Intact
<1>9. NoneCurrent' <=> NoneCurrent
  BY <1>1, <1>3 DEF NoneCurrent
<1>10. does[t].pc = "failed" => t \notin Beats /\ engine.loader = t
  BY DEF VoicesApart, LoadPcs
<1> HIDE DEF NoneCurrent
<1>11. ASSUME NEW u \in PiperThreads \ Beats
       PROVE  /\ does'[u].pc \notin BeatPcs
              /\ does'[u].pc \in LoadPcs => engine'.loader = u
              /\ u # Control /\ does'[u].pc \in UndoPcs => engine'.loader = u /\ NoneCurrent'
  <2>1. CASE u = t
    BY <1>5, <2>1 DEF LoadPcs, UndoPcs, BeatPcs
  <2>2. CASE u # t
    <3>1. Placed(u, does[u], engine.loader, ~NoneCurrent)
      BY WerePlaced
    <3>2. CASE engine'.loader = engine.loader
      BY <1>5, <1>9, <2>2, <3>1, <3>2 DEF Placed
    <3>3. CASE does[t].pc = "failed"
      <4>1. engine.loader = t
        BY <1>10, <3>3
      <4>. QED  BY <1>5, <2>2, <3>1, <4>1 DEF Placed
    <3>. QED  BY <1>3, <3>2, <3>3
  <2>. QED  BY <2>1, <2>2
<1>12. \A u \in Beats : does'[u].pc \notin {"failed", "ended"}
  BY <1>5, ThreadsApart DEF VoicesApart
<1>13. /\ \A u \in PiperThreads : does'[u].mgr <= engine'.made
       /\ engine'.manager <= engine'.made
       /\ \A m \in Managers : /\ m <= engine'.made => mgr'[m].voice <= engine'.changes
                              /\ m > engine'.made => mgr'[m].proc = 0
       /\ engine'.stopped => NoneCurrent'
  BY <1>1, <1>3, <1>5, <1>9 DEF VoicesApart
<1>. QED  BY <1>7, <1>8, <1>11, <1>12, <1>13 DEF VoicesApart

LEMMA ForgetsApart ==
    ASSUME SynthesisTypes, LoadsApart, VoicesApart, NEW t \in PiperThreads, Forgets(t)
    PROVE  LoadsApart' /\ VoicesApart'
<1>1. UNCHANGED <<mgr, piper, budget, spoken>> /\ does[t].pc = "ended"
  BY DEF Forgets, At
<1>2. t \in PiperThreads \ Beats
  BY <1>1 DEF VoicesApart
<1>3. engine \in EngineRecord
  BY DEF SynthesisTypes
<1>4. /\ engine'.made = engine.made /\ engine'.changes = engine.changes
      /\ engine'.manager = 0 /\ engine'.stopped = engine.stopped
      /\ t = Control => engine'.loader = engine.loader /\ engine'.loaded = engine.loaded
  BY <1>3 DEF Forgets, EngineRecord
<1>5. PICK c \in {"use", "idle"} : does' = [does EXCEPT ![t].pc = c]
  BY DEF Forgets
<1>6. /\ does'[t].pc = c /\ does'[t].mgr = does[t].mgr
      /\ \A u \in PiperThreads \ {t} : does'[u] = does[u]
  BY <1>5, Enters
<1>7. SameLoad(does[t], does'[t])
  BY <1>1, <1>6 DEF SameLoad, LoadsAt
<1>8. LoadsApart'
  BY <1>1, <1>6, <1>7, LoadsStay
<1>9. (NoneCurrent' <=> NoneCurrent) /\ (engine.stopped => NoneCurrent)
  BY <1>1, <1>4, WerePlaced DEF NoneCurrent
<1>10. t # Control => engine.loader = t /\ NoneCurrent
  <2> HIDE DEF NoneCurrent
  <2>1. Placed(t, does[t], engine.loader, ~NoneCurrent)
    BY <1>2, WerePlaced
  <2>. QED  BY <1>1, <2>1 DEF Placed, UndoPcs
<1>11. ASSUME NEW u \in PiperThreads \ Beats
       PROVE  Placed(u, does'[u], engine'.loader, ~NoneCurrent')
  <2> HIDE DEF NoneCurrent
  <2>1. CASE u = t
    BY <1>6, <2>1 DEF Placed, LoadPcs, UndoPcs, BeatPcs
  <2>2. CASE u # t /\ t # Control
    <3>1. Placed(u, does[u], engine'.loader, ~NoneCurrent')
      BY <1>2, <1>10, <2>2, HolderAlone
    <3>. QED  BY <1>6, <2>2, <3>1
  <2>3. CASE u # t /\ t = Control
    <3>1. Placed(u, does[u], engine.loader, ~NoneCurrent)
      BY WerePlaced
    <3>. QED  BY <1>4, <1>6, <1>9, <2>3, <3>1 DEF Placed
  <2>. QED  BY <2>1, <2>2, <2>3
<1>12. does'[t].mgr <= engine'.made /\ engine.made <= engine'.made /\ engine'.made \in Nat
       /\ engine'.manager <= engine'.made
  BY <1>4, <1>6, PlainTypes DEF VoicesApart
<1>13. \A m \in Managers : /\ m <= engine'.made => mgr'[m].voice <= engine'.changes
                           /\ m > engine'.made => mgr'[m].proc = 0
  BY <1>1, <1>4 DEF VoicesApart
<1>14. Intact' => /\ Intact /\ does'[t].pc \notin FailPcs
                  /\ \A m, n \in Managers : m <= engine'.made /\ n <= engine'.made
                                              /\ mgr'[m].voice = mgr'[n].voice => m = n
  BY <1>1, <1>4, <1>6 DEF Intact, FailPcs, VoicesApart
<1>15. Intact' => (~NoneCurrent' => engine'.loaded \/ engine'.loader # Unlocked)
  <2>1. CASE t = Control
    <3>1. Intact' => (~NoneCurrent => engine.loaded \/ engine.loader # Unlocked)
      BY <1>14 DEF VoicesApart
    <3> HIDE DEF NoneCurrent
    <3>. QED  BY <1>4, <1>9, <2>1, <3>1
  <2>2. CASE t # Control
    <3> HIDE DEF NoneCurrent
    <3>. QED  BY <1>9, <1>10, <2>2
  <2>. QED  BY <2>1, <2>2
<1>16. engine'.stopped => NoneCurrent'
  <2> HIDE DEF NoneCurrent
  <2>. QED  BY <1>4, <1>9
<1> HIDE DEF NoneCurrent
<1>. QED  BY <1>2, <1>6, <1>8, <1>11, <1>12, <1>13, <1>14, <1>15, <1>16, VoicesAre

-----------------------------------------------------------------------------
OneVoice == SynthesisInv /\ LoadsApart /\ VoicesApart

LEMMA InitOneVoice == PSInit => OneVoice
<1> SUFFICES ASSUME PSInit PROVE OneVoice
  OBVIOUS
<1>1. SynthesisInv
  BY InitSynthesisInv
<1>2. /\ \A t \in PiperThreads : does[t] = [pc |-> "idle", mgr |-> 0, proc |-> 0, text |-> 0]
      /\ \A m \in Managers : mgr[m].lock = Unlocked /\ mgr[m].proc = 0 /\ mgr[m].voice = 0
      /\ engine.made = 0 /\ engine.manager = 0 /\ engine.changes = 0 /\ engine.loader = Unlocked
  BY DEF PSInit
<1>3. \A m \in Managers : m \in Nat /\ m # 0 /\ ~(m <= engine.made)
  BY <1>2, SynthesisBounds DEF Managers
<1>4. LoadsApart
  BY <1>2, ThreadsApart DEF LoadsApart, LoadsAt
<1>5. NoneCurrent
  BY <1>3 DEF NoneCurrent
<1>6. VoicesApart
  <2>1. \A t \in PiperThreads : does[t].pc = "idle" /\ does[t].mgr = 0
    BY <1>2
  <2>2. \A t \in PiperThreads : does[t].mgr <= engine.made
    BY <1>2
  <2>3. engine.manager <= engine.made
    BY <1>2
  <2>4. \A t \in Beats : does[t].pc \notin {"failed", "ended"}
    BY <2>1, ThreadsApart
  <2> HIDE DEF NoneCurrent
  <2>. QED  BY <1>2, <1>3, <1>5, <2>1, <2>2, <2>3, <2>4 DEF VoicesApart, LoadPcs, UndoPcs, BeatPcs, FailPcs
<1>. QED  BY <1>1, <1>4, <1>6 DEF OneVoice

LEMMA StepOneVoice == OneVoice /\ [PSNext]_psvars => OneVoice'
<1> SUFFICES ASSUME OneVoice, [PSNext]_psvars PROVE OneVoice'
  OBVIOUS
<1> USE DEF OneVoice
<1>0. SynthesisTypes /\ OwnProcesses /\ SynthesisInv'
  BY StepSynthesisInv DEF SynthesisInv
<1>1. ASSUME EngineStart PROVE LoadsApart' /\ VoicesApart'
  BY <1>0, <1>1, EngineStartApart
<1>2. ASSUME EngineStop \/ VoiceChange PROVE LoadsApart' /\ VoicesApart'
  <2>1. Changes(TRUE) \/ Changes(FALSE)
    BY <1>2 DEF EngineStop, VoiceChange
  <2>. QED  BY <1>0, <2>1, ChangesApart
<1>3. ASSUME NEW w \in Workers, Synthesize(w) PROVE LoadsApart' /\ VoicesApart'
  BY <1>0, <1>3, SynthesizeApart
<1>4. ASSUME NEW t \in PiperThreads,
             LazyLoad(t) \/ LoadDone(t) \/ LoadFailed(t) \/ WarmupNotes(t) \/ Uses(t) \/ Forgets(t)
      PROVE  LoadsApart' /\ VoicesApart'
  BY <1>0, <1>4, LazyLoadApart, LoadDoneApart, LoadFailedApart, UsesApart, ForgetsApart
<1>5. ASSUME NEW t \in PiperThreads, Sends(t) \/ CannotSend(t) \/ Reads(t) \/ AnswerTimesOut(t)
      PROVE  LoadsApart' /\ VoicesApart'
  BY <1>0, <1>5, SendsApart, CannotSendApart, ReadsApart, AnswerTimesOutApart
<1>6. ASSUME NEW t \in PiperThreads, Boots(t) \/ BeginsEnd(t) \/ Ends(t) \/ Joins(t)
      PROVE  LoadsApart' /\ VoicesApart'
  BY <1>0, <1>6, BootsApart, BeginsEndApart, EndsApart, JoinsApart
<1>7. ASSUME NEW m \in Managers, BeatEnds(m) \/ BeatAsks(m) PROVE LoadsApart' /\ VoicesApart'
  BY <1>0, <1>7, BeatApart
<1>8. ASSUME NEW p \in Processes, Answers(p) \/ Dies(p) PROVE LoadsApart' /\ VoicesApart'
  BY <1>0, <1>8, AnswersApart, DiesApart
<1>9. CASE UNCHANGED psvars
  <2>1. UNCHANGED <<engine, mgr, piper, does, budget, spoken>>
    BY <1>9 DEF psvars
  <2>2. LoadsLeft
    BY <2>1 DEF LoadsLeft, SameLoad, Intact
  <2>3. VoicesLeft
    BY <2>1 DEF VoicesLeft, SameEngine, SameStage, Intact, VoicesApart
  <2>. QED  BY <1>0, <2>2, <2>3, LoadsLeftApart, VoicesLeftApart
<1>. QED  BY <1>0, <1>1, <1>2, <1>3, <1>4, <1>5, <1>6, <1>7, <1>8, <1>9 DEF PSNext

(* "The lock guarantees exactly one subprocess per voice" is not so of the code: a load that *)
(* fails leaves its subprocess behind, and the next load starts another. What does hold: as *)
(* long as no load fails, no subprocess dies by itself and no command times out. *)
OneProcessPerVoice == Intact => OneSubprocess

(* As long as no subprocess reports that it could not load, none dies by itself and no *)
(* command times out, there is one subprocess per voice at most, whatever stops, starts, *)
(* voice changes, pings and restarts fall between: the lock of _ensure_piper_loaded does *)
(* what its comment says when nothing breaks (tts_engine.py). *)
THEOREM VoiceHasOneProcess == PSSpec => []OneProcessPerVoice
<1>1. PSSpec => []OneVoice
  BY InitOneVoice, StepOneVoice, PTL DEF PSSpec
<1>2. OneVoice => OneProcessPerVoice
  <2> SUFFICES ASSUME OneVoice, Intact, NEW m \in Managers, NEW n \in Managers,
                      Serves(m), Serves(n), mgr[m].voice = mgr[n].voice
               PROVE  m = n
    BY DEF OneProcessPerVoice, OneSubprocess
  <2>1. SynthesisTypes /\ VoicesApart
    BY DEF OneVoice, SynthesisInv
  <2>2. m <= engine.made /\ n <= engine.made
    <3>1. mgr[m].proc # 0 /\ mgr[n].proc # 0
      BY DEF Serves, Breathing
    <3>2. ~(m > engine.made) /\ ~(n > engine.made)
      BY <2>1, <3>1 DEF VoicesApart
    <3>. QED  BY <2>1, <3>2, PlainTypes
  <2>. QED  BY <2>1, <2>2 DEF VoicesApart
<1>. QED  BY <1>1, <1>2, PTL
=============================================================================
