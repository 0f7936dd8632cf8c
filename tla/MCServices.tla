----------------------------- MODULE MCServices -----------------------------
(* The components that keep state beside the chunks: what the modules of the *)
(* pipeline share between threads and lives, what its outputs leave on disk, *)
(* what the API server keeps for its clients, and the database of the        *)
(* development harness.  They share no variable, so one behaviour is about   *)
(* one of them, and the states of the run are the sum of theirs, not the     *)
(* product.                                                                 *)
EXTENDS FFmpegPool, HarnessAgents, HarnessFeatures, Accounts,
        RequestLimits, HarnessLimit, LogStream, Configuration,
        PiperSynthesis, SerialStrategies, Transcription, Translation,
        PlayerFeedback, AudioMixing, RecordingOutput, LivePlaylist

CONSTANTS w1, w2       \* worker threads of the pipeline

VARIABLE subject       \* which component this behaviour is about

MCMishaps == {"lost", "skipped", "no_file", "encode", "variant", "publish",
              "raise", "reconfigure", "fragment", "list"}

(* Two ids shared by all callers: run_command in the same millisecond. *)
SharedIds == [c \in Callers |-> {"now", "later"}]

SInit ==
    /\ subject \in {"pool", "agents", "features", "accounts", "limits",
                    "harness limit", "logs", "configuration", "synthesis", "serial",
                    "transcription", "translation", "feedback", "mixing",
                    "recording", "live"}
    /\ Init /\ AInit /\ FInit /\ AccInit /\ RInit /\ HLInit /\ LSInit
    /\ CInit /\ PSInit /\ SSInit /\ TRInit /\ XInit /\ PFInit /\ AMInit
    /\ RecInit /\ LInit
    /\ subject = "transcription" \/ language = "es"
    /\ subject = "translation" \/ (translator = "argos" /\ source = "es")
    /\ subject = "feedback" \/ default_duration = 10
    /\ subject = "live" \/ ~abr
    /\ legacy = NoRow \/ (subject = "features" /\ legacy = [status |-> "done", dated |-> TRUE])
    /\ subject = "accounts" \/ AccUsers = {}
    /\ subject = "serial" \/ serial_mode = "asyncio"

(* A behaviour ends where its component promises nothing any more: after a      *)
(* restart that lost something, or a Piper command that timed out.           *)
SNext ==
    /\ UNCHANGED subject
    /\ \/ subject = "pool"          /\ Next
       \/ subject = "agents"        /\ ANext
       \/ subject = "features"      /\ FNext
       \/ subject = "accounts"      /\ ~lost /\ AccNext
       \/ subject = "limits"        /\ RNext
       \/ subject = "harness limit" /\ HLNext
       \/ subject = "logs"          /\ LSNext
       \/ subject = "configuration" /\ CNext
       \/ subject = "synthesis"     /\ budget.late = 0 /\ PSNext
       \/ subject = "serial"        /\ SSNext
       \/ subject = "transcription" /\ TRNext
       \/ subject = "translation"   /\ XNext
       \/ subject = "feedback"      /\ PFNext
       \/ subject = "mixing"        /\ AMNext
       \/ subject = "recording"     /\ RecNext
       \/ subject = "live"          /\ LNext
    /\ IF subject = "pool"          THEN TRUE ELSE UNCHANGED vars
    /\ IF subject = "agents"        THEN TRUE ELSE UNCHANGED avars
    /\ IF subject = "features"      THEN TRUE ELSE UNCHANGED fvars
    /\ IF subject = "accounts"      THEN TRUE ELSE UNCHANGED accvars
    /\ IF subject = "limits"        THEN TRUE ELSE UNCHANGED rlvars
    /\ IF subject = "harness limit" THEN TRUE ELSE UNCHANGED hlvars
    /\ IF subject = "logs"          THEN TRUE ELSE UNCHANGED lsvars
    /\ IF subject = "configuration" THEN TRUE ELSE UNCHANGED cvars
    /\ IF subject = "synthesis"     THEN TRUE ELSE UNCHANGED psvars
    /\ IF subject = "serial"        THEN TRUE ELSE UNCHANGED ssvars
    /\ IF subject = "transcription" THEN TRUE ELSE UNCHANGED trvars
    /\ IF subject = "translation"   THEN TRUE ELSE UNCHANGED xvars
    /\ IF subject = "feedback"      THEN TRUE ELSE UNCHANGED pfvars
    /\ IF subject = "mixing"        THEN TRUE ELSE UNCHANGED amvars
    /\ IF subject = "recording"     THEN TRUE ELSE UNCHANGED recvars
    /\ IF subject = "live"          THEN TRUE ELSE UNCHANGED lvars

allvars == <<subject, vars, avars, fvars, accvars, rlvars, hlvars, lsvars,
             cvars, psvars, ssvars, trvars, xvars, pfvars, amvars,
             recvars, lvars>>

(* A state is told from another by the component the behaviour is about: the   *)
(* variables of the others keep their first values.                          *)
OwnVariables ==
    <<subject,
      CASE subject = "pool"          -> vars
        [] subject = "agents"        -> avars
        [] subject = "features"      -> fvars
        [] subject = "accounts"      -> accvars
        [] subject = "limits"        -> rlvars
        [] subject = "harness limit" -> hlvars
        [] subject = "logs"          -> lsvars
        [] subject = "configuration" -> cvars
        [] subject = "synthesis"     -> psvars
        [] subject = "serial"        -> ssvars
        [] subject = "transcription" -> trvars
        [] subject = "translation"   -> xvars
        [] subject = "feedback"      -> pfvars
        [] subject = "mixing"        -> amvars
        [] subject = "recording"     -> recvars
        [] subject = "live"          -> lvars>>

SSpec == SInit /\ [][SNext]_allvars

(* The type invariants of the modules that state one.                        *)
ServicesTypeOK ==
    /\ subject = "pool"          => TypeOK
    /\ subject = "agents"        => ATypeOK
    /\ subject = "features"      => FTypeOK
    /\ subject = "accounts"      => AccTypeOK
    /\ subject = "synthesis"     => PSTypeOK
    /\ subject = "serial"        => SSTypeOK
    /\ subject = "transcription" => TRTypeOK
    /\ subject = "translation"   => XTypeOK
    /\ subject = "feedback"      => PFTypeOK
    /\ subject = "mixing"        => AMTypeOK
    /\ subject = "recording"     => RTypeOK
    /\ subject = "live"          => LTypeOK
=============================================================================
