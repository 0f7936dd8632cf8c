---------------------------- MODULE Services_proofs ----------------------------
(***************************************************************************)
(* Theorems about MCServices, the composition of the components that keep   *)
(* state beside the chunks.  Whichever component a behaviour is about, it is *)
(* a behaviour of every one of their specifications: so what Modules_proofs  *)
(* and Server_proofs prove of each of them holds of the composition, for    *)
(* every value of its constants.                                           *)
(***************************************************************************)
EXTENDS MCServices, Modules_proofs, Server_proofs, TLAPS

(* The composition starts every component in a state of its own and moves one *)
(* of them, the subject, by the component's own steps: no component restricts, *)
(* completes or disturbs another.                                           *)
THEOREM ServicesAreIndependent ==
    SSpec => /\ Spec /\ ASpec /\ FSpec /\ AccSpec /\ RSpec /\ HLSpec
             /\ LSSpec /\ CSpec /\ PSSpec /\ SSSpec /\ TRSpec /\ XSpec
             /\ PFSpec /\ AMSpec /\ RecSpec /\ LSpec
<1>1. SInit => /\ Init /\ AInit /\ FInit /\ AccInit /\ RInit /\ HLInit
               /\ LSInit /\ CInit /\ PSInit /\ SSInit /\ TRInit /\ XInit
               /\ PFInit /\ AMInit /\ RecInit /\ LInit
  BY DEF SInit
<1>2. [SNext]_allvars => [Next]_vars
  BY DEF SNext, allvars
<1>3. [SNext]_allvars => [ANext]_avars
  BY DEF SNext, allvars
<1>4. [SNext]_allvars => [FNext]_fvars
  BY DEF SNext, allvars
<1>5. [SNext]_allvars => [AccNext]_accvars
  BY DEF SNext, allvars
<1>6. [SNext]_allvars => [RNext]_rlvars
  BY DEF SNext, allvars
<1>7. [SNext]_allvars => [HLNext]_hlvars
  BY DEF SNext, allvars
<1>8. [SNext]_allvars => [LSNext]_lsvars
  BY DEF SNext, allvars
<1>9. [SNext]_allvars => [CNext]_cvars
  BY DEF SNext, allvars
<1>10. [SNext]_allvars => [PSNext]_psvars
  BY DEF SNext, allvars
<1>11. [SNext]_allvars => [SSNext]_ssvars
  BY DEF SNext, allvars
<1>12. [SNext]_allvars => [TRNext]_trvars
  BY DEF SNext, allvars
<1>13. [SNext]_allvars => [XNext]_xvars
  BY DEF SNext, allvars
<1>14. [SNext]_allvars => [PFNext]_pfvars
  BY DEF SNext, allvars
<1>15. [SNext]_allvars => [AMNext]_amvars
  BY DEF SNext, allvars
<1>16. [SNext]_allvars => [RecNext]_recvars
  BY DEF SNext, allvars
<1>17. [SNext]_allvars => [LNext]_lvars
  BY DEF SNext, allvars
<1> QED
  BY <1>1, <1>2, <1>3, <1>4, <1>5, <1>6, <1>7, <1>8, <1>9,
     <1>10, <1>11, <1>12, <1>13, <1>14, <1>15, <1>16, <1>17, PTL
  DEF SSpec, Spec, ASpec, FSpec, AccSpec, RSpec, HLSpec, LSSpec, CSpec, PSSpec,
      SSSpec, TRSpec, XSpec, PFSpec, AMSpec, RecSpec, LSpec

(* Every variable of every component keeps its type, in every behaviour of    *)
(* the composition.                                                         *)
THEOREM ServicesAreTyped == SSpec => []ServicesTypeOK
<1>1. ASSUME TypeOK, ATypeOK, FTypeOK, AccTypeOK, PSTypeOK, SSTypeOK,
             TRTypeOK, XTypeOK, PFTypeOK, AMTypeOK, RTypeOK, LTypeOK
      PROVE  ServicesTypeOK
  BY <1>1 DEF ServicesTypeOK
<1> QED
  BY <1>1, ServicesAreIndependent, PoolTyped, AgentsTyped, FeaturesTyped,
     AccountsTyped, SynthesisTyped, SerialCountsStayInRange,
     TranscriptLanguageIsConfigured, CacheStaysBounded, FeedbackIsTyped,
     CrossfadeIsRight, RecordingTyped, PlaylistsTyped, PTL

(* All that the components promise, in every behaviour of the composition: no *)
(* slot is lost and no more FFmpeg processes run than the pool allows; rounds  *)
(* are rejections, and the audit trail is current; no lock-out, role, refresh  *)
(* token or request limit is worked around; clients miss no message; memory, *)
(* file and pipeline agree; each text gets its own audio, each transcript its *)
(* language and each cache its size; reductions do not add up; fades join     *)
(* neighbours; a voice has one process while nothing breaks; recordings are  *)
(* whole and keep their directory, and the playlists agree; and the serial   *)
(* strategies deliver in order.                                             *)
THEOREM ServicesKeepTheirPromises ==
    SSpec => /\ [](/\ SlotsConserved /\ AtMostMaxSizeRun /\ OnlyRenamedEntriesLeak
                   /\ RoundsAreRejections /\ AuditTrailIsCurrent
                   /\ TriesAreBounded /\ TokenRoleIsCurrent /\ RefreshedOnce
                   /\ RateHolds /\ RefusedForGood /\ NothingMissed /\ SettledAgrees
                   /\ AudioIsOwnText /\ TranscriptInLanguage /\ CacheIsBounded
                   /\ OneReduction /\ FadesJoinNeighbours /\ RecordingIsWhole
                   /\ LostBeforeRecording /\ OneProcessPerVoice
                   /\ SubtitlesInOrder /\ SubsMatchVideo)
             /\ SerialIsOrdered
  BY ServicesAreIndependent, NoSlotLostOrInvented, ConcurrencyLimit, OwnEntriesRun,
     NoRoundWithoutRejection, AuditTrailFollows, WrongPasswordsAreBounded,
     AcceptedTokenHasRole, RefreshTokensRotate, NoWindowExceedsLimit,
     WindowNeverBegins, ClientsMissNothing, ConfigurationSettles, TextGetsItsAudio,
     TranscriptLanguageIsConfigured, CacheStaysBounded, ReductionsDoNotAddUp,
     CrossfadeIsRight, RecordingsAreWhole, SubtitlesKeepOrder, PlaylistsShowTheSame,
     RecordedDirectoryStays, VoiceHasOneProcess, SerialImplementsOrderedDelivery, PTL
=============================================================================
