---------------------------- MODULE MCFFmpegPool ----------------------------
(* FFmpegPool on a small instance. *)
EXTENDS FFmpegPool

(* Two ids shared by all callers: run_command in the same millisecond. *)
SharedIds == [c \in Callers |-> {"now", "later"}]
=============================================================================
