---------------------------- MODULE MCSupervision ----------------------------
(***************************************************************************)
(* One run for each script and limit: soft limits up to a hard limit of    *)
(* two ticks, one SIGTERM from outside.                                    *)
(***************************************************************************)
EXTENDS Supervision
=============================================================================
