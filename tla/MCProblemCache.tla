---------------------------- MODULE MCProblemCache ----------------------------
(***************************************************************************)
(* Three submissions of two versions of a problem that arrive in any order *)
(* and have a random or a standard test each.                              *)
(***************************************************************************)
EXTENDS ProblemCache, TLC

CONSTANTS s1, s2, s3

MCSubmissions == { s1, s2, s3 }
MCVersion == (s1 :> 1) @@ (s2 :> 1) @@ (s3 :> 2)
=============================================================================
