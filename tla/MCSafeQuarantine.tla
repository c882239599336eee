-------------------------- MODULE MCSafeQuarantine --------------------------
(* Two files of the same name, one on the quarantine's filesystem and one  *)
(* on another, and two samples.                                            *)
EXTENDS SafeQuarantine, TLC

CONSTANTS near, far, file

MCNameOf == (near :> file) @@ (far :> file)
=============================================================================
