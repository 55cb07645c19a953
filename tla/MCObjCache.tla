----------------------------- MODULE MCObjCache -----------------------------
(* Two files, one shorter and one longer than the buffer. *)
EXTENDS ObjCache, TLC

CONSTANTS short, long

MCLength == short :> 2 @@ long :> 5
=============================================================================
