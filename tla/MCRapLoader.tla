---------------------------- MODULE MCRapLoader ----------------------------
(* Two tasks and two files.  The name of the first is the beginning of the    *)
(* second's, which has no entry point of its own; dlopen takes either for the *)
(* other.                                                                     *)
EXTENDS RapLoader, TLC

CONSTANTS t1, t2, app, apple

MCStartsWith == app :> {app, apple} @@ apple :> {apple}
MCRequests   == {<<app, TRUE>>, <<app, FALSE>>, <<apple, TRUE>>}
MCLead       == app :> 1 @@ apple :> 1
=============================================================================
