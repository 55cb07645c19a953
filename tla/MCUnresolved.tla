---------------------------- MODULE MCUnresolved ----------------------------
(* Three objects that need one another's symbols, in small blocks.  Of the   *)
(* names two are equally long, one is a character longer than those, and one *)
(* takes two records.                                                        *)
EXTENDS Unresolved, TLC

CONSTANTS a, b, c, x, y, w, z

MCLength  == x :> 3 @@ y :> 3 @@ w :> 4 @@ z :> 20
MCExports == a :> {w} @@ b :> {x} @@ c :> {y, z}
MCWants   == a :> <<x>> @@ b :> <<y, z>> @@ c :> <<w>>
=============================================================================
