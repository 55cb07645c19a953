----------------------------- MODULE MCObjLoad -----------------------------
(* An ELF file, an ELF file in an archive whose strong symbol is weak in the  *)
(* first, a RAP file and a file of no known format.  The table of the base    *)
(* image has a name of its own and one the first file defines as well.        *)
EXTENDS ObjLoad, TLC

CONSTANTS f1, f2, f3, f4, A, B, C, D

MCFormat   == f1 :> "elf" @@ f2 :> "elf" @@ f3 :> "rap" @@ f4 :> "none"
MCSections == f1 :> 2 @@ f2 :> 1 @@ f3 :> 0 @@ f4 :> 0
MCRegions  == f1 :> {"text", "data", "bss"} @@ f2 :> {"text"}
              @@ f3 :> {"text", "const"} @@ f4 :> {}
Strong(n)  == [name |-> n, weak |-> FALSE]
Weak(n)    == [name |-> n, weak |-> TRUE]
MCExports  == f1 :> <<Strong(A), Weak(B)>> @@ f2 :> <<Strong(B), Strong(C)>>
              @@ f3 :> <<Strong(D)>> @@ f4 :> <<>>
MCRefs     == f1 :> <<C>> @@ f2 :> <<>> @@ f3 :> <<D, A>> @@ f4 :> <<>>
MCBase     == <<A, D>>
=============================================================================
