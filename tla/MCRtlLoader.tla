----------------------------- MODULE MCRtlLoader -----------------------------
(***************************************************************************)
(* Instances of RtlLoader for TLC.                                         *)
(***************************************************************************)
EXTENDS RtlLoader, TLC

CONSTANT Archived   \* the names of the form archive:object

\* What rtems_rtl_match_name compares has no '/' in it here: of an argument it is all
\* of the name, of an oname all that rtems_rtl_obj_parse_name leaves of it, which
\* in an archive is the object's name alone.
WholeName  == [n \in AllNames |-> n]
ObjectName == [n \in AllNames |-> IF n \in Archived THEN <<"object of", n>> ELSE n]

Symmetry == Permutations(Procs) \union Permutations(Names \ Archived)
              \union Permutations(Descs \ {Base})
=============================================================================
