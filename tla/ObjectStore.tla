---------------------------- MODULE ObjectStore -----------------------------
(***************************************************************************)
(* What loading and unloading an object file promises to the rest of the   *)
(* linker: a load is all or nothing.  Either the object is there with all  *)
(* the symbols it exports, or nothing has changed.  A symbol that is there *)
(* already may be left out, as the comment at rtl-elf.c:393 wants it for a *)
(* weak one, or be entered a second time, as the code does.                *)
(***************************************************************************)
EXTENDS Naturals

CONSTANTS
  Files,    \* the object files
  Exported, \* Exported[f]: the symbols f puts into the global table
  Base      \* the owner of the symbols of the base image

VARIABLES
  loaded,   \* the objects that are loaded
  symbols   \* the global symbols, each with its owner

storeVars == <<loaded, symbols>>

StoreInit == loaded = {} /\ symbols = {}

Load(f) ==
  /\ f \notin loaded
  /\ loaded' = loaded \union {f}
  /\ \E entered \in SUBSET Exported[f] :
       /\ \A n \in Exported[f] \ entered : \E s \in symbols : s[2] = n
       /\ symbols' = symbols \union ({f} \X entered)

Unload(f) ==
  /\ f \in loaded
  /\ loaded' = loaded \ {f}
  /\ symbols' = symbols \ ({f} \X Exported[f])

\* The base image never takes anything away and never shadows a symbol.
AddBase ==
  /\ symbols \subseteq symbols'
  /\ \A s \in symbols' \ symbols : s[1] = Base /\ \A t \in symbols : t[2] # s[2]
  /\ UNCHANGED loaded

StoreNext == AddBase \/ \E f \in Files : Load(f) \/ Unload(f)

StoreSpec == StoreInit /\ [][StoreNext]_storeVars
=============================================================================
