----------------------------- MODULE Unresolved -----------------------------
(***************************************************************************)
(* The table of unresolved symbols.  A relocation of an object whose symbol *)
(* nobody exports yet is put into the table; every load that succeeds ends *)
(* with a pass over the table that relocates what has become known, and a  *)
(* second one that compacts it.                                            *)
(*                                                                         *)
(* The table is a list of blocks of records.  A record holds a name or a   *)
(* relocation; a relocation refers to its name by the name's ordinal, the  *)
(* position among the names of the table.  A long name takes several       *)
(* records, the ones behind the first hold nothing but text.               *)
(*                                                                         *)
(* All of this runs inside dlopen and dlclose with the linker locked: one  *)
(* call at a time.                                                         *)
(***************************************************************************)
EXTENDS Integers, SequencesExt

CONSTANTS
  Objs,       \* object files
  NoObj,
  Names,      \* symbol names
  NoName,
  Length,     \* Length[n]: strlen of the name
  Exports,    \* Exports[o]: the names o defines, all global
  Wants,      \* Wants[o]: the symbols of o's relocations, in their order
  BlockRecs,  \* RTEMS_RTL_UNRESOLVED_BLOCK_SIZE
  NameBytes,  \* sizeof (rtems_rtl_unresolv_name_t)
  RecBytes,   \* sizeof (rtems_rtl_unresolv_rec_t)
  PtrBytes,   \* sizeof a pointer
  MaxBlocks   \* bound: no load starts with more blocks than this

ASSUME UnresolvedAssumption ==
  /\ IsFiniteSet(Objs) /\ NoObj \notin Objs
  /\ IsFiniteSet(Names) /\ NoName \notin Names
  /\ Length \in [Names -> Nat \ {0}]
  /\ Exports \in [Objs -> SUBSET Names]
  /\ Wants \in [Objs -> Seq(Names)]
  /\ {BlockRecs, NameBytes, RecBytes, PtrBytes} \subseteq Nat \ {0}
  /\ MaxBlocks \in Nat

VARIABLES
  loaded,   \* the objects that have been loaded
  loading,  \* the object being loaded, or NoObj
  next,     \* the next of its relocations
  pc,       \* "idle", "load", "resolve", "compact"
  blocks,   \* unresolved->blocks
  at,       \* compacting: the block, and the record in it
  value,    \* value[s]: the symbol site s has been relocated to, or NoName
  failed,   \* sites whose relocation failed when their symbol was found
  count,    \* count[o]: obj->unresolved
  misnamed, \* sites whose record has the ordinal of another name, or of none
  sound,    \* FALSE once the records of a block are not those it counts
  ub        \* TRUE once memory outside of a block or an object was used

loadVars == <<loaded, loading, next>>
siteVars == <<value, failed, count, misnamed>>
vars == <<loaded, loading, next, pc, blocks, at, value, failed, count, misnamed,
          sound, ub>>

\* The places that are relocated: the i-th relocation of object o.
Sites == UNION {{<<o, i>> : i \in DOMAIN Wants[o]} : o \in Objs}
Wanted(s) == Wants[s[1]][s[2]]

\* The global symbol table.
Known == UNION {Exports[o] : o \in loaded \union ({loading} \ {NoObj})}

-----------------------------------------------------------------------------
(* Records and blocks. *)

Positions == 0 .. BlockRecs - 1

Empty == [type |-> "empty"]
Text  == [type |-> "text"]
NameRec(n)     == [type |-> "name", name |-> n, refs |-> 1]
RelocRec(s, i) == [type |-> "reloc", site |-> s, name |-> i, obj |-> "live"]

NewBlock == [recs |-> 0, rec |-> [k \in Positions |-> Empty]]

CeilDiv(a, b) == (a + b - 1) \div b

\* rtems_rtl_unresolved_name_recs: what a name is given ...
NameRecs(n) == CeilDiv(Length[n], NameBytes)

\* ... and what rtems_rtl_unresolved_rec_next steps over: the length that is
\* stored with a name counts the nul.
Extent(r) == IF r.type = "name" THEN CeilDiv(Length[r.name] + 1, NameBytes) ELSE 1

\* rtems_rtl_unresolved_rec_is_last.  The difference of two record pointers is
\* divided by the size of a pointer again, so the first test fires late, and
\* the walk relies on an empty record behind the last one.
StopsAt(b, k) == k \div PtrBytes >= b.recs
IsLast(b, k)  == StopsAt(b, k) \/ b.rec[k].type = "empty"

\* The records a walk over block b comes to, the one behind the end included.
\* A walk that comes to text stays there for ever, or ends if the text is nul.
Reached(b) ==
  LET reached[i \in 0 .. BlockRecs] ==
        IF i = 0 THEN {0}
        ELSE LET before == reached[i - 1]
             IN  IF i - 1 \in before /\ ~IsLast(b, i - 1) /\ b.rec[i - 1].type # "text"
                   THEN before \union {i - 1 + Extent(b.rec[i - 1])}
                   ELSE before
  IN  reached[BlockRecs]

Visited(b) == {k \in Reached(b) \intersect Positions : ~IsLast(b, k)}

\* A walk leaves the block when there is no empty record behind the last one.
\* It then reads what the heap has there: a zero, which ends the walk as if
\* nothing had happened, or anything else.
Overruns(b) == \E k \in Reached(b) \ Positions : ~StopsAt(b, k)
Stuck(b)    == \E k \in Visited(b) : b.rec[k].type = "text"

WalkMayFail == \E i \in DOMAIN blocks : Overruns(blocks[i]) \/ Stuck(blocks[i])

Cells == UNION {{<<i, k>> : k \in Visited(blocks[i])} : i \in DOMAIN blocks}
Rec(c) == blocks[c[1]].rec[c[2]]
NameCells  == {c \in Cells : Rec(c).type = "name"}
RelocCells == {c \in Cells : Rec(c).type = "reloc"}

Before(c, d) == c[1] < d[1] \/ (c[1] = d[1] /\ c[2] <= d[2])
Rank(cells, c) == Cardinality({d \in cells : Before(d, c)})
Ordinal(c) == Rank(NameCells, c)

-----------------------------------------------------------------------------
\* TypeOK: the types of the variables; a block counts more records than it has room
\* for only once a record was written behind its end (rtems_rtl_unresolved_add does
\* both for a name that does not fit, AddBehindEnd, and in no other case).
TypeOK ==
  /\ loaded \subseteq Objs /\ loading \in Objs \union {NoObj}
  /\ next \in Nat
  /\ pc \in {"idle", "load", "resolve", "compact"}
  /\ \A i \in DOMAIN blocks :
       /\ blocks[i].recs \in Nat /\ (~ub => blocks[i].recs <= BlockRecs)
       /\ \A k \in Positions :
            blocks[i].rec[k].type \in {"empty", "text", "name", "reloc"}
  /\ at \in Nat \X Nat
  /\ value \in [Sites -> Names \union {NoName}]
  /\ failed \subseteq Sites
  /\ count \in [Objs -> Nat]
  /\ misnamed \subseteq Sites
  /\ sound \in BOOLEAN /\ ub \in BOOLEAN

Init ==
  /\ loaded = {} /\ loading = NoObj /\ next = 1
  /\ pc = "idle"
  /\ blocks = <<>> /\ at = <<0, 0>>
  /\ value = [s \in Sites |-> NoName]
  /\ failed = {}
  /\ count = [o \in Objs |-> 0]
  /\ misnamed = {}
  /\ sound = TRUE /\ ub = FALSE

\* Whatever happens next is not the program's any more.
GoWrong == /\ ub' = TRUE
           /\ UNCHANGED <<loadVars, pc, blocks, at, siteVars, sound>>

-----------------------------------------------------------------------------
(* Loading and unloading of objects. *)

\* The symbols of o are entered, none of which is there already.
Load(o) ==
  /\ pc = "idle" /\ o \notin loaded /\ Len(blocks) <= MaxBlocks
  /\ Exports[o] \intersect Known = {}
  /\ loading' = o /\ next' = 1
  /\ value' = [s \in Sites |-> IF s[1] = o THEN NoName ELSE value[s]]
  /\ failed' = {s \in failed : s[1] # o}
  /\ count' = [count EXCEPT ![o] = 0]
  /\ misnamed' = {s \in misnamed : s[1] # o}
  /\ pc' = "load"
  /\ UNCHANGED <<loaded, blocks, at, sound, ub>>

\* An object is freed, its records in the table are not.
Abandoned(bs, o) ==
  [i \in DOMAIN bs |->
    [bs[i] EXCEPT !.rec = [k \in Positions |->
       IF @[k].type = "reloc" /\ @[k].obj = "live" /\ @[k].site[1] = o
         THEN [@[k] EXCEPT !.obj = "freed"] ELSE @[k]]]]

\* The load fails, for any of many reasons.
LoadFails ==
  /\ pc = "load"
  /\ blocks' = Abandoned(blocks, loading)
  /\ loading' = NoObj /\ next' = 1
  /\ pc' = "idle"
  /\ UNCHANGED <<loaded, at, siteVars, sound, ub>>

Close(o) ==
  /\ pc = "idle" /\ o \in loaded
  /\ loaded' = loaded \ {o}
  /\ blocks' = Abandoned(blocks, o)
  /\ UNCHANGED <<loading, next, pc, at, siteVars, sound, ub>>

Site == <<loading, next>>
Symbol == Wants[loading][next]
MoreRelocs == pc = "load" /\ next <= Len(Wants[loading])

\* The symbol is exported: relocate.
Relocate ==
  /\ MoreRelocs /\ Symbol \in Known
  /\ value' = [value EXCEPT ![Site] = Symbol]
  /\ next' = next + 1
  /\ UNCHANGED <<loaded, loading, pc, blocks, at, failed, count, misnamed, sound, ub>>

LoadDoneUnresolved ==
  /\ pc = "load" /\ next > Len(Wants[loading])
  /\ loaded' = loaded \union {loading}
  /\ loading' = NoObj /\ next' = 1
  /\ pc' = "idle"
  /\ UNCHANGED <<blocks, at, siteVars, sound, ub>>

LoadDone ==
  /\ pc = "load" /\ next > Len(Wants[loading])
  /\ loaded' = loaded \union {loading}
  /\ loading' = NoObj /\ next' = 1
  /\ pc' = "resolve"
  /\ UNCHANGED <<blocks, at, siteVars, sound, ub>>

-----------------------------------------------------------------------------
(* rtems_rtl_unresolved_add. *)

Unknown == MoreRelocs /\ Symbol \notin Known

\* The blocks, and the one of them with a spare record: a new one if there is
\* none.  (That there is no memory for it is one of the reasons of LoadFails.)
Spare == {i \in DOMAIN blocks : blocks[i].recs < BlockRecs}
Blocks == IF Spare = {} THEN Append(blocks, NewBlock) ELSE blocks
Block == IF Spare = {} THEN Len(blocks) + 1
                       ELSE CHOOSE i \in Spare : \A j \in Spare : i <= j

\* Block b with relocation s at its end, and with name n at its end.
WithReloc(b, s, i) == [recs |-> b.recs + 1,
                       rec  |-> [b.rec EXCEPT ![b.recs] = RelocRec(s, i)]]
WithName(b, n) ==
  [recs |-> b.recs + NameRecs(n),
   rec  |-> [k \in Positions |->
               IF k = b.recs THEN NameRec(n)
               ELSE IF k \in b.recs + 1 .. b.recs + NameRecs(n) - 1 THEN Text
               ELSE b.rec[k]]]

\* rtems_rtl_unresolved_find_name finds, of the names that are one shorter than
\* the symbol, the first: the stored length counts the nul, and strcmp is true
\* of names that differ.  It never finds the name itself.
Found == {c \in NameCells : Length[Rec(c).name] + 1 = Length[Symbol]}
NewIndex == Cardinality(NameCells) + 1

\* A name that goes into a block with names behind it has an ordinal of its own
\* choice: the one it is given is that of the last name, and the relocations of
\* the names behind it refer to the one in front of theirs from then on.
Behind == {c \in NameCells : c[1] > Block}
Displaced ==
  LET ordinal == Cardinality(NameCells \ Behind) + 1
      live    == {c \in RelocCells : Rec(c).obj = "live" /\ Rec(c).name >= ordinal}
  IN  IF Behind = {} THEN {} ELSE {Site} \union {Rec(c).site : c \in live}

AddedUncounted == /\ next' = next + 1
                  /\ UNCHANGED <<loaded, loading, pc, at, value, failed, count, ub>>
Added == /\ next' = next + 1
         /\ count' = [count EXCEPT ![loading] = @ + 1]
         /\ UNCHANGED <<loaded, loading, pc, at, value, failed, ub>>

\* A name is found, and shared.
AddShared ==
  /\ Unknown
  /\ \E c \in Found :
       /\ \A d \in Found : Before(c, d)
       /\ LET shared == [Blocks EXCEPT ![c[1]].rec[c[2]].refs = @ + 1]
          IN  blocks' = [shared EXCEPT ![Block] = WithReloc(@, Site, Ordinal(c))]
  /\ misnamed' = misnamed \union {Site}
  /\ UNCHANGED sound
  /\ Added

FitsInOffByOne(b) == NameRecs(Symbol) <= BlockRecs - b.recs + 1
FitsIn(b) == NameRecs(Symbol) <= BlockRecs - b.recs
NameFits(b) == b.recs + NameRecs(Symbol) < BlockRecs

\* A step over a name whose length with the nul needs one more record misses
\* the record behind it.
StepsRight == Extent(NameRec(Symbol)) = NameRecs(Symbol)

\* A new name and the relocation go into the block.
AddName ==
  /\ Unknown /\ Found = {}
  /\ NameFits(Blocks[Block])
  /\ blocks' = [Blocks EXCEPT ![Block] =
                  WithReloc(WithName(@, Symbol), Site, NewIndex)]
  /\ sound' = (sound /\ StepsRight)
  /\ misnamed' = misnamed \union Displaced
  /\ Added

\* The name fills the block, the relocation goes into a new one.
AddFull ==
  /\ Unknown /\ Found = {}
  /\ FitsIn(Blocks[Block]) /\ ~NameFits(Blocks[Block])
  /\ blocks' = Append([Blocks EXCEPT ![Block] = WithName(@, Symbol)],
                      WithReloc(NewBlock, Site, NewIndex))
  /\ sound' = (sound /\ StepsRight)
  /\ misnamed' = misnamed \union Displaced
  /\ Added

\* There is no memory for the new one: the load fails, the name stays.
AddFullFails ==
  /\ Unknown /\ Found = {}
  /\ FitsIn(Blocks[Block]) /\ ~NameFits(Blocks[Block])
  /\ blocks' = Abandoned([Blocks EXCEPT ![Block] = WithName(@, Symbol)], loading)
  /\ loading' = NoObj /\ next' = 1
  /\ pc' = "idle"
  /\ sound' = (sound /\ StepsRight)
  /\ misnamed' = misnamed \union Displaced
  /\ UNCHANGED <<loaded, at, value, failed, count, ub>>

\* The name does not fit and goes into a new block, but its records are counted
\* in the first: that one counts more than it has, the new one none, and the
\* relocation is written behind the end of the first.
AddBehindEnd ==
  /\ Unknown /\ Found = {}
  /\ ~FitsIn(Blocks[Block])
  /\ blocks' = Append([Blocks EXCEPT ![Block].recs = @ + NameRecs(Symbol) + 1],
                      [WithName(NewBlock, Symbol) EXCEPT !.recs = 0])
  /\ sound' = FALSE
  /\ ub' = TRUE
  /\ next' = next + 1
  /\ count' = [count EXCEPT ![loading] = @ + 1]
  /\ UNCHANGED <<loaded, loading, pc, at, value, failed, misnamed>>

-----------------------------------------------------------------------------
(* rtems_rtl_unresolved_resolve and _compact. *)

\* The relocations whose ordinal is that of a name that is exported now.
Hits == LET names == NameCells
            known == {n \in names : Rec(n).name \in Known}
            found == {Rank(names, n) : n \in known}
        IN  {c \in RelocCells : Rec(c).name \in found}
HitsOn(n) == LET i == Ordinal(n) IN {c \in RelocCells : Rec(c).name = i}
SitesOf(cells) == {Rec(c).site : c \in cells}

RefsAfter(n) ==
  LET hits == Cardinality(HitsOn(n))
  IN  IF Rec(n).name \notin Known THEN Rec(n).refs
      ELSE IF hits > Rec(n).refs THEN 0 ELSE Rec(n).refs - hits

\* The relocations of which a name in front of theirs is going to be removed:
\* the names behind it are renumbered, the relocations are not.
Renumbered ==
  LET removed == {Ordinal(n) : n \in {m \in NameCells : RefsAfter(m) = 0}}
  IN  {c \in RelocCells : \E i \in removed : i < Rec(c).name}

\* Each hit is relocated, which may fail, and its record cleared.
Resolve ==
  /\ pc = "resolve"
  /\ \A c \in Hits : Rec(c).obj = "live"
  /\ \E bad \in SUBSET SitesOf(Hits) :
       /\ value' = [s \in Sites |->
            IF s \in SitesOf(Hits) \ bad
              THEN Rec(CHOOSE n \in NameCells :
                         \E c \in HitsOn(n) \intersect Hits : Rec(c).site = s).name
              ELSE value[s]]
       /\ failed' = failed \union bad
       /\ count' = [o \in Objs |->
            LET good == {c \in Hits : Rec(c).site[1] = o /\ Rec(c).site \notin bad}
            IN  IF Cardinality(good) > count[o] THEN 0
                ELSE count[o] - Cardinality(good)]
  /\ blocks' = [i \in DOMAIN blocks |->
       [blocks[i] EXCEPT !.rec = [k \in Positions |->
          IF <<i, k>> \in Hits THEN [@[k] EXCEPT !.obj = "null"]
          ELSE IF <<i, k>> \in NameCells THEN [@[k] EXCEPT !.refs = RefsAfter(<<i, k>>)]
          ELSE @[k]]]]
  /\ misnamed' = misnamed \union
       SitesOf({c \in Renumbered \ Hits : Rec(c).obj = "live"})
  /\ at' = <<Len(blocks), 0>>
  /\ pc' = "compact"
  /\ UNCHANGED <<loadVars, sound, ub>>

\* A hit belongs to an object that has been freed.
ResolveFreed ==
  /\ pc = "resolve"
  /\ \E c \in Hits : Rec(c).obj # "live"
  /\ GoWrong

\* A walk reads behind the end of a block, or never ends.
WalkFails ==
  /\ Unknown \/ pc = "resolve"
  /\ WalkMayFail
  /\ GoWrong

Here == blocks[at[1]]
HereRec == Here.rec[at[2]]
Compacting == pc = "compact" /\ at[1] > 0

\* The record is that of a name without references or of a cleared relocation:
\* removed as rtems_rtl_unresolved_clean_block does it.  The index it computes
\* is divided by the size of a record once too often, so it moves more records
\* than follow, and the block is counted down by one.
Unused(r) == \/ r.type = "name" /\ r.refs = 0
             \/ r.type = "reloc" /\ r.obj = "null"
SizeOf(r) == IF r.type = "name" THEN NameRecs(r.name) ELSE 1
MovedShort(b, k, n) == b.recs - k \div RecBytes - n - 1
Moved(b, k, n) == b.recs - k \div RecBytes - n

Cleaned(b, k, n) ==
  [recs |-> b.recs - 1,
   rec  |-> [j \in Positions |->
               IF j \in b.recs - 1 .. b.recs + n - 2 THEN Empty
               ELSE IF j \in k .. k + Moved(b, k, n) - 1 THEN b.rec[j + n]
               ELSE b.rec[j]]]

InBlock(b, k, n) == /\ Moved(b, k, n) >= 0
                    /\ k + n + Moved(b, k, n) <= BlockRecs
                    /\ b.recs + n - 1 <= BlockRecs

AtRecord == Compacting /\ at[2] \in Positions /\ ~IsLast(Here, at[2])

CompactCleanSteps ==
  /\ AtRecord /\ Unused(HereRec)
  /\ InBlock(Here, at[2], SizeOf(HereRec))
  /\ blocks' = [blocks EXCEPT ![at[1]] = Cleaned(@, at[2], SizeOf(HereRec))]
  /\ at' = [at EXCEPT ![2] = @ + 1]
  /\ sound' = (sound /\ SizeOf(HereRec) = 1)
  /\ UNCHANGED <<loadVars, pc, siteVars, ub>>

CompactClean ==
  /\ AtRecord /\ Unused(HereRec)
  /\ InBlock(Here, at[2], SizeOf(HereRec))
  /\ blocks' = [blocks EXCEPT ![at[1]] = Cleaned(@, at[2], SizeOf(HereRec))]
  /\ sound' = (sound /\ SizeOf(HereRec) = 1)
  /\ UNCHANGED <<loadVars, pc, at, siteVars, ub>>

\* The records moved reach behind the end of the block.
CompactBehindEnd ==
  /\ AtRecord /\ Unused(HereRec)
  /\ ~InBlock(Here, at[2], SizeOf(HereRec))
  /\ GoWrong

CompactSkip ==
  /\ AtRecord /\ ~Unused(HereRec) /\ HereRec.type # "text"
  /\ at' = [at EXCEPT ![2] = @ + Extent(HereRec)]
  /\ UNCHANGED <<loadVars, pc, blocks, siteVars, sound, ub>>

\* Behind the end of the block, or stuck in the text of a name.
CompactFails ==
  /\ \/ Compacting /\ at[2] \notin Positions /\ ~StopsAt(Here, at[2])
     \/ AtRecord /\ HereRec.type = "text"
  /\ GoWrong

\* The end of a block: it is freed if nothing is left of it.
CompactNext ==
  /\ Compacting
  /\ at[2] \in Positions => IsLast(Here, at[2]) \/ HereRec.type = "text"
  /\ blocks' = IF Here.recs > 0 THEN blocks
               ELSE [i \in 1 .. Len(blocks) - 1 |->
                       IF i < at[1] THEN blocks[i] ELSE blocks[i + 1]]
  /\ at' = <<at[1] - 1, 0>>
  /\ UNCHANGED <<loadVars, pc, siteVars, sound, ub>>

CompactDone ==
  /\ pc = "compact" /\ at[1] = 0
  /\ pc' = "idle"
  /\ UNCHANGED <<loadVars, blocks, at, siteVars, sound, ub>>

-----------------------------------------------------------------------------
Add == \/ AddShared \/ AddName \/ AddFull \/ AddFullFails \/ AddBehindEnd

Compact == \/ CompactClean \/ CompactBehindEnd \/ CompactSkip \/ CompactFails
           \/ CompactNext \/ CompactDone

Next ==
  \/ /\ ~ub
     /\ \/ \E o \in Objs : Load(o) \/ Close(o)
        \/ LoadFails \/ Relocate \/ LoadDone
        \/ Add \/ WalkFails \/ Resolve \/ ResolveFreed \/ Compact
  \/ ub /\ UNCHANGED vars

Spec == Init /\ [][Next]_vars

-----------------------------------------------------------------------------
(* Properties.  All but TypeOK and PatchedRight say what the table does as   *)
(* long as no memory outside of it was used (ub) and its blocks hold the     *)
(* records they count (sound); what they say of the symbol of a relocation   *)
(* leaves out those whose ordinal is not that of their name (misnamed).      *)

\* The relocations that wait for their symbol: met by the loader, and neither
\* done nor failed.
Pending == {s \in Sites : /\ value[s] = NoName /\ s \notin failed
                          /\ \/ s[1] \in loaded
                             \/ s[1] = loading /\ s[2] < next}

RecordsOf(s) == {c \in RelocCells : Rec(c).site = s /\ Rec(c).obj = "live"}

\* PatchedRight: a place is relocated with the symbol it asks for or not at all.
\* This is what rtl-unresolved.h:37-42 promises, and it does not hold: see Found,
\* Displaced and Renumbered (rtems_rtl_unresolved_resolve_reloc).
PatchedRight == \A s \in Sites : value[s] \in {NoName, Wanted(s)}

\* PendingIsRecorded: a relocation that waits has exactly one record, in every
\* state of a compaction too (rtems_rtl_unresolved_clean_block moves records
\* over one another), and the ordinal in it is that of its name.
PendingIsRecorded ==
  sound /\ ~ub =>
    \A s \in Pending : \E c \in RecordsOf(s) :
      /\ RecordsOf(s) = {c}
      /\ s \in misnamed \/ pc = "compact" \/
           \E n \in NameCells : Ordinal(n) = Rec(c).name /\ Rec(n).name = Wanted(s)

\* NothingLeftBehind: between two calls no relocation waits for a symbol that
\* is there (the pass at the end of a load relocates all that has become known).
NothingLeftBehind ==
  sound /\ ~ub /\ pc = "idle" => \A s \in Pending \ misnamed : Wanted(s) \notin Known

\* CountIsExact: obj->unresolved, from which RTEMS_RTL_OBJ_UNRESOLVED is taken
\* away when it reaches zero, counts the relocations that wait or have failed.
CountIsExact ==
  sound /\ ~ub =>
    \A o \in loaded :
      count[o] = Cardinality({s \in Pending \union failed : s[1] = o})

\* Compacted: between two calls nothing in the table is unused: "The table is always
\* maintained compacted" (rtl-unresolved.h:22).
Compacted ==
  sound /\ ~ub /\ pc = "idle" => \A c \in Cells : ~Unused(Rec(c))

=============================================================================
