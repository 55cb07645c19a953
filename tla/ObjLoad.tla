------------------------------ MODULE ObjLoad -------------------------------
(***************************************************************************)
(* One load of an object file, step by step: find the file, open it, look  *)
(* into the archive, choose the format, add the sections, allocate and     *)
(* load them, enter the symbols, relocate.  Every step can fail, and what  *)
(* was done so far has to be undone.  Loads and unloads follow one another *)
(* because all of this runs with the linker locked.                        *)
(*                                                                         *)
(* An allocation that fails takes the error path of the code, also where   *)
(* rtems_rtl_alloc_new clears the memory at address 0 first.               *)
(***************************************************************************)
EXTENDS Integers, SequencesExt

CONSTANTS
  Files,      \* object files; an object is named by its file
  NoFile,
  Base,       \* the object of the base image
  Names,      \* symbol names
  Format,     \* Format[f]: "elf", "rap" or "none"
  InArchive,  \* the files that are members of an archive
  Sections,   \* Sections[f]: the sections of f the ELF loader keeps
  Regions,    \* Regions[f]: which of text, const, data, bss f needs
  Exports,    \* Exports[f]: sequence of [name, weak], the symbols f defines
  Refs,       \* Refs[f]: sequence of the names f's relocations refer to
  BaseTable,  \* the names of the base image's symbol table, in order
  MaxBase     \* bound: how often the table of the base image is added

ASSUME ObjLoadAssumption ==
  /\ IsFiniteSet(Files) /\ NoFile \notin Files /\ Base \notin Files
  /\ Format \in [Files -> {"elf", "rap", "none"}]
  /\ InArchive \subseteq Files
  /\ Sections \in [Files -> Nat]
  /\ Regions \in [Files -> SUBSET {"text", "const", "data", "bss"}]
  /\ Exports \in [Files -> Seq([name : Names, weak : BOOLEAN])]
  /\ Refs \in [Files -> Seq(Names)]
  /\ BaseTable \in Seq(Names)
  /\ MaxBase \in Nat

VARIABLES
  phase,    \* where the load is; "idle" when there is none
  cur,      \* the object being loaded, or NoFile
  loader,   \* the format loader that was chosen
  step,     \* sections, regions or relocations done in this phase
  fd,       \* the open file, or NoFile
  dirty,    \* TRUE when the caches hold something
  listed,   \* rtl->objects without the base
  ptr,      \* ptr[f]: the pointers of f's descriptor that are not NULL
  mem,      \* mem[f]: the blocks of f that are allocated
  buffer,   \* TRUE while the name buffer of the RAP relocator is allocated
  twice,    \* TRUE once a block was freed that was not allocated
  globals,  \* the global symbols in the order they were inserted
  based     \* how often the base image's table was added

loadVars == <<phase, cur, loader, step>>
memVars  == <<ptr, mem, twice>>
vars == <<phase, cur, loader, step, fd, dirty, listed, ptr, mem, buffer, twice,
          globals, based>>

RegionOrder == <<"text", "const", "data", "bss">>
RapSecs     == 6
AllRegions  == Range(RegionOrder)
NameBlocks  == {"oname", "aname", "fname"}
Blocks      == AllRegions \union NameBlocks \union {"desc", "symtab"}
Sects       == "sections"  \* the section records, all of them as one block

-----------------------------------------------------------------------------
(* The global symbol table: per name the order of insertion is that of its  *)
(* bucket.                                                                  *)

Entry(o, n, w) == [owner |-> o, name |-> n, weak |-> w]

\* rtems_rtl_symbol_global_find: the first of that name.
Known(n) == \E i \in DOMAIN globals : globals[i].name = n
Found(n) ==
  globals[CHOOSE i \in DOMAIN globals :
            globals[i].name = n /\ \A j \in 1 .. i - 1 : globals[j].name # n]

\* rtems_rtl_symbol_obj_add: all symbols of the table, present or not.  (The comment
\* at rtl-elf.c:393 says that a weak symbol that is present is ignored.)
Added(f) == globals \o [i \in DOMAIN Exports[f] |->
                          Entry(f, Exports[f][i].name, Exports[f][i].weak)]

\* Mutant of Erased: by name, whosever the symbol is.
ErasedByName(f) ==
  SelectSeq(globals, LAMBDA e : ~\E i \in DOMAIN Exports[f] : Exports[f][i].name = e.name)

\* rtems_rtl_symbol_obj_erase, the chain from its first symbol to its last.
Erased(f) ==
  LET kept[i \in 0 .. Len(globals)] ==
        IF i = 0 THEN <<>>
        ELSE IF globals[i].owner = f THEN kept[i - 1]
        ELSE Append(kept[i - 1], globals[i])
  IN  kept[Len(globals)]

\* Mutant of Duplicate: a name that somebody exports weakly is free.
DuplicateStrong(f) ==
  \E i \in DOMAIN Exports[f] : Known(Exports[f][i].name)
    /\ ~Found(Exports[f][i].name).weak /\ ~Exports[f][i].weak

\* A symbol that is exported already and is not weak in the new object.
Duplicate(f) == \E i \in DOMAIN Exports[f] : Known(Exports[f][i].name)
                                             /\ ~Exports[f][i].weak

\* rtems_rtl_symbol_obj_find: the object's own symbols first.
ObjKnows(f, n) ==
  \/ "symtab" \in ptr[f] /\ \E i \in DOMAIN Exports[f] : Exports[f][i].name = n
  \/ Known(n)

-----------------------------------------------------------------------------
(* Memory. *)

Init ==
  /\ phase = "idle" /\ cur = NoFile /\ loader = "none" /\ step = 0
  /\ fd = NoFile /\ dirty = FALSE
  /\ listed = {}
  /\ ptr = [f \in Files |-> {}] /\ mem = [f \in Files |-> {}]
  /\ buffer = FALSE /\ twice = FALSE
  /\ globals = <<>>
  /\ based = 0

\* rtems_rtl_alloc_new into a field of the descriptor.
New(B) ==
  /\ ptr' = [ptr EXCEPT ![cur] = @ \union B]
  /\ mem' = [mem EXCEPT ![cur] = @ \union B]
  /\ UNCHANGED twice

\* Mutant of Del: the fields keep their values.
DelKeepsPointers(f, B) ==
  /\ UNCHANGED ptr
  /\ mem' = [mem EXCEPT ![f] = @ \ (B \intersect ptr[f])]
  /\ twice' = (twice \/ ~(B \intersect ptr[f] \subseteq mem[f]))

\* rtems_rtl_alloc_del of fields that may be NULL, which are then set to NULL.
Del(f, B) ==
  /\ ptr' = [ptr EXCEPT ![f] = @ \ B]
  /\ mem' = [mem EXCEPT ![f] = @ \ (B \intersect ptr[f])]
  /\ twice' = (twice \/ ~(B \intersect ptr[f] \subseteq mem[f]))

ModuleDel == Del(cur, AllRegions)

\* Every block of the object, and its sections are out of reach.
DelAll(f) ==
  /\ ptr' = [ptr EXCEPT ![f] = {}]
  /\ mem' = [mem EXCEPT ![f] = @ \ (Blocks \intersect ptr[f])]
  /\ twice' = (twice \/ ~(Blocks \intersect ptr[f] \subseteq mem[f]))

\* Mutant of ObjFree: the symbols are not erased.
ObjFreeKeepsSymbols(f) ==
  /\ listed' = listed \ {f}
  /\ DelAll(f)
  /\ UNCHANGED globals

\* rtems_rtl_obj_free: off the list, then regions, symbols, names, descriptor.
\* The descriptor goes last, and with it every pointer, the one to the sections
\* too; nobody calls rtems_rtl_obj_erase_sections.
ObjFree(f) ==
  /\ listed' = listed \ {f}
  /\ DelAll(f)
  /\ globals' = IF "symtab" \in ptr[f] THEN Erased(f) ELSE globals

Idle == phase' = "idle" /\ cur' = NoFile /\ loader' = "none" /\ step' = 0

\* The next part of the load, with nothing done in it.
Enter(p) == phase' = p /\ step' = 0 /\ UNCHANGED <<cur, loader>>

\* The format loader returns FALSE.
Fail == Enter("failed")

-----------------------------------------------------------------------------
(* Finding and opening the file. *)

\* rtems_rtl_load_object finds no object of that name and makes one.
Start(f) ==
  /\ phase = "idle" /\ f \notin listed
  /\ phase' = "find" /\ cur' = f
  /\ ptr' = [ptr EXCEPT ![f] = {"desc"}]
  /\ mem' = [mem EXCEPT ![f] = @ \union {"desc"}]
  /\ UNCHANGED <<loader, step, fd, dirty, listed, buffer, twice, globals, based>>

\* rtems_rtl_obj_parse_name has no memory: a first name is given back.
NoName ==
  /\ phase = "find"
  /\ ObjFree(cur) /\ Idle
  /\ UNCHANGED <<fd, dirty, buffer, based>>

ParsedNames(f) == {"oname"} \union (IF f \in InArchive THEN {"aname"} ELSE {})

\* The names stand, the file is nowhere: the object goes with its names.
NotFound ==
  /\ phase = "find"
  /\ New(ParsedNames(cur)) /\ phase' = "nofile"
  /\ UNCHANGED <<cur, loader, step, fd, dirty, listed, buffer, globals, based>>

NotFoundFree ==
  /\ phase = "nofile"
  /\ ObjFree(cur) /\ Idle
  /\ UNCHANGED <<fd, dirty, buffer, based>>

FileFound ==
  /\ phase = "find"
  /\ New(ParsedNames(cur) \union {"fname"})
  /\ listed' = listed \union {cur}
  /\ Enter("open")
  /\ UNCHANGED <<fd, dirty, buffer, globals, based>>

OpenFails ==
  /\ phase = "open"
  /\ ObjFree(cur) /\ Idle
  /\ UNCHANGED <<fd, dirty, buffer, based>>

Open ==
  /\ phase = "open"
  /\ fd' = cur
  /\ Enter(IF cur \in InArchive THEN "archive" ELSE "rapcheck")
  /\ UNCHANGED <<dirty, listed, ptr, mem, buffer, twice, globals, based>>

\* rtems_rtl_obj_archive_find reads without a cache.
ArchiveFind ==
  /\ phase = "archive"
  /\ Enter("rapcheck") \/ Fail
  /\ UNCHANGED <<fd, dirty, listed, ptr, mem, buffer, twice, globals, based>>

\* rtems_rtl_obj_file_load asks the formats in turn, RAP first; a check whose
\* read fails says no.
Check(format, this, other) ==
  /\ phase = this
  /\ dirty' = TRUE
  /\ \/ /\ Format[cur] = format
        /\ phase' = "header" /\ loader' = format /\ UNCHANGED <<cur, step>>
     \/ Enter(other)
  /\ UNCHANGED <<fd, listed, ptr, mem, buffer, twice, globals, based>>

RapCheck == Check("rap", "rapcheck", "elfcheck")
ElfCheck == Check("elf", "elfcheck", "failed")

\* Mutant of LoadFails: an error path without the flush.
LoadFailsUnflushed ==
  /\ phase = "failed"
  /\ fd' = NoFile
  /\ ObjFree(cur) /\ Idle
  /\ UNCHANGED <<dirty, buffer, based>>

\* rtems_rtl_obj_load after a failure, and rtems_rtl_load_object after it.
LoadFails ==
  /\ phase = "failed"
  /\ dirty' = FALSE /\ fd' = NoFile
  /\ ObjFree(cur) /\ Idle
  /\ UNCHANGED <<buffer, based>>

-----------------------------------------------------------------------------
(* Sections and their memory. *)

\* The header is read again and checked.
ElfHeader ==
  /\ phase = "header" /\ loader = "elf"
  /\ Enter("sections") \/ Fail
  /\ UNCHANGED <<fd, dirty, listed, ptr, mem, buffer, twice, globals, based>>

\* The same, and the decompressor is set to what follows the header.
RapHeader ==
  /\ phase = "header" /\ loader = "rap"
  /\ Enter("sections") \/ Fail
  /\ UNCHANGED <<fd, dirty, listed, ptr, mem, buffer, twice, globals, based>>

\* rtems_rtl_obj_add_section, or a read or an allocation in front of it fails.
AddSection(count) ==
  /\ phase = "sections"
  /\ \/ /\ step < count /\ step' = step + 1 /\ UNCHANGED <<phase, cur, loader>>
        /\ New({Sects})
     \/ step = count /\ Enter("regions") /\ UNCHANGED memVars
     \/ step < count /\ Fail /\ UNCHANGED memVars
  /\ UNCHANGED <<fd, dirty, listed, buffer, globals, based>>

\* The ELF loader keeps the sections it has a use for, a RAP file has six.
ElfSection == loader = "elf" /\ AddSection(Sections[cur])
RapSection == loader = "rap" /\ AddSection(RapSecs)

\* rtems_rtl_alloc_module_new: the regions one after the other, empty ones not
\* at all; a failure gives back those that were allocated.
AllocRegion ==
  /\ phase = "regions" /\ step < 4
  /\ LET r == RegionOrder[step + 1]
     IN  IF r \in Regions[cur] THEN New({r}) ELSE UNCHANGED memVars
  /\ step' = step + 1
  /\ UNCHANGED <<phase, cur, loader, fd, dirty, listed, buffer, globals, based>>

AllocRegionFails ==
  /\ phase = "regions" /\ step < 4
  /\ RegionOrder[step + 1] \in Regions[cur]
  /\ IF step = 0 THEN UNCHANGED memVars ELSE ModuleDel
  /\ Fail
  /\ UNCHANGED <<fd, dirty, listed, buffer, globals, based>>

\* rtems_rtl_obj_sections_loader, region by region.
LoadRegion ==
  /\ phase = "regions" /\ step >= 4
  /\ IF step < 8 THEN step' = step + 1 /\ UNCHANGED <<phase, cur, loader>>
                 ELSE Enter("symbols")
  /\ UNCHANGED <<fd, dirty, listed, ptr, mem, buffer, twice, globals, based>>

LoadRegionFails ==
  /\ phase = "regions" /\ step \in 4 .. 7
  /\ RegionOrder[step - 3] \in Regions[cur]
  /\ ModuleDel
  /\ Fail
  /\ UNCHANGED <<fd, dirty, listed, buffer, globals, based>>

-----------------------------------------------------------------------------
(* Symbols. *)

\* rtems_rtl_elf_symbols, the first pass: a read fails, or there is a duplicate.
ElfCount ==
  /\ phase = "symbols" /\ loader = "elf"
  /\ \/ Fail
     \/ /\ ~Duplicate(cur)
        /\ Enter(IF Exports[cur] = <<>> THEN "relocs" ELSE "table")
  /\ UNCHANGED <<fd, dirty, listed, ptr, mem, buffer, twice, globals, based>>

Table ==
  /\ \/ New({"symtab"}) /\ Enter("fill")
     \/ UNCHANGED memVars /\ Fail
  /\ UNCHANGED <<fd, dirty, listed, buffer, globals, based>>

\* The ELF loader has counted its symbols, the RAP loader has their number.
ElfTable == phase = "table" /\ Table
RapTable == phase = "symbols" /\ loader = "rap" /\ Table

\* The second pass, and rtems_rtl_symbol_obj_add.
ElfFill ==
  /\ phase = "fill" /\ loader = "elf"
  /\ globals' = Added(cur)
  /\ Enter("relocs")
  /\ UNCHANGED <<fd, dirty, listed, ptr, mem, buffer, twice, based>>

\* The RAP loader fills the table of the object and leaves the global one alone.
\* (The comment at rtl-rap.c:474 speaks of making a symbol globally exported.)
RapFill ==
  /\ phase = "fill" /\ loader = "rap"
  /\ ~Duplicate(cur)
  /\ Enter("relocs")
  /\ UNCHANGED <<fd, dirty, listed, ptr, mem, buffer, twice, globals, based>>

FillFails ==
  /\ Del(cur, {"symtab"}) \/ UNCHANGED memVars
  /\ Fail
  /\ UNCHANGED <<fd, dirty, listed, buffer, globals, based>>

\* A symbol cannot be read or has no section: the table is freed.  Its name
\* cannot be read: the table is left to rtems_rtl_obj_free.
ElfFillFails == phase = "fill" /\ loader = "elf" /\ FillFails

\* A symbol cannot be read, has no section or is a duplicate: the table is
\* freed.  The strings cannot be read: it is left to rtems_rtl_obj_free.
RapFillFails == phase = "fill" /\ loader = "rap" /\ FillFails

-----------------------------------------------------------------------------
(* Relocations. *)

MoreRefs == step < Len(Refs[cur])
Ref      == Refs[cur][step + 1]
NextRef  == step' = step + 1 /\ UNCHANGED <<phase, cur, loader>>

\* The symbol is there and the place is patched, or the type is unknown.
ElfRelocate ==
  /\ phase = "relocs" /\ loader = "elf" /\ MoreRefs
  /\ Known(Ref)
  /\ NextRef \/ Fail
  /\ UNCHANGED <<fd, dirty, listed, ptr, mem, buffer, twice, globals, based>>

\* It is not there: the relocation is recorded (module Unresolved), or there is
\* no memory for that.
ElfUnresolved ==
  /\ phase = "relocs" /\ loader = "elf" /\ MoreRefs
  /\ ~Known(Ref)
  /\ NextRef \/ Fail
  /\ UNCHANGED <<fd, dirty, listed, ptr, mem, buffer, twice, globals, based>>

\* rtems_rtl_rap_relocate: a buffer for the names of the whole file.
RapBuffer ==
  /\ phase = "relocs" /\ loader = "rap" /\ ~buffer
  /\ \/ buffer' = TRUE /\ UNCHANGED loadVars
     \/ Fail /\ UNCHANGED buffer
  /\ UNCHANGED <<fd, dirty, listed, ptr, mem, twice, globals, based>>

RapRelocate ==
  /\ phase = "relocs" /\ buffer /\ MoreRefs
  /\ ObjKnows(cur, Ref)
  /\ NextRef
  /\ UNCHANGED <<fd, dirty, listed, ptr, mem, buffer, twice, globals, based>>

\* A read fails, the name is too long, nobody knows it, the type is unknown.
RapRelocateFails ==
  /\ phase = "relocs" /\ buffer
  /\ buffer' = FALSE
  /\ Fail
  /\ UNCHANGED <<fd, dirty, listed, ptr, mem, twice, globals, based>>

-----------------------------------------------------------------------------
(* The end of a load, and unloading. *)

LoadDone ==
  /\ phase = "relocs" /\ ~MoreRefs
  /\ loader = "elf" \/ buffer
  /\ dirty' = FALSE /\ fd' = NoFile /\ buffer' = FALSE
  /\ Idle
  /\ UNCHANGED <<listed, ptr, mem, twice, globals, based>>

\* rtems_rtl_obj_unload: the symbols, then everything.
Unload(f) ==
  /\ phase = "idle" /\ f \in listed
  /\ ObjFree(f)
  /\ UNCHANGED <<phase, cur, loader, step, fd, dirty, buffer, based>>

\* rtems_rtl_symbol_global_add: only the names that are not there yet.
WithBase ==
  LET table[i \in 0 .. Len(BaseTable)] ==
        IF i = 0 THEN globals
        ELSE IF \E k \in DOMAIN table[i - 1] : table[i - 1][k].name = BaseTable[i]
          THEN table[i - 1] ELSE Append(table[i - 1], Entry(Base, BaseTable[i], FALSE))
  IN  table[Len(BaseTable)]

BaseAdd ==
  /\ phase = "idle" /\ based < MaxBase
  /\ based' = based + 1
  /\ globals' = WithBase
  /\ UNCHANGED <<phase, cur, loader, step, fd, dirty, listed, ptr, mem, buffer,
                 twice>>

Next ==
  \/ \E f \in Files : Start(f) \/ Unload(f)
  \/ NoName \/ NotFound \/ NotFoundFree \/ FileFound \/ OpenFails \/ Open
  \/ ArchiveFind \/ RapCheck \/ ElfCheck \/ RapHeader \/ ElfHeader
  \/ RapSection \/ ElfSection
  \/ AllocRegion \/ AllocRegionFails \/ LoadRegion \/ LoadRegionFails
  \/ ElfCount \/ ElfTable \/ ElfFill \/ ElfFillFails
  \/ RapTable \/ RapFill \/ RapFillFails
  \/ ElfRelocate \/ ElfUnresolved \/ RapBuffer \/ RapRelocate \/ RapRelocateFails
  \/ LoadDone \/ LoadFails \/ BaseAdd

Spec == Init /\ [][Next]_vars

-----------------------------------------------------------------------------
Phases == {"idle", "find", "nofile", "open", "archive", "rapcheck", "elfcheck",
           "header",
           "sections", "regions", "symbols", "table", "fill", "relocs", "failed"}

\* TypeOK: the types of the variables; there is an object being loaded exactly
\* while there is a load.
TypeOK ==
  /\ phase \in Phases
  /\ cur \in Files \union {NoFile} /\ (cur = NoFile <=> phase = "idle")
  /\ loader \in {"elf", "rap", "none"} /\ step \in Nat
  /\ fd \in Files \union {NoFile}
  /\ dirty \in BOOLEAN /\ buffer \in BOOLEAN /\ twice \in BOOLEAN
  /\ listed \subseteq Files
  /\ ptr \in [Files -> SUBSET (Blocks \union {Sects})]
  /\ mem \in [Files -> SUBSET (Blocks \union {Sects})]
  /\ globals \in Seq([owner : Files \union {Base}, name : Names, weak : BOOLEAN])
  /\ based \in 0 .. MaxBase

\* AllButSectionsGivenBack: whichever step of a load fails, when the load has ended
\* the file is closed, the caches are flushed, the name buffer is freed, and an
\* object that is not on the list has given back all of its memory but its section
\* records.  Those are lost after a failed load and after an unload alike, although
\* rtl-obj.h:545 says that an unload releases all memory
\* (rtems_rtl_obj_load, rtems_rtl_obj_free).
AllButSectionsGivenBack ==
  phase = "idle" =>
    /\ fd = NoFile /\ ~dirty /\ ~buffer
    /\ \A f \in Files \ listed : mem[f] \subseteq {Sects}
    /\ \A f \in listed : Blocks \intersect mem[f] = Blocks \intersect ptr[f]

\* FreedOnce: no error path frees what an earlier one has freed: the loaders and
\* rtems_rtl_alloc_module_del clear the fields rtems_rtl_obj_free looks at.
FreedOnce == ~twice

\* SymbolsInMemory: an entry of the global symbol table lies in the symbol table
\* of an object that is on the list and has not freed it
\* (rtems_rtl_symbol_obj_add, rtems_rtl_symbol_obj_erase).
SymbolsInMemory ==
  \A i \in DOMAIN globals :
    LET o == globals[i].owner
    IN  o # Base => o \in listed /\ "symtab" \in mem[o]

\* StrongIsFound: a symbol that is not weak is never hidden behind another of its
\* name, so rtems_rtl_symbol_global_find returns it, whatever was loaded and unloaded
\* in between.  Of weak symbols it says nothing: one that is present already is not
\* ignored, as the comment at rtl-elf.c:393 has it, but entered behind, and takes the
\* place of the first when that one is unloaded (rtems_rtl_elf_symbols).
StrongIsFound ==
  \A i, j \in DOMAIN globals :
    /\ i < j /\ globals[i].name = globals[j].name
    => globals[j].weak \/ globals[i].owner = globals[j].owner

\* AllOrNothing: a load that fails at any step, seen from outside, never was:
\* objects and their symbols come and go as a whole, the symbols of one object
\* without those of another.  A RAP file puts none into the global table.
Outside(e) == phase = "idle" \/ e.owner # cur
AllOrNothing ==
  INSTANCE ObjectStore WITH
    loaded   <- IF phase = "idle" THEN listed ELSE listed \ {cur},
    symbols  <- {<<globals[i].owner, globals[i].name>> :
                   i \in {k \in DOMAIN globals : Outside(globals[k])}},
    Exported <- [f \in Files |->
                   IF Format[f] = "elf"
                     THEN {Exports[f][i].name : i \in DOMAIN Exports[f]} ELSE {}]
ImplementsObjectStore == AllOrNothing!StoreSpec
=============================================================================
