-------------------------------- MODULE Image --------------------------------
(***************************************************************************)
(* What becomes of the image of an object file: it is searched for, its    *)
(* section headers are laid out in memory, and the words of its sections   *)
(* are relocated.  The list of headers and the relocation records are any. *)
(***************************************************************************)
EXTENDS FileSearch, Layout, Mdreloc

CONSTANTS
  HeaderLists,  \* section headers of the object files
  Regions,      \* the addresses that the allocator returns for the four regions
  Relocated,    \* bound: the lists whose object goes on to its relocations
  Records       \* relocation records

\* A section header, as far as the loader reads it.
ElfHeader == [type : STRING, flags : SUBSET STRING, name : STRING, size : Nat,
              offset : Nat, addralign : Nat, info : Nat]

InMemory(flags) == flags \intersect Range(RegionFlags) # {}

\* A table of constructors or destructors is in memory, and what a relocation
\* section names by a number is in the file.
WellFormed(headers) ==
  /\ headers \in Seq(ElfHeader)
  /\ \A h \in Range(headers) :
       /\ CdtorFlags(h.name) # {} => InMemory(ElfFlags(h.type, h.flags))
       /\ h.type \in {"REL", "RELA"} => h.info < Len(headers)

\* The allocator gives each region what it is asked for.
Apart(sects) ==
  \A r, q \in 1 .. 4 : r # q =>
    \/ Regions[r] + RegionSize(sects, r) <= Regions[q]
    \/ Regions[q] + RegionSize(sects, q) <= Regions[r]

\* A RAP file with sections as large as those of a list of headers.
RapSizes(headers) ==
  [i \in 1 .. 6 |->
     [size |-> headers[(i % Len(headers)) + 1].size,
      alignment |-> headers[((i * i) % Len(headers)) + 1].addralign]]

RelocRecord == [type : STRING, s : Int, thumb : BOOLEAN, a : Int, p : Int, word : Int, b : Int]

ASSUME ImageAssumption ==
  /\ Requests # {}
  /\ Regions \in [1 .. 4 -> Nat]
  /\ \A headers \in HeaderLists :
       /\ WellFormed(headers) /\ headers # <<>>
       /\ Apart(ElfSections(headers)) /\ Apart(RapSections(RapSizes(headers)))
  /\ Records \subseteq RelocRecord

\* What is being done to the object that was found.
VARIABLE work

imageVars == <<allVars, work>>

ImageInit == SearchInit /\ work = [kind |-> "none"]

Find == work.kind = "none" /\ SearchNext /\ UNCHANGED work

\* The search is over, and its variables are not needed any more.
SearchOver ==
  /\ pc' = "idle" /\ request' = CHOOSE r \in Requests : TRUE
  /\ path' = <<>> /\ dir' = 0 /\ fname' = <<>>
  /\ ooffset' = 0 /\ fsize' = 0 /\ scanning' = FALSE /\ extended' = 0 /\ off' = 0
  /\ UNCHANGED disk

\* rtems_rtl_obj_file_load, for the object that was found.
LoadObject == work.kind = "none" /\ pc = "found" /\ SearchOver /\ work' = [kind |-> "object"]

\* rtems_rtl_obj_load_sections.
Lay == /\ work.kind = "object"
       /\ \E headers \in HeaderLists : work' = [kind |-> "headers", headers |-> headers]
       /\ UNCHANGED allVars

\* rtems_rtl_obj_relocate, a record of it.
Patch == /\ work.kind = "headers" /\ work.headers \in Relocated
         /\ \E r \in Records : work' = [kind |-> "record", record |-> r]
         /\ UNCHANGED allVars

ImageNext == Find \/ LoadObject \/ Lay \/ Patch
ImageSpec == ImageInit /\ [][ImageNext]_imageVars

-----------------------------------------------------------------------------
\* SectionsFit: Fits and FoundAgain for all lists of section headers, and Fits for
\* the six sections of a RAP file (rtems_rtl_obj_load_sections).
SectionsFit ==
  work.kind = "headers" =>
    /\ Fits(ElfSections(work.headers), Regions)
    /\ FoundAgain(work.headers, Regions, Header)
    /\ Fits(RapSections(RapSizes(work.headers)), Regions)

\* HandlersInvoked: AllInvoked for the tables of all lists of section headers.  This
\* is what rtl-obj.h:514-532 documents, and it does not hold: a table with two
\* pointers has its first called twice (rtems_rtl_obj_run_cdtors).
HandlersInvoked ==
  work.kind = "headers" =>
    \A mask \in {"CTOR", "DTOR"} :
      AllInvoked(LoadSections(ElfSections(work.headers), Regions), mask)

\* RelocationsReach: Reaches for all relocation records
\* (rtems_rtl_elf_relocate_rel, rtems_rtl_elf_relocate_rela).
RelocationsReach == work.kind = "record" => Reaches(work.record)
=============================================================================
