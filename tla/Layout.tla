------------------------------- MODULE Layout --------------------------------
(***************************************************************************)
(* The sections of an object file and where they go: what the loaders take *)
(* from a file's section headers, how much memory each region gets, where  *)
(* in its region a section lies, and what is found there by name, by index *)
(* and by the handlers.  Alignments are powers of two, or 0.               *)
(***************************************************************************)
EXTENDS Integers, SequencesExt

\* The order of the regions in memory and of their loading.
RegionFlags == <<"TEXT", "CONST", "DATA", "BSS">>
NoBase == -1  \* NULL

\* rtems_rtl_obj_add_section.
Sect(index, name, size, offset, alignment, info, flags) ==
  [section |-> index, name |-> name, size |-> size, offset |-> offset,
   alignment |-> alignment, info |-> info, flags |-> flags, base |-> NoBase]

\* What the type and the flags of an ELF section header mean to the loader.
ElfFlags(type, flags) ==
  CASE type = "PROGBITS" /\ "ALLOC" \in flags ->
         {"LOAD", CASE "EXECINSTR" \in flags                       -> "TEXT"
                    [] "EXECINSTR" \notin flags /\ "WRITE" \in flags -> "DATA"
                    [] flags \intersect {"EXECINSTR", "WRITE"} = {}  -> "CONST"}
    [] type = "NOBITS" /\ {"ALLOC", "WRITE"} \subseteq flags -> {"BSS", "ZERO"}
    [] type \in {"REL", "RELA"} -> {type}
    [] type = "SYMTAB" -> {"SYM"}
    [] type = "STRTAB" -> {"STR"}
    [] OTHER -> {}

\* The tables of constructors and destructors are told by their names.
CdtorFlags(name) ==
  {f \in {"CTOR", "DTOR"} : name = (IF f = "CTOR" THEN ".ctors" ELSE ".dtors")}

\* rtems_rtl_elf_parse_sections: a section without a use is not kept, one that
\* is kept has its number in the file.
Kept(h) == ElfFlags(h.type, h.flags) # {}
ElfSect(headers, i) ==
  LET h == headers[i]
  IN  Sect(i - 1, h.name, h.size, h.offset, h.addralign, h.info,
           ElfFlags(h.type, h.flags) \union CdtorFlags(h.name))
ElfSections(headers) ==
  LET sects[i \in 0 .. Len(headers)] ==
        IF i = 0 THEN <<>>
        ELSE IF Kept(headers[i]) THEN Append(sects[i - 1], ElfSect(headers, i))
        ELSE sects[i - 1]
  IN  sects[Len(headers)]

RapNames == <<".text", ".const", ".ctor", ".dtor", ".data", ".bss">>
RapFlags == <<{"TEXT", "LOAD"}, {"CONST", "LOAD"}, {"CONST", "LOAD", "CTOR"},
              {"CONST", "LOAD", "DTOR"}, {"DATA", "LOAD"}, {"BSS", "ZERO"}>>

\* A RAP file has all six, with the sizes and alignments of its header.
RapSections(secs) ==
  [i \in 1 .. 6 |-> Sect(i - 1, RapNames[i], secs[i].size, 0, secs[i].alignment, 0,
                         RapFlags[i])]

-----------------------------------------------------------------------------
(* Sizes. *)

\* Mutant of SectAlign: what lies within one alignment is aligned.
SectAlignLoose(offset, alignment) ==
  IF alignment > 1 /\ offset > alignment
    THEN ((offset + alignment) \div alignment) * alignment
    ELSE offset

\* rtems_rtl_sect_align tests for bits outside of the alignment bit, so that
\* offsets but 0 and the alignment itself move, those aligned already as well.
SectAlign(offset, alignment) ==
  IF alignment > 1 /\ offset \notin {0, alignment}
    THEN ((offset + alignment) \div alignment) * alignment
    ELSE offset

\* rtems_rtl_obj_sect_summer: empty sections are aligned as well.
Summed(mask, size, sect) ==
  IF mask \in sect.flags THEN SectAlign(size, sect.alignment) + sect.size ELSE size

SectionSize(sects, mask) ==
  LET size[i \in 0 .. Len(sects)] ==
        IF i = 0 THEN 0 ELSE Summed(mask, size[i - 1], sects[i])
  IN  size[Len(sects)]

\* The first of the sections with a number in K.
FirstOf(sects, K) == sects[CHOOSE k \in K : \A j \in K : k <= j]

\* rtems_rtl_obj_sect_aligner: that of the first section of the kind.
SectionAlignment(sects, mask) ==
  LET kind == {k \in DOMAIN sects : mask \in sects[k].flags}
  IN  IF kind = {} THEN 0 ELSE FirstOf(sects, kind).alignment

\* rtems_rtl_obj_text_size to rtems_rtl_obj_bss_alignment.
SizeAndAlignment(sects) ==
  [r \in 1 .. 4 |-> <<SectionSize(sects, RegionFlags[r]),
                      SectionAlignment(sects, RegionFlags[r])>>]

\* What rtems_rtl_obj_load_sections asks the allocator for.
RegionSize(sects, r) ==
  LET regions == SizeAndAlignment(sects)
  IN  regions[r][1] + IF r = 4 THEN 0 ELSE regions[r + 1][2]

-----------------------------------------------------------------------------
(* Places. *)

HasPlace(mask, sect) == sect.size # 0 /\ mask \in sect.flags

\* The first section of a region is not aligned, which at offset 0 is the same.
PlaceAt(offset, sect) == IF offset = 0 THEN 0 ELSE SectAlign(offset, sect.alignment)

\* Where the sections before the i-th end in their region.
OffsetsIn(sects, mask) ==
  LET behind[i \in 0 .. Len(sects)] ==
        IF i = 0 THEN 0
        ELSE IF HasPlace(mask, sects[i]) THEN PlaceAt(behind[i - 1], sects[i]) + sects[i].size
        ELSE behind[i - 1]
  IN  behind

\* rtems_rtl_obj_sections_loader for the region that begins at address region.
Placed(sects, mask, region) ==
  LET offsets == OffsetsIn(sects, mask)
  IN  [i \in DOMAIN sects |->
         IF HasPlace(mask, sects[i])
           THEN [sects[i] EXCEPT !.base = region + PlaceAt(offsets[i - 1], sects[i])]
           ELSE sects[i]]

\* rtems_rtl_obj_load_sections, with the addresses the allocator returned.
LoadSections(sects, regions) ==
  LET text  == Placed(sects, RegionFlags[1], regions[1])
      const == Placed(text, RegionFlags[2], regions[2])
      data  == Placed(const, RegionFlags[3], regions[3])
  IN  Placed(data, RegionFlags[4], regions[4])

\* rtems_rtl_elf_loader: the places of the file that an address is read from, in an
\* object that begins at ooffset of it.
FileBytes(sects, ooffset, address) ==
  {ooffset + s.offset + (address - s.base) :
     s \in {t \in Range(sects) : /\ t.base # NoBase /\ "LOAD" \in t.flags
                                 /\ t.base <= address /\ address < t.base + t.size}}

\* rtems_rtl_obj_run_cdtors: where the handlers are read that are called, one after
\* the other.  The loop counts the entries of a table and stays at the first.
Pointer == 4
Calls(sect)           == [k \in 1 .. sect.size \div Pointer |-> sect.base]
Handlers(sects, mask) ==
  FlattenSeq([i \in DOMAIN sects |-> IF mask \in sects[i].flags THEN Calls(sects[i]) ELSE <<>>])

-----------------------------------------------------------------------------
(* Finding sections again. *)

\* rtems_rtl_obj_find_section and rtems_rtl_obj_find_section_by_index: the first.
FindSection(sects, name)     == FirstOf(sects, {k \in DOMAIN sects : sects[k].name = name})
FindSectionByIndex(sects, i) == FirstOf(sects, {k \in DOMAIN sects : sects[k].section = i})

\* rtems_rtl_obj_section_handler: the sections with one of the flags.
Handled(sects, masks) == {s \in Range(sects) : s.flags \intersect masks # {}}

\* Where the relocations of a section go, and the value of a symbol of a section:
\* by the number in the file.
TargetOf(sects, rel) == FindSectionByIndex(sects, rel.info)
ValueIn(sects, index, value) == FindSectionByIndex(sects, index).base + value

-----------------------------------------------------------------------------
InRegion(s) == CHOOSE r \in 1 .. 4 : RegionFlags[r] \in s.flags
Loaded(sects) == {i \in DOMAIN sects : sects[i].base # NoBase}

\* Fits: whatever the sizes and alignments, every section that has memory lies
\* inside the region that was allocated for its kind, on its alignment as long as
\* the region is, and no two overlap: the loop that adds up the sizes and the one
\* that places the sections do not treat empty and first sections alike
\* (rtems_rtl_obj_sect_summer, rtems_rtl_obj_sections_loader).
Fits(sects, regions) ==
  LET s == LoadSections(sects, regions) IN
  /\ \A i \in DOMAIN s :
       s[i].base # NoBase <=> s[i].size > 0 /\ s[i].flags \intersect Range(RegionFlags) # {}
  /\ \A i \in Loaded(s) :
       LET r == InRegion(s[i]) IN
       /\ s[i].base >= regions[r]
       /\ s[i].base + s[i].size <= regions[r] + RegionSize(sects, r)
       /\ s[i].alignment > 1 => (s[i].base - regions[r]) % s[i].alignment = 0
  /\ \A i, j \in Loaded(s) :
       i # j => \/ s[i].base + s[i].size <= s[j].base
                \/ s[j].base + s[j].size <= s[i].base

\* AllInvoked: every pointer in the tables of an object's constructors, or of its
\* destructors, is called, and is called once: rtl-obj.h:514 has that they are
\* tables of pointers whose sizes are taken from the sections'
\* (rtems_rtl_obj_run_cdtors).
AllInvoked(sects, mask) ==
  LET table(s) == {s.base + Pointer * k : k \in 0 .. (s.size \div Pointer) - 1}
      calls    == Handlers(sects, mask)
  IN  /\ IsInjective(calls)
      /\ Range(calls) = UNION {table(s) : s \in {t \in Range(sects) : mask \in t.flags}}

\* FoundAgain: the section a relocation section, or a symbol, names by its number
\* in the file is that section, although the loader keeps only some of them, and at
\* the address of a symbol of that section lies the byte the file has for it, and
\* no other (rtems_rtl_elf_parse_sections, rtems_rtl_obj_find_section_by_index,
\* rtems_rtl_elf_loader).
FoundAgain(headers, regions, ooffset) ==
  LET s == LoadSections(ElfSections(headers), regions) IN
  \A rel \in Handled(s, {"REL", "RELA"}) :
    LET h == headers[rel.info + 1] IN
    h.size > 0 /\ ElfFlags(h.type, h.flags) # {} =>
      LET t == TargetOf(s, rel) IN
      /\ t.name = h.name /\ t.size = h.size
      /\ "LOAD" \in t.flags /\ t.base # NoBase =>
           \A v \in 0 .. h.size - 1 :
             FileBytes(s, ooffset, ValueIn(s, rel.info, v)) = {ooffset + h.offset + v}
=============================================================================
