------------------------------ MODULE RapFile --------------------------------
(***************************************************************************)
(* Loading a RAP file: the loader reads a stream of fields, whose lengths  *)
(* and presence earlier fields decide, through the decompressor, which     *)
(* takes the stream from the file block by block.  The file has no marks:  *)
(* a field that is read too often, too short or not at all shifts all that *)
(* follow.  A file is a sequence of cells, a word has WordLen of them, so  *)
(* that blocks also end inside of a word.                                  *)
(***************************************************************************)
EXTENDS Layout

CONSTANTS RapFiles,   \* what each of the files holds: see Words
          BlockLens,  \* how many cells of the stream a block has
          Cuts,       \* how many cells a truncated file lacks
          WordLen,
          MaxName,    \* SYMNAME_BUFFER_SIZE - 1
          CompSize,   \* the size of the decompressor's buffer
          Fds

Compressions == {"NONE", "LZ77"}
NoFd == -1

\* What is in a file.  Names are appended for the types of relocations that the
\* loader looks them up for.
IsDescription(d) ==
  /\ d.sizes \in [1 .. 6 -> Nat] /\ d.strtab \in Nat /\ d.symbols \in Seq(Range(d.symbols))
  /\ \A s \in 1 .. 6 :
       /\ d.relocs[s] \in Seq(Range(d.relocs[s]))
       /\ \A r \in Range(d.relocs[s]) :
            r.len \in Nat /\ (r.sym = "appended" => r.resolves)

ASSUME RapFileAssumption ==
  /\ BlockLens \subseteq Nat \ {0} /\ Cuts \subseteq Nat
  /\ \A f \in DOMAIN RapFiles : IsDescription(RapFiles[f])
  /\ WordLen \in Nat \ {0} /\ MaxName \in Nat /\ CompSize \in Nat /\ NoFd \notin Fds

VARIABLES
  file,     \* the file that is open, and how it was written
  fd,
  cachefd,  \* the file the cache knows
  comp,     \* rtems_rtl_obj_comp_t
  at,       \* the field the loader wants
  need,     \* how much of it is missing
  got,      \* and what it has of it
  rap       \* rtems_rtl_rap_t, as far as it decides what is read

fileVars == <<file, fd, cachefd, comp, at, need, got, rap>>

-----------------------------------------------------------------------------
(* The format.  A field is named for what it is and where it belongs. *)

Word(id, val)      == [id |-> id, len |-> WordLen, val |-> val]
Bytes(id, len)     == [id |-> id, len |-> len, val |-> 0]

\* Sequences one behind the other, and those that end such a sequence of them.
LastOf(seqs) ==
  LET last[n \in 0 .. Len(seqs)] ==
        IF n = 0 THEN <<>> ELSE seqs[Len(seqs) + 1 - n] \o last[n - 1]
  IN  last
Concat(seqs) == LastOf(seqs)[Len(seqs)]

HeaderFields == <<"machinetype", "datatype", "class", "init", "fini",
                  "symtab_size", "strtab_size", "relocs_size">>

\* The sections of a region whose contents are in the file, and all of them, in the
\* order of the regions.
InRegionOf(sizes, mask) ==
  LET sects == RapSections([i \in 1 .. 6 |-> [size |-> sizes[i], alignment |-> 0]])
      picked[i \in 0 .. 6] ==
        IF i = 0 THEN <<>>
        ELSE IF sizes[i] > 0 /\ {mask, "LOAD"} \subseteq sects[i].flags THEN Append(picked[i - 1], i)
        ELSE picked[i - 1]
  IN  picked[6]
LoadOrder(sizes) == Concat([r \in 1 .. 4 |-> InRegionOf(sizes, RegionFlags[r])])

\* A relocation: a section or a symbol, and where the symbol's name is.
RelocWords(sec, r, rela, rec) ==
  <<Word(<<"info", sec, r>>, rec), Word(<<"offset", sec, r>>, 0)>>
    \o ((IF rec.sym = "section" \/ rela THEN <<Word(<<"addend", sec, r>>, 0)>> ELSE <<>>)
    \o (IF rec.sym = "appended" THEN <<Bytes(<<"name", sec, r>>, rec.len)>> ELSE <<>>))

\* What the RAP linker writes for a description d: its parts, and all of them.
HeaderWords(d) ==
  [n \in 1 .. 8 |-> Word(<<"header", n, 0>>,
                        CASE n = 6 -> Len(d.symbols) [] n = 7 -> d.strtab [] OTHER -> d.machine)]
SectionWords(d) ==
  [s \in 1 .. 6 |-> <<Word(<<"size", s, 0>>, d.sizes[s]), Word(<<"alignment", s, 0>>, 0)>>]
ContentWords(d) ==
  LET order == LoadOrder(d.sizes)
  IN  [n \in DOMAIN order |-> Bytes(<<"contents", order[n], 0>>, d.sizes[order[n]])]
SymbolWords(d) ==
  [n \in DOMAIN d.symbols |-> <<Word(<<"data", n, 0>>, d.symbols[n]), Word(<<"symname", n, 0>>, 0),
                                Word(<<"value", n, 0>>, 0)>>]
RecordWords(d, s) == [r \in DOMAIN d.relocs[s] |-> RelocWords(s, r, d.rela[s], d.relocs[s][r])]
RelocsWords(d) ==
  [s \in 1 .. 6 |-> <<Word(<<"relocs", s, 0>>, [rela |-> d.rela[s], n |-> Len(d.relocs[s])])>>
                       \o Concat(RecordWords(d, s))]
Words(d) == HeaderWords(d) \o (Concat(SectionWords(d)) \o (ContentWords(d)
              \o (<<Bytes(<<"strtab", 0, 0>>, d.strtab)>>
              \o (Concat(SymbolWords(d)) \o Concat(RelocsWords(d))))))

\* The cells of a field, and of a file's stream.
Cells(f, w)  == [p \in 1 .. w.len |-> [of |-> f, id |-> w.id, part |-> p, val |-> w.val]]
CellsOf(f, ws) == Concat([n \in DOMAIN ws |-> Cells(f, ws[n])])
Streams      == [f \in DOMAIN RapFiles |-> CellsOf(f, Words(RapFiles[f]))]
Fields       == [f \in DOMAIN RapFiles |-> Range(Words(RapFiles[f]))]

\* A block: its size in the file, and the data, which LZ77 packs into a cell.
Block(c, compression) ==
  IF compression = "NONE" THEN <<Len(c)>> \o c ELSE <<1, c>>
Until(cells, n, b) == IF b * n > Len(cells) THEN Len(cells) ELSE b * n
Pieces(cells, n, compression) ==
  [b \in 1 .. (Len(cells) + n - 1) \div n |->
     Block(SubSeq(cells, (b - 1) * n + 1, Until(cells, n, b)), compression)]

\* A file: the header line is its first cell.
Images == [f \in DOMAIN RapFiles |-> [n \in BlockLens |-> [c \in Compressions |->
             <<c>> \o Concat(Pieces(Streams[f], n, c))]]]

NoneOpen == [of |-> "none"]

-----------------------------------------------------------------------------
Idle   == <<"idle", 0, 0>>
Overrun == <<"overrun", 0, 0>>
NoRap  == [sizes |-> <<>>, symbols |-> 0, strtab |-> 0, rela |-> FALSE, relocs |-> 0,
           rec |-> [sym |-> "none"]]
Closed == [fd |-> NoFd, compression |-> "LZ77", offset |-> 0, buffer |-> <<>>, read |-> 0]

\* rtems_rtl_obj_comp_open.
FileInit == /\ file = NoneOpen /\ fd = NoFd /\ cachefd = NoFd /\ comp = Closed
        /\ at = Idle /\ need = 0 /\ got = <<>> /\ rap = NoRap

\* The loader asks for a field of some length.
Want(id, len) == at' = id /\ need' = len /\ got' = <<>>

\* The load ends; rtems_rtl_obj_load flushes the caches and closes the file.
\* What the decompressor has read stays in its buffer.
End == /\ Want(Idle, 0) /\ rap' = NoRap
       /\ file' = NoneOpen /\ fd' = NoFd /\ cachefd' = NoFd
       /\ UNCHANGED comp

-----------------------------------------------------------------------------
(* The decompressor. *)

\* Mutant of CompSet: the level of the buffer is left as it was.
CompSetKeepsLevel(compression, offset) ==
  comp' = [fd |-> fd', compression |-> compression, offset |-> offset,
           buffer |-> comp.buffer, read |-> 0]

CompSet(compression, offset) ==
  comp' = [fd |-> fd', compression |-> compression, offset |-> offset,
           buffer |-> <<>>, read |-> 0]

\* A buffer that belongs to another file than the cache is dropped.
Level == IF comp.fd # cachefd THEN <<>> ELSE comp.buffer

\* The part of a field that is in the buffer; the rest of it moves down.
Take == /\ at # Idle /\ need > 0 /\ Level # <<>>
        /\ LET n == IF need > Len(Level) THEN Len(Level) ELSE need IN
           /\ got' = got \o SubSeq(Level, 1, n) /\ need' = need - n
           /\ comp' = [comp EXCEPT !.buffer = SubSeq(Level, n + 1, Len(Level)),
                                   !.read = @ + n]
        /\ UNCHANGED <<file, fd, cachefd, at, rap>>

\* A read of the cache: what the file has there, at the offset of the stream.
Written == Images[file.of][file.blocks][file.compression]
FileLen == Len(Written) - file.cut
InFile(offset, n) ==
  SubSeq(Written, offset + 1, IF offset + n > FileLen THEN FileLen ELSE offset + n)

\* The size of the next block and its data, decompressed, which fit.
Fetch == /\ at # Idle /\ need > 0 /\ Level = <<>>
         /\ comp.offset < FileLen
         /\ LET size == InFile(comp.offset, 1)[1]
                data == InFile(comp.offset + 1, size)
                cells == IF comp.compression = "NONE" THEN data ELSE data[1]
            IN  /\ Len(data) = size /\ Len(cells) <= CompSize
                /\ comp' = [comp EXCEPT !.offset = @ + 1 + size, !.buffer = cells]
         /\ UNCHANGED <<file, fd, cachefd, at, need, got, rap>>

\* Only what is unpacked is held against the size of the buffer.  A block that is
\* not packed is copied behind the buffer's end, and the model goes no further.
FetchOverruns ==
  /\ at # Idle /\ need > 0 /\ Level = <<>>
  /\ comp.compression = "NONE" /\ comp.offset < FileLen
  /\ LET size == InFile(comp.offset, 1)[1]
     IN  size > CompSize /\ Len(InFile(comp.offset + 1, size)) = size
  /\ Want(Overrun, 0)
  /\ UNCHANGED <<file, fd, cachefd, comp, rap>>

\* The offset has moved over the size when the read of the data fails, or what is
\* unpacked does not fit, and there is no data behind the end of a file.
FetchFails ==
  /\ at # Idle /\ need > 0 /\ Level = <<>>
  /\ \E sized \in BOOLEAN :
       comp' = [comp EXCEPT !.buffer = <<>>, !.offset = @ + IF sized THEN 1 ELSE 0]
  /\ Want(Idle, 0) /\ rap' = NoRap /\ file' = NoneOpen /\ fd' = NoFd /\ cachefd' = NoFd

-----------------------------------------------------------------------------
(* The loader: what it does with a field, and which one it wants next. *)

\* The field is complete; val is the word's value.
Has(name) == at[1] = name /\ need = 0
\* A word that is no word of the file has no value the model speaks of.
val == got[1].val
Valued == got # <<>> /\ \A p \in DOMAIN got : got[p].id = at

WantWord(name, i, j) == Want(<<name, i, j>>, WordLen)
Reading == UNCHANGED <<file, fd, cachefd, comp>>
Fails   == need = 0 /\ at # Idle /\ End

\* rtems_rtl_rap_parse_header of what the cache returned.
ParseHeader(line) == line \in Compressions

\* rtems_rtl_rap_file_check and the beginning of rtems_rtl_rap_file_load.
Start == /\ at = Idle
         /\ \E d \in DOMAIN RapFiles, n \in BlockLens, c \in Compressions, cut \in Cuts, f \in Fds :
              /\ file' = [of |-> d, blocks |-> n, compression |-> c, cut |-> cut]
              /\ fd' = f /\ cachefd' = f
              /\ ParseHeader(c) /\ CompSet(c, 1)
         /\ WantWord("header", 1, 0)
         /\ UNCHANGED rap

\* The machine, the data and the class are checked; the sizes are kept.
MachineCheck(n) == n \in 1 .. 3 => val = "ours"
Header ==
  /\ Has("header") /\ Valued
  /\ MachineCheck(at[2])
  /\ rap' = CASE at[2] = 6 -> [rap EXCEPT !.symbols = val]
              [] at[2] = 7 -> [rap EXCEPT !.strtab = val]
              [] OTHER     -> rap
  /\ IF at[2] < 8 THEN WantWord("header", at[2] + 1, 0) ELSE WantWord("size", 1, 0)
  /\ Reading
HeaderFails == Has("header") /\ Valued /\ ~MachineCheck(at[2]) /\ Fails

Size == /\ Has("size") /\ Valued
        /\ rap' = [rap EXCEPT !.sizes = Append(@, val)]
        /\ WantWord("alignment", at[2], 0)
        /\ Reading

\* The section is added, and after the last one their memory is allocated.
\* rtems_rtl_rap_loader reads the contents of the first one.
WantContents(order) ==
  IF order = <<>> THEN Want(<<"strtab", 0, 0>>, rap.strtab)
                  ELSE Want(<<"contents", order[1], 0>>, rap.sizes[order[1]])
Alignment ==
  /\ Has("alignment") /\ Valued
  /\ IF at[2] < 6 THEN WantWord("size", at[2] + 1, 0) ELSE WantContents(LoadOrder(rap.sizes))
  /\ UNCHANGED rap /\ Reading
NoMemory == (Has("alignment") \/ Has("strtab")) /\ Fails

Contents ==
  /\ Has("contents")
  /\ LET order == LoadOrder(rap.sizes)
         i == CHOOSE n \in DOMAIN order : order[n] = at[2]
     IN  WantContents(SubSeq(order, i + 1, Len(order)))
  /\ UNCHANGED rap /\ Reading

\* rtems_rtl_rap_load_symbols.
WantSymbol(n) == IF n <= rap.symbols THEN WantWord("data", n, 0) ELSE WantWord("relocs", 1, 0)
Strtab  == Has("strtab") /\ WantSymbol(1) /\ UNCHANGED rap /\ Reading
Data    == /\ Has("data") /\ Valued
           /\ rap' = [rap EXCEPT !.rec = val]
           /\ WantWord("symname", at[2], 0) /\ Reading
SymName == Has("symname") /\ WantWord("value", at[2], 0) /\ UNCHANGED rap /\ Reading

\* The symbol is kept, unless it is exported already and not weak, or its section
\* is none of the six.
Value == /\ Has("value") /\ rap.rec.section \in 0 .. 5
         /\ WantSymbol(at[2] + 1) /\ UNCHANGED rap /\ Reading
ValueFails == /\ Has("value")
              /\ rap.rec.bind # "WEAK" \/ rap.rec.section \notin 0 .. 5
              /\ Fails

\* rtems_rtl_rap_relocate: the relocations of a section, after their number.
WantReloc(sec, r) ==
  IF r <= rap'.relocs THEN WantWord("info", sec, r)
  ELSE IF sec < 6 THEN WantWord("relocs", sec + 1, 0) ELSE Want(<<"done", 0, 0>>, 0)
Relocs == /\ Has("relocs") /\ Valued
          /\ rap' = [rap EXCEPT !.rela = val.rela, !.relocs = val.n]
          /\ WantReloc(at[2], 1) /\ Reading
Info   == /\ Has("info") /\ Valued
          /\ rap' = [rap EXCEPT !.rec = val]
          /\ WantWord("offset", at[2], at[3]) /\ Reading

\* Bit 31 of the info field is clear for a section.
HasAddend == rap.rec.sym = "section" \/ rap.rela
Offset == /\ Has("offset") /\ HasAddend
          /\ WantWord("addend", at[2], at[3]) /\ UNCHANGED rap /\ Reading

\* The last word of the record: without a name behind it the relocation is done.
Recorded == Has("addend") \/ (Has("offset") /\ ~HasAddend)
NameFollows == rap.rec.sym = "appended" /\ rap.rec.resolves
Appended == /\ Recorded /\ NameFollows /\ rap.rec.len <= MaxName
            /\ Want(<<"name", at[2], at[3]>>, rap.rec.len) /\ UNCHANGED rap /\ Reading
Relocate == /\ (Recorded /\ ~NameFollows) \/ Has("name")
            /\ UNCHANGED rap
            /\ WantReloc(at[2], at[3] + 1) /\ Reading

\* No such section, no such symbol, or the relocation is refused.
RelocFails == (Recorded \/ Has("name")) /\ Fails
LoadDone     == Has("done") /\ End

FileNext == \/ Start \/ Take \/ Fetch \/ FetchOverruns \/ FetchFails
        \/ Header \/ HeaderFails \/ Size \/ Alignment \/ NoMemory \/ Contents
        \/ Strtab \/ Data \/ SymName \/ Value \/ ValueFails
        \/ Relocs \/ Info \/ Offset \/ Appended \/ Relocate \/ RelocFails \/ LoadDone
FileSpec == FileInit /\ [][FileNext]_fileVars

-----------------------------------------------------------------------------
\* InStep: whatever the blocks, the failures and the files that were loaded before,
\* what the loader takes for a field is that field of the file it loads, from its
\* first cell on, and a load that succeeds has read the whole stream, as long as
\* no block overruns the decompressor's buffer
\* (rtems_rtl_rap_file_load, rtems_rtl_rap_relocate, rtems_rtl_obj_comp_read).
InStep ==
  /\ at[1] \notin {"idle", "done", "overrun"} =>
       \E w \in Fields[file.of] :
         /\ w.id = at /\ Len(got) + need = w.len
         /\ got = SubSeq(Cells(file.of, w), 1, Len(got))
  /\ at[1] = "done" => comp.read = Len(Streams[file.of]) /\ comp.buffer = <<>>
=============================================================================
