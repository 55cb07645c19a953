# A verification development for the RTEMS run-time linker

The repository is the RTEMS run-time linker (RTL): `dlopen`, `dlclose`, `dlsym`
and `dlinfo` for RTEMS targets, an ELF and a RAP file loader, a symbol table, a
table of unresolved relocations, and an application loader on top of it (RAP).
This directory holds TLA+ modules that model its core logic, the TLC
configurations that check them on small instances, and theorems about them
whose proofs TLAPS checks for every value of the constants. Line numbers refer
to the files under `src/`.

1. [The system](#1-the-system)
2. [The modules](#2-the-modules)
3. [The life of a module](#3-the-life-of-a-module): RtlLoader, ModuleRegistry
4. [One load](#4-one-load): ObjLoad, ObjectStore
5. [What a load reads](#5-what-a-load-reads): FileSearch, ObjCache, RapFile, FastLZ
6. [What a load makes](#6-what-a-load-makes): Layout, Mdreloc, Image
7. [Late relocations](#7-late-relocations): Unresolved
8. [First calls and locks](#8-first-calls-and-locks): RtlInit, RapLoader, Mmap
9. [The runs](#9-the-runs)
10. [What is proved](#10-what-is-proved)
11. [What the models show of the code](#11-what-the-models-show-of-the-code)
12. [What is not modelled](#12-what-is-not-modelled)
13. [Plan](#13-plan)

## 1. The system

| component | source | state | operations |
| --- | --- | --- | --- |
| RTL data and lock | `rtl.c` 79-352 | the pointer `rtl`, created by the first call; a recursive mutex | `rtems_rtl_data_init`, `_lock`, `_unlock`, search path, last error |
| Loader and unloader | `rtl.c` 354-500, `rtl-obj.c` | `rtl->objects`; per object: users, flags, names, section memory | `rtems_rtl_load_object`, `rtems_rtl_unload_object`, `rtems_rtl_obj_alloc/_load/_unload/_free` |
| dlfcn API | `dlfcn.c` | `_rtld_debug.r_state` | `dlopen`, `dlclose`, `dlsym`, `dlinfo`, `dlerror` |
| Object file cache | `rtl-obj-cache.c` | three caches: descriptor, file size, offset, level, buffer | `open`, `flush`, `read`, `read_byval`, `close` |
| Unresolved symbol table | `rtl-unresolved.c` | chained blocks of name and relocation records | `add`, `resolve`, `compact`, iteration |
| Symbol tables | `rtl-sym.c` | hash table of the global symbols; a table per object | insert, find, erase |
| ELF loader | `rtl-elf.c` | none of its own | check, load sections, symbols, relocations |
| RAP file loader | `rtl-rap.c` | a decompression stream | the same for the RAP format |
| Decompressor | `rtl-obj-comp.c` | a compressed file's current block | `set`, `read` |
| Names, file search, archives | `rtl-obj.c`, `rtl-find-file.c` | none | parse a name, search the path, scan an archive |
| Section layout | `rtl-obj.c` | section list of an object | sizes, alignments, bases, constructor tables |
| Relocation back ends | `rtl-mdreloc-*.c` | none | patch instruction words |
| Application loader | `rap.c` | list of applications, a second recursive mutex | `rtems_rap_load`, `_unload`, `_find`, `_iterate` |
| Allocator | `rtl-allocator.c`, `rtl-alloc-heap.c` | a hook; indirect pointers | allocate, free |
| FastLZ | `fastlz.c` | the hash table of one call | compress, decompress a block |
| mmap and munmap | `mmap.c`, `munmap.c` | a list of mappings, a lazily made lock | `mmap`, `munmap` |
| shell, test program | `*-shell.c`, `init.c`, ... | none | |

How they interact. Every entry point of `dlfcn.c` takes the RTL mutex, does its
work and releases it. All linker data are protected by that one mutex, with one
exception: `rtems_rtl_load_object` and `rtems_rtl_unload_object` release it
while the constructors or destructors of a module run, and take it again after.
Inside the critical section the loader calls the ELF or RAP loader, which reads
the file through the caches, enters symbols in the global table, and records
relocations it cannot do in the unresolved table; a load that succeeds ends
with a pass over that table. Constructors, destructors and (through
`rtems_rap_load`) application entry points are callbacks that may call the
linker again.

What is hard about it:

- *Interleaving.* Between the unlock and the lock around constructors and
  destructors any number of other calls run; the code goes on with an object
  pointer, a flag and a user count from before.
- *Sequences.* A module is found by name in whatever phase it is; it can be
  reopened while it is being destructed.
- *Partial failure.* A load can fail after the object is listed, has symbols,
  or has records in the unresolved table.
- *Stale data.* The caches know their file by a descriptor number that the next
  file gets too; a relocation refers to its name by a position in a table that
  is compacted; records point to objects that may have been freed.
- *Boundaries.* Partial hits, short reads and the end of the file in the cache;
  full blocks and names of several records in the unresolved table.
- *Locks.* Paths that return with a lock held (`dlinfo`, `rtems_rap_load`), and
  lazily created locks (RTL, RAP, mmap).

What makes each component correct:

- *Loader.* A handle that was returned and not closed is a listed object with
  its symbols; user counts are the numbers of handles; one object per name;
  nothing stays behind; freed memory is not used; every call returns and
  releases what it locked.
- *Cache.* A read returns the bytes of the open file at the wanted offset, all
  there are of them, and it returns.
- *Unresolved table.* A relocation is done with the symbol it names, exactly
  once, as soon as the symbol is there; what waits is recorded and counted.
- *Symbol table.* It holds exactly the symbols of the listed objects.
- *Initialisation.* Nobody uses the linker before it is complete, and a step of it
  that fails closes what was opened before. (That a failed initialisation could be
  repeated the code does not provide for: `rtl` stays set and the libio lock is kept.)
- *One load.* It is all or nothing: what a failed load has opened, allocated,
  cached and exported is given back, once.
- *Files.* The object that is loaded is the one that was named; a stream is read
  in step with the way it was written; a block comes back as it was packed.
- *Image.* Sections lie in their memory, apart, aligned; a relocated word refers
  to what its record says, or the relocation is refused.
- *Application loader.* Its mutex is held by who is inside of it; an application
  holds one reference to its module; what runs is on the list.
- *mmap.* Memory in use is in a mapping, once; every call gives the lock back.

The hazards, each at its line and with the properties that watch it, are in
`PROJECT.json`.

## 2. The modules

| module | content |
| --- | --- |
| `RtlLoader` | `dlopen`, `dlclose`, `dlsym`, `dlinfo` called by several tasks |
| `ModuleRegistry` | what those calls promise: reference-counted modules, no lock, list or flags |
| `MCRtlLoader`, `MCRtlLoaderLive` | instances for TLC; the second bounds the calls, for liveness and refinement |
| `RtlInit` | the first calls of the linker |
| `MCRtlStart` | runs `RtlInit` and `RtlLoader`, each from its own initial state |
| `RtlLoaderProofs` | theorems about `RtlLoader`, whatever its clients do and with coordinated ones, with the refinement; theorems about `RtlInit` |
| `ObjLoad`, `MCObjLoad`, `ObjLoadProofs` | the steps of one load after the other, with every failure; its instance, its theorems |
| `ObjectStore` | what loads and unloads promise: all or nothing |
| `Mmap`, `MmapProofs` | `mmap` and `munmap`, and theorems |
| `MCObjMmap` | runs `ObjLoad` and `Mmap`, each from its own initial state |
| `ObjCache`, `MCObjCache`, `ObjCacheProofs` | the object file cache, its instance, its theorems |
| `RapFile` | a RAP file read through the decompressor, field by field |
| `FastLZ` | packing and unpacking a block |
| `RapFileProofs` | the theorems about the two |
| `RapLoader`, `MCRapLoader`, `RapLoaderProofs` | the application loader, its instance, its theorems |
| `MCRapFile`, `MCRap` | the instances of files and blocks; the run of these and of `RapLoader`, each from its own initial state |
| `FileSearch` | from a name to the place of the object in a file |
| `Layout` | sections: what they are, how large, where, and found again |
| `Mdreloc` | the relocation back ends |
| `Image`, `MCImage`, `ImageProofs` | composes the three: search, then layout, then relocation; its instance, its theorems |
| `Unresolved`, `MCUnresolved`, `UnresolvedProofs` | the unresolved table with the loads and unloads that drive it, its instance, its theorems |

How they fit together. `ObjLoad` is the inside of the two steps `OpenLoaded` and
`OpenLoadFails` of `RtlLoader`; `FileSearch`, `ObjCache`, `RapFile`, `Layout`,
`Mdreloc` and `Unresolved` are the inside of steps of `ObjLoad`. They are
separate modules because all of it runs in one critical section: no step of
another task falls between, so nothing is lost by checking each part by itself,
with its inputs chosen freely. `RapLoader` uses `dlopen` by what `RtlLoader` says
of it: a count per object, found by a name that is compared up to the first
delimiter. `RtlInit` is what comes before the initial state of `RtlLoader`. Parts that
do not meet are checked in one run where that is convenient: `MCRtlStart`,
`MCObjMmap` and `MCRap` choose one of their parts in the initial state and leave the
others there.

Three abstractions are common to them.

*Undefined behaviour.* The code has paths that use freed memory or memory
outside of an allocation. Such a step sets `ub` (in `RtlInit` `undefined`, in `Mmap`
`broken`, in `RapLoader` `lost`, in `RapFile` the place `Overrun`), after which the model does
nothing more: the properties speak of the states before it. Where the absence
of such a step is itself the property (`NoUseAfterFree`) it is checked, in the
setting in which it holds; where it does not hold the run `loader_unload_race`
shows how it comes about.

*The critical section is atomic only where nothing can intervene.* `RtlLoader`
has a step per decision of the code between lock and unlock although other
tasks are shut out there, so that each guard and each early return is a
disjunct of its own.

*Nested pairs of lock and unlock* inside a critical section
(`rtems_rtl_set_error`, `rtems_rtl_obj_find_file`) have no effect on a
recursive mutex and are left out.

A definition that follows the words "Mutant of" is a deliberately wrong version
of the next one. No specification uses it; it serves to show that a property
can fail (`PROJECT.json`, "mutants").

## 3. The life of a module

State and code:

| variable | code |
| --- | --- |
| `owner`, `nest` | the recursive mutex `rtl->lock` |
| `pc[p]`, `arg[p]`, `cur[p]` | where task p is in its call, the name it opened, the variable `obj` |
| `ref[p]` | the handle p holds a reference of |
| `chain`, `oname`, `users`, `locked` | `rtl->objects`, and `oname`, `users`, `RTEMS_RTL_OBJ_LOCKED` of an object |
| `syms` | the objects whose symbols are in the global table |
| `rstate` | `_rtld_debug.r_state` |
| `stale` | tasks that run the destructors of an object another task has freed meanwhile |

`dlopen` is `OpenCall`, `Lock`, one of `OpenNull`, `OpenFound`, `OpenNoFile`,
`OpenCreate`; after `OpenCreate` either `OpenLoaded` or `OpenLoadFails`; then
`OpenShare` or `OpenFirst`. `OpenFirst` counts the user, sets the locked flag
and releases the mutex; `CtorsReturn`, `Lock` and `OpenClear` follow.
`CallDone` sets `r_state`, unlocks and returns. `dlclose` is `CloseCall`,
`Lock`, one of `CloseInvalid`, `CloseLocked`, `CloseShared`, `CloseLast`, and
after the last, with the mutex released, `DtorsReturn`, `Lock`, and one of
`CloseUnload`, `CloseReopened` (the object has users again, so
`rtems_rtl_obj_free` refuses, after the symbols have been erased) and
`CloseDangling` (the object is gone: use of freed memory).

A constructor or destructor that calls the linker is one more client whose call
happens to fall there: it runs without the mutex and finds the same data.

The list `rtl->objects` is a set. `rtems_rtl_find_obj` takes the first match in
list order; the model takes any match. `rtems_rtl_match_name` compares up
to the first '/', so a name is modelled by the part that is compared, `ArgKey`
for the argument and `ObjKey` for the name of the object, which of
`archive:object` is the object's alone. `OneObjectPerName` says that of a name that
matches itself there is one object at most. The name of an object in an archive does
not: `LoadedOnce`, which asks the same for all names, is violated (`loader_archive`).
In the instances `Archived` has the names of that form. A freed descriptor
may be given to the next object, as the heap does.

`Coordinated` is a contract the code needs and does not state: clients do not
start a `dlopen` of a name, or a `dlclose` of a handle opened by it, while
another client is in such a call. Without it (`Coordinated = FALSE`) six
properties hold all the same, as long as freed memory has not been used:
`TypeOK`, `HeldIsListed`, `RefCount`, `SymsListed`, `OneObjectPerName`,
`NoOrphan`. With it also `NoUseAfterFree`, `HeldHasSymbols` and
`CloseAccepted` hold, and the linker implements `ModuleRegistry`
(`ImplementsRegistry`, with the refinement mapping `Handle`, `Phase`): a module
is constructed before its first handle is returned, shared while it has one,
destructed after the last is closed, and removed.

Fairness is weak fairness of `Step(p)` for every task p: a task inside a call
goes on when it can. RTEMS schedules every ready task sooner or later if tasks
of higher priority block, and a constructor or destructor is assumed to return.
The mutex serves its waiters by priority, so a waiter could starve behind an
endless stream of calls; the liveness runs therefore bound the number of calls
(`MaxCalls`), and nothing is said about infinitely many. Clients have no
fairness: they need not call.

## 4. One load

`ObjLoad` follows `rtems_rtl_load_object` from the new descriptor to the last
relocation. `phase` says where it is: `find`, `open`, `archive`, the checks of
the two formats, `header`, `sections`, `regions` (allocated one by one, then
filled one by one), `symbols`, `table`, `fill`, `relocs`. Every phase has its
failures, each with what that error path gives back, and `LoadFails` is the rest
of it: the flush and the close of `rtems_rtl_obj_load` and
`rtems_rtl_obj_free` of `rtems_rtl_load_object`. A path that ends before the
file is open has an action of its own (`NoName`, `NotFoundFree`, `OpenFails`).

`ptr[f]` is the set of pointers in f's descriptor that are not NULL and `mem[f]`
the blocks that are allocated; freeing what is not allocated sets `twice`.
`dirty` says that the caches hold data of the open file, `buffer` is the name
buffer of the RAP relocator. `globals` is the global symbol table in the order
of insertion, which per name is the order of its bucket, so that a lookup finds
the first of a name.

- `AllButSectionsGivenBack`: when a load has ended, the file is closed, the caches are
  flushed, and an object that is not listed has no memory but its section records.
  Those are lost on every path, because nobody calls `rtems_rtl_obj_erase_sections`
  (section 11).
- `FreedOnce`: no error path frees what an earlier one has freed.
- `SymbolsInMemory`: an entry of the global table lies in a symbol table that is
  still allocated, of a listed object.
- `StrongIsFound`: no strong symbol is hidden behind another one of its name. Of weak
  symbols nothing is claimed: one that is present is not ignored, as the comment in
  the code has it (section 11).
- `ImplementsObjectStore`: seen from outside, with the object that is being
  loaded left out, loads and unloads are atomic: the refinement of `ObjectStore`. The
  store allows both, to enter a symbol that is present already and to leave it out;
  an unload takes the symbols of its object away and no others of their names.

The instance has two ELF files, one of them in an archive, that define each
other's weak symbols, a RAP file, a file of neither format, and a table of base
symbols that is added up to twice.

## 5. What a load reads

### ObjCache

One cache (symbols, strings and relocations have one each, of the same code)
over a sequence of loads. A byte of a file is the pair of the file and the
position, so that a byte of the wrong file, or of the wrong place, is seen.
`rtems_rtl_obj_cache_read` is split where the outcome of a system call comes
in: `Refuse`/`Accept`, `Hit`/`PartialHit`/`Miss` or `SeekError`, then `Fragment` for every
`read()` that returns something, `EndOfFile`, `ReadError`, `Filled` (with the
`fstat`) or `StatError`, and the lookup again, which is the loop of the code.
Every file gets the same descriptor number, the worst case for a cache that
recognises its file by it. `NextFormat` is the second file format that is tried
when the first one's check fails on its first read, without a flush between.

The properties: `ReturnsFileData` (the bytes are those asked for, of the open
file), `ReturnsAllThereIs` (none is missing), `ReadInFileReturns` (a read
inside the file returns or fails, under weak fairness of the reader, which is a
single task in a loop). `ReturnsAllThereIs` has one exception: a cache that has been
opened and never flushed has `file_size` 0, and takes every file to be empty, although
the header says that it is flushed (section 11).

### RapFile and FastLZ

A RAP file is a stream without marks, cut into blocks that are compressed one by
one. Which fields follow is decided by fields before: sizes, counts, and bits of
a relocation record that say whether an addend or a name follows. `Words` is the
stream as the linker on the host writes it, from a description of a file;
`FileNext` reads it: `Take` moves what the decompressor has in its buffer, `Fetch`
gets the next block, and an action per field decides what is wanted next. The buffer has
`CompSize` cells: a packed block that would need more is refused (`FetchFails`), one
that is not packed is copied all the same, and the behaviour ends (`FetchOverruns`,
rtl-obj-comp.c:153). A cell
carries which file, field and part it is, so `InStep` can say that a word taken
for a field is that field. Files are cut short, blocks end inside of words, two
descriptor numbers alternate so that the decompressor meets its old buffer
again. Simplifications: the header line and the header of a block are a cell
each; names are appended for relocation types that resolve a symbol, because
the loader does not skip the others (rtl-rap.c:333; the assumption `RapFileAssumption`,
which apart from that only says what a description is made of: `InStep` does not speak of
files that are written otherwise); the object is a file of its own (in an archive the
loader reads from the start of the archive, rtl-rap.c:666 adds no offset to what follows
the header).

`FastLZ` is the compressor and the decompressor of a block, both levels. The
widths of the fields are parameters (the code has `Byte` = 256, `High` = 32,
`Lens` = 7; the instance 20, 4 and 4), so that a block of some 500 bytes reaches
every limit: counts of literals, lengths with no, one and more bytes of their
own, distances up to the far form of level 2. The hash table
starts with the first byte of the block in every slot, and hashes collide:
whatever it proposes must be harmless. A far match at the end of a block makes the compressor hash a byte
behind its input; the model takes any slot there. Only the tool that makes RAP
files calls the compressor; it is modelled because the decompressor is correct
only with respect to it. What is left at the end of a block is taken byte by byte
(`LeftOver`); `Finish` closes the last count and puts the level into the first byte.
`FastLZAssumption` asks for `Lens` of at least 4 and `High` of at least 3: with smaller
fields a match could need more bytes than it covers, and the output buffer that
fastlz.h asks for would not be enough. `ComesBack`: a block comes back as it was, is refused
when the buffer is too small, and never overruns the buffer; and packing needs
no more room than fastlz.h says.

### FileSearch

The name comes taken apart into archive name, object name and offset. `FindFile`
looks into one directory after the other; in an archive `Scan` and its cases read
header after header: the symbol table, the table of long names, short and long
names. An offset in the name is believed first; a place that is no header makes
the scan begin at the start (`BadHeader`), the header of another member makes it
go on from there. The code takes for a header what has the two bytes at its end that
a header has: `Strays` are bytes of a member that do. Names are compared up to the
first delimiter (`Stem`), and each read may fail (`ReadFails` behind the end,
`IdentError` and `IoError` anywhere).

`FindsWhatIsNamed`: the object that is found is the first of its name in the first
directory that has the file, at its data and with its size, and what is missed is
missed for one of these reasons:
- `MissedFromStart`: a long name comes before the table of long names, or less than 256
  bytes of the file are behind its first (`HasNames`);
- `MissedAtOffset`: the offset is that of a member with a long name and no table of long
  names is behind that member; or the offset is another member's, or behind the end,
  and what is wanted lies in front of it. Both contradict comments in the code
  (section 11).

An archive is `WellMade`: it has one table of long names, and one name at a place of it,
as the archiver writes it.

## 6. What a load makes

`Layout` has the section lists that the two loaders build (`ElfSections`,
`RapSections`), the sizes and alignments of the four regions (`RegionSize`, with
the alignment of the next region added), the places the section loader assigns
(`Placed`), what it reads there from the file (`FileBytes`), and the handlers
that `rtems_rtl_obj_run_cdtors` calls, in order (`Handlers`: the loop counts entries and
stays at the first, which is why `HandlersInvoked`, that each pointer of the tables is
called once, is violated). `SectAlign` is the function of the code, which moves
offsets that are aligned already. `SectionsFit` says that for all lists of
section headers every section lies within its region, aligned with respect to
the region's start, apart from the others; that the section a relocation or a
symbol names by its number in the file is found again, although only some are
kept; and that at the address of a symbol lies the byte of the file that the
symbol stands for.

`Mdreloc` has the back ends as functions from a record to the word that is
written or `Refused`. `RelocationsReach` takes the instructions as the processor
does: a call of an arm or a sparc, decoded again, goes to the place the record
says, or is refused; the two halves of a sparc address are that address; an
i386 difference and an i386 pointer agree. The records are at the limits of the
fields: displacements around 2^25, addends with instruction bits, negative sums.

The arm is an exception, and `ReachesArm` and `ReachesPointer` say what it does: its branches
and aligned pointers refer to the place the record says plus the base of the section,
which is in the symbol's value already; of the branches that reach exactly those with
a negative addend are accepted. Section 11 has the comments of the code this is against.

`Image` runs the three one after the other, so that one run covers the way from
a name to a relocated word: `Find` is a step of the search, `LoadObject` takes the
object that was found, `Lay` gives it any list of section headers, `Patch` any
relocation record. `WellFormed` is what the headers of a compiler satisfy: a table of
constructors is in memory, and the number in a relocation section is that of a
section. `Apart` is what the allocator does: it returns for each region as much as
was asked for.

## 7. Late relocations

Objects are loaded and closed one at a time, because all of it happens in the
critical section of `dlopen` and `dlclose`. `Load` enters the symbols of an
object; its relocations are done (`Relocate`) or recorded (`AddShared`,
`AddName`, `AddFull`) in their order, and the load may fail at any point
(`LoadFails`, `AddFullFails`). `LoadDone` is followed by `Resolve`, the pass of
`rtems_rtl_unresolved_resolve`, which relocates every record whose ordinal is
that of a name that is known now, and by the compaction, record by record
(`CompactClean`, `CompactSkip`, `CompactNext`, `CompactDone`).

The arithmetic of the table is translated as it stands: the number of records a
name gets and the number a walk steps over it (`NameRecs`, `Extent`), the test
for the end of a block with its second division (`StopsAt`), the index with its
second division and the move and clear that follow from it (`Moved`,
`Cleaned`), the count that goes to the wrong block, which then counts more records
than it has (`AddBehindEnd`), the
comparison of names (`Found`). The record sizes are those of a 32-bit target
(16, 28 and 4 bytes). `AddBehindEnd`, `WalkFails`, `ResolveFreed`,
`CompactBehindEnd` and `CompactFails` are the steps that leave a block or use a
freed object.

Two history variables say which of the table's promises are already lost.
`misnamed` holds the relocations whose ordinal is not that of their name: they
share a name that is one character shorter (rtl-unresolved.c:133), a name in
front of theirs was removed (rtl-unresolved.c:265), or a name was put in front of
theirs, into an earlier block that has a spare record again
(rtl-unresolved.c:366-378): the new name is given the ordinal of the last one, and
those behind it keep ordinals that are too small by one. `sound` becomes FALSE when
a block no longer holds what it counts: a name of several records was removed
(rtl-unresolved.c:235), or a name was added that the walk steps over too far
(rtl-unresolved.c:90), or a block counts more than it has.

`PatchedRight`, that a place is relocated with the symbol it asks for or not at all, is what
the header of the table promises, and it does not hold (`unresolved_names`). What does
hold, and is proved, is that the places relocated wrongly are `misnamed`
(`NoOtherWayToGoWrong`). The others are claimed of a table that is intact (`sound`, not
`ub`):

- `PendingIsRecorded`: what waits has exactly one record, in every state of a
  compaction, and outside of one the ordinal in it is that of its name, if it is not
  misnamed;
- `NothingLeftBehind`: between calls nothing but what is misnamed waits for a symbol
  that is there;
- `CountIsExact`: `obj->unresolved` is the number that wait or have failed;
- `Compacted`: between calls no record in the table is unused.

The records of objects that fail to load or are closed stay in the table
(nothing removes them), so the table grows; `MaxBlocks` stops new loads.

## 8. First calls and locks

Three parts of the program make their lock on the first call, behind the libio
lock, and each publishes it at a different point. `Step(t)` is a step of task t
inside of a call.

`RtlInit`: `rtl` is published by `Malloc`, before it is cleared, before its mutex
exists; a task that comes then (`FirstCall`) goes to the mutex and meets raw
memory (`RawMutex`, which ends the behaviour), a mutex that is 0 (`NoMutex`), or
the real one, which its maker holds. Those that wait for the libio lock do the
end of the initialisation again (`AppendDot`, `AddBase`, `Started`), and release
a mutex they do not own, which the semaphore refuses. `OpenFails` is each of the
error paths, after which `rtl` stays set to freed memory and the libio lock
stays taken (`stuck`). `AddBase` may fail too, for want of memory or because the table is
no table; nobody looks at that. `ReadyWhenEntered`: whoever gets the mutex finds all parts
open, nobody at work on them, and the base image's symbols entered, or refused by
a call that is over. `FailureCloses`: a failing step closes what was opened before it.
That is all a failure does, and the initialisation cannot be repeated after one.

`RapLoader`: a task has a stack of calls, because entry points and callbacks call
the loader again with the mutex held. `rtems_rap_load` returns true without
releasing the mutex; `kept[t]` counts that, and `HoldsAreCalls` says that a task
holds the mutex exactly once for each call it is in and each such return, on
every one of the exits. `RefsMatch`: the count of an object is the number of
applications that refer to it, and of the calls of `dlclose` that were refused because the
object was locked, which nobody repeats (`refused`); also when `dlopen` returned the
object of another file because the names begin alike; what runs is on the list. The
descriptors and names that are never freed are not counted. `ListIsReady`:
nobody sees the list before it is initialised. `LockIsGivenUp` is liveness under
weak fairness of `Step(t)`: a task that has not loaded anything gives the mutex
up. A program is assumed not to unload an application whose function, or an
iterator that stands on it, is further up its own stack (`Busy`): that would
free the code that runs. A call that goes on without the mutex after its
creation failed, or with a descriptor for which there was no memory, ends the
behaviour (`lost`).

`Mmap`: every call that finds no lock empties the list, without a lock (`Empty`);
a call that cannot make a lock goes on without (`CreateFails`). Emptying a list
in use breaks the chain and ends the behaviour. `MemoryIsListed`: until then the
memory in use is that of the mappings, each listed once, and what a call is
reading into. `CallsReturn` is liveness: strong fairness of `Obtain` stands for
a semaphore that serves its waiters, weak fairness of the rest for a task that
goes on.

## 9. The runs

| run | instance | states | question |
| --- | --- | --- | --- |
| `loader` | `MCRtlStart`, `RtlLoader.cfg`: 3 tasks, 2 names, one of them in an archive, 2 descriptors beside the base, `dlinfo(NULL)` allowed, uncoordinated; for the start, 3 tasks, 3 additions to the path | 173,472 | do handles, counts, symbols and list agree whatever the clients do? is the linker whole for whoever gets its mutex, does a failure close what was opened? |
| `loader_live` | `MCRtlLoaderLive`, `RtlLoaderLive.cfg`: 2 tasks, 2 names, 5 calls, uncoordinated | 18,244 | is the mutex held exactly in the critical sections, does every call return, is every unused object unloaded? |
| `loader_coordinated` | `MCRtlLoaderLive`, `RtlLoaderCoordinated.cfg`: 3 tasks, 2 names, 5 calls, coordinated | 136,029 | is memory safe, are handles usable, is `ModuleRegistry` implemented? |
| `obj_load` | `MCObjMmap`, `ObjLoad.cfg`: 4 files of 2 formats, a base table; for `Mmap`, 2 tasks, 2 blocks, 2 mappings | 64,318 | does every error path give back what was taken, is a load atomic from outside? is the memory in use that of the mappings, does every call return? |
| `objcache` | `MCObjCache`, `ObjCache.cfg`: files of 2 and 5 bytes, a buffer of 3, offsets to 6 | 558,998 | does a read return what is in the file, all of it, and does it return? |
| `rap` | `MCRap`, `Rap.cfg`: 2 tasks, 2 files, stacks of 2 calls; 4 RAP files in blocks of 1, 3, 60 and 80 bytes for a buffer of 60, cut by 0, 1 or 7; blocks for FastLZ | 462,399 | are the mutex, the references and the list right on every exit, with calls inside of calls? is every field read as what it is, does a packed block come back? |
| `image` | `MCImage`, `Image.cfg`: 2 directories, 5 archives, bytes that pass for headers, lists of 3 sections that are kept and one that is not, the limits of each relocation field | 35,252 | is the object found, do its sections fit, do relocated instructions reach? |
| `unresolved` | `MCUnresolved`, `Unresolved.cfg`: 3 objects, 4 names, blocks of 4 records | 237,535 | is every late relocation recorded, counted and done? |
| `loader_unload_race` | `MCRtlLoader`, `RtlLoaderUnload.cfg`: 3 tasks, 1 name | | counterexample to `LockedIsNotUnloaded` |
| `loader_archive` | `MCRtlLoader`, `RtlLoaderArchive.cfg`: 3 tasks, 1 name, in an archive | | counterexample to `LoadedOnce` |
| `image_handlers` | `MCImage`, `ImageHandlers.cfg`: as `image` | | counterexample to `HandlersInvoked` |
| `unresolved_names` | `MCUnresolved`, `UnresolvedNames.cfg`: as `unresolved` | | counterexample to `PatchedRight` |

The counterexamples are in section 11.

Why the bounds are enough. *Loader.* Three tasks let one run destructors, a
second reopen and close the object, and a third use it; two names let one
module come between the calls for the other, and two descriptors are enough for
the heap to give the address of a freed object to another module. Tasks, names
and descriptors are interchangeable, so `loader` uses symmetry; the runs with
liveness or refinement do not. Five calls (`MaxCalls`) allow open, open, close,
close and one more. `MaxNest` bounds how deep a client that passes NULL to
`dlinfo` nests the mutex. The theorems of section 10 hold without these bounds.

*One load.* Two ELF files that define each other's weak symbols show which of two
symbols a lookup finds, in either order of loading; one lies in an archive, the
third file has the other format, the fourth none, so that every error path of
both formats and of the format tests is taken. `MaxBase` is the number of times
the base table is added: the second time adds what is there already.

*Cache.* A buffer of 3 has every kind of partial hit (one and two bytes kept), one
file ends inside of the first buffer and one beyond it, and offsets go past both
ends. Again the theorems hold for every size.

*RAP file.* A word has 2 cells (`WordLen`), a name at most `MaxName`. Blocks of 1
and 3 put the end of a block at every place within a word, one of 60 holds many
fields and just fits the buffer (`CompSize`), one of 80 does not fit. A file is whole,
lacks its last cell, or ends within its last fields.

*Image.* The table of long names comes before the members or after them, a member
occurs twice, an archive is empty or none; the offset in a name is right, stale,
no header, bytes that pass for one, or behind the end.
Section sizes are 0, 3 and 5 and alignments 1 and 4, which has every case of
`SectAlign` (empty, aligned by chance, not aligned) in every position. The records
(`Records`) do not depend on the sections, so only a few lists (`Relocated`) go on to
them.

*Unresolved.* Blocks of 4 records make a block fill up, a new block begin, a name
fall on the last record, a name of two records not fit, and, with two blocks at
the start of a load (`MaxBlocks` 2), a name go into the first when there are names in
the second; of the four names
two are of the same length, one is a character longer than those, one takes two
records. The real blocks have 64 records, and the quotients that the code
computes with reach larger values there; the constants are parameters. The
theorems hold for every size.

*First calls.* In `MCRtlStart` one task initialises, one waits for the libio lock and
one comes in between; `MaxPaths` bounds a list that each of them may extend. In
`MCRap` two files whose names begin alike are enough for one to get the
object of the other; a stack of `MaxDepth` 2 is a call from an entry point or a
callback, `MaxLoads` bounds the applications, `MaxCalls` the calls of a task
that has loaded something and keeps the mutex, and `MaxRefused` the calls of `dlclose`
that are refused, of which one leaves a reference behind. In `MCObjMmap` two blocks let one be
freed and reused while the other stays mapped; `MaxMaps` bounds the list.

*Where a run may stop.* `loader_live`, `loader_coordinated`, `unresolved` and
`unresolved_names` allow deadlock because their clients stop at a bound, `image` and
`image_handlers` because their work is done. The combined runs check deadlock, with a
step (`Stopped`) for the part that may stop: `RtlInit` and `Mmap` end in the states
`undefined`, `stuck` and `broken`, and in `RapLoader` a task that waits for the mutex
another one has kept waits for ever, which is what the code does. All other runs check
deadlock without exception.

*Fairness.* A task that is inside of a call goes on (weak fairness of its steps);
constructors, destructors and entry points return; a mutex that is given up
again and again is at some time given to each that waits (strong fairness of the
step that obtains it: an RTEMS semaphore queues its waiters). Clients are never
assumed to call.

## 10. What is proved

Every theorem is for all values of the constants: any set of tasks, files,
names, any size of buffer.

`RtlLoaderProofs`, for clients that coordinate and for any others:

- `TypeCorrect`, `HandleSafety` (`HeldIsListed`), `CountsHandles` (`RefCount`),
  `SymbolsOfListed` (`SymsListed`), `NothingLeftBehind` (`NoOrphan`);
- `LockSafety`: `LockDiscipline`, if nobody passes NULL to `dlinfo`
  (`"null" \notin InfoArgs`);
- `NamesAreUnique`: `OneObjectPerName`, for the names that compare equal to themselves,
  among any others.

None of the properties is inductive. `HeldIsListed` needs to know that an
object about to be freed has no holder, which is `RefCount`; `RefCount` needs
that a task does not get a second reference and that the object a task works on
is the one whose count it changes, which is `CurInv`; `CurInv` needs that only
one task is between lock and unlock, which is `LockInv`. `NoOrphan` speaks only
of states in which the mutex is free; its inductive form `Attended` adds the
objects being loaded, and it needs `RefCount` again to see that an object
without a user has no second task in its destructors. The invariant is the
conjunction `Inv`; there is one lemma per conjunct, with a step per action
under it, and the lemmas about cardinalities (`HoldersGain`, `HoldersLose`,
`UnusedHasNoHolder`) carry the counting.

`RtlLoaderProofs` again, under the hypothesis that clients coordinate (`Coordinated`)
and that names compare equal exactly when they are the same
(`ArgKey[m] = ObjKey[n] <=> m = n`, which leaves out objects in archives): `MemorySafety`
(`NoUseAfterFree`), `LockedStays` (`LockedIsNotUnloaded`, which is false without
coordination), `HandlesHaveSymbols` (`HeldHasSymbols`), `CloseNeverRefused`
(`CloseAccepted`) and `Implementation`, the refinement of `ModuleRegistry` (its
safety part, `Registry!Safety`). The invariant adds to `Inv`
that each task in a call is paired with the name it is in a call for, so that the
object it works on, whichever address that has, is nobody else's to free; the
refinement needs besides that the abstract count of a name is the number of
handles, in every state between the steps of a call.

And about `RtlInit`: `CompleteInside` (`ReadyWhenEntered`) and `FailedIsClosed`
(`FailureCloses`). That the linker is whole inside of its mutex is not
inductive, because the mutex exists long before the linker does. `MakerInv` says
that there is one maker, which has the libio lock (`LibioInv`) and holds the
mutex from its creation on; `OpenedInv` that the parts that are open are a
prefix of the order in which they are opened; and `MissingInv` that what is
still missing the task that owns the mutex is about to do, which includes an attempt to
enter the base image's symbols. Tasks that do the
end of the initialisation a second time are harmless by `OwnerInv`: a release
by a task that is not the owner changes nothing.

`ObjCacheProofs`: `TypeCorrect`, `CacheIsFaithful` (`ReturnsFileData`) and
`CacheIsComplete` (`ReturnsAllThereIs`). The point of the invariant is
its part `Image`: not `level` bytes but the whole buffer is the file from `offset` on, as
far as the file goes. A partial hit counts less than it moves, so a statement
about the first `level` bytes only would not survive the next partial hit.
`FillInv` describes a buffer half filled, `LevelInFile` what may be counted,
`FirstInv` why an error in the first read leaves the buffer fit for the next
format although nothing is flushed, and `FileInv` why a buffer is never taken
for that of the next file with the same descriptor.

`MmapProofs`: `MemoryIsAccountedFor` (`MemoryIsListed`). `OwnerInv`: an allocated
block has one owner, a mapping or a call that is reading into it; `FixedInv`: a
fixed mapping is one without memory, which is what makes the removal of a
mapping, with its address freed, harmless for all others; `HitInv`: what a
`munmap` is about to extract is on the list. None of them speaks of the lock. A
call without a lock, which the code allows, can break the chain, and the
invariant says that this is the only way to lose memory.

`ObjLoadProofs`: `ObjLoadTypeCorrect` (`TypeOK`), `FailureGivesBack`
(`AllButSectionsGivenBack`), `NoDoubleFree` (`FreedOnce`), `TableInMemory` (`SymbolsInMemory`),
`StrongNotHidden` (`StrongIsFound`) and `LoadIsAllOrNothing`, the refinement of
`ObjectStore`. `AllButSectionsGivenBack` speaks of the end of a failed load only; the
invariant says for each phase what is allocated, and that every allocated part is
owned by exactly one pointer of one object. `SymbolsInMemory` needs the order of the
table: `Erased` takes the entries of one file out of it and keeps the order of the
rest, which is proved by its recursion over the positions, and `StrongIsFound` needs that
an entry goes in front of all others or behind all others of its name.

`RapLoaderProofs`: `HoldsAreCallsAlways`, `RefsMatchAlways`, `ListIsReadyAlways`, and
`RapInvariance` from which they follow. The mutex is counted (`HoldInv`), and
only its owner has calls inside, so that the list changes under nobody else's feet.
What makes `RefsMatch` inductive is what a call knows of its application
(`Placed`: it is on the list, with or without an object, depending on where the
call is), that the calls below it on the stack stand on others (`Apart`), and
that an unload will not find one of those (`Spared`), which is what the program
is asked. `ReadyInv` says why nobody gets the mutex before the list
is made: there is a task that makes it, and that task owns the mutex.

`UnresolvedProofs`: `UnresolvedTypeCorrect` (`TypeOK`), `AlwaysRecorded` (`PendingIsRecorded`),
`NothingKnownWaits` (`NothingLeftBehind`), `CountAlwaysExact` (`CountIsExact`),
`AlwaysCompacted` (`Compacted`) and `NoOtherWayToGoWrong`, that as long as the table is
`sound` a place which is relocated with a wrong symbol is `misnamed`, from
`UnresolvedInvariance`. The exceptions of the properties (`sound`, `ub`, `misnamed`) are
those of the theorems. The model walks over a block as the code
does, record by record, and a walk may miss records or leave the block. The first
part of the proof does away with the walk: the records of a block that has its
`Shape` (those it counts are names with all their text, and relocations; the rest
are empty) are exactly those that a walk visits (`Walks`), whatever the sizes. The
second part is about whole tables. `Recorded` says that the sites that wait
and the live relocation records are one to one. `Named` says that the ordinal of a
record is the rank of its name, and that no name up to that one is about to be
removed; without the second half it would not survive a compaction, which removes
names one at a time and renumbers those behind. `Shifts` is what a step does to a
table: a map from the records after the step to those before it that keeps their
order and what they hold; ranks of names are carried over by it. `CompactInv` says
where the compaction is (nothing unused is behind it), `WaitInv` that what waits
asks for nothing that was exported when the last pass was made, `CountInv` counts,
and `FreshInv` says that relocations which have not been reached have no value. What is said
of the table (`TableInv`) holds while `sound` is TRUE and `ub` FALSE, as the properties
do.

`ImageProofs`: `SearchFinds` and `ImageFinds` (`FindsWhatIsNamed`), `ImageFits`
(`SectionsFit`), `ImageReaches` (`RelocationsReach`), from `ImageInvariant`, for any
archives, disks, paths and requests, any section headers, any addresses of the
regions that keep them apart, and any records (addresses are integers and sums of them do
not wrap), with the exceptions that the properties name.
- *Search.* The property speaks of its end only. `ScanInv` says where a scan from the
  start is: at a member or behind the last, with no member of the wanted name passed,
  and no table of long names passed without taking note of it. That the place behind
  a member is the header of the next, and that a place is the header of one member
  only, is what `Ends` (a recursive sum) satisfies; `PathInv` says that no directory
  passed has the file, and `StartInv` that what `extended` says is a table.
- *Layout.* `HeadersFit`: the loop that sums sizes (`SectionSize`) and the one that
  places sections (`OffsetsIn`) are two recursive functions that treat empty sections
  and first ones differently; by induction over the sections placing never gets
  ahead of summing, the places of one region grow, and the next alignment that is
  added at the end covers the region's start. `SectionsAreFoundAgain` follows the kept
  sections through `ElfSections`, whose numbers grow.
- *Relocation.* `RecordsReach`: a field of 10, 22, 24 or 30 bits, cut out of a sum
  and put into a word, is found again by the processor, and the rest of the word is
  as it was, for all integers.

These proofs need induction, and the recursive functions they speak of must first be
shown to be functions at all. Both are done once, for sets (`Induction`, `Recursion`,
`RecursiveFunction`): a predicate cannot be a parameter of a lemma, but the set of the
numbers at which it holds can, and that set contains all of them by the
well-foundedness of the order on the numbers; a function that satisfies the equation
of a definition is made by induction, and the definition then chooses one that does.

`RapFileProofs`: `LoadingKeepsInStep` (`InStep`), for any files, lengths of words and
blocks, sizes of the buffer, and truncations. Its invariant is `LoadInv`, and has a part for the reader of
fields and one for the decompressor.
- *Fields.* The claim is that the reader decides at each field as the writer of the
  stream did. What remains of the stream at a field has a name for each kind of field
  (`HeaderRest`, `SizeRest`, ..., `OffsetRest`, `BehindAddend`); `Stands` says which of
  them remains where the loader is, and what it has kept there of the fields before
  (`Sized`, `Counts`, `InRelocs`), without which it would decide otherwise. Each
  action asks for the first field of what remains after it (`GoesTo`). That the
  sections with contents come in the order of the regions, each once, is needed
  because the loader finds its place among them by the section's number.
- *Cells.* The cells that have been taken and those that remain are the stream (`Reads`).
  `Buffered` says that what is in the buffer reaches to the end of a block, and that the
  offset is where the next block begins in the file; `IsLoading`, that the buffer
  belongs to the file that is open. The length of a block in the file differs
  with the compression, which is why the offset is stated by what is found there.

`RapFileProofs`: `PackingComesBack` (`ComesBack`), for any blocks, hash functions, sizes of
the buffer and widths of the fields that `FastLZAssumption` allows. The difficulty is that
packer and unpacker do not agree on where an item ends: the packer goes by bytes of the
block, the unpacker by bytes of the packed one. What relates them is a chain of places
(`Chain`): pairs of how much of the packed block and how much of the block is behind,
where each pair but the last has an item (`ItemAt`) that leads to another pair.
- *Packing.* `Packing` says that there is such a chain and behind it literals whose
  count is not yet known; `Complete`, that there is a chain to the end. The chain is
  said to exist and is not kept: each action adds to it what it has written.
  `CountedIs` and `WithByteIs` are about a count that is put in or taken back,
  `Matched1` and `Matched2` about a match of each level; a long match of level 1 is
  several items, whose places are added by induction (`PartsChain`). A match is an item
  because the bytes repeat where the packer has compared them (`DistanceIs`,
  `ComparedIs`), whatever the hash table proposed.
- *Size.* `CountBytes` is how many counts so many bytes need; a match is
  written with fewer bytes than it covers, and so pays for the count behind it
  (`MatchEnds`).
- *Unpacking.* What is out are the first bytes of the block, and they end where a pair
  of the chain is (`OnTheWay`). The bytes behind the control byte say the length and the
  distance that the chain has there (`Item1Is`, `Item2Is`; the latter counts the full
  bytes of a length, `FullIs`), and the copy, which may reach into what it writes, is the
  block's next bytes by induction over them (`CopiesAre`).
The invariant is `LzInv`.

The only assumptions are the named ASSUMEs of the modules and the hypotheses
above; TLC evaluates the ASSUMEs in the runs.

Only model-checked: liveness (`CallsReturn` of both modules, `UnusedIsUnloaded`,
`ReadInFileReturns`, `LockIsGivenUp`, the fairness of `ModuleRegistry`), which the
proof system does not reach. Every invariant that a passing run checks is a theorem. Of
the four properties that are violated, `LockedIsNotUnloaded` is a theorem for coordinated
clients; the others are false as they stand.

## 11. What the models show of the code

Four counterexamples contradict sentences of the repository and are runs
(`PROJECT.json`, "findings"):

- `loader_unload_race` (rtl.c:496). While the destructors of an object run, it is
  reopened, its locked flag is cleared at the end of that `dlopen`, it is closed again
  and freed; the first `dlclose` goes on with the freed object. rtl.c:475: "If the object
  is locked it cannot be unloaded and the unload fails."
- `loader_archive` (rtl-obj.c:326). The name `archive:object` is compared as a whole with
  the object's name, so that a second `dlopen` loads the object a second time. rtl.c:401:
  "See if the object module has already been loaded."
- `image_handlers` (rtl-obj.c:693). The loop over a table of constructors calls the first
  one as often as the table has entries. rtl-obj.h:515: "Invoke the constructors the
  object has. Constructors are a table of pointers".
- `unresolved_names` (rtl-unresolved.c:134, :265, :372). A relocation is done with the
  symbol of another name: with one whose record it shares because that name is a
  character shorter, or because a name in front of its own was removed, or put in, and
  its ordinal was not adapted. rtl-unresolved.h:37: "The symbol name a relocation
  references is held in a specific symbol name string record in the table the
  relocation record references."

Other sentences are contradicted by the code in a way that a property of a passing run
states as its exception; they are findings as well:

| sentence | code | exception of |
| --- | --- | --- |
| rtl-obj-cache.h:65 "The default state of the cache is flushed." | a cache that was never flushed takes every file to be empty (rtl-obj-cache.c:33) | `ReturnsAllThereIs` |
| rtl-unresolved.h:122 "The number of records in the block." | the records of a name that goes into a new block are counted in the old one, beyond its end (rtl-unresolved.c:416) | `TypeOK` of `Unresolved` |
| rtl-obj.h:545 "erasing all symbols and releasing all memory" | nobody calls `rtems_rtl_obj_erase_sections`, section records leak | `AllButSectionsGivenBack` |
| rtl-elf.c:395 "If the symbol is weak and present globally ignore this symbol" | it is entered a second time, and found when the first is unloaded (rtl-elf.c:400) | `StrongIsFound`, `ObjectStore` |
| rtl-rap.c:478 "We accept the first weak symbol we find and make it globally exported." | no symbol of a RAP file enters the global table | `ObjectStore` |
| rtl-obj.c:761 "we need to scan from start of the archive for a file name of '//'" | with an offset in the name it is looked for from that offset on (rtl-obj.c:856) | `MissedAtOffset` |
| rtl-obj.c:752 "first pass reset the offset and start the search again in case the offset provided is not valid any more" | an offset behind the end, or of another member, ends the search (rtl-obj.c:786) | `MissedAtOffset` |
| rtl-mdreloc-arm.c:79 "S - P + A", :83 "Extract addend and sign-extend if needed.", :110 "B + S + A" | the section's base is added to a value that has one; the opcode's bits stay in an addend that is not negative; an unaligned word has no base added | `ReachesArm`, `ReachesPointer` |

The following is in the models as it is in the code as well, and the properties are
stated so that they hold with it.

Loader and API:
- `dlinfo` with NULL keeps the mutex (dlfcn.c:133).
- Two absolute names compare equal, because a name is compared up to the first
  delimiter (rtl-obj.c:329): `dlopen` returns another file's object.
- The list changes while `r_state` is `RT_CONSISTENT` (dlfcn.c:59).

Initialisation:
- `rtl` is published before it is cleared and before its mutex exists; a failure
  leaves it set to freed memory and the libio lock taken (rtl.c:88, 122).
- `rtl_path_update` returns false always, and its old string leaks.
- That the base image's symbols could not be entered is ignored (rtl.c:610), and base
  symbols that are added later never resolve what waits for them.

Reading:
- A read that starts in a file and reaches past its end, while the size of the
  file is not known, loops for ever (rtl-obj-cache.c:114); `ReadInFileReturns`
  is therefore about reads inside of the file.
- The read of a 256 byte name fails near the end of an archive; bytes of a member
  that end as a header does are taken for one, when an offset leads there
  (rtl-obj.c:794).
- A block that is not packed is copied without a look at the size of the buffer
  (rtl-obj-comp.c:153).
- A name that is appended to a relocation record whose type resolves no symbol is not
  skipped (rtl-rap.c:333).
- The RAP loader adds no archive offset to what follows the header
  (rtl-rap.c:666).

Symbols and relocations:
- `rtems_rtl_unresolved_remove` has no caller: records of objects that are gone
  stay, and a pass can relocate through them.
- The m68k and powerpc back ends write some words and return false all the same.
  The unaligned words of a sparc are read in one byte order and written in the
  other. On an arm the opcode's bits in an addend make a displacement seem nearer than it
  is: a branch whose symbol is 2^28 bytes away or more can be accepted and go elsewhere
  (rtl-mdreloc-arm.c:79-107).

Locks:
- A `dlclose` of the application loader that is refused is not repeated, and the
  application is forgotten all the same (rap.c:202); its descriptor and name are never
  freed, and an allocation that failed is cleared (rap.c:191).
- `rtems_rap_load` returns true with its mutex held (rap.c:354), and
  `rtems_rap_check_handle` reads the list without (rap.c:169).
- A fixed mapping's address stays 0, and the file is read to address 0
  (mmap.c); its record is never freed; without memory for the mapping `mmap`
  returns NULL and not `MAP_FAILED`.

## 12. What is not modelled

- Error texts, tracing, string and chain helpers, `dlerror`: output and
  iteration. `rtems_rtl_set_error` takes the recursive mutex and gives it back.
- The shell commands, the test program, the build scripts.
- The libbsd headers and the network configuration: declarations.
- How names hash and how large the base table of symbols is: buckets are modelled
  by the order of insertion per name.
- The characters of headers: the digits of an archive header, the identification
  of an ELF file, the header line of a RAP file. A header is right or wrong.
- RAP files in archives, for the reason given above.
- Sparc relocation types that the code looks up behind its tables, and the
  unaligned words of big-endian hosts.
- The allocator's hook and its indirect pointers: nothing in the repository sets
  or uses them. (`rtems_rtl_alloc_indirect_del` takes the lock and never gives it
  back; `rtems_rtl_alloc_new` clears NULL when a zeroed allocation fails.)
- The getters of the application loader.
- A relocation against a local symbol that cannot be found, which the ELF loader
  records as unresolved without a name (rtl-elf.c:209-234).

## 13. Plan

Every safety property that a passing run checks is a theorem. What is left to prove are
the action properties hidden in the invariants, such as that a relocated place
stays as it is until its object is closed (`Unresolved`).
