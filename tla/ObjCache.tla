------------------------------ MODULE ObjCache ------------------------------
(***************************************************************************)
(* The object file cache: a buffer that holds a part of the object file    *)
(* being loaded.  A read is answered from the buffer; when only its first  *)
(* part is there, that part is moved to the start of the buffer and the    *)
(* rest is read behind it.                                                 *)
(*                                                                         *)
(* The byte at position i of file f is the pair <<f, i>>: the properties   *)
(* only ask where a byte comes from.  The linker opens one file at a time, *)
(* so the file descriptor number is the same for each of them and the      *)
(* cache only knows whether its buffer belongs to that number.             *)
(***************************************************************************)
EXTENDS Integers

CONSTANTS
  Files,      \* object files
  Length,     \* Length[f]: the size of file f
  NoFile,     \* no file is open
  Size,       \* the size of the buffer
  MaxOffset,  \* bound: the largest offset a loader asks for
  Huge        \* (size_t) -1, the file size of a flushed cache

ASSUME CacheAssumption ==
  /\ Length \in [Files -> Nat] /\ NoFile \notin Files
  /\ Size \in Nat \ {0} /\ MaxOffset \in Nat
  /\ Huge \in Nat /\ Huge > MaxOffset + Size

VARIABLES
  file,       \* the file the linker has open, or NoFile
  cached,     \* cache->fd is the descriptor of the open file (else -1)
  fileSize,   \* cache->file_size
  offset,     \* cache->offset, the position in the file of the buffer's start
  level,      \* cache->level, how much of the buffer is said to be valid
  buffer,     \* cache->buffer
  pc,         \* where the linker is: see Points
  want,       \* the length the caller of cache_read asked for
  roff, rlen, \* offset and *length of the read
  bufOff,     \* buffer_offset; once the read has returned, *buffer
  bufRead,    \* buffer_read, what is left to read from the file
  first,      \* the first read of this file, by the first loader format
  flushed     \* the cache has been flushed since it was opened

cacheVars == <<cached, fileSize, offset, level, buffer>>
callVars  == <<want, roff, rlen, bufOff, bufRead>>
loadVars  == <<file, first, flushed>>
vars == <<file, cached, fileSize, offset, level, buffer, pc,
          want, roff, rlen, bufOff, bufRead, first, flushed>>

Points == {"closed", "idle", "lookup", "fill", "returned", "failed"}

Junk == <<NoFile, 0>>
Cells == 0 .. Size - 1

TypeOK ==
  /\ file \in Files \union {NoFile}
  /\ cached \in BOOLEAN /\ first \in BOOLEAN /\ flushed \in BOOLEAN
  /\ fileSize \in Nat /\ offset \in Nat
  /\ level \in 0 .. Size
  /\ buffer \in [Cells -> (Files \union {NoFile}) \X Nat]
  /\ pc \in Points
  /\ want \in Nat /\ roff \in Nat /\ rlen \in 0 .. Size
  /\ bufOff \in 0 .. Size /\ bufRead \in 0 .. Size

\* rtems_rtl_obj_cache_open: the allocated buffer is not cleared.
Init ==
  /\ file = NoFile
  /\ cached = FALSE /\ fileSize = 0 /\ offset = 0 /\ level = 0
  /\ buffer = [i \in Cells |-> Junk]
  /\ pc = "closed"
  /\ want = 0 /\ roff = 0 /\ rlen = 0 /\ bufOff = 0 /\ bufRead = 0
  /\ first = TRUE /\ flushed = FALSE

-----------------------------------------------------------------------------
(* rtems_rtl_obj_load opens a file, a format loader reads it. *)

OpenFile(f) ==
  /\ pc = "closed"
  /\ file' = f /\ first' = TRUE
  /\ pc' = "idle"
  /\ UNCHANGED <<cacheVars, callVars, flushed>>

\* Mutants of EndLoad, used to test the properties below.
EndLoadUnflushed ==
  /\ pc \in {"idle", "failed"}
  /\ file' = NoFile
  /\ pc' = "closed"
  /\ UNCHANGED <<cacheVars, callVars, first, flushed>>

EndLoadSizeZero ==           \* a flush that resets the cache as open does
  /\ pc \in {"idle", "failed"}
  /\ cached' = FALSE /\ fileSize' = 0 /\ level' = 0
  /\ flushed' = TRUE
  /\ file' = NoFile
  /\ pc' = "closed"
  /\ UNCHANGED <<offset, buffer, callVars, first>>

\* The load is over, well or not: flush the cache, close the file.
EndLoad ==
  /\ pc \in {"idle", "failed"}
  /\ cached' = FALSE /\ fileSize' = Huge /\ level' = 0    \* cache_flush
  /\ flushed' = TRUE
  /\ file' = NoFile
  /\ pc' = "closed"
  /\ UNCHANGED <<offset, buffer, callVars, first>>

\* The locals of a call go out of scope.
Forget == want' = 0 /\ roff' = 0 /\ rlen' = 0 /\ bufOff' = 0 /\ bufRead' = 0

\* The caller has used what it got.
Continue ==
  /\ pc = "returned"
  /\ first' = FALSE
  /\ pc' = "idle"
  /\ Forget
  /\ UNCHANGED <<cacheVars, file, flushed>>

\* The check of the first loader format fails on its first read, and the next
\* format is tried without a flush.
NextFormat ==
  /\ pc = "failed" /\ first
  /\ first' = FALSE
  /\ pc' = "idle"
  /\ UNCHANGED <<cacheVars, callVars, file, flushed>>

-----------------------------------------------------------------------------
(* rtems_rtl_obj_cache_read. *)

AtMost(a, b) == IF a <= b THEN a ELSE b

\* Longer than the buffer, or past what is taken for the end of the file.
Refuse(off, len) ==
  /\ pc = "idle"
  /\ len > Size \/ off > fileSize
  /\ pc' = "failed"
  /\ UNCHANGED <<cacheVars, callVars, loadVars>>

\* *length is cut at the end of the file, if the size of the file is known.
Accept(off, len) ==
  /\ pc = "idle"
  /\ len <= Size /\ off <= fileSize
  /\ want' = len /\ roff' = off
  /\ rlen' = AtMost(len, fileSize - off)
  /\ pc' = "lookup"
  /\ UNCHANGED <<cacheVars, bufOff, bufRead, loadVars>>

InBuffer == cached /\ offset <= roff /\ roff < offset + level
Skip == roff - offset      \* where the wanted data start in the buffer

\* All of the data is in the buffer.
Hit ==
  /\ pc = "lookup" /\ InBuffer /\ rlen <= level - Skip
  /\ bufOff' = Skip
  /\ pc' = "returned"
  /\ UNCHANGED <<cacheVars, want, roff, rlen, bufRead, loadVars>>

\* The wanted data moved to the start of the buffer, with all that is behind it.
Moved == [i \in Cells |-> IF i + Skip < Size THEN buffer[i + Skip] ELSE buffer[i]]

\* Mutant of PartialHit, used to test the properties below.
PartialHitAdds ==            \* counts what is read in addition to the level
  /\ pc = "lookup" /\ InBuffer /\ rlen > level - Skip
  /\ buffer' = Moved
  /\ bufRead' = Skip
  /\ bufOff' = Size - Skip
  /\ level' = level + Skip
  /\ pc' = "fill"
  /\ UNCHANGED <<cached, fileSize, offset, want, roff, rlen, loadVars>>

\* The first part is: move it down, and read as much as the move made room for.
\* Only that much is counted as the level.
PartialHit ==
  /\ pc = "lookup" /\ InBuffer /\ rlen > level - Skip
  /\ buffer' = Moved
  /\ bufRead' = Skip
  /\ bufOff' = Size - Skip
  /\ level' = Skip
  /\ pc' = "fill"
  /\ UNCHANGED <<cached, fileSize, offset, want, roff, rlen, loadVars>>

\* Nothing is: read a buffer full from the wanted offset on.
Miss ==
  /\ pc = "lookup" /\ ~InBuffer
  /\ bufRead' = Size
  /\ bufOff' = 0
  /\ level' = Size
  /\ pc' = "fill"
  /\ UNCHANGED <<cached, fileSize, offset, buffer, want, roff, rlen, loadVars>>

\* The position in the file of the next byte to read.
Position == roff + bufOff

\* read() returns n bytes, possibly fewer than asked for.
Fragment(n) ==
  /\ pc = "fill" /\ n <= bufRead /\ Position + n <= Length[file]
  /\ buffer' = [i \in Cells |-> IF i \in bufOff .. bufOff + n - 1
                                  THEN <<file, roff + i>> ELSE buffer[i]]
  /\ bufRead' = bufRead - n
  /\ bufOff' = bufOff + n
  /\ UNCHANGED <<cached, fileSize, offset, level, pc, want, roff, rlen, loadVars>>

\* read() returns 0: the level is what has been read.
EndOfFile ==
  /\ pc = "fill" /\ bufRead > 0 /\ Position >= Length[file]
  /\ level' = level - bufRead
  /\ bufRead' = 0
  /\ UNCHANGED <<cached, fileSize, offset, buffer, pc, want, roff, rlen, bufOff,
                 loadVars>>

\* Mutant of Filled, used to test the properties below.
FilledOffsetKept ==
  /\ pc = "fill" /\ bufRead = 0
  /\ cached' = TRUE
  /\ fileSize' = Length[file]
  /\ pc' = "lookup"
  /\ UNCHANGED <<offset, level, buffer, callVars, loadVars>>

\* The buffer is of this file and starts at the wanted offset; look again.
Filled ==
  /\ pc = "fill" /\ bufRead = 0
  /\ cached' = TRUE /\ offset' = roff
  /\ fileSize' = Length[file]
  /\ pc' = "lookup"
  /\ UNCHANGED <<level, buffer, callVars, loadVars>>

\* lseek fails: what was wanted and is there has been moved, the level is not set yet.
SeekError ==
  /\ pc = "lookup"
  /\ \/ InBuffer /\ rlen > level - Skip /\ buffer' = Moved
     \/ ~InBuffer /\ UNCHANGED buffer
  /\ pc' = "failed"
  /\ Forget
  /\ UNCHANGED <<cached, fileSize, offset, level, loadVars>>

\* read fails, leaving the buffer as it is.
ReadError ==
  /\ pc = "fill" /\ bufRead > 0
  /\ pc' = "failed"
  /\ Forget
  /\ UNCHANGED <<cacheVars, loadVars>>

\* fstat fails when the buffer has been filled.
StatError ==
  /\ pc = "fill" /\ bufRead = 0
  /\ cached' = TRUE /\ offset' = roff
  /\ pc' = "failed"
  /\ Forget
  /\ UNCHANGED <<fileSize, level, buffer, loadVars>>

-----------------------------------------------------------------------------
Load ==
  \/ \E f \in Files : OpenFile(f)
  \/ EndLoad \/ Continue \/ NextFormat
  \/ \E off \in 0 .. MaxOffset, len \in 0 .. Size + 1 :
       Refuse(off, len) \/ Accept(off, len)

Read ==
  \/ Hit \/ PartialHit \/ Miss
  \/ \E n \in 1 .. Size : Fragment(n)
  \/ EndOfFile \/ Filled \/ SeekError \/ ReadError \/ StatError

Next == Load \/ Read

Spec == Init /\ [][Next]_vars

FairSpec == Spec /\ WF_vars(Read)

-----------------------------------------------------------------------------

\* What a read returns are the bytes of the open file at the wanted offset:
\* never those of a file loaded before, never a part of the buffer that a
\* partial hit has moved or a short read has left, never beyond the end.
ReturnsFileData ==
  pc = "returned" =>
    /\ bufOff + rlen <= level
    /\ \A i \in 0 .. rlen - 1 : /\ buffer[bufOff + i] = <<file, roff + i>>
                                /\ roff + i < Length[file]

\* A read that succeeds returns everything there is of what was asked for.  The one
\* exception is a cache that was never flushed (rtl-obj-cache.c:33), although
\* rtl-obj-cache.h:65 says that this is its default state: it takes the file to be
\* empty, and a read from the start of the file returns nothing and TRUE.
ReturnsAllThereIs ==
  pc = "returned" =>
    \/ rlen = AtMost(want, Length[file] - roff)
    \/ ~flushed /\ roff = 0 /\ rlen = 0

\* A read of data that are in the file returns or fails.
ReadInFileReturns ==
  (pc = "lookup" /\ roff < Length[file] /\ roff + rlen <= Length[file])
     ~> pc \in {"returned", "failed"}

=============================================================================
