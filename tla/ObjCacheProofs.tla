--------------------------- MODULE ObjCacheProofs ---------------------------
(***************************************************************************)
(* Proofs about ObjCache for every size of the buffer and every set of     *)
(* files: what a read returns is what is in the file.                      *)
(***************************************************************************)
EXTENDS ObjCache, TLAPS

\* All of the buffer, not only level bytes of it, is the file from position o
\* on, as far as the file goes.  A partial hit moves more than it counts.
Image(o) == \A i \in Cells : o + i < Length[file] => buffer[i] = <<file, o + i>>

\* What is counted is in the file.
LevelInFile == level > 0 => offset + level <= Length[file]

Sized == fileSize = Length[file]

\* The descriptor of a closed file is never taken for the next file's.
FileInv ==
  /\ pc = "closed" <=> file = NoFile
  /\ pc = "closed" => ~cached
  /\ pc = "idle" /\ first => ~cached

\* Between two reads, and while one looks in the buffer.
IdleInv ==
  pc \in {"idle", "lookup", "returned"} \/ (pc = "failed" /\ first) =>
    (cached => Image(offset) /\ (Sized \/ LevelInFile))

LookupInv ==
  pc = "lookup" /\ cached => LevelInFile \/ roff + rlen <= Length[file]

\* The first read of a file fills the buffer from one offset only: an error
\* in it leaves the buffer fit for the next loader format.
FirstInv ==
  pc \in {"lookup", "fill"} /\ first /\ cached =>
    offset = roff /\ Sized /\ Image(offset)

\* While the buffer is being filled: what is in front of the next byte to
\* read is in place, and the part of the level that was read is in the file.
FillInv ==
  pc = "fill" =>
    /\ \A i \in Cells : i < bufOff /\ roff + i < Length[file]
                          => buffer[i] = <<file, roff + i>>
    /\ bufOff + bufRead <= Size
    /\ bufRead <= level /\ level - bufRead <= bufOff
    /\ bufOff + bufRead = Size
       \/ (bufRead = 0 /\ roff + bufOff >= Length[file])
    /\ level > bufRead => roff + (level - bufRead) <= Length[file]

ReturnInv ==
  pc = "returned" =>
    /\ roff = offset + bufOff /\ bufOff + rlen <= level
    /\ roff + rlen <= Length[file] /\ Image(offset)

\* The size of the file is right or not known, which before the first flush is 0.
Unknown == IF flushed THEN Huge ELSE 0

SizeInv ==
  /\ file # NoFile => fileSize = Unknown \/ Sized
  /\ file = NoFile => fileSize = Unknown
  /\ pc \in {"lookup", "fill", "returned"} =>
       \/ rlen = AtMost(want, Length[file] - roff)
       \/ IF flushed THEN rlen = want ELSE rlen = 0 /\ roff = 0

Inv ==
  /\ TypeOK /\ FileInv /\ IdleInv /\ LookupInv /\ FirstInv /\ FillInv
  /\ ReturnInv /\ SizeInv

-----------------------------------------------------------------------------
LEMMA InvInit == Init => Inv
<1>. SUFFICES ASSUME Init PROVE Inv
  OBVIOUS
<1>1. TypeOK
  <2>1. cached \in BOOLEAN /\ first \in BOOLEAN /\ flushed \in BOOLEAN
    BY Zenon DEF Init
  <2>. QED
    BY <2>1, CacheAssumption DEF CacheAssumption, Init, TypeOK, Points, Cells, Junk
<1>2. FileInv /\ IdleInv /\ LookupInv /\ FirstInv /\ FillInv /\ ReturnInv
  BY DEF Init, FileInv, IdleInv, LookupInv, FirstInv, FillInv, ReturnInv
<1>3. SizeInv
  BY DEF Init, SizeInv, Unknown
<1>. QED
  BY <1>1, <1>2, <1>3 DEF Inv

LEMMA TypeStep == ASSUME Inv, [Next]_vars PROVE TypeOK'
<1>1. ASSUME NEW f \in Files, OpenFile(f) PROVE TypeOK'
  <2>1. cached' \in BOOLEAN /\ first' \in BOOLEAN /\ flushed' \in BOOLEAN
    BY <1>1, Zenon DEF Inv, TypeOK, OpenFile, cacheVars, callVars, loadVars
  <2>. QED
    BY <1>1, <2>1, CacheAssumption
       DEF CacheAssumption, Inv, TypeOK, Points, FileInv, OpenFile,
           cacheVars, callVars, loadVars
<1>2. CASE EndLoad
  <2>1. cached' \in BOOLEAN /\ first' \in BOOLEAN /\ flushed' \in BOOLEAN
    BY <1>2, Zenon DEF Inv, TypeOK, EndLoad, cacheVars, callVars, loadVars
  <2>. QED
    BY <1>2, <2>1, CacheAssumption
       DEF CacheAssumption, Inv, TypeOK, Points, FileInv, EndLoad,
           cacheVars, callVars, loadVars
<1>3. CASE Continue
  <2>1. cached' \in BOOLEAN /\ first' \in BOOLEAN /\ flushed' \in BOOLEAN
    BY <1>3, Zenon DEF Inv, TypeOK, Continue, cacheVars, callVars, loadVars
  <2>. QED
    BY <1>3, <2>1, CacheAssumption
       DEF CacheAssumption, Inv, TypeOK, Points, Continue, Forget, cacheVars
<1>4. CASE NextFormat
  BY <1>4, CacheAssumption
     DEF CacheAssumption, Inv, TypeOK, Points, FileInv, FillInv, Cells,
         cacheVars, callVars, loadVars, NextFormat
<1>5. ASSUME NEW off \in 0 .. MaxOffset, NEW len \in 0 .. Size + 1, Refuse(off, len) PROVE TypeOK'
  BY <1>5, CacheAssumption
     DEF CacheAssumption, Inv, TypeOK, Points, FileInv, FillInv, Cells,
         cacheVars, callVars, loadVars, Refuse
<1>6. ASSUME NEW off \in 0 .. MaxOffset, NEW len \in 0 .. Size + 1, Accept(off, len) PROVE TypeOK'
  BY <1>6, CacheAssumption
     DEF CacheAssumption, Inv, TypeOK, Points, FileInv, FillInv, Cells,
         cacheVars, callVars, loadVars, Accept, AtMost
<1>7. CASE Hit
  BY <1>7, CacheAssumption
     DEF CacheAssumption, Inv, TypeOK, Points, FileInv, FillInv, Cells,
         cacheVars, callVars, loadVars, Hit, InBuffer, Skip
<1>8. CASE PartialHit
  BY <1>8, CacheAssumption
     DEF CacheAssumption, Inv, TypeOK, Points, FileInv, FillInv, Cells,
         cacheVars, callVars, loadVars, PartialHit, Moved, InBuffer, Skip
<1>9. CASE Miss
  BY <1>9, CacheAssumption
     DEF CacheAssumption, Inv, TypeOK, Points, FileInv, FillInv, Cells,
         cacheVars, callVars, loadVars, Miss, InBuffer, Skip
<1>10. ASSUME NEW n \in 1 .. Size, Fragment(n) PROVE TypeOK'
  BY <1>10, CacheAssumption
     DEF CacheAssumption, Inv, TypeOK, Points, FileInv, FillInv, Cells,
         cacheVars, callVars, loadVars, Fragment, Position
<1>11. CASE EndOfFile
  BY <1>11, CacheAssumption
     DEF CacheAssumption, Inv, TypeOK, Points, FileInv, FillInv, Cells,
         cacheVars, callVars, loadVars, EndOfFile, Position
<1>12. CASE Filled
  BY <1>12, CacheAssumption
     DEF CacheAssumption, Inv, TypeOK, Points, FileInv, FillInv, Cells,
         cacheVars, callVars, loadVars, Filled
<1>13. CASE ReadError
  BY <1>13, CacheAssumption
     DEF CacheAssumption, Inv, TypeOK, Points, FileInv, FillInv, Cells,
         cacheVars, callVars, loadVars, ReadError, Forget
<1>14. CASE StatError
  BY <1>14, CacheAssumption
     DEF CacheAssumption, Inv, TypeOK, Points, FileInv, FillInv, Cells,
         cacheVars, callVars, loadVars, StatError, Forget
<1>15. CASE UNCHANGED vars
  BY <1>15, CacheAssumption
     DEF CacheAssumption, Inv, TypeOK, Points, FileInv, FillInv, Cells,
         cacheVars, callVars, loadVars, vars
<1>16. CASE SeekError
  <2>1. cached' \in BOOLEAN /\ first' \in BOOLEAN /\ flushed' \in BOOLEAN
    BY <1>16, Zenon DEF Inv, TypeOK, SeekError, loadVars
  <2>2. buffer' \in [Cells -> (Files \union {NoFile}) \X Nat]
    <3>1. CASE InBuffer /\ buffer' = Moved
      <4>1. Size \in Nat /\ offset \in Nat /\ roff \in Nat /\ offset <= roff
        BY <3>1, CacheAssumption DEF CacheAssumption, Inv, TypeOK, InBuffer
      <4>2. \A i \in Cells : i + Skip < Size => i + Skip \in Cells
        BY <4>1 DEF Cells, Skip
      <4>. QED
        BY <3>1, <4>2, Zenon DEF Inv, TypeOK, Moved
    <3>2. CASE UNCHANGED buffer
      BY <3>2 DEF Inv, TypeOK
    <3>. QED
      BY <1>16, <3>1, <3>2 DEF SeekError
  <2>. QED
    BY <1>16, <2>1, <2>2, CacheAssumption
       DEF CacheAssumption, Inv, TypeOK, Points, SeekError, InBuffer, Skip, Forget,
           cacheVars, callVars, loadVars
<1>. QED
  BY <1>1, <1>2, <1>3, <1>4, <1>5, <1>6, <1>7, <1>8, <1>9, <1>10, <1>11,
      <1>12, <1>13, <1>14, <1>15, <1>16
     DEF Next, Load, Read

LEMMA FileStep == ASSUME Inv, [Next]_vars PROVE FileInv'
<1>1. ASSUME NEW f \in Files, OpenFile(f) PROVE FileInv'
  BY <1>1, CacheAssumption
     DEF CacheAssumption, Inv, TypeOK, Points, FileInv, cacheVars,
         callVars, loadVars, OpenFile
<1>2. CASE EndLoad
  BY <1>2, CacheAssumption
     DEF CacheAssumption, Inv, TypeOK, Points, FileInv, cacheVars,
         callVars, loadVars, EndLoad
<1>3. CASE Continue
  BY <1>3, CacheAssumption
     DEF CacheAssumption, Inv, TypeOK, Points, FileInv, cacheVars,
         callVars, loadVars, Continue, Forget
<1>4. CASE NextFormat
  BY <1>4, CacheAssumption
     DEF CacheAssumption, Inv, TypeOK, Points, FileInv, cacheVars,
         callVars, loadVars, NextFormat
<1>5. ASSUME NEW off \in 0 .. MaxOffset, NEW len \in 0 .. Size + 1, Refuse(off, len) PROVE FileInv'
  BY <1>5, CacheAssumption
     DEF CacheAssumption, Inv, TypeOK, Points, FileInv, cacheVars,
         callVars, loadVars, Refuse
<1>6. ASSUME NEW off \in 0 .. MaxOffset, NEW len \in 0 .. Size + 1, Accept(off, len) PROVE FileInv'
  BY <1>6, CacheAssumption
     DEF CacheAssumption, Inv, TypeOK, Points, FileInv, cacheVars,
         callVars, loadVars, Accept, AtMost
<1>7. CASE Hit
  BY <1>7, CacheAssumption
     DEF CacheAssumption, Inv, TypeOK, Points, FileInv, cacheVars,
         callVars, loadVars, Hit, InBuffer, Skip
<1>8. CASE PartialHit
  BY <1>8, CacheAssumption
     DEF CacheAssumption, Inv, TypeOK, Points, FileInv, cacheVars,
         callVars, loadVars, PartialHit, Moved, InBuffer, Skip
<1>9. CASE Miss
  BY <1>9, CacheAssumption
     DEF CacheAssumption, Inv, TypeOK, Points, FileInv, cacheVars,
         callVars, loadVars, Miss, InBuffer, Skip
<1>10. ASSUME NEW n \in 1 .. Size, Fragment(n) PROVE FileInv'
  BY <1>10, CacheAssumption
     DEF CacheAssumption, Inv, TypeOK, Points, FileInv, cacheVars,
         callVars, loadVars, Fragment, Position
<1>11. CASE EndOfFile
  BY <1>11, CacheAssumption
     DEF CacheAssumption, Inv, TypeOK, Points, FileInv, cacheVars,
         callVars, loadVars, EndOfFile, Position
<1>12. CASE Filled
  BY <1>12, CacheAssumption
     DEF CacheAssumption, Inv, TypeOK, Points, FileInv, cacheVars,
         callVars, loadVars, Filled
<1>13. CASE ReadError
  BY <1>13, CacheAssumption
     DEF CacheAssumption, Inv, TypeOK, Points, FileInv, cacheVars,
         callVars, loadVars, ReadError, Forget
<1>14. CASE StatError
  BY <1>14, CacheAssumption
     DEF CacheAssumption, Inv, TypeOK, Points, FileInv, cacheVars,
         callVars, loadVars, StatError, Forget
<1>15. CASE UNCHANGED vars
  BY <1>15, CacheAssumption
     DEF CacheAssumption, Inv, TypeOK, Points, FileInv, cacheVars,
         callVars, loadVars, vars
<1>16. CASE SeekError
  BY <1>16, CacheAssumption
     DEF CacheAssumption, Inv, TypeOK, Points, FileInv, cacheVars,
         callVars, loadVars, SeekError, Moved, InBuffer, Skip, Forget
<1>. QED
  BY <1>1, <1>2, <1>3, <1>4, <1>5, <1>6, <1>7, <1>8, <1>9, <1>10, <1>11,
      <1>12, <1>13, <1>14, <1>15, <1>16
     DEF Next, Load, Read

LEMMA IdleStep == ASSUME Inv, [Next]_vars PROVE IdleInv'
<1>1. ASSUME NEW f \in Files, OpenFile(f) PROVE IdleInv'
  BY <1>1, CacheAssumption
     DEF CacheAssumption, Inv, TypeOK, Points, FileInv, IdleInv,
         FirstInv, FillInv, Image, LevelInFile, Sized, Cells, cacheVars,
         callVars, loadVars, OpenFile
<1>2. CASE EndLoad
  BY <1>2, CacheAssumption
     DEF CacheAssumption, Inv, TypeOK, Points, FileInv, IdleInv,
         FirstInv, FillInv, Image, LevelInFile, Sized, Cells, cacheVars,
         callVars, loadVars, EndLoad
<1>3. CASE Continue
  BY <1>3, CacheAssumption
     DEF CacheAssumption, Inv, TypeOK, Points, FileInv, IdleInv,
         FirstInv, FillInv, Image, LevelInFile, Sized, Cells, cacheVars,
         callVars, loadVars, Continue, Forget
<1>4. CASE NextFormat
  BY <1>4, CacheAssumption
     DEF CacheAssumption, Inv, TypeOK, Points, FileInv, IdleInv,
         FirstInv, FillInv, Image, LevelInFile, Sized, Cells, cacheVars,
         callVars, loadVars, NextFormat
<1>5. ASSUME NEW off \in 0 .. MaxOffset, NEW len \in 0 .. Size + 1, Refuse(off, len) PROVE IdleInv'
  BY <1>5, CacheAssumption
     DEF CacheAssumption, Inv, TypeOK, Points, FileInv, IdleInv,
         FirstInv, FillInv, Image, LevelInFile, Sized, Cells, cacheVars,
         callVars, loadVars, Refuse
<1>6. ASSUME NEW off \in 0 .. MaxOffset, NEW len \in 0 .. Size + 1, Accept(off, len) PROVE IdleInv'
  BY <1>6, CacheAssumption
     DEF CacheAssumption, Inv, TypeOK, Points, FileInv, IdleInv,
         FirstInv, FillInv, Image, LevelInFile, Sized, Cells, cacheVars,
         callVars, loadVars, Accept, AtMost
<1>7. CASE Hit
  BY <1>7, CacheAssumption
     DEF CacheAssumption, Inv, TypeOK, Points, FileInv, IdleInv,
         FirstInv, FillInv, Image, LevelInFile, Sized, Cells, cacheVars,
         callVars, loadVars, Hit, InBuffer, Skip
<1>8. CASE PartialHit
  BY <1>8, CacheAssumption
     DEF CacheAssumption, Inv, TypeOK, Points, FileInv, IdleInv,
         FirstInv, FillInv, Image, LevelInFile, Sized, Cells, cacheVars,
         callVars, loadVars, PartialHit, Moved, InBuffer, Skip
<1>9. CASE Miss
  BY <1>9, CacheAssumption
     DEF CacheAssumption, Inv, TypeOK, Points, FileInv, IdleInv,
         FirstInv, FillInv, Image, LevelInFile, Sized, Cells, cacheVars,
         callVars, loadVars, Miss, InBuffer, Skip
<1>10. ASSUME NEW n \in 1 .. Size, Fragment(n) PROVE IdleInv'
  BY <1>10, CacheAssumption
     DEF CacheAssumption, Inv, TypeOK, Points, FileInv, IdleInv,
         FirstInv, FillInv, Image, LevelInFile, Sized, Cells, cacheVars,
         callVars, loadVars, Fragment, Position
<1>11. CASE EndOfFile
  BY <1>11, CacheAssumption
     DEF CacheAssumption, Inv, TypeOK, Points, FileInv, IdleInv,
         FirstInv, FillInv, Image, LevelInFile, Sized, Cells, cacheVars,
         callVars, loadVars, EndOfFile, Position
<1>12. CASE Filled
  BY <1>12, CacheAssumption
     DEF CacheAssumption, Inv, TypeOK, Points, FileInv, IdleInv,
         FirstInv, FillInv, Image, LevelInFile, Sized, Cells, cacheVars,
         callVars, loadVars, Filled
<1>13. CASE ReadError
  BY <1>13, CacheAssumption
     DEF CacheAssumption, Inv, TypeOK, Points, FileInv, IdleInv,
         FirstInv, FillInv, Image, LevelInFile, Sized, Cells, cacheVars,
         callVars, loadVars, ReadError, Forget
<1>14. CASE StatError
  BY <1>14, CacheAssumption
     DEF CacheAssumption, Inv, TypeOK, Points, FileInv, IdleInv,
         FirstInv, FillInv, Image, LevelInFile, Sized, Cells, cacheVars,
         callVars, loadVars, StatError, Forget
<1>15. CASE UNCHANGED vars
  BY <1>15, CacheAssumption
     DEF CacheAssumption, Inv, TypeOK, Points, FileInv, IdleInv,
         FirstInv, FillInv, Image, LevelInFile, Sized, Cells, cacheVars,
         callVars, loadVars, vars
<1>16. CASE SeekError
  BY <1>16, CacheAssumption
     DEF CacheAssumption, Inv, TypeOK, Points, FileInv, IdleInv,
         FirstInv, FillInv, Image, LevelInFile, Sized, Cells, cacheVars,
         callVars, loadVars, SeekError, Moved, InBuffer, Skip, Forget
<1>. QED
  BY <1>1, <1>2, <1>3, <1>4, <1>5, <1>6, <1>7, <1>8, <1>9, <1>10, <1>11,
      <1>12, <1>13, <1>14, <1>15, <1>16
     DEF Next, Load, Read

LEMMA LookupStep == ASSUME Inv, [Next]_vars PROVE LookupInv'
<1>1. ASSUME NEW f \in Files, OpenFile(f) PROVE LookupInv'
  BY <1>1, CacheAssumption
     DEF CacheAssumption, Inv, TypeOK, Points, FileInv, IdleInv,
         LookupInv, FillInv, LevelInFile, Sized, cacheVars, callVars,
         loadVars, OpenFile
<1>2. CASE EndLoad
  BY <1>2, CacheAssumption
     DEF CacheAssumption, Inv, TypeOK, Points, FileInv, IdleInv,
         LookupInv, FillInv, LevelInFile, Sized, cacheVars, callVars,
         loadVars, EndLoad
<1>3. CASE Continue
  BY <1>3, CacheAssumption
     DEF CacheAssumption, Inv, TypeOK, Points, FileInv, IdleInv,
         LookupInv, FillInv, LevelInFile, Sized, cacheVars, callVars,
         loadVars, Continue, Forget
<1>4. CASE NextFormat
  BY <1>4, CacheAssumption
     DEF CacheAssumption, Inv, TypeOK, Points, FileInv, IdleInv,
         LookupInv, FillInv, LevelInFile, Sized, cacheVars, callVars,
         loadVars, NextFormat
<1>5. ASSUME NEW off \in 0 .. MaxOffset, NEW len \in 0 .. Size + 1, Refuse(off, len) PROVE LookupInv'
  BY <1>5, CacheAssumption
     DEF CacheAssumption, Inv, TypeOK, Points, FileInv, IdleInv,
         LookupInv, FillInv, LevelInFile, Sized, cacheVars, callVars,
         loadVars, Refuse
<1>6. ASSUME NEW off \in 0 .. MaxOffset, NEW len \in 0 .. Size + 1, Accept(off, len) PROVE LookupInv'
  BY <1>6, CacheAssumption
     DEF CacheAssumption, Inv, TypeOK, Points, FileInv, IdleInv,
         LookupInv, FillInv, LevelInFile, Sized, cacheVars, callVars,
         loadVars, Accept, AtMost
<1>7. CASE Hit
  BY <1>7, CacheAssumption
     DEF CacheAssumption, Inv, TypeOK, Points, FileInv, IdleInv,
         LookupInv, FillInv, LevelInFile, Sized, cacheVars, callVars,
         loadVars, Hit, InBuffer, Skip
<1>8. CASE PartialHit
  BY <1>8, CacheAssumption
     DEF CacheAssumption, Inv, TypeOK, Points, FileInv, IdleInv,
         LookupInv, FillInv, LevelInFile, Sized, cacheVars, callVars,
         loadVars, PartialHit, Moved, InBuffer, Skip
<1>9. CASE Miss
  BY <1>9, CacheAssumption
     DEF CacheAssumption, Inv, TypeOK, Points, FileInv, IdleInv,
         LookupInv, FillInv, LevelInFile, Sized, cacheVars, callVars,
         loadVars, Miss, InBuffer, Skip
<1>10. ASSUME NEW n \in 1 .. Size, Fragment(n) PROVE LookupInv'
  BY <1>10, CacheAssumption
     DEF CacheAssumption, Inv, TypeOK, Points, FileInv, IdleInv,
         LookupInv, FillInv, LevelInFile, Sized, cacheVars, callVars,
         loadVars, Fragment, Position
<1>11. CASE EndOfFile
  BY <1>11, CacheAssumption
     DEF CacheAssumption, Inv, TypeOK, Points, FileInv, IdleInv,
         LookupInv, FillInv, LevelInFile, Sized, cacheVars, callVars,
         loadVars, EndOfFile, Position
<1>12. CASE Filled
  BY <1>12, CacheAssumption
     DEF CacheAssumption, Inv, TypeOK, Points, FileInv, IdleInv,
         LookupInv, FillInv, LevelInFile, Sized, cacheVars, callVars,
         loadVars, Filled
<1>13. CASE ReadError
  BY <1>13, CacheAssumption
     DEF CacheAssumption, Inv, TypeOK, Points, FileInv, IdleInv,
         LookupInv, FillInv, LevelInFile, Sized, cacheVars, callVars,
         loadVars, ReadError, Forget
<1>14. CASE StatError
  BY <1>14, CacheAssumption
     DEF CacheAssumption, Inv, TypeOK, Points, FileInv, IdleInv,
         LookupInv, FillInv, LevelInFile, Sized, cacheVars, callVars,
         loadVars, StatError, Forget
<1>15. CASE UNCHANGED vars
  BY <1>15, CacheAssumption
     DEF CacheAssumption, Inv, TypeOK, Points, FileInv, IdleInv,
         LookupInv, FillInv, LevelInFile, Sized, cacheVars, callVars,
         loadVars, vars
<1>16. CASE SeekError
  BY <1>16, CacheAssumption
     DEF CacheAssumption, Inv, TypeOK, Points, FileInv, IdleInv,
         LookupInv, FillInv, LevelInFile, Sized, cacheVars, callVars,
         loadVars, SeekError, Moved, InBuffer, Skip, Forget
<1>. QED
  BY <1>1, <1>2, <1>3, <1>4, <1>5, <1>6, <1>7, <1>8, <1>9, <1>10, <1>11,
      <1>12, <1>13, <1>14, <1>15, <1>16
     DEF Next, Load, Read

LEMMA FirstStep == ASSUME Inv, [Next]_vars PROVE FirstInv'
<1>1. ASSUME NEW f \in Files, OpenFile(f) PROVE FirstInv'
  BY <1>1, CacheAssumption
     DEF CacheAssumption, Inv, TypeOK, Points, FileInv, IdleInv,
         FirstInv, FillInv, Image, Sized, Cells, cacheVars, callVars,
         loadVars, OpenFile
<1>2. CASE EndLoad
  BY <1>2, CacheAssumption
     DEF CacheAssumption, Inv, TypeOK, Points, FileInv, IdleInv,
         FirstInv, FillInv, Image, Sized, Cells, cacheVars, callVars,
         loadVars, EndLoad
<1>3. CASE Continue
  BY <1>3, CacheAssumption
     DEF CacheAssumption, Inv, TypeOK, Points, FileInv, IdleInv,
         FirstInv, FillInv, Image, Sized, Cells, cacheVars, callVars,
         loadVars, Continue, Forget
<1>4. CASE NextFormat
  BY <1>4, CacheAssumption
     DEF CacheAssumption, Inv, TypeOK, Points, FileInv, IdleInv,
         FirstInv, FillInv, Image, Sized, Cells, cacheVars, callVars,
         loadVars, NextFormat
<1>5. ASSUME NEW off \in 0 .. MaxOffset, NEW len \in 0 .. Size + 1, Refuse(off, len) PROVE FirstInv'
  BY <1>5, CacheAssumption
     DEF CacheAssumption, Inv, TypeOK, Points, FileInv, IdleInv,
         FirstInv, FillInv, Image, Sized, Cells, cacheVars, callVars,
         loadVars, Refuse
<1>6. ASSUME NEW off \in 0 .. MaxOffset, NEW len \in 0 .. Size + 1, Accept(off, len) PROVE FirstInv'
  BY <1>6, CacheAssumption
     DEF CacheAssumption, Inv, TypeOK, Points, FileInv, IdleInv,
         FirstInv, FillInv, Image, Sized, Cells, cacheVars, callVars,
         loadVars, Accept, AtMost
<1>7. CASE Hit
  BY <1>7, CacheAssumption
     DEF CacheAssumption, Inv, TypeOK, Points, FileInv, IdleInv,
         FirstInv, FillInv, Image, Sized, Cells, cacheVars, callVars,
         loadVars, Hit, InBuffer, Skip
<1>8. CASE PartialHit
  BY <1>8, CacheAssumption
     DEF CacheAssumption, Inv, TypeOK, Points, FileInv, IdleInv,
         FirstInv, FillInv, Image, Sized, Cells, cacheVars, callVars,
         loadVars, PartialHit, Moved, InBuffer, Skip
<1>9. CASE Miss
  BY <1>9, CacheAssumption
     DEF CacheAssumption, Inv, TypeOK, Points, FileInv, IdleInv,
         FirstInv, FillInv, Image, Sized, Cells, cacheVars, callVars,
         loadVars, Miss, InBuffer, Skip
<1>10. ASSUME NEW n \in 1 .. Size, Fragment(n) PROVE FirstInv'
  BY <1>10, CacheAssumption
     DEF CacheAssumption, Inv, TypeOK, Points, FileInv, IdleInv,
         FirstInv, FillInv, Image, Sized, Cells, cacheVars, callVars,
         loadVars, Fragment, Position
<1>11. CASE EndOfFile
  BY <1>11, CacheAssumption
     DEF CacheAssumption, Inv, TypeOK, Points, FileInv, IdleInv,
         FirstInv, FillInv, Image, Sized, Cells, cacheVars, callVars,
         loadVars, EndOfFile, Position
<1>12. CASE Filled
  BY <1>12, CacheAssumption
     DEF CacheAssumption, Inv, TypeOK, Points, FileInv, IdleInv,
         FirstInv, FillInv, Image, Sized, Cells, cacheVars, callVars,
         loadVars, Filled
<1>13. CASE ReadError
  BY <1>13, CacheAssumption
     DEF CacheAssumption, Inv, TypeOK, Points, FileInv, IdleInv,
         FirstInv, FillInv, Image, Sized, Cells, cacheVars, callVars,
         loadVars, ReadError, Forget
<1>14. CASE StatError
  BY <1>14, CacheAssumption
     DEF CacheAssumption, Inv, TypeOK, Points, FileInv, IdleInv,
         FirstInv, FillInv, Image, Sized, Cells, cacheVars, callVars,
         loadVars, StatError, Forget
<1>15. CASE UNCHANGED vars
  BY <1>15, CacheAssumption
     DEF CacheAssumption, Inv, TypeOK, Points, FileInv, IdleInv,
         FirstInv, FillInv, Image, Sized, Cells, cacheVars, callVars,
         loadVars, vars
<1>16. CASE SeekError
  BY <1>16, CacheAssumption
     DEF CacheAssumption, Inv, TypeOK, Points, FileInv, IdleInv,
         FirstInv, FillInv, Image, Sized, Cells, cacheVars, callVars,
         loadVars, SeekError, Moved, InBuffer, Skip, Forget
<1>. QED
  BY <1>1, <1>2, <1>3, <1>4, <1>5, <1>6, <1>7, <1>8, <1>9, <1>10, <1>11,
      <1>12, <1>13, <1>14, <1>15, <1>16
     DEF Next, Load, Read

LEMMA FillStep == ASSUME Inv, [Next]_vars PROVE FillInv'
<1>1. ASSUME NEW f \in Files, OpenFile(f) PROVE FillInv'
  BY <1>1, CacheAssumption
     DEF CacheAssumption, Inv, TypeOK, Points, FileInv, IdleInv,
         LookupInv, FillInv, Image, LevelInFile, Sized, Cells,
         cacheVars, callVars, loadVars, OpenFile
<1>2. CASE EndLoad
  BY <1>2, CacheAssumption
     DEF CacheAssumption, Inv, TypeOK, Points, FileInv, IdleInv,
         LookupInv, FillInv, Image, LevelInFile, Sized, Cells,
         cacheVars, callVars, loadVars, EndLoad
<1>3. CASE Continue
  BY <1>3, CacheAssumption
     DEF CacheAssumption, Inv, TypeOK, Points, FileInv, IdleInv,
         LookupInv, FillInv, Image, LevelInFile, Sized, Cells,
         cacheVars, callVars, loadVars, Continue, Forget
<1>4. CASE NextFormat
  BY <1>4, CacheAssumption
     DEF CacheAssumption, Inv, TypeOK, Points, FileInv, IdleInv,
         LookupInv, FillInv, Image, LevelInFile, Sized, Cells,
         cacheVars, callVars, loadVars, NextFormat
<1>5. ASSUME NEW off \in 0 .. MaxOffset, NEW len \in 0 .. Size + 1, Refuse(off, len) PROVE FillInv'
  BY <1>5, CacheAssumption
     DEF CacheAssumption, Inv, TypeOK, Points, FileInv, IdleInv,
         LookupInv, FillInv, Image, LevelInFile, Sized, Cells,
         cacheVars, callVars, loadVars, Refuse
<1>6. ASSUME NEW off \in 0 .. MaxOffset, NEW len \in 0 .. Size + 1, Accept(off, len) PROVE FillInv'
  BY <1>6, CacheAssumption
     DEF CacheAssumption, Inv, TypeOK, Points, FileInv, IdleInv,
         LookupInv, FillInv, Image, LevelInFile, Sized, Cells,
         cacheVars, callVars, loadVars, Accept, AtMost
<1>7. CASE Hit
  BY <1>7, CacheAssumption
     DEF CacheAssumption, Inv, TypeOK, Points, FileInv, IdleInv,
         LookupInv, FillInv, Image, LevelInFile, Sized, Cells,
         cacheVars, callVars, loadVars, Hit, InBuffer, Skip
<1>8. CASE PartialHit
  BY <1>8, CacheAssumption
     DEF CacheAssumption, Inv, TypeOK, Points, FileInv, IdleInv,
         LookupInv, FillInv, Image, LevelInFile, Sized, Cells,
         cacheVars, callVars, loadVars, PartialHit, Moved, InBuffer, Skip
<1>9. CASE Miss
  BY <1>9, CacheAssumption
     DEF CacheAssumption, Inv, TypeOK, Points, FileInv, IdleInv,
         LookupInv, FillInv, Image, LevelInFile, Sized, Cells,
         cacheVars, callVars, loadVars, Miss, InBuffer, Skip
<1>10. ASSUME NEW n \in 1 .. Size, Fragment(n) PROVE FillInv'
  <2>. DEFINE L == Length[file]
  <2>1. /\ pc = "fill" /\ pc' = pc /\ roff' = roff /\ file' = file /\ level' = level
        /\ n <= bufRead /\ roff + bufOff + n <= L
        /\ bufRead' = bufRead - n /\ bufOff' = bufOff + n
        /\ buffer' = [i \in Cells |-> IF i \in bufOff .. bufOff + n - 1
                                         THEN <<file, roff + i>> ELSE buffer[i]]
    BY <1>10 DEF Fragment, Position, cacheVars, callVars, loadVars
  <2>2. /\ file \in Files /\ L \in Nat /\ roff \in Nat /\ n \in Nat /\ Size \in Nat
        /\ level \in Nat /\ bufOff \in Nat /\ bufRead \in Nat
    BY <1>10, <2>1, CacheAssumption DEF CacheAssumption, Inv, TypeOK, FileInv
  <2>3. /\ \A i \in Cells : i < bufOff /\ roff + i < L => buffer[i] = <<file, roff + i>>
        /\ bufOff + bufRead <= Size
        /\ bufRead <= level /\ level - bufRead <= bufOff
        /\ bufOff + bufRead = Size \/ (bufRead = 0 /\ roff + bufOff >= L)
    BY <2>1 DEF Inv, FillInv
  <2>4. \A i \in Cells : i < bufOff' /\ roff' + i < Length[file']
                            => buffer'[i] = <<file', roff' + i>>
    <3>. SUFFICES ASSUME NEW i \in Cells, i < bufOff + n, roff + i < L
                  PROVE  buffer'[i] = <<file, roff + i>>
      BY <2>1
    <3>1. buffer'[i] = IF i \in bufOff .. bufOff + n - 1
                         THEN <<file, roff + i>> ELSE buffer[i]
      BY <2>1, Zenon
    <3>2. CASE i \in bufOff .. bufOff + n - 1
      BY <3>1, <3>2, Zenon
    <3>3. CASE i \notin bufOff .. bufOff + n - 1
      <4>1. i < bufOff
        BY <3>3, <2>2 DEF Cells
      <4>. QED
        BY <3>1, <3>3, <4>1, <2>3
    <3>. QED
      BY <3>2, <3>3, Zenon
  <2>5. bufOff' + bufRead' <= Size /\ bufRead' <= level' /\ level' - bufRead' <= bufOff'
    BY <2>1, <2>2, <2>3
  <2>6. bufOff' + bufRead' = Size
    BY <2>1, <2>2, <2>3
  <2>7. level' > bufRead' => roff' + (level' - bufRead') <= Length[file']
    BY <2>1, <2>2, <2>3
  <2>. QED
    BY <2>4, <2>5, <2>6, <2>7 DEF FillInv
<1>11. CASE EndOfFile
  BY <1>11, CacheAssumption
     DEF CacheAssumption, Inv, TypeOK, Points, FileInv, IdleInv,
         LookupInv, FillInv, Image, LevelInFile, Sized, Cells,
         cacheVars, callVars, loadVars, EndOfFile, Position
<1>12. CASE Filled
  BY <1>12, CacheAssumption
     DEF CacheAssumption, Inv, TypeOK, Points, FileInv, IdleInv,
         LookupInv, FillInv, Image, LevelInFile, Sized, Cells,
         cacheVars, callVars, loadVars, Filled
<1>13. CASE ReadError
  BY <1>13, CacheAssumption
     DEF CacheAssumption, Inv, TypeOK, Points, FileInv, IdleInv,
         LookupInv, FillInv, Image, LevelInFile, Sized, Cells,
         cacheVars, callVars, loadVars, ReadError, Forget
<1>14. CASE StatError
  BY <1>14, CacheAssumption
     DEF CacheAssumption, Inv, TypeOK, Points, FileInv, IdleInv,
         LookupInv, FillInv, Image, LevelInFile, Sized, Cells,
         cacheVars, callVars, loadVars, StatError, Forget
<1>15. CASE UNCHANGED vars
  BY <1>15, CacheAssumption
     DEF CacheAssumption, Inv, TypeOK, Points, FileInv, IdleInv,
         LookupInv, FillInv, Image, LevelInFile, Sized, Cells,
         cacheVars, callVars, loadVars, vars
<1>16. CASE SeekError
  BY <1>16, CacheAssumption
     DEF CacheAssumption, Inv, TypeOK, Points, FileInv, IdleInv,
         LookupInv, FillInv, Image, LevelInFile, Sized, Cells,
         cacheVars, callVars, loadVars, SeekError, Moved, InBuffer, Skip, Forget
<1>. QED
  BY <1>1, <1>2, <1>3, <1>4, <1>5, <1>6, <1>7, <1>8, <1>9, <1>10, <1>11,
      <1>12, <1>13, <1>14, <1>15, <1>16
     DEF Next, Load, Read

LEMMA ReturnStep == ASSUME Inv, [Next]_vars PROVE ReturnInv'
<1>1. ASSUME NEW f \in Files, OpenFile(f) PROVE ReturnInv'
  BY <1>1, CacheAssumption
     DEF CacheAssumption, Inv, TypeOK, Points, FileInv, IdleInv,
         LookupInv, ReturnInv, Image, LevelInFile, Cells, cacheVars,
         callVars, loadVars, OpenFile
<1>2. CASE EndLoad
  BY <1>2, CacheAssumption
     DEF CacheAssumption, Inv, TypeOK, Points, FileInv, IdleInv,
         LookupInv, ReturnInv, Image, LevelInFile, Cells, cacheVars,
         callVars, loadVars, EndLoad
<1>3. CASE Continue
  BY <1>3, CacheAssumption
     DEF CacheAssumption, Inv, TypeOK, Points, FileInv, IdleInv,
         LookupInv, ReturnInv, Image, LevelInFile, Cells, cacheVars,
         callVars, loadVars, Continue, Forget
<1>4. CASE NextFormat
  BY <1>4, CacheAssumption
     DEF CacheAssumption, Inv, TypeOK, Points, FileInv, IdleInv,
         LookupInv, ReturnInv, Image, LevelInFile, Cells, cacheVars,
         callVars, loadVars, NextFormat
<1>5. ASSUME NEW off \in 0 .. MaxOffset, NEW len \in 0 .. Size + 1, Refuse(off, len) PROVE ReturnInv'
  BY <1>5, CacheAssumption
     DEF CacheAssumption, Inv, TypeOK, Points, FileInv, IdleInv,
         LookupInv, ReturnInv, Image, LevelInFile, Cells, cacheVars,
         callVars, loadVars, Refuse
<1>6. ASSUME NEW off \in 0 .. MaxOffset, NEW len \in 0 .. Size + 1, Accept(off, len) PROVE ReturnInv'
  BY <1>6, CacheAssumption
     DEF CacheAssumption, Inv, TypeOK, Points, FileInv, IdleInv,
         LookupInv, ReturnInv, Image, LevelInFile, Cells, cacheVars,
         callVars, loadVars, Accept, AtMost
<1>7. CASE Hit
  BY <1>7, CacheAssumption
     DEF CacheAssumption, Inv, TypeOK, Points, FileInv, IdleInv,
         LookupInv, ReturnInv, Image, LevelInFile, Cells, cacheVars,
         callVars, loadVars, Hit, InBuffer, Skip
<1>8. CASE PartialHit
  BY <1>8, CacheAssumption
     DEF CacheAssumption, Inv, TypeOK, Points, FileInv, IdleInv,
         LookupInv, ReturnInv, Image, LevelInFile, Cells, cacheVars,
         callVars, loadVars, PartialHit, Moved, InBuffer, Skip
<1>9. CASE Miss
  BY <1>9, CacheAssumption
     DEF CacheAssumption, Inv, TypeOK, Points, FileInv, IdleInv,
         LookupInv, ReturnInv, Image, LevelInFile, Cells, cacheVars,
         callVars, loadVars, Miss, InBuffer, Skip
<1>10. ASSUME NEW n \in 1 .. Size, Fragment(n) PROVE ReturnInv'
  BY <1>10, CacheAssumption
     DEF CacheAssumption, Inv, TypeOK, Points, FileInv, IdleInv,
         LookupInv, ReturnInv, Image, LevelInFile, Cells, cacheVars,
         callVars, loadVars, Fragment, Position
<1>11. CASE EndOfFile
  BY <1>11, CacheAssumption
     DEF CacheAssumption, Inv, TypeOK, Points, FileInv, IdleInv,
         LookupInv, ReturnInv, Image, LevelInFile, Cells, cacheVars,
         callVars, loadVars, EndOfFile, Position
<1>12. CASE Filled
  BY <1>12, CacheAssumption
     DEF CacheAssumption, Inv, TypeOK, Points, FileInv, IdleInv,
         LookupInv, ReturnInv, Image, LevelInFile, Cells, cacheVars,
         callVars, loadVars, Filled
<1>13. CASE ReadError
  BY <1>13, CacheAssumption
     DEF CacheAssumption, Inv, TypeOK, Points, FileInv, IdleInv,
         LookupInv, ReturnInv, Image, LevelInFile, Cells, cacheVars,
         callVars, loadVars, ReadError, Forget
<1>14. CASE StatError
  BY <1>14, CacheAssumption
     DEF CacheAssumption, Inv, TypeOK, Points, FileInv, IdleInv,
         LookupInv, ReturnInv, Image, LevelInFile, Cells, cacheVars,
         callVars, loadVars, StatError, Forget
<1>15. CASE UNCHANGED vars
  BY <1>15, CacheAssumption
     DEF CacheAssumption, Inv, TypeOK, Points, FileInv, IdleInv,
         LookupInv, ReturnInv, Image, LevelInFile, Cells, cacheVars,
         callVars, loadVars, vars
<1>16. CASE SeekError
  BY <1>16, CacheAssumption
     DEF CacheAssumption, Inv, TypeOK, Points, FileInv, IdleInv,
         LookupInv, ReturnInv, Image, LevelInFile, Cells, cacheVars,
         callVars, loadVars, SeekError, Moved, InBuffer, Skip, Forget
<1>. QED
  BY <1>1, <1>2, <1>3, <1>4, <1>5, <1>6, <1>7, <1>8, <1>9, <1>10, <1>11,
      <1>12, <1>13, <1>14, <1>15, <1>16
     DEF Next, Load, Read

LEMMA SizeStep == ASSUME Inv, [Next]_vars PROVE SizeInv'
<1>1. ASSUME NEW f \in Files, OpenFile(f) PROVE SizeInv'
  BY <1>1, CacheAssumption
     DEF CacheAssumption, Inv, TypeOK, Points, FileInv, SizeInv, Unknown, Sized,
         AtMost, cacheVars, callVars, loadVars, OpenFile
<1>2. CASE EndLoad
  BY <1>2, CacheAssumption
     DEF CacheAssumption, Inv, TypeOK, Points, FileInv, SizeInv, Unknown, Sized,
         AtMost, cacheVars, callVars, loadVars, EndLoad
<1>3. CASE Continue
  BY <1>3, CacheAssumption
     DEF CacheAssumption, Inv, TypeOK, Points, FileInv, SizeInv, Unknown, Sized,
         AtMost, cacheVars, callVars, loadVars, Continue, Forget
<1>4. CASE NextFormat
  BY <1>4, CacheAssumption
     DEF CacheAssumption, Inv, TypeOK, Points, FileInv, SizeInv, Unknown, Sized,
         AtMost, cacheVars, callVars, loadVars, NextFormat
<1>5. ASSUME NEW off \in 0 .. MaxOffset, NEW len \in 0 .. Size + 1, Refuse(off, len) PROVE SizeInv'
  BY <1>5, CacheAssumption
     DEF CacheAssumption, Inv, TypeOK, Points, FileInv, SizeInv, Unknown, Sized,
         AtMost, cacheVars, callVars, loadVars, Refuse
<1>6. ASSUME NEW off \in 0 .. MaxOffset, NEW len \in 0 .. Size + 1, Accept(off, len) PROVE SizeInv'
  BY <1>6, CacheAssumption
     DEF CacheAssumption, Inv, TypeOK, Points, FileInv, SizeInv, Unknown, Sized,
         AtMost, cacheVars, callVars, loadVars, Accept, AtMost
<1>7. CASE Hit
  BY <1>7, CacheAssumption
     DEF CacheAssumption, Inv, TypeOK, Points, FileInv, SizeInv, Unknown, Sized,
         AtMost, cacheVars, callVars, loadVars, Hit, InBuffer, Skip
<1>8. CASE PartialHit
  BY <1>8, CacheAssumption
     DEF CacheAssumption, Inv, TypeOK, Points, FileInv, SizeInv, Unknown, Sized,
         AtMost, cacheVars, callVars, loadVars, PartialHit, Moved, InBuffer,
         Skip
<1>9. CASE Miss
  BY <1>9, CacheAssumption
     DEF CacheAssumption, Inv, TypeOK, Points, FileInv, SizeInv, Unknown, Sized,
         AtMost, cacheVars, callVars, loadVars, Miss, InBuffer, Skip
<1>10. ASSUME NEW n \in 1 .. Size, Fragment(n) PROVE SizeInv'
  BY <1>10, CacheAssumption
     DEF CacheAssumption, Inv, TypeOK, Points, FileInv, SizeInv, Unknown, Sized,
         AtMost, cacheVars, callVars, loadVars, Fragment, Position
<1>11. CASE EndOfFile
  BY <1>11, CacheAssumption
     DEF CacheAssumption, Inv, TypeOK, Points, FileInv, SizeInv, Unknown, Sized,
         AtMost, cacheVars, callVars, loadVars, EndOfFile, Position
<1>12. CASE Filled
  BY <1>12, CacheAssumption
     DEF CacheAssumption, Inv, TypeOK, Points, FileInv, SizeInv, Unknown, Sized,
         AtMost, cacheVars, callVars, loadVars, Filled
<1>13. CASE ReadError
  BY <1>13, CacheAssumption
     DEF CacheAssumption, Inv, TypeOK, Points, FileInv, SizeInv, Unknown, Sized,
         AtMost, cacheVars, callVars, loadVars, ReadError, Forget
<1>14. CASE StatError
  BY <1>14, CacheAssumption
     DEF CacheAssumption, Inv, TypeOK, Points, FileInv, SizeInv, Unknown, Sized,
         AtMost, cacheVars, callVars, loadVars, StatError, Forget
<1>15. CASE UNCHANGED vars
  BY <1>15, CacheAssumption
     DEF CacheAssumption, Inv, TypeOK, Points, FileInv, SizeInv, Unknown, Sized,
         AtMost, cacheVars, callVars, loadVars, vars
<1>16. CASE SeekError
  BY <1>16, CacheAssumption
     DEF CacheAssumption, Inv, TypeOK, Points, FileInv, SizeInv, Unknown, Sized,
         AtMost, cacheVars, callVars, loadVars, SeekError, Moved, InBuffer, Skip, Forget
<1>. QED
  BY <1>1, <1>2, <1>3, <1>4, <1>5, <1>6, <1>7, <1>8, <1>9, <1>10, <1>11,
      <1>12, <1>13, <1>14, <1>15, <1>16
     DEF Next, Load, Read

LEMMA InvStep == Inv /\ [Next]_vars => Inv'
BY TypeStep, FileStep, IdleStep, LookupStep, FirstStep, FillStep, ReturnStep,
   SizeStep DEF Inv

THEOREM Invariance == Spec => []Inv
BY InvInit, InvStep, PTL DEF Spec

-----------------------------------------------------------------------------
\* The buffer, its level and the reads never leave their bounds.
THEOREM TypeCorrect == Spec => []TypeOK
BY Invariance, PTL DEF Inv

\* What a read returns are the bytes of the open file at the wanted offset.
THEOREM CacheIsFaithful == Spec => []ReturnsFileData
<1>1. Inv => ReturnsFileData
  <2>. SUFFICES ASSUME Inv, pc = "returned" PROVE ReturnsFileData
    BY DEF ReturnsFileData
  <2>1. /\ roff = offset + bufOff /\ bufOff + rlen <= level
        /\ roff + rlen <= Length[file] /\ Image(offset)
    BY DEF Inv, ReturnInv
  <2>2. ASSUME NEW i \in 0 .. rlen - 1
        PROVE  buffer[bufOff + i] = <<file, roff + i>> /\ roff + i < Length[file]
    <3>1. file \in Files /\ Length[file] \in Nat
      <4>1. file # NoFile
        BY DEF Inv, FileInv
      <4>. QED
        BY <4>1, CacheAssumption DEF CacheAssumption, Inv, TypeOK
    <3>2. bufOff + i \in Cells /\ offset + (bufOff + i) = roff + i
      <4>1. /\ Size \in Nat /\ level \in Nat /\ level <= Size /\ bufOff \in Nat
            /\ offset \in Nat /\ roff \in Nat /\ rlen \in Nat /\ i \in Nat /\ i < rlen
        BY CacheAssumption DEF CacheAssumption, Inv, TypeOK
      <4>. QED
        BY <2>1, <4>1 DEF Cells
    <3>3. roff + i < Length[file]
      BY <2>1, <3>1 DEF Inv, TypeOK
    <3>. QED
      BY <2>1, <3>1, <3>2, <3>3 DEF Image
  <2>. QED
    BY <2>1, <2>2 DEF ReturnsFileData
<1>. QED
  BY <1>1, Invariance, PTL

\* A read returns everything there is of what was asked for, once the cache has been
\* flushed; before that one from the start of the file may return nothing.
THEOREM CacheIsComplete == Spec => []ReturnsAllThereIs
<1>1. Inv => ReturnsAllThereIs
  <2>. SUFFICES ASSUME Inv, pc = "returned"
                PROVE  \/ rlen = AtMost(want, Length[file] - roff)
                       \/ ~flushed /\ roff = 0 /\ rlen = 0
    BY DEF ReturnsAllThereIs
  <2>1. \/ rlen = AtMost(want, Length[file] - roff)
        \/ IF flushed THEN rlen = want ELSE rlen = 0 /\ roff = 0
    BY DEF Inv, SizeInv
  <2>2. roff + rlen <= Length[file]
    BY DEF Inv, ReturnInv
  <2>3. file # NoFile
    BY DEF Inv, FileInv
  <2>4. file \in Files /\ Length[file] \in Nat
    BY <2>3, CacheAssumption DEF CacheAssumption, Inv, TypeOK
  <2>5. CASE ~flushed
    BY <2>1, <2>5
  <2>6. CASE flushed /\ rlen = want
    BY <2>2, <2>4, <2>6 DEF Inv, TypeOK, AtMost
  <2>. QED
    BY <2>1, <2>5, <2>6
<1>. QED
  BY <1>1, Invariance, PTL
=============================================================================
