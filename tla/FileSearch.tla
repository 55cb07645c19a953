----------------------------- MODULE FileSearch ------------------------------
(***************************************************************************)
(* From the name in a dlopen to the first byte of an object file: the name *)
(* is taken apart, the file is looked for along the search path, and in an *)
(* archive the headers of its members are read one after the other.        *)
(*                                                                         *)
(* A file is what can be read at an offset of it.  A member's header has   *)
(* its name, or the place of the name in the table of long names.          *)
(***************************************************************************)
EXTENDS Integers, SequencesExt

CONSTANTS
  Requests,  \* [aname, oname, offset]: what can be asked for
  NoName,    \* no archive name
  Absolute,  \* the names of files that start with a delimiter or a '.'
  Disks,     \* possible contents of the file system
  Archives,  \* Archives[n]: the sequence of members of the archive named n
  Strays,    \* Strays[n]: bytes of that archive that pass for a header, [at, member]
  Stem,      \* Stem[n]: the name n up to its first delimiter
  Paths,     \* possible search paths, sequences of directories
  NoDir      \* the directory of an absolute name

Ident    == 8    \* RTEMS_RTL_AR_IDENT_SIZE
Header   == 60   \* RTEMS_RTL_AR_FHDR_SIZE
NameRead == 256  \* RTEMS_RTL_MAX_FILE_SIZE

\* Kinds of members: "/ ", "//", "/<decimal>", anything else with a '/', a name.
Kinds  == {"symbols", "names", "long", "unknown", "short"}
Member == [kind : Kinds, name : STRING, at : Nat, size : Nat]

\* An archive has one table of long names, and at a place of it there is one name.
WellMade(archive) ==
  /\ archive \in Seq(Member)
  /\ \A i, j \in DOMAIN archive :
       /\ archive[i].kind = "names" /\ archive[j].kind = "names" => i = j
       /\ archive[i].kind = "long" /\ archive[j].kind = "long" /\ archive[i].at = archive[j].at =>
            archive[i].name = archive[j].name

ASSUME FileSearchAssumption ==
  /\ \A r \in Requests : r.offset \in Nat
  /\ \A n \in DOMAIN Archives : WellMade(Archives[n])
  /\ \A n \in DOMAIN Strays : \A s \in Strays[n] :
       s.at \in Nat /\ s.member \in Member /\ s.member.kind # "names"
  /\ \A p \in Paths : p \in Seq(Range(p))

VARIABLES
  pc,        \* "idle", "path", "scan", "probe" or how the search ended
  request,   \* the name that was asked for
  disk,      \* the files there are, <<directory, name>>
  path,      \* the search path
  dir,       \* the number of directories that were looked in
  fname,     \* the file that was found, or <<>>
  ooffset,   \* obj->ooffset
  fsize,     \* obj->fsize
  scanning,  \* TRUE when the scan goes through the archive from its start
  extended,  \* where the table of long names is, or 0
  off        \* where the search for that table has come to

searchVars == <<request, disk, path, dir, fname>>
scanVars   == <<ooffset, fsize, scanning, extended, off>>
allVars == <<pc, searchVars, scanVars>>

-----------------------------------------------------------------------------
(* The archive as it lies in the file. *)

Even(n) == ((n + 1) \div 2) * 2

Target  == IF request.aname = NoName THEN request.oname ELSE request.aname
Archive == IF Target \in DOMAIN Archives THEN Archives[Target] ELSE <<>>

\* Where the members begin and end that lie one behind the other in an archive.
Ends(archive) ==
  LET behind[k \in 0 .. Len(archive)] ==
        IF k = 0 THEN Ident ELSE behind[k - 1] + Header + Even(archive[k].size)
  IN  behind

\* Where the header of the i-th member is, and the end of the file.
HeaderOf(i) == Ends(Archive)[i - 1]
Size == HeaderOf(Len(Archive) + 1)

\* What has the two bytes at its end that a header has: a header, or bytes of a
\* member that do.
StraysHere  == IF Target \in DOMAIN Strays THEN Strays[Target] ELSE {}
IsMember(o) == \E i \in DOMAIN Archive : HeaderOf(i) = o
IsStray(o)  == \E s \in StraysHere : s.at = o
IsHeader(o) == IsMember(o) \/ IsStray(o)
MemberAt(o) == IF IsMember(o) THEN Archive[CHOOSE i \in DOMAIN Archive : HeaderOf(i) = o]
                              ELSE (CHOOSE s \in StraysHere : s.at = o).member

\* rtems_rtl_seek_read.
Readable(o, len) == o + len <= Size

\* rtems_rtl_scan_decimal of the size field, and the padding byte.
PaddedSize(o) == Even(MemberAt(o).size)

\* The name that is read from the table of long names at an offset.
TableNames(o) == {m.name : m \in {n \in Range(Archive) :
                                    n.kind = "long" /\ extended + n.at = o}}

\* rtems_rtl_match_name against a name in the archive, up to a delimiter in either.
Matches(name) == Stem[name] = Stem[request.oname]

SearchInit ==
  /\ pc = "idle"
  /\ request \in Requests /\ disk \in Disks /\ path = <<>> /\ dir = 0 /\ fname = <<>>
  /\ ooffset = 0 /\ fsize = 0 /\ scanning = FALSE /\ extended = 0 /\ off = 0

-----------------------------------------------------------------------------
(* The file. *)

\* rtems_rtl_obj_parse_name: [aname ":"] oname ["@" offset].
ParseName(paths) ==
  /\ pc = "idle"
  /\ ooffset' = IF request.aname = NoName THEN 0 ELSE request.offset
  /\ path' = IF Target \in Absolute THEN <<NoDir>> ELSE paths
  /\ pc' = "path"
  /\ UNCHANGED <<request, disk, dir, fname, fsize, scanning, extended, off>>

\* A name without memory ends the call.
ParseNameFails ==
  /\ pc = "idle"
  /\ pc' = "nomemory"
  /\ UNCHANGED <<searchVars, scanVars>>

\* Mutant of FindFile: the search goes on behind the file.
FindFileLast ==
  /\ pc = "path" /\ dir < Len(path)
  /\ dir' = dir + 1
  /\ fname' = IF <<path[dir + 1], Target>> \in disk THEN <<path[dir + 1], Target>>
                                                   ELSE fname
  /\ pc' = IF dir' = Len(path) /\ fname' # <<>> THEN "open" ELSE pc
  /\ UNCHANGED <<request, disk, path, scanVars>>

\* rtems_rtl_find_file: a stat in the next directory of the path.
FindFile ==
  /\ pc = "path" /\ dir < Len(path)
  /\ dir' = dir + 1
  /\ IF <<path[dir + 1], Target>> \in disk
       THEN fname' = <<path[dir + 1], Target>> /\ pc' = "open"
       ELSE UNCHANGED <<fname, pc>>
  /\ UNCHANGED <<request, disk, path, scanVars>>

\* The path is at its end, or there is no memory for the next name.
NoFile ==
  /\ pc = "path"
  /\ pc' = "nofile"
  /\ UNCHANGED <<searchVars, scanVars>>

\* rtems_rtl_obj_load: an object file of its own is loaded from its start.
OpenObject ==
  /\ pc = "open" /\ request.aname = NoName
  /\ pc' = "found"
  /\ UNCHANGED <<searchVars, scanVars>>

-----------------------------------------------------------------------------
(* rtems_rtl_obj_archive_find. *)

Give(answer) ==
  /\ pc' = answer
  /\ ooffset' = 0 /\ fsize' = 0
  /\ UNCHANGED <<scanning, extended, off, searchVars>>

Restart == scanning' = TRUE /\ ooffset' = Ident

\* The file is as long as stat says.  An offset in the name is believed first.
OpenArchive ==
  /\ pc = "open" /\ request.aname # NoName
  /\ IF Archive = <<>>
       THEN pc' = "failed" /\ UNCHANGED scanVars
       ELSE /\ pc' = "scan"
            /\ fsize' = Size
            /\ IF ooffset # 0 THEN scanning' = FALSE /\ UNCHANGED ooffset ELSE Restart
            /\ extended' = 0
            /\ UNCHANGED off
  /\ UNCHANGED searchVars

Scan == pc = "scan" /\ ooffset < Size

NotFound == pc = "scan" /\ ooffset >= Size /\ Give("notfound")

\* A header that is not all in the file.
ReadFails == Scan /\ ~Readable(ooffset, Header) /\ Give("failed")

\* An lseek or a read fails: of the identifier, of a member's header, of a header
\* on the way to the table of long names, or of a name in it.
IdentError == /\ pc = "open" /\ request.aname # NoName
              /\ pc' = "ioerror"
              /\ UNCHANGED <<searchVars, scanVars>>
IoError == (Scan \/ pc = "probe") /\ Give("ioerror")

\* There is no header here: the offset in the name is out of date.
BadHeader ==
  /\ Scan /\ Readable(ooffset, Header) /\ ~IsHeader(ooffset)
  /\ IF scanning THEN Give("failed")
     ELSE Restart /\ UNCHANGED <<pc, fsize, extended, off, searchVars>>

AtMember(kind) == Scan /\ IsHeader(ooffset) /\ MemberAt(ooffset).kind = kind

Skip ==
  /\ fsize' = PaddedSize(ooffset)
  /\ ooffset' = ooffset + Header + PaddedSize(ooffset)

\* Behind the header.
Hit ==
  /\ fsize' = PaddedSize(ooffset)
  /\ ooffset' = ooffset + Header
  /\ pc' = "found"

SymbolTable ==
  /\ AtMember("symbols") \/ AtMember("unknown")
  /\ Skip
  /\ UNCHANGED <<pc, scanning, extended, off, searchVars>>

NamesTable ==
  /\ AtMember("names")
  /\ extended' = ooffset + Header
  /\ Skip
  /\ UNCHANGED <<pc, scanning, off, searchVars>>

ShortName ==
  /\ AtMember("short")
  /\ IF Matches(MemberAt(ooffset).name) THEN Hit ELSE Skip /\ UNCHANGED pc
  /\ UNCHANGED <<scanning, extended, off, searchVars>>

\* The table of long names is not known: it is looked for from here.
LongNameUnknown ==
  /\ AtMember("long") /\ extended = 0
  /\ fsize' = PaddedSize(ooffset)
  /\ off' = ooffset
  /\ pc' = "probe"
  /\ UNCHANGED <<ooffset, scanning, extended, searchVars>>

\* The header of the next member is read over that of the last one.
Probe ==
  /\ pc = "probe"
  /\ LET next == off + PaddedSize(off) + Header
     IN  IF ~Readable(next, Header) \/ ~IsHeader(next)
           THEN Give("failed")
           ELSE /\ off' = next
                /\ IF MemberAt(next).kind = "names"
                     THEN extended' = next + Header /\ pc' = "scan"
                     ELSE UNCHANGED <<extended, pc>>
                /\ UNCHANGED <<ooffset, fsize, scanning, searchVars>>

\* The name is read with whatever follows it.
LongName ==
  /\ AtMember("long") /\ extended # 0
  /\ LET at == extended + MemberAt(ooffset).at
     IN  IF ~Readable(at, NameRead)
           THEN Give("failed")
           ELSE /\ IF \E n \in TableNames(at) : Matches(n)
                     THEN Hit ELSE Skip /\ UNCHANGED pc
                /\ UNCHANGED <<scanning, extended, off, searchVars>>

SearchNext ==
  \/ \E p \in Paths : ParseName(p)
  \/ ParseNameFails \/ FindFile \/ NoFile \/ OpenObject \/ OpenArchive
  \/ NotFound \/ ReadFails \/ IdentError \/ IoError \/ BadHeader \/ SymbolTable \/ NamesTable \/ ShortName
  \/ LongNameUnknown \/ Probe \/ LongName

SearchSpec == SearchInit /\ [][SearchNext]_allVars

-----------------------------------------------------------------------------
\* The members of the wanted name that can be found at all: the name of a long
\* one is read with the 255 bytes behind its first.
Wanted == {i \in DOMAIN Archive : Archive[i].kind \in {"short", "long"}
                                  /\ Matches(Archive[i].name)}
NameReadable(k, i) == /\ Archive[k].kind = "names"
                      /\ Readable(HeaderOf(k) + Header + Archive[i].at, NameRead)
HasNames == \E k \in DOMAIN Archive :
              /\ Archive[k].kind = "names"
              /\ \A i \in DOMAIN Archive : Archive[i].kind = "long" => k < i /\ NameReadable(k, i)
NoLong   == \A i \in DOMAIN Archive : Archive[i].kind # "long"

\* What is found is a member of the wanted name; with an offset in the name that is
\* out of date, it may also be bytes of a member that pass for one.
FoundInArchive ==
  pc = "found" /\ request.aname # NoName =>
    \/ \E i \in Wanted :
         /\ ooffset = HeaderOf(i) + Header /\ fsize = Even(Archive[i].size)
         /\ scanning => \A j \in Wanted : i <= j
    \/ ~scanning /\ \E s \in StraysHere : ooffset = s.at + Header

\* What is there is found from the start of an archive, the first of its name, if the
\* table of long names comes before they are used.
MissedFromStart ==
  pc \in {"notfound", "failed"} /\ scanning /\ (HasNames \/ NoLong) => Wanted = {}

\* With the right offset in the name the member is found, except for a long name
\* whose table is not behind the member: rtl-obj.c:758 wants it to be looked for from
\* the start of the archive, but it is only looked for from the member on.  And with
\* the offset of another member, or one behind the end of the archive, only what is
\* behind that offset is found: rtl-obj.c:748 has the search start again.
MissedAtOffset ==
  /\ pc \in {"notfound", "failed"} =>
       \A i \in Wanted :
         request.aname # NoName /\ request.offset = HeaderOf(i) =>
           Archive[i].kind = "long" /\ \A k \in DOMAIN Archive : i < k => ~NameReadable(k, i)
  /\ pc = "notfound" /\ ~scanning /\ ~IsStray(request.offset) =>
       \A i \in Wanted : HeaderOf(i) < request.offset

\* FindsWhatIsNamed: a search ends at the object that was named, in the first
\* directory of the path that has the file, and it misses one only under the
\* conditions above (rtems_rtl_find_file, rtems_rtl_obj_archive_find).
FindsWhatIsNamed ==
  /\ FoundInArchive /\ MissedFromStart /\ MissedAtOffset
  /\ pc = "found" =>
       /\ fname \in disk
       /\ \A i \in DOMAIN path : <<path[i], Target>> \in disk =>
            \E j \in 1 .. i : fname = <<path[j], Target>>
=============================================================================
