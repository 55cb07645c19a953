------------------------------- MODULE FastLZ --------------------------------
(***************************************************************************)
(* The compression of the blocks of a RAP file.  A packed block is a       *)
(* sequence of literals, a count and so many bytes, and of matches, a      *)
(* length and the distance of an earlier place with the same bytes.  The   *)
(* first byte has the level of the format in the bits above its count.     *)
(*                                                                         *)
(* The widths of the fields are parameters: a control byte holds a length  *)
(* below Lens + 1 and the upper part of a distance below High.  The        *)
(* program has Byte = 256, High = 32 and Lens = 7.                         *)
(***************************************************************************)
EXTENDS Integers, SequencesExt

CONSTANTS Byte, High, Lens,
          Hash(_, _, _),  \* the slot of three bytes
          Slots,
          Blocks,         \* blocks that are packed
          Rooms(_)        \* sizes of the buffer a block is unpacked into

\* A block that is shorter than four bytes is no longer than a count can say, and
\* five bytes that are found far away are not longer than what is written for them.
ASSUME FastLZAssumption ==
  /\ High \in Nat /\ High >= 3 /\ Lens \in Nat /\ Lens >= 4 /\ Byte = (Lens + 1) * High
  /\ \A b \in Blocks : b \in Seq(0 .. Byte - 1) /\ b # <<>> /\ Rooms(b) \subseteq Nat
  /\ \A a, b, c \in 0 .. Byte - 1 : Hash(a, b, c) \in Slots

MaxCopy == High
MaxLen  == Byte + Lens + 1
MaxDistance(level) == IF level = 1 THEN High * Byte ELSE High * Byte - 1
Limit(level) == IF level = 1 THEN MaxDistance(1)
                             ELSE Byte * Byte - 1 + MaxDistance(2) - 1

VARIABLES
  step,    \* "idle", "pack", "packed", "unpack", "done", "refused"
  data,    \* the block
  level,
  ip,      \* how much of the input is done
  copy,    \* the literals since the last count
  htab,    \* for a slot the last place that was put into it
  packed,  \* the output of the one and the input of the other
  ctrl,    \* the control byte of the next item
  out, room

packVars == <<data, level, ip, copy, htab, packed>>
lzVars == <<step, packVars, ctrl, out, room>>

LzInit == /\ step = "idle" /\ data = <<>> /\ level = 1 /\ ip = 0 /\ copy = 0
          /\ htab = [s \in Slots |-> 0] /\ packed = <<>> /\ ctrl = 0
          /\ out = <<>> /\ room = 0

-----------------------------------------------------------------------------
(* Packing. *)

At(i)   == data[i + 1]
Slot(i) == Hash(At(i), At(i + 1), At(i + 2))

\* Less than four bytes are a literal; otherwise the first two are.
Begin(block, l) ==
  /\ step = "idle"
  /\ data' = block /\ level' = l
  /\ IF Len(block) < 4
       THEN /\ packed' = <<Len(block) - 1>> \o block
            /\ step' = "packed"
            /\ UNCHANGED <<ip, copy>>
       ELSE /\ packed' = <<MaxCopy - 1, block[1], block[2]>>
            /\ step' = "pack" /\ ip' = 2 /\ copy' = 2
  /\ UNCHANGED <<htab, ctrl, out, room>>

\* Output and count with one literal more.
WithByte(state, byte) ==
  IF state.copy + 1 = MaxCopy
    THEN [packed |-> state.packed \o <<byte, MaxCopy - 1>>, copy |-> 0]
    ELSE [packed |-> Append(state.packed, byte), copy |-> state.copy + 1]

\* Mutant of Counted: the count is not biased.
CountedUnbiased(bytes, n) ==
  IF n = 0 THEN Front(bytes) ELSE [bytes EXCEPT ![Len(bytes) - n] = n]

\* The count of the literals is put in front of them, or is taken back.
Counted(bytes, n) ==
  IF n = 0 THEN Front(bytes) ELSE [bytes EXCEPT ![Len(bytes) - n] = n - 1]

\* Where the search for a match at ip comes to: its distance and its first bytes.
IsRun    == level = 2 /\ \A k \in 0 .. 2 : At(ip + k) = At(ip - 1)
Distance == IF IsRun THEN 1 ELSE ip - htab[Slot(ip)]
Checked  == IF ~IsRun /\ level = 2 /\ Distance >= MaxDistance(2) THEN 5 ELSE 3
IsMatch  == /\ 0 < Distance /\ Distance < Limit(level)
            /\ \A k \in 0 .. Checked - 1 : At(ip + k - Distance) = At(ip + k)

\* Eight more bytes are compared without a look at the end of the input, the rest
\* up to two bytes before it.  The byte that differs is passed by as well.
Compared ==
  LET from  == ip + Checked
      bound == Len(data) - 2
      stop  == IF Distance # 1 /\ from + 8 > bound THEN from + 8 ELSE bound
      diff  == {i \in from .. stop - 1 : At(i) # At(i - Distance)}
  IN  IF diff = {} THEN stop ELSE 1 + CHOOSE i \in diff : \A j \in diff : i <= j

\* A length is biased by two, a distance by one.
ControlOf(len, distance) ==
  (IF len < Lens THEN len ELSE Lens) * High + (distance \div Byte)

Encoded1(len, distance) ==
  LET longest == MaxLen - 2
      parts   == (len - 1) \div longest
      rest    == len - parts * longest
      part    == <<ControlOf(Lens, distance), longest - Lens - 2, distance % Byte>>
  IN  [i \in 1 .. 3 * parts |-> part[1 + ((i - 1) % 3)]]
        \o (<<ControlOf(rest, distance)>>
              \o (IF rest < Lens THEN <<>> ELSE <<rest - Lens>>) \o <<distance % Byte>>)

Encoded2(len, distance) ==
  LET far    == distance >= MaxDistance(2)
      beyond == distance - MaxDistance(2)
      more   == len - Lens
      lens   == IF len < Lens THEN <<>>
                ELSE [p \in 1 .. more \div (Byte - 1) |-> Byte - 1]
                       \o <<more % (Byte - 1)>>
  IN  IF far THEN <<ControlOf(len, Byte * (High - 1))>> \o lens
                    \o <<Byte - 1, beyond \div Byte, beyond % Byte>>
             ELSE <<ControlOf(len, distance)>> \o lens \o <<distance % Byte>>

InBlock == step = "pack" /\ ip < Len(data) - 12

\* The hash of the two places before the end of the match is taken; that of the
\* last one may need the byte behind the block.
Match ==
  /\ InBlock /\ IsMatch
  /\ LET end    == Compared
         len    == end - 3 - ip
         first  == IF IsRun THEN htab ELSE [htab EXCEPT ![Slot(ip)] = ip]
         second == [first EXCEPT ![Slot(end - 3)] = end - 3]
         code   == IF level = 1 THEN Encoded1(len, Distance - 1)
                                ELSE Encoded2(len, Distance - 1)
     IN  /\ packed' = Append(Counted(packed, copy) \o code, MaxCopy - 1)
         /\ \E s \in IF end < Len(data) THEN {Slot(end - 2)} ELSE Slots :
              htab' = [second EXCEPT ![s] = end - 2]
         /\ ip' = end - 1 /\ copy' = 0
  /\ UNCHANGED <<step, data, level, ctrl, out, room>>

Literal ==
  /\ InBlock /\ ~IsMatch
  /\ LET next == WithByte([packed |-> packed, copy |-> copy], At(ip))
     IN  packed' = next.packed /\ copy' = next.copy
  /\ htab' = [htab EXCEPT ![Slot(ip)] = ip]
  /\ ip' = ip + 1
  /\ UNCHANGED <<step, data, level, ctrl, out, room>>

\* The end of the block is literals; the level goes into the first byte.
LeftOver ==
  /\ step = "pack" /\ ~InBlock /\ ip < Len(data)
  /\ LET next == WithByte([packed |-> packed, copy |-> copy], At(ip))
     IN  packed' = next.packed /\ copy' = next.copy
  /\ ip' = ip + 1
  /\ UNCHANGED <<step, data, level, htab, ctrl, out, room>>

Finish ==
  /\ step = "pack" /\ ip = Len(data)
  /\ packed' = [Counted(packed, copy) EXCEPT ![1] = @ + (level - 1) * High]
  /\ step' = "packed" /\ ip' = 0 /\ copy' = 0 /\ htab' = [s \in Slots |-> 0]
  /\ UNCHANGED <<data, level, ctrl, out, room>>

-----------------------------------------------------------------------------
(* Unpacking. *)

\* fastlz_decompress.
Unpack(size) ==
  /\ step = "packed"
  /\ room' = size
  /\ level' = (packed[1] \div High) + 1
  /\ ctrl' = packed[1] % High
  /\ ip' = 1 /\ step' = "unpack"
  /\ UNCHANGED <<data, copy, htab, packed, out>>

Refused == /\ step' = "refused"
           /\ UNCHANGED <<packVars, ctrl, out, room>>

\* The item ends at a place of the input; the next one begins there.
Put(bytes, end) ==
  /\ out' = bytes
  /\ IF end < Len(packed)
       THEN ctrl' = packed[end + 1] /\ ip' = end + 1 /\ UNCHANGED step
       ELSE step' = "done" /\ ip' = end /\ UNCHANGED ctrl
  /\ UNCHANGED <<data, level, copy, htab, packed, room>>

UnpackLiteral ==
  /\ step = "unpack" /\ ctrl < High
  /\ LET end == ip + ctrl + 1
     IN  IF Len(out) + ctrl + 1 > room \/ end > Len(packed)
           THEN Refused
           ELSE Put(out \o SubSeq(packed, ip + 1, end), end)

\* What the bytes behind the control byte say.
Item1 ==
  LET long == ctrl \div High = Lens
      at   == IF long THEN ip + 1 ELSE ip
  IN  [len  |-> (ctrl \div High) - 1 + (IF long THEN packed[ip + 1] ELSE 0),
       back |-> (ctrl % High) * Byte + packed[at + 1], end |-> at + 1]

Item2 ==
  LET long == ctrl \div High = Lens
      full == CHOOSE k \in 0 .. Len(packed) :
                /\ packed[ip + k + 1] # Byte - 1
                /\ \A j \in 1 .. k : packed[ip + j] = Byte - 1
      at   == IF long THEN ip + full + 1 ELSE ip
      code == packed[at + 1]
      far  == code = Byte - 1 /\ ctrl % High = High - 1
  IN  [len  |-> (ctrl \div High) - 1
                  + (IF long THEN full * (Byte - 1) + packed[at] ELSE 0),
       back |-> IF far THEN packed[at + 2] * Byte + packed[at + 3] + MaxDistance(2)
                       ELSE (ctrl % High) * Byte + code,
       end  |-> IF far THEN at + 3 ELSE at + 1]

\* A match may reach into what it writes.
UnpackMatch ==
  /\ step = "unpack" /\ ctrl >= High
  /\ LET item == IF level = 1 THEN Item1 ELSE Item2
         WithCopy(o) == Append(o, o[Len(o) - item.back])
         copied[k \in 0 .. item.len + 3] ==
           IF k = 0 THEN out ELSE WithCopy(copied[k - 1])
     IN  IF Len(out) + item.len + 3 > room \/ item.back + 1 > Len(out)
           THEN Refused
           ELSE Put(copied[item.len + 3], item.end)

LzNext == \/ \E b \in Blocks, l \in {1, 2} : Begin(b, l)
          \/ Match \/ Literal \/ LeftOver \/ Finish
          \/ \E r \in Rooms(data) : Unpack(r)
          \/ UnpackLiteral \/ UnpackMatch
LzSpec == LzInit /\ [][LzNext]_lzVars

-----------------------------------------------------------------------------
\* ComesBack: whatever the hash table proposes, a block that was packed is unpacked
\* to the same block when the buffer has room for it, is refused when it has not,
\* and never gets a byte that is wrong or behind the buffer; and packing needs no
\* more than one byte in MaxCopy of its own, which is less than the "5% larger"
\* output buffer fastlz.h asks for (fastlz_compress, fastlz_decompress).
ComesBack ==
  /\ step \in {"unpack", "done", "refused"} => IsPrefix(out, data) /\ Len(out) <= room
  /\ step = "done" => out = data
  /\ step = "refused" => room < Len(data)
  /\ step \in {"pack", "packed"} =>
       Len(packed) <= Len(data) + (Len(data) \div MaxCopy) + 1
=============================================================================
