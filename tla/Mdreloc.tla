------------------------------ MODULE Mdreloc --------------------------------
(***************************************************************************)
(* The relocation back ends.  A word is a number between -2^31 and 2^31-1; *)
(* sums of addresses do not wrap at 2^32.  A relocation gives the new word *)
(* at the place, or Refused when its handler is FALSE.                     *)
(***************************************************************************)
EXTENDS Integers, Sequences

\* What a handler returns and what it leaves at the place.
Done(word)    == [ok |-> TRUE, word |-> word]
Refused(word) == [ok |-> FALSE, word |-> word]

\* A relocation record: its type, the value of its symbol and whether that is a
\* Thumb function, its addend, the address of the place, what is there, and the
\* base of the section it is in.
Record(type, s, thumb, a, p, word, b) ==
  [type |-> type, s |-> s, thumb |-> thumb, a |-> a, p |-> p, word |-> word, b |-> b]

\* The low n bits of a number, and the others.
Low(v, n)  == IF n = 32 THEN v ELSE v % 2 ^ n
High(w, n) == IF n = 32 THEN 0 ELSE w - (w % 2 ^ n)

-----------------------------------------------------------------------------
(* i386, m68k, powerpc and nios2. *)

\* Only records without an addend of their own.
I386(r) ==
  CASE r.type \in {"NONE", "COPY"}            -> Done(r.word)
    [] r.type = "PC32"                        -> Done(r.word + r.s - r.p)
    [] r.type \in {"GOT32", "32", "GLOB_DAT"} -> Done(r.s + r.word)
    [] r.type = "RELATIVE"                    -> Done(r.word + r.b)
    [] OTHER                                  -> Refused(r.word)

\* Only records with an addend.  The word is written, but the handler returns
\* FALSE for every type, and the load fails.
M68k(r) ==
  CASE r.type = "PC32"                        -> Refused(r.word + r.s + r.a - r.p)
    [] r.type \in {"GOT32", "32", "GLOB_DAT"} -> Refused(r.s + r.a)
    [] r.type = "RELATIVE"                    -> Refused(r.word + r.b + r.a)
    [] OTHER                                  -> Refused(r.word)

Powerpc(r) ==
  CASE r.type = "PC32"                -> Refused(r.word + r.s + r.a - r.p)
    [] r.type \in {"32", "GLOB_DAT"}  -> Refused(r.s + r.a)
    [] r.type = "RELATIVE"            -> Refused(r.word + r.b + r.a)
    [] OTHER                          -> Refused(r.word)

\* Nothing is written, and the handler returns TRUE.
Nios2(r) == Done(r.word)

-----------------------------------------------------------------------------
(* arm. *)

\* A field of n bits with a sign.
Signed(field, n) == IF field >= 2 ^ (n - 1) THEN field - 2 ^ n ELSE field

\* Four times the addend in an instruction: the upper bits of the instruction are
\* cleared from a negative one only, and stay in a positive one as far as the
\* shift leaves them in the word.
Addend(word) ==
  4 * (IF (word \div 2 ^ 23) % 2 = 1 THEN Signed(Low(word, 24), 24)
                                      ELSE Signed(Low(word, 30), 30))

\* Mutant of Pc24: one bit more is taken to fit.
Pc24Far(r) ==
  LET tmp == r.b + r.s - r.p + Addend(r.word)
  IN  IF tmp < -(2 ^ 26) \/ tmp >= 2 ^ 26
        THEN Refused(r.word)
        ELSE Done(High(r.word, 24) + Low(tmp \div 4, 24))

\* The addend is in the instruction; the displacement is taken if its upper
\* seven bits are all the same.
Pc24(r) ==
  LET tmp == r.b + r.s - r.p + Addend(r.word)
  IN  IF tmp < -(2 ^ 25) \/ tmp >= 2 ^ 25
        THEN Refused(r.word)
        ELSE Done(High(r.word, 24) + Low(tmp \div 4, 24))

\* The base of the section is added to an aligned word only, although the
\* comment has B + S + A for both.  The last bit of the
\* address of a Thumb function is set.
Abs32(r) ==
  LET tmp == r.word + r.s + (IF r.p % 4 = 0 THEN r.b ELSE 0)
  IN  Done(IF r.thumb THEN tmp - (tmp % 2) + 1 ELSE tmp)

Arm(r) ==
  CASE r.type \in {"NONE", "COPY"}      -> Done(r.word)
    [] r.type = "PC24"                  -> Pc24(r)
    [] r.type \in {"ABS32", "GLOB_DAT"} -> Abs32(r)
    [] r.type = "RELATIVE"              -> Done(r.word + r.b)
    [] OTHER                            -> Refused(r.word)

-----------------------------------------------------------------------------
(* sparc. *)

\* reloc_target_flags: what a type adds up and how far the sum is shifted.
Sum(r) ==
  LET symbol   == {"8", "16", "32", "22", "13", "LO10", "HI22", "GLOB_DAT", "UA_32"}
      relative == {"DISP_8", "DISP_16", "DISP_32", "WDISP_30", "WDISP_22", "PC10", "PC22"}
  IN  CASE r.type \in symbol   -> r.a + r.s
        [] r.type \in relative -> r.a + r.s - r.p
        [] r.type = "WPLT30"   -> r.a - r.p
        [] OTHER               -> r.a

Shift(type) ==
  CASE type \in {"WDISP_30", "WDISP_22", "WPLT30"} -> 2
    [] type \in {"HI22", "GOT22", "PC22"}          -> 10
    [] OTHER                                       -> 0

\* reloc_target_bitmask.
Bits(type) ==
  CASE type \in {"8", "DISP_8"}                             -> 8
    [] type \in {"16", "DISP_16"}                           -> 16
    [] type \in {"WDISP_30", "WPLT30"}                      -> 30
    [] type \in {"WDISP_22", "HI22", "22", "GOT22", "PC22"} -> 22
    [] type \in {"13", "GOT13"}                             -> 13
    [] type \in {"LO10", "GOT10", "PC10"}                   -> 10
    [] OTHER                                                -> 32

\* The word with its bytes in the opposite order.
Byte(w, i)  == (w \div 2 ^ (8 * i)) % 256
Reversed(w) == Signed(Byte(w, 0), 8) * 2 ^ 24 + Byte(w, 1) * 2 ^ 16
                 + Byte(w, 2) * 2 ^ 8 + Byte(w, 3)

\* All others go through the tables, whose last type is UA_32; types up to
\* R_SPARC_6 are let through as well and are read behind the tables, which is not
\* modelled.  An unaligned word is read from its most significant byte on and
\* written from its least significant byte on.
Sparc(r) ==
  LET n     == Bits(r.type)
      value == Low(Sum(r) \div 2 ^ Shift(r.type), n)
      word  == High(r.word, n) + value
  IN  CASE r.type \in {"NONE", "JMP_SLOT", "COPY"} -> Done(r.word)
        [] r.type = "RELATIVE"                     -> Done(r.word + r.b + r.a)
        [] r.type = "UA_32"                        -> Done(Reversed(word))
        [] OTHER                                   -> Done(word)

-----------------------------------------------------------------------------
\* A number of n bits: TLC has no 2^32.
InBits(v, n)   == v \div 2 ^ (n - 2) \in 0 .. 3
InSigned(v, n) == v \div 2 ^ (n - 2) \in -2 .. 1

\* The branches of an arm, B and BL with any condition.
IsBranch(word) == (word \div 2 ^ 25) % 8 = 5

\* Where a branch of an arm at address p goes.
Goes(word, p) == p + 4 * Signed(Low(word, 24), 24)

\* Reaches: a relocation that its handler accepts makes the instruction, as the
\* processor reads it, refer to the place that the record says, and leaves the
\* other bits of the instruction alone; one that it refuses changes nothing.  The
\* calls of arm and sparc, the address a sparc builds from two instructions, the
\* pointers of the i386 and of the arm (rtems_rtl_elf_relocate_rel,
\* rtems_rtl_elf_relocate_rela).
\*
\* The branches and the aligned pointers of the arm are an exception: what they
\* refer to is the base of the section behind the place the record says, `to' for
\* a branch.  The comment at rtl-mdreloc-arm.c:79 has S - P + A, and S is an
\* address that has the base of its own section in it (rtl-elf.c:94).  And only a
\* branch with a negative addend is taken: to any other one the bits of its
\* instruction are added, so that it is refused if what it means is in reach.
ReachesArm(r) ==
  LET x         == Arm([r EXCEPT !.type = "PC24"])
      to        == r.s + 4 * Signed(Low(r.word, 24), 24)
      inReach   == InSigned(r.b + to - r.p, 26)
      backwards == (r.word \div 2 ^ 23) % 2 = 1
  IN  IsBranch(r.word) =>
        /\ High(x.word, 24) = High(r.word, 24)
        /\ inReach => (x.ok <=> backwards)
        /\ x.ok => inReach \/ ~backwards
        /\ x.ok /\ backwards => r.b + to - Goes(x.word, r.p) \in 0 .. 3
        /\ ~x.ok => x.word = r.word
ReachesSparc(r) ==
  LET call == Sparc([r EXCEPT !.type = "WDISP_30"]).word
      hi   == Sparc([r EXCEPT !.type = "HI22"]).word
      lo   == Sparc([r EXCEPT !.type = "LO10"]).word
      to   == r.s + r.a
  IN  /\ High(call, 30) = High(r.word, 30)
      /\ High(hi, 22) = High(r.word, 22) /\ High(lo, 10) = High(r.word, 10)
      /\ (to - r.p) % 4 = 0 /\ InSigned(to - r.p, 32) =>
           r.p + 4 * Signed(Low(call, 30), 30) = to
      /\ InBits(to, 32) => Low(hi, 22) * 2 ^ 10 + Low(lo, 10) = to
ReachesPointer(r) ==
  /\ LET x == Arm([r EXCEPT !.type = "ABS32"]).word
     IN  x = r.word + r.s + (IF r.p % 4 = 0 THEN r.b ELSE 0) \/ (r.thumb /\ x % 2 = 1)
  /\ r.p + I386([r EXCEPT !.type = "PC32"]).word = I386([r EXCEPT !.type = "32"]).word
Reaches(r) == ReachesArm(r) /\ ReachesSparc(r) /\ ReachesPointer(r)
=============================================================================
