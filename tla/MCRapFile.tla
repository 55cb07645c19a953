------------------------------ MODULE MCRapFile ------------------------------
(* Four files for RapFile: one with all that a file may have, one that has       *)
(* little, one with a name that is longer than the buffer for names, and one of  *)
(* another machine.  Before the first load blocks are packed and unpacked: bytes *)
(* that occur again after a distance, and runs of them, at both sides of the     *)
(* limits of the fields.                                                         *)
EXTENDS RapFile, FastLZ, TLC

Sym(bind, section) == [bind |-> bind, section |-> section]
Rec(sym, len, resolves) == [sym |-> sym, len |-> len, resolves |-> resolves]
None == <<>>

Full == [machine |-> "ours", sizes |-> <<3, 0, 2, 1, 2, 4>>, strtab |-> 3,
         symbols |-> <<Sym("GLOBAL", 0), Sym("WEAK", 4)>>,
         rela    |-> <<TRUE, FALSE, FALSE, FALSE, FALSE, FALSE>>,
         relocs  |-> <<<<Rec("section", 0, TRUE), Rec("appended", 2, TRUE)>>, None, None, None,
                       <<Rec("appended", 1, TRUE), Rec("strtab", 0, FALSE), Rec("section", 0, TRUE)>>,
                       None>>]
Little == [machine |-> "ours", sizes |-> <<0, 1, 0, 0, 0, 0>>, strtab |-> 0,
           symbols |-> <<Sym("LOCAL", 9)>>, rela |-> [s \in 1 .. 6 |-> s = 2],
           relocs  |-> [s \in 1 .. 6 |-> None]]
Long   == [Little EXCEPT !.symbols = <<>>,
                         !.relocs[2] = <<Rec("strtab", 0, TRUE), Rec("appended", 5, TRUE)>>]
Other  == [Little EXCEPT !.machine = "other"]

MCHash(a, b, c) == IF a = 19 THEN 0 ELSE 1 + ((a + 2 * b + 3 * c) % 3)
\* Any three bytes of it occur once.
Plain(m, n) == [i \in 1 .. n - m |->
                  IF (i + m) % 2 = 1 THEN ((i + m) \div 2) % 18 ELSE ((i + m) \div 36) % 18]
Again(n, distance, len) ==
  LET start == <<19, 18, 18>> \o Plain(0, 13)
  IN  start \o Plain(13, distance - 3) \o SubSeq(start, 1, len)
        \o Plain(distance, distance + n)
Run(len, n) == <<3>> \o [i \in 1 .. len |-> 7] \o Plain(0, n)
MCBlocks == {Plain(0, n) : n \in {1, 3, 4, 5, 16, 17, 40}}
              \union {Run(len, n) : len \in (1 .. 10) \union (22 .. 30) \union (43 .. 52), n \in {0, 13}}
              \union {Again(0, d, len) : len \in {4, 5, 13}, d \in {20, 78, 79, 80, 476, 477}}
              \union {Again(10, d, len) : len \in {4, 5, 13}, d \in {20, 79}}
MCRooms(block) == {Len(block), Len(block) - 1}

MCInit == FileInit /\ LzInit
Forget == /\ step \in {"done", "refused"}
          /\ step' = "idle" /\ data' = <<>> /\ level' = 1 /\ ip' = 0 /\ copy' = 0
          /\ packed' = <<>> /\ ctrl' = 0 /\ out' = <<>> /\ room' = 0
          /\ UNCHANGED <<htab, fileVars>>
MCNext == \/ FileInit /\ LzNext /\ UNCHANGED fileVars
          \/ Forget
          \/ LzInit /\ FileNext /\ UNCHANGED lzVars

MCFiles == "full" :> Full @@ "little" :> Little @@ "long" :> Long @@ "other" :> Other
=============================================================================
