-------------------------- MODULE UnresolvedProofs --------------------------
(***************************************************************************)
(* Proofs about Unresolved, for any objects, names and sizes: as long as   *)
(* the blocks hold the records they count, the relocations that wait and   *)
(* the records in the table are the same, and the record of one of them    *)
(* leads to its name.                                                      *)
(***************************************************************************)
EXTENDS Unresolved, TLAPS, FiniteSetTheorems, SequenceTheorems, WellFoundedInduction

-----------------------------------------------------------------------------
(* Tables without regard to how they are walked over. *)

RecSet == [type : {"empty", "text"}]
            \union [type : {"name"}, name : Names, refs : Nat]
            \union [type : {"reloc"}, site : Sites, name : Nat, obj : {"live", "freed", "null"}]
BlockSet == [recs : 0 .. BlockRecs, rec : [Positions -> RecSet]]

\* The names and relocations of a table, those of them that are names, and the
\* relocations of objects that are there.
At(bs, c) == bs[c[1]].rec[c[2]]
CellsOf(bs) == {c \in (DOMAIN bs) \X Positions : At(bs, c).type \in {"name", "reloc"}}
NamesOf(bs) == {c \in CellsOf(bs) : At(bs, c).type = "name"}
LiveOf(bs) == {c \in CellsOf(bs) : At(bs, c).type = "reloc" /\ At(bs, c).obj = "live"}

\* The records of a block are those it counts: names with their text, and
\* relocations.
NameShape(b, k) ==
  /\ NameRecs(b.rec[k].name) = Extent(b.rec[k])
  /\ k + Extent(b.rec[k]) <= b.recs
  /\ \A j \in k + 1 .. k + Extent(b.rec[k]) - 1 : b.rec[j].type = "text"
TextShape(b, k) ==
  \E j \in 0 .. k - 1 : b.rec[j].type = "name" /\ k < j + Extent(b.rec[j])
Shape(b) ==
  \A k \in Positions :
    /\ b.rec[k].type = "empty" <=> k >= b.recs
    /\ b.rec[k].type = "name" => NameShape(b, k)
    /\ b.rec[k].type = "text" => TextShape(b, k)

\* The sites P have a record each in table bs, and nothing else has.
Recorded(bs, P) ==
  /\ \A c \in LiveOf(bs) : At(bs, c).site \in P
  /\ \A c, d \in LiveOf(bs) : At(bs, c).site = At(bs, d).site => c = d
  /\ \A s \in P : \E c \in LiveOf(bs) : At(bs, c).site = s

\* The record of a site that is not in M leads to the name of the site, and
\* nothing up to that name is going to be removed.
LeadsTo(bs, c, n) ==
  /\ Rank(NamesOf(bs), n) = At(bs, c).name
  /\ At(bs, n).name = Wanted(At(bs, c).site)
  /\ \A m \in NamesOf(bs) : Before(m, n) => At(bs, m).refs > 0
Named(bs, M) ==
  \A c \in LiveOf(bs) : At(bs, c).site \notin M =>
    \E n \in NamesOf(bs) : LeadsTo(bs, c, n)

AllUsed(bs) == \A c \in CellsOf(bs) : ~Unused(At(bs, c))

-----------------------------------------------------------------------------
(* The inductive invariant. *)

TypeInv ==
  /\ TypeOK
  /\ blocks \in Seq(BlockSet)
  /\ next > 0
  /\ pc = "load" <=> loading # NoObj
  /\ loading \notin loaded
  /\ pc = "compact" => at[1] <= Len(blocks)

\* Where a compaction is: at the start of a record, with nothing unused behind.
CompactInv ==
  /\ pc # "compact" => AllUsed(blocks)
  /\ pc = "compact" =>
       /\ \A c \in CellsOf(blocks) :
            c[1] > at[1] \/ (c[1] = at[1] /\ c[2] < at[2]) => ~Unused(At(blocks, c))
       /\ at[1] > 0 /\ at[2] < Here.recs => HereRec.type # "text"

\* Of the object that is being loaded, what has not been met yet is untouched.
FreshInv ==
  pc = "load" => \A i \in DOMAIN Wants[loading] : i >= next =>
    value[<<loading, i>>] = NoName /\ <<loading, i>> \notin failed

\* What waits is not exported by what was loaded when the last pass was made.
Exported(objs) == UNION {Exports[o] : o \in objs}
WaitInv ==
  pc # "resolve" => \A s \in Pending \ misnamed : Wanted(s) \notin Exported(loaded)

Owing(o) == {s \in Pending \union failed : s[1] = o}
CountInv ==
  \A o \in loaded \union ({loading} \ {NoObj}) : count[o] = Cardinality(Owing(o))

TableInv ==
  /\ \A i \in DOMAIN blocks : Shape(blocks[i])
  /\ Recorded(blocks, Pending)
  /\ Named(blocks, misnamed)
  /\ CompactInv
  /\ FreshInv
  /\ WaitInv
  /\ CountInv

\* A place that is relocated with another symbol than it asks for had come to the
\* ordinal of another name by one of the three ways in which that happens.
WrongOnlyIfMisnamed ==
  sound => \A s \in Sites : value[s] \notin {NoName, Wanted(s)} => s \in misnamed

Inv ==
  /\ TypeOK
  /\ WrongOnlyIfMisnamed
  /\ ~ub => TypeInv
  /\ sound /\ ~ub => TableInv

-----------------------------------------------------------------------------
(* Induction up to a bound, for a set; a function defined by recursion.    *)

LEMMA Smallest ==
  ASSUME NEW S, S \subseteq Nat, S # {}
  PROVE  \E x \in S : \A y \in S : x <= y
<1>. DEFINE R == {p \in Nat \X Nat : p[1] < p[2]}
<1>1. IsWellFoundedOn(R, Nat)
  BY NatLessThanWellFounded DEF OpToRel
<1>2. PICK x \in S : \A y \in S : ~ (<<y, x>> \in R)
  BY <1>1, WFMin
<1>3. ASSUME NEW y \in S PROVE x <= y
  <2>1. x \in Nat /\ y \in Nat /\ ~ (y < x)
    BY <1>2
  <2>. QED
    BY <2>1
<1>. QED
  BY <1>3

LEMMA Induction ==
  ASSUME NEW n \in Nat, NEW G, 0 \in G,
         \A k \in 1 .. n : k - 1 \in G => k \in G
  PROVE  \A k \in 0 .. n : k \in G
<1>. DEFINE Bad == {k \in 0 .. n : k \notin G}
<1>1. SUFFICES ASSUME Bad # {} PROVE FALSE
  OBVIOUS
<1>2. Bad \subseteq Nat
  OBVIOUS
<1>. HIDE DEF Bad
<1>3. PICK k \in Bad : \A m \in Bad : k <= m
  BY <1>1, <1>2, Smallest
<1>. USE DEF Bad
<1>4. k \in 1 .. n /\ k - 1 \in 0 .. n /\ ~ (k <= k - 1)
  BY <1>3
<1>5. k - 1 \in Bad
  BY <1>3, <1>4
<1>. QED
  BY <1>3, <1>4, <1>5

Iterates(f, n, s, F) == f[0] = s /\ \A i \in 1 .. n : f[i] = F[<<i, f[i - 1]>>]

LEMMA Recursion ==
  ASSUME NEW n \in Nat, NEW S, NEW s \in S, NEW F \in [(1 .. n) \X S -> S]
  PROVE  \E f \in [0 .. n -> S] : Iterates(f, n, s, F)
<1>. DEFINE Is(f, m) == \A i \in 0 .. m : f[i] = IF i = 0 THEN s ELSE F[<<i, f[i - 1]>>]
            G == {m \in 0 .. n : \E f \in [0 .. m -> S] : Is(f, m)}
<1>1. 0 \in G
  <2>. DEFINE f == [i \in 0 .. 0 |-> s]
  <2>1. f \in [0 .. 0 -> S] /\ Is(f, 0)
    OBVIOUS
  <2>. HIDE DEF f
  <2>. QED
    BY <2>1
<1>2. ASSUME NEW m \in 1 .. n, m - 1 \in G PROVE m \in G
  <2>1. PICK f \in [0 .. m - 1 -> S] : Is(f, m - 1)
    BY <1>2
  <2>. DEFINE x == F[<<m, f[m - 1]>>]
  <2>2. f[m - 1] \in S /\ x \in S
    OBVIOUS
  <2>. DEFINE g == [i \in 0 .. m |-> IF i = m THEN x ELSE f[i]]
  <2>. HIDE DEF x
  <2>3. g \in [0 .. m -> S]
    BY <2>2
  <2>4. ASSUME NEW i \in 0 .. m PROVE g[i] = IF i = 0 THEN s ELSE F[<<i, g[i - 1]>>]
    <3>1. CASE i = m
      <4>1. g[i] = x /\ g[i - 1] = f[m - 1] /\ i # 0
        BY <3>1
      <4>. QED
        BY <3>1, <4>1 DEF x
    <3>2. CASE i # m
      <4>1. i \in 0 .. m - 1 /\ g[i] = f[i] /\ (i # 0 => g[i - 1] = f[i - 1])
        BY <3>2
      <4>2. f[i] = IF i = 0 THEN s ELSE F[<<i, f[i - 1]>>]
        BY <2>1, <4>1
      <4>. HIDE DEF g
      <4>. QED
        BY <4>1, <4>2
    <3>. QED
      BY <3>1, <3>2
  <2>. HIDE DEF g
  <2>. QED
    BY <2>3, <2>4
<1>. HIDE DEF G
<1>3. n \in G
  BY <1>1, <1>2, Induction
<1>4. PICK f \in [0 .. n -> S] : Is(f, n)
  BY <1>3 DEF G
<1>5. ASSUME NEW i \in 0 .. n PROVE f[i] = IF i = 0 THEN s ELSE F[<<i, f[i - 1]>>]
  BY <1>4
<1>. HIDE DEF Is
<1>6. 0 \in 0 .. n /\ \A i \in 1 .. n : i \in 0 .. n /\ i # 0
  OBVIOUS
<1>7. f[0] = s /\ \A i \in 1 .. n : f[i] = F[<<i, f[i - 1]>>]
  BY <1>5, <1>6
<1>. QED
  BY <1>7 DEF Iterates

-----------------------------------------------------------------------------
(* Sizes.                                                                  *)

\* The constants, without the set they are elements of.
LEMMA Constants ==
  /\ BlockRecs \in Nat \ {0} /\ NameBytes \in Nat \ {0}
  /\ RecBytes \in Nat \ {0} /\ PtrBytes \in Nat \ {0}
  /\ Length \in [Names -> Nat \ {0}]
BY UnresolvedAssumption

LEMMA Divide ==
  ASSUME NEW x \in Nat, NEW y \in Nat \ {0}
  PROVE  x \div y \in 0 .. x
OBVIOUS

LEMMA Ceil ==
  ASSUME NEW x \in Nat \ {0}, NEW y \in Nat \ {0}
  PROVE  CeilDiv(x, y) \in Nat \ {0}
<1>1. (x + y - 1) \div y \in Nat /\ (x + y - 1) \div y >= 1
  OBVIOUS
<1>. QED
  BY <1>1 DEF CeilDiv

\* Every name has a record at least, and a step of a walk is one at least.
LEMMA Sizes ==
  /\ \A n \in Names : NameRecs(n) \in Nat \ {0}
  /\ \A r \in RecSet : Extent(r) \in Nat \ {0}
  /\ \A r \in RecSet : r.type # "name" => Extent(r) = 1
<1>1. \A n \in Names : Length[n] \in Nat \ {0} /\ Length[n] + 1 \in Nat \ {0}
  BY Constants
<1>2. \A n \in Names : /\ CeilDiv(Length[n], NameBytes) \in Nat \ {0}
                       /\ CeilDiv(Length[n] + 1, NameBytes) \in Nat \ {0}
  BY <1>1, Constants, Ceil
<1>3. \A r \in RecSet : r.type = "name" => r.name \in Names
  BY DEF RecSet
<1>. QED
  BY <1>2, <1>3 DEF NameRecs, Extent

\* The end of the records is never seen too early.
LEMMA NotTooEarly ==
  ASSUME NEW b \in BlockSet, NEW k \in Nat, k < b.recs
  PROVE  ~StopsAt(b, k)
<1>1. k \div PtrBytes \in 0 .. k
  BY Constants, Divide
<1>2. b.recs \in Nat
  BY Constants DEF BlockSet
<1>. QED
  BY <1>1, <1>2 DEF StopsAt

-----------------------------------------------------------------------------
(* A walk over a block that is in shape comes to its names and relocations. *)

LEMMA BlockFacts ==
  ASSUME NEW b \in BlockSet
  PROVE  /\ b.recs \in 0 .. BlockRecs
         /\ b.rec \in [Positions -> RecSet]
         /\ \A k \in Positions : /\ b.rec[k] \in RecSet
                                 /\ Extent(b.rec[k]) \in Nat \ {0}
                                 /\ b.rec[k].type # "name" => Extent(b.rec[k]) = 1
<1>1. b.recs \in 0 .. BlockRecs /\ b.rec \in [Positions -> RecSet]
  BY DEF BlockSet
<1>2. \A k \in Positions : b.rec[k] \in RecSet
  BY <1>1
<1>. QED
  BY <1>1, <1>2, Sizes

LEMMA Places ==
  /\ BlockRecs \in Nat \ {0}
  /\ \A k : k \in Positions <=> k \in Nat /\ k < BlockRecs
BY Constants DEF Positions

\* What is a record.
Starts(b, k) == k \in Positions /\ k < b.recs /\ b.rec[k].type # "text"

\* Behind a record there is another, or the end.
LEMMA Successor ==
  ASSUME NEW b \in BlockSet, Shape(b), NEW j, Starts(b, j)
  PROVE  LET k == j + Extent(b.rec[j])
         IN  k <= b.recs /\ (k < b.recs => Starts(b, k))
<1>. DEFINE e == Extent(b.rec[j])
            k == j + e
<1>1. /\ j \in Nat /\ j \in Positions /\ j < b.recs /\ e \in Nat \ {0}
      /\ b.recs \in Nat /\ b.recs <= BlockRecs /\ b.rec[j].type # "text"
      /\ b.rec[j].type # "name" => e = 1
  BY BlockFacts, Places DEF Starts
<1>2. k <= b.recs
  <2>1. CASE b.rec[j].type = "name"
    BY <1>1, <2>1 DEF Shape, NameShape
  <2>2. CASE b.rec[j].type # "name"
    <3>. HIDE DEF e
    <3>. QED
      BY <1>1, <2>2
  <2>. QED
    BY <2>1, <2>2
<1>3. ASSUME k < b.recs PROVE Starts(b, k)
  <2>1. k \in Positions
    <3>. HIDE DEF e
    <3>. QED
      BY <1>1, <1>3, Places
  <2>2. SUFFICES ASSUME b.rec[k].type = "text" PROVE FALSE
    BY <1>3, <2>1 DEF Starts
  <2>3. PICK i \in 0 .. k - 1 : b.rec[i].type = "name" /\ k < i + Extent(b.rec[i])
    BY <2>1, <2>2 DEF Shape, TextShape
  <2>. DEFINE f == Extent(b.rec[i])
  <2>4. i \in Positions /\ i \in Nat /\ f \in Nat \ {0}
    <3>1. i \in Nat /\ i < k
      BY <2>1, <2>3, Places
    <3>2. i \in Positions
      BY <2>1, <3>1, Places
    <3>. QED
      BY <3>1, <3>2, BlockFacts
  <2>5. \A m \in i + 1 .. i + f - 1 : b.rec[m].type = "text"
    BY <2>3, <2>4 DEF Shape, NameShape
  <2>6. CASE i < j
    <3>1. j \in i + 1 .. i + f - 1
      <4>. HIDE DEF e, f
      <4>1. k < i + f
        BY <2>3 DEF f
      <4>. QED
        BY <1>1, <2>4, <2>6, <4>1
    <3>. QED
      BY <1>1, <2>5, <3>1
  <2>7. CASE i = j
    BY <2>3, <2>7, <1>1
  <2>8. CASE i > j
    <3>1. b.rec[j].type = "name"
      <4>. HIDE DEF e
      <4>1. i < j + e
        BY <1>1, <2>3, <2>4
      <4>. QED
        BY <1>1, <2>4, <2>8, <4>1
    <3>2. b.rec[i].type = "text"
      <4>1. \A m \in j + 1 .. j + e - 1 : b.rec[m].type = "text"
        BY <1>1, <3>1 DEF Shape, NameShape
      <4>. HIDE DEF e
      <4>2. i \in j + 1 .. j + e - 1
        BY <1>1, <2>3, <2>4, <2>8
      <4>. QED
        BY <4>1, <4>2
    <3>. QED
      BY <2>3, <3>2
  <2>. QED
    BY <1>1, <2>4, <2>6, <2>7, <2>8
<1>. QED
  BY <1>2, <1>3

\* In front of a record there is another, or the start of the block.
LEMMA Predecessor ==
  ASSUME NEW b \in BlockSet, Shape(b), NEW k, Starts(b, k), k # 0
  PROVE  \E j \in 0 .. k - 1 : Starts(b, j) /\ k = j + Extent(b.rec[j])
<1>. DEFINE p == k - 1
<1>1. /\ k \in Nat \ {0} /\ k < b.recs /\ k \in Positions /\ b.rec[k].type # "text"
      /\ p \in Nat /\ p < b.recs /\ p \in Positions /\ p \in 0 .. k - 1 /\ p + 1 = k
      /\ b.recs \in Nat
  BY BlockFacts, Places DEF Starts
<1>. HIDE DEF p
<1>2. b.rec[p].type \in {"text", "name", "reloc"}
  <2>1. b.rec[p].type # "empty"
    BY <1>1 DEF Shape
  <2>2. b.rec[p] \in RecSet
    BY <1>1, BlockFacts
  <2>. QED
    BY <2>1, <2>2 DEF RecSet
<1>3. CASE b.rec[p].type = "reloc"
  BY <1>1, <1>3, BlockFacts DEF Starts
<1>4. CASE b.rec[p].type = "name"
  <2>. DEFINE e == Extent(b.rec[p])
  <2>1. e \in Nat \ {0} /\ \A m \in p + 1 .. p + e - 1 : b.rec[m].type = "text"
    BY <1>1, <1>4, BlockFacts DEF Shape, NameShape
  <2>2. Starts(b, p)
    BY <1>1, <1>4 DEF Starts
  <2>. HIDE DEF e
  <2>3. e = 1
    <3>1. SUFFICES ASSUME e > 1 PROVE FALSE
      BY <2>1
    <3>2. k \in p + 1 .. p + e - 1
      BY <1>1, <2>1, <3>1
    <3>. QED
      BY <1>1, <2>1, <3>2
  <2>. QED
    BY <1>1, <2>2, <2>3 DEF e
<1>5. CASE b.rec[p].type = "text"
  <2>1. PICK j \in 0 .. p - 1 : b.rec[j].type = "name" /\ p < j + Extent(b.rec[j])
    BY <1>1, <1>5 DEF Shape, TextShape
  <2>. DEFINE e == Extent(b.rec[j])
  <2>2. j \in Nat /\ j < p /\ j \in Positions /\ j \in 0 .. k - 1
    BY <1>1, <2>1, Places
  <2>3. e \in Nat \ {0} /\ \A m \in j + 1 .. j + e - 1 : b.rec[m].type = "text"
    BY <2>1, <2>2, BlockFacts DEF Shape, NameShape
  <2>4. Starts(b, j)
    <3>1. j < b.recs
      BY <1>1, <2>2
    <3>. QED
      BY <2>1, <2>2, <3>1 DEF Starts
  <2>5. p < j + e
    BY <2>1
  <2>. HIDE DEF e
  <2>6. k = j + e
    <3>1. SUFFICES ASSUME k < j + e PROVE FALSE
      BY <1>1, <2>2, <2>3, <2>5
    <3>2. k \in j + 1 .. j + e - 1
      BY <1>1, <2>2, <2>3, <3>1
    <3>. QED
      BY <1>1, <2>3, <3>2
  <2>. QED
    BY <2>2, <2>4, <2>6 DEF e
<1>. QED
  BY <1>2, <1>3, <1>4, <1>5

\* The recursion of Reached.
Walks(b, r) ==
  /\ r \in [0 .. BlockRecs -> SUBSET Nat]
  /\ r[0] = {0}
  /\ \A i \in 1 .. BlockRecs :
       r[i] = IF i - 1 \in r[i - 1] /\ ~IsLast(b, i - 1) /\ b.rec[i - 1].type # "text"
                THEN r[i - 1] \union {i - 1 + Extent(b.rec[i - 1])} ELSE r[i - 1]

LEMMA ReachedDef ==
  ASSUME NEW b \in BlockSet
  PROVE  \E r : Walks(b, r) /\ Reached(b) = r[BlockRecs]
<1>. DEFINE n == BlockRecs
            S == SUBSET Nat
            Goes(i, before) == i - 1 \in before /\ ~IsLast(b, i - 1) /\ b.rec[i - 1].type # "text"
            F == [p \in (1 .. n) \X S |->
                    IF Goes(p[1], p[2]) THEN p[2] \union {p[1] - 1 + Extent(b.rec[p[1] - 1])}
                    ELSE p[2]]
<1>1. n \in Nat /\ {0} \in S
  BY Constants
<1>2. F \in [(1 .. n) \X S -> S]
  <2>1. \A i \in 1 .. n : i - 1 \in Positions /\ i - 1 \in Nat
    BY Places
  <2>2. \A i \in 1 .. n : i - 1 + Extent(b.rec[i - 1]) \in Nat
    BY <2>1, BlockFacts
  <2>. HIDE DEF n, Goes
  <2>3. ASSUME NEW p \in (1 .. n) \X S
        PROVE  (IF Goes(p[1], p[2]) THEN p[2] \union {p[1] - 1 + Extent(b.rec[p[1] - 1])}
                ELSE p[2]) \in S
    <3>1. p[1] \in 1 .. n /\ p[2] \in S /\ p[1] - 1 + Extent(b.rec[p[1] - 1]) \in Nat
      BY <2>2, <2>3
    <3>. QED
      BY <3>1
  <2>. QED
    BY <2>3
<1>. HIDE DEF n, S, F
<1>3. PICK g \in [0 .. n -> S] : Iterates(g, n, {0}, F)
  BY <1>1, <1>2, Recursion
<1>4. \A i \in 1 .. n : g[i - 1] \in S
  BY <1>1
<1>. HIDE DEF Goes
<1>5. \A i \in 1 .. n : F[<<i, g[i - 1]>>]
                          = IF Goes(i, g[i - 1]) THEN g[i - 1] \union {i - 1 + Extent(b.rec[i - 1])}
                            ELSE g[i - 1]
  BY <1>4 DEF F
<1>. USE DEF Goes
<1>. DEFINE E(r) == r = [i \in 0 .. n |->
        IF i = 0 THEN {0}
        ELSE IF Goes(i, r[i - 1]) THEN r[i - 1] \union {i - 1 + Extent(b.rec[i - 1])}
                  ELSE r[i - 1]]
<1>6. E(g)
  <2>1. g = [i \in 0 .. n |-> g[i]]
    OBVIOUS
  <2>. HIDE DEF Goes
  <2>2. ASSUME NEW i \in 0 .. n
        PROVE  g[i] = IF i = 0 THEN {0}
                      ELSE IF Goes(i, g[i - 1]) THEN g[i - 1] \union {i - 1 + Extent(b.rec[i - 1])}
                      ELSE g[i - 1]
    <3>1. CASE i = 0
      BY <1>3, <3>1 DEF Iterates
    <3>2. CASE i # 0
      <4>1. i \in 1 .. n
        BY <1>1, <3>2
      <4>2. g[i] = F[<<i, g[i - 1]>>]
        BY <1>3, <4>1 DEF Iterates
      <4>. QED
        BY <1>5, <3>2, <4>1, <4>2
    <3>. QED
      BY <3>1, <3>2
  <2>. QED
    BY <2>1, <2>2
<1>. DEFINE r == CHOOSE q : E(q)
<1>7. E(r)
  BY <1>6
<1>8. Reached(b) = r[n]
  BY DEF Reached, n
<1>. HIDE DEF r
<1>9. r = g
  <2>. DEFINE G == {i \in 0 .. n : r[i] = g[i]}
  <2>. HIDE DEF Goes
  <2>1. /\ r = [i \in 0 .. n |-> r[i]] /\ g = [i \in 0 .. n |-> g[i]]
        /\ \A i \in 0 .. n : r[i] = IF i = 0 THEN {0}
                      ELSE IF Goes(i, r[i - 1]) THEN r[i - 1] \union {i - 1 + Extent(b.rec[i - 1])}
                      ELSE r[i - 1]
        /\ \A i \in 0 .. n : g[i] = IF i = 0 THEN {0}
                      ELSE IF Goes(i, g[i - 1]) THEN g[i - 1] \union {i - 1 + Extent(b.rec[i - 1])}
                      ELSE g[i - 1]
    BY <1>6, <1>7
  <2>2. 0 \in G
    <3>1. 0 \in 0 .. n
      BY <1>1
    <3>. QED
      BY <2>1, <3>1
  <2>3. ASSUME NEW i \in 1 .. n, i - 1 \in G PROVE i \in G
    <3>1. i \in 0 .. n /\ i # 0 /\ r[i - 1] = g[i - 1]
      BY <1>1, <2>3
    <3>2. r[i] = IF Goes(i, r[i - 1]) THEN r[i - 1] \union {i - 1 + Extent(b.rec[i - 1])}
                 ELSE r[i - 1]
      BY <2>1, <3>1
    <3>3. g[i] = IF Goes(i, g[i - 1]) THEN g[i - 1] \union {i - 1 + Extent(b.rec[i - 1])}
                 ELSE g[i - 1]
      BY <2>1, <3>1
    <3>4. r[i] = g[i]
      BY <3>1, <3>2, <3>3
    <3>. QED
      BY <3>1, <3>4
  <2>4. \A i \in 0 .. n : i \in G
    <3>. HIDE DEF G
    <3>. QED
      BY <1>1, <2>2, <2>3, Induction
  <2>. QED
    BY <2>1, <2>4
<1>10. Walks(b, g)
  <2>1. \A i \in 1 .. n : i \in 0 .. n /\ i # 0
    BY <1>1
  <2>. HIDE DEF Goes
  <2>2. \A i \in 1 .. n : g[i] = IF Goes(i, g[i - 1])
                              THEN g[i - 1] \union {i - 1 + Extent(b.rec[i - 1])} ELSE g[i - 1]
    BY <1>3, <1>5 DEF Iterates
  <2>3. g[0] = {0}
    BY <1>3 DEF Iterates
  <2>. QED
    BY <2>2, <2>3 DEF Walks, n, S, Goes
<1>. QED
  BY <1>8, <1>9, <1>10 DEF n

LEMMA WalkIsRecords ==
  ASSUME NEW b \in BlockSet, Shape(b)
  PROVE  Visited(b) = {k \in Positions : b.rec[k].type \in {"name", "reloc"}}
<1>. DEFINE ext(k) == Extent(b.rec[k])
            n == BlockRecs
<1>1. PICK r : Walks(b, r) /\ Reached(b) = r[n]
  BY ReachedDef
<1>2. /\ b.recs \in Nat /\ b.recs <= n /\ n \in Nat
      /\ \A k \in Positions : ext(k) \in Nat \ {0}
  BY BlockFacts, Places
<1>3. \A k \in Positions : IsLast(b, k) <=> k >= b.recs
  <2>1. ASSUME NEW k \in Positions PROVE IsLast(b, k) <=> k >= b.recs
    <3>1. k \in Nat /\ (b.rec[k].type = "empty" <=> k >= b.recs)
      BY Places DEF Shape
    <3>2. k < b.recs => ~StopsAt(b, k)
      BY <3>1, NotTooEarly
    <3>. QED
      BY <1>2, <3>1, <3>2 DEF IsLast
  <2>. QED
    BY <2>1
<1>. HIDE DEF n
<1>. DEFINE Comes(i) == {k \in Nat : k = 0 \/ \E j \in 0 .. i - 1 : Starts(b, j) /\ k = j + ext(j)}
            G == {i \in 0 .. n : r[i] = Comes(i)}
<1>4. 0 \in G
  <2>1. r[0] = {0} /\ 0 \in 0 .. n
    BY <1>1, <1>2 DEF Walks
  <2>. QED
    BY <2>1
<1>5. ASSUME NEW i \in 1 .. n, i - 1 \in G PROVE i \in G
  <2>. DEFINE p == i - 1
  <2>1. /\ p \in Nat /\ p \in Positions /\ p \in 0 .. n /\ i \in 0 .. n /\ i = p + 1
        /\ r[p] = Comes(p)
    BY <1>2, <1>5, Places DEF n
  <2>2. r[i] = IF p \in r[p] /\ ~IsLast(b, p) /\ b.rec[p].type # "text"
                 THEN r[p] \union {p + ext(p)} ELSE r[p]
    BY <1>1 DEF Walks, n
  <2>. HIDE DEF p, ext
  <2>3. ~IsLast(b, p) /\ b.rec[p].type # "text" <=> Starts(b, p)
    BY <1>2, <1>3, <2>1 DEF Starts
  <2>4. Starts(b, p) => p \in r[p]
    BY <2>1, Predecessor DEF ext
  <2>5. r[i] = IF Starts(b, p) THEN r[p] \union {p + ext(p)} ELSE r[p]
    BY <2>2, <2>3, <2>4
  <2>6. \A j : j \in 0 .. i - 1 <=> j \in 0 .. p - 1 \/ j = p
    BY <2>1
  <2>7. Starts(b, p) => p + ext(p) \in Nat
    BY <1>2, <2>1
  <2>8. r[i] = Comes(i)
    <3>1. \A k : k \in Comes(i) <=> k \in Comes(p) \/ (Starts(b, p) /\ k = p + ext(p))
      BY <2>6, <2>7
    <3>. HIDE DEF Comes
    <3>. QED
      BY <2>1, <2>5, <3>1
  <2>. QED
    BY <2>1, <2>8
<1>6. r[n] = Comes(n)
  <2>. HIDE DEF G
  <2>1. n \in G
    BY <1>2, <1>4, <1>5, Induction
  <2>. QED
    BY <2>1 DEF G
<1>7. ASSUME NEW k \in Positions
      PROVE  k \in Visited(b) <=> b.rec[k].type \in {"name", "reloc"}
  <2>1. k \in Nat /\ k < n /\ b.rec[k] \in RecSet
    BY Places, BlockFacts DEF n
  <2>2. b.rec[k].type \in {"name", "reloc"} <=> Starts(b, k)
    <3>1. b.rec[k].type = "empty" <=> k >= b.recs
      BY DEF Shape
    <3>2. b.rec[k].type \in {"empty", "text", "name", "reloc"}
      BY <2>1 DEF RecSet
    <3>. QED
      BY <1>2, <2>1, <3>1, <3>2 DEF Starts
  <2>3. Starts(b, k) => k \in Comes(n)
    <3>1. Starts(b, k) /\ k # 0 => \E j \in 0 .. k - 1 : Starts(b, j) /\ k = j + ext(j)
      BY Predecessor
    <3>2. \A j \in 0 .. k - 1 : j \in 0 .. n - 1
      BY <1>2, <2>1
    <3>. HIDE DEF ext
    <3>. QED
      BY <2>1, <3>1, <3>2
  <2>4. k \in Comes(n) /\ k < b.recs => Starts(b, k)
    <3>1. ASSUME k # 0, NEW j \in 0 .. n - 1, Starts(b, j), k = j + ext(j), k < b.recs
          PROVE  Starts(b, k)
      BY <3>1, Successor
    <3>2. ASSUME k = 0, k < b.recs PROVE Starts(b, k)
      <4>1. b.rec[k].type # "text"
        BY <3>2 DEF Shape, TextShape
      <4>. QED
        BY <3>2, <4>1 DEF Starts
    <3>. HIDE DEF ext
    <3>. QED
      BY <3>1, <3>2
  <2>5. k \in Visited(b) <=> k \in Comes(n) /\ k < b.recs
    BY <1>1, <1>2, <1>3, <1>6, <2>1 DEF Visited
  <2>6. Starts(b, k) => k < b.recs
    BY DEF Starts
  <2>. HIDE DEF Comes
  <2>. QED
    BY <2>2, <2>3, <2>4, <2>5, <2>6
<1>. QED
  BY <1>7 DEF Visited

\* What the table consists of, if its blocks are in shape.
Shaped(bs) == \A i \in DOMAIN bs : Shape(bs[i])

LEMMA CellsAreRecords ==
  ASSUME blocks \in Seq(BlockSet), Shaped(blocks)
  PROVE  /\ Cells = CellsOf(blocks)
         /\ NameCells = NamesOf(blocks)
         /\ RelocCells = {c \in CellsOf(blocks) : At(blocks, c).type = "reloc"}
         /\ \A c : Rec(c) = At(blocks, c)
<1>1. \A i \in DOMAIN blocks : blocks[i] \in BlockSet /\ Shape(blocks[i])
  BY DEF Shaped
<1>2. \A i \in DOMAIN blocks :
        Visited(blocks[i]) = {k \in Positions : blocks[i].rec[k].type \in {"name", "reloc"}}
  BY <1>1, WalkIsRecords
<1>3. Cells = CellsOf(blocks)
  BY <1>2 DEF Cells, CellsOf, At
<1>. QED
  BY <1>3 DEF NameCells, NamesOf, RelocCells, Rec, At

-----------------------------------------------------------------------------
(* Types.                                                                  *)

LEMMA SiteFacts ==
  /\ NoName \notin Names /\ NoObj \notin Objs
  /\ \A o \in Objs : Wants[o] \in Seq(Names) /\ Exports[o] \subseteq Names
  /\ \A s \in Sites : /\ s[1] \in Objs /\ s[2] \in DOMAIN Wants[s[1]]
                      /\ s = <<s[1], s[2]>> /\ Wanted(s) \in Names
  /\ \A o \in Objs : \A i \in DOMAIN Wants[o] : <<o, i>> \in Sites
<1>1. /\ NoName \notin Names /\ NoObj \notin Objs
      /\ \A o \in Objs : Wants[o] \in Seq(Names) /\ Exports[o] \subseteq Names
  BY UnresolvedAssumption
<1>2. \A s : s \in Sites <=> \E o \in Objs : \E i \in DOMAIN Wants[o] : s = <<o, i>>
  BY DEF Sites
<1>3. \A s \in Sites : /\ s[1] \in Objs /\ s[2] \in DOMAIN Wants[s[1]] /\ s = <<s[1], s[2]>>
  BY <1>2
<1>4. \A o \in Objs : \A i \in DOMAIN Wants[o] : Wants[o][i] \in Names
  BY <1>1
<1>. QED
  BY <1>1, <1>2, <1>3, <1>4 DEF Wanted

LEMMA RecFacts ==
  /\ Empty \in RecSet /\ Text \in RecSet
  /\ \A n \in Names : NameRec(n) \in RecSet
  /\ \A s \in Sites, i \in Nat : RelocRec(s, i) \in RecSet
  /\ \A r \in RecSet :
       /\ r.type \in {"empty", "text", "name", "reloc"}
       /\ r.type = "name" => /\ r.name \in Names /\ r.refs \in Nat
                             /\ \A k \in Nat : [r EXCEPT !.refs = k] \in RecSet
       /\ r.type = "reloc" => /\ r.site \in Sites /\ r.name \in Nat
                              /\ r.obj \in {"live", "freed", "null"}
                              /\ \A x \in {"live", "freed", "null"} :
                                   [r EXCEPT !.obj = x] \in RecSet
<1>1. Empty \in RecSet /\ Text \in RecSet
  BY DEF RecSet, Empty, Text
<1>2. \A n \in Names : NameRec(n) \in RecSet
  BY DEF RecSet, NameRec
<1>3. \A s \in Sites, i \in Nat : RelocRec(s, i) \in RecSet
  BY DEF RecSet, RelocRec
<1>4. ASSUME NEW r \in RecSet
      PROVE  /\ r.type \in {"empty", "text", "name", "reloc"}
             /\ r.type = "name" => r \in [type : {"name"}, name : Names, refs : Nat]
             /\ r.type = "reloc" => r \in [type : {"reloc"}, site : Sites, name : Nat,
                                           obj : {"live", "freed", "null"}]
  BY DEF RecSet
<1>5. \A r \in [type : {"name"}, name : Names, refs : Nat] : \A k \in Nat :
        [r EXCEPT !.refs = k] \in [type : {"name"}, name : Names, refs : Nat]
  OBVIOUS
<1>6. \A r \in [type : {"reloc"}, site : Sites, name : Nat, obj : {"live", "freed", "null"}] :
        \A x \in {"live", "freed", "null"} :
          [r EXCEPT !.obj = x] \in [type : {"reloc"}, site : Sites, name : Nat,
                                    obj : {"live", "freed", "null"}]
  OBVIOUS
<1>7. /\ [type : {"name"}, name : Names, refs : Nat] \subseteq RecSet
      /\ [type : {"reloc"}, site : Sites, name : Nat, obj : {"live", "freed", "null"}] \subseteq RecSet
  BY DEF RecSet
<1>. QED
  BY <1>1, <1>2, <1>3, <1>4, <1>5, <1>6, <1>7

LEMMA CellTypes ==
  ASSUME NEW bs \in Seq(BlockSet)
  PROVE  /\ \A i \in DOMAIN bs : bs[i] \in BlockSet
         /\ \A i \in DOMAIN bs : \A k \in Positions : bs[i].rec[k] \in RecSet
         /\ \A c \in (DOMAIN bs) \X Positions :
              At(bs, c) \in RecSet /\ c = <<c[1], c[2]>> /\ c[1] \in Nat /\ c[2] \in Nat
         /\ IsFiniteSet((DOMAIN bs) \X Positions)
<1>1. \A i \in DOMAIN bs : bs[i] \in BlockSet
  OBVIOUS
<1>2. \A i \in DOMAIN bs : \A k \in Positions : bs[i].rec[k] \in RecSet
  BY <1>1, BlockFacts
<1>3. IsFiniteSet((DOMAIN bs) \X Positions)
  <2>1. IsFiniteSet(1 .. Len(bs)) /\ IsFiniteSet(0 .. BlockRecs - 1)
    BY FS_Interval, Constants
  <2>2. DOMAIN bs = 1 .. Len(bs)
    OBVIOUS
  <2>. QED
    BY <2>1, <2>2, FS_Product DEF Positions
<1>4. \A c \in (DOMAIN bs) \X Positions : /\ c[1] \in DOMAIN bs /\ c[2] \in Positions
                                          /\ c = <<c[1], c[2]>> /\ c[1] \in Nat
  OBVIOUS
<1>. QED
  BY <1>1, <1>2, <1>3, <1>4, Places DEF At

\* The same for what a walk comes to, whether in shape or not.
LEMMA WalkTypes ==
  ASSUME blocks \in Seq(BlockSet)
  PROVE  /\ Cells \subseteq (DOMAIN blocks) \X Positions
         /\ \A c : Rec(c) = At(blocks, c)
         /\ \A c \in Cells : Rec(c) \in RecSet
         /\ \A S : S \subseteq Cells => IsFiniteSet(S) /\ Cardinality(S) \in Nat
         /\ NameCells \subseteq Cells /\ RelocCells \subseteq Cells
         /\ \A c \in NameCells : Rec(c).type = "name" /\ Rec(c).name \in Names /\ Rec(c).refs \in Nat
         /\ \A c \in RelocCells : Rec(c).type = "reloc" /\ Rec(c).site \in Sites /\ Rec(c).name \in Nat
<1>1. Cells \subseteq (DOMAIN blocks) \X Positions
  BY DEF Cells, Visited
<1>2. \A c : Rec(c) = At(blocks, c)
  BY DEF Rec, At
<1>3. \A c \in Cells : Rec(c) \in RecSet
  BY <1>1, <1>2, CellTypes
<1>4. \A S : S \subseteq Cells => IsFiniteSet(S) /\ Cardinality(S) \in Nat
  BY <1>1, CellTypes, FS_Subset, FS_CardinalityType
<1>5. NameCells \subseteq Cells /\ RelocCells \subseteq Cells
  BY DEF NameCells, RelocCells
<1>6. /\ \A c \in NameCells : Rec(c).type = "name" /\ Rec(c) \in RecSet
      /\ \A c \in RelocCells : Rec(c).type = "reloc" /\ Rec(c) \in RecSet
  BY <1>3 DEF NameCells, RelocCells
<1>. QED
  BY <1>1, <1>2, <1>3, <1>4, <1>5, <1>6, RecFacts

LEMMA OrdinalType ==
  ASSUME blocks \in Seq(BlockSet), NEW c
  PROVE  Ordinal(c) \in Nat /\ NewIndex \in Nat
<1>1. {d \in NameCells : Before(d, c)} \subseteq Cells /\ NameCells \subseteq Cells
  BY WalkTypes
<1>2. Cardinality({d \in NameCells : Before(d, c)}) \in Nat /\ Cardinality(NameCells) \in Nat
  BY <1>1, WalkTypes
<1>. QED
  BY <1>2 DEF Ordinal, Rank, NewIndex

\* The block that is written to.
LEMMA SpareBlock ==
  ASSUME blocks \in Seq(BlockSet)
  PROVE  /\ Blocks \in Seq(BlockSet)
         /\ Block \in DOMAIN Blocks
         /\ Blocks[Block].recs < BlockRecs
         /\ \/ Blocks = blocks /\ Block \in DOMAIN blocks
            \/ Blocks = Append(blocks, NewBlock) /\ Block = Len(blocks) + 1
         /\ \A i \in DOMAIN blocks : i \in DOMAIN Blocks /\ Blocks[i] = blocks[i]
<1>1. NewBlock \in BlockSet /\ NewBlock.recs = 0
  BY RecFacts, Constants DEF NewBlock, BlockSet
<1>2. CASE Spare = {}
  <2>1. Blocks = Append(blocks, NewBlock) /\ Block = Len(blocks) + 1
    BY <1>2 DEF Blocks, Block
  <2>. HIDE DEF BlockSet, NewBlock
  <2>2. /\ Append(blocks, NewBlock) \in Seq(BlockSet)
        /\ Len(blocks) + 1 \in DOMAIN Append(blocks, NewBlock)
        /\ Append(blocks, NewBlock)[Len(blocks) + 1] = NewBlock
        /\ \A i \in DOMAIN blocks : /\ i \in DOMAIN Append(blocks, NewBlock)
                                    /\ Append(blocks, NewBlock)[i] = blocks[i]
    BY <1>1
  <2>. QED
    BY <1>1, <2>1, <2>2, Constants
<1>3. CASE Spare # {}
  <2>1. Spare \subseteq Nat
    BY DEF Spare
  <2>2. \E i \in Spare : \A j \in Spare : i <= j
    BY <1>3, <2>1, Smallest
  <2>3. Blocks = blocks /\ Block = CHOOSE i \in Spare : \A j \in Spare : i <= j
    BY <1>3 DEF Blocks, Block
  <2>4. Block \in Spare
    BY <2>2, <2>3
  <2>. QED
    BY <2>3, <2>4 DEF Spare
<1>. QED
  BY <1>2, <1>3

LEMMA WithTypes ==
  ASSUME NEW b \in BlockSet
  PROVE  /\ \A s \in Sites, i \in Nat : b.recs < BlockRecs => WithReloc(b, s, i) \in BlockSet
         /\ \A n \in Names : b.recs + NameRecs(n) <= BlockRecs => WithName(b, n) \in BlockSet
<1>1. b.recs \in 0 .. BlockRecs /\ b.rec \in [Positions -> RecSet]
  BY BlockFacts
<1>2. ASSUME NEW s \in Sites, NEW i \in Nat, b.recs < BlockRecs
      PROVE  WithReloc(b, s, i) \in BlockSet
  <2>1. RelocRec(s, i) \in RecSet
    BY RecFacts
  <2>2. [b.rec EXCEPT ![b.recs] = RelocRec(s, i)] \in [Positions -> RecSet]
    BY <1>1, <2>1
  <2>3. b.recs + 1 \in 0 .. BlockRecs
    BY <1>1, <1>2, Constants
  <2>. QED
    BY <2>2, <2>3 DEF WithReloc, BlockSet
<1>3. ASSUME NEW n \in Names, b.recs + NameRecs(n) <= BlockRecs
      PROVE  WithName(b, n) \in BlockSet
  <2>1. NameRec(n) \in RecSet /\ Text \in RecSet /\ NameRecs(n) \in Nat \ {0}
    BY RecFacts, Sizes
  <2>2. [k \in Positions |->
               IF k = b.recs THEN NameRec(n)
               ELSE IF k \in b.recs + 1 .. b.recs + NameRecs(n) - 1 THEN Text
               ELSE b.rec[k]] \in [Positions -> RecSet]
    BY <1>1, <2>1
  <2>3. b.recs + NameRecs(n) \in 0 .. BlockRecs
    BY <1>1, <1>3, <2>1, Constants
  <2>. QED
    BY <2>2, <2>3 DEF WithName, BlockSet
<1>. QED
  BY <1>2, <1>3

LEMMA AbandonedFacts ==
  ASSUME NEW bs \in Seq(BlockSet), NEW o
  PROVE  /\ Abandoned(bs, o) \in Seq(BlockSet)
         /\ Len(Abandoned(bs, o)) = Len(bs)
         /\ DOMAIN Abandoned(bs, o) = DOMAIN bs
         /\ \A i \in DOMAIN bs : Abandoned(bs, o)[i].recs = bs[i].recs
         /\ \A c \in (DOMAIN bs) \X Positions :
              At(Abandoned(bs, o), c) =
                IF At(bs, c).type = "reloc" /\ At(bs, c).obj = "live" /\ At(bs, c).site[1] = o
                  THEN [At(bs, c) EXCEPT !.obj = "freed"] ELSE At(bs, c)
<1>. DEFINE A(r) == IF r.type = "reloc" /\ r.obj = "live" /\ r.site[1] = o
                      THEN [r EXCEPT !.obj = "freed"] ELSE r
            B(b) == [b EXCEPT !.rec = [k \in Positions |-> A(b.rec[k])]]
<1>1. \A r \in RecSet : A(r) \in RecSet
  BY RecFacts
<1>2. ASSUME NEW b \in BlockSet
      PROVE  B(b) \in BlockSet /\ B(b).recs = b.recs /\ \A k \in Positions : B(b).rec[k] = A(b.rec[k])
  <2>. HIDE DEF A
  <2>1. b \in [recs : 0 .. BlockRecs, rec : [Positions -> RecSet]]
    BY DEF BlockSet
  <2>2. [k \in Positions |-> A(b.rec[k])] \in [Positions -> RecSet]
    BY <1>1, <2>1
  <2>3. B(b) \in [recs : 0 .. BlockRecs, rec : [Positions -> RecSet]]
    BY <2>1, <2>2
  <2>4. B(b).recs = b.recs /\ B(b).rec = [k \in Positions |-> A(b.rec[k])]
    BY <2>1
  <2>. QED
    BY <2>3, <2>4 DEF BlockSet
<1>3. Abandoned(bs, o) = [i \in DOMAIN bs |-> B(bs[i])]
  BY DEF Abandoned
<1>4. DOMAIN bs = 1 .. Len(bs) /\ Len(bs) \in Nat /\ \A i \in DOMAIN bs : bs[i] \in BlockSet
  OBVIOUS
<1>. HIDE DEF B
<1>5. /\ Abandoned(bs, o) \in Seq(BlockSet)
      /\ Len(Abandoned(bs, o)) = Len(bs)
      /\ DOMAIN Abandoned(bs, o) = DOMAIN bs
  <2>1. [i \in 1 .. Len(bs) |-> B(bs[i])] \in [1 .. Len(bs) -> BlockSet]
    BY <1>2, <1>4
  <2>. HIDE DEF BlockSet
  <2>. QED
    BY <1>3, <1>4, <2>1
<1>6. \A i \in DOMAIN bs : /\ Abandoned(bs, o)[i].recs = bs[i].recs
                           /\ \A k \in Positions : Abandoned(bs, o)[i].rec[k] = A(bs[i].rec[k])
  BY <1>2, <1>3, <1>4
<1>. QED
  BY <1>5, <1>6 DEF At

LEMMA CleanedType ==
  ASSUME NEW b \in BlockSet, NEW k \in Positions, NEW n \in Nat \ {0}, b.recs > 0, InBlock(b, k, n)
  PROVE  Cleaned(b, k, n) \in BlockSet
<1>. DEFINE m == Moved(b, k, n)
<1>1. /\ b.recs \in 0 .. BlockRecs /\ b.rec \in [Positions -> RecSet] /\ k \in Nat
      /\ BlockRecs \in Nat
  BY BlockFacts, Places
<1>2. k \div RecBytes \in Nat
  BY <1>1, Constants, Divide
<1>3. m \in Nat /\ k + n + m <= BlockRecs
  BY <1>1, <1>2 DEF InBlock, Moved
<1>. HIDE DEF m
<1>4. \A j \in Positions : j \in k .. k + m - 1 => j + n \in Positions
  BY <1>1, <1>3, Places
<1>5. [j \in Positions |->
               IF j \in b.recs - 1 .. b.recs + n - 2 THEN Empty
               ELSE IF j \in k .. k + m - 1 THEN b.rec[j + n]
               ELSE b.rec[j]] \in [Positions -> RecSet]
  BY <1>1, <1>4, RecFacts
<1>6. b.recs - 1 \in 0 .. BlockRecs
  BY <1>1
<1>. QED
  BY <1>5, <1>6 DEF Cleaned, BlockSet, m

\* Blocks are all the types there are in a table.
LEMMA TableType ==
  ASSUME blocks \in Seq(BlockSet)
  PROVE  \A i \in DOMAIN blocks :
           /\ blocks[i].recs \in 0 .. BlockRecs
           /\ \A k \in Positions :
                blocks[i].rec[k].type \in {"empty", "text", "name", "reloc"}
BY CellTypes, BlockFacts, RecFacts

-----------------------------------------------------------------------------
(* The types are invariant.                                                *)

LEMMA InitTypes == Init => TypeInv
<1>. SUFFICES ASSUME Init PROVE TypeInv
  OBVIOUS
<1>1. blocks \in Seq(BlockSet) /\ DOMAIN blocks = {}
  BY DEF Init
<1>2. TypeOK
  BY <1>1 DEF Init, TypeOK
<1>. QED
  BY <1>1, <1>2 DEF Init, TypeInv

\* What is relocated next is a site of the object that is being loaded.
LEMMA MetSite ==
  ASSUME TypeInv, MoreRelocs
  PROVE  /\ loading \in Objs /\ next \in DOMAIN Wants[loading]
         /\ Site \in Sites /\ Site[1] = loading /\ Site[2] = next
         /\ Symbol \in Names /\ Symbol = Wanted(Site)
<1>1. pc = "load" /\ loading \in Objs /\ next \in Nat /\ next > 0
  BY SiteFacts DEF TypeInv, TypeOK, MoreRelocs
<1>2. next \in DOMAIN Wants[loading]
  BY <1>1, SiteFacts DEF MoreRelocs
<1>. QED
  BY <1>1, <1>2, SiteFacts DEF Site, Symbol, Wanted

\* Stepping: what stays of the types when only the table changes.
LEMMA TypeFrame ==
  ASSUME TypeInv, blocks' \in Seq(BlockSet),
         loaded' \subseteq Objs, loading' \in Objs \union {NoObj}, loading' \notin loaded',
         next' \in Nat \ {0}, pc' \in {"idle", "load", "resolve", "compact"},
         pc' = "load" <=> loading' # NoObj,
         at' \in Nat \X Nat, pc' = "compact" => at'[1] <= Len(blocks'),
         value' \in [Sites -> Names \union {NoName}], failed' \subseteq Sites,
         count' \in [Objs -> Nat], misnamed' \subseteq Sites,
         sound' \in BOOLEAN, ub' \in BOOLEAN
  PROVE  TypeInv'
<1>1. \A i \in DOMAIN blocks' :
           /\ blocks'[i].recs \in 0 .. BlockRecs
           /\ \A k \in Positions :
                blocks'[i].rec[k].type \in {"empty", "text", "name", "reloc"}
  BY CellTypes, BlockFacts, RecFacts
<1>2. TypeOK'
  BY <1>1 DEF TypeOK
<1>3. next' > 0
  OBVIOUS
<1>. QED
  BY <1>2, <1>3 DEF TypeInv

LEMMA AddedTypes ==
  ASSUME TypeInv, MoreRelocs, Added, blocks' \in Seq(BlockSet), misnamed' \subseteq Sites,
         sound' \in BOOLEAN
  PROVE  TypeInv'
<1>1. pc = "load" /\ loading \in Objs
  BY MetSite DEF MoreRelocs
<1>2. [count EXCEPT ![loading] = @ + 1] \in [Objs -> Nat]
  BY <1>1 DEF TypeInv, TypeOK
<1>3. next + 1 \in Nat \ {0}
  BY DEF TypeInv, TypeOK
<1>. QED
  BY <1>1, <1>2, <1>3, TypeFrame DEF Added, TypeInv, TypeOK

LEMMA DisplacedType ==
  ASSUME TypeInv, MoreRelocs
  PROVE  Displaced \subseteq Sites
<1>1. \A c \in RelocCells : Rec(c).site \in Sites
  BY WalkTypes DEF TypeInv
<1>. QED
  BY <1>1, MetSite DEF Displaced

\* The table with a new name.
LEMMA NameAdded ==
  ASSUME TypeInv, MoreRelocs, FitsIn(Blocks[Block])
  PROVE  /\ [Blocks EXCEPT ![Block] = WithName(@, Symbol)] \in Seq(BlockSet)
         /\ NameFits(Blocks[Block]) =>
              WithReloc(WithName(Blocks[Block], Symbol), Site, NewIndex) \in BlockSet
<1>. DEFINE b == Blocks[Block]
            w == WithName(b, Symbol)
<1>1. Blocks \in Seq(BlockSet) /\ Block \in DOMAIN Blocks /\ b \in BlockSet
  BY SpareBlock, CellTypes DEF TypeInv
<1>2. Symbol \in Names /\ Site \in Sites /\ NewIndex \in Nat
  BY MetSite, OrdinalType DEF TypeInv
<1>3. b.recs \in Nat /\ NameRecs(Symbol) \in Nat \ {0} /\ BlockRecs \in Nat
  BY <1>1, <1>2, BlockFacts, Sizes, Places
<1>4. w \in BlockSet /\ w.recs = b.recs + NameRecs(Symbol)
  <2>1. b.recs + NameRecs(Symbol) <= BlockRecs
    BY <1>3 DEF FitsIn
  <2>. HIDE DEF b
  <2>2. w \in BlockSet
    BY <1>1, <1>2, <2>1, WithTypes
  <2>. QED
    BY <2>2 DEF WithName
<1>5. NameFits(b) => WithReloc(w, Site, NewIndex) \in BlockSet
  <2>1. NameFits(b) => w.recs < BlockRecs
    BY <1>4 DEF NameFits
  <2>. HIDE DEF b, w
  <2>. QED
    BY <1>2, <1>4, <2>1, WithTypes
<1>6. [Blocks EXCEPT ![Block] = w] \in Seq(BlockSet)
  <2>. HIDE DEF w, BlockSet
  <2>. QED
    BY <1>1, <1>4
<1>. QED
  BY <1>5, <1>6

LEMMA AddSharedTypes == TypeInv /\ AddShared => TypeInv'
<1>. SUFFICES ASSUME TypeInv, AddShared PROVE TypeInv'
  OBVIOUS
<1>0. MoreRelocs /\ Added /\ misnamed' = misnamed \union {Site} /\ sound' = sound
  BY DEF AddShared, Unknown
<1>1. PICK c \in Found :
        blocks' = [[Blocks EXCEPT ![c[1]].rec[c[2]].refs = @ + 1]
                     EXCEPT ![Block] = WithReloc(@, Site, Ordinal(c))]
  BY DEF AddShared
<1>2. /\ Blocks \in Seq(BlockSet) /\ Block \in DOMAIN Blocks /\ Blocks[Block].recs < BlockRecs
      /\ \A i \in DOMAIN blocks : i \in DOMAIN Blocks /\ Blocks[i] = blocks[i]
  BY SpareBlock DEF TypeInv
<1>3. c \in NameCells /\ c[1] \in DOMAIN blocks /\ c[2] \in Positions
  BY <1>1, WalkTypes DEF Found, TypeInv
<1>. DEFINE r == Blocks[c[1]].rec[c[2]]
            r2 == [r EXCEPT !.refs = @ + 1]
            b2 == [Blocks[c[1]] EXCEPT !.rec[c[2]] = r2]
            shared == [Blocks EXCEPT ![c[1]].rec[c[2]].refs = @ + 1]
<1>4. r2 \in RecSet
  <2>1. r = Rec(c)
    BY <1>2, <1>3 DEF Rec
  <2>2. r \in RecSet /\ r.type = "name" /\ r.refs \in Nat
    BY <1>3, <2>1, WalkTypes DEF TypeInv
  <2>3. r.refs + 1 \in Nat
    BY <2>2
  <2>. HIDE DEF r
  <2>. QED
    BY <2>2, <2>3, RecFacts
<1>5. b2 \in BlockSet /\ b2.recs = Blocks[c[1]].recs
  <2>1. Blocks[c[1]] \in [recs : 0 .. BlockRecs, rec : [Positions -> RecSet]]
    <3>1. Blocks[c[1]] \in BlockSet
      BY <1>2, <1>3
    <3>. QED
      BY <3>1 DEF BlockSet
  <2>. HIDE DEF r2
  <2>2. b2 \in [recs : 0 .. BlockRecs, rec : [Positions -> RecSet]]
    BY <1>3, <1>4, <2>1
  <2>3. b2.recs = Blocks[c[1]].recs
    BY <2>1
  <2>. QED
    BY <2>2, <2>3 DEF BlockSet
<1>6. shared = [Blocks EXCEPT ![c[1]] = b2]
  BY <1>2, <1>3
<1>. HIDE DEF b2, shared
<1>7. /\ shared \in Seq(BlockSet) /\ Block \in DOMAIN shared
      /\ shared[Block] \in BlockSet /\ shared[Block].recs < BlockRecs
  <2>. HIDE DEF BlockSet
  <2>. QED
    BY <1>2, <1>3, <1>5, <1>6
<1>8. WithReloc(shared[Block], Site, Ordinal(c)) \in BlockSet
  BY <1>0, <1>7, MetSite, OrdinalType, WithTypes DEF TypeInv
<1>9. blocks' = [shared EXCEPT ![Block] = WithReloc(shared[Block], Site, Ordinal(c))]
  BY <1>1 DEF shared
<1>10. blocks' \in Seq(BlockSet)
  <2>. HIDE DEF BlockSet
  <2>. QED
    BY <1>7, <1>8, <1>9
<1>11. misnamed' \subseteq Sites /\ sound' \in BOOLEAN
  BY <1>0, MetSite DEF TypeInv, TypeOK
<1>. QED
  BY <1>0, <1>10, <1>11, AddedTypes

LEMMA AddNameTypes == TypeInv /\ (AddName \/ AddFull \/ AddFullFails) => TypeInv'
<1>. SUFFICES ASSUME TypeInv, AddName \/ AddFull \/ AddFullFails PROVE TypeInv'
  OBVIOUS
<1>1. /\ MoreRelocs /\ Symbol \in Names /\ Site \in Sites
      /\ misnamed' = misnamed \union Displaced
      /\ sound' = (sound /\ StepsRight)
  BY MetSite DEF AddName, AddFull, AddFullFails, Unknown
<1>2. misnamed' \subseteq Sites /\ sound' \in BOOLEAN
  BY <1>1, DisplacedType DEF TypeInv, TypeOK
<1>3. /\ Blocks \in Seq(BlockSet) /\ Block \in DOMAIN Blocks /\ Blocks[Block] \in BlockSet
  BY SpareBlock, CellTypes DEF TypeInv
<1>4. CASE AddName
  <2>1. FitsIn(Blocks[Block])
    <3>1. Blocks[Block].recs \in Nat /\ NameRecs(Symbol) \in Nat /\ BlockRecs \in Nat
      BY <1>1, <1>3, BlockFacts, Sizes, Places
    <3>. QED
      BY <1>4, <3>1 DEF AddName, NameFits, FitsIn
  <2>. DEFINE w == WithReloc(WithName(Blocks[Block], Symbol), Site, NewIndex)
  <2>2. w \in BlockSet
    BY <1>1, <1>4, <2>1, NameAdded DEF AddName
  <2>3. blocks' = [Blocks EXCEPT ![Block] = w]
    BY <1>4 DEF AddName
  <2>4. blocks' \in Seq(BlockSet)
    <3>. HIDE DEF w, BlockSet
    <3>. QED
      BY <1>3, <2>2, <2>3
  <2>. QED
    BY <1>1, <1>2, <1>4, <2>4, AddedTypes DEF AddName
<1>. DEFINE named == [Blocks EXCEPT ![Block] = WithName(@, Symbol)]
<1>5. CASE AddFull
  <2>1. named \in Seq(BlockSet)
    BY <1>1, <1>5, NameAdded DEF AddFull
  <2>. DEFINE w == WithReloc(NewBlock, Site, NewIndex)
  <2>2. w \in BlockSet
    <3>1. NewBlock \in BlockSet /\ NewBlock.recs < BlockRecs
      BY RecFacts, Places DEF NewBlock, BlockSet
    <3>. QED
      BY <1>1, <3>1, OrdinalType, WithTypes DEF TypeInv
  <2>3. blocks' = Append(named, w)
    BY <1>5 DEF AddFull
  <2>4. blocks' \in Seq(BlockSet)
    <3>. HIDE DEF w, named, BlockSet
    <3>. QED
      BY <2>1, <2>2, <2>3
  <2>. QED
    BY <1>1, <1>2, <1>5, <2>4, AddedTypes DEF AddFull
<1>6. CASE AddFullFails
  <2>1. named \in Seq(BlockSet)
    BY <1>1, <1>6, NameAdded DEF AddFullFails
  <2>2. blocks' = Abandoned(named, loading)
    BY <1>6 DEF AddFullFails
  <2>3. blocks' \in Seq(BlockSet)
    <3>. HIDE DEF named
    <3>. QED
      BY <2>1, <2>2, AbandonedFacts
  <2>4. NoObj \notin loaded
    BY SiteFacts DEF TypeInv, TypeOK
  <2>5. /\ loading' = NoObj /\ next' = 1 /\ pc' = "idle"
        /\ UNCHANGED <<loaded, at, value, failed, count, ub>>
    BY <1>6 DEF AddFullFails
  <2>6. /\ loaded' \subseteq Objs /\ at' \in Nat \X Nat
        /\ value' \in [Sites -> Names \union {NoName}] /\ failed' \subseteq Sites
        /\ count' \in [Objs -> Nat] /\ ub' \in BOOLEAN
    BY <2>5 DEF TypeInv, TypeOK
  <2>7. /\ loading' \in Objs \union {NoObj} /\ loading' \notin loaded' /\ next' \in Nat \ {0}
        /\ pc' \in {"idle", "load", "resolve", "compact"} /\ pc' # "compact"
        /\ pc' = "load" <=> loading' # NoObj
    BY <2>4, <2>5
  <2>. QED
    BY <1>2, <2>3, <2>6, <2>7, TypeFrame
<1>. QED
  BY <1>4, <1>5, <1>6

\* What a relocation of the hits does with the values and counts.
LEMMA ResolveTypes == TypeInv /\ Resolve => TypeInv'
<1>. SUFFICES ASSUME TypeInv, Resolve PROVE TypeInv'
  OBVIOUS
<1>1. /\ blocks \in Seq(BlockSet) /\ pc = "resolve" /\ loading = NoObj
      /\ value \in [Sites -> Names \union {NoName}] /\ failed \subseteq Sites
      /\ count \in [Objs -> Nat] /\ misnamed \subseteq Sites
  BY DEF TypeInv, TypeOK, Resolve
<1>2. Hits \subseteq RelocCells
  BY DEF Hits
<1>3. SitesOf(Hits) \subseteq Sites
  BY <1>1, <1>2, WalkTypes DEF SitesOf
<1>4. PICK bad \in SUBSET SitesOf(Hits) :
       /\ value' = [s \in Sites |->
            IF s \in SitesOf(Hits) \ bad
              THEN Rec(CHOOSE n \in NameCells :
                         \E c \in HitsOn(n) \intersect Hits : Rec(c).site = s).name
              ELSE value[s]]
       /\ failed' = failed \union bad
       /\ count' = [o \in Objs |->
            LET good == {c \in Hits : Rec(c).site[1] = o /\ Rec(c).site \notin bad}
            IN  IF Cardinality(good) > count[o] THEN 0
                ELSE count[o] - Cardinality(good)]
  BY DEF Resolve
<1>5. value' \in [Sites -> Names \union {NoName}]
  <2>1. ASSUME NEW s \in Sites, s \in SitesOf(Hits)
        PROVE  Rec(CHOOSE n \in NameCells :
                     \E c \in HitsOn(n) \intersect Hits : Rec(c).site = s).name \in Names
    <3>1. PICK c \in Hits : Rec(c).site = s
      BY <2>1 DEF SitesOf
    <3>2. PICK n \in NameCells : Rec(c).name = Rank(NameCells, n)
      BY <3>1 DEF Hits
    <3>3. c \in HitsOn(n)
      BY <1>2, <3>1, <3>2 DEF HitsOn, Ordinal
    <3>4. (CHOOSE m \in NameCells : \E d \in HitsOn(m) \intersect Hits : Rec(d).site = s) \in NameCells
      BY <3>1, <3>2, <3>3
    <3>. QED
      BY <1>1, <3>4, WalkTypes
  <2>2. \A s \in Sites : value[s] \in Names \union {NoName}
    BY <1>1
  <2>. QED
    BY <1>4, <2>1, <2>2
<1>6. count' \in [Objs -> Nat]
  <2>1. ASSUME NEW o \in Objs
        PROVE  LET good == {c \in Hits : Rec(c).site[1] = o /\ Rec(c).site \notin bad}
               IN  (IF Cardinality(good) > count[o] THEN 0 ELSE count[o] - Cardinality(good)) \in Nat
    <3>. DEFINE good == {c \in Hits : Rec(c).site[1] = o /\ Rec(c).site \notin bad}
    <3>1. good \subseteq Cells
      BY <1>1, <1>2, WalkTypes
    <3>2. Cardinality(good) \in Nat /\ count[o] \in Nat
      BY <1>1, <3>1, WalkTypes
    <3>. QED
      BY <3>2
  <2>. QED
    BY <1>4, <2>1
<1>7. misnamed' \subseteq Sites
  <2>1. \A c \in Renumbered : Rec(c).site \in Sites
    BY <1>1, WalkTypes DEF Renumbered
  <2>. QED
    BY <1>1, <2>1 DEF Resolve, SitesOf
<1>8. blocks' \in Seq(BlockSet) /\ Len(blocks') = Len(blocks) /\ Len(blocks) \in Nat
  <2>. DEFINE R(i, k) == IF <<i, k>> \in Hits THEN [blocks[i].rec[k] EXCEPT !.obj = "null"]
          ELSE IF <<i, k>> \in NameCells THEN [blocks[i].rec[k] EXCEPT !.refs = RefsAfter(<<i, k>>)]
          ELSE blocks[i].rec[k]
              B(i) == [blocks[i] EXCEPT !.rec = [k \in Positions |-> R(i, k)]]
  <2>1. ASSUME NEW i \in DOMAIN blocks, NEW k \in Positions PROVE R(i, k) \in RecSet
    <3>1. Rec(<<i, k>>) = blocks[i].rec[k] /\ blocks[i].rec[k] \in RecSet
      BY <1>1, CellTypes DEF Rec
    <3>2. <<i, k>> \in Hits => blocks[i].rec[k].type = "reloc"
      BY <1>1, <1>2, <3>1, WalkTypes
    <3>3. <<i, k>> \in NameCells =>
            blocks[i].rec[k].type = "name" /\ RefsAfter(<<i, k>>) \in Nat
      <4>1. SUFFICES ASSUME <<i, k>> \in NameCells
                     PROVE  blocks[i].rec[k].type = "name" /\ RefsAfter(<<i, k>>) \in Nat
        OBVIOUS
      <4>2. HitsOn(<<i, k>>) \subseteq Cells
        BY <1>1, WalkTypes DEF HitsOn
      <4>3. Cardinality(HitsOn(<<i, k>>)) \in Nat
        BY <1>1, <4>2, WalkTypes
      <4>4. Rec(<<i, k>>).type = "name" /\ Rec(<<i, k>>).refs \in Nat
        BY <1>1, <4>1, WalkTypes
      <4>. QED
        BY <3>1, <4>3, <4>4 DEF RefsAfter
    <3>. QED
      BY <3>1, <3>2, <3>3, RecFacts
  <2>2. ASSUME NEW i \in DOMAIN blocks PROVE B(i) \in BlockSet
    <3>1. blocks[i] \in BlockSet
      BY <1>1
    <3>2. blocks[i] \in [recs : 0 .. BlockRecs, rec : [Positions -> RecSet]]
      BY <3>1 DEF BlockSet
    <3>. HIDE DEF R
    <3>3. [k \in Positions |-> R(i, k)] \in [Positions -> RecSet]
      BY <2>1
    <3>4. B(i) \in [recs : 0 .. BlockRecs, rec : [Positions -> RecSet]]
      BY <3>2, <3>3
    <3>. QED
      BY <3>4 DEF BlockSet
  <2>3. blocks' = [i \in DOMAIN blocks |-> B(i)]
    BY DEF Resolve
  <2>. HIDE DEF B
  <2>4. DOMAIN blocks = 1 .. Len(blocks) /\ Len(blocks) \in Nat
    BY <1>1
  <2>5. [i \in 1 .. Len(blocks) |-> B(i)] \in [1 .. Len(blocks) -> BlockSet]
    BY <2>2, <2>4
  <2>. HIDE DEF BlockSet
  <2>. QED
    BY <2>3, <2>4, <2>5
<1>10. at' = <<Len(blocks), 0>> /\ pc' = "compact" /\ UNCHANGED <<loaded, loading, next, sound, ub>>
  BY DEF Resolve, loadVars
<1>11. /\ at' \in Nat \X Nat /\ at'[1] <= Len(blocks')
  BY <1>8, <1>10
<1>12. /\ loaded' \subseteq Objs /\ loading' \in Objs \union {NoObj} /\ loading' \notin loaded'
       /\ next' \in Nat \ {0} /\ sound' \in BOOLEAN /\ ub' \in BOOLEAN
  BY <1>10 DEF TypeInv, TypeOK
<1>13. failed' \subseteq Sites
  BY <1>1, <1>3, <1>4
<1>. QED
  BY <1>1, <1>5, <1>6, <1>7, <1>8, <1>10, <1>11, <1>12, <1>13, TypeFrame

LEMMA CompactTypes ==
  TypeInv /\ (CompactClean \/ CompactSkip \/ CompactNext \/ CompactDone) => TypeInv'
<1>. SUFFICES ASSUME TypeInv, CompactClean \/ CompactSkip \/ CompactNext \/ CompactDone
              PROVE  TypeInv'
  OBVIOUS
<1>1. /\ pc = "compact" /\ blocks \in Seq(BlockSet) /\ at \in Nat \X Nat /\ at[1] <= Len(blocks)
      /\ UNCHANGED <<loadVars, siteVars, ub>> /\ sound \in BOOLEAN /\ loading = NoObj
  BY DEF TypeInv, TypeOK, CompactClean, CompactSkip, CompactNext, CompactDone, AtRecord, Compacting
<1>2. UNCHANGED <<loaded, loading, next, value, failed, count, misnamed, ub>>
  BY <1>1 DEF loadVars, siteVars
<1>3. /\ loaded' \subseteq Objs /\ loading' \in Objs \union {NoObj} /\ loading' \notin loaded'
      /\ next' \in Nat \ {0} /\ ub' \in BOOLEAN /\ misnamed' \subseteq Sites
      /\ value' \in [Sites -> Names \union {NoName}] /\ failed' \subseteq Sites
      /\ count' \in [Objs -> Nat]
  BY <1>2 DEF TypeInv, TypeOK
<1>4. AtRecord \/ CompactNext =>
        /\ at[1] \in DOMAIN blocks /\ Here \in BlockSet
        /\ at[1] \in Nat \ {0} /\ at[2] \in Nat
  BY <1>1 DEF AtRecord, CompactNext, Compacting, Here
<1>5. CASE CompactClean
  <2>1. AtRecord /\ Unused(HereRec) /\ InBlock(Here, at[2], SizeOf(HereRec))
        /\ at' = at /\ pc' = pc /\ sound' = (sound /\ SizeOf(HereRec) = 1)
        /\ blocks' = [blocks EXCEPT ![at[1]] = Cleaned(@, at[2], SizeOf(HereRec))]
    BY <1>5 DEF CompactClean
  <2>2. at[2] \in Positions /\ Here.recs > 0
    <3>1. at[2] \in Positions /\ ~(at[2] \div PtrBytes >= Here.recs)
      BY <2>1 DEF AtRecord, IsLast, StopsAt
    <3>2. at[2] \div PtrBytes \in Nat /\ Here.recs \in Nat
      BY <1>4, <2>1, Divide, Constants, BlockFacts
    <3>. QED
      BY <3>1, <3>2
  <2>3. SizeOf(HereRec) \in Nat \ {0}
    <3>1. HereRec \in RecSet
      BY <1>4, <2>1, <2>2, BlockFacts DEF HereRec
    <3>. QED
      BY <3>1, RecFacts, Sizes DEF SizeOf
  <2>4. Cleaned(Here, at[2], SizeOf(HereRec)) \in BlockSet
    BY <1>4, <2>1, <2>2, <2>3, CleanedType
  <2>5. blocks' \in Seq(BlockSet) /\ Len(blocks') = Len(blocks)
    <3>. DEFINE w == Cleaned(Here, at[2], SizeOf(HereRec))
    <3>1. blocks' = [blocks EXCEPT ![at[1]] = w]
      BY <2>1 DEF Here
    <3>. HIDE DEF w, BlockSet
    <3>. QED
      BY <1>1, <1>4, <2>1, <2>4, <3>1 DEF w
  <2>6. sound' \in BOOLEAN
    BY <2>1
  <2>. QED
    BY <1>1, <1>2, <1>3, <2>1, <2>5, <2>6, TypeFrame
<1>6. CASE CompactSkip
  <2>1. AtRecord /\ at[2] \in Positions
        /\ UNCHANGED <<pc, blocks, sound>>
        /\ at' = [at EXCEPT ![2] = @ + Extent(HereRec)]
    BY <1>6 DEF CompactSkip, AtRecord
  <2>2. Extent(HereRec) \in Nat
    BY <1>4, <2>1, BlockFacts DEF HereRec
  <2>3. at' \in Nat \X Nat /\ at'[1] = at[1]
    BY <1>1, <2>1, <2>2
  <2>. QED
    BY <1>1, <1>2, <1>3, <2>1, <2>3, TypeFrame
<1>7. CASE CompactNext
  <2>1. /\ UNCHANGED <<pc, sound>> /\ at' = <<at[1] - 1, 0>>
        /\ blocks' = IF Here.recs > 0 THEN blocks
                      ELSE [i \in 1 .. Len(blocks) - 1 |->
                              IF i < at[1] THEN blocks[i] ELSE blocks[i + 1]]
    BY <1>7 DEF CompactNext
  <2>2. at' \in Nat \X Nat /\ at'[1] = at[1] - 1
    BY <1>4, <1>7, <2>1
  <2>3. blocks' \in Seq(BlockSet) /\ Len(blocks') >= Len(blocks) - 1
    <3>1. Len(blocks) \in Nat /\ Len(blocks) - 1 \in Nat
      BY <1>1, <1>4, <1>7
    <3>. DEFINE short == [i \in 1 .. Len(blocks) - 1 |->
                              IF i < at[1] THEN blocks[i] ELSE blocks[i + 1]]
    <3>2. short \in Seq(BlockSet) /\ Len(short) = Len(blocks) - 1
      <4>. HIDE DEF BlockSet
      <4>1. \A i \in 1 .. Len(blocks) - 1 : blocks[i] \in BlockSet /\ blocks[i + 1] \in BlockSet
        BY <1>1, <3>1
      <4>2. short \in [1 .. Len(blocks) - 1 -> BlockSet]
        BY <4>1
      <4>. QED
        BY <3>1, <4>2
    <3>. HIDE DEF short
    <3>. QED
      BY <1>1, <2>1, <3>1, <3>2 DEF short
  <2>4. at'[1] <= Len(blocks')
    <3>1. at[1] \in Nat /\ Len(blocks) \in Nat /\ Len(blocks') \in Nat
      BY <1>1, <1>4, <1>7, <2>3
    <3>. QED
      BY <1>1, <2>2, <2>3, <3>1
  <2>. QED
    BY <1>1, <1>2, <1>3, <2>1, <2>2, <2>3, <2>4, TypeFrame
<1>8. CASE CompactDone
  <2>1. pc' = "idle" /\ UNCHANGED <<blocks, at, sound>>
    BY <1>8 DEF CompactDone
  <2>. QED
    BY <1>1, <1>2, <1>3, <2>1, TypeFrame
<1>. QED
  BY <1>5, <1>6, <1>7, <1>8

LEMMA LoadTypes ==
  TypeInv /\ ((\E o \in Objs : Load(o) \/ Close(o)) \/ LoadFails \/ Relocate \/ LoadDone) => TypeInv'
<1>1. ASSUME TypeInv, NEW o \in Objs, Load(o) PROVE TypeInv'
  <2>1. /\ pc = "idle" /\ o \notin loaded
        /\ loading' = o /\ next' = 1 /\ pc' = "load"
        /\ value' = [s \in Sites |-> IF s[1] = o THEN NoName ELSE value[s]]
        /\ failed' = {s \in failed : s[1] # o}
        /\ count' = [count EXCEPT ![o] = 0]
        /\ misnamed' = {s \in misnamed : s[1] # o}
        /\ UNCHANGED <<loaded, blocks, at, sound, ub>>
    BY <1>1 DEF Load
  <2>2. /\ value' \in [Sites -> Names \union {NoName}]
        /\ count' \in [Objs -> Nat]
    BY <1>1, <2>1 DEF TypeInv, TypeOK
  <2>3. /\ loaded' \subseteq Objs /\ loading' \in Objs /\ loading' # NoObj /\ loading' \notin loaded'
        /\ failed' \subseteq Sites /\ misnamed' \subseteq Sites
        /\ at' \in Nat \X Nat /\ sound' \in BOOLEAN /\ ub' \in BOOLEAN
        /\ blocks' \in Seq(BlockSet)
    BY <1>1, <2>1, SiteFacts DEF TypeInv, TypeOK
  <2>. QED
    BY <1>1, <2>1, <2>2, <2>3, TypeFrame
<1>2. ASSUME TypeInv, NEW o \in Objs, Close(o) PROVE TypeInv'
  <2>1. /\ pc = "idle" /\ loaded' = loaded \ {o} /\ blocks' = Abandoned(blocks, o)
        /\ UNCHANGED <<loading, next, pc, at, value, failed, count, misnamed, sound, ub>>
    BY <1>2 DEF Close, siteVars
  <2>2. blocks' \in Seq(BlockSet)
    BY <1>2, <2>1, AbandonedFacts DEF TypeInv
  <2>. QED
    BY <1>2, <2>1, <2>2, TypeFrame DEF TypeInv, TypeOK
<1>3. ASSUME TypeInv, LoadFails PROVE TypeInv'
  <2>1. /\ blocks' = Abandoned(blocks, loading)
        /\ loading' = NoObj /\ next' = 1 /\ pc' = "idle"
        /\ UNCHANGED <<loaded, at, value, failed, count, misnamed, sound, ub>>
    BY <1>3 DEF LoadFails, siteVars
  <2>2. blocks' \in Seq(BlockSet)
    BY <1>3, <2>1, AbandonedFacts DEF TypeInv
  <2>3. NoObj \notin loaded
    BY <1>3, SiteFacts DEF TypeInv, TypeOK
  <2>4. /\ loading' \in Objs \union {NoObj} /\ loading' \notin loaded' /\ next' \in Nat \ {0}
        /\ pc' = "load" <=> loading' # NoObj
        /\ pc' \in {"idle", "load", "resolve", "compact"} /\ pc' # "compact"
    BY <2>1, <2>3
  <2>. QED
    BY <1>3, <2>1, <2>2, <2>4, TypeFrame DEF TypeInv, TypeOK
<1>4. ASSUME TypeInv, Relocate PROVE TypeInv'
  <2>1. /\ MoreRelocs /\ value' = [value EXCEPT ![Site] = Symbol] /\ next' = next + 1
        /\ UNCHANGED <<loaded, loading, pc, blocks, at, failed, count, misnamed, sound, ub>>
    BY <1>4 DEF Relocate
  <2>2. value' \in [Sites -> Names \union {NoName}]
    <3>1. Site \in Sites /\ Symbol \in Names
      BY <1>4, <2>1, MetSite
    <3>2. value \in [Sites -> Names \union {NoName}]
      BY <1>4 DEF TypeInv, TypeOK
    <3>. QED
      BY <2>1, <3>1, <3>2
  <2>3. next' \in Nat \ {0}
    BY <1>4, <2>1 DEF TypeInv, TypeOK
  <2>. QED
    BY <1>4, <2>1, <2>2, <2>3, TypeFrame DEF TypeInv, TypeOK
<1>5. ASSUME TypeInv, LoadDone PROVE TypeInv'
  <2>1. /\ pc = "load" /\ loaded' = loaded \union {loading}
        /\ loading' = NoObj /\ next' = 1 /\ pc' = "resolve"
        /\ UNCHANGED <<blocks, at, value, failed, count, misnamed, sound, ub>>
    BY <1>5 DEF LoadDone, siteVars
  <2>2. loading \in Objs
    BY <1>5, <2>1 DEF TypeInv, TypeOK
  <2>3. /\ loaded' \subseteq Objs /\ NoObj \notin loaded'
    BY <1>5, <2>1, <2>2, SiteFacts DEF TypeInv, TypeOK
  <2>4. /\ loading' \in Objs \union {NoObj} /\ loading' \notin loaded' /\ next' \in Nat \ {0}
        /\ pc' = "load" <=> loading' # NoObj
        /\ pc' \in {"idle", "load", "resolve", "compact"} /\ pc' # "compact"
    BY <2>1, <2>3
  <2>. QED
    BY <1>5, <2>1, <2>3, <2>4, TypeFrame DEF TypeInv, TypeOK
<1>. QED
  BY <1>1, <1>2, <1>3, <1>4, <1>5

\* The steps of the system by name, for the proofs that follow.
Loads == (\E o \in Objs : Load(o) \/ Close(o)) \/ LoadFails \/ Relocate \/ LoadDone
Adds == AddShared \/ AddName \/ AddFull \/ AddFullFails
Compacts == CompactClean \/ CompactSkip \/ CompactNext \/ CompactDone

LEMMA Steps ==
  [Next]_vars => \/ ~ub /\ (Loads \/ Adds \/ Resolve \/ Compacts)
                 \/ ~ub /\ (GoWrong \/ AddBehindEnd)
                 \/ UNCHANGED vars
<1>1. WalkFails \/ ResolveFreed \/ CompactBehindEnd \/ CompactFails => GoWrong
  BY DEF WalkFails, ResolveFreed, CompactBehindEnd, CompactFails
<1>. QED
  BY <1>1, Zenon DEF Next, Loads, Adds, Compacts, Add, Compact

LEMMA TypeStep ==
  ASSUME TypeInv, Loads \/ Adds \/ Resolve \/ Compacts
  PROVE  TypeInv'
BY LoadTypes, AddSharedTypes, AddNameTypes, ResolveTypes, CompactTypes DEF Loads, Adds, Compacts

\* A block that counts what was written behind its end is one all the same.
LEMMA BehindEndTypes ==
  ASSUME TypeInv, AddBehindEnd
  PROVE  TypeOK'
<1>. DEFINE n == NameRecs(Symbol)
            first == [Blocks[Block] EXCEPT !.recs = @ + n + 1]
            named == [WithName(NewBlock, Symbol) EXCEPT !.recs = 0]
            Type(b) == /\ b.recs \in Nat
                       /\ \A k \in Positions : b.rec[k].type \in {"empty", "text", "name", "reloc"}
<1>1. MoreRelocs /\ blocks \in Seq(BlockSet)
  BY DEF AddBehindEnd, Unknown, TypeInv
<1>2. /\ Blocks \in Seq(BlockSet) /\ Block \in DOMAIN Blocks
      /\ blocks' = Append([Blocks EXCEPT ![Block].recs = @ + n + 1], named)
  BY <1>1, SpareBlock DEF AddBehindEnd
<1>3. /\ n \in Nat /\ Symbol \in Names /\ loading \in Objs
  BY <1>1, MetSite, Sizes
<1>4. \A i \in DOMAIN Blocks :
        /\ Blocks[i].recs \in Nat
        /\ \A k \in Positions : Blocks[i].rec[k].type \in {"empty", "text", "name", "reloc"}
  <2>1. ASSUME NEW i \in DOMAIN Blocks
        PROVE  /\ Blocks[i].recs \in 0 .. BlockRecs
               /\ \A k \in Positions : Blocks[i].rec[k] \in RecSet
    BY <1>2, CellTypes, BlockFacts
  <2>2. \A i \in DOMAIN Blocks : Blocks[i].recs \in Nat
    BY <2>1
  <2>3. \A r \in RecSet : r.type \in {"empty", "text", "name", "reloc"}
    BY RecFacts
  <2>. HIDE DEF RecSet
  <2>. QED
    BY <2>1, <2>2, <2>3
<1>5. Type(first)
  <2>1. first.recs = Blocks[Block].recs + n + 1 /\ first.rec = Blocks[Block].rec
    BY <1>2, CellTypes DEF BlockSet
  <2>. HIDE DEF first, n
  <2>. QED
    BY <1>2, <1>3, <1>4, <2>1
<1>6. Type(named)
  <2>1. /\ named.recs = 0
        /\ named.rec = [k \in Positions |->
               IF k = NewBlock.recs THEN NameRec(Symbol)
               ELSE IF k \in NewBlock.recs + 1 .. NewBlock.recs + n - 1 THEN Text
               ELSE NewBlock.rec[k]]
    BY DEF WithName
  <2>2. \A k \in Positions : NewBlock.rec[k] = Empty
    BY DEF NewBlock
  <2>. HIDE DEF named
  <2>. QED
    BY <2>1, <2>2 DEF NameRec, Text, Empty
<1>7. [Blocks EXCEPT ![Block].recs = @ + n + 1] = [Blocks EXCEPT ![Block] = first]
  BY <1>2
<1>8. \A i \in DOMAIN blocks' : blocks'[i] \in {Blocks[j] : j \in DOMAIN Blocks} \union {first, named}
  <2>. DEFINE bs == [Blocks EXCEPT ![Block] = first]
  <2>1. /\ Len(bs) = Len(Blocks) /\ DOMAIN bs = 1 .. Len(bs) /\ DOMAIN Blocks = 1 .. Len(Blocks)
        /\ Len(Blocks) \in Nat
        /\ \A i \in DOMAIN Blocks : bs[i] \in {Blocks[j] : j \in DOMAIN Blocks} \union {first}
    <3>. HIDE DEF first, BlockSet
    <3>. QED
      BY <1>2
  <2>2. blocks' = Append(bs, named)
    BY <1>2, <1>7
  <2>. HIDE DEF first, named, bs
  <2>3. DOMAIN blocks' = 1 .. Len(bs) + 1
        /\ \A i \in 1 .. Len(bs) + 1 : blocks'[i] = IF i <= Len(bs) THEN bs[i] ELSE named
    BY <2>1, <2>2
  <2>. QED
    BY <2>1, <2>3
<1>9. \A i \in DOMAIN blocks' : Type(blocks'[i])
  <2>1. \A j \in DOMAIN Blocks : Type(Blocks[j])
    BY <1>4
  <2>. HIDE DEF Type, first, named
  <2>. QED
    BY <1>5, <1>6, <1>8, <2>1
<1>10. [count EXCEPT ![loading] = @ + 1] \in [Objs -> Nat]
  BY <1>3 DEF TypeInv, TypeOK
<1>11. /\ ub' = TRUE /\ sound' = FALSE /\ next' = next + 1
       /\ count' = [count EXCEPT ![loading] = @ + 1]
       /\ UNCHANGED <<loaded, loading, pc, at, value, failed, misnamed>>
  BY DEF AddBehindEnd
<1>12. /\ loaded \subseteq Objs /\ loading \in Objs \union {NoObj} /\ next \in Nat
       /\ pc \in {"idle", "load", "resolve", "compact"} /\ at \in Nat \X Nat
       /\ value \in [Sites -> Names \union {NoName}] /\ failed \subseteq Sites
       /\ misnamed \subseteq Sites
  BY DEF TypeInv, TypeOK
<1>. HIDE DEF first, named
<1>13. \A i \in DOMAIN blocks' :
         /\ blocks'[i].recs \in Nat /\ (~ub' => blocks'[i].recs <= BlockRecs)
         /\ \A k \in Positions : blocks'[i].rec[k].type \in {"empty", "text", "name", "reloc"}
  BY <1>9, <1>11, Zenon
<1>14. /\ loaded' \subseteq Objs /\ loading' \in Objs \union {NoObj} /\ next' \in Nat
       /\ pc' \in {"idle", "load", "resolve", "compact"} /\ at' \in Nat \X Nat
       /\ value' \in [Sites -> Names \union {NoName}] /\ failed' \subseteq Sites
       /\ misnamed' \subseteq Sites /\ count' \in [Objs -> Nat]
  BY <1>10, <1>11, <1>12
<1>15. sound' \in BOOLEAN /\ ub' \in BOOLEAN
  BY <1>11
<1>. QED
  BY <1>13, <1>14, <1>15, Zenon DEF TypeOK

-----------------------------------------------------------------------------
(* What changes of a table keep, without regard to what made them.         *)

LEMMA TableTypes ==
  ASSUME NEW bs \in Seq(BlockSet)
  PROVE  /\ NamesOf(bs) \subseteq CellsOf(bs) /\ LiveOf(bs) \subseteq CellsOf(bs)
         /\ CellsOf(bs) \subseteq (DOMAIN bs) \X Positions
         /\ \A c \in CellsOf(bs) : /\ At(bs, c) \in RecSet /\ c = <<c[1], c[2]>>
                                   /\ c[1] \in Nat /\ c[2] \in Nat
         /\ \A S : S \subseteq CellsOf(bs) => IsFiniteSet(S) /\ Cardinality(S) \in Nat
         /\ \A n : Rank(NamesOf(bs), n) \in Nat
<1>1. /\ NamesOf(bs) \subseteq CellsOf(bs) /\ LiveOf(bs) \subseteq CellsOf(bs)
      /\ CellsOf(bs) \subseteq (DOMAIN bs) \X Positions
  BY DEF NamesOf, LiveOf, CellsOf
<1>2. \A c \in CellsOf(bs) : At(bs, c) \in RecSet /\ c = <<c[1], c[2]>> /\ c[1] \in Nat /\ c[2] \in Nat
  BY <1>1, CellTypes
<1>3. \A S : S \subseteq CellsOf(bs) => IsFiniteSet(S) /\ Cardinality(S) \in Nat
  BY <1>1, CellTypes, FS_Subset, FS_CardinalityType
<1>4. \A n : {d \in NamesOf(bs) : Before(d, n)} \subseteq CellsOf(bs)
  BY <1>1
<1>5. \A n : Rank(NamesOf(bs), n) \in Nat
  BY <1>3, <1>4 DEF Rank
<1>. QED
  BY <1>1, <1>2, <1>3, <1>5

\* The order of the records of a table.
LEMMA Order ==
  ASSUME NEW c \in Nat \X Nat, NEW d \in Nat \X Nat
  PROVE  /\ Before(c, c)
         /\ Before(c, d) \/ Before(d, c)
         /\ Before(c, d) /\ Before(d, c) => c = d
         /\ \A e \in Nat \X Nat : Before(c, d) /\ Before(d, e) => Before(c, e)
<1>1. /\ c[1] \in Nat /\ c[2] \in Nat /\ d[1] \in Nat /\ d[2] \in Nat
      /\ (c[1] = d[1] /\ c[2] = d[2] => c = d)
  OBVIOUS
<1>2. \A e \in Nat \X Nat : e[1] \in Nat /\ e[2] \in Nat
  OBVIOUS
<1>. QED
  BY <1>1, <1>2 DEF Before

\* No two names have the same ordinal.
LEMMA RankInjective ==
  ASSUME NEW bs \in Seq(BlockSet), NEW n \in NamesOf(bs), NEW m \in NamesOf(bs),
         Rank(NamesOf(bs), n) = Rank(NamesOf(bs), m)
  PROVE  n = m
<1>. DEFINE Up(x) == {d \in NamesOf(bs) : Before(d, x)}
<1>0. \A d \in NamesOf(bs) : d \in Nat \X Nat
  BY TableTypes
<1>1. ASSUME NEW x \in NamesOf(bs), NEW y \in NamesOf(bs), Before(x, y),
             Rank(NamesOf(bs), x) = Rank(NamesOf(bs), y)
      PROVE  x = y
  <2>1. Up(x) \subseteq Up(y)
    BY <1>0, <1>1, Order
  <2>2. IsFiniteSet(Up(y)) /\ Cardinality(Up(x)) = Cardinality(Up(y))
    BY <1>1, TableTypes DEF Rank
  <2>. HIDE DEF Up
  <2>3. Up(x) = Up(y)
    BY <2>1, <2>2, FS_Subset
  <2>. USE DEF Up
  <2>4. y \in Up(y)
    BY <1>0, Order
  <2>. QED
    BY <1>0, <1>1, <2>3, <2>4, Order
<1>. QED
  BY <1>0, <1>1, Order

\* Blocks are written, records moved: an order-preserving map f from the new
\* records to the old, of which those that are lost are unused.
Shifts(bs, bs2, f) ==
  /\ f \in [CellsOf(bs2) -> CellsOf(bs)]
  /\ \A c, d \in CellsOf(bs2) : Before(c, d) <=> Before(f[c], f[d])
  /\ \A c \in CellsOf(bs2) : At(bs2, c) = At(bs, f[c])
  /\ \A d \in CellsOf(bs) : Unused(At(bs, d)) \/ \E c \in CellsOf(bs2) : f[c] = d

LEMMA ShiftInjective ==
  ASSUME NEW bs \in Seq(BlockSet), NEW bs2 \in Seq(BlockSet), NEW f, Shifts(bs, bs2, f)
  PROVE  \A c, d \in CellsOf(bs2) : f[c] = f[d] => c = d
<1>1. ASSUME NEW c \in CellsOf(bs2), NEW d \in CellsOf(bs2), f[c] = f[d] PROVE c = d
  <2>1. c \in Nat \X Nat /\ d \in Nat \X Nat /\ f[c] \in Nat \X Nat
    BY TableTypes DEF Shifts
  <2>2. Before(f[c], f[d]) /\ Before(f[d], f[c])
    BY <1>1, <2>1, Order
  <2>3. Before(c, d) /\ Before(d, c)
    BY <1>1, <2>2 DEF Shifts
  <2>. QED
    BY <2>1, <2>3, Order
<1>. QED
  BY <1>1

LEMMA ShiftRecorded ==
  ASSUME NEW bs \in Seq(BlockSet), NEW bs2 \in Seq(BlockSet), NEW f, Shifts(bs, bs2, f),
         NEW P, Recorded(bs, P)
  PROVE  Recorded(bs2, P)
<1>1. \A c \in LiveOf(bs2) : c \in CellsOf(bs2) /\ f[c] \in LiveOf(bs) /\ At(bs2, c) = At(bs, f[c])
  BY DEF Shifts, LiveOf
<1>2. \A d \in LiveOf(bs) : \E c \in LiveOf(bs2) : f[c] = d
  <2>1. ASSUME NEW d \in LiveOf(bs) PROVE \E c \in LiveOf(bs2) : f[c] = d
    <3>1. d \in CellsOf(bs) /\ ~Unused(At(bs, d))
      BY DEF LiveOf, Unused
    <3>2. PICK c \in CellsOf(bs2) : f[c] = d
      BY <3>1 DEF Shifts
    <3>3. At(bs2, c) = At(bs, d)
      BY <3>2 DEF Shifts
    <3>. QED
      BY <3>2, <3>3 DEF LiveOf
  <2>. QED
    BY <2>1
<1>. QED
  BY <1>1, <1>2, ShiftInjective DEF Recorded

LEMMA ShiftNamed ==
  ASSUME NEW bs \in Seq(BlockSet), NEW bs2 \in Seq(BlockSet), NEW f, Shifts(bs, bs2, f),
         NEW M, Named(bs, M)
  PROVE  Named(bs2, M)
<1>1. SUFFICES ASSUME NEW c \in LiveOf(bs2), At(bs2, c).site \notin M
               PROVE  \E n \in NamesOf(bs2) : LeadsTo(bs2, c, n)
  BY DEF Named
<1>2. c \in CellsOf(bs2) /\ f[c] \in LiveOf(bs) /\ At(bs2, c) = At(bs, f[c])
  BY DEF Shifts, LiveOf
<1>3. PICK n \in NamesOf(bs) : LeadsTo(bs, f[c], n)
  BY <1>1, <1>2 DEF Named
<1>4. /\ Rank(NamesOf(bs), n) = At(bs, f[c]).name
      /\ At(bs, n).name = Wanted(At(bs, f[c]).site)
      /\ \A m \in NamesOf(bs) : Before(m, n) => At(bs, m).refs > 0
  BY <1>3 DEF LeadsTo
<1>5. \A m \in NamesOf(bs) : Before(m, n) =>
        \E d \in NamesOf(bs2) : f[d] = m /\ At(bs2, d) = At(bs, m)
  <2>1. ASSUME NEW m \in NamesOf(bs), Before(m, n)
        PROVE  \E d \in NamesOf(bs2) : f[d] = m /\ At(bs2, d) = At(bs, m)
    <3>1. m \in CellsOf(bs) /\ At(bs, m).type = "name" /\ At(bs, m).refs > 0 /\ At(bs, m) \in RecSet
      BY <1>4, <2>1, TableTypes DEF NamesOf
    <3>2. At(bs, m).refs \in Nat
      BY <3>1, RecFacts
    <3>3. ~Unused(At(bs, m))
      BY <3>1, <3>2 DEF Unused
    <3>4. PICK d \in CellsOf(bs2) : f[d] = m
      BY <3>1, <3>3 DEF Shifts
    <3>5. At(bs2, d) = At(bs, m)
      BY <3>4 DEF Shifts
    <3>. QED
      BY <3>1, <3>4, <3>5 DEF NamesOf
  <2>. QED
    BY <2>1
<1>6. Before(n, n)
  BY TableTypes, Order
<1>7. PICK n2 \in NamesOf(bs2) : f[n2] = n /\ At(bs2, n2) = At(bs, n)
  BY <1>5, <1>6
<1>. DEFINE S2 == {d \in NamesOf(bs2) : Before(d, n2)}
            S == {d \in NamesOf(bs) : Before(d, n)}
<1>8. \A d \in NamesOf(bs2) : /\ f[d] \in NamesOf(bs) /\ At(bs2, d) = At(bs, f[d])
                              /\ Before(d, n2) => Before(f[d], n)
                              /\ Before(f[d], n) => Before(d, n2)
  <2>1. \A d \in NamesOf(bs2) : f[d] \in NamesOf(bs) /\ At(bs2, d) = At(bs, f[d])
    BY DEF NamesOf, Shifts
  <2>2. NamesOf(bs2) \subseteq CellsOf(bs2)
    BY TableTypes
  <2>3. \A d \in NamesOf(bs2) : Before(d, n2) <=> Before(f[d], f[n2])
    BY <2>2 DEF Shifts
  <2>. QED
    BY <1>7, <2>1, <2>3
<1>9. Cardinality(S2) = Cardinality(S)
  <2>. DEFINE g == [d \in S2 |-> f[d]]
  <2>1. g \in [S2 -> S]
    <3>1. \A d \in S2 : f[d] \in S
      BY <1>8, Zenon
    <3>. HIDE DEF S2, S
    <3>. QED
      BY <3>1
  <2>2. \A d, e \in S2 : g[d] = g[e] => d = e
    <3>1. S2 \subseteq CellsOf(bs2) /\ \A d \in S2 : g[d] = f[d]
      BY DEF NamesOf
    <3>. HIDE DEF S2, g
    <3>. QED
      BY <3>1, ShiftInjective
  <2>3. \A m \in S : \E d \in S2 : g[d] = m
    <3>1. \A m \in S : \E d \in S2 : f[d] = m
      BY <1>5, <1>8, Zenon
    <3>. HIDE DEF S2, S
    <3>. QED
      BY <3>1
  <2>4. IsFiniteSet(S2)
    <3>1. S2 \subseteq CellsOf(bs2)
      BY DEF NamesOf
    <3>. HIDE DEF S2
    <3>. QED
      BY <3>1, TableTypes
  <2>. HIDE DEF g, S, S2
  <2>5. g \in Bijection(S2, S)
    BY <2>1, <2>2, <2>3 DEF Bijection, Injection, Surjection, IsInjective
  <2>6. ExistsBijection(S2, S)
    BY <2>5 DEF ExistsBijection
  <2>. QED
    BY <2>4, <2>6, FS_Bijection
<1>10. Rank(NamesOf(bs2), n2) = Rank(NamesOf(bs), n)
  BY <1>9 DEF Rank
<1>11. ASSUME NEW m \in NamesOf(bs2), Before(m, n2) PROVE At(bs2, m).refs > 0
  <2>1. f[m] \in NamesOf(bs) /\ At(bs2, m) = At(bs, f[m]) /\ Before(f[m], n)
    BY <1>8, <1>11, Zenon
  <2>2. At(bs, f[m]).refs > 0
    BY <1>4, <2>1
  <2>. QED
    BY <2>1, <2>2
<1>12. LeadsTo(bs2, c, n2)
  BY <1>2, <1>4, <1>7, <1>10, <1>11 DEF LeadsTo
<1>. QED
  BY <1>12

\* Names and relocations are added: bs2 has the records of bs at their places,
\* with no fewer references, the names Q besides, and the live records R.
Grows(bs, bs2, Q, R) ==
  /\ NamesOf(bs2) = NamesOf(bs) \union Q
  /\ LiveOf(bs2) = LiveOf(bs) \union R
  /\ \A c \in LiveOf(bs) : At(bs2, c) = At(bs, c)
  /\ \A n \in NamesOf(bs) : /\ At(bs2, n).name = At(bs, n).name
                            /\ At(bs, n).refs > 0 => At(bs2, n).refs > 0

LEMMA GrowNamed ==
  ASSUME NEW bs \in Seq(BlockSet), NEW bs2 \in Seq(BlockSet), NEW Q, NEW R, Grows(bs, bs2, Q, R),
         NEW M, NEW M2, M \subseteq M2, Named(bs, M),
         \A c \in LiveOf(bs) : \A n \in NamesOf(bs) :
           At(bs, c).site \notin M2 /\ LeadsTo(bs, c, n) => \A q \in Q : ~Before(q, n),
         \A r \in R : At(bs2, r).site \notin M2 => \E n \in NamesOf(bs2) : LeadsTo(bs2, r, n)
  PROVE  Named(bs2, M2)
<1>1. ASSUME NEW c \in LiveOf(bs), At(bs2, c).site \notin M2
      PROVE  \E n \in NamesOf(bs2) : LeadsTo(bs2, c, n)
  <2>1. At(bs2, c) = At(bs, c) /\ At(bs, c).site \notin M
    BY <1>1 DEF Grows
  <2>2. PICK n \in NamesOf(bs) : LeadsTo(bs, c, n)
    BY <2>1 DEF Named
  <2>3. \A q \in Q : ~Before(q, n)
    BY <1>1, <2>1, <2>2
  <2>4. {d \in NamesOf(bs2) : Before(d, n)} = {d \in NamesOf(bs) : Before(d, n)}
    BY <2>3 DEF Grows
  <2>5. Rank(NamesOf(bs2), n) = Rank(NamesOf(bs), n)
    BY <2>4 DEF Rank
  <2>6. \A m \in NamesOf(bs2) : Before(m, n) => At(bs2, m).refs > 0
    BY <2>2, <2>3 DEF Grows, LeadsTo
  <2>7. LeadsTo(bs2, c, n)
    BY <2>1, <2>2, <2>5, <2>6 DEF LeadsTo, Grows
  <2>. QED
    BY <2>7 DEF Grows
<1>. QED
  BY <1>1 DEF Named, Grows

LEMMA GrowRecorded ==
  ASSUME NEW bs \in Seq(BlockSet), NEW bs2 \in Seq(BlockSet), NEW Q, NEW r, Grows(bs, bs2, Q, {r}),
         NEW P, NEW s, s \notin P, At(bs2, r).site = s, Recorded(bs, P)
  PROVE  Recorded(bs2, P \union {s})
BY DEF Recorded, Grows

\* The sites that need no name may be any that have no record.
LEMMA NamedFor ==
  ASSUME NEW bs, NEW P, NEW M, NEW M2, Recorded(bs, P), Named(bs, M),
         \A s \in P : s \notin M2 => s \notin M
  PROVE  Named(bs, M2)
BY DEF Recorded, Named

-----------------------------------------------------------------------------
(* Blocks that are written to stay in shape.                               *)

\* Shape depends on types and names only.
LEMMA SameShape ==
  ASSUME NEW b \in BlockSet, Shape(b), NEW w \in BlockSet, w.recs = b.recs,
         \A k \in Positions : /\ w.rec[k].type = b.rec[k].type
                              /\ b.rec[k].type = "name" => w.rec[k].name = b.rec[k].name
  PROVE  Shape(w)
<1>1. \A k \in Positions : Extent(w.rec[k]) = Extent(b.rec[k])
  BY DEF Extent
<1>2. \A k \in Positions : \A j \in 0 .. k - 1 : j \in Positions
  BY Places
<1>3. ASSUME NEW k \in Positions, b.rec[k].type = "name" PROVE NameShape(w, k)
  <2>1. NameShape(b, k)
    BY <1>3 DEF Shape
  <2>. DEFINE e == Extent(b.rec[k])
  <2>2. /\ NameRecs(b.rec[k].name) = e /\ k + e <= b.recs
        /\ \A j \in k + 1 .. k + e - 1 : b.rec[j].type = "text"
    BY <2>1 DEF NameShape
  <2>3. \A j \in k + 1 .. k + e - 1 : j \in Positions
    <3>1. k \in Nat /\ e \in Nat \ {0} /\ b.recs \in Nat /\ b.recs <= BlockRecs
      BY BlockFacts, Places
    <3>. HIDE DEF e
    <3>. QED
      BY <2>2, <3>1, Places
  <2>4. Extent(w.rec[k]) = e /\ w.rec[k].name = b.rec[k].name
    BY <1>1, <1>3
  <2>. HIDE DEF e
  <2>. QED
    BY <2>2, <2>3, <2>4 DEF NameShape
<1>4. ASSUME NEW k \in Positions, b.rec[k].type = "text" PROVE TextShape(w, k)
  <2>1. PICK j \in 0 .. k - 1 : b.rec[j].type = "name" /\ k < j + Extent(b.rec[j])
    BY <1>4 DEF Shape, TextShape
  <2>. QED
    BY <1>1, <1>2, <2>1 DEF TextShape
<1>. QED
  BY <1>3, <1>4 DEF Shape

LEMMA WithRelocShape ==
  ASSUME NEW b \in BlockSet, Shape(b), b.recs < BlockRecs, NEW s \in Sites, NEW i \in Nat
  PROVE  LET w == WithReloc(b, s, i)
         IN  /\ w \in BlockSet /\ Shape(w) /\ b.recs \in Positions
             /\ w.rec[b.recs] = RelocRec(s, i)
             /\ \A k \in Positions : k # b.recs => w.rec[k] = b.rec[k]
<1>. DEFINE w == WithReloc(b, s, i)
            n == b.recs
<1>1. /\ w \in BlockSet /\ n \in Nat /\ n \in Positions /\ BlockRecs \in Nat
      /\ b.rec \in [Positions -> RecSet]
  BY WithTypes, BlockFacts, Places
<1>2. w.recs = n + 1 /\ w.rec = [b.rec EXCEPT ![n] = RelocRec(s, i)]
  BY DEF WithReloc
<1>. HIDE DEF w, n
<1>3. /\ w.rec[n] = RelocRec(s, i)
      /\ \A k \in Positions : k # n => w.rec[k] = b.rec[k]
  BY <1>1, <1>2
<1>4. \A k \in Positions : k \in Nat /\ k < BlockRecs
  BY Places
<1>5. w.rec[n].type = "reloc" /\ Extent(w.rec[n]) = 1
  BY <1>3 DEF RelocRec, Extent
<1>6. ASSUME NEW k \in Positions
      PROVE  /\ w.rec[k].type = "empty" <=> k >= w.recs
             /\ w.rec[k].type = "name" => NameShape(w, k)
             /\ w.rec[k].type = "text" => TextShape(w, k)
  <2>1. CASE k = n
    BY <1>1, <1>2, <1>5, <2>1
  <2>2. CASE k # n
    <3>1. w.rec[k] = b.rec[k]
      BY <1>3, <2>2
    <3>2. b.rec[k].type = "empty" <=> k >= n
      BY DEF Shape, n
    <3>3. w.rec[k].type = "empty" <=> k >= w.recs
      <4>1. (k >= n => k >= w.recs) /\ (k >= w.recs => k >= n)
        BY <1>1, <1>2, <1>4, <2>2
      <4>. QED
        BY <3>1, <3>2, <4>1
    <3>4. ASSUME b.rec[k].type = "name" PROVE NameShape(w, k)
      <4>. DEFINE e == Extent(b.rec[k])
      <4>1. /\ NameRecs(b.rec[k].name) = e /\ k + e <= n
            /\ \A j \in k + 1 .. k + e - 1 : b.rec[j].type = "text"
        BY <3>4 DEF Shape, NameShape, n
      <4>2. e \in Nat \ {0}
        BY BlockFacts
      <4>. HIDE DEF e
      <4>3. \A j \in k + 1 .. k + e - 1 : j \in Positions /\ j # n
        BY <1>1, <1>4, <4>1, <4>2, Places
      <4>4. k + e <= w.recs
        BY <1>1, <1>2, <1>4, <4>1, <4>2
      <4>5. \A j \in k + 1 .. k + e - 1 : w.rec[j].type = "text"
        BY <1>3, <4>1, <4>3
      <4>. QED
        BY <3>1, <4>1, <4>4, <4>5 DEF NameShape, e
    <3>5. ASSUME b.rec[k].type = "text" PROVE TextShape(w, k)
      <4>1. PICK j \in 0 .. k - 1 : b.rec[j].type = "name" /\ k < j + Extent(b.rec[j])
        BY <3>5 DEF Shape, TextShape
      <4>2. j \in Positions /\ j # n
        <5>1. k < n
          BY <1>1, <1>4, <3>2, <3>5
        <5>. QED
          BY <1>1, <1>4, <5>1, Places
      <4>3. w.rec[j] = b.rec[j]
        BY <1>3, <4>2
      <4>. QED
        BY <4>1, <4>3 DEF TextShape
    <3>. QED
      BY <3>1, <3>3, <3>4, <3>5
  <2>. QED
    BY <2>1, <2>2
<1>7. Shape(w)
  BY <1>6 DEF Shape
<1>. QED
  BY <1>1, <1>3, <1>7 DEF w, n

LEMMA WithNameShape ==
  ASSUME NEW b \in BlockSet, Shape(b), NEW x \in Names, b.recs + NameRecs(x) <= BlockRecs,
         Extent(NameRec(x)) = NameRecs(x)
  PROVE  LET w == WithName(b, x)
         IN  /\ w \in BlockSet /\ Shape(w) /\ b.recs \in Positions
             /\ w.rec[b.recs] = NameRec(x)
             /\ \A k \in Positions : k < b.recs => w.rec[k] = b.rec[k]
             /\ \A k \in Positions : k > b.recs => w.rec[k].type \in {"text", "empty"}
<1>. DEFINE w == WithName(b, x)
            n == b.recs
            f == NameRecs(x)
<1>1. /\ w \in BlockSet /\ n \in Nat /\ f \in Nat \ {0} /\ n + f <= BlockRecs /\ BlockRecs \in Nat
      /\ b.rec \in [Positions -> RecSet]
  BY WithTypes, BlockFacts, Places, Sizes
<1>2. /\ w.recs = n + f
      /\ \A k \in Positions : w.rec[k] = IF k = n THEN NameRec(x)
                                         ELSE IF k \in n + 1 .. n + f - 1 THEN Text ELSE b.rec[k]
  BY DEF WithName
<1>. HIDE DEF w, n, f
<1>3. n \in Positions /\ \A k \in Positions : k \in Nat /\ k < BlockRecs
  BY <1>1, Places
<1>4. /\ w.rec[n] = NameRec(x) /\ w.rec[n].type = "name" /\ Extent(w.rec[n]) = f
      /\ w.rec[n].name = x
  BY <1>2, <1>3 DEF NameRec, f
<1>5. \A k \in Positions : k < n => w.rec[k] = b.rec[k]
  BY <1>1, <1>2, <1>3
<1>6. \A k \in Positions : k > n /\ k < n + f => w.rec[k].type = "text"
  <2>1. \A k \in Positions : k > n /\ k < n + f => k \in n + 1 .. n + f - 1 /\ k # n
    BY <1>1, <1>3
  <2>. QED
    BY <1>2, <2>1 DEF Text
<1>7. \A k \in Positions : k >= n + f => w.rec[k].type = "empty"
  <2>1. \A k \in Positions : k >= n + f => k # n /\ k \notin n + 1 .. n + f - 1 /\ k >= n
    BY <1>1, <1>3
  <2>2. \A k \in Positions : k >= n => b.rec[k].type = "empty"
    BY DEF Shape, n
  <2>. QED
    BY <1>2, <2>1, <2>2
<1>8. ASSUME NEW k \in Positions
      PROVE  /\ w.rec[k].type = "empty" <=> k >= w.recs
             /\ w.rec[k].type = "name" => NameShape(w, k)
             /\ w.rec[k].type = "text" => TextShape(w, k)
  <2>1. CASE k = n
    <3>1. \A j \in k + 1 .. k + f - 1 : j \in Positions /\ j > n /\ j < n + f
      BY <1>1, <2>1, Places
    <3>2. \A j \in k + 1 .. k + f - 1 : w.rec[j].type = "text"
      BY <1>6, <3>1
    <3>3. NameShape(w, k)
      BY <1>2, <1>4, <2>1, <3>2, <1>1 DEF NameShape, f
    <3>. QED
      BY <1>1, <1>2, <1>4, <2>1, <3>3
  <2>2. CASE k < n
    <3>1. w.rec[k] = b.rec[k]
      BY <1>5, <2>2
    <3>2. b.rec[k].type # "empty"
      BY <1>1, <1>3, <2>2 DEF Shape, n
    <3>3. ~(k >= w.recs)
      BY <1>1, <1>2, <1>3, <2>2
    <3>4. ASSUME b.rec[k].type = "name" PROVE NameShape(w, k)
      <4>. DEFINE e == Extent(b.rec[k])
      <4>1. /\ NameRecs(b.rec[k].name) = e /\ k + e <= n
            /\ \A j \in k + 1 .. k + e - 1 : b.rec[j].type = "text"
        BY <3>4 DEF Shape, NameShape, n
      <4>2. e \in Nat \ {0}
        BY BlockFacts
      <4>. HIDE DEF e
      <4>3. \A j \in k + 1 .. k + e - 1 : j \in Positions /\ j < n
        BY <1>1, <1>3, <4>1, <4>2, Places
      <4>4. k + e <= w.recs
        BY <1>1, <1>2, <1>3, <4>1, <4>2
      <4>5. \A j \in k + 1 .. k + e - 1 : w.rec[j].type = "text"
        BY <1>5, <4>1, <4>3
      <4>. QED
        BY <3>1, <4>1, <4>4, <4>5 DEF NameShape, e
    <3>5. ASSUME b.rec[k].type = "text" PROVE TextShape(w, k)
      <4>1. PICK j \in 0 .. k - 1 : b.rec[j].type = "name" /\ k < j + Extent(b.rec[j])
        BY <3>5 DEF Shape, TextShape
      <4>2. j \in Positions /\ j < n
        BY <1>1, <1>3, <2>2, Places
      <4>3. w.rec[j] = b.rec[j]
        BY <1>5, <4>2
      <4>. QED
        BY <4>1, <4>3 DEF TextShape
    <3>. QED
      BY <3>1, <3>2, <3>3, <3>4, <3>5
  <2>3. CASE k > n /\ k < n + f
    <3>1. w.rec[k].type = "text" /\ ~(k >= w.recs)
      BY <1>1, <1>2, <1>3, <1>6, <2>3
    <3>2. n \in 0 .. k - 1
      BY <1>1, <1>3, <2>3
    <3>3. TextShape(w, k)
      BY <1>4, <2>3, <3>2 DEF TextShape
    <3>. QED
      BY <3>1, <3>3
  <2>4. CASE k >= n + f
    BY <1>2, <1>7, <2>4
  <2>. QED
    BY <1>1, <1>3, <2>1, <2>2, <2>3, <2>4
<1>9. Shape(w)
  BY <1>8 DEF Shape
<1>10. \A k \in Positions : k > n => w.rec[k].type \in {"text", "empty"}
  BY <1>1, <1>3, <1>6, <1>7
<1>. QED
  BY <1>1, <1>3, <1>4, <1>5, <1>9, <1>10 DEF w, n

\* A record of one place is removed.
LEMMA CleanedShape ==
  ASSUME NEW b \in BlockSet, Shape(b), NEW k, Starts(b, k), Extent(b.rec[k]) = 1,
         InBlock(b, k, 1)
  PROVE  LET w == Cleaned(b, k, 1)
         IN  /\ w \in BlockSet /\ Shape(w) /\ w.recs = b.recs - 1
             /\ \A j \in Positions : j < k => w.rec[j] = b.rec[j]
             /\ \A j \in Positions : j >= k /\ j < b.recs - 1 => w.rec[j] = b.rec[j + 1]
             /\ k < b.recs - 1 => Starts(w, k)
<1>. DEFINE w == Cleaned(b, k, 1)
            n == b.recs
            m == Moved(b, k, 1)
<1>1. /\ k \in Positions /\ k \in Nat /\ k < n /\ n \in Nat /\ n <= BlockRecs /\ BlockRecs \in Nat
      /\ b.rec \in [Positions -> RecSet] /\ b.rec[k].type # "text" /\ n > 0
  BY BlockFacts, Places DEF Starts
<1>2. k \div RecBytes \in 0 .. k
  BY <1>1, Constants, Divide
<1>3. m \in Nat /\ m >= n - k - 1 /\ k + 1 + m <= BlockRecs
  BY <1>1, <1>2 DEF InBlock, Moved
<1>4. w \in BlockSet
  BY <1>1, CleanedType
<1>5. /\ w.recs = n - 1
      /\ \A j \in Positions : w.rec[j] = IF j \in n - 1 .. n + 1 - 2 THEN Empty
               ELSE IF j \in k .. k + m - 1 THEN b.rec[j + 1]
               ELSE b.rec[j]
  BY DEF Cleaned
<1>. HIDE DEF w, n, m
<1>6. \A j \in Positions : j \in Nat /\ j < BlockRecs
  BY Places
<1>7. \A j \in Positions : j < k => w.rec[j] = b.rec[j]
  <2>1. \A j \in Positions : j < k => j \notin n - 1 .. n + 1 - 2 /\ j \notin k .. k + m - 1
    BY <1>1, <1>3, <1>6
  <2>. QED
    BY <1>5, <2>1
<1>8. \A j \in Positions : j >= k /\ j < n - 1 => w.rec[j] = b.rec[j + 1]
  <2>1. \A j \in Positions : j >= k /\ j < n - 1 =>
          j \notin n - 1 .. n + 1 - 2 /\ j \in k .. k + m - 1
    BY <1>1, <1>3, <1>6
  <2>. QED
    BY <1>5, <2>1
<1>9. \A j \in Positions : j >= n => b.rec[j].type = "empty"
  BY DEF Shape, n
<1>10. \A j \in Positions : j < n => b.rec[j].type # "empty"
  <2>1. ASSUME NEW j \in Positions, j < n PROVE b.rec[j].type # "empty"
    <3>1. ~(j >= n)
      BY <1>1, <1>6, <2>1
    <3>. QED
      BY <3>1 DEF Shape, n
  <2>. QED
    BY <2>1
<1>11. ASSUME NEW j \in Positions, j >= n - 1 PROVE w.rec[j].type = "empty"
  <2>1. CASE j = n - 1
    <3>1. j \in n - 1 .. n + 1 - 2
      BY <1>1, <2>1
    <3>. QED
      BY <1>5, <3>1 DEF Empty
  <2>2. CASE j # n - 1
    <3>1. j \notin n - 1 .. n + 1 - 2 /\ j >= n
      BY <1>1, <1>6, <1>11, <2>2
    <3>2. CASE j \in k .. k + m - 1
      <4>1. j + 1 \in Positions /\ j + 1 >= n
        BY <1>1, <1>3, <1>6, <3>1, <3>2, Places
      <4>. QED
        BY <1>5, <1>9, <3>1, <3>2, <4>1
    <3>3. CASE j \notin k .. k + m - 1
      BY <1>5, <1>9, <3>1, <3>3
    <3>. QED
      BY <3>2, <3>3
  <2>. QED
    BY <2>1, <2>2
\* What is in front of the record ends in front of it.
<1>12. ASSUME NEW j \in Positions, j < k, b.rec[j].type = "name"
       PROVE  j + Extent(b.rec[j]) <= k
  <2>. DEFINE e == Extent(b.rec[j])
  <2>1. e \in Nat \ {0} /\ \A i \in j + 1 .. j + e - 1 : b.rec[i].type = "text"
    BY <1>12, BlockFacts DEF Shape, NameShape
  <2>. HIDE DEF e
  <2>2. SUFFICES ASSUME j + e > k PROVE FALSE
    BY <1>1, <1>6, <2>1 DEF e
  <2>3. k \in j + 1 .. j + e - 1
    BY <1>1, <1>6, <1>12, <2>1, <2>2
  <2>. QED
    BY <1>1, <2>1, <2>3
<1>13. ASSUME NEW j \in Positions
       PROVE  /\ w.rec[j].type = "empty" <=> j >= w.recs
              /\ w.rec[j].type = "name" => NameShape(w, j)
              /\ w.rec[j].type = "text" => TextShape(w, j)
  <2>1. CASE j >= n - 1
    BY <1>5, <1>11, <2>1
  <2>2. CASE j < k
    <3>1. w.rec[j] = b.rec[j]
      BY <1>7, <2>2
    <3>2. ~(j >= w.recs) /\ b.rec[j].type # "empty"
      BY <1>1, <1>5, <1>6, <1>10, <2>2
    <3>3. ASSUME b.rec[j].type = "name" PROVE NameShape(w, j)
      <4>. DEFINE e == Extent(b.rec[j])
      <4>1. /\ NameRecs(b.rec[j].name) = e /\ e \in Nat \ {0}
            /\ \A i \in j + 1 .. j + e - 1 : b.rec[i].type = "text"
        BY <3>3, BlockFacts DEF Shape, NameShape
      <4>2. j + e <= k
        BY <1>12, <2>2, <3>3
      <4>. HIDE DEF e
      <4>3. j + e <= w.recs
        <5>1. w.recs = n - 1 /\ j \in Nat /\ e \in Nat /\ k \in Nat /\ n \in Nat /\ k < n
          BY <1>1, <1>5, <1>6, <4>1
        <5>. QED
          BY <4>2, <5>1
      <4>4. \A i \in j + 1 .. j + e - 1 : i \in Positions /\ i < k
        BY <1>1, <1>6, <4>1, <4>2, Places
      <4>5. \A i \in j + 1 .. j + e - 1 : w.rec[i].type = "text"
        BY <1>7, <4>1, <4>4
      <4>. QED
        BY <3>1, <4>1, <4>3, <4>5 DEF NameShape, e
    <3>4. ASSUME b.rec[j].type = "text" PROVE TextShape(w, j)
      <4>1. PICK i \in 0 .. j - 1 : b.rec[i].type = "name" /\ j < i + Extent(b.rec[i])
        BY <3>4 DEF Shape, TextShape
      <4>2. i \in Positions /\ i < k
        BY <1>1, <1>6, <2>2, Places
      <4>3. w.rec[i] = b.rec[i]
        BY <1>7, <4>2
      <4>. QED
        BY <4>1, <4>3 DEF TextShape
    <3>. QED
      BY <3>1, <3>2, <3>3, <3>4
  <2>3. CASE j >= k /\ j < n - 1
    <3>0. j + 1 \in Positions /\ j + 1 < n /\ j + 1 \in Nat
      BY <1>1, <1>6, <2>3, Places
    <3>1. w.rec[j] = b.rec[j + 1]
      BY <1>8, <2>3
    <3>2. ~(j >= w.recs) /\ b.rec[j + 1].type # "empty"
      BY <1>1, <1>5, <1>6, <1>10, <2>3, <3>0
    <3>3. ASSUME b.rec[j + 1].type = "name" PROVE NameShape(w, j)
      <4>. DEFINE e == Extent(b.rec[j + 1])
      <4>1. /\ NameRecs(b.rec[j + 1].name) = e /\ j + 1 + e <= n /\ e \in Nat \ {0}
            /\ \A i \in j + 1 + 1 .. j + 1 + e - 1 : b.rec[i].type = "text"
        BY <3>0, <3>3, BlockFacts DEF Shape, NameShape, n
      <4>. HIDE DEF e
      <4>3. j + e <= w.recs
        BY <1>1, <1>5, <1>6, <4>1
      <4>4. \A i \in j + 1 .. j + e - 1 :
              i \in Positions /\ i >= k /\ i < n - 1 /\ i + 1 \in j + 1 + 1 .. j + 1 + e - 1
        BY <1>1, <1>6, <2>3, <4>1, Places
      <4>5. \A i \in j + 1 .. j + e - 1 : w.rec[i].type = "text"
        BY <1>8, <4>1, <4>4
      <4>. QED
        BY <3>1, <4>1, <4>3, <4>5 DEF NameShape, e
    <3>4. ASSUME b.rec[j + 1].type = "text" PROVE TextShape(w, j)
      <4>1. PICK i \in 0 .. (j + 1) - 1 : b.rec[i].type = "name" /\ j + 1 < i + Extent(b.rec[i])
        <5>1. TextShape(b, j + 1)
          BY <3>0, <3>4 DEF Shape
        <5>. QED
          BY <5>1 DEF TextShape
      <4>2. i \in Positions /\ i \in Nat /\ i <= j /\ Extent(b.rec[i]) \in Nat
        <5>1. i \in Positions /\ i \in Nat /\ i <= j
          BY <1>6, Places
        <5>. QED
          BY <5>1, BlockFacts
      <4>3. i # k
        <5>1. i = k => j + 1 < k + 1
          BY <4>1
        <5>. QED
          BY <1>1, <1>6, <2>3, <5>1
      <4>4. ~(i < k)
        <5>1. i < k => i + Extent(b.rec[i]) <= k
          BY <1>12, <4>1, <4>2
        <5>2. j \in Nat /\ k \in Nat
          BY <1>1, <1>6
        <5>. QED
          BY <2>3, <4>1, <4>2, <5>1, <5>2
      <4>. DEFINE p == i - 1
      <4>5. /\ p \in Positions /\ p \in 0 .. j - 1 /\ p >= k /\ p < n - 1 /\ p + 1 = i
        BY <1>1, <1>6, <2>3, <4>2, <4>3, <4>4, Places
      <4>. HIDE DEF p
      <4>6. w.rec[p] = b.rec[i]
        BY <1>8, <4>5
      <4>7. j < p + Extent(b.rec[i])
        BY <1>6, <4>1, <4>2, <4>5
      <4>. QED
        BY <4>1, <4>5, <4>6, <4>7 DEF TextShape
    <3>. QED
      BY <3>1, <3>2, <3>3, <3>4
  <2>. QED
    BY <1>1, <1>6, <2>1, <2>2, <2>3
<1>14. Shape(w)
  BY <1>13 DEF Shape
<1>15. k < n - 1 => Starts(w, k)
  <2>1. SUFFICES ASSUME k < n - 1 PROVE Starts(w, k)
    OBVIOUS
  <2>2. k + Extent(b.rec[k]) = k + 1 /\ k + 1 < n
    BY <1>1, <2>1
  <2>3. Starts(b, k + 1)
    BY <2>2, Successor DEF n
  <2>4. w.rec[k] = b.rec[k + 1]
    BY <1>1, <1>8, <2>1
  <2>. QED
    BY <1>1, <1>5, <2>1, <2>3, <2>4 DEF Starts
<1>. QED
  BY <1>4, <1>5, <1>7, <1>8, <1>14, <1>15 DEF w, n

-----------------------------------------------------------------------------
(* Tables that are written to.                                             *)

LEMMA CellsBy ==
  ASSUME NEW bs
  PROVE  /\ \A c : c \in CellsOf(bs) <=>
              c \in (DOMAIN bs) \X Positions /\ At(bs, c).type \in {"name", "reloc"}
         /\ \A c : c \in NamesOf(bs) <=> c \in CellsOf(bs) /\ At(bs, c).type = "name"
         /\ \A c : c \in LiveOf(bs) <=>
              c \in CellsOf(bs) /\ At(bs, c).type = "reloc" /\ At(bs, c).obj = "live"
BY DEF CellsOf, NamesOf, LiveOf

LEMMA Replaced ==
  ASSUME NEW bs \in Seq(BlockSet), NEW i \in DOMAIN bs, NEW w \in BlockSet
  PROVE  LET bs2 == [bs EXCEPT ![i] = w]
         IN  /\ bs2 \in Seq(BlockSet) /\ DOMAIN bs2 = DOMAIN bs /\ bs2[i] = w
             /\ \A j \in DOMAIN bs : j # i => bs2[j] = bs[j]
             /\ \A c \in (DOMAIN bs) \X Positions :
                  At(bs2, c) = IF c[1] = i THEN w.rec[c[2]] ELSE At(bs, c)
             /\ Shaped(bs) /\ Shape(w) => Shaped(bs2)
<1>. DEFINE bs2 == [bs EXCEPT ![i] = w]
<1>1. /\ bs2 \in Seq(BlockSet) /\ DOMAIN bs2 = DOMAIN bs /\ bs2[i] = w
      /\ \A j \in DOMAIN bs : j # i => bs2[j] = bs[j]
  <2>. HIDE DEF BlockSet
  <2>. QED
    OBVIOUS
<1>. HIDE DEF bs2
<1>2. \A c \in (DOMAIN bs) \X Positions :
                  At(bs2, c) = IF c[1] = i THEN w.rec[c[2]] ELSE At(bs, c)
  BY <1>1 DEF At
<1>3. Shaped(bs) /\ Shape(w) => Shaped(bs2)
  BY <1>1 DEF Shaped
<1>. QED
  BY <1>1, <1>2, <1>3 DEF bs2

\* One record more.
Extends(bs, bs2, q) ==
  /\ q \notin CellsOf(bs)
  /\ CellsOf(bs2) = CellsOf(bs) \union {q}
  /\ \A c \in CellsOf(bs) : At(bs2, c) = At(bs, c)

LEMMA NameExtends ==
  ASSUME NEW bs \in Seq(BlockSet), Shaped(bs), NEW i \in DOMAIN bs, NEW x \in Names,
         bs[i].recs + NameRecs(x) <= BlockRecs, Extent(NameRec(x)) = NameRecs(x)
  PROVE  LET bs2 == [bs EXCEPT ![i] = WithName(@, x)]
             q == <<i, bs[i].recs>>
         IN  /\ bs2 \in Seq(BlockSet) /\ Shaped(bs2) /\ Extends(bs, bs2, q)
             /\ At(bs2, q) = NameRec(x)
             /\ DOMAIN bs2 = DOMAIN bs /\ bs2[i] = WithName(bs[i], x)
<1>. DEFINE b == bs[i]
            w == WithName(b, x)
            bs2 == [bs EXCEPT ![i] = w]
            q == <<i, b.recs>>
<1>1. b \in BlockSet /\ Shape(b)
  BY DEF Shaped
<1>2. /\ w \in BlockSet /\ Shape(w) /\ b.recs \in Positions
      /\ w.rec[b.recs] = NameRec(x)
      /\ \A k \in Positions : k < b.recs => w.rec[k] = b.rec[k]
      /\ \A k \in Positions : k > b.recs => w.rec[k].type \in {"text", "empty"}
  <2>. HIDE DEF b
  <2>1. b.recs + NameRecs(x) <= BlockRecs
    BY DEF b
  <2>. QED
    BY <1>1, <2>1, WithNameShape
<1>. HIDE DEF w
<1>3. /\ bs2 \in Seq(BlockSet) /\ DOMAIN bs2 = DOMAIN bs /\ bs2[i] = w
      /\ \A c \in (DOMAIN bs) \X Positions :
           At(bs2, c) = IF c[1] = i THEN w.rec[c[2]] ELSE At(bs, c)
      /\ Shaped(bs2)
  BY <1>2, Replaced
<1>. HIDE DEF bs2, b
<1>4. /\ \A k \in Positions : k \in Nat /\ b.recs \in Nat
      /\ \A k \in Positions : k >= b.recs => b.rec[k].type = "empty"
      /\ \A k \in Positions : k < b.recs \/ k = b.recs \/ k > b.recs
  BY <1>1, BlockFacts, Places DEF Shape
<1>5. q \in (DOMAIN bs) \X Positions /\ q[1] = i /\ q[2] = b.recs
  BY <1>2
<1>6. q \notin CellsOf(bs)
  <2>1. At(bs, q).type = "empty"
    BY <1>2, <1>4, <1>5 DEF At, b
  <2>. QED
    BY <2>1, CellsBy
<1>7. At(bs2, q) = NameRec(x)
  BY <1>2, <1>3, <1>5
<1>8. ASSUME NEW c \in CellsOf(bs) PROVE At(bs2, c) = At(bs, c)
  <2>1. c \in (DOMAIN bs) \X Positions /\ At(bs, c).type \in {"name", "reloc"}
    BY CellsBy
  <2>2. CASE c[1] # i
    BY <1>3, <2>1, <2>2
  <2>3. CASE c[1] = i
    <3>1. At(bs, c) = b.rec[c[2]] /\ c[2] \in Positions
      BY <2>1, <2>3 DEF At, b
    <3>2. c[2] < b.recs
      BY <1>4, <2>1, <3>1
    <3>. QED
      BY <1>2, <1>3, <2>1, <2>3, <3>1, <3>2
  <2>. QED
    BY <2>2, <2>3
<1>9. ASSUME NEW c \in CellsOf(bs2), c # q PROVE c \in CellsOf(bs)
  <2>1. c \in (DOMAIN bs) \X Positions /\ At(bs2, c).type \in {"name", "reloc"}
    BY <1>3, CellsBy
  <2>2. CASE c[1] # i
    BY <1>3, <2>1, <2>2, CellsBy
  <2>3. CASE c[1] = i
    <3>1. c[2] # b.recs /\ c[2] \in Positions
      BY <1>9, <2>1, <2>3
    <3>2. At(bs2, c) = w.rec[c[2]] /\ At(bs, c) = b.rec[c[2]]
      BY <1>3, <2>1, <2>3 DEF At, b
    <3>3. c[2] < b.recs
      BY <1>2, <1>4, <2>1, <3>1, <3>2
    <3>4. At(bs, c) = At(bs2, c)
      BY <1>2, <3>1, <3>2, <3>3
    <3>. QED
      BY <2>1, <3>4, CellsBy
  <2>. QED
    BY <2>2, <2>3
<1>10. CellsOf(bs) \subseteq CellsOf(bs2) /\ q \in CellsOf(bs2)
  <2>1. q \in CellsOf(bs2)
    BY <1>3, <1>5, <1>7, CellsBy DEF NameRec
  <2>2. CellsOf(bs) \subseteq CellsOf(bs2)
    BY <1>3, <1>8, CellsBy
  <2>. QED
    BY <2>1, <2>2
<1>11. Extends(bs, bs2, q)
  BY <1>6, <1>8, <1>9, <1>10 DEF Extends
<1>. QED
  BY <1>3, <1>7, <1>11 DEF bs2, b, w

LEMMA RelocExtends ==
  ASSUME NEW bs \in Seq(BlockSet), Shaped(bs), NEW i \in DOMAIN bs, NEW s \in Sites, NEW x \in Nat,
         bs[i].recs < BlockRecs
  PROVE  LET bs2 == [bs EXCEPT ![i] = WithReloc(@, s, x)]
             q == <<i, bs[i].recs>>
         IN  /\ bs2 \in Seq(BlockSet) /\ Shaped(bs2) /\ Extends(bs, bs2, q)
             /\ At(bs2, q) = RelocRec(s, x)
<1>. DEFINE b == bs[i]
            w == WithReloc(b, s, x)
            bs2 == [bs EXCEPT ![i] = w]
            q == <<i, b.recs>>
<1>1. b \in BlockSet /\ Shape(b)
  BY DEF Shaped
<1>2. /\ w \in BlockSet /\ Shape(w) /\ b.recs \in Positions
      /\ w.rec[b.recs] = RelocRec(s, x)
      /\ \A k \in Positions : k # b.recs => w.rec[k] = b.rec[k]
  <2>. HIDE DEF b
  <2>1. b.recs < BlockRecs
    BY DEF b
  <2>. QED
    BY <1>1, <2>1, WithRelocShape
<1>. HIDE DEF w
<1>3. /\ bs2 \in Seq(BlockSet) /\ DOMAIN bs2 = DOMAIN bs
      /\ \A c \in (DOMAIN bs) \X Positions :
           At(bs2, c) = IF c[1] = i THEN w.rec[c[2]] ELSE At(bs, c)
      /\ Shaped(bs2)
  BY <1>2, Replaced
<1>. HIDE DEF bs2, b
<1>5. q \in (DOMAIN bs) \X Positions /\ q[1] = i /\ q[2] = b.recs
  BY <1>2
<1>6. q \notin CellsOf(bs)
  <2>1. b.recs >= b.recs
    BY <1>1, BlockFacts
  <2>2. At(bs, q).type = "empty"
    BY <1>1, <1>2, <1>5, <2>1 DEF At, b, Shape
  <2>. QED
    BY <2>2, CellsBy
<1>7. At(bs2, q) = RelocRec(s, x)
  BY <1>2, <1>3, <1>5
<1>8. ASSUME NEW c \in (DOMAIN bs) \X Positions, c # q PROVE At(bs2, c) = At(bs, c)
  <2>1. CASE c[1] # i
    BY <1>3, <2>1
  <2>2. CASE c[1] = i
    <3>1. c[2] # b.recs /\ c[2] \in Positions
      BY <1>8, <2>2
    <3>. QED
      BY <1>2, <1>3, <2>2, <3>1 DEF At, b
  <2>. QED
    BY <2>1, <2>2
<1>9. q \in CellsOf(bs2)
  BY <1>3, <1>5, <1>7, CellsBy DEF RelocRec
<1>10. \A c : c # q => (c \in CellsOf(bs) <=> c \in CellsOf(bs2))
  BY <1>3, <1>8, CellsBy
<1>11. Extends(bs, bs2, q)
  <2>1. CellsOf(bs2) = CellsOf(bs) \union {q}
    BY <1>9, <1>10
  <2>2. \A c \in CellsOf(bs) : c # q /\ c \in (DOMAIN bs) \X Positions
    BY <1>6, CellsBy
  <2>3. \A c \in CellsOf(bs) : At(bs2, c) = At(bs, c)
    BY <1>8, <2>2
  <2>. QED
    BY <1>6, <2>1, <2>3 DEF Extends
<1>. QED
  BY <1>3, <1>7, <1>11 DEF bs2, b, w

\* Blocks without records make no difference.
LEMMA EmptyBlock ==
  ASSUME NEW bs \in Seq(BlockSet), Shaped(bs)
  PROVE  LET bs2 == Append(bs, NewBlock)
         IN  /\ bs2 \in Seq(BlockSet) /\ Shaped(bs2)
             /\ CellsOf(bs2) = CellsOf(bs)
             /\ \A c \in CellsOf(bs) : At(bs2, c) = At(bs, c)
             /\ Len(bs) + 1 \in DOMAIN bs2 /\ bs2[Len(bs) + 1] = NewBlock /\ NewBlock.recs = 0
<1>. DEFINE n == Len(bs) + 1
            bs2 == Append(bs, NewBlock)
<1>1. /\ NewBlock \in BlockSet /\ NewBlock.recs = 0
      /\ \A k \in Positions : NewBlock.rec[k] = Empty /\ NewBlock.rec[k].type = "empty"
  BY RecFacts, Places DEF NewBlock, BlockSet, Empty
<1>2. Shape(NewBlock)
  BY <1>1, Places DEF Shape
<1>. HIDE DEF NewBlock
<1>3. /\ bs2 \in Seq(BlockSet) /\ n \notin DOMAIN bs
      /\ \A i : i \in DOMAIN bs2 <=> i \in DOMAIN bs \/ i = n
      /\ bs2[n] = NewBlock /\ \A i \in DOMAIN bs : bs2[i] = bs[i]
  <2>. HIDE DEF BlockSet
  <2>. QED
    BY <1>1
<1>. HIDE DEF bs2
<1>4. Shaped(bs2)
  BY <1>2, <1>3 DEF Shaped
<1>5. \A c \in (DOMAIN bs) \X Positions : c \in (DOMAIN bs2) \X Positions /\ At(bs2, c) = At(bs, c)
  BY <1>3 DEF At
<1>6. \A c \in (DOMAIN bs2) \X Positions :
        c \in (DOMAIN bs) \X Positions \/ At(bs2, c).type = "empty"
  BY <1>1, <1>3 DEF At
<1>7. \A c : c \in CellsOf(bs2) <=> c \in CellsOf(bs)
  BY <1>5, <1>6, CellsBy
<1>8. \A c \in CellsOf(bs) : At(bs2, c) = At(bs, c)
  BY <1>5, CellsBy
<1>. QED
  BY <1>1, <1>3, <1>4, <1>7, <1>8 DEF bs2

\* What of a table only depends on its records.
SameCells(bs, bs2) ==
  /\ CellsOf(bs2) = CellsOf(bs)
  /\ \A c \in CellsOf(bs) : At(bs2, c) = At(bs, c)

LEMMA SameTables ==
  ASSUME NEW bs, NEW bs2, SameCells(bs, bs2)
  PROVE  /\ NamesOf(bs2) = NamesOf(bs) /\ LiveOf(bs2) = LiveOf(bs)
         /\ \A P : Recorded(bs, P) => Recorded(bs2, P)
         /\ \A M : Named(bs, M) => Named(bs2, M)
         /\ AllUsed(bs) => AllUsed(bs2)
<1>1. /\ \A c : c \in CellsOf(bs2) <=> c \in CellsOf(bs)
      /\ \A c \in CellsOf(bs) : At(bs2, c) = At(bs, c)
  BY DEF SameCells
<1>2. NamesOf(bs2) = NamesOf(bs) /\ LiveOf(bs2) = LiveOf(bs)
  BY DEF NamesOf, LiveOf, SameCells
<1>3. ASSUME NEW P, Recorded(bs, P) PROVE Recorded(bs2, P)
  <2>1. \A c \in LiveOf(bs) : At(bs2, c) = At(bs, c)
    BY <1>1, CellsBy
  <2>. QED
    BY <1>2, <1>3, <2>1 DEF Recorded
<1>4. ASSUME NEW M, Named(bs, M) PROVE Named(bs2, M)
  <2>1. \A c \in LiveOf(bs) : \A n \in NamesOf(bs) : LeadsTo(bs, c, n) => LeadsTo(bs2, c, n)
    BY <1>1, <1>2, CellsBy DEF LeadsTo
  <2>2. \A c \in LiveOf(bs) : At(bs2, c) = At(bs, c)
    BY <1>1, CellsBy
  <2>. QED
    BY <1>2, <1>4, <2>1, <2>2 DEF Named
<1>5. AllUsed(bs) => AllUsed(bs2)
  BY <1>1 DEF AllUsed
<1>. QED
  BY <1>2, <1>3, <1>4, <1>5

LEMMA SpareTable ==
  ASSUME blocks \in Seq(BlockSet), Shaped(blocks)
  PROVE  Shaped(Blocks) /\ SameCells(blocks, Blocks)
<1>1. \/ Blocks = blocks
      \/ Blocks = Append(blocks, NewBlock)
  BY SpareBlock
<1>2. CASE Blocks = blocks
  BY <1>2 DEF SameCells
<1>3. CASE Blocks = Append(blocks, NewBlock)
  BY <1>3, EmptyBlock DEF SameCells
<1>. QED
  BY <1>1, <1>2, <1>3

LEMMA ExtendUsed ==
  ASSUME NEW bs, NEW bs2, NEW q, Extends(bs, bs2, q), AllUsed(bs), ~Unused(At(bs2, q))
  PROVE  AllUsed(bs2)
BY DEF Extends, AllUsed

LEMMA ExtendsGrows ==
  ASSUME NEW bs, NEW bs2, NEW q, Extends(bs, bs2, q)
  PROVE  /\ At(bs2, q).type = "name" => Grows(bs, bs2, {q}, {})
         /\ At(bs2, q).type = "reloc" /\ At(bs2, q).obj = "live" => Grows(bs, bs2, {}, {q})
<1>1. /\ q \notin CellsOf(bs) /\ \A c : c \in CellsOf(bs2) <=> c \in CellsOf(bs) \/ c = q
      /\ \A c \in CellsOf(bs) : At(bs2, c) = At(bs, c)
  BY DEF Extends
<1>2. /\ \A c \in LiveOf(bs) : At(bs2, c) = At(bs, c)
      /\ \A n \in NamesOf(bs) : /\ At(bs2, n).name = At(bs, n).name
                                /\ At(bs, n).refs > 0 => At(bs2, n).refs > 0
  <2>1. LiveOf(bs) \subseteq CellsOf(bs) /\ NamesOf(bs) \subseteq CellsOf(bs)
    BY DEF LiveOf, NamesOf
  <2>. QED
    BY <1>1, <2>1
<1>3. At(bs2, q).type = "name" => NamesOf(bs2) = NamesOf(bs) \union {q} /\ LiveOf(bs2) = LiveOf(bs) \union {}
  BY <1>1 DEF NamesOf, LiveOf
<1>4. At(bs2, q).type = "reloc" /\ At(bs2, q).obj = "live" =>
        NamesOf(bs2) = NamesOf(bs) \union {} /\ LiveOf(bs2) = LiveOf(bs) \union {q}
  BY <1>1 DEF NamesOf, LiveOf
<1>. QED
  BY <1>2, <1>3, <1>4 DEF Grows

LEMMA GrowsGrows ==
  ASSUME NEW bs, NEW bs2, NEW bs3, NEW Q, NEW Q2, NEW R, NEW R2,
         Grows(bs, bs2, Q, R), Grows(bs2, bs3, Q2, R2)
  PROVE  Grows(bs, bs3, Q \union Q2, R \union R2)
BY DEF Grows

-----------------------------------------------------------------------------
(* Adding a relocation.                                                    *)

LEMMA OwingFinite ==
  ASSUME TypeInv, NEW o, NEW S, S \subseteq Sites, \A s \in S : s[1] = o
  PROVE  IsFiniteSet(S) /\ Cardinality(S) \in Nat
<1>1. CASE o \in Objs
  <2>1. S \subseteq {o} \X (DOMAIN Wants[o])
    BY SiteFacts
  <2>2. IsFiniteSet(DOMAIN Wants[o])
    <3>1. DOMAIN Wants[o] = 1 .. Len(Wants[o]) /\ Len(Wants[o]) \in Nat
      BY <1>1, SiteFacts
    <3>. QED
      BY <3>1, FS_Interval
  <2>3. IsFiniteSet({o} \X (DOMAIN Wants[o]))
    BY <2>2, FS_Singleton, FS_Product
  <2>. QED
    BY <2>1, <2>3, FS_Subset, FS_CardinalityType
<1>2. CASE o \notin Objs
  <2>1. S = {}
    BY <1>2, SiteFacts
  <2>. QED
    BY <2>1, FS_EmptySet
<1>. QED
  BY <1>1, <1>2

LEMMA PendingBy ==
  /\ Pending \subseteq Sites
  /\ \A s \in Sites : s \in Pending <=> /\ value[s] = NoName /\ s \notin failed
                                        /\ s[1] \in loaded \/ (s[1] = loading /\ s[2] < next)
BY DEF Pending

\* What an addition does apart from the table.
LEMMA AddedRest ==
  ASSUME TypeInv, FreshInv, WaitInv, CountInv, Unknown, Added, misnamed \subseteq misnamed'
  PROVE  /\ Site \notin Pending /\ Pending' = Pending \union {Site}
         /\ FreshInv' /\ WaitInv' /\ CountInv' /\ pc = "load" /\ pc' = "load"
<1>1. /\ pc = "load" /\ loading \in Objs /\ next \in DOMAIN Wants[loading] /\ next \in Nat
      /\ Site \in Sites /\ Site[1] = loading /\ Site[2] = next /\ Site = <<loading, next>>
      /\ Symbol = Wanted(Site) /\ Symbol \notin Known /\ loading \notin loaded
  BY MetSite DEF Unknown, MoreRelocs, Site, TypeInv, TypeOK
<1>2. /\ next' = next + 1 /\ count' = [count EXCEPT ![loading] = @ + 1]
      /\ UNCHANGED <<loaded, loading, pc, value, failed>>
  BY DEF Added
<1>3. value[Site] = NoName /\ Site \notin failed
  <2>1. next >= next
    BY <1>1
  <2>. QED
    BY <1>1, <2>1 DEF FreshInv
<1>4. Site \notin Pending
  <2>1. ~(next < next)
    BY <1>1
  <2>. QED
    BY <1>1, <2>1, PendingBy
<1>5. Pending' = Pending \union {Site}
  <2>1. \A s \in Sites : s[1] = loading =>
          s[2] \in Nat /\ (s[2] < next + 1 <=> s[2] < next \/ s[2] = next)
                       /\ (s[2] = next => s = Site)
    <3>1. DOMAIN Wants[loading] = 1 .. Len(Wants[loading])
      BY <1>1, SiteFacts
    <3>2. \A s \in Sites : s[1] = loading => s[2] \in Nat /\ s = <<loading, s[2]>>
      BY <3>1, SiteFacts
    <3>. QED
      BY <1>1, <3>2
  <2>. DEFINE Waits(s, n) == /\ value[s] = NoName /\ s \notin failed
                             /\ s[1] \in loaded \/ (s[1] = loading /\ s[2] < n)
  <2>2. ASSUME NEW s \in Sites
        PROVE  Waits(s, next + 1) <=> Waits(s, next) \/ s = Site
    <3>1. CASE s = Site
      <4>1. next < next + 1
        BY <1>1
      <4>. QED
        BY <1>1, <1>3, <3>1, <4>1
    <3>2. CASE s # Site
      BY <2>1, <3>2
    <3>. QED
      BY <3>1, <3>2
  <2>3. Pending = {s \in Sites : Waits(s, next)}
    BY DEF Pending
  <2>4. Pending' = {s \in Sites : Waits(s, next + 1)}
    BY <1>2, Zenon DEF Pending
  <2>. HIDE DEF Waits
  <2>. QED
    BY <1>1, <2>2, <2>3, <2>4
<1>6. FreshInv'
  <2>1. \A i \in DOMAIN Wants[loading] : i >= next + 1 => i >= next
    BY <1>1, SiteFacts
  <2>. QED
    BY <1>1, <1>2, <2>1 DEF FreshInv
<1>7. WaitInv'
  <2>1. Exported(loaded) \subseteq Known
    BY DEF Exported, Known
  <2>2. \A s \in Pending \ misnamed : Wanted(s) \notin Exported(loaded)
    BY <1>1 DEF WaitInv
  <2>3. \A s \in Pending' \ misnamed' : Wanted(s) \notin Exported(loaded)
    BY <1>1, <1>5, <2>1, <2>2
  <2>. QED
    BY <1>2, <2>3 DEF WaitInv
<1>8. CountInv'
  <2>1. SUFFICES ASSUME NEW o \in loaded \union {loading}
                 PROVE  count'[o] = Cardinality({s \in Pending' \union failed' : s[1] = o})
    BY <1>2 DEF CountInv, Owing
  <2>2. o \in Objs /\ count[o] = Cardinality(Owing(o)) /\ count \in [Objs -> Nat]
    BY <1>1, <2>1, SiteFacts DEF CountInv, TypeInv, TypeOK
  <2>. DEFINE S == {s \in Pending' \union failed' : s[1] = o}
  <2>3. CASE o # loading
    <3>1. S = Owing(o)
      BY <1>1, <1>2, <1>5, <2>3 DEF Owing
    <3>2. count'[o] = count[o]
      BY <1>2, <2>2, <2>3
    <3>. QED
      BY <2>2, <3>1, <3>2
  <2>4. CASE o = loading
    <3>1. S = Owing(o) \union {Site}
      BY <1>1, <1>2, <1>5, <2>4 DEF Owing
    <3>2. Site \notin Owing(o)
      BY <1>3, <1>4 DEF Owing
    <3>3. IsFiniteSet(Owing(o)) /\ Cardinality(Owing(o)) \in Nat
      <4>1. Owing(o) \subseteq Sites /\ \A s \in Owing(o) : s[1] = o
        BY PendingBy DEF Owing, TypeInv, TypeOK
      <4>. QED
        BY <4>1, OwingFinite
    <3>4. Cardinality(Owing(o) \union {Site}) = Cardinality(Owing(o)) + 1
      BY <3>2, <3>3, FS_AddElement
    <3>5. count'[o] = count[o] + 1
      BY <1>2, <2>2, <2>4
    <3>. QED
      BY <2>2, <3>1, <3>4, <3>5
  <2>. QED
    BY <2>3, <2>4
<1>. QED
  BY <1>1, <1>2, <1>4, <1>5, <1>6, <1>7, <1>8

LEMMA SameExtends ==
  ASSUME NEW bs, NEW bs2, NEW bs3, NEW q, SameCells(bs, bs2), Extends(bs2, bs3, q)
  PROVE  Extends(bs, bs3, q)
BY DEF SameCells, Extends

\* The table with the new name, at place q.
LEMMA NewName ==
  ASSUME TypeInv, Shaped(blocks), AllUsed(blocks), MoreRelocs, StepsRight, FitsIn(Blocks[Block])
  PROVE  LET named == [Blocks EXCEPT ![Block] = WithName(@, Symbol)]
             q == <<Block, Blocks[Block].recs>>
         IN  /\ named \in Seq(BlockSet) /\ Shaped(named) /\ AllUsed(named)
             /\ Extends(blocks, named, q) /\ Grows(blocks, named, {q}, {})
             /\ At(named, q) = NameRec(Symbol)
             /\ Block \in DOMAIN named /\ named[Block] = WithName(Blocks[Block], Symbol)
             /\ \A c \in LiveOf(blocks) : \A n \in NamesOf(blocks) :
                  At(blocks, c).site \notin Displaced /\ LeadsTo(blocks, c, n) => ~Before(q, n)
             /\ Site \notin Displaced => Rank(NamesOf(named), q) = NewIndex
<1>. DEFINE bs == Blocks
            b == bs[Block]
            named == [bs EXCEPT ![Block] = WithName(@, Symbol)]
            q == <<Block, b.recs>>
            N == NamesOf(blocks)
<1>1. /\ blocks \in Seq(BlockSet) /\ bs \in Seq(BlockSet) /\ Block \in DOMAIN bs
      /\ \A i \in DOMAIN blocks : bs[i] = blocks[i]
      /\ \/ Block \in DOMAIN blocks
         \/ Block = Len(blocks) + 1
  BY SpareBlock DEF TypeInv
<1>2. Shaped(bs) /\ SameCells(blocks, bs)
  BY <1>1, SpareTable
<1>3. Symbol \in Names /\ Symbol = Wanted(Site) /\ Site \in Sites
  BY MetSite
<1>4. b \in BlockSet /\ b.recs \in Nat /\ b.recs + NameRecs(Symbol) <= BlockRecs
  <2>1. b \in BlockSet /\ b.recs \in Nat
    BY <1>1, CellTypes, BlockFacts
  <2>2. NameRecs(Symbol) \in Nat /\ BlockRecs \in Nat
    BY <1>3, Sizes, Places
  <2>. QED
    BY <2>1, <2>2 DEF FitsIn
<1>5. /\ named \in Seq(BlockSet) /\ Shaped(named) /\ Extends(bs, named, q)
      /\ At(named, q) = NameRec(Symbol)
      /\ Block \in DOMAIN named /\ named[Block] = WithName(b, Symbol)
  BY <1>1, <1>2, <1>3, <1>4, NameExtends DEF StepsRight
<1>. HIDE DEF named, bs
<1>6. Extends(blocks, named, q)
  BY <1>2, <1>5, SameExtends
<1>7. Grows(blocks, named, {q}, {})
  BY <1>5, <1>6, ExtendsGrows DEF NameRec
<1>8. AllUsed(named)
  <2>1. ~Unused(At(named, q))
    BY <1>5 DEF NameRec, Unused
  <2>. QED
    BY <1>6, <2>1, ExtendUsed
<1>9. \A c \in N : /\ c[1] \in Nat /\ c[2] \in Nat /\ c \in Nat \X Nat
                   /\ c[1] = Block => c[2] < b.recs
  <2>1. ASSUME NEW c \in N PROVE c[1] = Block => c[2] < b.recs
    <3>1. c \in (DOMAIN blocks) \X Positions /\ At(blocks, c).type = "name" /\ c[2] \in Nat
      BY <1>1, TableTypes DEF NamesOf
    <3>2. Shape(blocks[c[1]]) /\ c[2] \in Positions
      BY <3>1 DEF Shaped
    <3>3. ~(c[2] >= blocks[c[1]].recs)
      BY <3>1, <3>2 DEF Shape, At
    <3>4. c[1] = Block => blocks[c[1]].recs = b.recs
      BY <1>1, <3>1
    <3>. QED
      BY <1>4, <3>1, <3>3, <3>4
  <2>. QED
    BY <1>1, <2>1, TableTypes
<1>10. Block \in Nat /\ q[1] = Block /\ q[2] = b.recs /\ q \in Nat \X Nat
  BY <1>1, <1>4
<1>. HIDE DEF b, q, N
<1>11. \A n \in N : n[1] <= Block => Before(n, q) /\ ~Before(q, n)
  BY <1>4, <1>9, <1>10 DEF Before
<1>12. NameCells = N /\ RelocCells = {c \in CellsOf(blocks) : At(blocks, c).type = "reloc"}
       /\ \A c : Rec(c) = At(blocks, c)
  BY <1>1, CellsAreRecords DEF N
<1>13. IsFiniteSet(N) /\ N \subseteq CellsOf(blocks)
       /\ \A S : S \subseteq N => IsFiniteSet(S) /\ Cardinality(S) \in Nat
  BY <1>1, TableTypes DEF N
<1>14. ASSUME NEW c \in LiveOf(blocks), NEW n \in N,
              At(blocks, c).site \notin Displaced, LeadsTo(blocks, c, n)
       PROVE  ~Before(q, n)
  <2>1. CASE n[1] <= Block
    BY <1>11, <2>1
  <2>2. CASE ~(n[1] <= Block)
    <3>. DEFINE front == NameCells \ Behind
                Up == {d \in N : Before(d, n)}
    <3>1. n \in Behind /\ Behind # {}
      <4>1. n[1] > Block
        BY <1>9, <1>10, <2>2
      <4>. QED
        BY <1>12, <4>1 DEF Behind
    <3>2. c \in RelocCells /\ Rec(c).obj = "live" /\ Rec(c) = At(blocks, c)
      BY <1>12 DEF LiveOf
    <3>3. ~(Rec(c).name >= Cardinality(front) + 1)
      <4>. HIDE DEF front
      <4>1. Rec(c).name >= Cardinality(front) + 1 => Rec(c).site \in Displaced
        BY <3>1, <3>2 DEF Displaced, front
      <4>. QED
        BY <1>14, <3>2, <4>1
    <3>4. Rec(c).name = Cardinality(Up)
      BY <1>14, <3>2 DEF LeadsTo, Rank, N
    <3>5. front \subseteq N /\ n \notin front
      BY <1>12, <3>1
    <3>6. \A d \in front : d[1] <= Block
      BY <1>9, <1>10, <1>12 DEF Behind
    <3>7. front \union {n} \subseteq Up
      <4>1. \A d \in front : Before(d, n)
        BY <1>9, <1>10, <2>2, <3>5, <3>6 DEF Before
      <4>2. Before(n, n)
        BY <1>9 DEF Before
      <4>. QED
        BY <3>5, <4>1, <4>2
    <3>8. Up \subseteq N
      OBVIOUS
    <3>. HIDE DEF front, Up
    <3>9. IsFiniteSet(front) /\ Cardinality(front) \in Nat /\ IsFiniteSet(Up) /\ Cardinality(Up) \in Nat
      BY <1>13, <3>5, <3>8
    <3>10. Cardinality(front \union {n}) = Cardinality(front) + 1
      BY <3>5, <3>9, FS_AddElement
    <3>11. Cardinality(front \union {n}) <= Cardinality(Up)
      BY <3>7, <3>9, FS_Subset
    <3>. QED
      BY <3>3, <3>4, <3>9, <3>10, <3>11
  <2>. QED
    BY <2>1, <2>2
<1>15. ASSUME Site \notin Displaced PROVE Rank(NamesOf(named), q) = NewIndex
  <2>1. Behind = {}
    BY <1>15 DEF Displaced
  <2>2. \A n \in N : n[1] <= Block
    BY <1>9, <1>10, <1>12, <2>1 DEF Behind
  <2>3. NamesOf(named) = N \union {q}
    BY <1>7 DEF Grows, N
  <2>4. Before(q, q)
    BY <1>10, Order
  <2>5. {d \in NamesOf(named) : Before(d, q)} = N \union {q}
    <3>1. \A d \in N \union {q} : Before(d, q)
      BY <1>11, <2>2, <2>4
    <3>. QED
      BY <2>3, <3>1
  <2>6. q \notin N
    BY <1>6 DEF Extends, N, NamesOf
  <2>7. Cardinality(N \union {q}) = Cardinality(N) + 1
    BY <1>13, <2>6, FS_AddElement
  <2>. QED
    BY <1>12, <2>5, <2>7 DEF Rank, NewIndex
<1>. QED
  BY <1>5, <1>6, <1>7, <1>8, <1>14, <1>15 DEF named, q, b, bs, N


\* The table with a relocation more, at the end of block i.
RelocGoes(bs, Q, i, x) ==
  /\ bs \in Seq(BlockSet) /\ Shaped(bs) /\ AllUsed(bs) /\ Grows(blocks, bs, Q, {})
  /\ \A c \in LiveOf(blocks) : \A n \in NamesOf(blocks) :
       At(blocks, c).site \notin misnamed' /\ LeadsTo(blocks, c, n) => \A q \in Q : ~Before(q, n)
  /\ i \in DOMAIN bs /\ bs[i].recs < BlockRecs /\ x \in Nat
  /\ blocks' = [bs EXCEPT ![i] = WithReloc(@, Site, x)]
  /\ Site \notin misnamed' =>
       \E n \in NamesOf(bs) : Rank(NamesOf(bs), n) = x /\ At(bs, n).name = Symbol

LEMMA RelocAdded ==
  ASSUME TypeInv, TableInv, Unknown, Added, misnamed \subseteq misnamed',
         NEW bs, NEW Q, NEW i, NEW x, RelocGoes(bs, Q, i, x)
  PROVE  TableInv'
<1>0. /\ bs \in Seq(BlockSet) /\ Shaped(bs) /\ AllUsed(bs) /\ Grows(blocks, bs, Q, {})
      /\ \A c \in LiveOf(blocks) : \A n \in NamesOf(blocks) :
           At(blocks, c).site \notin misnamed' /\ LeadsTo(blocks, c, n) => \A q \in Q : ~Before(q, n)
      /\ i \in DOMAIN bs /\ bs[i].recs < BlockRecs /\ x \in Nat
      /\ blocks' = [bs EXCEPT ![i] = WithReloc(@, Site, x)]
      /\ Site \notin misnamed' =>
           \E n \in NamesOf(bs) : Rank(NamesOf(bs), n) = x /\ At(bs, n).name = Symbol
  BY DEF RelocGoes
<1>. DEFINE q == <<i, bs[i].recs>>
<1>1. /\ blocks \in Seq(BlockSet) /\ Recorded(blocks, Pending) /\ Named(blocks, misnamed)
      /\ FreshInv /\ WaitInv /\ CountInv
  BY DEF TypeInv, TableInv
<1>2. /\ Site \notin Pending /\ Pending' = Pending \union {Site}
      /\ FreshInv' /\ WaitInv' /\ CountInv' /\ pc' = "load"
  BY <1>1, AddedRest
<1>3. Site \in Sites /\ Symbol = Wanted(Site)
  BY MetSite DEF Unknown
<1>4. PICK bs2 : bs2 = blocks'
  OBVIOUS
<1>5. /\ bs2 \in Seq(BlockSet) /\ Shaped(bs2) /\ Extends(bs, bs2, q)
      /\ At(bs2, q) = RelocRec(Site, x)
  BY <1>0, <1>3, <1>4, RelocExtends
<1>. HIDE DEF q
<1>6. /\ At(bs2, q).type = "reloc" /\ At(bs2, q).obj = "live" /\ At(bs2, q).site = Site
      /\ At(bs2, q).name = x
  BY <1>5 DEF RelocRec
<1>7. Grows(bs, bs2, {}, {q})
  BY <1>5, <1>6, ExtendsGrows
<1>8. Grows(blocks, bs2, Q, {q})
  <2>1. Grows(blocks, bs2, Q \union {}, {} \union {q})
    BY <1>0, <1>7, GrowsGrows
  <2>2. Q \union {} = Q /\ {} \union {q} = {q}
    OBVIOUS
  <2>. QED
    BY <2>1, <2>2
<1>9. Recorded(bs2, Pending \union {Site})
  BY <1>0, <1>1, <1>2, <1>5, <1>6, <1>8, GrowRecorded
<1>10. AllUsed(bs2)
  <2>1. ~Unused(At(bs2, q))
    BY <1>6 DEF Unused
  <2>. QED
    BY <1>0, <1>5, <2>1, ExtendUsed
<1>11. Named(bs2, misnamed')
  <2>1. ASSUME Site \notin misnamed' PROVE \E n \in NamesOf(bs2) : LeadsTo(bs2, q, n)
    <3>1. PICK n \in NamesOf(bs) : Rank(NamesOf(bs), n) = x /\ At(bs, n).name = Symbol
      BY <1>0, <2>1
    <3>2. NamesOf(bs2) = NamesOf(bs) /\ At(bs2, n).name = At(bs, n).name
      BY <1>7 DEF Grows
    <3>3. \A m \in NamesOf(bs2) : At(bs2, m).refs > 0
      <4>1. ASSUME NEW m \in NamesOf(bs2) PROVE At(bs2, m).refs > 0
        <5>1. m \in CellsOf(bs2) /\ At(bs2, m).type = "name" /\ At(bs2, m) \in RecSet
          BY <1>5, TableTypes DEF NamesOf
        <5>2. At(bs2, m).refs # 0
          BY <1>10, <5>1 DEF AllUsed, Unused
        <5>3. PICK r \in RecSet : r = At(bs2, m)
          BY <5>1
        <5>4. r.refs \in Nat
          BY <5>1, <5>3, RecFacts
        <5>. QED
          BY <5>2, <5>3, <5>4
      <4>. QED
        BY <4>1
    <3>. QED
      BY <1>3, <1>6, <3>1, <3>2, <3>3 DEF LeadsTo
  <2>2. \A r \in {q} : At(bs2, r).site \notin misnamed' => \E n \in NamesOf(bs2) : LeadsTo(bs2, r, n)
    BY <1>6, <2>1
  <2>3. PICK M2 : M2 = misnamed'
    OBVIOUS
  <2>4. /\ misnamed \subseteq M2 /\ Named(blocks, misnamed)
        /\ \A c \in LiveOf(blocks) : \A n \in NamesOf(blocks) :
             At(blocks, c).site \notin M2 /\ LeadsTo(blocks, c, n) => \A p \in Q : ~Before(p, n)
        /\ \A r \in {q} : At(bs2, r).site \notin M2 => \E n \in NamesOf(bs2) : LeadsTo(bs2, r, n)
    BY <1>0, <1>1, <2>2, <2>3
  <2>5. Named(bs2, M2)
    BY <1>1, <1>5, <1>8, <2>4, GrowNamed
  <2>. QED
    BY <2>3, <2>5
<1>. QED
  BY <1>2, <1>4, <1>5, <1>9, <1>10, <1>11 DEF TableInv, CompactInv, Shaped

LEMMA AddNameTable ==
  ASSUME TypeInv, TableInv, AddName, sound'
  PROVE  TableInv'
<1>. DEFINE b == Blocks[Block]
            named == [Blocks EXCEPT ![Block] = WithName(@, Symbol)]
            q == <<Block, b.recs>>
<1>1. /\ Unknown /\ NameFits(b) /\ Added /\ StepsRight /\ misnamed' = misnamed \union Displaced
      /\ blocks' = [Blocks EXCEPT ![Block] = WithReloc(WithName(@, Symbol), Site, NewIndex)]
  BY DEF AddName
<1>2. Shaped(blocks) /\ AllUsed(blocks) /\ MoreRelocs /\ blocks \in Seq(BlockSet)
  BY <1>1 DEF TableInv, Shaped, CompactInv, TypeInv, Unknown, MoreRelocs
<1>3. Symbol \in Names /\ NewIndex \in Nat
  BY <1>2, MetSite, OrdinalType
<1>4. /\ b.recs \in Nat /\ b.recs + NameRecs(Symbol) < BlockRecs /\ FitsIn(b)
      /\ WithName(b, Symbol).recs < BlockRecs
  <2>1. b.recs \in Nat
    BY <1>2, SpareBlock, CellTypes, BlockFacts
  <2>2. NameRecs(Symbol) \in Nat /\ BlockRecs \in Nat
    BY <1>3, Sizes, Places
  <2>. QED
    BY <1>1, <2>1, <2>2 DEF NameFits, FitsIn, WithName
<1>5. /\ named \in Seq(BlockSet) /\ Shaped(named) /\ AllUsed(named)
      /\ Grows(blocks, named, {q}, {})
      /\ At(named, q) = NameRec(Symbol)
      /\ Block \in DOMAIN named /\ named[Block] = WithName(b, Symbol)
      /\ \A c \in LiveOf(blocks) : \A n \in NamesOf(blocks) :
           At(blocks, c).site \notin Displaced /\ LeadsTo(blocks, c, n) => ~Before(q, n)
      /\ Site \notin Displaced => Rank(NamesOf(named), q) = NewIndex
  BY <1>1, <1>2, <1>4, NewName
<1>6. blocks' = [named EXCEPT ![Block] = WithReloc(@, Site, NewIndex)]
  <2>1. Blocks \in Seq(BlockSet) /\ Block \in DOMAIN Blocks
    BY <1>2, SpareBlock
  <2>. HIDE DEF BlockSet
  <2>2. named[Block] = WithName(b, Symbol) /\ DOMAIN named = DOMAIN Blocks
        /\ \A j \in DOMAIN Blocks : j # Block => named[j] = Blocks[j]
    BY <2>1
  <2>3. PICK w : w = WithReloc(WithName(b, Symbol), Site, NewIndex)
    OBVIOUS
  <2>4. blocks' = [Blocks EXCEPT ![Block] = w]
    BY <1>1, <2>3
  <2>5. [named EXCEPT ![Block] = WithReloc(@, Site, NewIndex)] = [named EXCEPT ![Block] = w]
    BY <2>2, <2>3
  <2>6. [named EXCEPT ![Block] = w] = [Blocks EXCEPT ![Block] = w]
    <3>. HIDE DEF named
    <3>. QED
      BY <2>1, <2>2
  <2>. QED
    BY <2>4, <2>5, <2>6
<1>. HIDE DEF named, q, b
<1>7. q \in NamesOf(named) /\ At(named, q).name = Symbol
  BY <1>5 DEF Grows, NameRec
<1>8. \A c \in LiveOf(blocks) : \A n \in NamesOf(blocks) :
        At(blocks, c).site \notin misnamed' /\ LeadsTo(blocks, c, n) => \A p \in {q} : ~Before(p, n)
  BY <1>1, <1>5
<1>9. Site \notin misnamed' =>
        \E n \in NamesOf(named) : Rank(NamesOf(named), n) = NewIndex /\ At(named, n).name = Symbol
  BY <1>1, <1>5, <1>7
<1>10. named[Block].recs < BlockRecs /\ misnamed \subseteq misnamed'
  BY <1>1, <1>4, <1>5
<1>11. RelocGoes(named, {q}, Block, NewIndex)
  BY <1>3, <1>5, <1>6, <1>8, <1>9, <1>10 DEF RelocGoes
<1>. QED
  BY <1>1, <1>10, <1>11, RelocAdded

LEMMA AddFullTable ==
  ASSUME TypeInv, TableInv, AddFull, sound'
  PROVE  TableInv'
<1>. DEFINE b == Blocks[Block]
            named == [Blocks EXCEPT ![Block] = WithName(@, Symbol)]
            longer == Append(named, NewBlock)
            q == <<Block, b.recs>>
<1>1. /\ Unknown /\ FitsIn(b) /\ Added /\ StepsRight /\ misnamed' = misnamed \union Displaced
      /\ blocks' = Append(named, WithReloc(NewBlock, Site, NewIndex))
  BY DEF AddFull
<1>2. Shaped(blocks) /\ AllUsed(blocks) /\ MoreRelocs /\ blocks \in Seq(BlockSet)
  BY <1>1 DEF TableInv, Shaped, CompactInv, TypeInv, Unknown, MoreRelocs
<1>3. NewIndex \in Nat /\ BlockRecs \in Nat \ {0}
  BY <1>2, OrdinalType, Places
<1>5. /\ named \in Seq(BlockSet) /\ Shaped(named) /\ AllUsed(named)
      /\ Grows(blocks, named, {q}, {})
      /\ At(named, q) = NameRec(Symbol)
      /\ \A c \in LiveOf(blocks) : \A n \in NamesOf(blocks) :
           At(blocks, c).site \notin Displaced /\ LeadsTo(blocks, c, n) => ~Before(q, n)
      /\ Site \notin Displaced => Rank(NamesOf(named), q) = NewIndex
  BY <1>1, <1>2, NewName
<1>. HIDE DEF named, q, b
<1>6. /\ longer \in Seq(BlockSet) /\ Shaped(longer) /\ SameCells(named, longer)
      /\ Len(named) + 1 \in DOMAIN longer /\ longer[Len(named) + 1] = NewBlock /\ NewBlock.recs = 0
  BY <1>5, EmptyBlock DEF SameCells
<1>7. blocks' = [longer EXCEPT ![Len(named) + 1] = WithReloc(@, Site, NewIndex)]
  <2>1. PICK w : w = WithReloc(NewBlock, Site, NewIndex)
    OBVIOUS
  <2>2. blocks' = Append(named, w)
    BY <1>1, <2>1
  <2>3. [longer EXCEPT ![Len(named) + 1] = WithReloc(@, Site, NewIndex)]
          = [longer EXCEPT ![Len(named) + 1] = w]
    BY <1>6, <2>1
  <2>4. [longer EXCEPT ![Len(named) + 1] = w] = Append(named, w)
    <3>1. w \in BlockSet
      <4>1. NewBlock \in BlockSet /\ Site \in Sites
        BY <1>2, <1>6, CellTypes, MetSite
      <4>. QED
        BY <1>3, <1>6, <2>1, <4>1, WithTypes
    <3>. DEFINE n == Len(named) + 1
                full == Append(named, w)
    <3>. HIDE DEF BlockSet
    <3>2. /\ n \in Nat /\ DOMAIN longer = 1 .. n /\ DOMAIN full = 1 .. n
          /\ longer \in [1 .. n -> BlockSet] /\ full \in [1 .. n -> BlockSet]
          /\ full[n] = w /\ \A j \in 1 .. n : j # n => full[j] = longer[j]
      <4>1. NewBlock \in BlockSet /\ Len(named) \in Nat
        BY <1>5, <1>6
      <4>. HIDE DEF NewBlock
      <4>2. /\ n \in Nat /\ longer \in Seq(BlockSet) /\ full \in Seq(BlockSet)
            /\ Len(longer) = n /\ Len(full) = n
        BY <1>5, <3>1, <4>1
      <4>3. full[n] = w /\ \A j \in 1 .. n : j # n => full[j] = named[j] /\ longer[j] = named[j]
        BY <1>5, <3>1, <4>1
      <4>. HIDE DEF longer, full, n
      <4>. QED
        BY <4>2, <4>3
    <3>. HIDE DEF longer, full
    <3>3. [longer EXCEPT ![n] = w] = full
      BY <3>2
    <3>. QED
      BY <3>3 DEF full
  <2>. QED
    BY <2>2, <2>3, <2>4
<1>8. NamesOf(longer) = NamesOf(named) /\ LiveOf(longer) = LiveOf(named) /\ AllUsed(longer)
  BY <1>5, <1>6, SameTables
<1>9. \A c \in NamesOf(named) \union LiveOf(named) : At(longer, c) = At(named, c)
  BY <1>6 DEF SameCells, NamesOf, LiveOf
<1>10. Grows(blocks, longer, {q}, {})
  <2>1. /\ NamesOf(named) = NamesOf(blocks) \union {q}
        /\ LiveOf(named) = LiveOf(blocks) \union {}
        /\ \A c \in LiveOf(blocks) : At(named, c) = At(blocks, c)
        /\ \A n \in NamesOf(blocks) : /\ At(named, n).name = At(blocks, n).name
                                      /\ At(blocks, n).refs > 0 => At(named, n).refs > 0
    BY <1>5 DEF Grows
  <2>2. /\ \A c \in LiveOf(blocks) : At(longer, c) = At(named, c)
        /\ \A n \in NamesOf(blocks) : At(longer, n) = At(named, n)
    BY <1>9, <2>1
  <2>3. /\ \A c \in LiveOf(blocks) : At(longer, c) = At(blocks, c)
        /\ \A n \in NamesOf(blocks) : /\ At(longer, n).name = At(blocks, n).name
                                      /\ At(blocks, n).refs > 0 => At(longer, n).refs > 0
    BY <2>1, <2>2
  <2>. QED
    BY <1>8, <2>1, <2>3 DEF Grows
<1>. HIDE DEF longer
<1>11. \A c \in LiveOf(blocks) : \A n \in NamesOf(blocks) :
        At(blocks, c).site \notin misnamed' /\ LeadsTo(blocks, c, n) => \A p \in {q} : ~Before(p, n)
  BY <1>1, <1>5
<1>12. q \in NamesOf(longer) /\ At(longer, q).name = Symbol
  <2>1. q \in NamesOf(named)
    BY <1>5 DEF Grows
  <2>. QED
    BY <1>5, <1>8, <1>9, <2>1 DEF NameRec
<1>13. Site \notin misnamed' =>
        \E n \in NamesOf(longer) : Rank(NamesOf(longer), n) = NewIndex /\ At(longer, n).name = Symbol
  BY <1>1, <1>5, <1>8, <1>12
<1>14. longer[Len(named) + 1].recs < BlockRecs /\ misnamed \subseteq misnamed'
  BY <1>1, <1>3, <1>6
<1>15. RelocGoes(longer, {q}, Len(named) + 1, NewIndex)
  BY <1>3, <1>6, <1>7, <1>8, <1>10, <1>11, <1>13, <1>14 DEF RelocGoes
<1>. QED
  BY <1>1, <1>14, <1>15, RelocAdded

LEMMA AddSharedTable ==
  ASSUME TypeInv, TableInv, AddShared
  PROVE  TableInv'
<1>1. Unknown /\ Added /\ misnamed' = misnamed \union {Site}
  BY DEF AddShared
<1>2. Shaped(blocks) /\ AllUsed(blocks) /\ blocks \in Seq(BlockSet)
  BY <1>1 DEF TableInv, Shaped, CompactInv, TypeInv, Unknown, MoreRelocs
<1>3. PICK c \in Found :
        blocks' = [[Blocks EXCEPT ![c[1]].rec[c[2]].refs = @ + 1]
                     EXCEPT ![Block] = WithReloc(@, Site, Ordinal(c))]
  BY DEF AddShared
<1>. DEFINE i == c[1]
            k == c[2]
            b == Blocks[i]
            w == [b EXCEPT !.rec[k].refs = @ + 1]
            shared == [Blocks EXCEPT ![i] = w]
<1>4. /\ Blocks \in Seq(BlockSet) /\ Shaped(Blocks) /\ SameCells(blocks, Blocks)
      /\ Block \in DOMAIN Blocks /\ Blocks[Block].recs < BlockRecs
      /\ \A j \in DOMAIN blocks : j \in DOMAIN Blocks /\ Blocks[j] = blocks[j]
  BY <1>2, SpareBlock, SpareTable
<1>5. /\ c \in NamesOf(blocks) /\ i \in DOMAIN Blocks /\ k \in Positions /\ c = <<i, k>>
      /\ b.rec[k].type = "name" /\ b.rec[k].refs \in Nat /\ Ordinal(c) \in Nat /\ b \in BlockSet
      /\ c \in (DOMAIN Blocks) \X Positions
  <2>1. c \in NameCells /\ NameCells = NamesOf(blocks)
    BY <1>2, CellsAreRecords DEF Found
  <2>2. c \in (DOMAIN blocks) \X Positions /\ At(blocks, c).type = "name" /\ At(blocks, c) \in RecSet
    BY <1>2, <2>1, TableTypes DEF NamesOf
  <2>3. i \in DOMAIN Blocks /\ Blocks[i] = blocks[i]
    BY <1>4, <2>2
  <2>. QED
    BY <1>2, <1>4, <2>1, <2>2, <2>3, RecFacts, OrdinalType, CellTypes DEF At
<1>6. /\ w \in BlockSet /\ w.recs = b.recs
      /\ \A j \in Positions : j # k => w.rec[j] = b.rec[j]
      /\ w.rec[k] = [b.rec[k] EXCEPT !.refs = b.rec[k].refs + 1]
  <2>1. b \in [recs : 0 .. BlockRecs, rec : [Positions -> RecSet]]
    BY <1>5 DEF BlockSet
  <2>2. w = [b EXCEPT !.rec = [b.rec EXCEPT ![k] = [b.rec[k] EXCEPT !.refs = b.rec[k].refs + 1]]]
    BY <2>1
  <2>3. PICK r : r = [b.rec[k] EXCEPT !.refs = b.rec[k].refs + 1]
    OBVIOUS
  <2>4. r \in RecSet
    <3>1. PICK old \in RecSet : old = b.rec[k]
      BY <1>5, <2>1
    <3>2. old.type = "name" /\ old.refs + 1 \in Nat
      BY <1>5, <3>1
    <3>3. [old EXCEPT !.refs = old.refs + 1] \in RecSet
      BY <3>2, RecFacts
    <3>. QED
      BY <2>3, <3>1, <3>3
  <2>5. [b.rec EXCEPT ![k] = r] \in [Positions -> RecSet]
    BY <1>5, <2>1, <2>4
  <2>6. w \in [recs : 0 .. BlockRecs, rec : [Positions -> RecSet]]
    BY <2>1, <2>2, <2>3, <2>5
  <2>7. w.recs = b.recs /\ w.rec = [b.rec EXCEPT ![k] = r]
    BY <2>1, <2>2, <2>3
  <2>. QED
    BY <1>5, <2>1, <2>3, <2>6, <2>7 DEF BlockSet
<1>7. /\ w.rec[k].type = "name" /\ w.rec[k].name = b.rec[k].name
      /\ w.rec[k].refs = b.rec[k].refs + 1
  <2>1. b.rec[k] \in RecSet
    BY <1>5, BlockFacts
  <2>. QED
    BY <1>5, <1>6, <2>1 DEF RecSet
<1>. HIDE DEF w
<1>8. Shape(w)
  <2>1. Shape(b)
    BY <1>4, <1>5 DEF Shaped
  <2>2. \A j \in Positions : /\ w.rec[j].type = b.rec[j].type
                             /\ b.rec[j].type = "name" => w.rec[j].name = b.rec[j].name
    BY <1>5, <1>6, <1>7
  <2>. HIDE DEF b
  <2>. QED
    BY <1>5, <1>6, <2>1, <2>2, SameShape
<1>9. /\ shared \in Seq(BlockSet) /\ DOMAIN shared = DOMAIN Blocks /\ Shaped(shared)
      /\ \A d \in (DOMAIN Blocks) \X Positions :
           At(shared, d) = IF d[1] = i THEN w.rec[d[2]] ELSE At(Blocks, d)
      /\ shared[i] = w /\ \A j \in DOMAIN Blocks : j # i => shared[j] = Blocks[j]
  <2>1. PICK w2 \in BlockSet : w2 = w /\ Shape(w2)
    BY <1>6, <1>8
  <2>2. PICK j \in DOMAIN Blocks : j = i
    BY <1>5
  <2>3. LET bs2 == [Blocks EXCEPT ![j] = w2]
        IN  /\ bs2 \in Seq(BlockSet) /\ DOMAIN bs2 = DOMAIN Blocks /\ bs2[j] = w2
            /\ \A m \in DOMAIN Blocks : m # j => bs2[m] = Blocks[m]
            /\ \A d \in (DOMAIN Blocks) \X Positions :
                 At(bs2, d) = IF d[1] = j THEN w2.rec[d[2]] ELSE At(Blocks, d)
            /\ Shaped(bs2)
    BY <1>4, <2>1, Replaced
  <2>4. shared = [Blocks EXCEPT ![j] = w2]
    BY <2>1, <2>2
  <2>. HIDE DEF shared
  <2>. QED
    BY <2>1, <2>2, <2>3, <2>4
<1>10. blocks' = [shared EXCEPT ![Block] = WithReloc(@, Site, Ordinal(c))]
  BY <1>3 DEF w
<1>. HIDE DEF shared
<1>11. \A d \in (DOMAIN Blocks) \X Positions :
         /\ d # c => At(shared, d) = At(Blocks, d)
         /\ d = c => /\ At(shared, d).type = "name" /\ At(Blocks, d).type = "name"
                     /\ At(shared, d).name = At(Blocks, d).name
                     /\ At(shared, d).refs = At(Blocks, d).refs + 1
                     /\ At(Blocks, d).refs \in Nat
  <2>1. ASSUME NEW d \in (DOMAIN Blocks) \X Positions, d # c PROVE At(shared, d) = At(Blocks, d)
    <3>1. d[2] \in Positions /\ d = <<d[1], d[2]>> /\ d[1] = i => d[2] # k
      BY <1>5, <2>1
    <3>. QED
      BY <1>6, <1>9, <2>1, <3>1 DEF At
  <2>2. At(shared, c) = w.rec[k] /\ At(Blocks, c) = b.rec[k]
    BY <1>5, <1>9 DEF At
  <2>. QED
    BY <1>5, <1>7, <2>1, <2>2
<1>12. CellsOf(shared) = CellsOf(Blocks) /\ NamesOf(shared) = NamesOf(Blocks)
       /\ LiveOf(shared) = LiveOf(Blocks)
  <2>1. CellsOf(shared) = CellsOf(Blocks)
    BY <1>9, <1>11 DEF CellsOf
  <2>2. CellsOf(Blocks) \subseteq (DOMAIN Blocks) \X Positions
    BY DEF CellsOf
  <2>3. NamesOf(shared) = NamesOf(Blocks)
    BY <1>11, <2>1, <2>2 DEF NamesOf
  <2>4. LiveOf(shared) = LiveOf(Blocks)
    BY <1>11, <2>1, <2>2 DEF LiveOf
  <2>. QED
    BY <2>1, <2>3, <2>4
<1>13. AllUsed(shared)
  <2>1. AllUsed(Blocks)
    BY <1>2, <1>4, SameTables
  <2>2. ASSUME NEW d \in CellsOf(Blocks) PROVE ~Unused(At(shared, d))
    <3>1. d \in (DOMAIN Blocks) \X Positions
      BY DEF CellsOf
    <3>2. CASE d # c
      BY <1>11, <2>1, <2>2, <3>1, <3>2 DEF AllUsed
    <3>3. CASE d = c
      <4>1. At(shared, d).type = "name" /\ At(shared, d).refs # 0
        BY <1>11, <3>1, <3>3
      <4>. QED
        BY <4>1 DEF Unused
    <3>. QED
      BY <3>2, <3>3
  <2>. QED
    BY <1>12, <2>2 DEF AllUsed
<1>14. Grows(blocks, shared, {}, {})
  <2>1. NamesOf(shared) = NamesOf(blocks) /\ LiveOf(shared) = LiveOf(blocks)
    BY <1>4, <1>12, SameTables
  <2>2. \A d \in CellsOf(blocks) : d \in (DOMAIN Blocks) \X Positions /\ At(Blocks, d) = At(blocks, d)
    BY <1>4 DEF SameCells, CellsOf
  <2>3. \A d \in LiveOf(blocks) : At(shared, d) = At(blocks, d)
    <3>1. \A d \in LiveOf(blocks) : d \in CellsOf(blocks) /\ At(blocks, d).type = "reloc"
      BY DEF LiveOf
    <3>. QED
      BY <1>11, <2>2, <3>1
  <2>4. \A n \in NamesOf(blocks) : /\ At(shared, n).name = At(blocks, n).name
                                   /\ At(blocks, n).refs > 0 => At(shared, n).refs > 0
    <3>1. \A d \in NamesOf(blocks) : d \in CellsOf(blocks)
      BY DEF NamesOf
    <3>. QED
      BY <1>11, <2>2, <3>1
  <2>. QED
    BY <2>1, <2>3, <2>4 DEF Grows
<1>15. Block \in DOMAIN shared /\ shared[Block].recs < BlockRecs
  BY <1>4, <1>5, <1>6, <1>9
<1>16. Site \in misnamed' /\ misnamed \subseteq misnamed'
  BY <1>1
<1>17. \A d \in LiveOf(blocks) : \A n \in NamesOf(blocks) :
         At(blocks, d).site \notin misnamed' /\ LeadsTo(blocks, d, n) => \A p \in {} : ~Before(p, n)
  OBVIOUS
<1>18. Site \notin misnamed' =>
         \E n \in NamesOf(shared) : Rank(NamesOf(shared), n) = Ordinal(c) /\ At(shared, n).name = Symbol
  BY <1>16
<1>. HIDE DEF i, k, b
<1>19. RelocGoes(shared, {}, Block, Ordinal(c))
  BY <1>5, <1>9, <1>10, <1>13, <1>14, <1>15, <1>17, <1>18 DEF RelocGoes
<1>. QED
  BY <1>1, <1>16, <1>19, RelocAdded

-----------------------------------------------------------------------------
(* An object goes: so do its live relocations.                             *)

LEMMA AbandonedTable ==
  ASSUME NEW bs \in Seq(BlockSet), NEW o
  PROVE  LET bs2 == Abandoned(bs, o)
         IN  /\ bs2 \in Seq(BlockSet)
             /\ Shaped(bs) => Shaped(bs2)
             /\ AllUsed(bs) => AllUsed(bs2)
             /\ \A P, P2 : Recorded(bs, P) /\ P2 = {s \in P : s[1] # o} => Recorded(bs2, P2)
             /\ \A M : Named(bs, M) => Named(bs2, M)
<1>. DEFINE bs2 == Abandoned(bs, o)
            C == (DOMAIN bs) \X Positions
<1>1. /\ bs2 \in Seq(BlockSet) /\ DOMAIN bs2 = DOMAIN bs
      /\ \A i \in DOMAIN bs : bs2[i].recs = bs[i].recs
      /\ \A c \in C : At(bs2, c) =
           IF At(bs, c).type = "reloc" /\ At(bs, c).obj = "live" /\ At(bs, c).site[1] = o
             THEN [At(bs, c) EXCEPT !.obj = "freed"] ELSE At(bs, c)
  BY AbandonedFacts
<1>. HIDE DEF bs2
<1>2. \A c \in C : At(bs, c) \in RecSet
  BY CellTypes
<1>3. \A c \in C : /\ At(bs2, c).type = At(bs, c).type
                   /\ At(bs, c).type = "name" => At(bs2, c) = At(bs, c)
                   /\ At(bs, c).type = "reloc" =>
                        IF At(bs, c).obj = "live" /\ At(bs, c).site[1] = o
                          THEN At(bs2, c).obj = "freed" ELSE At(bs2, c) = At(bs, c)
  <2>1. \A r \in RecSet : r.type = "reloc" => [r EXCEPT !.obj = "freed"].type = r.type
                                              /\ [r EXCEPT !.obj = "freed"].obj = "freed"
    BY DEF RecSet
  <2>. QED
    BY <1>1, <1>2, <2>1
<1>4. CellsOf(bs2) = CellsOf(bs)
  BY <1>1, <1>3 DEF CellsOf
<1>5. CellsOf(bs) \subseteq C
  BY DEF CellsOf
<1>6. NamesOf(bs2) = NamesOf(bs) /\ \A n \in NamesOf(bs) : At(bs2, n) = At(bs, n)
  BY <1>3, <1>4, <1>5 DEF NamesOf
<1>7. /\ LiveOf(bs2) = {c \in LiveOf(bs) : At(bs, c).site[1] # o}
      /\ \A c \in LiveOf(bs2) : At(bs2, c) = At(bs, c)
  <2>1. \A c : c \in LiveOf(bs2) => c \in LiveOf(bs) /\ At(bs, c).site[1] # o /\ At(bs2, c) = At(bs, c)
    BY <1>3, <1>4, <1>5, CellsBy
  <2>2. \A c \in LiveOf(bs) : At(bs, c).site[1] # o => c \in LiveOf(bs2)
    BY <1>3, <1>4, <1>5, CellsBy
  <2>. QED
    BY <2>1, <2>2
<1>8. ASSUME Shaped(bs) PROVE Shaped(bs2)
  <2>1. ASSUME NEW i \in DOMAIN bs PROVE Shape(bs2[i])
    <3>1. bs[i] \in BlockSet /\ Shape(bs[i]) /\ bs2[i] \in BlockSet /\ bs2[i].recs = bs[i].recs
      BY <1>1, <1>8, CellTypes DEF Shaped
    <3>2. \A k \in Positions : /\ bs2[i].rec[k].type = bs[i].rec[k].type
                               /\ bs[i].rec[k].type = "name" => bs2[i].rec[k].name = bs[i].rec[k].name
      <4>1. SUFFICES ASSUME NEW k \in Positions
                     PROVE  /\ bs2[i].rec[k].type = bs[i].rec[k].type
                            /\ bs[i].rec[k].type = "name" => bs2[i].rec[k] = bs[i].rec[k]
        OBVIOUS
      <4>2. PICK c \in C : c = <<i, k>>
        OBVIOUS
      <4>3. At(bs2, c) = bs2[i].rec[k] /\ At(bs, c) = bs[i].rec[k]
        BY <4>2 DEF At
      <4>4. /\ At(bs2, c).type = At(bs, c).type
            /\ At(bs, c).type = "name" => At(bs2, c) = At(bs, c)
        BY <1>3
      <4>. QED
        BY <4>3, <4>4
    <3>. QED
      BY <3>1, <3>2, SameShape
  <2>. QED
    BY <1>1, <2>1 DEF Shaped
<1>9. ASSUME AllUsed(bs) PROVE AllUsed(bs2)
  <2>1. ASSUME NEW c \in CellsOf(bs) PROVE ~Unused(At(bs2, c))
    <3>1. c \in C /\ ~Unused(At(bs, c)) /\ At(bs, c).type \in {"name", "reloc"}
      BY <1>5, <1>9, <2>1 DEF AllUsed, CellsOf
    <3>2. At(bs2, c) = At(bs, c) \/ (At(bs2, c).type = "reloc" /\ At(bs2, c).obj = "freed")
      BY <1>3, <3>1
    <3>. QED
      BY <3>1, <3>2 DEF Unused
  <2>. QED
    BY <1>4, <2>1 DEF AllUsed
<1>10. ASSUME NEW P, NEW P2, Recorded(bs, P), P2 = {s \in P : s[1] # o} PROVE Recorded(bs2, P2)
  BY <1>7, <1>10 DEF Recorded
<1>11. ASSUME NEW M, Named(bs, M) PROVE Named(bs2, M)
  <2>1. ASSUME NEW c \in LiveOf(bs2), At(bs2, c).site \notin M
        PROVE  \E n \in NamesOf(bs2) : LeadsTo(bs2, c, n)
    <3>1. c \in LiveOf(bs) /\ At(bs2, c) = At(bs, c)
      BY <1>7
    <3>2. PICK n \in NamesOf(bs) : LeadsTo(bs, c, n)
      BY <1>11, <2>1, <3>1 DEF Named
    <3>3. LeadsTo(bs2, c, n)
      BY <1>6, <3>1, <3>2 DEF LeadsTo
    <3>. QED
      BY <1>6, <3>3
  <2>. QED
    BY <2>1 DEF Named
<1>. QED
  BY <1>1, <1>8, <1>9, <1>10, <1>11 DEF bs2

LEMMA Gone ==
  ASSUME TypeInv, WaitInv, CountInv, pc # "resolve",
         NEW o \in Objs, loading \in {o, NoObj},
         NEW bs \in Seq(BlockSet), Shaped(bs), AllUsed(bs), Recorded(bs, Pending), Named(bs, misnamed'),
         misnamed \subseteq misnamed', blocks' = Abandoned(bs, o), loaded' = loaded \ {o},
         loading' = NoObj, pc' = "idle", UNCHANGED <<value, failed, count>>
  PROVE  TableInv'
<1>1. PICK bs2 : bs2 = blocks'
  OBVIOUS
<1>2. Pending' = {s \in Pending : s[1] # o}
  <2>. DEFINE Waits(s) == value[s] = NoName /\ s \notin failed
  <2>1. Pending = {s \in Sites : Waits(s) /\ (s[1] \in loaded \/ (s[1] = loading /\ s[2] < next))}
    BY DEF Pending
  <2>2. Pending' = {s \in Sites : Waits(s) /\ (s[1] \in loaded \ {o} \/ (s[1] = NoObj /\ s[2] < next'))}
    BY Zenon DEF Pending
  <2>. HIDE DEF Waits
  <2>3. \A s \in Sites : s[1] # NoObj
    BY SiteFacts
  <2>. QED
    BY <2>1, <2>2, <2>3
<1>3. /\ bs2 \in Seq(BlockSet) /\ Shaped(bs2) /\ AllUsed(bs2)
      /\ Recorded(bs2, Pending') /\ Named(bs2, misnamed')
  <2>1. PICK M2 : M2 = misnamed'
    OBVIOUS
  <2>2. PICK P2 : P2 = Pending'
    OBVIOUS
  <2>3. Named(bs, M2) /\ P2 = {s \in Pending : s[1] # o} /\ bs2 = Abandoned(bs, o)
    BY <1>1, <1>2, <2>1, <2>2
  <2>4. /\ bs2 \in Seq(BlockSet) /\ Shaped(bs2) /\ AllUsed(bs2)
        /\ Recorded(bs2, P2) /\ Named(bs2, M2)
    BY <2>3, AbandonedTable
  <2>. QED
    BY <2>1, <2>2, <2>4
<1>4. WaitInv'
  <2>1. \A s \in Pending \ misnamed : Wanted(s) \notin Exported(loaded)
    BY DEF WaitInv
  <2>2. Exported(loaded \ {o}) \subseteq Exported(loaded)
    BY DEF Exported
  <2>3. \A s \in Pending' \ misnamed' : Wanted(s) \notin Exported(loaded \ {o})
    BY <1>2, <2>1, <2>2
  <2>. QED
    BY <2>3 DEF WaitInv
<1>5. CountInv'
  <2>1. ASSUME NEW p \in loaded \ {o}
        PROVE  count[p] = Cardinality({s \in Pending' \union failed : s[1] = p})
    <3>1. {s \in Pending' \union failed : s[1] = p} = Owing(p)
      BY <1>2, <2>1 DEF Owing
    <3>. QED
      BY <2>1, <3>1 DEF CountInv
  <2>. QED
    BY <2>1 DEF CountInv, Owing
<1>. QED
  BY <1>1, <1>3, <1>4, <1>5 DEF TableInv, CompactInv, FreshInv, Shaped

LEMMA AddFullFailsTable ==
  ASSUME TypeInv, TableInv, AddFullFails, sound'
  PROVE  TableInv'
<1>. DEFINE named == [Blocks EXCEPT ![Block] = WithName(@, Symbol)]
            q == <<Block, Blocks[Block].recs>>
<1>1. /\ Unknown /\ FitsIn(Blocks[Block]) /\ StepsRight /\ misnamed' = misnamed \union Displaced
      /\ blocks' = Abandoned(named, loading) /\ loading' = NoObj /\ pc' = "idle"
      /\ UNCHANGED <<loaded, value, failed, count>>
  BY DEF AddFullFails
<1>2. Shaped(blocks) /\ AllUsed(blocks) /\ MoreRelocs /\ blocks \in Seq(BlockSet)
      /\ pc = "load" /\ Recorded(blocks, Pending) /\ Named(blocks, misnamed) /\ WaitInv /\ CountInv
  BY <1>1 DEF TableInv, Shaped, CompactInv, TypeInv, Unknown, MoreRelocs
<1>3. /\ named \in Seq(BlockSet) /\ Shaped(named) /\ AllUsed(named)
      /\ Grows(blocks, named, {q}, {})
      /\ \A c \in LiveOf(blocks) : \A n \in NamesOf(blocks) :
           At(blocks, c).site \notin Displaced /\ LeadsTo(blocks, c, n) => ~Before(q, n)
  BY <1>1, <1>2, NewName
<1>. HIDE DEF named, q
<1>4. Recorded(named, Pending)
  BY <1>2, <1>3 DEF Recorded, Grows
<1>5. Named(named, misnamed')
  <2>1. PICK M2 : M2 = misnamed'
    OBVIOUS
  <2>2. /\ misnamed \subseteq M2
        /\ \A c \in LiveOf(blocks) : \A n \in NamesOf(blocks) :
             At(blocks, c).site \notin M2 /\ LeadsTo(blocks, c, n) => \A p \in {q} : ~Before(p, n)
        /\ \A r \in {} : At(named, r).site \notin M2 => \E n \in NamesOf(named) : LeadsTo(named, r, n)
    BY <1>1, <1>3, <2>1
  <2>3. Named(named, M2)
    BY <1>2, <1>3, <2>2, GrowNamed
  <2>. QED
    BY <2>1, <2>3
<1>6. loading \in Objs /\ loading \notin loaded /\ loaded' = loaded \ {loading}
  BY <1>1, <1>2, MetSite DEF TypeInv
<1>7. misnamed \subseteq misnamed' /\ pc # "resolve" /\ loading \in {loading, NoObj}
  BY <1>1, <1>2
<1>. QED
  BY <1>1, <1>2, <1>3, <1>4, <1>5, <1>6, <1>7, Gone

LEMMA LeaveTable ==
  ASSUME TypeInv, TableInv, LoadFails \/ \E o \in Objs : Close(o)
  PROVE  TableInv'
<1>1. /\ pc \in {"load", "idle"} /\ pc' = "idle" /\ loading' = NoObj
      /\ UNCHANGED <<value, failed, count, misnamed>>
      /\ \E o \in Objs : /\ loading \in {o, NoObj} /\ blocks' = Abandoned(blocks, o)
                         /\ loaded' = loaded \ {o}
  <2>1. CASE LoadFails
    <3>1. pc = "load" /\ loading \in Objs /\ loading \notin loaded
      BY <2>1 DEF LoadFails, TypeInv, TypeOK
    <3>. QED
      BY <2>1, <3>1 DEF LoadFails, siteVars
  <2>2. ASSUME NEW o \in Objs, Close(o)
        PROVE  /\ pc = "idle" /\ pc' = "idle" /\ loading' = NoObj /\ loading = NoObj
               /\ UNCHANGED <<value, failed, count, misnamed>>
               /\ blocks' = Abandoned(blocks, o) /\ loaded' = loaded \ {o}
    <3>1. pc = "idle" /\ loading = NoObj
      BY <2>2 DEF Close, TypeInv
    <3>. QED
      BY <2>2, <3>1 DEF Close, siteVars
  <2>. QED
    BY <2>1, <2>2
<1>2. PICK o \in Objs : loading \in {o, NoObj} /\ blocks' = Abandoned(blocks, o) /\ loaded' = loaded \ {o}
  BY <1>1
<1>3. /\ blocks \in Seq(BlockSet) /\ Shaped(blocks) /\ AllUsed(blocks) /\ Recorded(blocks, Pending)
      /\ Named(blocks, misnamed) /\ WaitInv /\ CountInv /\ pc # "resolve"
  BY <1>1 DEF TypeInv, TableInv, Shaped, CompactInv
<1>. QED
  BY <1>1, <1>2, <1>3, Gone

-----------------------------------------------------------------------------
(* Loading.                                                                *)

LEMMA LoadTable ==
  ASSUME TypeInv, TableInv, NEW o \in Objs, Load(o)
  PROVE  TableInv'
<1>1. /\ pc = "idle" /\ o \notin loaded /\ loading = NoObj /\ loading' = o /\ next' = 1
      /\ value' = [s \in Sites |-> IF s[1] = o THEN NoName ELSE value[s]]
      /\ failed' = {s \in failed : s[1] # o}
      /\ count' = [count EXCEPT ![o] = 0]
      /\ misnamed' = {s \in misnamed : s[1] # o}
      /\ pc' = "load" /\ UNCHANGED <<loaded, blocks>>
  BY DEF Load, TypeInv
<1>2. /\ o # NoObj /\ count \in [Objs -> Nat] /\ loaded \subseteq Objs /\ failed \subseteq Sites
      /\ \A s \in Sites : s[1] # NoObj /\ s[2] \in Nat /\ ~(s[2] < 1)
      /\ \A i \in DOMAIN Wants[o] : <<o, i>> \in Sites
  <2>1. \A s \in Sites : s[1] \in Objs /\ s[2] \in DOMAIN Wants[s[1]] /\ Wants[s[1]] \in Seq(Names)
    BY SiteFacts
  <2>2. \A s \in Sites : s[2] \in Nat /\ ~(s[2] < 1)
    BY <2>1
  <2>. QED
    BY <2>1, <2>2, SiteFacts DEF TypeInv, TypeOK
<1>3. Pending' = Pending /\ \A s \in Pending : s[1] # o /\ s \in Sites
  <2>. DEFINE Waits(s) == value[s] = NoName /\ s \notin failed
  <2>1. Pending = {s \in Sites : Waits(s) /\ (s[1] \in loaded \/ (s[1] = loading /\ s[2] < next))}
    BY DEF Pending
  <2>2. Pending = {s \in Sites : Waits(s) /\ s[1] \in loaded}
    BY <1>1, <1>2, <2>1
  <2>3. Pending' = {s \in Sites : /\ value'[s] = NoName /\ s \notin failed'
                                  /\ s[1] \in loaded \/ (s[1] = o /\ s[2] < 1)}
    BY <1>1, Zenon DEF Pending
  <2>4. \A s \in Sites : s[1] \in loaded => (value'[s] = NoName /\ s \notin failed' <=> Waits(s))
    BY <1>1
  <2>. HIDE DEF Waits
  <2>. QED
    BY <1>1, <1>2, <2>2, <2>3, <2>4
<1>4. Named(blocks, misnamed')
  <2>1. \A s \in Pending : s \notin misnamed' => s \notin misnamed
    BY <1>1, <1>3
  <2>2. PICK M2 : M2 = misnamed'
    OBVIOUS
  <2>3. \A s \in Pending : s \notin M2 => s \notin misnamed
    BY <2>1, <2>2
  <2>4. Recorded(blocks, Pending) /\ Named(blocks, misnamed)
    BY DEF TableInv
  <2>5. Named(blocks, M2)
    BY <2>3, <2>4, NamedFor
  <2>. QED
    BY <2>2, <2>5
<1>5. FreshInv'
  <2>1. \A i \in DOMAIN Wants[o] : value'[<<o, i>>] = NoName /\ <<o, i>> \notin failed'
    BY <1>1, <1>2
  <2>. QED
    BY <1>1, <2>1 DEF FreshInv
<1>6. WaitInv'
  <2>1. \A s \in Pending \ misnamed : Wanted(s) \notin Exported(loaded)
    BY <1>1 DEF TableInv, WaitInv
  <2>2. \A s \in Pending' \ misnamed' : Wanted(s) \notin Exported(loaded)
    BY <1>1, <1>3, <2>1
  <2>. QED
    BY <1>1, <2>2 DEF WaitInv
<1>7. CountInv'
  <2>1. ASSUME NEW p \in loaded \union {o}
        PROVE  count'[p] = Cardinality({s \in Pending \union failed' : s[1] = p})
    <3>1. CASE p = o
      <4>1. {s \in Pending \union failed' : s[1] = p} = {}
        BY <1>1, <1>3, <3>1
      <4>. QED
        BY <1>1, <1>2, <3>1, <4>1, FS_EmptySet
    <3>2. CASE p # o
      <4>1. {s \in Pending \union failed' : s[1] = p} = Owing(p)
        BY <1>1, <3>2 DEF Owing
      <4>2. count[p] = Cardinality(Owing(p))
        BY <2>1, <3>2 DEF TableInv, CountInv
      <4>. QED
        BY <1>1, <1>2, <3>2, <4>1, <4>2
    <3>. QED
      BY <3>1, <3>2
  <2>. QED
    BY <1>1, <1>3, <2>1 DEF CountInv, Owing
<1>8. AllUsed(blocks) /\ Shaped(blocks) /\ Recorded(blocks, Pending)
  BY <1>1 DEF TableInv, CompactInv, Shaped
<1>. QED
  BY <1>1, <1>3, <1>4, <1>5, <1>6, <1>7, <1>8 DEF TableInv, CompactInv, Shaped

LEMMA RelocateTable ==
  ASSUME TypeInv, TableInv, Relocate
  PROVE  TableInv'
<1>1. /\ MoreRelocs /\ Symbol \in Known /\ value' = [value EXCEPT ![Site] = Symbol] /\ next' = next + 1
      /\ UNCHANGED <<loaded, loading, pc, blocks, failed, count, misnamed>>
  BY DEF Relocate
<1>2. /\ pc = "load" /\ loading \in Objs /\ next \in DOMAIN Wants[loading] /\ next \in Nat
      /\ Site \in Sites /\ Site = <<loading, next>> /\ Symbol \in Names /\ Symbol # NoName
      /\ loading \notin loaded /\ Site[1] = loading /\ Site[2] = next
      /\ value \in [Sites -> Names \union {NoName}]
  BY <1>1, MetSite, SiteFacts DEF MoreRelocs, TypeInv, TypeOK, Site
<1>3. Pending' = Pending
  <2>1. \A s \in Sites : s[1] = loading =>
          /\ s # Site => (s[2] < next + 1 <=> s[2] < next)
          /\ s[2] \in Nat
    <3>1. DOMAIN Wants[loading] = 1 .. Len(Wants[loading])
      BY <1>2, SiteFacts
    <3>2. \A s \in Sites : s[1] = loading => s[2] \in Nat /\ s = <<loading, s[2]>>
      BY <3>1, SiteFacts
    <3>. QED
      BY <1>2, <3>2
  <2>. DEFINE Met(s, n) == s[1] \in loaded \/ (s[1] = loading /\ s[2] < n)
  <2>2. Pending = {s \in Sites : value[s] = NoName /\ s \notin failed /\ Met(s, next)}
    BY DEF Pending
  <2>3. Pending' = {s \in Sites : value'[s] = NoName /\ s \notin failed /\ Met(s, next + 1)}
    BY <1>1, Zenon DEF Pending
  <2>4. ~Met(Site, next)
    <3>1. ~(next < next)
      BY <1>2
    <3>. QED
      BY <1>2, <3>1
  <2>5. \A s \in Sites : s # Site => (Met(s, next + 1) <=> Met(s, next))
    BY <2>1
  <2>6. value'[Site] # NoName /\ \A s \in Sites : s # Site => value'[s] = value[s]
    BY <1>1, <1>2
  <2>. HIDE DEF Met
  <2>. QED
    BY <2>2, <2>3, <2>4, <2>5, <2>6
<1>4. FreshInv'
  <2>1. \A i \in DOMAIN Wants[loading] : i >= next + 1 => i >= next /\ <<loading, i>> # Site
    BY <1>2, SiteFacts
  <2>2. \A i \in DOMAIN Wants[loading] : <<loading, i>> \in Sites
    BY <1>2, SiteFacts
  <2>3. FreshInv
    BY DEF TableInv
  <2>4. \A i \in DOMAIN Wants[loading] : i >= next + 1 =>
          value'[<<loading, i>>] = NoName /\ <<loading, i>> \notin failed
    BY <1>1, <1>2, <2>1, <2>2, <2>3 DEF FreshInv
  <2>. QED
    BY <1>1, <2>4 DEF FreshInv
<1>. QED
  BY <1>1, <1>2, <1>3, <1>4 DEF TableInv, CompactInv, WaitInv, CountInv, Owing

LEMMA LoadDoneTable ==
  ASSUME TypeInv, TableInv, LoadDone
  PROVE  TableInv'
<1>1. /\ pc = "load" /\ next > Len(Wants[loading]) /\ loaded' = loaded \union {loading}
      /\ loading' = NoObj /\ next' = 1 /\ pc' = "resolve"
      /\ UNCHANGED <<blocks, value, failed, count, misnamed>>
  BY DEF LoadDone, siteVars
<1>2. /\ loading \in Objs /\ loading # NoObj /\ next \in Nat
      /\ \A s \in Sites : s[1] # NoObj /\ (s[1] = loading => s[2] < next)
  <2>1. loading \in Objs /\ loading # NoObj /\ next \in Nat
    BY <1>1, SiteFacts DEF TypeInv, TypeOK
  <2>2. DOMAIN Wants[loading] = 1 .. Len(Wants[loading]) /\ Len(Wants[loading]) \in Nat
    BY <2>1, SiteFacts
  <2>3. ASSUME NEW s \in Sites, s[1] = loading PROVE s[2] < next
    <3>1. s[2] \in 1 .. Len(Wants[loading])
      BY <2>2, <2>3, SiteFacts
    <3>. QED
      BY <1>1, <2>1, <2>2, <3>1
  <2>. QED
    BY <2>1, <2>3, SiteFacts
<1>3. Pending' = Pending
  <2>. DEFINE Waits(s) == value[s] = NoName /\ s \notin failed
  <2>1. Pending = {s \in Sites : Waits(s) /\ (s[1] \in loaded \/ (s[1] = loading /\ s[2] < next))}
    BY DEF Pending
  <2>2. Pending' = {s \in Sites : /\ Waits(s)
                                  /\ s[1] \in loaded \union {loading} \/ (s[1] = NoObj /\ s[2] < next')}
    BY <1>1, Zenon DEF Pending
  <2>. HIDE DEF Waits
  <2>. QED
    BY <1>2, <2>1, <2>2
<1>4. CountInv'
  <2>1. \A p \in loaded \union {loading} : count[p] = Cardinality(Owing(p))
    BY <1>2 DEF TableInv, CountInv
  <2>2. \A p \in loaded \union {loading} : count[p] = Cardinality({s \in Pending \union failed : s[1] = p})
    BY <2>1 DEF Owing
  <2>. QED
    BY <1>1, <1>3, <2>2 DEF CountInv, Owing
<1>. QED
  BY <1>1, <1>3, <1>4 DEF TableInv, CompactInv, WaitInv, FreshInv

-----------------------------------------------------------------------------
(* Relocating what has become known.                                       *)

LEMMA RankLess ==
  ASSUME NEW bs \in Seq(BlockSet), NEW m \in NamesOf(bs), NEW n \in NamesOf(bs), Before(m, n), m # n
  PROVE  Rank(NamesOf(bs), m) < Rank(NamesOf(bs), n)
<1>. DEFINE Up(x) == {d \in NamesOf(bs) : Before(d, x)}
<1>1. \A d \in NamesOf(bs) : d \in Nat \X Nat
  BY TableTypes
<1>2. Up(m) \subseteq Up(n)
  BY <1>1, Order
<1>3. n \in Up(n) /\ n \notin Up(m)
  BY <1>1, Order
<1>4. IsFiniteSet(Up(n)) /\ Cardinality(Up(n)) \in Nat /\ Cardinality(Up(m)) \in Nat
  BY TableTypes
<1>5. Rank(NamesOf(bs), m) = Cardinality(Up(m)) /\ Rank(NamesOf(bs), n) = Cardinality(Up(n))
  BY DEF Rank
<1>. HIDE DEF Up
<1>6. Up(m) # Up(n)
  BY <1>3
<1>7. Cardinality(Up(m)) < Cardinality(Up(n))
  <2>1. /\ Cardinality(Up(m)) <= Cardinality(Up(n))
        /\ Cardinality(Up(m)) = Cardinality(Up(n)) => Up(m) = Up(n)
    BY <1>2, <1>4, FS_Subset
  <2>. QED
    BY <1>4, <1>6, <2>1
<1>. QED
  BY <1>5, <1>7

LEMMA HitFacts ==
  ASSUME TypeInv, TableInv, pc = "resolve", \A c \in Hits : Rec(c).obj = "live"
  PROVE  /\ Hits \subseteq LiveOf(blocks)
         /\ \A c \in LiveOf(blocks) : \A n \in NamesOf(blocks) :
              Rank(NamesOf(blocks), n) = At(blocks, c).name /\ At(blocks, n).name \in Known => c \in Hits
         /\ \A c \in Hits : \E n \in NamesOf(blocks) :
              Rank(NamesOf(blocks), n) = At(blocks, c).name /\ At(blocks, n).name \in Known
         /\ SitesOf(Hits) = {At(blocks, c).site : c \in Hits}
         /\ SitesOf(Hits) \subseteq Pending
         /\ \A c \in LiveOf(blocks) : At(blocks, c).site \in SitesOf(Hits) => c \in Hits
         /\ Known = Exported(loaded) /\ loading = NoObj
<1>1. blocks \in Seq(BlockSet) /\ Shaped(blocks) /\ Recorded(blocks, Pending) /\ loading = NoObj
  BY DEF TypeInv, TableInv, Shaped
<1>2. /\ NameCells = NamesOf(blocks)
      /\ RelocCells = {c \in CellsOf(blocks) : At(blocks, c).type = "reloc"}
      /\ \A c : Rec(c) = At(blocks, c)
  BY <1>1, CellsAreRecords
<1>3. \A c : c \in Hits <=> /\ c \in RelocCells
                            /\ \E n \in NameCells : Rank(NameCells, n) = Rec(c).name /\ Rec(n).name \in Known
  BY DEF Hits
<1>4. Hits \subseteq LiveOf(blocks)
  BY <1>2, <1>3 DEF LiveOf
<1>5. \A c \in LiveOf(blocks) : c \in RelocCells
  BY <1>2 DEF LiveOf
<1>6. SitesOf(Hits) = {At(blocks, c).site : c \in Hits}
  BY <1>2 DEF SitesOf
<1>7. SitesOf(Hits) \subseteq Pending
  BY <1>1, <1>4, <1>6 DEF Recorded
<1>8. \A c \in LiveOf(blocks) : At(blocks, c).site \in SitesOf(Hits) => c \in Hits
  BY <1>1, <1>4, <1>6 DEF Recorded
<1>9. Known = Exported(loaded)
  <2>1. loaded \union ({loading} \ {NoObj}) = loaded
    BY <1>1
  <2>. QED
    BY <2>1 DEF Known, Exported
<1>. QED
  BY <1>1, <1>2, <1>3, <1>4, <1>5, <1>6, <1>7, <1>8, <1>9

\* The table behind the first pass.
LEMMA ResolvedTable ==
  ASSUME TypeInv, TableInv, Resolve, NEW bs2 \in Seq(BlockSet), bs2 = blocks'
  PROVE  /\ DOMAIN bs2 = DOMAIN blocks /\ Shaped(bs2)
         /\ CellsOf(bs2) = CellsOf(blocks) /\ NamesOf(bs2) = NamesOf(blocks)
         /\ LiveOf(bs2) = LiveOf(blocks) \ Hits
         /\ \A c \in LiveOf(bs2) : At(bs2, c) = At(blocks, c)
         /\ \A n \in NamesOf(blocks) : /\ At(bs2, n).name = At(blocks, n).name
                                       /\ At(bs2, n).refs = RefsAfter(n)
<1>. DEFINE C == (DOMAIN blocks) \X Positions
<1>1. blocks \in Seq(BlockSet) /\ Shaped(blocks) /\ pc = "resolve" /\ \A c \in Hits : Rec(c).obj = "live"
  BY DEF TypeInv, TableInv, Shaped, Resolve
<1>2. NameCells = NamesOf(blocks) /\ Hits \subseteq LiveOf(blocks)
  BY <1>1, CellsAreRecords, HitFacts
<1>3. /\ DOMAIN bs2 = DOMAIN blocks
      /\ \A i \in DOMAIN blocks :
           /\ bs2[i].recs = blocks[i].recs
           /\ \A k \in Positions : bs2[i].rec[k] =
                IF <<i, k>> \in Hits THEN [blocks[i].rec[k] EXCEPT !.obj = "null"]
                ELSE IF <<i, k>> \in NameCells THEN [blocks[i].rec[k] EXCEPT !.refs = RefsAfter(<<i, k>>)]
                ELSE blocks[i].rec[k]
  <2>. DEFINE R(i, k) == IF <<i, k>> \in Hits THEN [blocks[i].rec[k] EXCEPT !.obj = "null"]
          ELSE IF <<i, k>> \in NameCells THEN [blocks[i].rec[k] EXCEPT !.refs = RefsAfter(<<i, k>>)]
          ELSE blocks[i].rec[k]
              B(i) == [blocks[i] EXCEPT !.rec = [k \in Positions |-> R(i, k)]]
  <2>1. bs2 = [i \in DOMAIN blocks |-> B(i)]
    BY DEF Resolve
  <2>2. ASSUME NEW i \in DOMAIN blocks
        PROVE  B(i).recs = blocks[i].recs /\ \A k \in Positions : B(i).rec[k] = R(i, k)
    <3>. HIDE DEF R
    <3>1. blocks[i] \in BlockSet
      BY <1>1
    <3>2. blocks[i] \in [recs : 0 .. BlockRecs, rec : [Positions -> RecSet]]
      BY <3>1 DEF BlockSet
    <3>3. B(i).recs = blocks[i].recs /\ B(i).rec = [k \in Positions |-> R(i, k)]
      BY <3>2
    <3>. QED
      BY <3>3
  <2>. HIDE DEF B
  <2>. QED
    BY <2>1, <2>2
<1>4. \A c \in C : /\ c = <<c[1], c[2]>> /\ c[1] \in DOMAIN blocks /\ c[2] \in Positions
                   /\ At(blocks, c) \in RecSet
  BY <1>1, CellTypes
<1>5. \A c \in C : At(bs2, c) =
        IF c \in Hits THEN [At(blocks, c) EXCEPT !.obj = "null"]
        ELSE IF c \in NameCells THEN [At(blocks, c) EXCEPT !.refs = RefsAfter(c)]
        ELSE At(blocks, c)
  BY <1>3, <1>4 DEF At
<1>6. \A c \in Hits : c \in C /\ At(blocks, c).type = "reloc"
  BY <1>2 DEF LiveOf, CellsOf
<1>7. \A n \in NamesOf(blocks) : n \in C /\ At(blocks, n).type = "name" /\ n \notin Hits
  BY <1>6 DEF NamesOf, CellsOf
<1>8. \A c \in Hits : At(bs2, c).type = "reloc" /\ At(bs2, c).obj = "null"
  <2>1. \A r \in RecSet : r.type = "reloc" => [r EXCEPT !.obj = "null"].type = "reloc"
                                              /\ [r EXCEPT !.obj = "null"].obj = "null"
    BY DEF RecSet
  <2>. QED
    BY <1>4, <1>5, <1>6, <2>1
<1>9. \A n \in NamesOf(blocks) : /\ At(bs2, n).type = "name" /\ At(bs2, n).name = At(blocks, n).name
                                 /\ At(bs2, n).refs = RefsAfter(n)
  <2>1. \A r \in RecSet : \A x : r.type = "name" => /\ [r EXCEPT !.refs = x].type = "name"
                                                    /\ [r EXCEPT !.refs = x].name = r.name
                                                    /\ [r EXCEPT !.refs = x].refs = x
    BY DEF RecSet
  <2>2. ASSUME NEW n \in NamesOf(blocks)
        PROVE  At(bs2, n) = [At(blocks, n) EXCEPT !.refs = RefsAfter(n)]
    BY <1>2, <1>5, <1>7
  <2>3. ASSUME NEW n \in NamesOf(blocks)
        PROVE  /\ At(bs2, n).type = "name" /\ At(bs2, n).name = At(blocks, n).name
               /\ At(bs2, n).refs = RefsAfter(n)
    <3>1. PICK r \in RecSet : r = At(blocks, n) /\ r.type = "name"
      BY <1>4, <1>7
    <3>2. PICK x : x = RefsAfter(n)
      OBVIOUS
    <3>3. At(bs2, n) = [r EXCEPT !.refs = x]
      BY <2>2, <3>1, <3>2
    <3>. QED
      BY <2>1, <3>1, <3>2, <3>3
  <2>. QED
    BY <2>3
<1>10. \A c \in C : c \notin Hits /\ c \notin NamesOf(blocks) => At(bs2, c) = At(blocks, c)
  BY <1>2, <1>5
<1>. HIDE DEF C
<1>11. \A c \in C : At(bs2, c).type = At(blocks, c).type
  BY <1>6, <1>7, <1>8, <1>9, <1>10
<1>12. CellsOf(bs2) = CellsOf(blocks) /\ CellsOf(blocks) \subseteq C
  BY <1>3, <1>11 DEF CellsOf, C
<1>13. NamesOf(bs2) = NamesOf(blocks)
  BY <1>11, <1>12 DEF NamesOf
<1>14. /\ LiveOf(bs2) = LiveOf(blocks) \ Hits
       /\ \A c \in LiveOf(bs2) : At(bs2, c) = At(blocks, c)
  <2>1. \A c \in CellsOf(blocks) : At(blocks, c).type = "reloc" => c \notin NamesOf(blocks)
    BY DEF NamesOf
  <2>2. \A c : c \in LiveOf(bs2) => c \in LiveOf(blocks) /\ c \notin Hits /\ At(bs2, c) = At(blocks, c)
    BY <1>8, <1>10, <1>11, <1>12, <2>1, CellsBy
  <2>3. \A c \in LiveOf(blocks) : c \notin Hits => c \in LiveOf(bs2)
    BY <1>10, <1>12, <2>1, CellsBy
  <2>. QED
    BY <2>2, <2>3
<1>15. Shaped(bs2)
  <2>1. ASSUME NEW i \in DOMAIN blocks PROVE Shape(bs2[i])
    <3>1. blocks[i] \in BlockSet /\ Shape(blocks[i]) /\ bs2[i] \in BlockSet /\ bs2[i].recs = blocks[i].recs
      BY <1>1, <1>3, CellTypes DEF Shaped
    <3>2. \A k \in Positions : /\ bs2[i].rec[k].type = blocks[i].rec[k].type
                               /\ blocks[i].rec[k].type = "name" => bs2[i].rec[k].name = blocks[i].rec[k].name
      <4>1. SUFFICES ASSUME NEW k \in Positions
                     PROVE  /\ bs2[i].rec[k].type = blocks[i].rec[k].type
                            /\ blocks[i].rec[k].type = "name" => bs2[i].rec[k].name = blocks[i].rec[k].name
        OBVIOUS
      <4>2. PICK c \in C : c = <<i, k>>
        BY DEF C
      <4>3. At(bs2, c) = bs2[i].rec[k] /\ At(blocks, c) = blocks[i].rec[k]
        BY <4>2 DEF At
      <4>4. At(bs2, c).type = At(blocks, c).type
        BY <1>11
      <4>5. At(blocks, c).type = "name" => c \in NamesOf(blocks)
        BY DEF NamesOf, CellsOf, C
      <4>6. At(blocks, c).type = "name" => At(bs2, c).name = At(blocks, c).name
        BY <1>9, <4>5
      <4>. QED
        BY <4>3, <4>4, <4>6
    <3>. QED
      BY <3>1, <3>2, SameShape
  <2>. QED
    BY <1>3, <2>1 DEF Shaped
<1>. QED
  BY <1>3, <1>9, <1>12, <1>13, <1>14, <1>15

\* What a pass does to the sites.
LEMMA ResolvedSites ==
  ASSUME TypeInv, TableInv, Resolve
  PROVE  /\ \E bad \in SUBSET SitesOf(Hits) :
              /\ \A s \in Sites : s \notin SitesOf(Hits) \ bad => value'[s] = value[s]
              /\ \A s \in SitesOf(Hits) \ bad : s \in Sites /\ value'[s] \in Names
              /\ failed' = failed \union bad
              /\ \A o \in Objs : count'[o] =
                   LET good == {c \in Hits : At(blocks, c).site[1] = o /\ At(blocks, c).site \notin bad}
                   IN  IF Cardinality(good) > count[o] THEN 0 ELSE count[o] - Cardinality(good)
         /\ \A s \in Sites \ misnamed : value'[s] \in {value[s], Wanted(s)}
         /\ Pending' = Pending \ SitesOf(Hits)
<1>1. /\ blocks \in Seq(BlockSet) /\ Shaped(blocks) /\ pc = "resolve" /\ \A c \in Hits : Rec(c).obj = "live"
      /\ Recorded(blocks, Pending) /\ Named(blocks, misnamed) /\ UNCHANGED <<loaded, loading, next>>
      /\ value \in [Sites -> Names \union {NoName}]
  BY DEF TypeInv, TypeOK, TableInv, Shaped, Resolve, loadVars
<1>2. /\ NameCells = NamesOf(blocks) /\ \A c : Rec(c) = At(blocks, c)
  BY <1>1, CellsAreRecords
<1>3. /\ Hits \subseteq LiveOf(blocks)
      /\ \A c \in Hits : \E n \in NamesOf(blocks) :
           Rank(NamesOf(blocks), n) = At(blocks, c).name /\ At(blocks, n).name \in Known
      /\ SitesOf(Hits) = {At(blocks, c).site : c \in Hits}
      /\ SitesOf(Hits) \subseteq Pending /\ loading = NoObj
  BY <1>1, HitFacts
<1>4. SitesOf(Hits) \subseteq Sites /\ Pending \subseteq Sites
  BY <1>3 DEF Pending
<1>. DEFINE From(s) == CHOOSE n \in NameCells :
                         \E c \in HitsOn(n) \intersect Hits : Rec(c).site = s
<1>5. PICK bad \in SUBSET SitesOf(Hits) :
       /\ value' = [s \in Sites |-> IF s \in SitesOf(Hits) \ bad THEN Rec(From(s)).name ELSE value[s]]
       /\ failed' = failed \union bad
       /\ count' = [o \in Objs |->
            LET good == {c \in Hits : Rec(c).site[1] = o /\ Rec(c).site \notin bad}
            IN  IF Cardinality(good) > count[o] THEN 0
                ELSE count[o] - Cardinality(good)]
  BY DEF Resolve
<1>6. ASSUME NEW s \in SitesOf(Hits)
      PROVE  \E n \in NamesOf(blocks) : \E c \in Hits :
               /\ From(s) = n /\ At(blocks, c).site = s
               /\ Rank(NamesOf(blocks), n) = At(blocks, c).name
  <2>1. PICK c \in Hits : At(blocks, c).site = s
    BY <1>3
  <2>2. PICK n \in NamesOf(blocks) : Rank(NamesOf(blocks), n) = At(blocks, c).name
    BY <1>3
  <2>3. \A m : HitsOn(m) = {d \in RelocCells : At(blocks, d).name = Rank(NamesOf(blocks), m)}
    BY <1>2 DEF HitsOn, Ordinal
  <2>4. Hits \subseteq RelocCells
    BY DEF Hits
  <2>5. c \in HitsOn(n) \intersect Hits /\ Rec(c).site = s
    BY <1>2, <2>1, <2>2, <2>3, <2>4
  <2>6. From(s) \in NameCells /\ \E d \in HitsOn(From(s)) \intersect Hits : Rec(d).site = s
    BY <1>2, <2>5
  <2>. HIDE DEF From
  <2>. QED
    BY <1>2, <2>3, <2>6
<1>. HIDE DEF From
<1>7. ASSUME NEW s \in SitesOf(Hits) \ bad PROVE s \in Sites /\ value'[s] \in Names
  <2>1. From(s) \in NamesOf(blocks)
    BY <1>6
  <2>2. At(blocks, From(s)).name \in Names
    <3>1. PICK r \in RecSet : r = At(blocks, From(s)) /\ r.type = "name"
      BY <1>1, <2>1, TableTypes DEF NamesOf
    <3>. QED
      BY <3>1, RecFacts
  <2>. QED
    BY <1>2, <1>4, <1>5, <2>2
<1>8. \A s \in Sites : s \notin SitesOf(Hits) \ bad => value'[s] = value[s]
  BY <1>5
<1>9. ASSUME NEW s \in Sites \ misnamed PROVE value'[s] \in {value[s], Wanted(s)}
  <2>1. SUFFICES ASSUME s \in SitesOf(Hits) \ bad PROVE value'[s] = Wanted(s)
    BY <1>8
  <2>2. PICK n \in NamesOf(blocks), c \in Hits :
          From(s) = n /\ At(blocks, c).site = s /\ Rank(NamesOf(blocks), n) = At(blocks, c).name
    BY <1>6, <2>1
  <2>3. PICK m \in NamesOf(blocks) : LeadsTo(blocks, c, m)
    BY <1>1, <1>3, <1>9, <2>2 DEF Named
  <2>4. Rank(NamesOf(blocks), m) = Rank(NamesOf(blocks), n) /\ At(blocks, m).name = Wanted(s)
    BY <2>2, <2>3 DEF LeadsTo
  <2>5. m = n
    BY <1>1, <2>4, RankInjective
  <2>. QED
    BY <1>2, <1>5, <2>1, <2>2, <2>4, <2>5
<1>10. Pending' = Pending \ SitesOf(Hits)
  <2>. DEFINE Met(s) == s[1] \in loaded \/ (s[1] = loading /\ s[2] < next)
  <2>1. Pending = {s \in Sites : value[s] = NoName /\ s \notin failed /\ Met(s)}
    BY DEF Pending
  <2>2. Pending' = {s \in Sites : value'[s] = NoName /\ s \notin failed' /\ Met(s)}
    BY <1>1, Zenon DEF Pending
  <2>. HIDE DEF Met
  <2>3. ASSUME NEW s \in Sites, s \in SitesOf(Hits) PROVE value'[s] # NoName \/ s \in failed'
    BY <1>5, <1>7, <2>3, SiteFacts
  <2>4. ASSUME NEW s \in Sites, s \notin SitesOf(Hits)
        PROVE  value'[s] = value[s] /\ (s \in failed' <=> s \in failed)
    BY <1>5, <1>8, <2>4
  <2>. QED
    BY <2>1, <2>2, <2>3, <2>4
<1>11. \A o \in Objs : count'[o] =
         LET good == {c \in Hits : At(blocks, c).site[1] = o /\ At(blocks, c).site \notin bad}
         IN  IF Cardinality(good) > count[o] THEN 0 ELSE count[o] - Cardinality(good)
  <2>1. ASSUME NEW o
        PROVE  {c \in Hits : Rec(c).site[1] = o /\ Rec(c).site \notin bad}
               = {c \in Hits : At(blocks, c).site[1] = o /\ At(blocks, c).site \notin bad}
    BY <1>2
  <2>. QED
    BY <1>5, <2>1
<1>. QED
  BY <1>5, <1>7, <1>8, <1>9, <1>10, <1>11

LEMMA ResolvedNamed ==
  ASSUME TypeInv, TableInv, Resolve, NEW bs2 \in Seq(BlockSet), bs2 = blocks', NEW M2, M2 = misnamed'
  PROVE  Named(bs2, M2)
<1>1. /\ blocks \in Seq(BlockSet) /\ Shaped(blocks) /\ pc = "resolve" /\ \A c \in Hits : Rec(c).obj = "live"
      /\ Named(blocks, misnamed) /\ AllUsed(blocks)
      /\ M2 = misnamed \union SitesOf({c \in Renumbered \ Hits : Rec(c).obj = "live"})
  BY DEF TypeInv, TableInv, Shaped, CompactInv, Resolve
<1>2. /\ NameCells = NamesOf(blocks) /\ \A c : Rec(c) = At(blocks, c)
      /\ RelocCells = {c \in CellsOf(blocks) : At(blocks, c).type = "reloc"}
  BY <1>1, CellsAreRecords
<1>3. /\ NamesOf(bs2) = NamesOf(blocks) /\ LiveOf(bs2) = LiveOf(blocks) \ Hits
      /\ \A c \in LiveOf(bs2) : At(bs2, c) = At(blocks, c)
      /\ \A n \in NamesOf(blocks) : /\ At(bs2, n).name = At(blocks, n).name
                                    /\ At(bs2, n).refs = RefsAfter(n)
  BY ResolvedTable
<1>4. SUFFICES ASSUME NEW c \in LiveOf(bs2), At(bs2, c).site \notin M2
               PROVE  \E n \in NamesOf(bs2) : LeadsTo(bs2, c, n)
  BY DEF Named
<1>5. /\ c \in LiveOf(blocks) /\ c \notin Hits /\ At(bs2, c) = At(blocks, c)
      /\ c \in RelocCells /\ Rec(c).obj = "live" /\ At(blocks, c).site \notin misnamed
  <2>1. c \in LiveOf(blocks) /\ c \notin Hits /\ At(bs2, c) = At(blocks, c)
    BY <1>3
  <2>. QED
    BY <1>1, <1>2, <1>4, <2>1 DEF LiveOf
<1>6. PICK n \in NamesOf(blocks) : LeadsTo(blocks, c, n)
  BY <1>1, <1>5 DEF Named
<1>7. /\ Rank(NamesOf(blocks), n) = At(blocks, c).name /\ At(blocks, n).name = Wanted(At(blocks, c).site)
      /\ \A m \in NamesOf(blocks) : Before(m, n) => At(blocks, m).refs > 0
  BY <1>6 DEF LeadsTo
<1>8. At(blocks, n).name \notin Known
  BY <1>1, <1>5, <1>7, HitFacts
<1>9. c \notin Renumbered
  <2>1. c \in Renumbered => At(blocks, c).site \in M2
    BY <1>1, <1>2, <1>5 DEF SitesOf
  <2>. QED
    BY <1>4, <1>5, <2>1
<1>10. ASSUME NEW m \in NamesOf(blocks), Before(m, n) PROVE RefsAfter(m) > 0
  <2>1. RefsAfter(m) \in Nat
    <3>1. HitsOn(m) \subseteq Cells
      BY <1>1, WalkTypes DEF HitsOn
    <3>2. Cardinality(HitsOn(m)) \in Nat
      BY <1>1, <3>1, WalkTypes
    <3>3. Rec(m).refs \in Nat
      BY <1>1, <1>2, WalkTypes
    <3>. QED
      BY <3>2, <3>3 DEF RefsAfter
  <2>2. CASE m = n
    <3>1. RefsAfter(m) = At(blocks, m).refs
      BY <1>2, <1>8, <2>2 DEF RefsAfter
    <3>. QED
      BY <1>7, <1>10, <3>1
  <2>3. CASE m # n
    <3>1. Rank(NamesOf(blocks), m) < At(blocks, c).name
      BY <1>1, <1>7, <1>10, <2>3, RankLess
    <3>2. RefsAfter(m) = 0 => c \in Renumbered
      BY <1>2, <1>5, <3>1 DEF Renumbered, Ordinal
    <3>. QED
      BY <1>9, <2>1, <3>2
  <2>. QED
    BY <2>2, <2>3
<1>11. LeadsTo(bs2, c, n)
  BY <1>3, <1>5, <1>7, <1>10 DEF LeadsTo
<1>. QED
  BY <1>3, <1>11

LEMMA ResolvedCount ==
  ASSUME TypeInv, TableInv, Resolve
  PROVE  CountInv'
<1>1. /\ blocks \in Seq(BlockSet) /\ pc = "resolve" /\ \A c \in Hits : Rec(c).obj = "live"
      /\ Recorded(blocks, Pending) /\ UNCHANGED <<loaded, loading>> /\ loaded \subseteq Objs
      /\ failed \subseteq Sites /\ CountInv /\ count \in [Objs -> Nat]
  BY DEF TypeInv, TypeOK, TableInv, Resolve, loadVars
<1>2. /\ Hits \subseteq LiveOf(blocks) /\ SitesOf(Hits) = {At(blocks, c).site : c \in Hits}
      /\ SitesOf(Hits) \subseteq Pending /\ loading = NoObj
  BY <1>1, HitFacts
<1>3. PICK bad \in SUBSET SitesOf(Hits) :
        /\ failed' = failed \union bad
        /\ \A o \in Objs : count'[o] =
             LET good == {c \in Hits : At(blocks, c).site[1] = o /\ At(blocks, c).site \notin bad}
             IN  IF Cardinality(good) > count[o] THEN 0 ELSE count[o] - Cardinality(good)
  BY ResolvedSites
<1>4. Pending' = Pending \ SitesOf(Hits)
  BY ResolvedSites
<1>5. SUFFICES ASSUME NEW o \in loaded
               PROVE  count'[o] = Cardinality({s \in Pending' \union failed' : s[1] = o})
  BY <1>1, <1>2 DEF CountInv, Owing
<1>. DEFINE good == {c \in Hits : At(blocks, c).site[1] = o /\ At(blocks, c).site \notin bad}
            done == {s \in SitesOf(Hits) \ bad : s[1] = o}
            left == {s \in Pending' \union failed' : s[1] = o}
<1>6. left = Owing(o) \ done /\ done \subseteq Owing(o)
  <2>1. \A s \in SitesOf(Hits) : s \in Pending /\ s \notin failed
    BY <1>2 DEF Pending
  <2>. QED
    BY <1>3, <1>4, <2>1 DEF Owing
<1>7. IsFiniteSet(Owing(o)) /\ Cardinality(Owing(o)) \in Nat /\ count[o] = Cardinality(Owing(o))
  <2>1. Owing(o) \subseteq Sites /\ \A s \in Owing(o) : s[1] = o
    BY <1>1, PendingBy DEF Owing
  <2>2. IsFiniteSet(Owing(o)) /\ Cardinality(Owing(o)) \in Nat
    BY <2>1, OwingFinite
  <2>. QED
    BY <1>1, <1>5, <2>2 DEF CountInv
<1>8. Cardinality(good) = Cardinality(done)
  <2>. DEFINE f == [c \in good |-> At(blocks, c).site]
  <2>1. good \subseteq CellsOf(blocks)
    BY <1>2 DEF LiveOf
  <2>2. IsFiniteSet(good)
    BY <1>1, <2>1, TableTypes
  <2>3. \A c \in good : At(blocks, c).site \in done
    BY <1>2
  <2>4. \A s \in done : \E c \in good : At(blocks, c).site = s
    BY <1>2
  <2>5. \A c, d \in good : At(blocks, c).site = At(blocks, d).site => c = d
    BY <1>1, <1>2 DEF Recorded
  <2>. HIDE DEF good, done
  <2>6. f \in Bijection(good, done)
    <3>1. f \in [good -> done]
      BY <2>3
    <3>2. \A c, d \in good : f[c] = f[d] => c = d
      BY <2>5
    <3>3. \A s \in done : \E c \in good : f[c] = s
      BY <2>4
    <3>. HIDE DEF f
    <3>. QED
      BY <3>1, <3>2, <3>3 DEF Bijection, Injection, Surjection, IsInjective
  <2>7. ExistsBijection(good, done)
    BY <2>6 DEF ExistsBijection
  <2>. QED
    BY <2>2, <2>7, FS_Bijection
<1>. HIDE DEF done, left
<1>9. /\ Cardinality(left) = Cardinality(Owing(o)) - Cardinality(done)
      /\ Cardinality(done) \in Nat /\ Cardinality(done) <= Cardinality(Owing(o))
  <2>1. Owing(o) \cap done = done
    BY <1>6
  <2>2. Cardinality(Owing(o) \ done) = Cardinality(Owing(o)) - Cardinality(Owing(o) \cap done)
    BY <1>7, FS_Difference
  <2>3. IsFiniteSet(done) /\ Cardinality(done) <= Cardinality(Owing(o))
    BY <1>6, <1>7, FS_Subset
  <2>4. Cardinality(done) \in Nat
    BY <2>3, FS_CardinalityType
  <2>. QED
    BY <1>6, <2>1, <2>2, <2>3, <2>4
<1>10. count'[o] = IF Cardinality(good) > count[o] THEN 0 ELSE count[o] - Cardinality(good)
  BY <1>1, <1>3, <1>5
<1>. HIDE DEF good
<1>11. count'[o] = Cardinality(left)
  BY <1>7, <1>8, <1>9, <1>10
<1>. QED
  BY <1>11 DEF left

LEMMA ResolveTable ==
  ASSUME TypeInv, TableInv, Resolve
  PROVE  TableInv'
<1>1. /\ blocks \in Seq(BlockSet) /\ Shaped(blocks) /\ pc = "resolve" /\ \A c \in Hits : Rec(c).obj = "live"
      /\ Recorded(blocks, Pending) /\ Named(blocks, misnamed) /\ UNCHANGED <<loaded, loading, next>>
      /\ at' = <<Len(blocks), 0>> /\ pc' = "compact" /\ misnamed \subseteq misnamed'
  BY DEF TypeInv, TableInv, Shaped, Resolve, loadVars
<1>2. PICK bs2 \in Seq(BlockSet) : bs2 = blocks'
  <2>1. TypeInv'
    BY ResolveTypes
  <2>. QED
    BY <2>1 DEF TypeInv
<1>3. /\ DOMAIN bs2 = DOMAIN blocks /\ Shaped(bs2) /\ LiveOf(bs2) = LiveOf(blocks) \ Hits
      /\ \A c \in LiveOf(bs2) : At(bs2, c) = At(blocks, c)
  BY <1>2, ResolvedTable
<1>4. Pending' = Pending \ SitesOf(Hits)
  BY ResolvedSites
<1>5. /\ \A c \in LiveOf(blocks) : At(blocks, c).site \in SitesOf(Hits) => c \in Hits
      /\ SitesOf(Hits) = {At(blocks, c).site : c \in Hits}
      /\ \A c \in LiveOf(blocks) : \A n \in NamesOf(blocks) :
           Rank(NamesOf(blocks), n) = At(blocks, c).name /\ At(blocks, n).name \in Known => c \in Hits
      /\ Known = Exported(loaded)
  BY <1>1, HitFacts
<1>6. Recorded(bs2, Pending \ SitesOf(Hits))
  BY <1>1, <1>3, <1>5 DEF Recorded
<1>7. Named(bs2, misnamed')
  <2>1. PICK M2 : M2 = misnamed'
    OBVIOUS
  <2>2. Named(bs2, M2)
    BY <1>2, <2>1, ResolvedNamed
  <2>. QED
    BY <2>1, <2>2
<1>8. WaitInv'
  <2>1. ASSUME NEW s \in Pending, s \notin SitesOf(Hits), s \notin misnamed
        PROVE  Wanted(s) \notin Exported(loaded)
    <3>1. PICK c \in LiveOf(blocks) : At(blocks, c).site = s
      BY <1>1 DEF Recorded
    <3>2. PICK n \in NamesOf(blocks) : LeadsTo(blocks, c, n)
      BY <1>1, <2>1, <3>1 DEF Named
    <3>3. Rank(NamesOf(blocks), n) = At(blocks, c).name /\ At(blocks, n).name = Wanted(s)
      BY <3>1, <3>2 DEF LeadsTo
    <3>4. c \notin Hits
      BY <1>5, <2>1, <3>1
    <3>. QED
      BY <1>5, <3>3, <3>4
  <2>2. \A s \in Pending' \ misnamed' : Wanted(s) \notin Exported(loaded)
    BY <1>1, <1>4, <2>1
  <2>. QED
    BY <1>1, <2>2 DEF WaitInv
<1>9. CompactInv'
  <2>1. \A c \in CellsOf(bs2) : ~(c[1] > Len(blocks)) /\ c[1] \in Nat /\ c[2] \in Nat
    <3>1. \A c \in CellsOf(bs2) : c[1] \in DOMAIN blocks /\ c[2] \in Nat
      BY <1>2, <1>3, TableTypes
    <3>. QED
      BY <1>1, <3>1
  <2>2. \A c \in CellsOf(bs2) : ~(c[1] > Len(blocks) \/ (c[1] = Len(blocks) /\ c[2] < 0))
    BY <2>1
  <2>3. ASSUME Len(blocks) > 0 PROVE bs2[Len(blocks)].rec[0].type # "text"
    <3>1. Len(blocks) \in DOMAIN bs2
      BY <1>1, <1>3, <2>3
    <3>2. Shape(bs2[Len(blocks)]) /\ 0 \in Positions
      BY <1>3, <3>1, Places DEF Shaped
    <3>3. ~TextShape(bs2[Len(blocks)], 0)
      BY DEF TextShape
    <3>. QED
      BY <3>2, <3>3 DEF Shape
  <2>. QED
    BY <1>1, <1>2, <2>2, <2>3 DEF CompactInv, Here, HereRec
<1>10. CountInv'
  BY ResolvedCount
<1>. QED
  BY <1>1, <1>2, <1>3, <1>4, <1>6, <1>7, <1>8, <1>9, <1>10 DEF TableInv, FreshInv, Shaped

-----------------------------------------------------------------------------
(* Compacting.                                                             *)

LEMMA CompactRest ==
  ASSUME TypeInv, TableInv, Compacts, NEW bs2, bs2 = blocks', Shaped(bs2),
         Recorded(bs2, Pending), Named(bs2, misnamed), CompactInv'
  PROVE  TableInv'
<1>1. /\ pc = "compact" /\ pc' \in {"compact", "idle"}
      /\ UNCHANGED <<loaded, loading, next, value, failed, count, misnamed>>
  BY DEF Compacts, CompactClean, CompactSkip, CompactNext, CompactDone, AtRecord, Compacting,
         loadVars, siteVars
<1>2. Pending' = Pending
  BY <1>1, Zenon DEF Pending
<1>3. FreshInv'
  BY <1>1 DEF FreshInv
<1>4. WaitInv' /\ CountInv'
  <2>1. WaitInv /\ CountInv
    BY DEF TableInv
  <2>. QED
    BY <1>1, <1>2, <2>1 DEF WaitInv, CountInv, Owing
<1>. QED
  BY <1>1, <1>2, <1>3, <1>4 DEF TableInv, Shaped

LEMMA HeadNotText ==
  ASSUME NEW b, Shape(b)
  PROVE  b.rec[0].type # "text"
<1>1. 0 \in Positions /\ ~TextShape(b, 0)
  BY Places DEF TextShape
<1>. QED
  BY <1>1 DEF Shape

\* What a compaction knows of the record it has come to.
LEMMA HereFacts ==
  ASSUME TypeInv, TableInv, AtRecord \/ CompactNext
  PROVE  /\ pc = "compact" /\ at \in Nat \X Nat /\ at[1] \in DOMAIN blocks /\ at[1] > 0
         /\ at = <<at[1], at[2]>>
         /\ Here = blocks[at[1]] /\ Here \in BlockSet /\ Shape(Here)
         /\ Here.recs \in Nat /\ Here.recs <= BlockRecs
         /\ AtRecord => Starts(Here, at[2])
         /\ CompactNext => Here.recs <= at[2]
<1>1. /\ pc = "compact" /\ at \in Nat \X Nat /\ at[1] \in DOMAIN blocks /\ at[1] > 0
      /\ at = <<at[1], at[2]>> /\ at[2] \in Nat
      /\ Here = blocks[at[1]] /\ Here \in BlockSet /\ Shape(Here)
  <2>1. pc = "compact" /\ at \in Nat \X Nat /\ at[1] > 0 /\ at[1] <= Len(blocks) /\ blocks \in Seq(BlockSet)
    BY DEF TypeInv, TypeOK, AtRecord, CompactNext, Compacting
  <2>2. at[1] \in DOMAIN blocks
    BY <2>1
  <2>. QED
    BY <2>1, <2>2, CellTypes DEF Here, TableInv
<1>2. Here.recs \in Nat /\ Here.recs <= BlockRecs
  BY <1>1, BlockFacts
<1>3. at[2] < Here.recs => at[2] \in Positions /\ HereRec.type # "text" /\ HereRec = Here.rec[at[2]]
  <2>1. at[2] < Here.recs => HereRec.type # "text"
    BY <1>1 DEF TableInv, CompactInv
  <2>. QED
    BY <1>1, <1>2, <2>1, Places DEF HereRec
<1>4. ASSUME AtRecord PROVE Starts(Here, at[2])
  <2>1. at[2] \in Positions /\ Here.rec[at[2]].type # "empty"
    BY <1>4 DEF AtRecord, IsLast
  <2>2. at[2] < Here.recs
    BY <1>1, <1>2, <2>1 DEF Shape
  <2>. QED
    BY <1>3, <2>1, <2>2 DEF Starts
<1>5. ASSUME CompactNext PROVE Here.recs <= at[2]
  <2>1. SUFFICES ASSUME at[2] < Here.recs PROVE FALSE
    BY <1>1, <1>2
  <2>2. IsLast(Here, at[2])
    BY <1>3, <1>5, <2>1 DEF CompactNext
  <2>3. Here.rec[at[2]].type # "empty"
    BY <1>1, <1>2, <1>3, <2>1 DEF Shape
  <2>. QED
    BY <1>1, <2>1, <2>2, <2>3, NotTooEarly DEF IsLast
<1>. QED
  BY <1>1, <1>2, <1>4, <1>5

LEMMA CompactSkipTable ==
  ASSUME TypeInv, TableInv, CompactSkip
  PROVE  TableInv'
<1>1. /\ AtRecord /\ ~Unused(HereRec) /\ at' = [at EXCEPT ![2] = @ + Extent(HereRec)]
      /\ UNCHANGED <<pc, blocks>>
  BY DEF CompactSkip
<1>. DEFINE k == at[2]
            e == Extent(HereRec)
<1>2. /\ pc = "compact" /\ at \in Nat \X Nat /\ at[1] \in DOMAIN blocks /\ at[1] \in Nat /\ k \in Nat
      /\ Here = blocks[at[1]] /\ Here \in BlockSet /\ Shape(Here) /\ Here.recs \in Nat
      /\ Starts(Here, k) /\ at = <<at[1], k>>
  BY <1>1, HereFacts
<1>3. HereRec = Here.rec[k] /\ k \in Positions /\ HereRec.type # "text"
  BY <1>2 DEF HereRec, Starts
<1>4. e \in Nat \ {0} /\ (HereRec.type # "name" => e = 1)
  BY <1>2, <1>3, BlockFacts
<1>5. k + e <= Here.recs /\ (k + e < Here.recs => Starts(Here, k + e))
  BY <1>2, <1>3, Successor
<1>6. at' = <<at[1], k + e>>
  BY <1>1, <1>2
<1>7. blocks \in Seq(BlockSet)
  BY DEF TypeInv
<1>8. ASSUME NEW c \in CellsOf(blocks), c[1] > at[1] \/ (c[1] = at[1] /\ c[2] < k + e)
      PROVE  ~Unused(At(blocks, c))
  <2>1. c[1] > at[1] \/ (c[1] = at[1] /\ c[2] < k) => ~Unused(At(blocks, c))
    BY <1>2 DEF TableInv, CompactInv
  <2>2. ASSUME c[1] = at[1], c[2] >= k, c[2] < k + e PROVE ~Unused(At(blocks, c))
    <3>1. c \in (DOMAIN blocks) \X Positions /\ At(blocks, c).type \in {"name", "reloc"}
          /\ At(blocks, c) = Here.rec[c[2]] /\ c[2] \in Nat
      BY <1>2, <1>7, <2>2, TableTypes DEF CellsOf, At
    <3>2. CASE c[2] = k
      BY <1>1, <1>3, <3>1, <3>2
    <3>3. CASE c[2] # k
      <4>1. HereRec.type = "name"
        BY <1>2, <1>4, <2>2, <3>1, <3>3
      <4>2. \A j \in k + 1 .. k + e - 1 : Here.rec[j].type = "text"
        BY <1>2, <1>3, <4>1 DEF Shape, NameShape
      <4>3. c[2] \in k + 1 .. k + e - 1
        BY <1>2, <1>4, <2>2, <3>1, <3>3
      <4>. QED
        BY <3>1, <4>2, <4>3
    <3>. QED
      BY <3>2, <3>3
  <2>3. c[1] \in Nat /\ c[2] \in Nat
    BY <1>7, TableTypes
  <2>. QED
    BY <1>2, <1>8, <2>1, <2>2, <2>3
<1>9. CompactInv'
  <2>1. k + e < Here.recs => Here.rec[k + e].type # "text"
    BY <1>5 DEF Starts
  <2>2. Here' = Here /\ HereRec' = Here.rec[k + e]
    BY <1>1, <1>2, <1>6 DEF Here, HereRec
  <2>3. at'[1] = at[1] /\ at'[2] = k + e
    BY <1>6
  <2>. HIDE DEF k, e
  <2>. QED
    BY <1>1, <1>2, <1>8, <2>1, <2>2, <2>3 DEF CompactInv
<1>10. Shaped(blocks) /\ Recorded(blocks, Pending) /\ Named(blocks, misnamed)
  BY DEF TableInv, Shaped
<1>. QED
  BY <1>1, <1>9, <1>10, CompactRest DEF Compacts

LEMMA CompactDoneTable ==
  ASSUME TypeInv, TableInv, CompactDone
  PROVE  TableInv'
<1>1. pc = "compact" /\ at[1] = 0 /\ pc' = "idle" /\ UNCHANGED blocks /\ blocks \in Seq(BlockSet)
  BY DEF CompactDone, TypeInv
<1>2. \A c \in CellsOf(blocks) : c[1] > 0
  BY <1>1 DEF CellsOf
<1>3. AllUsed(blocks)
  BY <1>1, <1>2 DEF TableInv, CompactInv, AllUsed
<1>4. CompactInv'
  BY <1>1, <1>3 DEF CompactInv
<1>5. Shaped(blocks) /\ Recorded(blocks, Pending) /\ Named(blocks, misnamed)
  BY DEF TableInv, Shaped
<1>. QED
  BY <1>1, <1>4, <1>5, CompactRest DEF Compacts

LEMMA CompactCleanTable ==
  ASSUME TypeInv, TableInv, CompactClean, sound'
  PROVE  TableInv'
<1>. DEFINE i == at[1]
            k == at[2]
            b == blocks[i]
            w == Cleaned(b, k, 1)
            bs2 == [blocks EXCEPT ![i] = w]
<1>1. /\ AtRecord /\ Unused(HereRec) /\ SizeOf(HereRec) = 1 /\ InBlock(Here, k, 1)
      /\ blocks' = [blocks EXCEPT ![i] = Cleaned(@, k, 1)] /\ UNCHANGED <<pc, at>>
  BY DEF CompactClean
<1>2. /\ pc = "compact" /\ at \in Nat \X Nat /\ i \in DOMAIN blocks /\ i \in Nat /\ k \in Nat
      /\ Here = b /\ b \in BlockSet /\ Shape(b) /\ b.recs \in Nat /\ b.recs <= BlockRecs
      /\ Starts(b, k) /\ at = <<i, k>> /\ HereRec = b.rec[k] /\ k \in Positions
  <2>1. /\ pc = "compact" /\ at \in Nat \X Nat /\ i \in DOMAIN blocks
        /\ Here = blocks[at[1]] /\ Here \in BlockSet /\ Shape(Here) /\ Starts(Here, at[2])
        /\ at = <<at[1], at[2]>> /\ Here.recs \in Nat /\ Here.recs <= BlockRecs
    BY <1>1, HereFacts
  <2>2. i \in Nat /\ k \in Nat
    BY <2>1
  <2>. QED
    BY <2>1, <2>2 DEF HereRec, Starts
<1>3. blocks \in Seq(BlockSet) /\ Shaped(blocks) /\ Recorded(blocks, Pending) /\ Named(blocks, misnamed)
  BY DEF TypeInv, TableInv, Shaped
<1>4. Extent(b.rec[k]) = 1
  <2>1. CASE HereRec.type = "name"
    <3>1. NameRecs(HereRec.name) = Extent(HereRec)
      BY <1>2, <2>1 DEF Shape, NameShape
    <3>2. SizeOf(HereRec) = NameRecs(HereRec.name)
      BY <2>1 DEF SizeOf
    <3>. QED
      BY <1>1, <1>2, <3>1, <3>2
  <2>2. CASE HereRec.type # "name"
    BY <1>2, <2>2, BlockFacts
  <2>. QED
    BY <2>1, <2>2
<1>5. /\ w \in BlockSet /\ Shape(w) /\ w.recs = b.recs - 1
      /\ \A j \in Positions : j < k => w.rec[j] = b.rec[j]
      /\ \A j \in Positions : j >= k /\ j < b.recs - 1 => w.rec[j] = b.rec[j + 1]
      /\ k < b.recs - 1 => Starts(w, k)
  BY <1>1, <1>2, <1>4, CleanedShape
<1>6. blocks' = bs2
  BY <1>1
<1>. HIDE DEF w
<1>7. /\ bs2 \in Seq(BlockSet) /\ DOMAIN bs2 = DOMAIN blocks /\ bs2[i] = w
      /\ \A c \in (DOMAIN blocks) \X Positions :
           At(bs2, c) = IF c[1] = i THEN w.rec[c[2]] ELSE At(blocks, c)
      /\ Shaped(bs2)
  <2>1. PICK j \in DOMAIN blocks : j = i
    BY <1>2
  <2>2. LET bs3 == [blocks EXCEPT ![j] = w]
        IN  /\ bs3 \in Seq(BlockSet) /\ DOMAIN bs3 = DOMAIN blocks /\ bs3[j] = w
            /\ \A c \in (DOMAIN blocks) \X Positions :
                 At(bs3, c) = IF c[1] = j THEN w.rec[c[2]] ELSE At(blocks, c)
            /\ Shaped(blocks) /\ Shape(w) => Shaped(bs3)
    BY <1>3, <1>5, Replaced
  <2>. QED
    BY <1>3, <1>5, <2>1, <2>2
<1>. HIDE DEF bs2
\* The places in the block in front of the record, and behind it.
<1>8. /\ \A c \in CellsOf(blocks) \union CellsOf(bs2) :
           c \in (DOMAIN blocks) \X Positions /\ c = <<c[1], c[2]>> /\ c[1] \in Nat /\ c[2] \in Nat
      /\ \A c \in CellsOf(blocks) : c[1] = i => c[2] < b.recs /\ At(blocks, c) = b.rec[c[2]]
      /\ \A c \in CellsOf(bs2) : c[1] = i => c[2] < b.recs - 1 /\ At(bs2, c) = w.rec[c[2]]
  <2>1. \A c \in CellsOf(blocks) \union CellsOf(bs2) :
          c \in (DOMAIN blocks) \X Positions /\ c = <<c[1], c[2]>> /\ c[1] \in Nat /\ c[2] \in Nat
    BY <1>3, <1>7, TableTypes
  <2>2. ASSUME NEW c \in CellsOf(blocks), c[1] = i PROVE c[2] < b.recs /\ At(blocks, c) = b.rec[c[2]]
    <3>1. At(blocks, c) = b.rec[c[2]] /\ c[2] \in Positions /\ b.rec[c[2]].type # "empty"
      BY <2>1, <2>2 DEF CellsOf, At
    <3>. QED
      BY <1>2, <2>1, <3>1 DEF Shape
  <2>3. ASSUME NEW c \in CellsOf(bs2), c[1] = i PROVE c[2] < b.recs - 1 /\ At(bs2, c) = w.rec[c[2]]
    <3>1. At(bs2, c) = w.rec[c[2]] /\ c[2] \in Positions /\ w.rec[c[2]].type # "empty"
      BY <1>7, <2>1, <2>3 DEF CellsOf
    <3>2. ~(c[2] >= w.recs)
      BY <1>5, <3>1 DEF Shape
    <3>. QED
      BY <1>2, <1>5, <2>1, <3>1, <3>2
  <2>. QED
    BY <2>1, <2>2, <2>3
<1>. DEFINE g(c) == IF c[1] = i /\ c[2] >= k THEN <<c[1], c[2] + 1>> ELSE c
            f == [c \in CellsOf(bs2) |-> g(c)]
<1>9. ASSUME NEW c \in CellsOf(bs2) PROVE g(c) \in CellsOf(blocks) /\ At(bs2, c) = At(blocks, g(c))
  <2>1. c \in (DOMAIN blocks) \X Positions /\ c = <<c[1], c[2]>> /\ c[1] \in Nat /\ c[2] \in Nat
        /\ At(bs2, c).type \in {"name", "reloc"}
    BY <1>8 DEF CellsOf
  <2>2. CASE c[1] # i
    BY <1>7, <2>1, <2>2 DEF CellsOf
  <2>3. CASE c[1] = i /\ c[2] < k
    <3>1. At(bs2, c) = b.rec[c[2]] /\ At(blocks, c) = b.rec[c[2]]
      BY <1>5, <1>8, <2>1, <2>3 DEF At
    <3>2. g(c) = c
      BY <1>2, <2>1, <2>3
    <3>. QED
      BY <2>1, <3>1, <3>2 DEF CellsOf
  <2>4. CASE c[1] = i /\ c[2] >= k
    <3>1. g(c) = <<i, c[2] + 1>> /\ c[2] < b.recs - 1
      BY <1>8, <2>4
    <3>2. At(bs2, c) = b.rec[c[2] + 1]
      BY <1>5, <1>8, <2>1, <2>4, <3>1
    <3>3. c[2] + 1 \in Positions
      BY <1>2, <2>1, <3>1, Places
    <3>4. At(blocks, g(c)) = b.rec[c[2] + 1]
      BY <3>1 DEF At
    <3>. QED
      BY <1>2, <2>1, <3>1, <3>2, <3>3, <3>4 DEF CellsOf
  <2>. QED
    BY <1>2, <2>1, <2>2, <2>3, <2>4
<1>10. ASSUME NEW d \in CellsOf(blocks), ~Unused(At(blocks, d))
       PROVE  \E c \in CellsOf(bs2) : g(c) = d
  <2>1. d \in (DOMAIN blocks) \X Positions /\ d = <<d[1], d[2]>> /\ d[1] \in Nat /\ d[2] \in Nat
        /\ At(blocks, d).type \in {"name", "reloc"}
    BY <1>8 DEF CellsOf
  <2>2. CASE d[1] # i
    <3>1. At(bs2, d) = At(blocks, d)
      BY <1>7, <2>1, <2>2
    <3>. QED
      BY <1>7, <2>1, <2>2, <3>1 DEF CellsOf
  <2>3. CASE d[1] = i /\ d[2] < k
    <3>1. At(bs2, d) = At(blocks, d)
      BY <1>5, <1>7, <1>8, <2>1, <2>3
    <3>2. g(d) = d
      BY <1>2, <2>1, <2>3
    <3>. QED
      BY <1>7, <2>1, <3>1, <3>2 DEF CellsOf
  <2>4. CASE d[1] = i /\ d[2] > k
    <3>1. PICK j \in Nat : j = d[2] - 1 /\ j >= k /\ j + 1 = d[2]
      BY <1>2, <2>1, <2>4
    <3>2. d[2] < b.recs /\ At(blocks, d) = b.rec[d[2]]
      BY <1>8, <2>4
    <3>3. j \in Positions /\ j < b.recs - 1
      BY <1>2, <2>1, <3>1, <3>2, Places
    <3>4. PICK c \in (DOMAIN blocks) \X Positions : c = <<i, j>>
      BY <1>2, <3>3
    <3>5. At(bs2, c) = b.rec[d[2]]
      BY <1>5, <1>7, <3>1, <3>3, <3>4
    <3>6. g(c) = d
      BY <2>1, <2>4, <3>1, <3>4
    <3>. QED
      BY <1>7, <2>1, <3>2, <3>4, <3>5, <3>6 DEF CellsOf
  <2>5. CASE d[1] = i /\ d[2] = k
    <3>1. At(blocks, d) = HereRec
      BY <1>2, <1>8, <2>5
    <3>. QED
      BY <1>1, <1>10, <3>1
  <2>. QED
    BY <1>2, <2>1, <2>2, <2>3, <2>4, <2>5
<1>11. \A c, d \in CellsOf(bs2) : Before(c, d) <=> Before(g(c), g(d))
  <2>1. SUFFICES ASSUME NEW c \in CellsOf(bs2), NEW d \in CellsOf(bs2)
                 PROVE  Before(c, d) <=> Before(g(c), g(d))
    OBVIOUS
  <2>2. /\ c[1] \in Nat /\ c[2] \in Nat /\ d[1] \in Nat /\ d[2] \in Nat
        /\ g(c)[1] = c[1] /\ g(c)[2] = IF c[1] = i /\ c[2] >= k THEN c[2] + 1 ELSE c[2]
        /\ g(d)[1] = d[1] /\ g(d)[2] = IF d[1] = i /\ d[2] >= k THEN d[2] + 1 ELSE d[2]
    BY <1>8
  <2>. HIDE DEF g, i, k
  <2>3. i \in Nat /\ k \in Nat
    BY <1>2
  <2>. QED
    BY <2>2, <2>3 DEF Before
<1>12. Shifts(blocks, bs2, f)
  <2>. HIDE DEF g
  <2>1. f \in [CellsOf(bs2) -> CellsOf(blocks)] /\ \A c \in CellsOf(bs2) : f[c] = g(c)
    BY <1>9
  <2>. HIDE DEF f
  <2>2. \A c, d \in CellsOf(bs2) : Before(c, d) <=> Before(f[c], f[d])
    BY <1>11, <2>1
  <2>3. \A c \in CellsOf(bs2) : At(bs2, c) = At(blocks, f[c])
    BY <1>9, <2>1
  <2>4. \A d \in CellsOf(blocks) : Unused(At(blocks, d)) \/ \E c \in CellsOf(bs2) : f[c] = d
    BY <1>10, <2>1
  <2>. QED
    BY <2>1, <2>2, <2>3, <2>4 DEF Shifts
<1>. HIDE DEF f, g
<1>13. Recorded(bs2, Pending) /\ Named(bs2, misnamed)
  BY <1>3, <1>7, <1>12, ShiftRecorded, ShiftNamed
<1>14. CompactInv'
  <2>1. ASSUME NEW c \in CellsOf(bs2), c[1] > i \/ (c[1] = i /\ c[2] < k)
        PROVE  ~Unused(At(bs2, c))
    <3>1. c[1] \in Nat /\ c[2] \in Nat
      BY <1>8
    <3>2. g(c) = c
      BY <1>2, <2>1, <3>1 DEF g
    <3>3. c \in CellsOf(blocks) /\ At(bs2, c) = At(blocks, c)
      BY <1>9, <3>2
    <3>. QED
      BY <1>2, <2>1, <3>3 DEF TableInv, CompactInv
  <2>2. k < w.recs => w.rec[k].type # "text"
    BY <1>5 DEF Starts
  <2>3. Here' = w /\ HereRec' = w.rec[k]
    BY <1>1, <1>6, <1>7 DEF Here, HereRec
  <2>4. at'[1] = i /\ at'[2] = k
    BY <1>1
  <2>. QED
    BY <1>1, <1>2, <1>6, <2>1, <2>2, <2>3, <2>4 DEF CompactInv
<1>. QED
  BY <1>6, <1>7, <1>13, <1>14, CompactRest DEF Compacts

LEMMA CompactNextTable ==
  ASSUME TypeInv, TableInv, CompactNext
  PROVE  TableInv'
<1>. DEFINE i == at[1]
            k == at[2]
<1>1. /\ pc' = pc /\ at' = <<i - 1, 0>>
      /\ blocks' = IF Here.recs > 0 THEN blocks
                   ELSE [j \in 1 .. Len(blocks) - 1 |->
                           IF j < i THEN blocks[j] ELSE blocks[j + 1]]
  BY DEF CompactNext
<1>2. /\ pc = "compact" /\ i \in DOMAIN blocks /\ i \in Nat \ {0} /\ k \in Nat
      /\ Here = blocks[i] /\ Here \in BlockSet /\ Shape(Here)
      /\ Here.recs \in Nat /\ Here.recs <= k /\ i - 1 \in Nat
  <2>1. /\ pc = "compact" /\ at \in Nat \X Nat /\ i \in DOMAIN blocks /\ i > 0
        /\ Here = blocks[at[1]] /\ Here \in BlockSet /\ Shape(Here)
        /\ Here.recs \in Nat /\ Here.recs <= k
    BY HereFacts
  <2>2. i \in Nat /\ k \in Nat
    BY <2>1
  <2>. QED
    BY <2>1, <2>2
<1>3. blocks \in Seq(BlockSet) /\ Shaped(blocks) /\ Recorded(blocks, Pending) /\ Named(blocks, misnamed)
  BY DEF TypeInv, TableInv, Shaped
<1>. HIDE DEF i, k
<1>4. ASSUME NEW c \in CellsOf(blocks), c[1] = i PROVE c[2] < Here.recs
  <2>1. At(blocks, c) = Here.rec[c[2]] /\ c[2] \in Positions /\ Here.rec[c[2]].type # "empty"
    BY <1>2, <1>4 DEF CellsOf, At
  <2>2. c[2] \in Nat
    BY <1>3, TableTypes
  <2>. QED
    BY <1>2, <2>1, <2>2 DEF Shape
<1>5. ASSUME NEW c \in CellsOf(blocks), c[1] > i - 1 PROVE ~Unused(At(blocks, c))
  <2>1. c[1] \in Nat /\ c[2] \in Nat
    BY <1>3, TableTypes
  <2>2. c[1] > i \/ c[1] = i
    BY <1>2, <1>5, <2>1
  <2>3. c[1] = i => c[2] < k
    BY <1>2, <1>4, <2>1
  <2>. QED
    BY <1>2, <2>2, <2>3 DEF TableInv, CompactInv, i, k
\* What is left to show of the compaction, for either table.
<1>6. ASSUME NEW bs2 \in Seq(BlockSet), bs2 = blocks', Shaped(bs2), i - 1 > 0 => i - 1 \in DOMAIN bs2,
             \A c \in CellsOf(bs2) : c[1] > i - 1 => ~Unused(At(bs2, c))
      PROVE  CompactInv'
  <2>1. at'[1] = i - 1 /\ at'[2] = 0
    BY <1>1
  <2>2. \A c \in CellsOf(bs2) : c[2] \in Nat /\ ~(c[2] < 0)
    <3>1. \A c \in CellsOf(bs2) : c[2] \in Nat
      BY TableTypes
    <3>. QED
      BY <3>1
  <2>3. ASSUME i - 1 > 0 PROVE HereRec'.type # "text"
    <3>1. Shape(bs2[i - 1])
      BY <1>6, <2>3 DEF Shaped
    <3>2. HereRec' = bs2[i - 1].rec[0]
      BY <1>6, <2>1 DEF HereRec, Here
    <3>. QED
      BY <3>1, <3>2, HeadNotText
  <2>. QED
    BY <1>1, <1>2, <1>6, <2>1, <2>2, <2>3 DEF CompactInv
<1>7. CASE Here.recs > 0
  <2>1. blocks' = blocks
    BY <1>1, <1>7
  <2>2. i - 1 > 0 => i - 1 \in DOMAIN blocks
    BY <1>2, <1>3
  <2>3. CompactInv'
    BY <1>3, <1>5, <1>6, <2>1, <2>2
  <2>. QED
    BY <1>3, <2>1, <2>3, CompactRest DEF Compacts
<1>8. CASE ~(Here.recs > 0)
  <2>. DEFINE short == [j \in 1 .. Len(blocks) - 1 |-> IF j < i THEN blocks[j] ELSE blocks[j + 1]]
  <2>1. blocks' = short
    BY <1>1, <1>8
  <2>2. PICK n \in Nat : n = Len(blocks) - 1 /\ Len(blocks) = n + 1 /\ DOMAIN blocks = 1 .. n + 1
    BY <1>2, <1>3
  <2>3. short = [j \in 1 .. n |-> IF j < i THEN blocks[j] ELSE blocks[j + 1]]
    BY <2>2
  <2>4. /\ short \in Seq(BlockSet) /\ DOMAIN short = 1 .. n
        /\ \A j \in 1 .. n : short[j] = IF j < i THEN blocks[j] ELSE blocks[j + 1]
        /\ \A j \in 1 .. n : j \in DOMAIN blocks /\ j + 1 \in DOMAIN blocks
    <3>1. \A j \in 1 .. n : j \in DOMAIN blocks /\ j + 1 \in DOMAIN blocks
      BY <2>2
    <3>2. \A j \in DOMAIN blocks : blocks[j] \in BlockSet
      BY <1>3, CellTypes
    <3>. HIDE DEF BlockSet
    <3>3. short \in [1 .. n -> BlockSet]
      BY <2>3, <3>1, <3>2
    <3>4. /\ DOMAIN short = 1 .. n
          /\ \A j \in 1 .. n : short[j] = IF j < i THEN blocks[j] ELSE blocks[j + 1]
      BY <2>3
    <3>. HIDE DEF short
    <3>5. short \in Seq(BlockSet)
      BY <3>3
    <3>. QED
      BY <3>1, <3>4, <3>5
  <2>. HIDE DEF short
  <2>5. Shaped(short)
    <3>1. ASSUME NEW j \in 1 .. n PROVE Shape(short[j])
      BY <1>3, <2>4 DEF Shaped
    <3>. QED
      BY <2>4, <3>1 DEF Shaped
  <2>. DEFINE g(c) == IF c[1] < i THEN c ELSE <<c[1] + 1, c[2]>>
              f == [c \in CellsOf(short) |-> g(c)]
  <2>6. /\ \A c \in CellsOf(short) : /\ c \in (1 .. n) \X Positions /\ c = <<c[1], c[2]>>
                                     /\ c[1] \in Nat /\ c[2] \in Nat
        /\ \A d \in CellsOf(blocks) : /\ d \in (DOMAIN blocks) \X Positions /\ d = <<d[1], d[2]>>
                                      /\ d[1] \in Nat /\ d[2] \in Nat /\ d[1] # i
    <3>1. \A c \in CellsOf(short) : /\ c \in (1 .. n) \X Positions /\ c = <<c[1], c[2]>>
                                    /\ c[1] \in Nat /\ c[2] \in Nat
      BY <2>4, TableTypes
    <3>2. \A d \in CellsOf(blocks) : /\ d \in (DOMAIN blocks) \X Positions /\ d = <<d[1], d[2]>>
                                     /\ d[1] \in Nat /\ d[2] \in Nat
      BY <1>3, TableTypes
    <3>3. \A d \in CellsOf(blocks) : d[1] = i => d[2] < Here.recs
      BY <1>4
    <3>4. \A d \in CellsOf(blocks) : d[1] # i
      BY <1>2, <1>8, <3>2, <3>3
    <3>. QED
      BY <3>1, <3>2, <3>4
  <2>7. ASSUME NEW c \in CellsOf(short) PROVE g(c) \in CellsOf(blocks) /\ At(short, c) = At(blocks, g(c))
    <3>1. c \in (1 .. n) \X Positions /\ c = <<c[1], c[2]>> /\ At(short, c).type \in {"name", "reloc"}
      BY <2>6 DEF CellsOf
    <3>2. CASE c[1] < i
      <4>1. At(short, c) = At(blocks, c) /\ g(c) = c
        BY <2>4, <3>1, <3>2 DEF At
      <4>. QED
        BY <2>4, <3>1, <4>1 DEF CellsOf
    <3>3. CASE ~(c[1] < i)
      <4>1. At(short, c) = At(blocks, <<c[1] + 1, c[2]>>) /\ g(c) = <<c[1] + 1, c[2]>>
        BY <2>4, <3>1, <3>3 DEF At
      <4>2. c[1] + 1 \in DOMAIN blocks /\ c[2] \in Positions
        BY <2>4, <3>1
      <4>. QED
        BY <3>1, <4>1, <4>2 DEF CellsOf
    <3>. QED
      BY <3>2, <3>3
  <2>8. ASSUME NEW d \in CellsOf(blocks) PROVE \E c \in CellsOf(short) : g(c) = d
    <3>1. /\ d \in (DOMAIN blocks) \X Positions /\ d = <<d[1], d[2]>> /\ d[1] \in Nat /\ d[1] # i
          /\ At(blocks, d).type \in {"name", "reloc"}
      BY <2>6 DEF CellsOf
    <3>2. CASE d[1] < i
      <4>1. d[1] \in 1 .. n
        BY <1>2, <2>2, <3>1, <3>2
      <4>2. At(short, d) = At(blocks, d) /\ g(d) = d
        BY <2>4, <3>2, <4>1 DEF At
      <4>. QED
        BY <2>4, <3>1, <4>1, <4>2 DEF CellsOf
    <3>3. CASE d[1] > i
      <4>1. PICK j \in 1 .. n : j + 1 = d[1] /\ ~(j < i)
        <5>1. d[1] - 1 \in 1 .. n /\ (d[1] - 1) + 1 = d[1] /\ ~(d[1] - 1 < i)
          BY <1>2, <2>2, <3>1, <3>3
        <5>. QED
          BY <5>1
      <4>2. PICK c \in (1 .. n) \X Positions : c = <<j, d[2]>>
        BY <3>1
      <4>3. At(short, c) = At(blocks, d) /\ g(c) = d
        BY <2>4, <3>1, <4>1, <4>2 DEF At
      <4>. QED
        BY <2>4, <3>1, <4>2, <4>3 DEF CellsOf
    <3>. QED
      BY <1>2, <3>1, <3>2, <3>3
  <2>9. \A c, d \in CellsOf(short) : Before(c, d) <=> Before(g(c), g(d))
    <3>1. SUFFICES ASSUME NEW c \in CellsOf(short), NEW d \in CellsOf(short)
                   PROVE  Before(c, d) <=> Before(g(c), g(d))
      OBVIOUS
    <3>2. /\ c[1] \in Nat /\ c[2] \in Nat /\ d[1] \in Nat /\ d[2] \in Nat
          /\ g(c)[1] = (IF c[1] < i THEN c[1] ELSE c[1] + 1) /\ g(c)[2] = c[2]
          /\ g(d)[1] = (IF d[1] < i THEN d[1] ELSE d[1] + 1) /\ g(d)[2] = d[2]
      BY <2>6
    <3>. HIDE DEF g
    <3>. QED
      BY <1>2, <3>2 DEF Before
  <2>10. Shifts(blocks, short, f)
    <3>. HIDE DEF g
    <3>1. f \in [CellsOf(short) -> CellsOf(blocks)] /\ \A c \in CellsOf(short) : f[c] = g(c)
      BY <2>7
    <3>. HIDE DEF f
    <3>2. \A c, d \in CellsOf(short) : Before(c, d) <=> Before(f[c], f[d])
      BY <2>9, <3>1
    <3>3. \A c \in CellsOf(short) : At(short, c) = At(blocks, f[c])
      BY <2>7, <3>1
    <3>4. \A d \in CellsOf(blocks) : \E c \in CellsOf(short) : f[c] = d
      BY <2>8, <3>1
    <3>. QED
      BY <3>1, <3>2, <3>3, <3>4 DEF Shifts
  <2>11. Recorded(short, Pending) /\ Named(short, misnamed)
    BY <1>3, <2>4, <2>10, ShiftRecorded, ShiftNamed
  <2>12. ASSUME NEW c \in CellsOf(short), c[1] > i - 1 PROVE ~Unused(At(short, c))
    <3>1. g(c) \in CellsOf(blocks) /\ At(short, c) = At(blocks, g(c))
      BY <2>7
    <3>2. g(c)[1] > i - 1
      <4>1. c[1] \in Nat /\ ~(c[1] < i)
        BY <1>2, <2>6, <2>12
      <4>2. g(c)[1] = c[1] + 1
        BY <4>1
      <4>. QED
        BY <1>2, <4>1, <4>2
    <3>. QED
      BY <1>5, <3>1, <3>2
  <2>13. i - 1 > 0 => i - 1 \in DOMAIN short
    BY <1>2, <2>2, <2>4
  <2>14. CompactInv'
    BY <1>6, <2>1, <2>4, <2>5, <2>12, <2>13
  <2>. QED
    BY <2>1, <2>5, <2>11, <2>14, CompactRest DEF Compacts
<1>. QED
  BY <1>7, <1>8, <1>2

-----------------------------------------------------------------------------
(* The invariant.                                                          *)

LEMMA InitInv == Init => Inv
<1>. SUFFICES ASSUME Init PROVE Inv
  OBVIOUS
<1>1. TypeInv /\ TypeOK
  BY InitTypes DEF TypeInv
<1>2. /\ blocks = <<>> /\ pc = "idle" /\ loaded = {} /\ loading = NoObj /\ failed = {}
      /\ value = [s \in Sites |-> NoName]
  BY DEF Init
<1>3. WrongOnlyIfMisnamed
  BY <1>2 DEF WrongOnlyIfMisnamed
<1>4. CellsOf(blocks) = {}
  BY <1>2 DEF CellsOf
<1>5. Pending = {}
  BY <1>2, SiteFacts DEF Pending
<1>6. Recorded(blocks, Pending) /\ Named(blocks, misnamed) /\ CompactInv
  BY <1>2, <1>4, <1>5 DEF Recorded, Named, CompactInv, AllUsed, LiveOf
<1>7. FreshInv /\ WaitInv /\ CountInv
  BY <1>2, <1>5 DEF FreshInv, WaitInv, CountInv
<1>. QED
  BY <1>1, <1>2, <1>3, <1>6, <1>7 DEF Inv, TableInv

\* The table, for the steps that stay inside of it.
LEMMA TableStep ==
  ASSUME TypeInv, TableInv, Loads \/ Adds \/ Resolve \/ Compacts, sound'
  PROVE  TableInv'
BY LoadTable, LeaveTable, RelocateTable, LoadDoneTable, AddSharedTable, AddNameTable, AddFullTable,
   AddFullFailsTable, ResolveTable, CompactCleanTable, CompactSkipTable, CompactNextTable,
   CompactDoneTable
   DEF Loads, Adds, Compacts

LEMMA SoundBefore ==
  ASSUME TypeInv, Loads \/ Adds \/ Resolve \/ Compacts, sound'
  PROVE  sound
BY DEF Loads, Load, Close, LoadFails, Relocate, LoadDone, Adds, AddShared, AddName, AddFull,
       AddFullFails, Resolve, Compacts, CompactClean, CompactSkip, CompactNext, CompactDone

\* Only a load, a relocation and a pass over the table set values.
LEMMA SameValues ==
  ASSUME Loads \/ Adds \/ Compacts, ~Relocate, ~\E o \in Objs : Load(o)
  PROVE  value' = value /\ misnamed \subseteq misnamed'
BY DEF Loads, Close, LoadFails, LoadDone, Adds, AddShared, AddName, AddFull, AddFullFails, Added,
       Compacts, CompactClean, CompactSkip, CompactNext, CompactDone, siteVars

LEMMA PatchedStep ==
  ASSUME TypeInv, WrongOnlyIfMisnamed, sound => TableInv, Loads \/ Adds \/ Resolve \/ Compacts
  PROVE  WrongOnlyIfMisnamed'
<1>. SUFFICES ASSUME sound' PROVE \A s \in Sites \ misnamed' : value'[s] \in {NoName, Wanted(s)}
  BY DEF WrongOnlyIfMisnamed
<1>1. sound /\ TableInv
  BY SoundBefore
<1>2. \A s \in Sites \ misnamed : value[s] \in {NoName, Wanted(s)}
  BY <1>1 DEF WrongOnlyIfMisnamed
<1>3. ASSUME NEW o \in Objs, Load(o)
      PROVE  \A s \in Sites \ misnamed' : value'[s] \in {NoName, Wanted(s)}
  BY <1>2, <1>3 DEF Load
<1>4. ASSUME Relocate PROVE \A s \in Sites \ misnamed' : value'[s] \in {NoName, Wanted(s)}
  <2>1. MoreRelocs /\ value' = [value EXCEPT ![Site] = Symbol] /\ misnamed' = misnamed
    BY <1>4 DEF Relocate
  <2>2. Symbol = Wanted(Site) /\ value \in [Sites -> Names \union {NoName}]
    BY <2>1, MetSite DEF TypeInv, TypeOK
  <2>. QED
    BY <1>2, <2>1, <2>2
<1>5. ASSUME Resolve PROVE \A s \in Sites \ misnamed' : value'[s] \in {NoName, Wanted(s)}
  <2>1. \A s \in Sites \ misnamed : value'[s] \in {value[s], Wanted(s)}
    BY <1>1, <1>5, ResolvedSites
  <2>2. misnamed \subseteq misnamed'
    BY <1>5 DEF Resolve
  <2>. QED
    BY <1>2, <2>1, <2>2
<1>. QED
  BY <1>2, <1>3, <1>4, <1>5, SameValues

LEMMA InvStep == Inv /\ [Next]_vars => Inv'
<1>. SUFFICES ASSUME Inv, [Next]_vars PROVE Inv'
  OBVIOUS
<1>1. TypeOK /\ WrongOnlyIfMisnamed /\ (~ub => TypeInv) /\ (sound /\ ~ub => TableInv)
  BY DEF Inv
<1>2. CASE ~ub /\ (Loads \/ Adds \/ Resolve \/ Compacts)
  <2>1. TypeInv' /\ TypeOK'
    BY <1>1, <1>2, TypeStep DEF TypeInv
  <2>2. WrongOnlyIfMisnamed'
    BY <1>1, <1>2, PatchedStep
  <2>3. ASSUME sound' PROVE TableInv'
    BY <1>1, <1>2, <2>3, SoundBefore, TableStep
  <2>. QED
    BY <2>1, <2>2, <2>3 DEF Inv
<1>3. CASE ~ub /\ GoWrong
  <2>1. /\ ub' = TRUE
        /\ UNCHANGED <<loaded, loading, next, pc, blocks, at, value, failed, count, misnamed, sound>>
    BY <1>3 DEF GoWrong, loadVars, siteVars
  <2>2. WrongOnlyIfMisnamed'
    BY <1>1, <2>1 DEF WrongOnlyIfMisnamed
  <2>3. TypeOK'
    BY <1>1, <2>1 DEF TypeOK
  <2>. QED
    BY <2>1, <2>2, <2>3 DEF Inv
<1>4. CASE ~ub /\ AddBehindEnd
  <2>1. ub' = TRUE /\ sound' = FALSE
    BY <1>4 DEF AddBehindEnd
  <2>2. WrongOnlyIfMisnamed'
    BY <2>1 DEF WrongOnlyIfMisnamed
  <2>3. TypeOK'
    BY <1>1, <1>4, BehindEndTypes
  <2>. QED
    BY <2>1, <2>2, <2>3 DEF Inv
<1>5. CASE UNCHANGED vars
  <2>1. UNCHANGED <<loaded, loading, next, pc, blocks, at, value, failed, count, misnamed, sound, ub>>
    BY <1>5 DEF vars
  <2>2. WrongOnlyIfMisnamed'
    BY <1>1, <2>1 DEF WrongOnlyIfMisnamed
  <2>3. Pending' = Pending
    BY <2>1, Zenon DEF Pending
  <2>4. TableInv => TableInv'
    BY <2>1, <2>3 DEF TableInv, CompactInv, Here, HereRec, FreshInv, WaitInv, CountInv, Owing
  <2>5. TypeOK' /\ (TypeInv => TypeInv')
    BY <1>1, <2>1 DEF TypeOK, TypeInv
  <2>. QED
    BY <1>1, <2>1, <2>2, <2>4, <2>5 DEF Inv
<1>. QED
  BY <1>2, <1>3, <1>4, <1>5, Steps

-----------------------------------------------------------------------------
(* What the runs check, for every set of objects and every size.           *)

\* The inductive invariant: while the blocks hold the records they count (sound) and
\* nothing was written behind one (ub), what waits is what the table records; those
\* that are not misnamed under the name they ask for
\* (rtems_rtl_unresolved_add, _resolve and _compact).
THEOREM UnresolvedInvariance == Spec => []Inv
BY InitInv, InvStep, PTL DEF Spec

\* The types; only a name that does not fit, and whose relocation is written behind
\* the end, makes a block count more records than it has room for
\* (rtems_rtl_unresolved_add, rtems_rtl_unresolved_clean_block).
THEOREM UnresolvedTypeCorrect == Spec => []TypeOK
<1>1. Inv => TypeOK
  BY DEF Inv
<1>. QED
  BY <1>1, UnresolvedInvariance, PTL

\* The places that are relocated with a symbol they do not ask for, which PatchedRight
\* says there are none of and a run shows there are: as long as the blocks hold the
\* records they count (sound), all of them were given the ordinal of another name
\* (Found, Displaced) or were not renumbered with their name
\* (Renumbered); the moves of a compaction are no fourth way
\* (rtems_rtl_unresolved_resolve_reloc matches records by ordinal).
THEOREM NoOtherWayToGoWrong == Spec => []WrongOnlyIfMisnamed
<1>1. Inv => WrongOnlyIfMisnamed
  BY DEF Inv
<1>. QED
  BY <1>1, UnresolvedInvariance, PTL

LEMMA Recordeds ==
  ASSUME TypeInv, TableInv
  PROVE  /\ \A s : RecordsOf(s) = {c \in LiveOf(blocks) : At(blocks, c).site = s}
         /\ NameCells = NamesOf(blocks) /\ Cells = CellsOf(blocks)
         /\ \A c : Rec(c) = At(blocks, c)
<1>1. blocks \in Seq(BlockSet) /\ Shaped(blocks)
  BY DEF TypeInv, TableInv, Shaped
<1>2. /\ NameCells = NamesOf(blocks) /\ Cells = CellsOf(blocks) /\ \A c : Rec(c) = At(blocks, c)
      /\ RelocCells = {c \in CellsOf(blocks) : At(blocks, c).type = "reloc"}
  BY <1>1, CellsAreRecords
<1>. QED
  BY <1>2 DEF RecordsOf, LiveOf

\* While the table is sound, a relocation that waits has exactly one record, and
\* unless it is misnamed that record leads to its name, however the passes of
\* rtems_rtl_unresolved_clean_block have moved records and freed blocks.
THEOREM AlwaysRecorded == Spec => []PendingIsRecorded
<1>1. ASSUME TypeInv, TableInv, NEW s \in Pending
      PROVE  \E c \in RecordsOf(s) :
               /\ RecordsOf(s) = {c}
               /\ s \in misnamed \/ pc = "compact" \/
                    \E n \in NameCells : Ordinal(n) = Rec(c).name /\ Rec(n).name = Wanted(s)
  <2>1. /\ RecordsOf(s) = {c \in LiveOf(blocks) : At(blocks, c).site = s}
        /\ NameCells = NamesOf(blocks) /\ \A c : Rec(c) = At(blocks, c)
    BY <1>1, Recordeds
  <2>2. Recorded(blocks, Pending) /\ Named(blocks, misnamed)
    BY <1>1 DEF TableInv
  <2>3. PICK c \in LiveOf(blocks) : At(blocks, c).site = s
    BY <1>1, <2>2 DEF Recorded
  <2>4. RecordsOf(s) = {c}
    BY <2>1, <2>2, <2>3 DEF Recorded
  <2>5. ASSUME s \notin misnamed
        PROVE  \E n \in NameCells : Ordinal(n) = Rec(c).name /\ Rec(n).name = Wanted(s)
    <3>1. PICK n \in NamesOf(blocks) : LeadsTo(blocks, c, n)
      BY <2>2, <2>3, <2>5 DEF Named
    <3>. QED
      BY <2>1, <2>3, <3>1 DEF LeadsTo, Ordinal
  <2>. QED
    BY <2>4, <2>5
<1>2. Inv => PendingIsRecorded
  BY <1>1 DEF Inv, PendingIsRecorded
<1>. QED
  BY <1>2, UnresolvedInvariance, PTL

\* Between two calls nothing but a misnamed relocation waits for a symbol that is
\* there (rtems_rtl_unresolved_resolve at the end of a load).
THEOREM NothingKnownWaits == Spec => []NothingLeftBehind
<1>1. ASSUME TypeInv, TableInv, pc = "idle"
      PROVE  \A s \in Pending \ misnamed : Wanted(s) \notin Known
  <2>1. loading = NoObj
    BY <1>1 DEF TypeInv
  <2>2. loaded \union ({loading} \ {NoObj}) = loaded
    BY <2>1
  <2>3. Known = Exported(loaded)
    BY <2>2 DEF Known, Exported
  <2>. QED
    BY <1>1, <2>3 DEF TableInv, WaitInv
<1>2. Inv => NothingLeftBehind
  BY <1>1 DEF Inv, NothingLeftBehind
<1>. QED
  BY <1>2, UnresolvedInvariance, PTL

\* obj->unresolved counts the relocations that wait or have failed, so that
\* RTEMS_RTL_OBJ_UNRESOLVED is taken away when none is left.
THEOREM CountAlwaysExact == Spec => []CountIsExact
<1>1. Inv => CountIsExact
  BY DEF Inv, TableInv, CountInv, Owing, CountIsExact
<1>. QED
  BY <1>1, UnresolvedInvariance, PTL

\* Between two calls nothing in the table is unused
\* (rtems_rtl_unresolved_compact reaches every record that has become so).
THEOREM AlwaysCompacted == Spec => []Compacted
<1>1. ASSUME TypeInv, TableInv, pc = "idle" PROVE \A c \in Cells : ~Unused(Rec(c))
  BY <1>1, Recordeds DEF TableInv, CompactInv, AllUsed
<1>2. Inv => Compacted
  BY <1>1 DEF Inv, Compacted
<1>. QED
  BY <1>2, UnresolvedInvariance, PTL
=============================================================================
