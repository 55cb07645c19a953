--------------------------- MODULE ObjLoadProofs ----------------------------
(***************************************************************************)
(* Proofs about ObjLoad for all files, symbols and base tables: a load     *)
(* that fails gives everything back, and loads and unloads implement       *)
(* ObjectStore.                                                            *)
(***************************************************************************)
EXTENDS ObjLoad, TLAPS, WellFoundedInduction

-----------------------------------------------------------------------------
(* Induction up to a bound, for a set. *)

LEMMA Induction ==
  ASSUME NEW n \in Nat, NEW G, 0 \in G,
         \A k \in 1 .. n : k - 1 \in G => k \in G
  PROVE  \A k \in 0 .. n : k \in G
<1>. DEFINE R == {p \in Nat \X Nat : p[1] < p[2]}
            Bad == {k \in 0 .. n : k \notin G}
<1>1. IsWellFoundedOn(R, Nat)
  BY NatLessThanWellFounded DEF OpToRel
<1>2. SUFFICES ASSUME Bad # {} PROVE FALSE
  OBVIOUS
<1>3. Bad \subseteq Nat
  OBVIOUS
<1>. HIDE DEF Bad
<1>4. PICK k \in Bad : \A m \in Bad : ~ (<<m, k>> \in R)
  BY <1>1, <1>2, <1>3, WFMin
<1>. USE DEF Bad
<1>5. k \in 1 .. n /\ k - 1 \in 0 .. n
  BY <1>4
<1>6. k - 1 \in Bad
  BY <1>4, <1>5
<1>7. <<k - 1, k>> \in R
  BY <1>5
<1>. QED
  BY <1>4, <1>6, <1>7

\* A function defined by recursion over its argument exists.
Iterates(f, n, s, F) == f[0] = s /\ \A i \in 1 .. n : f[i] = F[<<i, f[i - 1]>>]

LEMMA Recursion ==
  ASSUME NEW n \in Nat, NEW S, NEW s \in S, NEW F \in [(1 .. n) \X S -> S]
  PROVE  \E f \in [0 .. n -> S] : Iterates(f, n, s, F)
<1>. DEFINE Is(f, m) == \A i \in 0 .. m : f[i] = IF i = 0 THEN s ELSE F[<<i, f[i - 1]>>]
            G == {m \in 0 .. n : \E f \in [0 .. m -> S] : Is(f, m)}
<1>1. 0 \in G
  <2>. DEFINE f == [i \in 0 .. 0 |-> s]
  <2>1. f \in [0 .. 0 -> S] /\ Is(f, 0)
    OBVIOUS
  <2>. HIDE DEF f
  <2>. QED
    BY <2>1
<1>2. ASSUME NEW m \in 1 .. n, m - 1 \in G PROVE m \in G
  <2>1. PICK f \in [0 .. m - 1 -> S] : Is(f, m - 1)
    BY <1>2
  <2>. DEFINE x == F[<<m, f[m - 1]>>]
  <2>2. f[m - 1] \in S /\ x \in S
    OBVIOUS
  <2>. DEFINE g == [i \in 0 .. m |-> IF i = m THEN x ELSE f[i]]
  <2>. HIDE DEF x
  <2>3. g \in [0 .. m -> S]
    BY <2>2
  <2>4. ASSUME NEW i \in 0 .. m PROVE g[i] = IF i = 0 THEN s ELSE F[<<i, g[i - 1]>>]
    <3>1. CASE i = m
      <4>1. g[i] = x /\ g[i - 1] = f[m - 1] /\ i # 0
        BY <3>1
      <4>. QED
        BY <3>1, <4>1 DEF x
    <3>2. CASE i # m
      <4>1. i \in 0 .. m - 1 /\ g[i] = f[i] /\ (i # 0 => g[i - 1] = f[i - 1])
        BY <3>2
      <4>2. f[i] = IF i = 0 THEN s ELSE F[<<i, f[i - 1]>>]
        BY <2>1, <4>1
      <4>. HIDE DEF g
      <4>. QED
        BY <4>1, <4>2
    <3>. QED
      BY <3>1, <3>2
  <2>. HIDE DEF g
  <2>. QED
    BY <2>3, <2>4
<1>. HIDE DEF G
<1>3. n \in G
  BY <1>1, <1>2, Induction
<1>4. PICK f \in [0 .. n -> S] : Is(f, n)
  BY <1>3 DEF G
<1>5. ASSUME NEW i \in 0 .. n PROVE f[i] = IF i = 0 THEN s ELSE F[<<i, f[i - 1]>>]
  BY <1>4
<1>. HIDE DEF Is
<1>6. 0 \in 0 .. n /\ \A i \in 1 .. n : i \in 0 .. n /\ i # 0
  OBVIOUS
<1>7. f[0] = s /\ \A i \in 1 .. n : f[i] = F[<<i, f[i - 1]>>]
  BY <1>5, <1>6
<1>. QED
  BY <1>7 DEF Iterates

-----------------------------------------------------------------------------
(* The global table: what rtems_rtl_symbol_obj_erase leaves ... *)

Entries == [owner : Files \union {Base}, name : Names, weak : BOOLEAN]

LEMMA ErasedDef ==
  ASSUME globals \in Seq(Entries), NEW f
  PROVE  \E kept :
           /\ kept = [i \in 0 .. Len(globals) |->
                        IF i = 0 THEN <<>>
                        ELSE IF globals[i].owner = f THEN kept[i - 1]
                        ELSE Append(kept[i - 1], globals[i])]
           /\ Erased(f) = kept[Len(globals)]
<1>. DEFINE n == Len(globals)
            S == Seq(Entries)
            F == [p \in (1 .. n) \X S |->
                    IF globals[p[1]].owner = f THEN p[2] ELSE Append(p[2], globals[p[1]])]
<1>1. n \in Nat /\ <<>> \in S
  OBVIOUS
<1>2. F \in [(1 .. n) \X S -> S]
  OBVIOUS
<1>. HIDE DEF n, S, F
<1>3. PICK g \in [0 .. n -> S] : Iterates(g, n, <<>>, F)
  BY <1>1, <1>2, Recursion
<1>4. \A i \in 1 .. n : g[i - 1] \in S
  BY <1>1
<1>5. \A i \in 1 .. n : F[<<i, g[i - 1]>>]
                          = IF globals[i].owner = f THEN g[i - 1] ELSE Append(g[i - 1], globals[i])
  BY <1>4 DEF F, n
<1>. DEFINE E(kept) == kept = [i \in 0 .. n |-> IF i = 0 THEN <<>>
                        ELSE IF globals[i].owner = f THEN kept[i - 1]
                        ELSE Append(kept[i - 1], globals[i])]
<1>6. E(g)
  <2>1. g = [i \in 0 .. n |-> g[i]]
    OBVIOUS
  <2>2. ASSUME NEW i \in 0 .. n
        PROVE  g[i] = IF i = 0 THEN <<>> ELSE IF globals[i].owner = f THEN g[i - 1]
                      ELSE Append(g[i - 1], globals[i])
    <3>1. CASE i = 0
      BY <1>3, <3>1 DEF Iterates
    <3>2. CASE i # 0
      <4>1. i \in 1 .. n
        BY <1>1, <3>2
      <4>2. g[i] = F[<<i, g[i - 1]>>]
        BY <1>3, <4>1 DEF Iterates
      <4>. QED
        BY <1>5, <3>2, <4>1, <4>2
    <3>. QED
      BY <3>1, <3>2
  <2>. HIDE DEF n
  <2>. QED
    BY <2>1, <2>2
<1>7. E(CHOOSE kept : E(kept))
  BY <1>6
<1>8. Erased(f) = (CHOOSE kept : E(kept))[n]
  BY DEF Erased, n
<1>. QED
  BY <1>7, <1>8 DEF n

\* h is what is left of the first k entries of g without those of object f:
\* the others, in their order.
Left(h, g, k, f) ==
  /\ h \in Seq(Entries)
  /\ \A i \in DOMAIN h : h[i].owner # f /\ \E a \in 1 .. k : g[a] = h[i]
  /\ \A i, j \in DOMAIN h : i < j => \E a, b \in 1 .. k : a < b /\ g[a] = h[i] /\ g[b] = h[j]
  /\ \A a \in 1 .. k : g[a].owner # f => \E i \in DOMAIN h : h[i] = g[a]

LEMMA LeftStep ==
  ASSUME NEW g \in Seq(Entries), NEW k \in 1 .. Len(g), NEW f,
         NEW h, Left(h, g, k - 1, f)
  PROVE  /\ g[k].owner = f => Left(h, g, k, f)
         /\ g[k].owner # f => Left(Append(h, g[k]), g, k, f)
<1>. DEFINE p == k - 1
<1>0. /\ \A a : a \in 1 .. k <=> a \in 1 .. p \/ a = k
      /\ k \in Nat /\ \A a \in 1 .. p : a \in Nat /\ a < k
  OBVIOUS
<1>. HIDE DEF p
<1>1. Left(h, g, p, f)
  BY DEF p
<1>2. /\ h \in Seq(Entries)
      /\ \A i \in DOMAIN h : h[i].owner # f /\ \E a \in 1 .. p : g[a] = h[i]
      /\ \A i, j \in DOMAIN h : i < j =>
           \E a, b \in 1 .. p : a < b /\ g[a] = h[i] /\ g[b] = h[j]
      /\ \A a \in 1 .. p : g[a].owner # f => \E i \in DOMAIN h : h[i] = g[a]
  BY <1>1 DEF Left
<1>3. ASSUME g[k].owner = f PROVE Left(h, g, k, f)
  <2>1. \A a \in 1 .. k : g[a].owner # f => \E i \in DOMAIN h : h[i] = g[a]
    BY <1>0, <1>2, <1>3
  <2>2. \A i \in DOMAIN h : h[i].owner # f /\ \E a \in 1 .. k : g[a] = h[i]
    BY <1>0, <1>2
  <2>3. \A i, j \in DOMAIN h : i < j =>
          \E a, b \in 1 .. k : a < b /\ g[a] = h[i] /\ g[b] = h[j]
    <3>. SUFFICES ASSUME NEW i \in DOMAIN h, NEW j \in DOMAIN h, i < j
                  PROVE  \E a, b \in 1 .. k : a < b /\ g[a] = h[i] /\ g[b] = h[j]
      OBVIOUS
    <3>1. PICK a \in 1 .. p, b \in 1 .. p : a < b /\ g[a] = h[i] /\ g[b] = h[j]
      BY <1>2
    <3>2. a \in 1 .. k /\ b \in 1 .. k
      BY <1>0
    <3>. QED
      BY <3>1, <3>2
  <2>. QED
    BY <1>2, <2>1, <2>2, <2>3 DEF Left
<1>4. ASSUME g[k].owner # f PROVE Left(Append(h, g[k]), g, k, f)
  <2>. DEFINE t == Append(h, g[k])
  <2>1. g[k] \in Entries
    OBVIOUS
  <2>2. /\ t \in Seq(Entries) /\ t[Len(h) + 1] = g[k]
        /\ \A i \in DOMAIN h : i \in DOMAIN t /\ t[i] = h[i]
        /\ \A i \in DOMAIN t : i \in DOMAIN h \/ i = Len(h) + 1
        /\ Len(h) + 1 \in DOMAIN t
    <3>1. t \in Seq(Entries) /\ DOMAIN t = 1 .. Len(h) + 1 /\ DOMAIN h = 1 .. Len(h)
          /\ Len(h) \in Nat /\ t[Len(h) + 1] = g[k]
      BY <1>2, <2>1
    <3>2. \A i \in 1 .. Len(h) : t[i] = h[i]
      BY <1>2, <2>1
    <3>. HIDE DEF t
    <3>. QED
      BY <3>1, <3>2
  <2>3. \A i \in DOMAIN h : i \in Nat /\ i < Len(h) + 1
    BY <1>2
  <2>. HIDE DEF t
  <2>4. ASSUME NEW i \in DOMAIN t PROVE t[i].owner # f /\ \E a \in 1 .. k : g[a] = t[i]
    <3>1. CASE i \in DOMAIN h
      BY <1>0, <1>2, <2>2, <3>1
    <3>2. CASE i = Len(h) + 1
      BY <1>0, <1>4, <2>2, <3>2
    <3>. QED
      BY <2>2, <3>1, <3>2
  <2>5. ASSUME NEW i \in DOMAIN t, NEW j \in DOMAIN t, i < j
        PROVE  \E a, b \in 1 .. k : a < b /\ g[a] = t[i] /\ g[b] = t[j]
    <3>1. CASE i \in DOMAIN h /\ j \in DOMAIN h
      <4>1. PICK a \in 1 .. p, b \in 1 .. p : a < b /\ g[a] = h[i] /\ g[b] = h[j]
        BY <1>2, <2>5, <3>1
      <4>. QED
        BY <1>0, <2>2, <3>1, <4>1
    <3>2. CASE i \in DOMAIN h /\ j = Len(h) + 1
      <4>1. PICK a \in 1 .. p : g[a] = h[i]
        BY <1>2, <3>2
      <4>. QED
        BY <1>0, <2>2, <3>2, <4>1
    <3>3. CASE i = Len(h) + 1
      BY <1>2, <2>2, <2>3, <2>5, <3>3
    <3>. QED
      BY <2>2, <3>1, <3>2, <3>3
  <2>6. ASSUME NEW a \in 1 .. k, g[a].owner # f PROVE \E i \in DOMAIN t : t[i] = g[a]
    <3>1. CASE a = k
      BY <2>2, <3>1
    <3>2. CASE a \in 1 .. p
      <4>1. PICK i \in DOMAIN h : h[i] = g[a]
        BY <1>2, <2>6, <3>2
      <4>. QED
        BY <2>2, <4>1
    <3>. QED
      BY <1>0, <3>1, <3>2
  <2>7. Left(t, g, k, f)
    BY <2>2, <2>4, <2>5, <2>6 DEF Left
  <2>. QED
    BY <2>7 DEF t
<1>. QED
  BY <1>3, <1>4

\* ... the entries of the other objects, in their order.
LEMMA ErasedFacts ==
  ASSUME globals \in Seq(Entries), NEW f
  PROVE  Left(Erased(f), globals, Len(globals), f)
<1>. DEFINE n == Len(globals)
<1>1. PICK kept :
        /\ kept = [i \in 0 .. n |->
                     IF i = 0 THEN <<>>
                     ELSE IF globals[i].owner = f THEN kept[i - 1]
                     ELSE Append(kept[i - 1], globals[i])]
        /\ Erased(f) = kept[n]
  BY ErasedDef
<1>. DEFINE G == {k \in 0 .. n : Left(kept[k], globals, k, f)}
<1>2. 0 \in G
  <2>1. kept[0] = <<>>
    BY <1>1
  <2>2. Left(<<>>, globals, 0, f)
    BY DEF Left
  <2>. QED
    BY <2>1, <2>2
<1>3. ASSUME NEW k \in 1 .. n, k - 1 \in G PROVE k \in G
  <2>1. kept[k] = IF globals[k].owner = f THEN kept[k - 1] ELSE Append(kept[k - 1], globals[k])
    <3>1. k \in 0 .. n /\ k # 0
      OBVIOUS
    <3>. HIDE DEF n
    <3>. QED
      BY <1>1, <3>1
  <2>2. Left(kept[k - 1], globals, k - 1, f)
    BY <1>3
  <2>3. Left(kept[k], globals, k, f)
    BY <2>1, <2>2, LeftStep
  <2>. QED
    BY <2>3
<1>4. n \in Nat /\ n \in 0 .. n
  OBVIOUS
<1>. HIDE DEF G, n
<1>5. n \in G
  BY <1>2, <1>3, <1>4, Induction
<1>. QED
  BY <1>1, <1>5 DEF G, n

-----------------------------------------------------------------------------
(* ... and what rtems_rtl_symbol_global_add makes of it. *)

\* One turn of its loop.
WithName(t, n) ==
  IF \E k \in DOMAIN t : t[k].name = n THEN t ELSE Append(t, Entry(Base, n, FALSE))

LEMMA WithBaseDef ==
  ASSUME globals \in Seq(Entries)
  PROVE  \E table :
           /\ table[0] = globals
           /\ \A i \in 1 .. Len(BaseTable) : table[i] = WithName(table[i - 1], BaseTable[i])
           /\ WithBase = table[Len(BaseTable)]
<1>. DEFINE n == Len(BaseTable)
            S == Seq(Entries)
            F == [p \in (1 .. n) \X S |-> WithName(p[2], BaseTable[p[1]])]
<1>1. n \in Nat /\ globals \in S /\ \A i \in 1 .. n : BaseTable[i] \in Names
  BY ObjLoadAssumption DEF ObjLoadAssumption
<1>2. F \in [(1 .. n) \X S -> S]
  <2>1. ASSUME NEW t \in S, NEW m \in Names PROVE WithName(t, m) \in S
    <3>. DEFINE e == Entry(Base, m, FALSE)
    <3>1. e \in Entries
      BY DEF Entry, Entries
    <3>. HIDE DEF e
    <3>2. Append(t, e) \in S
      BY <3>1
    <3>. QED
      BY <3>2 DEF WithName, e
  <2>. HIDE DEF S, n
  <2>2. ASSUME NEW p \in (1 .. n) \X S PROVE WithName(p[2], BaseTable[p[1]]) \in S
    BY <1>1, <2>1
  <2>. QED
    BY <2>2
<1>. HIDE DEF n, S, F
<1>3. PICK g \in [0 .. n -> S] : Iterates(g, n, globals, F)
  BY <1>1, <1>2, Recursion
<1>4. g[0] = globals /\ \A i \in 1 .. n : g[i] = WithName(g[i - 1], BaseTable[i])
  <2>1. \A i \in 1 .. n : g[i - 1] \in S
    BY <1>1
  <2>2. \A i \in 1 .. n : F[<<i, g[i - 1]>>] = WithName(g[i - 1], BaseTable[i])
    BY <2>1 DEF F
  <2>. QED
    BY <1>3, <2>2 DEF Iterates
<1>. DEFINE E(table) == table = [i \in 0 .. n |->
                IF i = 0 THEN globals
                ELSE IF \E k \in DOMAIN table[i - 1] : table[i - 1][k].name = BaseTable[i]
                  THEN table[i - 1] ELSE Append(table[i - 1], Entry(Base, BaseTable[i], FALSE))]
<1>5. E(g)
  <2>1. g = [i \in 0 .. n |-> g[i]]
    OBVIOUS
  <2>2. ASSUME NEW i \in 0 .. n
        PROVE  g[i] = IF i = 0 THEN globals ELSE WithName(g[i - 1], BaseTable[i])
    <3>1. i # 0 => i \in 1 .. n
      BY <1>1
    <3>. QED
      BY <1>4, <3>1
  <2>. QED
    BY <2>1, <2>2 DEF WithName
<1>. DEFINE table == CHOOSE t : E(t)
<1>6. E(table)
  BY <1>5
<1>7. WithBase = table[n]
  BY DEF WithBase, n
<1>. HIDE DEF table
<1>8. table[0] = globals /\ \A i \in 1 .. n : table[i] = WithName(table[i - 1], BaseTable[i])
  <2>1. 0 \in 0 .. n /\ \A i \in 1 .. n : i \in 0 .. n /\ i # 0
    BY <1>1
  <2>2. \A i \in 0 .. n : table[i] = IF i = 0 THEN globals ELSE WithName(table[i - 1], BaseTable[i])
    BY <1>6 DEF WithName
  <2>. QED
    BY <2>1, <2>2
<1>. QED
  BY <1>7, <1>8 DEF n

\* h is g with entries of the base image behind it whose names were not there.
Longer(h, g) ==
  /\ h \in Seq(Entries)
  /\ \A i \in DOMAIN g : i \in DOMAIN h /\ h[i] = g[i]
  /\ \A i \in DOMAIN h \ DOMAIN g :
       h[i].owner = Base /\ \A j \in DOMAIN h : j < i => h[j].name # h[i].name

LEMMA LongerStep ==
  ASSUME NEW g \in Seq(Entries), NEW h, Longer(h, g), NEW m \in Names
  PROVE  Longer(WithName(h, m), g)
<1>1. h \in Seq(Entries)
  BY DEF Longer
<1>2. CASE \E k \in DOMAIN h : h[k].name = m
  BY <1>2 DEF WithName
<1>3. ASSUME \A k \in DOMAIN h : h[k].name # m PROVE Longer(WithName(h, m), g)
  <2>. DEFINE e == Entry(Base, m, FALSE)
              t == Append(h, e)
  <2>1. e \in Entries /\ e.owner = Base /\ e.name = m
    BY DEF Entry, Entries
  <2>. HIDE DEF e
  <2>2. /\ t \in Seq(Entries) /\ t[Len(h) + 1] = e
        /\ \A i \in DOMAIN h : i \in DOMAIN t /\ t[i] = h[i]
        /\ \A i \in DOMAIN t : i \in DOMAIN h \/ i = Len(h) + 1
    BY <1>1, <2>1
  <2>3. \A i \in DOMAIN h : i \in Nat /\ i < Len(h) + 1
    BY <1>1
  <2>. HIDE DEF t
  <2>4. \A i \in DOMAIN g : i \in DOMAIN t /\ t[i] = g[i]
    BY <2>2 DEF Longer
  <2>5. ASSUME NEW i \in DOMAIN t, i \notin DOMAIN g
        PROVE  t[i].owner = Base /\ \A j \in DOMAIN t : j < i => t[j].name # t[i].name
    <3>1. CASE i \in DOMAIN h
      <4>1. \A j \in DOMAIN t : j < i => j \in DOMAIN h
        BY <1>1, <2>2, <2>3, <3>1
      <4>. QED
        BY <2>2, <2>5, <3>1, <4>1 DEF Longer
    <3>2. CASE i = Len(h) + 1
      <4>1. \A j \in DOMAIN t : j < i => j \in DOMAIN h
        BY <1>1, <2>2, <3>2
      <4>. QED
        BY <1>3, <2>1, <2>2, <3>2, <4>1
    <3>. QED
      BY <2>2, <3>1, <3>2
  <2>6. Longer(t, g)
    BY <2>2, <2>4, <2>5 DEF Longer
  <2>7. WithName(h, m) = t
    BY <1>3 DEF WithName, t, e
  <2>. QED
    BY <2>6, <2>7
<1>. QED
  BY <1>2, <1>3

LEMMA WithBaseFacts ==
  ASSUME globals \in Seq(Entries)
  PROVE  Longer(WithBase, globals)
<1>. DEFINE n == Len(BaseTable)
<1>1. PICK table :
        /\ table[0] = globals
        /\ \A i \in 1 .. n : table[i] = WithName(table[i - 1], BaseTable[i])
        /\ WithBase = table[n]
  BY WithBaseDef
<1>2. n \in Nat /\ n \in 0 .. n /\ \A i \in 1 .. n : BaseTable[i] \in Names
  BY ObjLoadAssumption DEF ObjLoadAssumption
<1>. DEFINE G == {k \in 0 .. n : Longer(table[k], globals)}
<1>. HIDE DEF n
<1>3. 0 \in G
  <2>1. Longer(globals, globals)
    BY DEF Longer
  <2>. QED
    BY <1>1, <1>2, <2>1
<1>4. ASSUME NEW k \in 1 .. n, k - 1 \in G PROVE k \in G
  <2>1. Longer(table[k], globals)
    BY <1>1, <1>2, <1>4, LongerStep
  <2>. QED
    BY <1>2, <2>1
<1>. HIDE DEF G
<1>5. n \in G
  BY <1>2, <1>3, <1>4, Induction
<1>. QED
  BY <1>1, <1>5 DEF G

-----------------------------------------------------------------------------
(* What rtems_rtl_symbol_obj_add puts behind the table. *)

LEMMA AddedFacts ==
  ASSUME globals \in Seq(Entries), NEW f \in Files
  PROVE  /\ Added(f) \in Seq(Entries)
         /\ \A i \in DOMAIN globals : i \in DOMAIN Added(f) /\ Added(f)[i] = globals[i]
         /\ \A k \in DOMAIN Exports[f] :
              /\ Len(globals) + k \in DOMAIN Added(f)
              /\ Added(f)[Len(globals) + k] = Entry(f, Exports[f][k].name, Exports[f][k].weak)
         /\ \A i \in DOMAIN Added(f) :
              i \in DOMAIN globals \/ \E k \in DOMAIN Exports[f] : i = Len(globals) + k
<1>. DEFINE x == [i \in DOMAIN Exports[f] |-> Entry(f, Exports[f][i].name, Exports[f][i].weak)]
<1>1. Exports[f] \in Seq([name : Names, weak : BOOLEAN])
  BY ObjLoadAssumption DEF ObjLoadAssumption
<1>2. ASSUME NEW i \in DOMAIN Exports[f] PROVE x[i] \in Entries
  <2>. DEFINE R == [name : Names, weak : BOOLEAN]
  <2>1. Exports[f][i] \in R
    <3>1. Exports[f] \in Seq(R)
      BY <1>1
    <3>. HIDE DEF R, x
    <3>. QED
      BY <3>1
  <2>2. \A e \in [name : Names, weak : BOOLEAN] : Entry(f, e.name, e.weak) \in Entries
    <3>1. ASSUME NEW e \in [name : Names, weak : BOOLEAN]
          PROVE  Entry(f, e.name, e.weak) \in Entries
      <4>1. e.name \in Names /\ (e.weak \in BOOLEAN)
        OBVIOUS
      <4>. QED
        BY <4>1 DEF Entry, Entries
    <3>. QED
      BY <3>1
  <2>3. Entry(f, Exports[f][i].name, Exports[f][i].weak) \in Entries
    BY <2>1, <2>2
  <2>. QED
    BY <2>3
<1>3. DOMAIN x = DOMAIN Exports[f] /\ DOMAIN Exports[f] = 1 .. Len(Exports[f])
      /\ Len(Exports[f]) \in Nat
  BY <1>1
<1>4. \A i \in DOMAIN Exports[f] : x[i] = Entry(f, Exports[f][i].name, Exports[f][i].weak)
  OBVIOUS
<1>5. Added(f) = globals \o x
  BY DEF Added
<1>. DEFINE m == Len(Exports[f])
<1>6. x \in [1 .. m -> Entries] /\ m \in Nat
  BY <1>2, <1>3
<1>. HIDE DEF x, m
<1>7. x \in Seq(Entries) /\ Len(x) = m
  BY <1>6
<1>. HIDE DEF Entries
<1>8. globals \o x \in Seq(Entries) /\ Len(globals \o x) = Len(globals) + m
  BY <1>7
<1>9. /\ \A i \in 1 .. Len(globals) : (globals \o x)[i] = globals[i]
      /\ \A k \in 1 .. m : (globals \o x)[Len(globals) + k] = x[k]
  BY <1>6, <1>7
<1>10. DOMAIN globals = 1 .. Len(globals) /\ Len(globals) \in Nat
       /\ DOMAIN (globals \o x) = 1 .. Len(globals) + m
  BY <1>8
<1>11. DOMAIN Exports[f] = 1 .. m
  BY <1>3 DEF m
<1>12. /\ \A i \in DOMAIN globals : i \in DOMAIN (globals \o x)
       /\ \A k \in 1 .. m : Len(globals) + k \in DOMAIN (globals \o x)
       /\ \A i \in DOMAIN (globals \o x) :
            i \in DOMAIN globals \/ \E k \in 1 .. m : i = Len(globals) + k
  <2>1. ASSUME NEW i \in 1 .. Len(globals) + m, i \notin 1 .. Len(globals)
        PROVE  \E k \in 1 .. m : i = Len(globals) + k
    <3>1. i - Len(globals) \in 1 .. m /\ i = Len(globals) + (i - Len(globals))
      BY <1>6, <1>10, <2>1
    <3>. QED
      BY <3>1
  <2>2. /\ \A i \in 1 .. Len(globals) : i \in 1 .. Len(globals) + m
        /\ \A k \in 1 .. m : Len(globals) + k \in 1 .. Len(globals) + m
    BY <1>6, <1>10
  <2>. QED
    BY <1>10, <2>1, <2>2
<1>. QED
  BY <1>4, <1>5, <1>8, <1>9, <1>10, <1>11, <1>12

-----------------------------------------------------------------------------
(* The inductive invariant. *)

\* The object is on the list from the moment its file is found; a loader is at
\* work only on a file of its format.
PhaseInv ==
  /\ phase \in {"idle", "find", "nofile"} <=> cur \notin listed
  /\ phase \in {"header", "sections", "regions", "symbols", "table", "fill", "relocs"}
       => loader = Format[cur]
  /\ phase = "table" => loader = "elf"
  /\ phase = "fill" => "symtab" \in ptr[cur]

\* What is open, cached or buffered is so inside the calls that clean it up.
CleanInv ==
  /\ phase \in {"idle", "find", "nofile", "open"} => fd = NoFile /\ ~dirty
  /\ buffer => phase = "relocs" /\ loader = "rap"

\* The pointers of a descriptor that is in use are those of its blocks.
InUse == listed \union ({cur} \ {NoFile})
MemInv ==
  /\ ~twice
  /\ \A f \in InUse : ptr[f] \intersect Blocks = mem[f] \intersect Blocks
  /\ \A f \in Files \ InUse : mem[f] \subseteq {Sects}

\* The entries of an object lie in its symbol table and name what it exports ...
OwnersInv ==
  \A i \in DOMAIN globals :
    LET o == globals[i].owner
    IN  o # Base =>
          /\ o \in listed /\ "symtab" \in ptr[o] /\ Format[o] = "elf"
          /\ o = cur => phase \in {"relocs", "failed"}
          /\ \E k \in DOMAIN Exports[o] : Exports[o][k].name = globals[i].name

\* ... and are all there once its symbols have been added.
ExportsInv ==
  \A f \in listed : Format[f] = "elf" /\ (f # cur \/ phase = "relocs") =>
    \A k \in DOMAIN Exports[f] :
      \E i \in DOMAIN globals : globals[i].owner = f /\ globals[i].name = Exports[f][k].name

SymInv == OwnersInv /\ ExportsInv

\* Between the two passes over the symbols nothing is entered.
StrongInv ==
  /\ StrongIsFound
  /\ phase \in {"table", "fill"} /\ loader = "elf" => ~Duplicate(cur)

Inv == TypeOK /\ PhaseInv /\ CleanInv /\ MemInv /\ SymInv /\ StrongInv

-----------------------------------------------------------------------------
(* The types. *)

LEMMA ObjLoadTypes ==
  ASSUME TypeOK
  PROVE  /\ globals \in Seq(Entries) /\ cur \in Files \union {NoFile} /\ NoFile \notin Files
         /\ Base \notin Files /\ listed \subseteq Files
  BY ObjLoadAssumption DEF ObjLoadAssumption, TypeOK, Entries

\* Freeing an object leaves the entries of the others: where it has no symbol
\* table it has no entries.
LEMMA FreedTable ==
  ASSUME TypeOK, SymInv, NEW f \in Files, ObjFree(f)
  PROVE  Left(globals', globals, Len(globals), f)
<1>1. globals \in Seq(Entries) /\ f # Base
  BY ObjLoadTypes
<1>2. CASE "symtab" \in ptr[f]
  BY <1>1, <1>2, ErasedFacts DEF ObjFree
<1>3. CASE "symtab" \notin ptr[f]
  <2>1. globals' = globals
    BY <1>3 DEF ObjFree
  <2>2. \A i \in DOMAIN globals : globals[i].owner # f
    BY <1>1, <1>3 DEF SymInv, OwnersInv
  <2>3. DOMAIN globals = 1 .. Len(globals)
    BY <1>1
  <2>. QED
    BY <1>1, <2>1, <2>2, <2>3 DEF Left
<1>. QED
  BY <1>2, <1>3

\* The steps that free an object, and the one it is.
Frees(f) ==
  /\ ObjFree(f) /\ phase' = "idle" /\ cur' = NoFile
  /\ f \in listed \union {cur} /\ f \in Files /\ cur \in {f, NoFile}

LEMMA FreeingSteps ==
  ASSUME TypeOK
  PROVE  /\ \A f \in Files : Unload(f) => Frees(f)
         /\ NoName \/ NotFoundFree \/ OpenFails \/ LoadFails => Frees(cur)
<1>. cur \in Files \union {NoFile} /\ (cur = NoFile <=> phase = "idle")
  BY DEF TypeOK
<1>1. ASSUME NEW f \in Files, Unload(f) PROVE Frees(f)
  BY <1>1 DEF Unload, Frees
<1>2. ASSUME NoName PROVE Frees(cur)
  BY <1>2 DEF NoName, Frees, Idle
<1>3. ASSUME NotFoundFree PROVE Frees(cur)
  BY <1>3 DEF NotFoundFree, Frees, Idle
<1>4. ASSUME OpenFails PROVE Frees(cur)
  BY <1>4 DEF OpenFails, Frees, Idle
<1>5. ASSUME LoadFails PROVE Frees(cur)
  BY <1>5 DEF LoadFails, Frees, Idle
<1>. QED
  BY <1>1, <1>2, <1>3, <1>4, <1>5

\* The steps that change neither the list nor the table of symbols, and what
\* they do to the object that is being loaded.
Quiet ==
  /\ UNCHANGED <<listed, globals>>
  /\ \A f \in Files \ {cur} : ptr'[f] = ptr[f]
  /\ \/ LoadDone
     \/ phase = "relocs" /\ phase' \in {"relocs", "failed"} /\ UNCHANGED <<ptr, cur>>
     \/ /\ phase \notin {"idle", "relocs", "failed"} /\ cur' = cur
        /\ phase' = "relocs" => Exports[cur] = <<>> \/ (phase = "fill" /\ loader = "rap")
  /\ phase' \in {"table", "fill"} /\ loader' = "elf" =>
       ~Duplicate(cur) \/ (phase = "table" /\ loader = "elf")

LEMMA QuietSteps ==
  ASSUME TypeOK, Next
  PROVE  \/ \E f \in Files : Start(f) \/ Unload(f)
         \/ NoName \/ NotFoundFree \/ OpenFails \/ LoadFails
         \/ FileFound \/ ElfFill \/ BaseAdd
         \/ Quiet
<1>0. /\ cur \in Files \union {NoFile} /\ (cur = NoFile <=> phase = "idle")
      /\ ptr \in [Files -> SUBSET (Blocks \union {Sects})]
  BY DEF TypeOK
<1>1. ASSUME NotFound PROVE Quiet
  BY <1>0, <1>1 DEF NotFound, New, Quiet
<1>2. ASSUME Open PROVE Quiet
  BY <1>0, <1>2 DEF Open, Enter, Quiet
<1>3. ASSUME ArchiveFind PROVE Quiet
  BY <1>0, <1>3 DEF ArchiveFind, Enter, Fail, Quiet
<1>4. ASSUME RapCheck PROVE Quiet
  BY <1>0, <1>4 DEF RapCheck, Check, Enter, Quiet
<1>5. ASSUME ElfCheck PROVE Quiet
  BY <1>0, <1>5 DEF ElfCheck, Check, Enter, Quiet
<1>6. ASSUME RapHeader PROVE Quiet
  BY <1>0, <1>6 DEF RapHeader, Enter, Fail, Quiet
<1>7. ASSUME ElfHeader PROVE Quiet
  BY <1>0, <1>7 DEF ElfHeader, Enter, Fail, Quiet
<1>8. ASSUME RapSection PROVE Quiet
  BY <1>0, <1>8 DEF RapSection, AddSection, New, Enter, Fail, memVars, Quiet
<1>9. ASSUME ElfSection PROVE Quiet
  BY <1>0, <1>9 DEF ElfSection, AddSection, New, Enter, Fail, memVars, Quiet
<1>10. ASSUME AllocRegion PROVE Quiet
  BY <1>0, <1>10 DEF AllocRegion, New, memVars, Quiet
<1>11. ASSUME AllocRegionFails PROVE Quiet
  BY <1>0, <1>11 DEF AllocRegionFails, ModuleDel, Del, Fail, Enter, memVars,
       Quiet
<1>12. ASSUME LoadRegion PROVE Quiet
  BY <1>0, <1>12 DEF LoadRegion, Enter, Quiet
<1>13. ASSUME LoadRegionFails PROVE Quiet
  BY <1>0, <1>13 DEF LoadRegionFails, ModuleDel, Del, Fail, Enter, Quiet
<1>14. ASSUME ElfCount PROVE Quiet
  BY <1>0, <1>14 DEF ElfCount, Enter, Fail, Quiet
<1>15. ASSUME ElfTable PROVE Quiet
  BY <1>0, <1>15 DEF ElfTable, Table, New, Enter, Fail, memVars, Quiet
<1>16. ASSUME ElfFillFails PROVE Quiet
  BY <1>0, <1>16 DEF ElfFillFails, FillFails, Del, memVars, Fail, Enter, Quiet
<1>17. ASSUME RapTable PROVE Quiet
  BY <1>0, <1>17 DEF RapTable, Table, New, Enter, Fail, memVars, Quiet
<1>18. ASSUME RapFill PROVE Quiet
  BY <1>0, <1>18 DEF RapFill, Enter, Quiet
<1>19. ASSUME RapFillFails PROVE Quiet
  BY <1>0, <1>19 DEF RapFillFails, FillFails, Del, memVars, Fail, Enter, Quiet
<1>20. ASSUME ElfRelocate PROVE Quiet
  BY <1>0, <1>20 DEF ElfRelocate, NextRef, Fail, Enter, Quiet
<1>21. ASSUME ElfUnresolved PROVE Quiet
  BY <1>0, <1>21 DEF ElfUnresolved, NextRef, Fail, Enter, Quiet
<1>22. ASSUME RapBuffer PROVE Quiet
  BY <1>0, <1>22 DEF RapBuffer, loadVars, Fail, Enter, Quiet
<1>23. ASSUME RapRelocate PROVE Quiet
  BY <1>0, <1>23 DEF RapRelocate, NextRef, Quiet
<1>24. ASSUME RapRelocateFails PROVE Quiet
  BY <1>0, <1>24 DEF RapRelocateFails, Fail, Enter, Quiet
<1>25. ASSUME LoadDone PROVE Quiet
  BY <1>0, <1>25 DEF LoadDone, Idle, Quiet
<1>. QED
  BY <1>1, <1>2, <1>3, <1>4, <1>5, <1>6, <1>7, <1>8, <1>9, <1>10, <1>11,
       <1>12, <1>13, <1>14, <1>15, <1>16, <1>17, <1>18, <1>19, <1>20, <1>21,
       <1>22, <1>23, <1>24, <1>25 DEF Next

LEMMA TableStep ==
  ASSUME TypeOK, SymInv, Next
  PROVE  globals' \in Seq(Entries)
<1>1. globals \in Seq(Entries)
  BY ObjLoadTypes
<1>2. ASSUME NEW f, Frees(f) PROVE globals' \in Seq(Entries)
  <2>1. f \in Files /\ ObjFree(f)
    BY <1>2 DEF Frees
  <2>. QED
    BY <2>1, FreedTable DEF Left
<1>3. CASE ElfFill
  <2>1. cur \in Files
    BY <1>3 DEF ElfFill, TypeOK
  <2>. QED
    BY <1>1, <1>3, <2>1, AddedFacts DEF ElfFill
<1>4. CASE BaseAdd
  BY <1>1, <1>4, WithBaseFacts DEF BaseAdd, Longer
<1>5. ASSUME NEW f \in Files, Start(f) PROVE globals' \in Seq(Entries)
  BY <1>1, <1>5 DEF Start
<1>6. CASE FileFound
  BY <1>1, <1>6 DEF FileFound
<1>. QED
  BY <1>1, <1>2, <1>3, <1>4, <1>5, <1>6, QuietSteps, FreeingSteps DEF Quiet

LEMMA DelTypes ==
  ASSUME TypeOK, NEW f \in Files, NEW B, Del(f, B)
  PROVE  /\ ptr' \in [Files -> SUBSET (Blocks \union {Sects})]
         /\ mem' \in [Files -> SUBSET (Blocks \union {Sects})]
         /\ twice' \in BOOLEAN
<1>1. /\ ptr \in [Files -> SUBSET (Blocks \union {Sects})]
      /\ mem \in [Files -> SUBSET (Blocks \union {Sects})]
  BY DEF TypeOK
<1>2. /\ ptr' \in [Files -> SUBSET (Blocks \union {Sects})]
      /\ mem' \in [Files -> SUBSET (Blocks \union {Sects})]
  BY <1>1 DEF Del
<1>3. twice' \in BOOLEAN
  BY Zenon DEF Del
<1>. QED
  BY <1>2, <1>3

LEMMA TypeStep ==
  ASSUME TypeOK, SymInv, Next
  PROVE  TypeOK'
<1>. DEFINE Rest ==
       /\ phase \in Phases
       /\ cur \in Files \union {NoFile} /\ (cur = NoFile <=> phase = "idle")
       /\ loader \in {"elf", "rap", "none"} /\ step \in Nat
       /\ fd \in Files \union {NoFile}
       /\ dirty \in BOOLEAN /\ buffer \in BOOLEAN /\ twice \in BOOLEAN
       /\ listed \subseteq Files
       /\ ptr \in [Files -> SUBSET (Blocks \union {Sects})]
       /\ mem \in [Files -> SUBSET (Blocks \union {Sects})]
       /\ based \in 0 .. MaxBase
<1>1. Rest /\ NoFile \notin Files
  BY ObjLoadAssumption DEF TypeOK, ObjLoadAssumption
<1>2. Format \in [Files -> {"elf", "rap", "none"}] /\ MaxBase \in Nat
  BY ObjLoadAssumption DEF ObjLoadAssumption
<1>3. Rest'
  <2>1. ASSUME NEW f \in Files, Start(f) PROVE Rest'
    BY <2>1, <1>1, <1>2 DEF Start, Phases, Blocks, NameBlocks, AllRegions,
         RegionOrder, Range
  <2>2. ASSUME NEW f \in Files, Unload(f) PROVE Rest'
    BY <2>2, <1>1, <1>2 DEF Unload, ObjFree, DelAll, Phases, Blocks,
         NameBlocks, AllRegions, RegionOrder, Range
  <2>3. CASE NoName
    BY <2>3, <1>1, <1>2 DEF NoName, ObjFree, DelAll, Idle, Phases, Blocks,
         NameBlocks, AllRegions, RegionOrder, Range
  <2>4. CASE NotFound
    BY <2>4, <1>1, <1>2 DEF NotFound, New, ParsedNames, NameBlocks, Phases,
         Blocks, AllRegions, RegionOrder, Range
  <2>5. CASE NotFoundFree
    BY <2>5, <1>1, <1>2 DEF NotFoundFree, ObjFree, DelAll, Idle, Phases,
         Blocks, NameBlocks, AllRegions, RegionOrder, Range
  <2>6. CASE FileFound
    BY <2>6, <1>1, <1>2 DEF FileFound, New, ParsedNames, NameBlocks, Enter,
         Phases, Blocks, AllRegions, RegionOrder, Range
  <2>7. CASE OpenFails
    BY <2>7, <1>1, <1>2 DEF OpenFails, ObjFree, DelAll, Idle, Phases, Blocks,
         NameBlocks, AllRegions, RegionOrder, Range
  <2>8. CASE Open
    BY <2>8, <1>1, <1>2 DEF Open, Enter, Phases, Blocks, NameBlocks,
         AllRegions, RegionOrder, Range
  <2>9. CASE ArchiveFind
    BY <2>9, <1>1, <1>2 DEF ArchiveFind, Enter, Fail, Phases, Blocks,
         NameBlocks, AllRegions, RegionOrder, Range
  <2>10. CASE RapCheck
    BY <2>10, <1>1, <1>2 DEF RapCheck, Check, Enter, Phases, Blocks,
         NameBlocks, AllRegions, RegionOrder, Range
  <2>11. CASE ElfCheck
    BY <2>11, <1>1, <1>2 DEF ElfCheck, Check, Enter, Phases, Blocks,
         NameBlocks, AllRegions, RegionOrder, Range
  <2>12. CASE RapHeader
    BY <2>12, <1>1, <1>2 DEF RapHeader, Enter, Fail, Phases, Blocks,
         NameBlocks, AllRegions, RegionOrder, Range
  <2>13. CASE ElfHeader
    BY <2>13, <1>1, <1>2 DEF ElfHeader, Enter, Fail, Phases, Blocks,
         NameBlocks, AllRegions, RegionOrder, Range
  <2>14. CASE RapSection
    BY <2>14, <1>1, <1>2 DEF RapSection, AddSection, RapSecs, New, Enter,
         Fail, memVars, Phases, Blocks, NameBlocks, AllRegions, RegionOrder,
         Range
  <2>15. CASE ElfSection
    BY <2>15, <1>1, <1>2 DEF ElfSection, AddSection, New, Enter, Fail,
         memVars, Phases, Blocks, NameBlocks, AllRegions, RegionOrder, Range
  <2>16. CASE AllocRegion
    BY <2>16, <1>1, <1>2 DEF AllocRegion, New, RegionOrder, memVars, Phases,
         Blocks, NameBlocks, AllRegions, Range
  <2>17. CASE AllocRegionFails
    <3>1. cur \in Files
      BY <2>17, <1>1 DEF AllocRegionFails
    <3>2. UNCHANGED memVars \/ Del(cur, AllRegions)
      BY <2>17 DEF AllocRegionFails, ModuleDel
    <3>3. /\ ptr' \in [Files -> SUBSET (Blocks \union {Sects})]
          /\ mem' \in [Files -> SUBSET (Blocks \union {Sects})]
          /\ twice' \in BOOLEAN
      BY <3>1, <3>2, <1>1, DelTypes DEF memVars
    <3>. QED
      BY <2>17, <1>1, <3>3 DEF AllocRegionFails, Fail, Enter, Phases
  <2>18. CASE LoadRegion
    BY <2>18, <1>1, <1>2 DEF LoadRegion, Enter, Phases, Blocks, NameBlocks,
         AllRegions, RegionOrder, Range
  <2>19. CASE LoadRegionFails
    <3>1. cur \in Files
      BY <2>19, <1>1 DEF LoadRegionFails
    <3>2. UNCHANGED memVars \/ Del(cur, AllRegions)
      BY <2>19 DEF LoadRegionFails, ModuleDel
    <3>3. /\ ptr' \in [Files -> SUBSET (Blocks \union {Sects})]
          /\ mem' \in [Files -> SUBSET (Blocks \union {Sects})]
          /\ twice' \in BOOLEAN
      BY <3>1, <3>2, <1>1, DelTypes DEF memVars
    <3>. QED
      BY <2>19, <1>1, <3>3 DEF LoadRegionFails, Fail, Enter, Phases
  <2>20. CASE ElfCount
    BY <2>20, <1>1, <1>2 DEF ElfCount, Enter, Fail, Phases, Blocks,
         NameBlocks, AllRegions, RegionOrder, Range
  <2>21. CASE ElfTable
    BY <2>21, <1>1, <1>2 DEF ElfTable, Table, New, Enter, Fail, memVars,
         Phases, Blocks, NameBlocks, AllRegions, RegionOrder, Range
  <2>22. CASE ElfFill
    BY <2>22, <1>1, <1>2 DEF ElfFill, Enter, Phases, Blocks, NameBlocks,
         AllRegions, RegionOrder, Range
  <2>23. CASE ElfFillFails
    <3>1. cur \in Files
      BY <2>23, <1>1 DEF ElfFillFails
    <3>2. UNCHANGED memVars \/ Del(cur, {"symtab"})
      BY <2>23 DEF ElfFillFails, FillFails
    <3>3. /\ ptr' \in [Files -> SUBSET (Blocks \union {Sects})]
          /\ mem' \in [Files -> SUBSET (Blocks \union {Sects})]
          /\ twice' \in BOOLEAN
      BY <3>1, <3>2, <1>1, DelTypes DEF memVars
    <3>. QED
      BY <2>23, <1>1, <3>3 DEF ElfFillFails, FillFails, Fail, Enter, Phases
  <2>24. CASE RapTable
    BY <2>24, <1>1, <1>2 DEF RapTable, Table, New, Enter, Fail, memVars,
         Phases, Blocks, NameBlocks, AllRegions, RegionOrder, Range
  <2>25. CASE RapFill
    BY <2>25, <1>1, <1>2 DEF RapFill, Enter, Phases, Blocks, NameBlocks,
         AllRegions, RegionOrder, Range
  <2>26. CASE RapFillFails
    <3>1. cur \in Files
      BY <2>26, <1>1 DEF RapFillFails
    <3>2. UNCHANGED memVars \/ Del(cur, {"symtab"})
      BY <2>26 DEF RapFillFails, FillFails
    <3>3. /\ ptr' \in [Files -> SUBSET (Blocks \union {Sects})]
          /\ mem' \in [Files -> SUBSET (Blocks \union {Sects})]
          /\ twice' \in BOOLEAN
      BY <3>1, <3>2, <1>1, DelTypes DEF memVars
    <3>. QED
      BY <2>26, <1>1, <3>3 DEF RapFillFails, FillFails, Fail, Enter, Phases
  <2>27. CASE ElfRelocate
    BY <2>27, <1>1, <1>2 DEF ElfRelocate, NextRef, Fail, Enter, Phases,
         Blocks, NameBlocks, AllRegions, RegionOrder, Range
  <2>28. CASE ElfUnresolved
    BY <2>28, <1>1, <1>2 DEF ElfUnresolved, NextRef, Fail, Enter, Phases,
         Blocks, NameBlocks, AllRegions, RegionOrder, Range
  <2>29. CASE RapBuffer
    <3>1. buffer' \in BOOLEAN
      BY <2>29, <1>1 DEF RapBuffer
    <3>. QED
      BY <2>29, <1>1, <3>1 DEF RapBuffer, loadVars, Fail, Enter, Phases
  <2>30. CASE RapRelocate
    BY <2>30, <1>1, <1>2 DEF RapRelocate, NextRef, Phases, Blocks, NameBlocks,
         AllRegions, RegionOrder, Range
  <2>31. CASE RapRelocateFails
    BY <2>31, <1>1, <1>2 DEF RapRelocateFails, Fail, Enter, Phases, Blocks,
         NameBlocks, AllRegions, RegionOrder, Range
  <2>32. CASE LoadDone
    BY <2>32, <1>1, <1>2 DEF LoadDone, Idle, Phases, Blocks, NameBlocks,
         AllRegions, RegionOrder, Range
  <2>33. CASE LoadFails
    BY <2>33, <1>1, <1>2 DEF LoadFails, ObjFree, DelAll, Idle, Phases, Blocks,
         NameBlocks, AllRegions, RegionOrder, Range
  <2>34. CASE BaseAdd
    BY <2>34, <1>1, <1>2 DEF BaseAdd, Phases, Blocks, NameBlocks, AllRegions,
         RegionOrder, Range
  <2>. QED
    BY <2>1, <2>2, <2>3, <2>4, <2>5, <2>6, <2>7, <2>8, <2>9, <2>10, <2>11,
         <2>12, <2>13, <2>14, <2>15, <2>16, <2>17, <2>18, <2>19, <2>20, <2>21,
         <2>22, <2>23, <2>24, <2>25, <2>26, <2>27, <2>28, <2>29, <2>30, <2>31,
         <2>32, <2>33, <2>34 DEF Next
<1>. QED
  BY <1>3, TableStep DEF TypeOK, Entries

-----------------------------------------------------------------------------
(* The phases of a load and what is open in them. *)

LEMMA PhaseStep ==
  ASSUME TypeOK, PhaseInv, CleanInv, Next
  PROVE  PhaseInv' /\ CleanInv'
<1>1. /\ cur \in Files \union {NoFile} /\ (cur = NoFile <=> phase = "idle") /\ phase \in Phases
      /\ listed \subseteq Files /\ NoFile \notin Files
      /\ ptr \in [Files -> SUBSET (Blocks \union {Sects})]
  BY ObjLoadAssumption DEF TypeOK, ObjLoadAssumption
<1>2. CleanInv
  OBVIOUS
<1>3. PhaseInv'
  <2>1. ASSUME NEW f \in Files, Start(f) PROVE PhaseInv'
    BY <2>1, <1>1 DEF Start, PhaseInv, Phases
  <2>2. ASSUME NEW f \in Files, Unload(f) PROVE PhaseInv'
    BY <2>2, <1>1 DEF Unload, ObjFree, PhaseInv, Phases
  <2>3. CASE NoName
    BY <2>3, <1>1 DEF NoName, ObjFree, Idle, PhaseInv, Phases
  <2>4. CASE NotFound
    BY <2>4, <1>1 DEF NotFound, New, PhaseInv, Phases
  <2>5. CASE NotFoundFree
    BY <2>5, <1>1 DEF NotFoundFree, ObjFree, Idle, PhaseInv, Phases
  <2>6. CASE FileFound
    BY <2>6, <1>1 DEF FileFound, New, Enter, PhaseInv, Phases
  <2>7. CASE OpenFails
    BY <2>7, <1>1 DEF OpenFails, ObjFree, Idle, PhaseInv, Phases
  <2>8. CASE Open
    BY <2>8, <1>1 DEF Open, Enter, PhaseInv, Phases
  <2>9. CASE ArchiveFind
    BY <2>9, <1>1 DEF ArchiveFind, Enter, Fail, PhaseInv, Phases
  <2>10. CASE RapCheck
    BY <2>10, <1>1 DEF RapCheck, Check, Enter, PhaseInv, Phases
  <2>11. CASE ElfCheck
    BY <2>11, <1>1 DEF ElfCheck, Check, Enter, PhaseInv, Phases
  <2>12. CASE RapHeader
    BY <2>12, <1>1 DEF RapHeader, Enter, Fail, PhaseInv, Phases
  <2>13. CASE ElfHeader
    BY <2>13, <1>1 DEF ElfHeader, Enter, Fail, PhaseInv, Phases
  <2>14. CASE RapSection
    BY <2>14, <1>1 DEF RapSection, AddSection, New, Enter, Fail, memVars,
         PhaseInv, Phases
  <2>15. CASE ElfSection
    BY <2>15, <1>1 DEF ElfSection, AddSection, New, Enter, Fail, memVars,
         PhaseInv, Phases
  <2>16. CASE AllocRegion
    BY <2>16, <1>1 DEF AllocRegion, New, memVars, PhaseInv, Phases
  <2>17. CASE AllocRegionFails
    BY <2>17, <1>1 DEF AllocRegionFails, ModuleDel, Fail, Enter, memVars,
         PhaseInv, Phases
  <2>18. CASE LoadRegion
    BY <2>18, <1>1 DEF LoadRegion, Enter, PhaseInv, Phases
  <2>19. CASE LoadRegionFails
    BY <2>19, <1>1 DEF LoadRegionFails, ModuleDel, Fail, Enter, PhaseInv,
         Phases
  <2>20. CASE ElfCount
    BY <2>20, <1>1 DEF ElfCount, Enter, Fail, PhaseInv, Phases
  <2>21. CASE ElfTable
    BY <2>21, <1>1 DEF ElfTable, Table, New, Enter, Fail, memVars, PhaseInv,
         Phases
  <2>22. CASE ElfFill
    BY <2>22, <1>1 DEF ElfFill, Enter, PhaseInv, Phases
  <2>23. CASE ElfFillFails
    BY <2>23, <1>1 DEF ElfFillFails, FillFails, memVars, Fail, Enter,
         PhaseInv, Phases
  <2>24. CASE RapTable
    BY <2>24, <1>1 DEF RapTable, Table, New, Enter, Fail, memVars, PhaseInv,
         Phases
  <2>25. CASE RapFill
    BY <2>25, <1>1 DEF RapFill, Enter, PhaseInv, Phases
  <2>26. CASE RapFillFails
    BY <2>26, <1>1 DEF RapFillFails, FillFails, memVars, Fail, Enter,
         PhaseInv, Phases
  <2>27. CASE ElfRelocate
    BY <2>27, <1>1 DEF ElfRelocate, NextRef, Fail, Enter, PhaseInv, Phases
  <2>28. CASE ElfUnresolved
    BY <2>28, <1>1 DEF ElfUnresolved, NextRef, Fail, Enter, PhaseInv, Phases
  <2>29. CASE RapBuffer
    BY <2>29, <1>1 DEF RapBuffer, loadVars, Fail, Enter, PhaseInv, Phases
  <2>30. CASE RapRelocate
    BY <2>30, <1>1 DEF RapRelocate, NextRef, PhaseInv, Phases
  <2>31. CASE RapRelocateFails
    BY <2>31, <1>1 DEF RapRelocateFails, Fail, Enter, PhaseInv, Phases
  <2>32. CASE LoadDone
    BY <2>32, <1>1 DEF LoadDone, Idle, PhaseInv, Phases
  <2>33. CASE LoadFails
    BY <2>33, <1>1 DEF LoadFails, ObjFree, Idle, PhaseInv, Phases
  <2>34. CASE BaseAdd
    BY <2>34, <1>1 DEF BaseAdd, PhaseInv, Phases
  <2>. QED
    BY <2>1, <2>2, <2>3, <2>4, <2>5, <2>6, <2>7, <2>8, <2>9, <2>10, <2>11,
         <2>12, <2>13, <2>14, <2>15, <2>16, <2>17, <2>18, <2>19, <2>20, <2>21,
         <2>22, <2>23, <2>24, <2>25, <2>26, <2>27, <2>28, <2>29, <2>30, <2>31,
         <2>32, <2>33, <2>34 DEF Next
<1>4. CleanInv'
  <2>1. ASSUME NEW f \in Files, Start(f) PROVE CleanInv'
    BY <2>1, <1>1, <1>2 DEF Start, CleanInv
  <2>2. ASSUME NEW f \in Files, Unload(f) PROVE CleanInv'
    BY <2>2, <1>1, <1>2 DEF Unload, ObjFree, CleanInv
  <2>3. CASE NoName
    BY <2>3, <1>1, <1>2 DEF NoName, ObjFree, Idle, CleanInv
  <2>4. CASE NotFound
    BY <2>4, <1>1, <1>2 DEF NotFound, CleanInv
  <2>5. CASE NotFoundFree
    BY <2>5, <1>1, <1>2 DEF NotFoundFree, ObjFree, Idle, CleanInv
  <2>6. CASE FileFound
    BY <2>6, <1>1, <1>2 DEF FileFound, Enter, CleanInv
  <2>7. CASE OpenFails
    BY <2>7, <1>1, <1>2 DEF OpenFails, ObjFree, Idle, CleanInv
  <2>8. CASE Open
    BY <2>8, <1>1, <1>2 DEF Open, Enter, CleanInv
  <2>9. CASE ArchiveFind
    BY <2>9, <1>1, <1>2 DEF ArchiveFind, Enter, Fail, CleanInv
  <2>10. CASE RapCheck
    BY <2>10, <1>1, <1>2 DEF RapCheck, Check, Enter, CleanInv
  <2>11. CASE ElfCheck
    BY <2>11, <1>1, <1>2 DEF ElfCheck, Check, Enter, CleanInv
  <2>12. CASE RapHeader
    BY <2>12, <1>1, <1>2 DEF RapHeader, Enter, Fail, CleanInv
  <2>13. CASE ElfHeader
    BY <2>13, <1>1, <1>2 DEF ElfHeader, Enter, Fail, CleanInv
  <2>14. CASE RapSection
    BY <2>14, <1>1, <1>2 DEF RapSection, AddSection, Enter, Fail, memVars,
         CleanInv
  <2>15. CASE ElfSection
    BY <2>15, <1>1, <1>2 DEF ElfSection, AddSection, Enter, Fail, memVars,
         CleanInv
  <2>16. CASE AllocRegion
    BY <2>16, <1>1, <1>2 DEF AllocRegion, memVars, CleanInv
  <2>17. CASE AllocRegionFails
    BY <2>17, <1>1, <1>2 DEF AllocRegionFails, Fail, Enter, memVars, CleanInv
  <2>18. CASE LoadRegion
    BY <2>18, <1>1, <1>2 DEF LoadRegion, Enter, CleanInv
  <2>19. CASE LoadRegionFails
    BY <2>19, <1>1, <1>2 DEF LoadRegionFails, Fail, Enter, CleanInv
  <2>20. CASE ElfCount
    BY <2>20, <1>1, <1>2 DEF ElfCount, Enter, Fail, CleanInv
  <2>21. CASE ElfTable
    BY <2>21, <1>1, <1>2 DEF ElfTable, Table, Enter, Fail, memVars, CleanInv
  <2>22. CASE ElfFill
    BY <2>22, <1>1, <1>2 DEF ElfFill, Enter, CleanInv
  <2>23. CASE ElfFillFails
    BY <2>23, <1>1, <1>2 DEF ElfFillFails, FillFails, memVars, Fail, Enter,
         CleanInv
  <2>24. CASE RapTable
    BY <2>24, <1>1, <1>2 DEF RapTable, Table, Enter, Fail, memVars, CleanInv
  <2>25. CASE RapFill
    BY <2>25, <1>1, <1>2 DEF RapFill, Enter, CleanInv
  <2>26. CASE RapFillFails
    BY <2>26, <1>1, <1>2 DEF RapFillFails, FillFails, memVars, Fail, Enter,
         CleanInv
  <2>27. CASE ElfRelocate
    BY <2>27, <1>1, <1>2 DEF ElfRelocate, NextRef, Fail, Enter, CleanInv
  <2>28. CASE ElfUnresolved
    BY <2>28, <1>1, <1>2 DEF ElfUnresolved, NextRef, Fail, Enter, CleanInv
  <2>29. CASE RapBuffer
    BY <2>29, <1>1, <1>2 DEF RapBuffer, loadVars, Fail, Enter, CleanInv
  <2>30. CASE RapRelocate
    BY <2>30, <1>1, <1>2 DEF RapRelocate, NextRef, CleanInv
  <2>31. CASE RapRelocateFails
    BY <2>31, <1>1, <1>2 DEF RapRelocateFails, Fail, Enter, CleanInv
  <2>32. CASE LoadDone
    BY <2>32, <1>1, <1>2 DEF LoadDone, Idle, CleanInv
  <2>33. CASE LoadFails
    BY <2>33, <1>1, <1>2 DEF LoadFails, ObjFree, Idle, CleanInv
  <2>34. CASE BaseAdd
    BY <2>34, <1>1, <1>2 DEF BaseAdd, CleanInv
  <2>. QED
    BY <2>1, <2>2, <2>3, <2>4, <2>5, <2>6, <2>7, <2>8, <2>9, <2>10, <2>11,
         <2>12, <2>13, <2>14, <2>15, <2>16, <2>17, <2>18, <2>19, <2>20, <2>21,
         <2>22, <2>23, <2>24, <2>25, <2>26, <2>27, <2>28, <2>29, <2>30, <2>31,
         <2>32, <2>33, <2>34 DEF Next
<1>. QED
  BY <1>3, <1>4

-----------------------------------------------------------------------------
(* Pointers and blocks. *)

LEMMA MemKept ==
  ASSUME TypeOK, MemInv, UNCHANGED <<ptr, mem, twice>>, InUse' = InUse
  PROVE  MemInv'
  BY DEF MemInv

LEMMA NewMem ==
  ASSUME TypeOK, MemInv, cur \in Files, NEW B, New(B), InUse' = InUse
  PROVE  MemInv'
<1>1. /\ ptr \in [Files -> SUBSET (Blocks \union {Sects})]
      /\ mem \in [Files -> SUBSET (Blocks \union {Sects})]
      /\ InUse \subseteq Files /\ cur \in InUse
  BY ObjLoadAssumption DEF TypeOK, InUse, ObjLoadAssumption
<1>. QED
  BY <1>1 DEF MemInv, New

LEMMA DelMem ==
  ASSUME TypeOK, MemInv, cur \in Files, NEW B, B \subseteq Blocks, Del(cur, B), InUse' = InUse
  PROVE  MemInv'
<1>1. /\ ptr \in [Files -> SUBSET (Blocks \union {Sects})]
      /\ mem \in [Files -> SUBSET (Blocks \union {Sects})]
      /\ InUse \subseteq Files /\ cur \in InUse
  BY ObjLoadAssumption DEF TypeOK, InUse, ObjLoadAssumption
<1>2. B \intersect ptr[cur] \subseteq mem[cur]
  BY <1>1 DEF MemInv
<1>3. ~twice'
  BY <1>2, Zenon DEF MemInv, Del
<1>4. /\ \A f \in InUse : (ptr[f] \intersect Blocks = mem[f] \intersect Blocks)'
      /\ \A f \in Files \ InUse : mem'[f] \subseteq {Sects}
  BY <1>1 DEF MemInv, Del
<1>. QED
  BY <1>3, <1>4 DEF MemInv

LEMMA FreeMem ==
  ASSUME TypeOK, MemInv, NEW f, Frees(f)
  PROVE  MemInv'
<1>1. /\ ptr \in [Files -> SUBSET (Blocks \union {Sects})]
      /\ mem \in [Files -> SUBSET (Blocks \union {Sects})]
      /\ InUse \subseteq Files /\ f \in InUse /\ f \in Files
  BY ObjLoadAssumption DEF TypeOK, InUse, ObjLoadAssumption, Frees
<1>2. InUse' = InUse \ {f}
  BY ObjLoadAssumption DEF InUse, Frees, ObjFree, ObjLoadAssumption
<1>3. DelAll(f)
  BY DEF Frees, ObjFree
<1>4. Blocks \intersect ptr[f] \subseteq mem[f]
  BY <1>1 DEF MemInv
<1>5. ~twice'
  BY <1>3, <1>4, Zenon DEF MemInv, DelAll
<1>6. mem'[f] \subseteq {Sects}
  BY <1>1, <1>3 DEF MemInv, DelAll
<1>7. \A g \in Files : g # f => mem'[g] = mem[g] /\ ptr'[g] = ptr[g]
  BY <1>1, <1>3 DEF DelAll
<1>8. \A g \in InUse \ {f} : ptr'[g] \intersect Blocks = mem'[g] \intersect Blocks
  BY <1>1, <1>7 DEF MemInv
<1>9. \A g \in Files \ (InUse \ {f}) : mem'[g] \subseteq {Sects}
  BY <1>6, <1>7 DEF MemInv
<1>. QED
  BY <1>2, <1>5, <1>8, <1>9 DEF MemInv, Blocks

LEMMA MemStep ==
  ASSUME TypeOK, PhaseInv, MemInv, Next
  PROVE  MemInv'
<1>1. /\ cur \in Files \union {NoFile} /\ (cur = NoFile <=> phase = "idle")
      /\ listed \subseteq Files /\ NoFile \notin Files
  BY ObjLoadAssumption DEF TypeOK, ObjLoadAssumption
<1>2. ASSUME NEW f \in Files, Start(f) PROVE MemInv'
  <2>1. /\ f \in Files \ InUse /\ InUse' = InUse \union {f}
        /\ ptr \in [Files -> SUBSET (Blocks \union {Sects})]
        /\ mem \in [Files -> SUBSET (Blocks \union {Sects})]
        /\ InUse \subseteq Files
    BY <1>2, <1>1 DEF Start, InUse, TypeOK
  <2>2. "desc" \in Blocks /\ Sects \notin Blocks
    BY DEF Blocks, AllRegions, NameBlocks, RegionOrder, Range, Sects
  <2>3. ptr' = [ptr EXCEPT ![f] = {"desc"}] /\ mem' = [mem EXCEPT ![f] = @ \union {"desc"}]
        /\ UNCHANGED twice
    BY <1>2 DEF Start
  <2>. QED
    BY <2>1, <2>2, <2>3 DEF MemInv
<1>3. ASSUME NEW f \in Files, Unload(f) PROVE MemInv'
  BY <1>3, FreeingSteps, FreeMem
<1>4. CASE NoName
  BY <1>4, FreeingSteps, FreeMem
<1>5. CASE NotFound
  <2>1. cur \in Files /\ InUse' = InUse
    BY <1>5, <1>1 DEF NotFound, InUse
  <2>2. New(ParsedNames(cur))
    BY <1>5 DEF NotFound
  <2>. QED
    BY <2>1, <2>2, NewMem, MemKept
<1>6. CASE NotFoundFree
  BY <1>6, FreeingSteps, FreeMem
<1>7. CASE FileFound
  <2>1. cur \in Files /\ InUse' = InUse
    BY <1>7, <1>1 DEF FileFound, Enter, InUse, PhaseInv
  <2>2. New(ParsedNames(cur) \union {"fname"})
    BY <1>7 DEF FileFound, Enter
  <2>. QED
    BY <2>1, <2>2, NewMem, MemKept
<1>8. CASE OpenFails
  BY <1>8, FreeingSteps, FreeMem
<1>9. CASE Open
  BY <1>9, MemKept DEF Open, Enter, InUse
<1>10. CASE ArchiveFind
  BY <1>10, MemKept DEF ArchiveFind, Enter, Fail, InUse
<1>11. CASE RapCheck
  BY <1>11, MemKept DEF RapCheck, Check, Enter, InUse
<1>12. CASE ElfCheck
  BY <1>12, MemKept DEF ElfCheck, Check, Enter, InUse
<1>13. CASE RapHeader
  BY <1>13, MemKept DEF RapHeader, Enter, Fail, InUse
<1>14. CASE ElfHeader
  BY <1>14, MemKept DEF ElfHeader, Enter, Fail, InUse
<1>15. CASE RapSection
  <2>1. cur \in Files /\ InUse' = InUse
    BY <1>15, <1>1 DEF RapSection, AddSection, Enter, Fail, InUse
  <2>2. New({Sects}) \/ UNCHANGED <<ptr, mem, twice>>
    BY <1>15 DEF RapSection, AddSection, Enter, Fail, memVars
  <2>. QED
    BY <2>1, <2>2, NewMem, MemKept
<1>16. CASE ElfSection
  <2>1. cur \in Files /\ InUse' = InUse
    BY <1>16, <1>1 DEF ElfSection, AddSection, Enter, Fail, InUse
  <2>2. New({Sects}) \/ UNCHANGED <<ptr, mem, twice>>
    BY <1>16 DEF ElfSection, AddSection, Enter, Fail, memVars
  <2>. QED
    BY <2>1, <2>2, NewMem, MemKept
<1>17. CASE AllocRegion
  <2>1. cur \in Files /\ InUse' = InUse
    BY <1>17, <1>1 DEF AllocRegion, InUse
  <2>2. New({RegionOrder[step + 1]}) \/ UNCHANGED <<ptr, mem, twice>>
    BY <1>17 DEF AllocRegion, memVars
  <2>. QED
    BY <2>1, <2>2, NewMem, MemKept
<1>18. CASE AllocRegionFails
  <2>1. cur \in Files /\ InUse' = InUse
    BY <1>18, <1>1 DEF AllocRegionFails, ModuleDel, Fail, Enter, InUse
  <2>2. Del(cur, AllRegions) \/ UNCHANGED <<ptr, mem, twice>>
    BY <1>18 DEF AllocRegionFails, ModuleDel, Fail, Enter, memVars
  <2>3. AllRegions \subseteq Blocks /\ {"symtab"} \subseteq Blocks
    BY DEF Blocks
  <2>. QED
    BY <2>1, <2>2, <2>3, DelMem, MemKept
<1>19. CASE LoadRegion
  BY <1>19, MemKept DEF LoadRegion, Enter, InUse
<1>20. CASE LoadRegionFails
  <2>1. cur \in Files /\ InUse' = InUse
    BY <1>20, <1>1 DEF LoadRegionFails, ModuleDel, Fail, Enter, InUse
  <2>2. Del(cur, AllRegions)
    BY <1>20 DEF LoadRegionFails, ModuleDel, Fail, Enter
  <2>3. AllRegions \subseteq Blocks /\ {"symtab"} \subseteq Blocks
    BY DEF Blocks
  <2>. QED
    BY <2>1, <2>2, <2>3, DelMem, MemKept
<1>21. CASE ElfCount
  BY <1>21, MemKept DEF ElfCount, Enter, Fail, InUse
<1>22. CASE ElfTable
  <2>1. cur \in Files /\ InUse' = InUse
    BY <1>22, <1>1 DEF ElfTable, Table, Enter, Fail, InUse
  <2>2. New({"symtab"}) \/ UNCHANGED <<ptr, mem, twice>>
    BY <1>22 DEF ElfTable, Table, Enter, Fail, memVars
  <2>. QED
    BY <2>1, <2>2, NewMem, MemKept
<1>23. CASE ElfFill
  BY <1>23, MemKept DEF ElfFill, Enter, InUse
<1>24. CASE ElfFillFails
  <2>1. cur \in Files /\ InUse' = InUse
    BY <1>24, <1>1 DEF ElfFillFails, FillFails, Fail, Enter, InUse
  <2>2. Del(cur, {"symtab"}) \/ UNCHANGED <<ptr, mem, twice>>
    BY <1>24 DEF ElfFillFails, FillFails, Fail, Enter, memVars
  <2>3. AllRegions \subseteq Blocks /\ {"symtab"} \subseteq Blocks
    BY DEF Blocks
  <2>. QED
    BY <2>1, <2>2, <2>3, DelMem, MemKept
<1>25. CASE RapTable
  <2>1. cur \in Files /\ InUse' = InUse
    BY <1>25, <1>1 DEF RapTable, Table, Enter, Fail, InUse
  <2>2. New({"symtab"}) \/ UNCHANGED <<ptr, mem, twice>>
    BY <1>25 DEF RapTable, Table, Enter, Fail, memVars
  <2>. QED
    BY <2>1, <2>2, NewMem, MemKept
<1>26. CASE RapFill
  BY <1>26, MemKept DEF RapFill, Enter, InUse
<1>27. CASE RapFillFails
  <2>1. cur \in Files /\ InUse' = InUse
    BY <1>27, <1>1 DEF RapFillFails, FillFails, Fail, Enter, InUse
  <2>2. Del(cur, {"symtab"}) \/ UNCHANGED <<ptr, mem, twice>>
    BY <1>27 DEF RapFillFails, FillFails, Fail, Enter, memVars
  <2>3. AllRegions \subseteq Blocks /\ {"symtab"} \subseteq Blocks
    BY DEF Blocks
  <2>. QED
    BY <2>1, <2>2, <2>3, DelMem, MemKept
<1>28. CASE ElfRelocate
  BY <1>28, MemKept DEF ElfRelocate, NextRef, Fail, Enter, InUse
<1>29. CASE ElfUnresolved
  BY <1>29, MemKept DEF ElfUnresolved, NextRef, Fail, Enter, InUse
<1>30. CASE RapBuffer
  BY <1>30, MemKept DEF RapBuffer, loadVars, Fail, Enter, InUse
<1>31. CASE RapRelocate
  BY <1>31, MemKept DEF RapRelocate, NextRef, InUse
<1>32. CASE RapRelocateFails
  BY <1>32, MemKept DEF RapRelocateFails, Fail, Enter, InUse
<1>33. CASE LoadDone
  <2>1. InUse' = InUse
    BY <1>33, <1>1 DEF LoadDone, Idle, InUse, PhaseInv
  <2>. QED
    BY <1>33, <2>1, MemKept DEF LoadDone
<1>34. CASE LoadFails
  BY <1>34, FreeingSteps, FreeMem
<1>35. CASE BaseAdd
  BY <1>35, MemKept DEF BaseAdd, InUse
<1>. QED
  BY <1>2, <1>3, <1>4, <1>5, <1>6, <1>7, <1>8, <1>9, <1>10, <1>11, <1>12,
       <1>13, <1>14, <1>15, <1>16, <1>17, <1>18, <1>19, <1>20, <1>21, <1>22,
       <1>23, <1>24, <1>25, <1>26, <1>27, <1>28, <1>29, <1>30, <1>31, <1>32,
       <1>33, <1>34, <1>35 DEF Next

-----------------------------------------------------------------------------
(* Whose entries there are. *)

LEMMA SymFrees ==
  ASSUME TypeOK, SymInv, NEW f, Frees(f)
  PROVE  SymInv'
<1>1. /\ globals \in Seq(Entries) /\ listed \subseteq Files /\ NoFile \notin Files
      /\ f \in Files /\ cur \in {f, NoFile} /\ cur' = NoFile /\ listed' = listed \ {f}
      /\ ptr \in [Files -> SUBSET (Blocks \union {Sects})]
  BY ObjLoadTypes DEF Frees, ObjFree, TypeOK
<1>2. Left(globals', globals, Len(globals), f)
  BY FreedTable DEF Frees
<1>3. DOMAIN globals = 1 .. Len(globals)
  BY <1>1
<1>4. \A g \in Files \ {f} : ptr'[g] = ptr[g]
  BY <1>1 DEF Frees, ObjFree, DelAll
<1>5. ASSUME NEW i \in DOMAIN globals', globals'[i].owner # Base
      PROVE  LET o == globals'[i].owner
             IN  /\ o \in listed' /\ "symtab" \in ptr'[o] /\ Format[o] = "elf"
                 /\ o = cur' => phase' \in {"relocs", "failed"}
                 /\ \E k \in DOMAIN Exports[o] : Exports[o][k].name = globals'[i].name
  <2>1. PICK a \in DOMAIN globals : globals[a] = globals'[i]
    BY <1>2, <1>3 DEF Left
  <2>2. globals[a].owner # f
    BY <1>2, <2>1 DEF Left
  <2>. QED
    BY <1>1, <1>4, <1>5, <2>1, <2>2 DEF SymInv, OwnersInv
<1>6. ASSUME NEW g \in listed', Format[g] = "elf", NEW k \in DOMAIN Exports[g]
      PROVE  \E i \in DOMAIN globals' :
               globals'[i].owner = g /\ globals'[i].name = Exports[g][k].name
  <2>1. g \in listed /\ g # f /\ g # cur
    BY <1>1
  <2>2. PICK a \in DOMAIN globals : globals[a].owner = g /\ globals[a].name = Exports[g][k].name
    BY <1>6, <2>1 DEF SymInv, ExportsInv
  <2>3. PICK i \in DOMAIN globals' : globals'[i] = globals[a]
    BY <1>2, <1>3, <2>1, <2>2 DEF Left
  <2>. QED
    BY <2>2, <2>3
<1>. QED
  BY <1>5, <1>6 DEF SymInv, OwnersInv, ExportsInv

LEMMA SymFill ==
  ASSUME TypeOK, PhaseInv, SymInv, ElfFill
  PROVE  SymInv'
<1>1. /\ globals \in Seq(Entries) /\ cur \in Files /\ cur \in listed /\ cur # Base
      /\ "symtab" \in ptr[cur] /\ Format[cur] = "elf"
  BY ObjLoadTypes DEF TypeOK, PhaseInv, ElfFill
<1>2. globals' = Added(cur) /\ phase' = "relocs" /\ UNCHANGED <<listed, ptr, cur>>
  BY DEF ElfFill, Enter
<1>3. \A i \in DOMAIN globals : globals[i].owner # cur
  BY <1>1 DEF ElfFill, SymInv, OwnersInv
<1>4. ASSUME NEW i \in DOMAIN globals', globals'[i].owner # Base
      PROVE  LET o == globals'[i].owner
             IN  /\ o \in listed /\ "symtab" \in ptr[o] /\ Format[o] = "elf"
                 /\ \E k \in DOMAIN Exports[o] : Exports[o][k].name = globals'[i].name
  <2>1. CASE i \in DOMAIN globals
    <3>1. globals'[i] = globals[i]
      BY <1>1, <1>2, <2>1, AddedFacts
    <3>. QED
      BY <1>4, <2>1, <3>1 DEF SymInv, OwnersInv
  <2>2. ASSUME NEW k \in DOMAIN Exports[cur], i = Len(globals) + k
        PROVE  LET o == globals'[i].owner
               IN  /\ o \in listed /\ "symtab" \in ptr[o] /\ Format[o] = "elf"
                   /\ \E m \in DOMAIN Exports[o] : Exports[o][m].name = globals'[i].name
    <3>1. globals'[i] = Entry(cur, Exports[cur][k].name, Exports[cur][k].weak)
      BY <1>1, <1>2, <2>2, AddedFacts
    <3>2. globals'[i].owner = cur /\ globals'[i].name = Exports[cur][k].name
      BY <3>1 DEF Entry
    <3>. QED
      BY <1>1, <3>2
  <2>. QED
    BY <1>1, <1>2, <2>1, <2>2, AddedFacts
<1>5. ASSUME NEW g \in listed, Format[g] = "elf", NEW k \in DOMAIN Exports[g]
      PROVE  \E i \in DOMAIN globals' :
               globals'[i].owner = g /\ globals'[i].name = Exports[g][k].name
  <2>1. CASE g = cur
    <3>1. /\ Len(globals) + k \in DOMAIN globals'
          /\ globals'[Len(globals) + k] = Entry(cur, Exports[cur][k].name, Exports[cur][k].weak)
      BY <1>1, <1>2, <1>5, <2>1, AddedFacts
    <3>. QED
      BY <2>1, <3>1 DEF Entry
  <2>2. CASE g # cur
    <3>1. PICK i \in DOMAIN globals : globals[i].owner = g /\ globals[i].name = Exports[g][k].name
      BY <1>5, <2>2 DEF SymInv, ExportsInv
    <3>. QED
      BY <1>1, <1>2, <3>1, AddedFacts
  <2>. QED
    BY <2>1, <2>2
<1>6. OwnersInv'
  BY <1>2, <1>4 DEF OwnersInv
<1>7. ExportsInv'
  BY <1>2, <1>5 DEF ExportsInv
<1>. QED
  BY <1>6, <1>7 DEF SymInv

LEMMA SymBase ==
  ASSUME TypeOK, SymInv, BaseAdd
  PROVE  SymInv'
<1>1. /\ Longer(globals', globals)
      /\ UNCHANGED <<listed, ptr, cur, phase>> /\ globals \in Seq(Entries)
  BY ObjLoadTypes, WithBaseFacts DEF BaseAdd
<1>2. ASSUME NEW i \in DOMAIN globals', globals'[i].owner # Base
      PROVE  i \in DOMAIN globals /\ globals'[i] = globals[i]
  BY <1>1, <1>2 DEF Longer
<1>3. OwnersInv'
  BY <1>1, <1>2 DEF SymInv, OwnersInv
<1>4. ExportsInv'
  BY <1>1 DEF SymInv, ExportsInv, Longer
<1>. QED
  BY <1>3, <1>4 DEF SymInv

LEMMA SymQuiet ==
  ASSUME TypeOK, PhaseInv, SymInv, Quiet
  PROVE  SymInv'
<1>1. /\ listed \subseteq Files /\ NoFile \notin Files /\ Base \notin Files
      /\ UNCHANGED <<listed, globals>>
      /\ \A f \in Files \ {cur} : ptr'[f] = ptr[f]
  BY ObjLoadTypes DEF Quiet
<1>2. CASE LoadDone
  <2>1. phase = "relocs" /\ UNCHANGED ptr /\ cur' = NoFile
    BY <1>2 DEF LoadDone, Idle
  <2>. QED
    BY <1>1, <2>1 DEF SymInv, OwnersInv, ExportsInv
<1>3. CASE phase = "relocs" /\ phase' \in {"relocs", "failed"} /\ UNCHANGED <<ptr, cur>>
  BY <1>1, <1>3 DEF SymInv, OwnersInv, ExportsInv
<1>4. CASE /\ phase \notin {"idle", "relocs", "failed"} /\ cur' = cur
           /\ phase' = "relocs" => Exports[cur] = <<>> \/ (phase = "fill" /\ loader = "rap")
  <2>1. \A i \in DOMAIN globals : globals[i].owner # Base =>
          globals[i].owner # cur /\ globals[i].owner \in Files \ {cur}
    BY <1>1, <1>4 DEF SymInv, OwnersInv
  <2>2. OwnersInv'
    BY <1>1, <1>4, <2>1 DEF SymInv, OwnersInv
  <2>3. phase' = "relocs" /\ Format[cur] = "elf" => Exports[cur] = <<>>
    BY <1>4 DEF PhaseInv, Quiet
  <2>4. ExportsInv'
    BY <1>1, <1>4, <2>3 DEF SymInv, ExportsInv
  <2>. QED
    BY <2>2, <2>4 DEF SymInv
<1>. QED
  BY <1>2, <1>3, <1>4 DEF Quiet

LEMMA SymStep ==
  ASSUME TypeOK, PhaseInv, SymInv, Next
  PROVE  SymInv'
<1>1. \A f : Frees(f) => SymInv'
  BY SymFrees
<1>2. ASSUME NEW f \in Files, Start(f) PROVE SymInv'
  <2>1. /\ listed \subseteq Files /\ f \notin listed /\ cur = NoFile /\ NoFile \notin Files
        /\ UNCHANGED <<listed, globals>> /\ cur' = f
        /\ \A g \in Files \ {f} : ptr'[g] = ptr[g]
    BY <1>2, ObjLoadTypes DEF Start, TypeOK
  <2>. QED
    BY <2>1 DEF SymInv, OwnersInv, ExportsInv
<1>3. CASE FileFound
  <2>1. /\ listed \subseteq Files /\ cur \notin listed /\ cur \in Files
        /\ listed' = listed \union {cur} /\ UNCHANGED <<cur, globals>> /\ phase' = "open"
        /\ \A g \in Files \ {cur} : ptr'[g] = ptr[g]
    BY <1>3, ObjLoadTypes DEF FileFound, New, Enter, TypeOK, PhaseInv
  <2>. QED
    BY <2>1 DEF SymInv, OwnersInv, ExportsInv
<1>. QED
  BY <1>1, <1>2, <1>3, SymFill, SymBase, SymQuiet, QuietSteps, FreeingSteps

-----------------------------------------------------------------------------
(* Strong symbols. *)

LEMMA StrongStep ==
  ASSUME TypeOK, SymInv, StrongInv, Next
  PROVE  StrongInv'
<1>1. globals \in Seq(Entries) /\ DOMAIN globals = 1 .. Len(globals)
  BY ObjLoadTypes
<1>2. ASSUME NEW f, Frees(f) PROVE StrongInv'
  <2>1. Left(globals', globals, Len(globals), f) /\ phase' = "idle"
    BY <1>2, FreedTable DEF Frees
  <2>2. ASSUME NEW i \in DOMAIN globals', NEW j \in DOMAIN globals',
               i < j, globals'[i].name = globals'[j].name
        PROVE  globals'[j].weak \/ globals'[i].owner = globals'[j].owner
    <3>1. PICK a \in 1 .. Len(globals), b \in 1 .. Len(globals) :
            a < b /\ globals[a] = globals'[i] /\ globals[b] = globals'[j]
      BY <2>1, <2>2 DEF Left
    <3>. QED
      BY <1>1, <2>2, <3>1 DEF StrongInv, StrongIsFound
  <2>. QED
    BY <2>1, <2>2 DEF StrongInv, StrongIsFound
<1>3. CASE ElfFill
  <2>1. /\ cur \in Files /\ globals' = Added(cur) /\ phase' = "relocs" /\ ~Duplicate(cur)
    BY <1>3 DEF ElfFill, Enter, TypeOK, StrongInv
  <2>2. ASSUME NEW i \in DOMAIN globals', NEW j \in DOMAIN globals',
               i < j, globals'[i].name = globals'[j].name
        PROVE  globals'[j].weak \/ globals'[i].owner = globals'[j].owner
    <3>1. CASE j \in DOMAIN globals
      <4>1. i \in DOMAIN globals
        BY <1>1, <2>1, <2>2, <3>1, AddedFacts
      <4>. QED
        BY <1>1, <2>1, <2>2, <3>1, <4>1, AddedFacts DEF StrongInv, StrongIsFound
    <3>2. ASSUME NEW k \in DOMAIN Exports[cur], j = Len(globals) + k
          PROVE  globals'[j].weak \/ globals'[i].owner = globals'[j].owner
      <4>1. globals'[j] = Entry(cur, Exports[cur][k].name, Exports[cur][k].weak)
        BY <1>1, <2>1, <3>2, AddedFacts
      <4>2. /\ globals'[j].owner = cur /\ globals'[j].name = Exports[cur][k].name
            /\ (globals'[j].weak) = (Exports[cur][k].weak)
        BY <4>1 DEF Entry
      <4>3. CASE i \in DOMAIN globals
        <5>1. globals[i].name = Exports[cur][k].name
          BY <1>1, <2>1, <2>2, <4>2, <4>3, AddedFacts
        <5>2. Exports[cur][k].weak
          BY <2>1, <4>3, <5>1 DEF Duplicate, Known
        <5>. QED
          BY <4>2, <5>2
      <4>4. ASSUME NEW m \in DOMAIN Exports[cur], i = Len(globals) + m
            PROVE  globals'[i].owner = cur
        <5>1. globals'[i] = Entry(cur, Exports[cur][m].name, Exports[cur][m].weak)
          BY <1>1, <2>1, <4>4, AddedFacts
        <5>. QED
          BY <5>1 DEF Entry
      <4>. QED
        BY <1>1, <2>1, <4>2, <4>3, <4>4, AddedFacts
    <3>. QED
      BY <1>1, <2>1, <3>1, <3>2, AddedFacts
  <2>. QED
    BY <2>1, <2>2 DEF StrongInv, StrongIsFound
<1>4. CASE BaseAdd
  <2>1. /\ Longer(globals', globals) /\ phase' = "idle"
    BY <1>1, <1>4, WithBaseFacts DEF BaseAdd
  <2>2. ASSUME NEW i \in DOMAIN globals', NEW j \in DOMAIN globals',
               i < j, globals'[i].name = globals'[j].name
        PROVE  globals'[j].weak \/ globals'[i].owner = globals'[j].owner
    <3>1. j \in DOMAIN globals
      BY <2>1, <2>2 DEF Longer
    <3>2. i \in DOMAIN globals
      <4>1. i \in 1 .. Len(globals')
        BY <2>1, <2>2 DEF Longer
      <4>. QED
        BY <1>1, <2>2, <3>1, <4>1
    <3>. QED
      BY <2>1, <2>2, <3>1, <3>2 DEF Longer, StrongInv, StrongIsFound
  <2>. QED
    BY <2>1, <2>2 DEF StrongInv, StrongIsFound
<1>5. ASSUME NEW f \in Files, Start(f) PROVE StrongInv'
  BY <1>5 DEF Start, StrongInv, StrongIsFound
<1>6. CASE FileFound
  BY <1>6 DEF FileFound, Enter, StrongInv, StrongIsFound
<1>7. CASE Quiet
  <2>1. StrongIsFound'
    BY <1>7 DEF Quiet, StrongInv, StrongIsFound
  <2>2. phase' \in {"table", "fill"} /\ loader' = "elf" => ~Duplicate(cur) /\ UNCHANGED <<cur, globals>>
    BY <1>7 DEF Quiet, StrongInv, LoadDone, Idle
  <2>3. UNCHANGED <<cur, globals>> => (Duplicate(cur))' = Duplicate(cur)
    BY DEF Duplicate, Known
  <2>. QED
    BY <2>1, <2>2, <2>3 DEF StrongInv
<1>. QED
  BY <1>2, <1>3, <1>4, <1>5, <1>6, <1>7, QuietSteps, FreeingSteps

-----------------------------------------------------------------------------
(* The invariants. *)

LEMMA InvInit ==
  ASSUME Init
  PROVE  Inv
<1>1. TypeOK
  <2>1. <<>> \in Seq([owner : Files \union {Base}, name : Names, weak : BOOLEAN])
    OBVIOUS
  <2>2. 0 \in 0 .. MaxBase
    BY ObjLoadAssumption DEF ObjLoadAssumption
  <2>. QED
    BY <2>1, <2>2 DEF Init, TypeOK, Phases
<1>2. PhaseInv /\ CleanInv
  BY DEF Init, PhaseInv, CleanInv
<1>3. MemInv
  BY DEF Init, MemInv, InUse
<1>4. SymInv /\ StrongInv
  BY DEF Init, SymInv, OwnersInv, ExportsInv, StrongInv, StrongIsFound
<1>. QED
  BY <1>1, <1>2, <1>3, <1>4 DEF Inv

LEMMA InvStep ==
  ASSUME Inv, [Next]_vars
  PROVE  Inv'
<1>1. CASE Next
  BY <1>1, TypeStep, PhaseStep, MemStep, SymStep, StrongStep DEF Inv
<1>2. CASE UNCHANGED vars
  BY <1>2 DEF vars, Inv, TypeOK, PhaseInv, CleanInv, MemInv, InUse, SymInv, OwnersInv,
              ExportsInv, StrongInv, StrongIsFound, Duplicate, Known
<1>. QED
  BY <1>1, <1>2

\* The inductive invariant holds in every state: types, phases, blocks, owners
\* of the symbols and their order, for all files, symbols and base tables.
THEOREM ObjLoadInvariance == Spec => []Inv
  BY InvInit, InvStep, PTL DEF Spec

\* The variables keep their types (TypeOK).
THEOREM ObjLoadTypeCorrect == Spec => []TypeOK
<1>1. Inv => TypeOK
  BY DEF Inv
<1>. QED
  BY <1>1, ObjLoadInvariance, PTL

\* Whichever step of a load fails, the file is closed, the caches are flushed, and the
\* object gives back what it took but for its section records, which are lost
\* (rtems_rtl_obj_load, rtems_rtl_load_object, rtems_rtl_obj_free).
THEOREM FailureGivesBack == Spec => []AllButSectionsGivenBack
<1>1. Inv => AllButSectionsGivenBack
  BY ObjLoadAssumption
     DEF Inv, CleanInv, MemInv, InUse, AllButSectionsGivenBack, ObjLoadAssumption, TypeOK
<1>. QED
  BY <1>1, ObjLoadInvariance, PTL

\* No error path frees a block that an earlier one has freed
\* (rtems_rtl_alloc_module_del, rtems_rtl_obj_free).
THEOREM NoDoubleFree == Spec => []FreedOnce
<1>1. Inv => FreedOnce
  BY DEF Inv, MemInv, FreedOnce
<1>. QED
  BY <1>1, ObjLoadInvariance, PTL

\* Every entry of the global table lies in memory of a listed object
\* (rtems_rtl_symbol_obj_add, rtems_rtl_symbol_obj_erase).
THEOREM TableInMemory == Spec => []SymbolsInMemory
<1>1. Inv => SymbolsInMemory
  <2>. SUFFICES ASSUME Inv, NEW i \in DOMAIN globals, globals[i].owner # Base
                PROVE  globals[i].owner \in listed /\ "symtab" \in mem[globals[i].owner]
    BY DEF SymbolsInMemory
  <2>1. globals[i].owner \in listed /\ "symtab" \in ptr[globals[i].owner]
    BY DEF Inv, SymInv, OwnersInv
  <2>2. "symtab" \in Blocks
    BY DEF Blocks
  <2>. QED
    BY <2>1, <2>2 DEF Inv, MemInv, InUse
<1>. QED
  BY <1>1, ObjLoadInvariance, PTL

\* No strong symbol is hidden behind another object's of its name
\* (rtems_rtl_symbol_global_find, rtems_rtl_elf_symbols).
THEOREM StrongNotHidden == Spec => []StrongIsFound
<1>1. Inv => StrongIsFound
  BY DEF Inv, StrongInv
<1>. QED
  BY <1>1, ObjLoadInvariance, PTL

-----------------------------------------------------------------------------
(* Loads and unloads implement ObjectStore. *)

Loaded  == IF phase = "idle" THEN listed ELSE listed \ {cur}
Pair(e) == <<e.owner, e.name>>
Seen    == {Pair(globals[i]) : i \in {k \in DOMAIN globals : Outside(globals[k])}}
Offers  == [f \in Files |-> IF Format[f] = "elf"
                              THEN {Exports[f][i].name : i \in DOMAIN Exports[f]} ELSE {}]

LEMMA SeenIs ==
  \A s : s \in Seen <=> \E i \in DOMAIN globals : Outside(globals[i]) /\ s = Pair(globals[i])
BY DEF Seen

\* The actions of ObjectStore, under the mapping.
LEMMA Mapped ==
  /\ Loaded' = Loaded /\ Seen' = Seen => UNCHANGED AllOrNothing!storeVars
  /\ \A f \in Files :
       f \notin Loaded /\ Loaded' = Loaded \union {f} /\ Seen' = Seen \union ({f} \X Offers[f])
         => AllOrNothing!StoreNext
  /\ \A f \in Files :
       f \in Loaded /\ Loaded' = Loaded \ {f} /\ Seen' = Seen \ ({f} \X Offers[f])
         => AllOrNothing!StoreNext
  /\ Seen \subseteq Seen' /\ Loaded' = Loaded
       /\ (\A s \in Seen' \ Seen : s[1] = Base /\ \A t \in Seen : t[2] # s[2])
         => AllOrNothing!StoreNext
<1>1. Loaded' = Loaded /\ Seen' = Seen => UNCHANGED AllOrNothing!storeVars
  BY DEF Loaded, Seen, Pair, AllOrNothing!storeVars
<1>2. ASSUME NEW f \in Files, f \notin Loaded, Loaded' = Loaded \union {f},
             Seen' = Seen \union ({f} \X Offers[f])
      PROVE  AllOrNothing!Load(f)
  <2>1. Offers[f] \in SUBSET Offers[f] /\ Offers[f] \ Offers[f] = {}
    OBVIOUS
  <2>2. \E entered \in SUBSET Offers[f] :
          /\ \A n \in Offers[f] \ entered : \E s \in Seen : s[2] = n
          /\ Seen' = Seen \union ({f} \X entered)
    BY <1>2, <2>1
  <2>. QED
    BY <1>2, <2>2, Zenon DEF Loaded, Seen, Pair, Offers, AllOrNothing!Load
<1>3. ASSUME NEW f \in Files, f \in Loaded, Loaded' = Loaded \ {f},
             Seen' = Seen \ ({f} \X Offers[f])
      PROVE  AllOrNothing!Unload(f)
  BY <1>3 DEF Loaded, Seen, Pair, Offers, AllOrNothing!Unload
<1>4. ASSUME Seen \subseteq Seen', Loaded' = Loaded,
             \A s \in Seen' \ Seen : s[1] = Base /\ \A t \in Seen : t[2] # s[2]
      PROVE  AllOrNothing!AddBase
  BY <1>4 DEF Loaded, Seen, Pair, AllOrNothing!AddBase
<1>. QED
  BY <1>1, <1>2, <1>3, <1>4 DEF AllOrNothing!StoreNext

\* While an object is loaded, a step that keeps the table keeps what is seen.
LEMMA SeenKept ==
  ASSUME UNCHANGED <<globals, cur>>, phase # "idle", phase' # "idle"
  PROVE  Seen' = Seen
BY DEF Seen, Pair, Outside

\* Beginning a load shows nothing.
LEMMA StartMaps ==
  ASSUME Inv, NEW f \in Files, Start(f)
  PROVE  Loaded' = Loaded /\ Seen' = Seen
<1>1. /\ phase = "idle" /\ phase' = "find" /\ cur' = f /\ f \notin listed /\ f # Base
      /\ UNCHANGED <<listed, globals>>
  BY ObjLoadTypes DEF Start, Inv
<1>2. \A i \in DOMAIN globals : Outside(globals[i]) /\ globals'[i].owner # cur'
  BY <1>1 DEF Outside, Inv, SymInv, OwnersInv
<1>3. Seen' = Seen
  BY <1>1, <1>2 DEF Seen, Pair, Outside
<1>. QED
  BY <1>1, <1>3 DEF Loaded

\* An object goes: nothing changes but for its own entries.
LEMMA FreesMaps ==
  ASSUME Inv, NEW f, Frees(f)
  PROVE  /\ f = cur => Loaded' = Loaded /\ Seen' = Seen
         /\ phase = "idle" => Loaded' = Loaded \ {f} /\ Seen' = Seen \ ({f} \X Offers[f])
<1>1. /\ phase' = "idle" /\ listed' = listed \ {f} /\ f \in Files /\ f # Base
      /\ TypeOK /\ OwnersInv /\ (cur = NoFile <=> phase = "idle") /\ NoFile \notin Files
  BY ObjLoadTypes DEF Frees, ObjFree, Inv, SymInv, TypeOK
<1>2. Left(globals', globals, Len(globals), f) /\ DOMAIN globals = 1 .. Len(globals)
  BY ObjLoadTypes, FreedTable DEF Frees, Inv
<1>3. \A s : s \in Seen' <=> \E i \in DOMAIN globals' : s = Pair(globals'[i])
  BY <1>1 DEF Seen, Outside, Pair
<1>4. \A s : s \in Seen' <=> \E a \in DOMAIN globals : globals[a].owner # f /\ s = Pair(globals[a])
  <2>1. \A i \in DOMAIN globals' : \E a \in DOMAIN globals :
          globals[a].owner # f /\ globals[a] = globals'[i]
    <3>. SUFFICES ASSUME NEW i \in DOMAIN globals'
                  PROVE  \E a \in DOMAIN globals : globals[a].owner # f /\ globals[a] = globals'[i]
      OBVIOUS
    <3>1. globals'[i].owner # f /\ \E a \in 1 .. Len(globals) : globals[a] = globals'[i]
      BY <1>2 DEF Left
    <3>2. PICK a \in 1 .. Len(globals) : globals[a] = globals'[i]
      BY <3>1
    <3>. QED
      BY <1>2, <3>1, <3>2
  <2>2. \A a \in DOMAIN globals : globals[a].owner # f =>
          \E i \in DOMAIN globals' : globals'[i] = globals[a]
    BY <1>2 DEF Left
  <2>. QED
    BY <1>3, <2>1, <2>2
<1>5. ASSUME f = cur PROVE Loaded' = Loaded /\ Seen' = Seen
  <2>1. phase # "idle"
    BY <1>1, <1>5
  <2>2. \A s : s \in Seen <=> s \in Seen'
    BY <1>4, <1>5, <2>1, SeenIs DEF Outside
  <2>. QED
    BY <1>1, <1>5, <2>1, <2>2 DEF Loaded
<1>6. ASSUME phase = "idle"
      PROVE  Loaded' = Loaded \ {f} /\ Seen' = Seen \ ({f} \X Offers[f])
  <2>1. \A s : s \in Seen <=> \E a \in DOMAIN globals : s = Pair(globals[a])
    BY <1>6, SeenIs DEF Outside
  <2>2. ASSUME NEW a \in DOMAIN globals
        PROVE  globals[a].owner # f <=> Pair(globals[a]) \notin {f} \X Offers[f]
    <3>1. CASE globals[a].owner # f
      BY <3>1 DEF Pair
    <3>2. CASE globals[a].owner = f
      <4>1. Format[f] = "elf" /\ \E k \in DOMAIN Exports[f] : Exports[f][k].name = globals[a].name
        BY <1>1, <3>2 DEF OwnersInv
      <4>2. globals[a].name \in Offers[f]
        BY <1>1, <4>1 DEF Offers
      <4>. QED
        BY <3>2, <4>2 DEF Pair
    <3>. QED
      BY <3>1, <3>2
  <2>3. \A s : s \in Seen' <=> s \in Seen /\ s \notin {f} \X Offers[f]
    BY <1>4, <2>1, <2>2
  <2>. QED
    BY <1>1, <1>6, <2>3 DEF Loaded
<1>. QED
  BY <1>5, <1>6

\* The symbols of the object that is being loaded are not seen yet.
LEMMA FillMaps ==
  ASSUME Inv, ElfFill
  PROVE  Loaded' = Loaded /\ Seen' = Seen
<1>1. /\ globals \in Seq(Entries) /\ cur \in Files /\ globals' = Added(cur)
      /\ phase = "fill" /\ phase' = "relocs" /\ UNCHANGED <<listed, cur>>
  BY ObjLoadTypes DEF ElfFill, Enter, Inv, TypeOK
<1>2. \A s : s \in Seen' <=> \E i \in DOMAIN globals' :
        globals'[i].owner # cur /\ s = Pair(globals'[i])
  BY <1>1 DEF Seen, Outside, Pair
<1>3. \A s : s \in Seen <=> \E i \in DOMAIN globals :
        globals[i].owner # cur /\ s = Pair(globals[i])
  BY <1>1, SeenIs DEF Outside
<1>4. \A i \in DOMAIN globals : i \in DOMAIN globals' /\ globals'[i] = globals[i]
  BY <1>1, AddedFacts
<1>5. ASSUME NEW i \in DOMAIN globals', globals'[i].owner # cur PROVE i \in DOMAIN globals
  <2>1. ASSUME NEW k \in DOMAIN Exports[cur] PROVE globals'[Len(globals) + k].owner = cur
    <3>1. globals'[Len(globals) + k] = Entry(cur, Exports[cur][k].name, Exports[cur][k].weak)
      BY <1>1, AddedFacts
    <3>. QED
      BY <3>1 DEF Entry
  <2>. QED
    BY <1>1, <1>5, <2>1, AddedFacts
<1>6. \A s : s \in Seen' <=> s \in Seen
  BY <1>2, <1>3, <1>4, <1>5
<1>. QED
  BY <1>1, <1>6 DEF Loaded

\* The base image adds names nobody has.
LEMMA BaseMaps ==
  ASSUME Inv, BaseAdd
  PROVE  /\ Seen \subseteq Seen' /\ Loaded' = Loaded
         /\ \A s \in Seen' \ Seen : s[1] = Base /\ \A t \in Seen : t[2] # s[2]
<1>1. /\ globals \in Seq(Entries) /\ Longer(globals', globals)
      /\ phase = "idle" /\ phase' = "idle" /\ UNCHANGED listed
  BY ObjLoadTypes, WithBaseFacts DEF BaseAdd, Inv
<1>2. \A s : s \in Seen' <=> \E i \in DOMAIN globals' : s = Pair(globals'[i])
  BY <1>1 DEF Seen, Outside, Pair
<1>3. \A s : s \in Seen <=> \E i \in DOMAIN globals : s = Pair(globals[i])
  BY <1>1, SeenIs DEF Outside
<1>4. Seen \subseteq Seen'
  BY <1>1, <1>2, <1>3 DEF Longer
<1>5. ASSUME NEW s \in Seen', s \notin Seen
      PROVE  s[1] = Base /\ \A t \in Seen : t[2] # s[2]
  <2>1. PICK i \in DOMAIN globals' : s = Pair(globals'[i])
    BY <1>2
  <2>2. i \notin DOMAIN globals
    BY <1>1, <1>3, <1>5, <2>1 DEF Longer
  <2>3. globals'[i].owner = Base /\ \A j \in DOMAIN globals' : j < i => globals'[j].name # globals'[i].name
    BY <1>1, <2>2 DEF Longer
  <2>4. \A j \in DOMAIN globals : j \in DOMAIN globals' /\ j < i /\ globals'[j] = globals[j]
    <3>1. i \in Nat /\ i \notin 1 .. Len(globals) /\ i >= 1 /\ Len(globals) \in Nat
      BY <1>1, <2>2 DEF Longer
    <3>2. \A j \in 1 .. Len(globals) : j < i
      BY <3>1
    <3>. QED
      BY <1>1, <3>2 DEF Longer
  <2>5. \A j \in DOMAIN globals : globals[j].name # globals'[i].name
    BY <2>3, <2>4
  <2>. QED
    BY <1>3, <2>1, <2>3, <2>5 DEF Pair
<1>. QED
  BY <1>1, <1>4, <1>5 DEF Loaded

\* The end of a load shows the object with all it offers.
LEMMA DoneMaps ==
  ASSUME Inv, LoadDone
  PROVE  /\ cur \in Files /\ cur \notin Loaded
         /\ Loaded' = Loaded \union {cur} /\ Seen' = Seen \union ({cur} \X Offers[cur])
<1>1. /\ phase = "relocs" /\ phase' = "idle" /\ UNCHANGED <<listed, globals>>
      /\ cur \in listed /\ cur \in Files /\ cur # Base /\ OwnersInv /\ ExportsInv
  BY ObjLoadTypes DEF LoadDone, Idle, Inv, TypeOK, PhaseInv, SymInv
<1>2. \A s : s \in Seen' <=> \E i \in DOMAIN globals : s = Pair(globals[i])
  BY <1>1 DEF Seen, Outside, Pair
<1>3. \A s : s \in Seen <=> \E i \in DOMAIN globals :
        globals[i].owner # cur /\ s = Pair(globals[i])
  BY <1>1, SeenIs DEF Outside
<1>4. ASSUME NEW i \in DOMAIN globals, globals[i].owner = cur
      PROVE  Pair(globals[i]) \in {cur} \X Offers[cur]
  <2>1. Format[cur] = "elf" /\ \E k \in DOMAIN Exports[cur] : Exports[cur][k].name = globals[i].name
    BY <1>1, <1>4 DEF OwnersInv
  <2>2. globals[i].name \in Offers[cur]
    BY <1>1, <2>1 DEF Offers
  <2>. QED
    BY <1>4, <2>2 DEF Pair
<1>5. ASSUME NEW s \in {cur} \X Offers[cur]
      PROVE  \E i \in DOMAIN globals : s = Pair(globals[i])
  <2>1. s = <<cur, s[2]>> /\ s[2] \in Offers[cur]
    BY <1>5
  <2>2. Format[cur] = "elf" /\ \E k \in DOMAIN Exports[cur] : Exports[cur][k].name = s[2]
    BY <1>1, <2>1 DEF Offers
  <2>3. PICK i \in DOMAIN globals : globals[i].owner = cur /\ globals[i].name = s[2]
    BY <1>1, <2>2 DEF ExportsInv
  <2>. QED
    BY <2>1, <2>3 DEF Pair
<1>6. \A s : s \in Seen' <=> s \in Seen \/ s \in {cur} \X Offers[cur]
  BY <1>2, <1>3, <1>4, <1>5
<1>. QED
  BY <1>1, <1>6 DEF Loaded

LEMMA QuietMaps ==
  ASSUME Inv, Inv', Quiet, ~LoadDone
  PROVE  Loaded' = Loaded /\ Seen' = Seen
<1>1. /\ UNCHANGED <<listed, globals, cur>> /\ phase # "idle"
  BY DEF Quiet
<1>2. phase' # "idle"
  BY <1>1 DEF Inv, TypeOK
<1>. QED
  BY <1>1, <1>2, SeenKept DEF Loaded

LEMMA StepMaps ==
  ASSUME Inv, Inv', [Next]_vars
  PROVE  [AllOrNothing!StoreNext]_(AllOrNothing!storeVars)
<1>1. ASSUME NEW f \in Files, Start(f) PROVE UNCHANGED AllOrNothing!storeVars
  BY <1>1, StartMaps, Mapped
<1>2. ASSUME NEW f \in Files, Unload(f) PROVE AllOrNothing!StoreNext
  <2>1. Frees(f) /\ phase = "idle" /\ f \in listed
    BY <1>2, FreeingSteps DEF Unload, Inv
  <2>2. f \in Loaded
    BY <2>1 DEF Loaded
  <2>. QED
    BY <2>1, <2>2, FreesMaps, Mapped
<1>3. CASE NoName \/ NotFoundFree \/ OpenFails \/ LoadFails
  <2>1. Frees(cur)
    BY <1>3, FreeingSteps DEF Inv
  <2>2. Loaded' = Loaded /\ Seen' = Seen
    <3>1. \A f : Frees(f) /\ f = cur => Loaded' = Loaded /\ Seen' = Seen
      BY FreesMaps
    <3>. QED
      BY <2>1, <3>1
  <2>. QED
    BY <2>2, Mapped
<1>4. CASE FileFound
  <2>1. /\ listed' = listed \union {cur} /\ UNCHANGED <<cur, globals>>
        /\ phase = "find" /\ phase' = "open" /\ cur \notin listed
    BY <1>4 DEF FileFound, Enter, Inv, PhaseInv
  <2>. QED
    BY <2>1, SeenKept, Mapped DEF Loaded
<1>5. CASE ElfFill
  BY <1>5, FillMaps, Mapped
<1>6. CASE BaseAdd
  BY <1>6, BaseMaps, Mapped
<1>7. CASE LoadDone
  BY <1>7, DoneMaps, Mapped
<1>8. CASE Quiet
  BY <1>7, <1>8, QuietMaps, Mapped
<1>9. CASE UNCHANGED vars
  <2>1. Loaded' = Loaded /\ Seen' = Seen
    BY <1>9 DEF vars, Loaded, Seen, Pair, Outside
  <2>. QED
    BY <2>1, Mapped
<1>. QED
  BY <1>1, <1>2, <1>3, <1>4, <1>5, <1>6, <1>8, <1>9, QuietSteps DEF Inv

\* A load that fails at any step never was, seen from outside: all loads and
\* unloads, for every set of files, implement ObjectStore.
THEOREM LoadIsAllOrNothing == Spec => ImplementsObjectStore
<1>1. Init => AllOrNothing!StoreInit
  BY DEF Init, AllOrNothing!StoreInit
<1>. QED
  BY <1>1, StepMaps, ObjLoadInvariance, PTL
     DEF Spec, ImplementsObjectStore, AllOrNothing!StoreSpec
=============================================================================
