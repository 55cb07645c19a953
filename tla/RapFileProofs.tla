---------------------------- MODULE RapFileProofs ----------------------------
(***************************************************************************)
(* Proofs about RapFile and FastLZ, for any files, blocks, cuts, lengths   *)
(* of words and widths of fields.                                          *)
(*                                                                         *)
(* The loader is always at a field of the file it loads.  The stream of a  *)
(* file is the fields that remain at some place, behind those that remain  *)
(* there no longer; each step of the loader is shown to ask for the first  *)
(* field of what remains where it stands.                                  *)
(*                                                                         *)
(* A packed block comes back as it was.  Packing leaves a chain of items,  *)
(* each of which stands for the bytes behind those of the items before it; *)
(* unpacking goes from one item of the chain to the next.                  *)
(***************************************************************************)
EXTENDS RapFile, FastLZ, SequenceTheorems, WellFoundedInduction, TLAPS

-----------------------------------------------------------------------------
(* Induction, and functions that are defined by recursion, for sets and functions. *)

LEMMA Smallest ==
  ASSUME NEW S, S \subseteq Nat, S # {}
  PROVE  \E x \in S : \A y \in S : x <= y
<1>. DEFINE R == {p \in Nat \X Nat : p[1] < p[2]}
<1>1. IsWellFoundedOn(R, Nat)
  BY NatLessThanWellFounded DEF OpToRel
<1>2. PICK x \in S : \A y \in S : ~ (<<y, x>> \in R)
  BY <1>1, WFMin
<1>3. ASSUME NEW y \in S PROVE x <= y
  <2>1. x \in Nat /\ y \in Nat /\ ~ (y < x)
    BY <1>2
  <2>. QED
    BY <2>1
<1>. QED
  BY <1>3

LEMMA Induction ==
  ASSUME NEW n \in Nat, NEW G, 0 \in G,
         \A k \in 1 .. n : k - 1 \in G => k \in G
  PROVE  \A k \in 0 .. n : k \in G
<1>. DEFINE Bad == {k \in 0 .. n : k \notin G}
<1>1. SUFFICES ASSUME Bad # {} PROVE FALSE
  OBVIOUS
<1>2. Bad \subseteq Nat
  OBVIOUS
<1>. HIDE DEF Bad
<1>3. PICK k \in Bad : \A m \in Bad : k <= m
  BY <1>1, <1>2, Smallest
<1>. USE DEF Bad
<1>4. k \in 1 .. n /\ k - 1 \in 0 .. n /\ ~ (k <= k - 1)
  BY <1>3
<1>5. k - 1 \in Bad
  BY <1>3, <1>4
<1>. QED
  BY <1>3, <1>4, <1>5

Iterates(f, n, s, F) == f[0] = s /\ \A i \in 1 .. n : f[i] = F[<<i, f[i - 1]>>]

LEMMA Recursion ==
  ASSUME NEW n \in Nat, NEW S, NEW s \in S, NEW F \in [(1 .. n) \X S -> S]
  PROVE  \E f \in [0 .. n -> S] : Iterates(f, n, s, F)
<1>. DEFINE Is(f, m) == \A i \in 0 .. m : f[i] = IF i = 0 THEN s ELSE F[<<i, f[i - 1]>>]
            G == {m \in 0 .. n : \E f \in [0 .. m -> S] : Is(f, m)}
<1>1. 0 \in G
  <2>. DEFINE f == [i \in 0 .. 0 |-> s]
  <2>1. f \in [0 .. 0 -> S] /\ Is(f, 0)
    OBVIOUS
  <2>. HIDE DEF f
  <2>. QED
    BY <2>1
<1>2. ASSUME NEW m \in 1 .. n, m - 1 \in G PROVE m \in G
  <2>1. PICK f \in [0 .. m - 1 -> S] : Is(f, m - 1)
    BY <1>2
  <2>. DEFINE x == F[<<m, f[m - 1]>>]
  <2>2. f[m - 1] \in S /\ x \in S
    OBVIOUS
  <2>. DEFINE g == [i \in 0 .. m |-> IF i = m THEN x ELSE f[i]]
  <2>. HIDE DEF x
  <2>3. g \in [0 .. m -> S]
    BY <2>2
  <2>4. ASSUME NEW i \in 0 .. m PROVE g[i] = IF i = 0 THEN s ELSE F[<<i, g[i - 1]>>]
    <3>1. CASE i = m
      <4>1. g[i] = x /\ g[i - 1] = f[m - 1] /\ i # 0
        BY <3>1
      <4>. QED
        BY <3>1, <4>1 DEF x
    <3>2. CASE i # m
      <4>1. i \in 0 .. m - 1 /\ g[i] = f[i] /\ (i # 0 => g[i - 1] = f[i - 1])
        BY <3>2
      <4>2. f[i] = IF i = 0 THEN s ELSE F[<<i, f[i - 1]>>]
        BY <2>1, <4>1
      <4>. HIDE DEF g
      <4>. QED
        BY <4>1, <4>2
    <3>. QED
      BY <3>1, <3>2
  <2>. HIDE DEF g
  <2>. QED
    BY <2>3, <2>4
<1>. HIDE DEF G
<1>3. n \in G
  BY <1>1, <1>2, Induction
<1>4. PICK f \in [0 .. n -> S] : Is(f, n)
  BY <1>3 DEF G
<1>5. ASSUME NEW i \in 0 .. n PROVE f[i] = IF i = 0 THEN s ELSE F[<<i, f[i - 1]>>]
  BY <1>4
<1>. HIDE DEF Is
<1>6. 0 \in 0 .. n /\ \A i \in 1 .. n : i \in 0 .. n /\ i # 0
  OBVIOUS
<1>7. f[0] = s /\ \A i \in 1 .. n : f[i] = F[<<i, f[i - 1]>>]
  BY <1>5, <1>6
<1>. QED
  BY <1>7 DEF Iterates

\* The same, as the equation that such a function is defined by.
Recursive(f, n, s, F, S) ==
  /\ f = [i \in 0 .. n |-> IF i = 0 THEN s ELSE F[<<i, f[i - 1]>>]]
  /\ f[0] = s /\ \A i \in 1 .. n : f[i] = F[<<i, f[i - 1]>>] /\ f[i - 1] \in S

LEMMA RecursiveFunction ==
  ASSUME NEW n \in Nat, NEW S, NEW s \in S, NEW F \in [(1 .. n) \X S -> S]
  PROVE  \E f \in [0 .. n -> S] : Recursive(f, n, s, F, S)
<1>1. PICK f \in [0 .. n -> S] : Iterates(f, n, s, F)
  BY Recursion
<1>2. f[0] = s /\ \A i \in 1 .. n : f[i] = F[<<i, f[i - 1]>>]
  BY <1>1 DEF Iterates
<1>3. \A i \in 1 .. n : f[i - 1] \in S
  BY <1>1
<1>4. \A i \in 0 .. n : f[i] = IF i = 0 THEN s ELSE F[<<i, f[i - 1]>>]
  <2>1. \A i \in 0 .. n : i # 0 => i \in 1 .. n
    OBVIOUS
  <2>. QED
    BY <1>2, <2>1
<1>5. f = [i \in 0 .. n |-> f[i]]
  BY <1>1
<1>6. f = [i \in 0 .. n |-> IF i = 0 THEN s ELSE F[<<i, f[i - 1]>>]]
  BY <1>4, <1>5
<1>. QED
  BY <1>2, <1>3, <1>6 DEF Recursive


-----------------------------------------------------------------------------
(* Sequences, of whatever they are. *)

IsSeq(s) == s \in Seq(Range(s))

LEMMA SeqHas ==
  ASSUME NEW s, IsSeq(s)
  PROVE  /\ Len(s) \in Nat /\ DOMAIN s = 1 .. Len(s) /\ s = [i \in 1 .. Len(s) |-> s[i]]
         /\ \A i \in 1 .. Len(s) : s[i] \in Range(s)
BY DEF IsSeq

LEMMA SeqOver ==
  ASSUME NEW S, NEW s \in Seq(S)
  PROVE  IsSeq(s)
BY SeqOfRange DEF IsSeq

LEMMA SameSeq ==
  ASSUME NEW s, NEW t, IsSeq(s), IsSeq(t), Len(s) = Len(t), \A i \in 1 .. Len(s) : s[i] = t[i]
  PROVE  s = t
<1>. DEFINE S == Range(s) \union Range(t)
<1>1. s \in Seq(S) /\ t \in Seq(S)
  BY SeqMonotonic DEF IsSeq
<1>. HIDE DEF S
<1>. QED
  BY <1>1, SeqEqual

LEMMA MadeSeq ==
  ASSUME NEW n \in Nat, NEW f, DOMAIN f = 1 .. n, f = [i \in 1 .. n |-> f[i]]
  PROVE  IsSeq(f) /\ Len(f) = n
<1>1. Range(f) = {f[i] : i \in 1 .. n}
  BY DEF Range
<1>2. f \in [1 .. n -> Range(f)]
  BY <1>1
<1>3. f \in Seq(Range(f))
  BY <1>2, SeqDef
<1>. QED
  BY <1>2, <1>3 DEF IsSeq

LEMMA NoSeq == IsSeq(<<>>) /\ Len(<<>>) = 0 /\ Range(<<>>) = {}
<1>1. <<>> \in Seq({})
  BY EmptySeq
<1>2. Range(<<>>) \in SUBSET {}
  BY <1>1, RangeOfSeq
<1>. QED
  BY <1>1, <1>2, SeqOver, EmptySeq

LEMMA OneSeq ==
  ASSUME NEW x
  PROVE  IsSeq(<<x>>) /\ Len(<<x>>) = 1 /\ <<x>>[1] = x /\ Range(<<x>>) = {x}
<1>1. <<x>> \in Seq({x})
  OBVIOUS
<1>2. Len(<<x>>) = 1 /\ <<x>>[1] = x
  OBVIOUS
<1>3. DOMAIN <<x>> = {1}
  BY <1>1
<1>. QED
  BY <1>1, <1>2, <1>3, SeqOver DEF Range

LEMMA Joined ==
  ASSUME NEW s, NEW t, IsSeq(s), IsSeq(t)
  PROVE  /\ IsSeq(s \o t) /\ Len(s \o t) = Len(s) + Len(t)
         /\ \A i \in 1 .. Len(s) : (s \o t)[i] = s[i]
         /\ \A i \in 1 .. Len(t) : (s \o t)[Len(s) + i] = t[i]
         /\ Range(s \o t) = Range(s) \union Range(t)
<1>. DEFINE S == Range(s) \union Range(t)
<1>1. s \in Seq(S) /\ t \in Seq(S) /\ Len(s) \in Nat /\ Len(t) \in Nat
  BY SeqMonotonic, SeqHas DEF IsSeq
<1>2. /\ s \o t \in Seq(S)
      /\ Len(s \o t) = Len(s) + Len(t)
      /\ \A i \in 1 .. Len(s) + Len(t) : (s \o t)[i] =
                     IF i <= Len(s) THEN s[i] ELSE t[i - Len(s)]
  BY <1>1, ConcatProperties
<1>3. ASSUME NEW i \in 1 .. Len(s) PROVE (s \o t)[i] = s[i]
  BY <1>1, <1>2
<1>4. ASSUME NEW i \in 1 .. Len(t) PROVE (s \o t)[Len(s) + i] = t[i]
  <2>1. Len(s) + i \in 1 .. Len(s) + Len(t) /\ ~ (Len(s) + i <= Len(s)) /\ (Len(s) + i) - Len(s) = i
    BY <1>1
  <2>. QED
    BY <1>2, <2>1
<1>. QED
  <2>1. Range(s \o t) = Range(s) \union Range(t)
    BY <1>1, RangeConcatenation
  <2>2. IsSeq(s \o t)
    BY <1>2, SeqOver
  <2>. QED
    BY <1>2, <1>3, <1>4, <2>1, <2>2

LEMMA JoinedToNone ==
  ASSUME NEW s, IsSeq(s)
  PROVE  <<>> \o s = s /\ s \o <<>> = s
BY ConcatEmptySeq DEF IsSeq

LEMMA PartOf ==
  ASSUME NEW s, IsSeq(s), NEW m \in 1 .. Len(s) + 1, NEW n \in m - 1 .. Len(s)
  PROVE  /\ IsSeq(SubSeq(s, m, n)) /\ Len(SubSeq(s, m, n)) = n - m + 1
         /\ \A i \in 1 .. n - m + 1 : SubSeq(s, m, n)[i] = s[m + i - 1]
<1>1. Len(s) \in Nat /\ \A i \in 1 .. Len(s) : s[i] \in Range(s)
  BY SeqHas
<1>2. m \in Int /\ n \in Int /\ \A i \in m .. n : s[i] \in Range(s)
  BY <1>1
<1>3. /\ SubSeq(s, m, n) \in Seq(Range(s))
      /\ Len(SubSeq(s, m, n)) = IF m <= n THEN n - m + 1 ELSE 0
      /\ \A i \in 1 .. n - m + 1 : SubSeq(s, m, n)[i] = s[m + i - 1]
  BY <1>2, SubSeqProperties
<1>4. n - m + 1 = IF m <= n THEN n - m + 1 ELSE 0
  BY <1>1
<1>. QED
  BY <1>3, <1>4, SeqOver

\* The rest of a sequence has a first element and a rest.
LEMMA RestOf ==
  ASSUME NEW s, IsSeq(s), NEW m \in 1 .. Len(s)
  PROVE  SubSeq(s, m, Len(s)) = <<s[m]>> \o SubSeq(s, m + 1, Len(s))
<1>1. Len(s) \in m .. Len(s)
  BY SeqHas
<1>. QED
  BY <1>1, SubSeqRecursiveFirst DEF IsSeq

\* What is equal to the rest of a sequence is so element by element, and the other
\* way round.
LEMMA RestEquals ==
  ASSUME NEW s, IsSeq(s), NEW t, IsSeq(t), NEW m \in 0 .. Len(s), m + Len(t) = Len(s)
  PROVE  SubSeq(s, m + 1, Len(s)) = t <=> \A i \in 1 .. Len(t) : s[m + i] = t[i]
<1>1. m + 1 \in 1 .. Len(s) + 1 /\ Len(s) \in (m + 1) - 1 .. Len(s) /\ Len(s) \in Nat /\ Len(t) \in Nat
  BY SeqHas
<1>2. /\ IsSeq(SubSeq(s, m + 1, Len(s))) /\ Len(SubSeq(s, m + 1, Len(s))) = Len(s) - (m + 1) + 1
      /\ \A i \in 1 .. Len(s) - (m + 1) + 1 : SubSeq(s, m + 1, Len(s))[i] = s[(m + 1) + i - 1]
  BY <1>1, PartOf
<1>3. Len(s) - (m + 1) + 1 = Len(t) /\ \A i \in 1 .. Len(t) : (m + 1) + i - 1 = m + i
  BY <1>1
<1>4. \A i \in 1 .. Len(t) : SubSeq(s, m + 1, Len(s))[i] = s[m + i]
  BY <1>2, <1>3
<1>5. (\A i \in 1 .. Len(t) : s[m + i] = t[i]) => SubSeq(s, m + 1, Len(s)) = t
  BY <1>2, <1>3, <1>4, SameSeq
<1>. QED
  BY <1>4, <1>5

-----------------------------------------------------------------------------
(* Sequences one behind the other. *)

\* From the i-th on.
From(seqs, i) == LastOf(seqs)[Len(seqs) + 1 - i]

AllSeqs(seqs) == IsSeq(seqs) /\ \A i \in 1 .. Len(seqs) : IsSeq(seqs[i])

LEMMA LastOfIs ==
  ASSUME NEW seqs, AllSeqs(seqs)
  PROVE  /\ LastOf(seqs)[0] = <<>>
         /\ \A n \in 1 .. Len(seqs) :
              /\ LastOf(seqs)[n] = seqs[Len(seqs) + 1 - n] \o LastOf(seqs)[n - 1]
              /\ IsSeq(LastOf(seqs)[n - 1])
         /\ IsSeq(LastOf(seqs)[Len(seqs)])
<1>. DEFINE n == Len(seqs)
            S == Seq(UNION {Range(seqs[i]) : i \in 1 .. n})
            G(i, x) == seqs[n + 1 - i] \o x
            F == [p \in (1 .. n) \X S |-> G(p[1], p[2])]
            last == LastOf(seqs)
<1>1. n \in Nat
  BY SeqHas DEF AllSeqs
<1>2. \A i \in 1 .. n : seqs[n + 1 - i] \in S
  <2>1. ASSUME NEW j \in 1 .. n PROVE seqs[j] \in S
    <3>1. seqs[j] \in Seq(Range(seqs[j])) /\ Range(seqs[j]) \subseteq UNION {Range(seqs[i]) : i \in 1 .. n}
      BY DEF AllSeqs, IsSeq
    <3>. QED
      BY <3>1, SeqMonotonic
  <2>2. \A i \in 1 .. n : n + 1 - i \in 1 .. n
    BY <1>1
  <2>. HIDE DEF S
  <2>. QED
    BY <2>1, <2>2
<1>3. \A s, t \in S : s \o t \in S
  BY ConcatProperties
<1>4. <<>> \in S
  BY EmptySeq
<1>5. \A x \in S : IsSeq(x)
  BY SeqOver
<1>. HIDE DEF S
<1>6. F \in [(1 .. n) \X S -> S]
  <2>1. ASSUME NEW p \in (1 .. n) \X S PROVE G(p[1], p[2]) \in S
    BY <1>2, <1>3
  <2>. HIDE DEF G
  <2>. QED
    BY <2>1
<1>7. PICK f \in [0 .. n -> S] : Recursive(f, n, <<>>, F, S)
  BY <1>1, <1>4, <1>6, RecursiveFunction
<1>8. \A i \in 1 .. n : f[i] = F[<<i, f[i - 1]>>] /\ f[i - 1] \in S
  BY <1>7 DEF Recursive
<1>9. \A i \in 1 .. n : F[<<i, f[i - 1]>>] = seqs[n + 1 - i] \o f[i - 1]
  BY <1>8
<1>10. f = [i \in 0 .. n |-> IF i = 0 THEN <<>> ELSE seqs[n + 1 - i] \o f[i - 1]]
  <2>1. \A i \in 0 .. n : i # 0 => i \in 1 .. n
    BY <1>1
  <2>2. f = [i \in 0 .. n |-> IF i = 0 THEN <<>> ELSE F[<<i, f[i - 1]>>]]
    BY <1>7 DEF Recursive
  <2>. HIDE DEF F
  <2>. QED
    BY <1>9, <2>1, <2>2
<1>. HIDE DEF F, G
<1>11. last = CHOOSE g : g = [i \in 0 .. n |-> IF i = 0 THEN <<>> ELSE seqs[n + 1 - i] \o g[i - 1]]
  BY DEF LastOf
<1>12. last = [i \in 0 .. n |-> IF i = 0 THEN <<>> ELSE seqs[n + 1 - i] \o last[i - 1]]
  BY <1>10, <1>11
<1>. HIDE DEF last
<1>13. last[0] = <<>> /\ \A i \in 1 .. n : last[i] = seqs[n + 1 - i] \o last[i - 1]
  <2>1. 0 \in 0 .. n /\ \A i \in 1 .. n : i \in 0 .. n /\ i # 0
    BY <1>1
  <2>. QED
    BY <1>12, <2>1
<1>14. \A i \in 0 .. n : last[i] \in S
  <2>. DEFINE Good == {i \in 0 .. n : last[i] \in S}
  <2>1. 0 \in Good
    BY <1>1, <1>4, <1>13
  <2>2. ASSUME NEW k \in 1 .. n, k - 1 \in Good PROVE k \in Good
    <3>1. k \in 0 .. n /\ last[k - 1] \in S
      BY <1>1, <2>2
    <3>2. seqs[n + 1 - k] \o last[k - 1] \in S
      BY <1>2, <1>3, <3>1
    <3>. QED
      BY <1>13, <3>1, <3>2
  <2>. HIDE DEF Good
  <2>3. \A i \in 0 .. n : i \in Good
    BY <1>1, <2>1, <2>2, Induction
  <2>. QED
    BY <2>3 DEF Good
<1>15. \A i \in 1 .. n : i - 1 \in 0 .. n
  BY <1>1
<1>16. n \in 0 .. n
  BY <1>1
<1>. QED
  BY <1>5, <1>13, <1>14, <1>15, <1>16 DEF last

LEMMA FromIs ==
  ASSUME NEW seqs, AllSeqs(seqs)
  PROVE  /\ Len(seqs) \in Nat
         /\ Concat(seqs) = From(seqs, 1) /\ From(seqs, Len(seqs) + 1) = <<>>
         /\ \A i \in 1 .. Len(seqs) : From(seqs, i) = seqs[i] \o From(seqs, i + 1)
         /\ \A i \in 1 .. Len(seqs) + 1 : IsSeq(From(seqs, i))
<1>. DEFINE n == Len(seqs)
<1>1. n \in Nat
  BY SeqHas DEF AllSeqs
<1>2. n + 1 - 1 = n /\ n + 1 - (n + 1) = 0
  BY <1>1
<1>3. ASSUME NEW i \in 1 .. n PROVE From(seqs, i) = seqs[i] \o From(seqs, i + 1)
  <2>1. n + 1 - i \in 1 .. n /\ n + 1 - (n + 1 - i) = i /\ (n + 1 - i) - 1 = n + 1 - (i + 1)
    BY <1>1
  <2>. HIDE DEF n
  <2>2. LastOf(seqs)[n + 1 - i] = seqs[n + 1 - (n + 1 - i)] \o LastOf(seqs)[(n + 1 - i) - 1]
    BY <2>1, LastOfIs DEF n
  <2>. QED
    BY <2>1, <2>2 DEF From, n
<1>4. ASSUME NEW i \in 1 .. n + 1 PROVE IsSeq(From(seqs, i))
  <2>1. CASE i = 1
    BY <1>2, <2>1, LastOfIs DEF From
  <2>2. CASE i # 1
    <3>1. n + 2 - i \in 1 .. n /\ (n + 2 - i) - 1 = n + 1 - i
      BY <1>1, <2>2
    <3>2. IsSeq(LastOf(seqs)[(n + 2 - i) - 1])
      BY <3>1, LastOfIs
    <3>. QED
      BY <3>1, <3>2 DEF From
  <2>. QED
    BY <2>1, <2>2
<1>. QED
  BY <1>1, <1>2, <1>3, <1>4, LastOfIs DEF From, Concat

\* The same, for hidden definitions.
Join(s, t) ==
  /\ IsSeq(s \o t) /\ Len(s \o t) = Len(s) + Len(t)
  /\ \A i \in 1 .. Len(s) : (s \o t)[i] = s[i]
  /\ \A i \in 1 .. Len(t) : (s \o t)[Len(s) + i] = t[i]
  /\ Range(s \o t) = Range(s) \union Range(t)

LEMMA Joins == \A s, t : IsSeq(s) /\ IsSeq(t) => Join(s, t)
BY Joined DEF Join

LEMMA TwoSeq ==
  ASSUME NEW a, NEW b
  PROVE  /\ <<a, b>> = <<a>> \o <<b>> /\ IsSeq(<<a, b>>)
<1>. DEFINE s == <<a, b>>
            t == <<a>> \o <<b>>
<1>1. s \in Seq({a, b}) /\ Len(s) = 2 /\ s[1] = a /\ s[2] = b
  OBVIOUS
<1>2. IsSeq(t) /\ Len(t) = 2 /\ t[1] = a /\ t[2] = b
  <2>. DEFINE x == <<a>>
              y == <<b>>
  <2>1. IsSeq(x) /\ IsSeq(y) /\ Len(x) = 1 /\ Len(y) = 1 /\ x[1] = a /\ y[1] = b
    BY OneSeq
  <2>. HIDE DEF x, y
  <2>2. /\ IsSeq(x \o y) /\ Len(x \o y) = Len(x) + Len(y)
        /\ \A i \in 1 .. Len(x) : (x \o y)[i] = x[i]
        /\ \A i \in 1 .. Len(y) : (x \o y)[Len(x) + i] = y[i]
    <3>1. Join(x, y)
      BY <2>1, Joins
    <3>. QED
      BY <3>1 DEF Join
  <2>3. IsSeq(x \o y) /\ Len(x \o y) = 2 /\ (x \o y)[1] = a /\ (x \o y)[2] = b
    BY <2>1, <2>2
  <2>. QED
    BY <2>3 DEF x, y
<1>3. IsSeq(s)
  BY <1>1, SeqOver
<1>. HIDE DEF s, t
<1>4. s = t
  BY <1>1, <1>2, <1>3, SameSeq
<1>. QED
  BY <1>3, <1>4 DEF s, t

LEMMA ThreeSeq ==
  ASSUME NEW a, NEW b, NEW c
  PROVE  /\ <<a, b, c>> = <<a>> \o (<<b>> \o <<c>>) /\ IsSeq(<<a, b, c>>)
<1>. DEFINE s == <<a, b, c>>
            y == <<b, c>>
            t == <<a>> \o y
<1>1. s \in Seq({a, b, c}) /\ Len(s) = 3 /\ s[1] = a /\ s[2] = b /\ s[3] = c
  OBVIOUS
<1>2. IsSeq(t) /\ Len(t) = 3 /\ t[1] = a /\ t[2] = b /\ t[3] = c
  <2>. DEFINE x == <<a>>
  <2>1. IsSeq(x) /\ Len(x) = 1 /\ x[1] = a
    BY OneSeq
  <2>2. IsSeq(y) /\ Len(y) = 2 /\ y[1] = b /\ y[2] = c
    BY TwoSeq
  <2>. HIDE DEF x, y
  <2>3. /\ IsSeq(x \o y) /\ Len(x \o y) = Len(x) + Len(y)
        /\ \A i \in 1 .. Len(x) : (x \o y)[i] = x[i]
        /\ \A i \in 1 .. Len(y) : (x \o y)[Len(x) + i] = y[i]
    <3>1. Join(x, y)
      BY <2>1, <2>2, Joins
    <3>. QED
      BY <3>1 DEF Join
  <2>4. IsSeq(x \o y) /\ Len(x \o y) = 3 /\ (x \o y)[1] = a /\ (x \o y)[2] = b /\ (x \o y)[3] = c
    BY <2>1, <2>2, <2>3
  <2>. QED
    BY <2>4 DEF x
<1>3. IsSeq(s)
  BY <1>1, SeqOver
<1>. HIDE DEF s, t
<1>4. s = t
  BY <1>1, <1>2, <1>3, SameSeq
<1>. QED
  BY <1>3, <1>4, TwoSeq DEF s, t

-----------------------------------------------------------------------------
(* The sections whose contents are in the file: each is there once. *)

RapSizesOf(sizes) == RapSections([i \in 1 .. 6 |-> [size |-> sizes[i], alignment |-> 0]])

\* Sections of a region up to the i-th, in order.
InOrder(s, mask, i) ==
  /\ IsSeq(s)
  /\ \A a \in 1 .. Len(s) : s[a] \in 1 .. i /\ mask \in RapFlags[s[a]]
  /\ \A a, b \in 1 .. Len(s) : a < b => s[a] < s[b]

LEMMA FlagsOfRap ==
  ASSUME NEW sizes, NEW i \in 1 .. 6
  PROVE  RapSizesOf(sizes)[i].flags = RapFlags[i]
BY DEF RapSizesOf, RapSections, Sect

LEMMA InRegionIs ==
  ASSUME NEW sizes \in [1 .. 6 -> Nat], NEW mask
  PROVE  InOrder(InRegionOf(sizes, mask), mask, 6)
<1>. DEFINE Is(i) == sizes[i] > 0 /\ {mask, "LOAD"} \subseteq RapSizesOf(sizes)[i].flags
            G(i, x) == IF Is(i) THEN Append(x, i) ELSE x
            S == Seq(1 .. 6)
            F == [p \in (1 .. 6) \X S |-> G(p[1], p[2])]
<1>1. F \in [(1 .. 6) \X S -> S]
  <2>1. ASSUME NEW p \in (1 .. 6) \X S PROVE G(p[1], p[2]) \in S
    <3>1. p[1] \in 1 .. 6 /\ p[2] \in S
      OBVIOUS
    <3>. HIDE DEF Is
    <3>2. Append(p[2], p[1]) \in S
      BY <3>1, AppendProperties
    <3>. QED
      BY <3>1, <3>2
  <2>. HIDE DEF G, S
  <2>. QED
    BY <2>1
<1>2. <<>> \in S
  BY EmptySeq
<1>3. PICK f \in [0 .. 6 -> S] : Recursive(f, 6, <<>>, F, S)
  BY <1>1, <1>2, RecursiveFunction
<1>. HIDE DEF S
<1>4. \A i \in 1 .. 6 : f[i] = F[<<i, f[i - 1]>>] /\ f[i - 1] \in S
  BY <1>3 DEF Recursive
<1>5. \A i \in 1 .. 6 : F[<<i, f[i - 1]>>] = G(i, f[i - 1])
  BY <1>4
<1>. HIDE DEF F, G
<1>6. f = [i \in 0 .. 6 |-> IF i = 0 THEN <<>> ELSE G(i, f[i - 1])]
  <2>1. \A i \in 0 .. 6 : i # 0 => i \in 1 .. 6
    OBVIOUS
  <2>2. f = [i \in 0 .. 6 |-> IF i = 0 THEN <<>> ELSE F[<<i, f[i - 1]>>]]
    BY <1>3 DEF Recursive
  <2>. QED
    BY <1>5, <2>1, <2>2
<1>. DEFINE picked == CHOOSE g : g = [i \in 0 .. 6 |-> IF i = 0 THEN <<>> ELSE G(i, g[i - 1])]
<1>7. picked = [i \in 0 .. 6 |-> IF i = 0 THEN <<>> ELSE G(i, picked[i - 1])]
  BY <1>6
<1>8. InRegionOf(sizes, mask) = picked[6]
  BY DEF InRegionOf, picked, G, RapSizesOf
<1>. HIDE DEF picked
<1>9. picked[0] = <<>> /\ \A i \in 1 .. 6 : picked[i] = G(i, picked[i - 1])
  <2>1. 0 \in 0 .. 6 /\ \A i \in 1 .. 6 : i \in 0 .. 6 /\ i # 0
    OBVIOUS
  <2>. QED
    BY <1>7, <2>1
<1>. DEFINE Good == {i \in 0 .. 6 : InOrder(picked[i], mask, i)}
<1>10. 0 \in Good
  BY <1>9, NoSeq DEF InOrder
<1>11. ASSUME NEW i \in 1 .. 6, i - 1 \in Good PROVE i \in Good
  <2>. DEFINE x == picked[i - 1]
  <2>1. InOrder(x, mask, i - 1)
    BY <1>11
  <2>2. picked[i] = G(i, x)
    BY <1>9
  <2>. HIDE DEF x
  <2>3. Len(x) \in Nat /\ IsSeq(x)
    BY <2>1, SeqHas DEF InOrder
  <2>4. \A a \in 1 .. Len(x) : x[a] \in 1 .. i - 1 /\ mask \in RapFlags[x[a]]
    BY <2>1 DEF InOrder
  <2>5. \A a, b \in 1 .. Len(x) : a < b => x[a] < x[b]
    BY <2>1 DEF InOrder
  <2>6. CASE Is(i)
    <3>1. picked[i] = Append(x, i)
      BY <2>2, <2>6 DEF G
    <3>2. mask \in RapFlags[i]
      BY <2>6, FlagsOfRap
    <3>3. x \in Seq(1 .. 6)
      <4>1. x \in Seq(Range(x)) /\ Range(x) = {x[a] : a \in 1 .. Len(x)}
        BY <2>3, SeqHas DEF IsSeq, Range
      <4>2. ASSUME NEW a \in 1 .. Len(x) PROVE x[a] \in 1 .. 6
        <5>1. x[a] \in 1 .. i - 1 /\ i \in 1 .. 6
          BY <2>4
        <5>. QED
          BY <5>1, SMTT(30)
      <4>3. Range(x) \subseteq 1 .. 6
        BY <4>1, <4>2
      <4>. QED
        BY <4>1, <4>3, SeqMonotonic
    <3>. DEFINE y == Append(x, i)
    <3>4. /\ y \in Seq(1 .. 6) /\ Len(y) = Len(x) + 1 /\ y[Len(x) + 1] = i
          /\ \A a \in 1 .. Len(x) : y[a] = x[a]
      BY <3>3, AppendProperties
    <3>. HIDE DEF y
    <3>5. ASSUME NEW a \in 1 .. Len(y) PROVE y[a] \in 1 .. i /\ mask \in RapFlags[y[a]]
      <4>1. CASE a = Len(x) + 1
        BY <3>2, <3>4, <4>1
      <4>2. CASE a # Len(x) + 1
        <5>1. a \in 1 .. Len(x) /\ y[a] = x[a]
          BY <2>3, <3>4, <4>2, SMTT(30)
        <5>2. x[a] \in 1 .. i - 1 /\ mask \in RapFlags[x[a]]
          BY <2>4, <5>1
        <5>. QED
          BY <5>1, <5>2, SMTT(30)
      <4>. QED
        BY <4>1, <4>2
    <3>6. ASSUME NEW a \in 1 .. Len(y), NEW b \in 1 .. Len(y), a < b PROVE y[a] < y[b]
      <4>1. a \in 1 .. Len(x) /\ y[a] = x[a] /\ x[a] \in 1 .. i - 1
        BY <2>3, <2>4, <3>4, <3>6, SMTT(30)
      <4>2. CASE b = Len(x) + 1
        <5>1. y[b] = i
          BY <3>4, <4>2
        <5>2. \A v \in 1 .. i - 1 : v < i
          OBVIOUS
        <5>. QED
          BY <4>1, <5>1, <5>2, Zenon
      <4>3. CASE b # Len(x) + 1
        <5>1. b \in 1 .. Len(x) /\ y[b] = x[b]
          BY <2>3, <3>4, <4>3, SMTT(30)
        <5>. QED
          BY <2>5, <3>6, <4>1, <5>1
      <4>. QED
        BY <4>2, <4>3
    <3>7. InOrder(y, mask, i)
      BY <3>4, <3>5, <3>6, SeqOver DEF InOrder
    <3>8. InOrder(picked[i], mask, i)
      BY <3>1, <3>7 DEF y
    <3>9. i \in 0 .. 6
      OBVIOUS
    <3>. QED
      BY <3>8, <3>9
  <2>7. CASE ~ Is(i)
    <3>1. picked[i] = x
      BY <2>2, <2>7 DEF G
    <3>2. \A a \in 1 .. Len(x) : x[a] \in 1 .. i
      BY <2>4, SMTT(30)
    <3>3. InOrder(x, mask, i)
      BY <2>3, <2>4, <2>5, <3>2 DEF InOrder
    <3>4. i \in 0 .. 6
      OBVIOUS
    <3>. QED
      BY <3>1, <3>3, <3>4
  <2>. QED
    BY <2>6, <2>7
<1>. HIDE DEF Good
<1>12. 6 \in Good
  BY <1>10, <1>11, Induction
<1>. QED
  BY <1>8, <1>12 DEF Good

\* Every section at most once.
Once(s) == /\ IsSeq(s) /\ \A a \in 1 .. Len(s) : s[a] \in 1 .. 6
           /\ \A a, b \in 1 .. Len(s) : s[a] = s[b] => a = b

LEMMA JoinedOnce ==
  ASSUME NEW s, NEW t, Once(s), Once(t), Range(s) \intersect Range(t) = {}
  PROVE  Once(s \o t)
<1>1. /\ IsSeq(s \o t) /\ Len(s \o t) = Len(s) + Len(t) /\ Len(s) \in Nat /\ Len(t) \in Nat
      /\ \A i \in 1 .. Len(s) : (s \o t)[i] = s[i]
      /\ \A i \in 1 .. Len(t) : (s \o t)[Len(s) + i] = t[i]
  BY Joined, SeqHas DEF Once
<1>2. \A i \in 1 .. Len(s), j \in 1 .. Len(t) : s[i] # t[j]
  BY SeqHas DEF Once
<1>3. ASSUME NEW a \in 1 .. Len(s) + Len(t)
      PROVE  a \in 1 .. Len(s) \/ \E j \in 1 .. Len(t) : a = Len(s) + j
  <2>1. a \in 1 .. Len(s) \/ (a - Len(s) \in 1 .. Len(t) /\ a = Len(s) + (a - Len(s)))
    BY <1>1
  <2>. QED
    BY <2>1
<1>. DEFINE u == s \o t
<1>4. /\ \A i \in 1 .. Len(s) : u[i] = s[i]
      /\ \A i \in 1 .. Len(t) : u[Len(s) + i] = t[i]
  BY <1>1
<1>5. /\ \A i \in 1 .. Len(s) : s[i] \in 1 .. 6
      /\ \A i \in 1 .. Len(t) : t[i] \in 1 .. 6
      /\ \A a, b \in 1 .. Len(s) : s[a] = s[b] => a = b
      /\ \A a, b \in 1 .. Len(t) : t[a] = t[b] => a = b
  BY DEF Once
<1>. HIDE DEF u
<1>6. ASSUME NEW a \in 1 .. Len(s) + Len(t) PROVE u[a] \in 1 .. 6
  <2>1. CASE a \in 1 .. Len(s)
    BY <1>4, <1>5, <2>1
  <2>2. CASE a \notin 1 .. Len(s)
    <3>1. PICK j \in 1 .. Len(t) : a = Len(s) + j
      BY <1>3, <2>2
    <3>. QED
      BY <1>4, <1>5, <3>1
  <2>. QED
    BY <2>1, <2>2
<1>7. ASSUME NEW a \in 1 .. Len(s) + Len(t), NEW b \in 1 .. Len(s) + Len(t), u[a] = u[b]
      PROVE  a = b
  <2>1. CASE a \in 1 .. Len(s) /\ b \in 1 .. Len(s)
    BY <1>4, <1>5, <1>7, <2>1
  <2>2. CASE a \in 1 .. Len(s) /\ b \notin 1 .. Len(s)
    BY <1>2, <1>3, <1>4, <1>7, <2>2, SMTT(30)
  <2>3. CASE a \notin 1 .. Len(s) /\ b \in 1 .. Len(s)
    BY <1>2, <1>3, <1>4, <1>7, <2>3, SMTT(30)
  <2>4. CASE a \notin 1 .. Len(s) /\ b \notin 1 .. Len(s)
    <3>1. PICK i \in 1 .. Len(t) : a = Len(s) + i
      BY <1>3, <2>4
    <3>2. PICK j \in 1 .. Len(t) : b = Len(s) + j
      BY <1>3, <2>4
    <3>. QED
      BY <1>4, <1>5, <1>7, <3>1, <3>2
  <2>. QED
    BY <2>1, <2>2, <2>3, <2>4
<1>. QED
  BY <1>1, <1>6, <1>7 DEF Once, u

LEMMA InOrderOnce ==
  ASSUME NEW s, NEW mask, InOrder(s, mask, 6)
  PROVE  Once(s) /\ \A x \in Range(s) : x \in 1 .. 6 /\ mask \in RapFlags[x]
<1>1. IsSeq(s) /\ Len(s) \in Nat /\ Range(s) = {s[a] : a \in 1 .. Len(s)}
  BY SeqHas DEF InOrder, Range
<1>2. ASSUME NEW a \in 1 .. Len(s), NEW b \in 1 .. Len(s), s[a] = s[b] PROVE a = b
  <2>1. s[a] \in 1 .. 6 /\ (a < b => s[a] < s[b]) /\ (b < a => s[b] < s[a])
    BY DEF InOrder
  <2>. QED
    BY <1>1, <1>2, <2>1
<1>. QED
  BY <1>1, <1>2 DEF InOrder, Once

LEMMA OrderOnce ==
  ASSUME NEW sizes \in [1 .. 6 -> Nat]
  PROVE  Once(LoadOrder(sizes))
<1>. DEFINE of(r) == InRegionOf(sizes, RegionFlags[r])
            seqs == [r \in 1 .. 4 |-> of(r)]
<1>1. \A r \in 1 .. 4 : Once(of(r)) /\ \A x \in Range(of(r)) : x \in 1 .. 6 /\ RegionFlags[r] \in RapFlags[x]
  BY InRegionIs, InOrderOnce
<1>2. AllSeqs(seqs) /\ Len(seqs) = 4 /\ \A r \in 1 .. 4 : seqs[r] = of(r)
  <2>1. IsSeq(seqs) /\ Len(seqs) = 4
    BY MadeSeq
  <2>. QED
    BY <1>1, <2>1 DEF AllSeqs, Once
<1>3. LoadOrder(sizes) = From(seqs, 1)
  BY <1>2, FromIs DEF LoadOrder
<1>4. ASSUME NEW r \in 1 .. 4, NEW q \in 1 .. 4, r # q
      PROVE  Range(of(r)) \intersect Range(of(q)) = {}
  <2>1. ASSUME NEW x \in 1 .. 6, RegionFlags[r] \in RapFlags[x], RegionFlags[q] \in RapFlags[x]
        PROVE  FALSE
    BY <1>4, <2>1 DEF RegionFlags, RapFlags
  <2>. HIDE DEF of
  <2>. QED
    BY <1>1, <2>1
<1>. HIDE DEF of
<1>5. /\ From(seqs, 5) = <<>>
      /\ \A i \in 1 .. 4 : From(seqs, i) = of(i) \o From(seqs, i + 1)
  <2>. HIDE DEF seqs
  <2>1. /\ From(seqs, Len(seqs) + 1) = <<>>
        /\ \A i \in 1 .. Len(seqs) : From(seqs, i) = seqs[i] \o From(seqs, i + 1)
    BY <1>2, FromIs
  <2>2. Len(seqs) = 4 /\ \A r \in 1 .. 4 : seqs[r] = of(r)
    BY <1>2
  <2>3. From(seqs, 5) = <<>>
    BY <2>1, <2>2
  <2>4. ASSUME NEW i \in 1 .. 4 PROVE From(seqs, i) = of(i) \o From(seqs, i + 1)
    <3>1. i \in 1 .. Len(seqs) /\ seqs[i] = of(i)
      BY <2>2
    <3>. QED
      BY <2>1, <3>1
  <2>. QED
    BY <2>3, <2>4
<1>. HIDE DEF seqs
<1>6. Once(From(seqs, 5)) /\ Range(From(seqs, 5)) = {}
  <2>1. From(seqs, 5) = <<>>
    BY <1>5
  <2>2. \A a \in 1 .. Len(<<>>) : FALSE
    BY NoSeq
  <2>3. Once(<<>>)
    BY <2>2, NoSeq, ZenonT(30) DEF Once
  <2>. QED
    BY <2>1, <2>3, NoSeq
<1>7. ASSUME NEW i \in 1 .. 4, Once(From(seqs, i + 1)),
             \A r \in 1 .. i : Range(of(r)) \intersect Range(From(seqs, i + 1)) = {}
      PROVE  Once(From(seqs, i)) /\ \A r \in 1 .. i - 1 : Range(of(r)) \intersect Range(From(seqs, i)) = {}
  <2>1. From(seqs, i) = of(i) \o From(seqs, i + 1) /\ Once(of(i))
    BY <1>1, <1>5
  <2>2. Range(From(seqs, i)) = Range(of(i)) \union Range(From(seqs, i + 1))
    BY <1>7, <2>1, Joined DEF Once
  <2>3. Once(From(seqs, i))
    BY <1>7, <2>1, JoinedOnce
  <2>4. \A r \in 1 .. i - 1 : r \in 1 .. i /\ r \in 1 .. 4 /\ r # i
    OBVIOUS
  <2>. QED
    BY <1>4, <1>7, <2>2, <2>3, <2>4
<1>8. Once(From(seqs, 4)) /\ \A r \in 1 .. 3 : Range(of(r)) \intersect Range(From(seqs, 4)) = {}
  BY <1>6, <1>7
<1>9. Once(From(seqs, 3)) /\ \A r \in 1 .. 2 : Range(of(r)) \intersect Range(From(seqs, 3)) = {}
  BY <1>7, <1>8
<1>10. Once(From(seqs, 2)) /\ \A r \in 1 .. 1 : Range(of(r)) \intersect Range(From(seqs, 2)) = {}
  BY <1>7, <1>9
<1>11. Once(From(seqs, 1))
  BY <1>7, <1>10
<1>. QED
  BY <1>3, <1>11

-----------------------------------------------------------------------------
(* What remains of the stream at each field, from that field on. *)

AfterSymbols(d)  == Concat(RelocsWords(d))
AfterStrtab(d)   == Concat(SymbolWords(d)) \o AfterSymbols(d)
AfterContents(d) == <<Bytes(<<"strtab", 0, 0>>, d.strtab)>> \o AfterStrtab(d)
AfterSections(d) == ContentWords(d) \o AfterContents(d)
AfterHeader(d)   == Concat(SectionWords(d)) \o AfterSections(d)

HeaderRest(d, n)    == SubSeq(HeaderWords(d), n, 8) \o AfterHeader(d)
SizeRest(d, s)      == From(SectionWords(d), s) \o AfterSections(d)
AlignmentRest(d, s) == <<Word(<<"alignment", s, 0>>, 0)>> \o SizeRest(d, s + 1)
ContentsRest(d, n)  == SubSeq(ContentWords(d), n, Len(ContentWords(d))) \o AfterContents(d)
DataRest(d, n)      == From(SymbolWords(d), n) \o AfterSymbols(d)
ValueRest(d, n)     == <<Word(<<"value", n, 0>>, 0)>> \o DataRest(d, n + 1)
SymNameRest(d, n)   == <<Word(<<"symname", n, 0>>, 0)>> \o ValueRest(d, n)
RelocsRest(d, s)    == From(RelocsWords(d), s)
InfoRest(d, s, r)   == From(RecordWords(d, s), r) \o RelocsRest(d, s + 1)

WithAddend(d, s, r) == d.relocs[s][r].sym = "section" \/ d.rela[s]
WithName(d, s, r)   == d.relocs[s][r].sym = "appended"
NameRest(d, s, r)   ==
  <<Bytes(<<"name", s, r>>, d.relocs[s][r].len)>> \o InfoRest(d, s, r + 1)
BehindAddend(d, s, r) == IF WithName(d, s, r) THEN NameRest(d, s, r) ELSE InfoRest(d, s, r + 1)
AddendRest(d, s, r) == <<Word(<<"addend", s, r>>, 0)>> \o BehindAddend(d, s, r)
BehindOffset(d, s, r) == IF WithAddend(d, s, r) THEN AddendRest(d, s, r) ELSE BehindAddend(d, s, r)
OffsetRest(d, s, r) == <<Word(<<"offset", s, r>>, 0)>> \o BehindOffset(d, s, r)

\* A field, and what is behind it.
Field(ws, w, rest) == ws = <<w>> \o rest /\ IsSeq(ws) /\ IsSeq(rest)

LEMMA PartsOfRecords ==
  ASSUME NEW d, IsDescription(d), NEW s \in 1 .. 6
  PROVE  /\ AllSeqs(RecordWords(d, s)) /\ Len(RecordWords(d, s)) = Len(d.relocs[s])
         /\ \A r \in 1 .. Len(d.relocs[s]) :
              RecordWords(d, s)[r] = RelocWords(s, r, d.rela[s], d.relocs[s][r])
<1>. DEFINE R == d.relocs[s]
            x == RecordWords(d, s)
<1>1. IsSeq(R) /\ Len(R) \in Nat /\ DOMAIN R = 1 .. Len(R)
  <2>1. IsSeq(R)
    BY DEF IsDescription, IsSeq
  <2>. QED
    BY <2>1, SeqHas
<1>2. x = [r \in 1 .. Len(R) |-> RelocWords(s, r, d.rela[s], R[r])]
  BY <1>1 DEF RecordWords
<1>3. IsSeq(x) /\ Len(x) = Len(R)
  BY <1>1, <1>2, MadeSeq
<1>4. ASSUME NEW r, NEW rec, NEW rela PROVE IsSeq(RelocWords(s, r, rela, rec))
  <2>. DEFINE a == IF rec.sym = "section" \/ rela THEN <<Word(<<"addend", s, r>>, 0)>> ELSE <<>>
              b == IF rec.sym = "appended" THEN <<Bytes(<<"name", s, r>>, rec.len)>> ELSE <<>>
              c == <<Word(<<"info", s, r>>, rec), Word(<<"offset", s, r>>, 0)>>
  <2>1. IsSeq(a) /\ IsSeq(b) /\ IsSeq(c)
    BY OneSeq, NoSeq, TwoSeq
  <2>2. RelocWords(s, r, rela, rec) = c \o (a \o b)
    BY DEF RelocWords
  <2>. HIDE DEF a, b, c
  <2>3. Join(a, b)
    BY <2>1, Joins
  <2>4. IsSeq(a \o b)
    BY <2>3 DEF Join
  <2>5. Join(c, a \o b)
    BY <2>1, <2>4, Joins
  <2>. QED
    BY <2>2, <2>5 DEF Join
<1>5. \A r \in 1 .. Len(R) : x[r] = RelocWords(s, r, d.rela[s], R[r])
  BY <1>2
<1>6. \A r \in 1 .. Len(R) : IsSeq(x[r])
  BY <1>4, <1>5
<1>. QED
  BY <1>3, <1>5, <1>6 DEF AllSeqs

LEMMA PartsOfStream ==
  ASSUME NEW d, IsDescription(d)
  PROVE  /\ IsSeq(HeaderWords(d)) /\ Len(HeaderWords(d)) = 8
         /\ AllSeqs(SectionWords(d)) /\ Len(SectionWords(d)) = 6
         /\ Once(LoadOrder(d.sizes))
         /\ IsSeq(ContentWords(d)) /\ Len(ContentWords(d)) = Len(LoadOrder(d.sizes))
         /\ AllSeqs(SymbolWords(d)) /\ Len(SymbolWords(d)) = Len(d.symbols) /\ Len(d.symbols) \in Nat
         /\ AllSeqs(RelocsWords(d)) /\ Len(RelocsWords(d)) = 6
<1>1. IsSeq(HeaderWords(d)) /\ Len(HeaderWords(d)) = 8
  <2>. DEFINE x == HeaderWords(d)
              e(n) == Word(<<"header", n, 0>>,
                           CASE n = 6 -> Len(d.symbols) [] n = 7 -> d.strtab [] OTHER -> d.machine)
  <2>1. x = [n \in 1 .. 8 |-> e(n)]
    BY DEF HeaderWords
  <2>. HIDE DEF x, e
  <2>2. DOMAIN x = 1 .. 8 /\ x = [n \in 1 .. 8 |-> x[n]]
    BY <2>1
  <2>3. IsSeq(x) /\ Len(x) = 8
    BY <2>2, MadeSeq
  <2>. QED
    BY <2>3 DEF x
<1>2. AllSeqs(SectionWords(d)) /\ Len(SectionWords(d)) = 6
  <2>1. IsSeq(SectionWords(d)) /\ Len(SectionWords(d)) = 6
    BY MadeSeq DEF SectionWords
  <2>2. \A s \in 1 .. 6 : IsSeq(SectionWords(d)[s])
    BY TwoSeq DEF SectionWords
  <2>. QED
    BY <2>1, <2>2 DEF AllSeqs
<1>3. Once(LoadOrder(d.sizes))
  BY OrderOnce DEF IsDescription
<1>4. IsSeq(ContentWords(d)) /\ Len(ContentWords(d)) = Len(LoadOrder(d.sizes))
  <2>. DEFINE order == LoadOrder(d.sizes)
              x == ContentWords(d)
  <2>1. Len(order) \in Nat /\ DOMAIN order = 1 .. Len(order)
    BY <1>3, SeqHas DEF Once
  <2>2. x = [n \in 1 .. Len(order) |-> Bytes(<<"contents", order[n], 0>>, d.sizes[order[n]])]
    BY <2>1 DEF ContentWords
  <2>. HIDE DEF order
  <2>. QED
    BY <2>1, <2>2, MadeSeq DEF order
<1>5. AllSeqs(SymbolWords(d)) /\ Len(SymbolWords(d)) = Len(d.symbols) /\ Len(d.symbols) \in Nat
  <2>. DEFINE x == SymbolWords(d)
              w(n) == <<Word(<<"data", n, 0>>, d.symbols[n]), Word(<<"symname", n, 0>>, 0),
                        Word(<<"value", n, 0>>, 0)>>
  <2>1. IsSeq(d.symbols)
    BY DEF IsDescription, IsSeq
  <2>2. Len(d.symbols) \in Nat /\ DOMAIN d.symbols = 1 .. Len(d.symbols)
    BY <2>1, SeqHas
  <2>3. x = [n \in 1 .. Len(d.symbols) |-> w(n)]
    BY <2>2 DEF SymbolWords
  <2>4. IsSeq(x) /\ Len(x) = Len(d.symbols)
    BY <2>2, <2>3, MadeSeq
  <2>5. \A n : IsSeq(w(n))
    BY ThreeSeq
  <2>. HIDE DEF w
  <2>6. \A n \in 1 .. Len(d.symbols) : x[n] = w(n)
    BY <2>3
  <2>. QED
    BY <2>2, <2>4, <2>5, <2>6 DEF AllSeqs
<1>6. AllSeqs(RelocsWords(d)) /\ Len(RelocsWords(d)) = 6
  <2>1. IsSeq(RelocsWords(d)) /\ Len(RelocsWords(d)) = 6
    BY MadeSeq DEF RelocsWords
  <2>2. ASSUME NEW s \in 1 .. 6 PROVE IsSeq(RelocsWords(d)[s])
    <3>. DEFINE a == <<Word(<<"relocs", s, 0>>, [rela |-> d.rela[s], n |-> Len(d.relocs[s])])>>
                b == Concat(RecordWords(d, s))
    <3>1. RelocsWords(d)[s] = a \o b
      BY DEF RelocsWords
    <3>2. AllSeqs(RecordWords(d, s))
      BY PartsOfRecords
    <3>3. Len(RecordWords(d, s)) \in Nat /\ b = From(RecordWords(d, s), 1)
          /\ \A i \in 1 .. Len(RecordWords(d, s)) + 1 : IsSeq(From(RecordWords(d, s), i))
      BY <3>2, FromIs
    <3>4. 1 \in 1 .. Len(RecordWords(d, s)) + 1
      BY <3>3
    <3>5. IsSeq(a) /\ IsSeq(b)
      BY <3>3, <3>4, OneSeq
    <3>. HIDE DEF a, b
    <3>6. Join(a, b)
      BY <3>5, Joins
    <3>. QED
      BY <3>1, <3>6 DEF Join
  <2>. QED
    BY <2>1, <2>2 DEF AllSeqs
<1>. QED
  BY <1>1, <1>2, <1>3, <1>4, <1>5, <1>6

\* A join of sequences is one, and brackets do not matter.
LEMMA JoinIs == \A s, t : IsSeq(s) /\ IsSeq(t) => IsSeq(s \o t)
BY Joined
NoBrackets(s, t, u) == (s \o t) \o u = s \o (t \o u)
LEMMA JoinOrder == \A s, t, u : IsSeq(s) /\ IsSeq(t) /\ IsSeq(u) => NoBrackets(s, t, u)
<1>1. ASSUME NEW s, NEW t, NEW u, IsSeq(s), IsSeq(t), IsSeq(u) PROVE NoBrackets(s, t, u)
  <2>. DEFINE S == Range(s) \union Range(t) \union Range(u)
  <2>1. s \in Seq(S) /\ t \in Seq(S) /\ u \in Seq(S)
    BY <1>1, SeqMonotonic DEF IsSeq
  <2>. HIDE DEF S
  <2>2. (s \o t) \o u = s \o (t \o u)
    BY <2>1, ConcatAssociative
  <2>. QED
    BY <2>2 DEF NoBrackets
<1>. QED
  BY <1>1
LEMMA JoinNone == \A s : IsSeq(s) => <<>> \o s = s /\ s \o <<>> = s
BY JoinedToNone
LEMMA OneIs == \A x : IsSeq(<<x>>)
BY OneSeq

LEMMA AftersAreSeqs ==
  ASSUME NEW d, IsDescription(d)
  PROVE  /\ IsSeq(AfterSymbols(d)) /\ IsSeq(AfterStrtab(d)) /\ IsSeq(AfterContents(d))
         /\ IsSeq(AfterSections(d)) /\ IsSeq(AfterHeader(d))
<1>. DEFINE conc(x) == \A i \in 1 .. Len(x) + 1 : IsSeq(From(x, i))
<1>1. ASSUME NEW x, AllSeqs(x) PROVE IsSeq(Concat(x))
  <2>1. Len(x) \in Nat /\ Concat(x) = From(x, 1) /\ \A i \in 1 .. Len(x) + 1 : IsSeq(From(x, i))
    BY <1>1, FromIs
  <2>2. 1 \in 1 .. Len(x) + 1
    BY <2>1
  <2>. QED
    BY <2>1, <2>2
<1>2. IsSeq(AfterSymbols(d))
  BY <1>1, PartsOfStream DEF AfterSymbols
<1>3. IsSeq(AfterStrtab(d))
  <2>1. IsSeq(Concat(SymbolWords(d)))
    BY <1>1, PartsOfStream
  <2>. QED
    BY <1>2, <2>1, JoinIs DEF AfterStrtab
<1>4. IsSeq(AfterContents(d))
  BY <1>3, OneIs, JoinIs DEF AfterContents
<1>5. IsSeq(AfterSections(d))
  <2>1. IsSeq(ContentWords(d))
    BY PartsOfStream
  <2>. QED
    BY <1>4, <2>1, JoinIs DEF AfterSections
<1>6. IsSeq(AfterHeader(d))
  <2>1. IsSeq(Concat(SectionWords(d)))
    BY <1>1, PartsOfStream
  <2>. QED
    BY <1>5, <2>1, JoinIs DEF AfterHeader
<1>. QED
  BY <1>2, <1>3, <1>4, <1>5, <1>6

\* What remains when a sequence of sequences is read to a place, with something behind.
LEMMA FromWith ==
  ASSUME NEW x, AllSeqs(x), NEW t, IsSeq(t), NEW i \in 1 .. Len(x)
  PROVE  /\ From(x, i) \o t = x[i] \o (From(x, i + 1) \o t)
         /\ IsSeq(From(x, i) \o t) /\ IsSeq(From(x, i + 1) \o t)
<1>1. /\ From(x, i) = x[i] \o From(x, i + 1) /\ Len(x) \in Nat
      /\ \A j \in 1 .. Len(x) + 1 : IsSeq(From(x, j))
  BY FromIs
<1>2. i \in 1 .. Len(x) + 1 /\ i + 1 \in 1 .. Len(x) + 1
  BY <1>1
<1>3. IsSeq(From(x, i)) /\ IsSeq(From(x, i + 1)) /\ IsSeq(x[i])
  BY <1>1, <1>2 DEF AllSeqs
<1>. DEFINE a == x[i]
            b == From(x, i + 1)
<1>4. IsSeq(a) /\ IsSeq(b) /\ From(x, i) = a \o b
  BY <1>1, <1>3
<1>. HIDE DEF a, b
<1>5. (a \o b) \o t = a \o (b \o t)
  <2>1. NoBrackets(a, b, t)
    BY <1>4, JoinOrder
  <2>. QED
    BY <2>1 DEF NoBrackets
<1>6. IsSeq(a \o b) /\ IsSeq(b \o t)
  BY <1>4, JoinIs, Zenon
<1>7. IsSeq((a \o b) \o t)
  BY <1>6, JoinIs, Zenon
<1>8. From(x, i) \o t = a \o (b \o t) /\ IsSeq(From(x, i) \o t) /\ IsSeq(b \o t)
  BY <1>4, <1>5, <1>6, <1>7
<1>. QED
  BY <1>8 DEF a, b

LEMMA FromEnd ==
  ASSUME NEW x, AllSeqs(x), NEW t, IsSeq(t)
  PROVE  From(x, Len(x) + 1) \o t = t
BY FromIs, JoinNone

LEMMA RestWith ==
  ASSUME NEW x, IsSeq(x), NEW t, IsSeq(t), NEW i \in 1 .. Len(x)
  PROVE  Field(SubSeq(x, i, Len(x)) \o t, x[i], SubSeq(x, i + 1, Len(x)) \o t)
<1>1. Len(x) \in Nat
  BY SeqHas
<1>2. i \in 1 .. Len(x) + 1 /\ i + 1 \in 1 .. Len(x) + 1 /\ Len(x) \in i - 1 .. Len(x)
      /\ Len(x) \in (i + 1) - 1 .. Len(x)
  BY <1>1
<1>3. IsSeq(SubSeq(x, i, Len(x))) /\ IsSeq(SubSeq(x, i + 1, Len(x)))
  BY <1>2, PartOf
<1>4. SubSeq(x, i, Len(x)) = <<x[i]>> \o SubSeq(x, i + 1, Len(x))
  BY RestOf
<1>5. IsSeq(<<x[i]>>)
  BY OneSeq
<1>6. (<<x[i]>> \o SubSeq(x, i + 1, Len(x))) \o t = <<x[i]>> \o (SubSeq(x, i + 1, Len(x)) \o t)
  <2>1. NoBrackets(<<x[i]>>, SubSeq(x, i + 1, Len(x)), t)
    BY <1>3, <1>5, JoinOrder
  <2>. QED
    BY <2>1 DEF NoBrackets
<1>7. IsSeq(SubSeq(x, i, Len(x)) \o t) /\ IsSeq(SubSeq(x, i + 1, Len(x)) \o t)
  BY <1>3, JoinIs
<1>. QED
  BY <1>4, <1>6, <1>7 DEF Field

LEMMA RestEnd ==
  ASSUME NEW x, IsSeq(x), NEW t, IsSeq(t)
  PROVE  SubSeq(x, Len(x) + 1, Len(x)) \o t = t
<1>1. Len(x) \in Nat
  BY SeqHas
<1>2. SubSeq(x, Len(x) + 1, Len(x)) = <<>>
  BY <1>1, SubSeqEmpty
<1>. QED
  BY <1>2, JoinNone

\* One field after the other.
LEMMA FieldOf ==
  ASSUME NEW w, NEW rest, IsSeq(rest)
  PROVE  Field(<<w>> \o rest, w, rest)
BY OneIs, JoinIs DEF Field

LEMMA StreamStarts ==
  ASSUME NEW d, IsDescription(d)
  PROVE  Words(d) = HeaderRest(d, 1)
<1>1. IsSeq(HeaderWords(d)) /\ Len(HeaderWords(d)) = 8
  BY PartsOfStream
<1>2. SubSeq(HeaderWords(d), 1, 8) = HeaderWords(d)
  BY <1>1, SubSeqFull DEF IsSeq
<1>. QED
  BY <1>2 DEF Words, HeaderRest, AfterHeader, AfterSections, AfterContents, AfterStrtab, AfterSymbols

LEMMA HeaderField ==
  ASSUME NEW d, IsDescription(d), NEW n \in 1 .. 8
  PROVE  Field(HeaderRest(d, n), HeaderWords(d)[n], HeaderRest(d, n + 1))
<1>1. IsSeq(HeaderWords(d)) /\ Len(HeaderWords(d)) = 8
  BY PartsOfStream
<1>2. n \in 1 .. Len(HeaderWords(d)) /\ IsSeq(AfterHeader(d))
  BY <1>1, AftersAreSeqs
<1>3. Field(SubSeq(HeaderWords(d), n, Len(HeaderWords(d))) \o AfterHeader(d), HeaderWords(d)[n],
            SubSeq(HeaderWords(d), n + 1, Len(HeaderWords(d))) \o AfterHeader(d))
  BY <1>1, <1>2, RestWith
<1>. QED
  BY <1>1, <1>3 DEF HeaderRest

LEMMA HeaderEnds ==
  ASSUME NEW d, IsDescription(d)
  PROVE  HeaderRest(d, 9) = SizeRest(d, 1)
<1>1. IsSeq(HeaderWords(d)) /\ Len(HeaderWords(d)) = 8 /\ AllSeqs(SectionWords(d)) /\ IsSeq(AfterHeader(d))
  BY PartsOfStream, AftersAreSeqs
<1>2. SubSeq(HeaderWords(d), Len(HeaderWords(d)) + 1, Len(HeaderWords(d))) \o AfterHeader(d) = AfterHeader(d)
  BY <1>1, RestEnd
<1>3. HeaderRest(d, 9) = AfterHeader(d)
  BY <1>1, <1>2 DEF HeaderRest
<1>. QED
  BY <1>1, <1>3, FromIs DEF AfterHeader, SizeRest

LEMMA SizeField ==
  ASSUME NEW d, IsDescription(d), NEW s \in 1 .. 6
  PROVE  /\ Field(SizeRest(d, s), Word(<<"size", s, 0>>, d.sizes[s]), AlignmentRest(d, s))
         /\ Field(AlignmentRest(d, s), Word(<<"alignment", s, 0>>, 0), SizeRest(d, s + 1))
<1>. DEFINE x == SectionWords(d)
            t == AfterSections(d)
            a == Word(<<"size", s, 0>>, d.sizes[s])
            b == Word(<<"alignment", s, 0>>, 0)
<1>1. AllSeqs(x) /\ Len(x) = 6 /\ IsSeq(t)
  BY PartsOfStream, AftersAreSeqs
<1>2. x[s] = <<a, b>>
  BY DEF SectionWords
<1>. HIDE DEF x, t, a, b
<1>3. s \in 1 .. Len(x)
  BY <1>1
<1>4. /\ From(x, s) \o t = x[s] \o (From(x, s + 1) \o t)
      /\ IsSeq(From(x, s) \o t) /\ IsSeq(From(x, s + 1) \o t)
  BY <1>1, <1>3, FromWith
<1>. DEFINE u == From(x, s + 1) \o t
<1>5. x[s] = <<a>> \o <<b>>
  BY <1>2, TwoSeq
<1>. HIDE DEF u
<1>6. NoBrackets(<<a>>, <<b>>, u)
  BY <1>4, OneIs, JoinOrder DEF u
<1>7. From(x, s) \o t = <<a>> \o (<<b>> \o u)
  BY <1>4, <1>5, <1>6 DEF u, NoBrackets
<1>8. IsSeq(u)
  BY <1>4 DEF u
<1>9. Field(<<b>> \o u, b, u) /\ IsSeq(<<b>> \o u)
  BY <1>8, FieldOf DEF Field
<1>10. Field(<<a>> \o (<<b>> \o u), a, <<b>> \o u)
  BY <1>9, FieldOf
<1>11. SizeRest(d, s) = <<a>> \o (<<b>> \o u) /\ AlignmentRest(d, s) = <<b>> \o u /\ SizeRest(d, s + 1) = u
  BY <1>7 DEF SizeRest, AlignmentRest, u, x, t, b
<1>. QED
  BY <1>9, <1>10, <1>11 DEF a, b

LEMMA SizeEnds ==
  ASSUME NEW d, IsDescription(d)
  PROVE  SizeRest(d, 7) = ContentsRest(d, 1)
<1>1. AllSeqs(SectionWords(d)) /\ Len(SectionWords(d)) = 6 /\ IsSeq(AfterSections(d)) /\ IsSeq(ContentWords(d))
  BY PartsOfStream, AftersAreSeqs
<1>2. From(SectionWords(d), Len(SectionWords(d)) + 1) \o AfterSections(d) = AfterSections(d)
  BY <1>1, FromEnd
<1>3. SizeRest(d, 7) = AfterSections(d)
  BY <1>1, <1>2 DEF SizeRest
<1>4. SubSeq(ContentWords(d), 1, Len(ContentWords(d))) = ContentWords(d)
  BY <1>1, SubSeqFull DEF IsSeq
<1>. QED
  BY <1>3, <1>4 DEF ContentsRest, AfterSections

LEMMA ContentsField ==
  ASSUME NEW d, IsDescription(d), NEW n \in 1 .. Len(LoadOrder(d.sizes))
  PROVE  Field(ContentsRest(d, n),
               Bytes(<<"contents", LoadOrder(d.sizes)[n], 0>>, d.sizes[LoadOrder(d.sizes)[n]]),
               ContentsRest(d, n + 1))
<1>. DEFINE x == ContentWords(d)
<1>1. IsSeq(x) /\ Len(x) = Len(LoadOrder(d.sizes)) /\ IsSeq(AfterContents(d))
  BY PartsOfStream, AftersAreSeqs
<1>2. DOMAIN LoadOrder(d.sizes) = 1 .. Len(LoadOrder(d.sizes))
  BY PartsOfStream, SeqHas DEF Once
<1>3. x[n] = Bytes(<<"contents", LoadOrder(d.sizes)[n], 0>>, d.sizes[LoadOrder(d.sizes)[n]])
  BY <1>2 DEF ContentWords
<1>. HIDE DEF x
<1>4. n \in 1 .. Len(x)
  BY <1>1
<1>5. Field(SubSeq(x, n, Len(x)) \o AfterContents(d), x[n], SubSeq(x, n + 1, Len(x)) \o AfterContents(d))
  BY <1>1, <1>4, RestWith
<1>. QED
  BY <1>3, <1>5 DEF ContentsRest, x

LEMMA ContentsEnd ==
  ASSUME NEW d, IsDescription(d)
  PROVE  /\ ContentsRest(d, Len(LoadOrder(d.sizes)) + 1) = AfterContents(d)
         /\ Field(AfterContents(d), Bytes(<<"strtab", 0, 0>>, d.strtab), DataRest(d, 1))
<1>1. IsSeq(ContentWords(d)) /\ Len(ContentWords(d)) = Len(LoadOrder(d.sizes)) /\ IsSeq(AfterContents(d))
      /\ IsSeq(AfterStrtab(d)) /\ AllSeqs(SymbolWords(d))
  BY PartsOfStream, AftersAreSeqs
<1>2. ContentsRest(d, Len(LoadOrder(d.sizes)) + 1) = AfterContents(d)
  BY <1>1, RestEnd DEF ContentsRest
<1>3. AfterStrtab(d) = DataRest(d, 1)
  BY <1>1, FromIs DEF AfterStrtab, DataRest
<1>. QED
  BY <1>1, <1>2, <1>3, FieldOf DEF AfterContents

LEMMA SymbolField ==
  ASSUME NEW d, IsDescription(d), NEW n \in 1 .. Len(d.symbols)
  PROVE  /\ Field(DataRest(d, n), Word(<<"data", n, 0>>, d.symbols[n]), SymNameRest(d, n))
         /\ Field(SymNameRest(d, n), Word(<<"symname", n, 0>>, 0), ValueRest(d, n))
         /\ Field(ValueRest(d, n), Word(<<"value", n, 0>>, 0), DataRest(d, n + 1))
<1>. DEFINE x == SymbolWords(d)
            t == AfterSymbols(d)
            a == Word(<<"data", n, 0>>, d.symbols[n])
            b == Word(<<"symname", n, 0>>, 0)
            c == Word(<<"value", n, 0>>, 0)
<1>1. AllSeqs(x) /\ Len(x) = Len(d.symbols) /\ IsSeq(t)
  BY PartsOfStream, AftersAreSeqs
<1>2. DOMAIN d.symbols = 1 .. Len(d.symbols)
  BY SeqHas DEF IsDescription, IsSeq
<1>3. x[n] = <<a, b, c>>
  BY <1>2 DEF SymbolWords
<1>. HIDE DEF x, t, a, b, c
<1>4. n \in 1 .. Len(x)
  BY <1>1
<1>5. /\ From(x, n) \o t = x[n] \o (From(x, n + 1) \o t)
      /\ IsSeq(From(x, n) \o t) /\ IsSeq(From(x, n + 1) \o t)
  BY <1>1, <1>4, FromWith
<1>. DEFINE u == From(x, n + 1) \o t
            v == <<c>> \o u
            y == <<b>> \o v
<1>6. x[n] = <<a>> \o (<<b>> \o <<c>>)
  BY <1>3, ThreeSeq
<1>. HIDE DEF u
<1>7. IsSeq(u) /\ IsSeq(<<a>>) /\ IsSeq(<<b>>) /\ IsSeq(<<c>>)
  BY <1>5, OneIs DEF u
<1>8. IsSeq(<<b>> \o <<c>>)
  BY <1>7, JoinIs
<1>9. NoBrackets(<<a>>, <<b>> \o <<c>>, u) /\ NoBrackets(<<b>>, <<c>>, u)
  BY <1>7, <1>8, JoinOrder
<1>10. From(x, n) \o t = <<a>> \o y
  BY <1>5, <1>6, <1>9 DEF u, NoBrackets
<1>11. Field(v, c, u)
  BY <1>7, FieldOf
<1>12. Field(y, b, v)
  BY <1>11, FieldOf DEF Field
<1>13. Field(<<a>> \o y, a, y)
  BY <1>12, FieldOf DEF Field
<1>14. DataRest(d, n) = <<a>> \o y /\ SymNameRest(d, n) = y /\ ValueRest(d, n) = v /\ DataRest(d, n + 1) = u
  BY <1>10 DEF DataRest, SymNameRest, ValueRest, u, x, t, b, c
<1>. HIDE DEF y, v
<1>. QED
  BY <1>11, <1>12, <1>13, <1>14 DEF a, b, c

LEMMA SymbolsEnd ==
  ASSUME NEW d, IsDescription(d)
  PROVE  DataRest(d, Len(d.symbols) + 1) = RelocsRest(d, 1)
<1>1. AllSeqs(SymbolWords(d)) /\ Len(SymbolWords(d)) = Len(d.symbols) /\ IsSeq(AfterSymbols(d))
      /\ AllSeqs(RelocsWords(d))
  BY PartsOfStream, AftersAreSeqs
<1>2. From(SymbolWords(d), Len(SymbolWords(d)) + 1) \o AfterSymbols(d) = AfterSymbols(d)
  BY <1>1, FromEnd
<1>. QED
  BY <1>1, <1>2, FromIs DEF DataRest, RelocsRest, AfterSymbols

LEMMA RelocsAreSeqs ==
  ASSUME NEW d, IsDescription(d)
  PROVE  \A s \in 1 .. 7 : IsSeq(RelocsRest(d, s))
<1>. DEFINE x == RelocsWords(d)
<1>1. AllSeqs(x) /\ Len(x) = 6
  BY PartsOfStream
<1>2. \A s \in 1 .. 7 : RelocsRest(d, s) = From(x, s)
  BY DEF RelocsRest
<1>. HIDE DEF x
<1>3. \A s \in 1 .. Len(x) + 1 : IsSeq(From(x, s))
  BY <1>1, FromIs
<1>4. Len(x) + 1 = 7
  BY <1>1
<1>. QED
  BY <1>2, <1>3, <1>4

LEMMA RelocsField ==
  ASSUME NEW d, IsDescription(d), NEW s \in 1 .. 6
  PROVE  /\ Field(RelocsRest(d, s),
                  Word(<<"relocs", s, 0>>, [rela |-> d.rela[s], n |-> Len(d.relocs[s])]),
                  InfoRest(d, s, 1))
         /\ InfoRest(d, s, Len(d.relocs[s]) + 1) = RelocsRest(d, s + 1)
<1>. DEFINE x == RelocsWords(d)
            y == RecordWords(d, s)
            a == Word(<<"relocs", s, 0>>, [rela |-> d.rela[s], n |-> Len(d.relocs[s])])
            t == RelocsRest(d, s + 1)
<1>1. AllSeqs(x) /\ Len(x) = 6 /\ AllSeqs(y) /\ Len(y) = Len(d.relocs[s])
  BY PartsOfStream, PartsOfRecords
<1>2. x[s] = <<a>> \o Concat(y)
  BY DEF RelocsWords
<1>3. s + 1 \in 1 .. 7
  OBVIOUS
<1>4. IsSeq(t)
  BY <1>3, RelocsAreSeqs
<1>5. t = From(x, s + 1)
  BY DEF RelocsRest
<1>. HIDE DEF x, y, a, t
<1>6. From(x, s) = x[s] \o t
  <2>1. s \in 1 .. Len(x)
    BY <1>1
  <2>. QED
    BY <1>1, <1>5, <2>1, FromIs
<1>7. /\ Concat(y) = From(y, 1) /\ Len(y) \in Nat /\ \A i \in 1 .. Len(y) + 1 : IsSeq(From(y, i))
  BY <1>1, FromIs
<1>8. IsSeq(From(y, 1))
  <2>1. 1 \in 1 .. Len(y) + 1
    BY <1>7
  <2>. QED
    BY <1>7, <2>1
<1>9. NoBrackets(<<a>>, From(y, 1), t)
  BY <1>4, <1>8, OneIs, JoinOrder
<1>10. From(x, s) = <<a>> \o (From(y, 1) \o t)
  BY <1>2, <1>6, <1>7, <1>9 DEF NoBrackets
<1>11. IsSeq(From(y, 1) \o t)
  BY <1>4, <1>8, JoinIs
<1>12. Field(<<a>> \o (From(y, 1) \o t), a, From(y, 1) \o t)
  BY <1>11, FieldOf
<1>13. From(y, Len(y) + 1) \o t = t
  BY <1>1, <1>4, FromEnd
<1>14. RelocsRest(d, s) = From(x, s) /\ InfoRest(d, s, 1) = From(y, 1) \o t
       /\ InfoRest(d, s, Len(y) + 1) = From(y, Len(y) + 1) \o t
  BY DEF RelocsRest, InfoRest, x, y, t
<1>. QED
  BY <1>1, <1>10, <1>12, <1>13, <1>14 DEF a, t

LEMMA RelocsEnd ==
  ASSUME NEW d, IsDescription(d)
  PROVE  RelocsRest(d, 7) = <<>>
<1>1. AllSeqs(RelocsWords(d)) /\ Len(RelocsWords(d)) = 6
  BY PartsOfStream
<1>2. From(RelocsWords(d), Len(RelocsWords(d)) + 1) = <<>>
  BY <1>1, FromIs
<1>. QED
  BY <1>1, <1>2 DEF RelocsRest

LEMMA RecordField ==
  ASSUME NEW d, IsDescription(d), NEW s \in 1 .. 6, NEW r \in 1 .. Len(d.relocs[s])
  PROVE  /\ Field(InfoRest(d, s, r), Word(<<"info", s, r>>, d.relocs[s][r]), OffsetRest(d, s, r))
         /\ Field(OffsetRest(d, s, r), Word(<<"offset", s, r>>, 0), BehindOffset(d, s, r))
         /\ Field(AddendRest(d, s, r), Word(<<"addend", s, r>>, 0), BehindAddend(d, s, r))
         /\ Field(NameRest(d, s, r), Bytes(<<"name", s, r>>, d.relocs[s][r].len), InfoRest(d, s, r + 1))
<1>. DEFINE y == RecordWords(d, s)
            t == RelocsRest(d, s + 1)
            rec == d.relocs[s][r]
            a == Word(<<"info", s, r>>, rec)
            b == Word(<<"offset", s, r>>, 0)
            p == IF rec.sym = "section" \/ d.rela[s] THEN <<Word(<<"addend", s, r>>, 0)>> ELSE <<>>
            q == IF rec.sym = "appended" THEN <<Bytes(<<"name", s, r>>, rec.len)>> ELSE <<>>
            u == From(y, r + 1) \o t
<1>1. AllSeqs(y) /\ Len(y) = Len(d.relocs[s]) /\ y[r] = <<a, b>> \o (p \o q)
  BY PartsOfRecords DEF RelocWords
<1>2. IsSeq(t)
  <2>1. s + 1 \in 1 .. 7
    OBVIOUS
  <2>. QED
    BY <2>1, RelocsAreSeqs
<1>3. IsSeq(p) /\ IsSeq(q)
  BY OneIs, NoSeq
<1>4. InfoRest(d, s, r) = From(y, r) \o t /\ InfoRest(d, s, r + 1) = u
  BY DEF InfoRest
<1>. HIDE DEF y, t
<1>5. /\ From(y, r) \o t = y[r] \o u
      /\ IsSeq(From(y, r) \o t) /\ IsSeq(u)
  <2>1. r \in 1 .. Len(y)
    BY <1>1
  <2>. QED
    BY <1>1, <1>2, <2>1, FromWith
<1>. HIDE DEF u
<1>6. BehindAddend(d, s, r) = q \o u
  <2>1. CASE WithName(d, s, r)
    BY <1>4, <2>1 DEF BehindAddend, WithName, NameRest
  <2>2. CASE ~ WithName(d, s, r)
    BY <1>4, <1>5, <2>2, JoinNone DEF BehindAddend, WithName
  <2>. QED
    BY <2>1, <2>2
<1>7. IsSeq(q \o u)
  BY <1>3, <1>5, JoinIs
<1>8. BehindOffset(d, s, r) = p \o (q \o u)
  <2>1. CASE WithAddend(d, s, r)
    BY <1>6, <2>1 DEF BehindOffset, WithAddend, AddendRest
  <2>2. CASE ~ WithAddend(d, s, r)
    BY <1>6, <1>7, <2>2, JoinNone DEF BehindOffset, WithAddend
  <2>. QED
    BY <2>1, <2>2
<1>. HIDE DEF p, q, a, b
<1>9. IsSeq(p \o (q \o u))
  BY <1>3, <1>7, JoinIs
<1>10. y[r] \o u = <<a>> \o (<<b>> \o (p \o (q \o u)))
  <2>1. IsSeq(<<a>>) /\ IsSeq(<<b>>) /\ <<a, b>> = <<a>> \o <<b>> /\ IsSeq(<<a, b>>) /\ IsSeq(p \o q)
    BY <1>3, OneIs, JoinIs, TwoSeq
  <2>2. NoBrackets(<<a, b>>, p \o q, u) /\ NoBrackets(p, q, u)
    BY <1>3, <1>5, <2>1, JoinOrder
  <2>3. NoBrackets(<<a>>, <<b>>, p \o (q \o u))
    BY <1>9, <2>1, JoinOrder
  <2>4. y[r] \o u = <<a, b>> \o (p \o (q \o u))
    BY <1>1, <2>2 DEF NoBrackets
  <2>. QED
    BY <2>1, <2>3, <2>4 DEF NoBrackets
<1>11. OffsetRest(d, s, r) = <<b>> \o (p \o (q \o u))
  BY <1>8 DEF OffsetRest, b
<1>12. Field(<<b>> \o (p \o (q \o u)), b, p \o (q \o u))
  BY <1>9, FieldOf
<1>13. IsSeq(<<b>> \o (p \o (q \o u)))
  BY <1>12 DEF Field
<1>14. Field(<<a>> \o (<<b>> \o (p \o (q \o u))), a, <<b>> \o (p \o (q \o u)))
  BY <1>13, FieldOf
<1>15. Field(InfoRest(d, s, r), a, OffsetRest(d, s, r))
  BY <1>4, <1>5, <1>10, <1>11, <1>14
<1>16. Field(OffsetRest(d, s, r), b, BehindOffset(d, s, r))
  BY <1>8, <1>11, <1>12
<1>17. Field(AddendRest(d, s, r), Word(<<"addend", s, r>>, 0), BehindAddend(d, s, r))
  BY <1>6, <1>7, FieldOf DEF AddendRest
<1>18. Field(NameRest(d, s, r), Bytes(<<"name", s, r>>, d.relocs[s][r].len), InfoRest(d, s, r + 1))
  BY <1>4, <1>5, FieldOf DEF NameRest
<1>. QED
  BY <1>15, <1>16, <1>17, <1>18 DEF a, b

-----------------------------------------------------------------------------
(* Every field has a length. *)

HasLens(ws) == IsSeq(ws) /\ \A i \in 1 .. Len(ws) : ws[i].len \in Nat

LEMMA NoLens == HasLens(<<>>)
BY NoSeq DEF HasLens

LEMMA OneLen ==
  ASSUME NEW w, w.len \in Nat
  PROVE  HasLens(<<w>>)
BY OneSeq DEF HasLens

LEMMA JoinedLens ==
  ASSUME NEW s, NEW t, HasLens(s), HasLens(t)
  PROVE  HasLens(s \o t)
<1>1. IsSeq(s) /\ IsSeq(t)
  BY DEF HasLens
<1>2. Join(s, t)
  BY <1>1, Joins
<1>3. Len(s) \in Nat /\ Len(t) \in Nat
  BY <1>1, SeqHas
<1>4. ASSUME NEW i \in 1 .. Len(s \o t) PROVE (s \o t)[i].len \in Nat
  <2>1. Len(s \o t) = Len(s) + Len(t)
    BY <1>2 DEF Join
  <2>2. CASE i \in 1 .. Len(s)
    <3>1. (s \o t)[i] = s[i]
      BY <1>2, <2>2 DEF Join
    <3>. QED
      BY <2>2, <3>1 DEF HasLens
  <2>3. CASE i \notin 1 .. Len(s)
    <3>1. PICK j \in 1 .. Len(t) : i = Len(s) + j
      <4>1. i - Len(s) \in 1 .. Len(t) /\ i = Len(s) + (i - Len(s))
        BY <1>3, <2>1, <2>3
      <4>. QED
        BY <4>1
    <3>2. (s \o t)[i] = t[j]
      BY <1>2, <3>1 DEF Join
    <3>. QED
      BY <3>2 DEF HasLens
  <2>. QED
    BY <2>2, <2>3
<1>5. IsSeq(s \o t)
  BY <1>2 DEF Join
<1>. QED
  BY <1>4, <1>5 DEF HasLens

LEMMA ConcatLens ==
  ASSUME NEW x, IsSeq(x), \A i \in 1 .. Len(x) : HasLens(x[i])
  PROVE  HasLens(Concat(x))
<1>1. AllSeqs(x)
  BY DEF AllSeqs, HasLens
<1>2. Len(x) \in Nat
  BY SeqHas
<1>. DEFINE l == LastOf(x)
            G == {k \in 0 .. Len(x) : HasLens(l[k])}
<1>a. l[0] = <<>> /\ \A k \in 1 .. Len(x) : l[k] = x[Len(x) + 1 - k] \o l[k - 1]
  BY <1>1, LastOfIs
<1>. HIDE DEF l
<1>3. 0 \in G
  BY <1>2, <1>a, NoLens
<1>4. ASSUME NEW k \in 1 .. Len(x), k - 1 \in G PROVE k \in G
  <2>0. l[k] = x[Len(x) + 1 - k] \o l[k - 1]
    BY <1>a
  <2>1. Len(x) + 1 - k \in 1 .. Len(x) /\ k \in 0 .. Len(x)
    BY <1>2
  <2>2. HasLens(x[Len(x) + 1 - k]) /\ HasLens(l[k - 1])
    BY <1>4, <2>1
  <2>3. HasLens(l[k])
    BY <2>0, <2>2, JoinedLens
  <2>. QED
    BY <2>1, <2>3
<1>. HIDE DEF G
<1>5. \A k \in 0 .. Len(x) : k \in G
  BY <1>2, <1>3, <1>4, Induction
<1>6. Len(x) \in 0 .. Len(x)
  BY <1>2
<1>. QED
  BY <1>5, <1>6 DEF G, l, Concat

\* A sequence of words and of bytes.
LEMMA WordLens ==
  /\ \A id, v : Word(id, v).len \in Nat /\ HasLens(<<Word(id, v)>>)
  /\ \A id, n : n \in Nat => Bytes(id, n).len \in Nat /\ HasLens(<<Bytes(id, n)>>)
<1>1. \A id, v : Word(id, v).len \in Nat
  BY RapFileAssumption DEF Word
<1>2. \A id, n : n \in Nat => Bytes(id, n).len \in Nat
  BY DEF Bytes
<1>. QED
  BY <1>1, <1>2, OneLen

LEMMA WordsHaveLens ==
  ASSUME NEW d, IsDescription(d)
  PROVE  HasLens(Words(d))
<1>1. HasLens(HeaderWords(d))
  <2>1. IsSeq(HeaderWords(d)) /\ Len(HeaderWords(d)) = 8
    BY PartsOfStream
  <2>2. ASSUME NEW i \in 1 .. 8 PROVE HeaderWords(d)[i].len \in Nat
    <3>. DEFINE v == CASE i = 6 -> Len(d.symbols) [] i = 7 -> d.strtab [] OTHER -> d.machine
    <3>1. HeaderWords(d)[i] = Word(<<"header", i, 0>>, v)
      BY DEF HeaderWords
    <3>. HIDE DEF v
    <3>. QED
      BY <3>1, WordLens
  <2>. QED
    BY <2>1, <2>2 DEF HasLens
<1>2. HasLens(Concat(SectionWords(d)))
  <2>1. IsSeq(SectionWords(d)) /\ Len(SectionWords(d)) = 6
    BY PartsOfStream DEF AllSeqs
  <2>2. ASSUME NEW s \in 1 .. 6 PROVE HasLens(SectionWords(d)[s])
    <3>. DEFINE a == Word(<<"size", s, 0>>, d.sizes[s])
                b == Word(<<"alignment", s, 0>>, 0)
    <3>1. SectionWords(d)[s] = <<a, b>>
      BY DEF SectionWords
    <3>2. HasLens(<<a>>) /\ HasLens(<<b>>)
      BY WordLens
    <3>. HIDE DEF a, b
    <3>. QED
      BY <3>1, <3>2, TwoSeq, JoinedLens
  <2>. QED
    BY <2>1, <2>2, ConcatLens
<1>3. HasLens(ContentWords(d))
  <2>. DEFINE order == LoadOrder(d.sizes)
  <2>1. IsSeq(ContentWords(d)) /\ Len(ContentWords(d)) = Len(order) /\ Once(order)
    BY PartsOfStream
  <2>2. DOMAIN order = 1 .. Len(order) /\ \A n \in 1 .. Len(order) : order[n] \in 1 .. 6
    BY <2>1, SeqHas DEF Once
  <2>3. ASSUME NEW n \in 1 .. Len(order) PROVE ContentWords(d)[n].len \in Nat
    <3>1. d.sizes[order[n]] \in Nat
      BY <2>2 DEF IsDescription
    <3>2. ContentWords(d)[n] = Bytes(<<"contents", order[n], 0>>, d.sizes[order[n]])
      BY <2>2 DEF ContentWords
    <3>. HIDE DEF order
    <3>. QED
      BY <3>1, <3>2, WordLens
  <2>. HIDE DEF order
  <2>. QED
    BY <2>1, <2>3 DEF HasLens
<1>4. HasLens(<<Bytes(<<"strtab", 0, 0>>, d.strtab)>>)
  BY WordLens DEF IsDescription
<1>5. HasLens(Concat(SymbolWords(d)))
  <2>1. IsSeq(SymbolWords(d)) /\ Len(SymbolWords(d)) = Len(d.symbols)
    BY PartsOfStream DEF AllSeqs
  <2>2. DOMAIN d.symbols = 1 .. Len(d.symbols)
    BY SeqHas DEF IsDescription, IsSeq
  <2>3. ASSUME NEW n \in 1 .. Len(d.symbols) PROVE HasLens(SymbolWords(d)[n])
    <3>. DEFINE a == Word(<<"data", n, 0>>, d.symbols[n])
                b == Word(<<"symname", n, 0>>, 0)
                c == Word(<<"value", n, 0>>, 0)
    <3>1. SymbolWords(d)[n] = <<a, b, c>>
      BY <2>2 DEF SymbolWords
    <3>2. HasLens(<<a>>) /\ HasLens(<<b>>) /\ HasLens(<<c>>)
      BY WordLens
    <3>. HIDE DEF a, b, c
    <3>3. HasLens(<<b>> \o <<c>>)
      BY <3>2, JoinedLens
    <3>4. HasLens(<<a>> \o (<<b>> \o <<c>>))
      BY <3>2, <3>3, JoinedLens
    <3>. QED
      BY <3>1, <3>4, ThreeSeq
  <2>. QED
    BY <2>1, <2>3, ConcatLens
<1>6. HasLens(Concat(RelocsWords(d)))
  <2>1. IsSeq(RelocsWords(d)) /\ Len(RelocsWords(d)) = 6
    BY PartsOfStream DEF AllSeqs
  <2>2. ASSUME NEW s \in 1 .. 6 PROVE HasLens(RelocsWords(d)[s])
    <3>1. IsSeq(RecordWords(d, s)) /\ Len(RecordWords(d, s)) = Len(d.relocs[s])
      BY PartsOfRecords DEF AllSeqs
    <3>2. ASSUME NEW r \in 1 .. Len(d.relocs[s]) PROVE HasLens(RecordWords(d, s)[r])
      <4>. DEFINE rec == d.relocs[s][r]
                  a == Word(<<"info", s, r>>, rec)
                  b == Word(<<"offset", s, r>>, 0)
                  p == IF rec.sym = "section" \/ d.rela[s]
                       THEN <<Word(<<"addend", s, r>>, 0)>> ELSE <<>>
                  q == IF rec.sym = "appended" THEN <<Bytes(<<"name", s, r>>, rec.len)>> ELSE <<>>
      <4>1. RecordWords(d, s)[r] = <<a, b>> \o (p \o q)
        BY PartsOfRecords DEF RelocWords
      <4>2. rec.len \in Nat
        <5>1. IsSeq(d.relocs[s])
          BY DEF IsDescription, IsSeq
        <5>2. rec \in Range(d.relocs[s])
          BY <5>1, SeqHas
        <5>. QED
          BY <5>2 DEF IsDescription
      <4>3. HasLens(<<a>>) /\ HasLens(<<b>>) /\ HasLens(p) /\ HasLens(q)
        BY <4>2, WordLens, NoLens
      <4>. HIDE DEF a, b, p, q
      <4>4. HasLens(<<a>> \o <<b>>) /\ HasLens(p \o q)
        BY <4>3, JoinedLens
      <4>5. HasLens((<<a>> \o <<b>>) \o (p \o q))
        BY <4>4, JoinedLens
      <4>. QED
        BY <4>1, <4>5, TwoSeq
    <3>3. HasLens(Concat(RecordWords(d, s)))
      BY <3>1, <3>2, ConcatLens
    <3>. DEFINE a == Word(<<"relocs", s, 0>>, [rela |-> d.rela[s], n |-> Len(d.relocs[s])])
    <3>4. RelocsWords(d)[s] = <<a>> \o Concat(RecordWords(d, s))
      BY DEF RelocsWords
    <3>5. HasLens(<<a>>)
      BY WordLens
    <3>. HIDE DEF a
    <3>. QED
      BY <3>3, <3>4, <3>5, JoinedLens
  <2>. QED
    BY <2>1, <2>2, ConcatLens
<1>. DEFINE st == <<Bytes(<<"strtab", 0, 0>>, d.strtab)>>
            y == Concat(SymbolWords(d))
            z == Concat(RelocsWords(d))
            c == ContentWords(d)
            b == Concat(SectionWords(d))
            a == HeaderWords(d)
<1>7. Words(d) = a \o (b \o (c \o (st \o (y \o z))))
  BY DEF Words
<1>8. HasLens(a) /\ HasLens(b) /\ HasLens(c) /\ HasLens(st) /\ HasLens(y) /\ HasLens(z)
  BY <1>1, <1>2, <1>3, <1>4, <1>5, <1>6
<1>. HIDE DEF a, b, c, st, y, z
<1>9. HasLens(st \o (y \o z))
  BY <1>8, JoinedLens
<1>10. HasLens(b \o (c \o (st \o (y \o z))))
  BY <1>8, <1>9, JoinedLens
<1>. QED
  BY <1>7, <1>8, <1>10, JoinedLens

-----------------------------------------------------------------------------
(* The cells of a stream, field by field. *)

LEMMA FieldHas ==
  ASSUME NEW ws, NEW w, NEW rest, Field(ws, w, rest)
  PROVE  /\ Len(rest) \in Nat /\ Len(ws) = Len(rest) + 1 /\ ws[1] = w
         /\ \A i \in 1 .. Len(rest) : ws[i + 1] = rest[i]
         /\ Range(ws) = {w} \union Range(rest)
<1>1. IsSeq(<<w>>) /\ Len(<<w>>) = 1 /\ <<w>>[1] = w /\ Range(<<w>>) = {w} /\ IsSeq(rest)
      /\ ws = <<w>> \o rest
  BY OneSeq DEF Field
<1>2. Len(rest) \in Nat
  BY <1>1, SeqHas
<1>. DEFINE a == <<w>>
<1>. HIDE DEF a
<1>3. Join(a, rest) /\ ws = a \o rest /\ Len(a) = 1 /\ a[1] = w /\ Range(a) = {w}
  BY <1>1, Joins DEF a
<1>4. ws[1] = w
  <2>1. 1 \in 1 .. Len(a)
    BY <1>3
  <2>. QED
    BY <1>3, <2>1 DEF Join
<1>5. \A i \in 1 .. Len(rest) : ws[i + 1] = rest[i]
  <2>1. \A i \in 1 .. Len(rest) : ws[Len(a) + i] = rest[i]
    BY <1>3 DEF Join
  <2>2. \A i \in 1 .. Len(rest) : Len(a) + i = i + 1
    BY <1>3
  <2>. QED
    BY <2>1, <2>2
<1>6. Len(ws) = 1 + Len(rest)
  BY <1>3 DEF Join
<1>7. Range(ws) = {w} \union Range(rest)
  BY <1>3 DEF Join
<1>. QED
  BY <1>2, <1>4, <1>5, <1>6, <1>7

LEMMA CellsAre ==
  ASSUME NEW f, NEW w, w.len \in Nat
  PROVE  /\ IsSeq(Cells(f, w)) /\ Len(Cells(f, w)) = w.len
         /\ \A p \in 1 .. w.len : Cells(f, w)[p] = [of |-> f, id |-> w.id, part |-> p, val |-> w.val]
<1>. DEFINE c == Cells(f, w)
<1>1. DOMAIN c = 1 .. w.len /\ c = [p \in 1 .. w.len |-> c[p]]
  BY DEF Cells
<1>2. IsSeq(c) /\ Len(c) = w.len
  BY <1>1, MadeSeq
<1>. QED
  BY <1>2 DEF Cells

FieldCells(f, ws) == [n \in DOMAIN ws |-> Cells(f, ws[n])]

LEMMA FieldCellsAre ==
  ASSUME NEW f, NEW ws, HasLens(ws)
  PROVE  /\ AllSeqs(FieldCells(f, ws)) /\ Len(FieldCells(f, ws)) = Len(ws)
         /\ \A n \in 1 .. Len(ws) : FieldCells(f, ws)[n] = Cells(f, ws[n])
         /\ CellsOf(f, ws) = Concat(FieldCells(f, ws)) /\ IsSeq(CellsOf(f, ws))
<1>. DEFINE x == FieldCells(f, ws)
<1>1. Len(ws) \in Nat /\ DOMAIN ws = 1 .. Len(ws)
  BY SeqHas DEF HasLens
<1>2. DOMAIN x = 1 .. Len(ws) /\ x = [n \in 1 .. Len(ws) |-> x[n]]
  BY <1>1 DEF FieldCells
<1>3. IsSeq(x) /\ Len(x) = Len(ws)
  BY <1>1, <1>2, MadeSeq
<1>4. \A n \in 1 .. Len(ws) : x[n] = Cells(f, ws[n])
  BY <1>1 DEF FieldCells
<1>5. \A n \in 1 .. Len(ws) : IsSeq(x[n])
  BY <1>4, CellsAre DEF HasLens
<1>6. CellsOf(f, ws) = Concat(x)
  BY DEF CellsOf, FieldCells
<1>. HIDE DEF x
<1>7. AllSeqs(x)
  BY <1>3, <1>5 DEF AllSeqs
<1>8. Concat(x) = From(x, 1) /\ \A i \in 1 .. Len(x) + 1 : IsSeq(From(x, i))
  BY <1>7, FromIs
<1>9. 1 \in 1 .. Len(x) + 1
  BY <1>1, <1>3
<1>. QED
  BY <1>3, <1>4, <1>6, <1>7, <1>8, <1>9 DEF x

LEMMA NoCells ==
  ASSUME NEW f
  PROVE  CellsOf(f, <<>>) = <<>>
<1>. DEFINE x == FieldCells(f, <<>>)
<1>1. AllSeqs(x) /\ Len(x) = 0 /\ CellsOf(f, <<>>) = Concat(x)
  BY FieldCellsAre, NoLens, NoSeq
<1>. HIDE DEF x
<1>2. LastOf(x)[0] = <<>>
  BY <1>1, LastOfIs
<1>. QED
  BY <1>1, <1>2 DEF Concat

\* Without its first sequence, what is behind that one remains.
LEMMA ConcatOfRest ==
  ASSUME NEW x, AllSeqs(x), NEW y, AllSeqs(y), Len(x) = Len(y) + 1,
         \A i \in 1 .. Len(y) : x[i + 1] = y[i]
  PROVE  Concat(x) = x[1] \o Concat(y)
<1>. DEFINE lx == LastOf(x)
            ly == LastOf(y)
            G == {k \in 0 .. Len(y) : lx[k] = ly[k]}
<1>1. Len(y) \in Nat
  BY SeqHas DEF AllSeqs
<1>2. lx[0] = <<>> /\ \A k \in 1 .. Len(x) : lx[k] = x[Len(x) + 1 - k] \o lx[k - 1]
  BY LastOfIs
<1>3. ly[0] = <<>> /\ \A k \in 1 .. Len(y) : ly[k] = y[Len(y) + 1 - k] \o ly[k - 1]
  BY LastOfIs
<1>. HIDE DEF lx, ly
<1>4. 0 \in G
  BY <1>1, <1>2, <1>3
<1>5. ASSUME NEW k \in 1 .. Len(y), k - 1 \in G PROVE k \in G
  <2>1. k \in 1 .. Len(x) /\ k \in 0 .. Len(y) /\ Len(y) + 1 - k \in 1 .. Len(y)
        /\ Len(x) + 1 - k = (Len(y) + 1 - k) + 1
    BY <1>1
  <2>2. x[Len(x) + 1 - k] = y[Len(y) + 1 - k]
    BY <2>1
  <2>3. lx[k - 1] = ly[k - 1]
    BY <1>5
  <2>4. lx[k] = ly[k]
    BY <1>2, <1>3, <2>1, <2>2, <2>3
  <2>. QED
    BY <2>1, <2>4
<1>6. \A k \in 0 .. Len(y) : k \in G
  <2>. HIDE DEF G
  <2>. QED
    BY <1>1, <1>4, <1>5, Induction
<1>7. lx[Len(y)] = ly[Len(y)]
  <2>1. Len(y) \in 0 .. Len(y)
    BY <1>1
  <2>. QED
    BY <1>6, <2>1
<1>8. lx[Len(x)] = x[1] \o lx[Len(y)]
  <2>1. Len(x) \in 1 .. Len(x) /\ Len(x) + 1 - Len(x) = 1 /\ Len(x) - 1 = Len(y)
    BY <1>1
  <2>. QED
    BY <1>2, <2>1
<1>. QED
  BY <1>7, <1>8 DEF lx, ly, Concat

LEMMA CellsOfField ==
  ASSUME NEW f, NEW ws, NEW w, NEW rest, Field(ws, w, rest), HasLens(ws)
  PROVE  /\ CellsOf(f, ws) = Cells(f, w) \o CellsOf(f, rest) /\ HasLens(rest)
         /\ w.len \in Nat
<1>1. /\ Len(rest) \in Nat /\ Len(ws) = Len(rest) + 1 /\ ws[1] = w /\ IsSeq(rest)
      /\ \A i \in 1 .. Len(rest) : ws[i + 1] = rest[i]
  BY FieldHas DEF Field
<1>2. \A i \in 1 .. Len(rest) : i + 1 \in 1 .. Len(ws)
  BY <1>1
<1>3. 1 \in 1 .. Len(ws)
  BY <1>1
<1>4. HasLens(rest) /\ w.len \in Nat
  BY <1>1, <1>2, <1>3 DEF HasLens
<1>. DEFINE x == FieldCells(f, ws)
            y == FieldCells(f, rest)
<1>5. /\ AllSeqs(x) /\ Len(x) = Len(ws) /\ CellsOf(f, ws) = Concat(x)
      /\ \A n \in 1 .. Len(ws) : x[n] = Cells(f, ws[n])
  BY FieldCellsAre
<1>6. /\ AllSeqs(y) /\ Len(y) = Len(rest) /\ CellsOf(f, rest) = Concat(y)
      /\ \A n \in 1 .. Len(rest) : y[n] = Cells(f, rest[n])
  BY <1>4, FieldCellsAre
<1>. HIDE DEF x, y
<1>7. \A i \in 1 .. Len(y) : x[i + 1] = y[i]
  BY <1>1, <1>2, <1>5, <1>6
<1>8. Concat(x) = x[1] \o Concat(y)
  BY <1>1, <1>5, <1>6, <1>7, ConcatOfRest
<1>9. x[1] = Cells(f, w)
  BY <1>1, <1>3, <1>5
<1>10. CellsOf(f, ws) = Concat(x) /\ CellsOf(f, rest) = Concat(y)
  BY <1>5, <1>6
<1>11. CellsOf(f, ws) = Cells(f, w) \o CellsOf(f, rest)
  BY <1>8, <1>9, <1>10
<1>. QED
  BY <1>4, <1>11

-----------------------------------------------------------------------------
(* The stream and the blocks it is written in. *)

LEMMA StreamIs ==
  ASSUME NEW f \in DOMAIN RapFiles
  PROVE  /\ IsDescription(RapFiles[f]) /\ HasLens(Words(RapFiles[f]))
         /\ Streams[f] = CellsOf(f, Words(RapFiles[f])) /\ IsSeq(Streams[f]) /\ Len(Streams[f]) \in Nat
         /\ Fields[f] = Range(Words(RapFiles[f]))
<1>1. IsDescription(RapFiles[f])
  BY RapFileAssumption
<1>2. HasLens(Words(RapFiles[f]))
  BY <1>1, WordsHaveLens
<1>3. Streams[f] = CellsOf(f, Words(RapFiles[f])) /\ Fields[f] = Range(Words(RapFiles[f]))
  BY DEF Streams, Fields
<1>4. IsSeq(Streams[f])
  BY <1>2, <1>3, FieldCellsAre
<1>. QED
  BY <1>1, <1>2, <1>3, <1>4, SeqHas

LEMMA BlockOf ==
  ASSUME NEW c, IsSeq(c), NEW z
  PROVE  /\ IsSeq(Block(c, z)) /\ Len(Block(c, z)) = 1 + (IF z = "NONE" THEN Len(c) ELSE 1)
         /\ Block(c, z)[1] = IF z = "NONE" THEN Len(c) ELSE 1
         /\ z = "NONE" => \A i \in 1 .. Len(c) : Block(c, z)[1 + i] = c[i]
         /\ z # "NONE" => Block(c, z)[2] = c
<1>1. CASE z = "NONE"
  <2>. DEFINE rest == c
  <2>1. Field(Block(c, z), Len(c), c)
    BY <1>1, FieldOf DEF Block
  <2>2. Len(c) \in Nat /\ Len(Block(c, z)) = Len(c) + 1 /\ Block(c, z)[1] = Len(c)
        /\ \A i \in 1 .. Len(c) : Block(c, z)[i + 1] = c[i]
    BY <2>1, FieldHas
  <2>3. \A i \in 1 .. Len(c) : Block(c, z)[1 + i] = c[i]
    BY <2>2
  <2>. QED
    BY <1>1, <2>1, <2>2, <2>3 DEF Field
<1>2. CASE z # "NONE"
  <2>. DEFINE b == <<1, c>>
  <2>1. Block(c, z) = b
    BY <1>2 DEF Block
  <2>2. b \in Seq({1, c}) /\ Len(b) = 2 /\ b[1] = 1 /\ b[2] = c
    OBVIOUS
  <2>3. IsSeq(b)
    BY <2>2, SeqOver
  <2>. QED
    BY <1>2, <2>1, <2>2, <2>3
<1>. QED
  BY <1>1, <1>2

\* How many blocks there are; the last one ends where the stream does.
BlocksOf(cells, n) == (Len(cells) + n - 1) \div n

LEMMA Rounding ==
  ASSUME NEW l \in Nat, NEW n \in Nat \ {0}
  PROVE  /\ (l + n - 1) \div n \in Nat
         /\ ((l + n - 1) \div n) * n >= l
         /\ ((l + n - 1) \div n) * n <= l + n - 1
<1>. DEFINE q == (l + n - 1) \div n
            m == (l + n - 1) % n
<1>1. q \in Nat /\ m \in 0 .. n - 1 /\ l + n - 1 = n * q + m
  OBVIOUS
<1>. HIDE DEF q, m
<1>2. q * n = n * q /\ n * q \in Nat
  BY <1>1
<1>. DEFINE nq == n * q
<1>3. q * n = nq /\ nq \in Nat /\ l + n - 1 = nq + m
  BY <1>1, <1>2
<1>. HIDE DEF nq
<1>4. nq >= l /\ nq <= l + n - 1
  BY <1>1, <1>3
<1>. QED
  BY <1>1, <1>3, <1>4 DEF q

\* The b-th block begins where the one before it ended, which is inside of the stream.
LEMMA BlockEnds ==
  ASSUME NEW cells, IsSeq(cells), NEW n \in Nat \ {0}
  PROVE  /\ BlocksOf(cells, n) \in Nat
         /\ Until(cells, n, 0) = 0 /\ Until(cells, n, BlocksOf(cells, n)) = Len(cells)
         /\ \A b \in 0 .. BlocksOf(cells, n) : Until(cells, n, b) \in 0 .. Len(cells)
         /\ \A b \in 1 .. BlocksOf(cells, n) :
              /\ Until(cells, n, b - 1) = (b - 1) * n /\ (b - 1) * n < Len(cells)
              /\ Until(cells, n, b - 1) <= Until(cells, n, b)
<1>. DEFINE l == Len(cells)
            q == BlocksOf(cells, n)
<1>1. l \in Nat
  BY SeqHas
<1>2. q \in Nat /\ q * n >= l /\ q * n <= l + n - 1
  BY <1>1, Rounding DEF BlocksOf
<1>3. \A b \in Nat : b * n \in Nat
  OBVIOUS
<1>. HIDE DEF l, q
<1>4. \A b : Until(cells, n, b) = IF b * n > l THEN l ELSE b * n
  BY DEF Until, l
<1>5. Until(cells, n, 0) = 0 /\ Until(cells, n, q) = l
  <2>1. 0 * n = 0 /\ q * n \in Nat
    BY <1>2
  <2>2. IF q * n > l THEN TRUE ELSE q * n = l
    BY <1>1, <1>2, <2>1
  <2>. QED
    BY <1>1, <1>4, <2>1, <2>2
<1>6. ASSUME NEW b \in 0 .. q PROVE Until(cells, n, b) \in 0 .. l
  <2>1. b * n \in Nat
    BY <1>2, <1>3
  <2>. DEFINE p == b * n
  <2>. HIDE DEF p
  <2>2. p \in Nat /\ Until(cells, n, b) = IF p > l THEN l ELSE p
    BY <1>4, <2>1 DEF p
  <2>. QED
    BY <1>1, <2>2
<1>7. ASSUME NEW b \in 1 .. q
      PROVE  /\ Until(cells, n, b - 1) = (b - 1) * n /\ (b - 1) * n < l
             /\ Until(cells, n, b - 1) <= Until(cells, n, b)
  <2>. DEFINE p == (b - 1) * n
  <2>1. p \in Nat /\ b * n = p + n
    BY <1>2
  <2>2. p + n <= q * n
    <3>1. b <= q
      BY <1>2
    <3>2. q - b \in Nat
      BY <1>2
    <3>3. (q - b) * n \in Nat /\ q * n = b * n + (q - b) * n
      BY <1>2, <3>2
    <3>. HIDE DEF p
    <3>. QED
      BY <1>2, <2>1, <3>3
  <2>. HIDE DEF p
  <2>3. p < l
    BY <1>1, <1>2, <2>1, <2>2
  <2>4. Until(cells, n, b - 1) = IF p > l THEN l ELSE p
    BY <1>4 DEF p
  <2>5. Until(cells, n, b) = IF p + n > l THEN l ELSE p + n
    BY <1>4, <2>1
  <2>6. Until(cells, n, b - 1) = p /\ Until(cells, n, b - 1) <= Until(cells, n, b)
    BY <1>1, <2>1, <2>3, <2>4, <2>5
  <2>. QED
    BY <2>3, <2>6 DEF p
<1>. QED
  BY <1>2, <1>5, <1>6, <1>7 DEF l, q

LEMMA PiecesAre ==
  ASSUME NEW cells, IsSeq(cells), NEW n \in Nat \ {0}, NEW z
  PROVE  /\ AllSeqs(Pieces(cells, n, z)) /\ Len(Pieces(cells, n, z)) = BlocksOf(cells, n)
         /\ \A b \in 1 .. BlocksOf(cells, n) :
              /\ Pieces(cells, n, z)[b]
                   = Block(SubSeq(cells, Until(cells, n, b - 1) + 1, Until(cells, n, b)), z)
              /\ IsSeq(SubSeq(cells, Until(cells, n, b - 1) + 1, Until(cells, n, b)))
<1>. DEFINE q == BlocksOf(cells, n)
            x == Pieces(cells, n, z)
            c(b) == SubSeq(cells, (b - 1) * n + 1, Until(cells, n, b))
<1>1. q \in Nat /\ \A b \in 0 .. q : Until(cells, n, b) \in 0 .. Len(cells)
  BY BlockEnds
<1>2. \A b \in 1 .. q : Until(cells, n, b - 1) = (b - 1) * n /\ Until(cells, n, b - 1) <= Until(cells, n, b)
  BY BlockEnds
<1>3. Len(cells) \in Nat
  BY SeqHas
<1>4. x = [b \in 1 .. q |-> Block(c(b), z)]
  BY DEF Pieces, BlocksOf
<1>. HIDE DEF c
<1>5. IsSeq(x) /\ Len(x) = q
  BY <1>1, <1>4, MadeSeq
<1>6. \A b \in 1 .. q : x[b] = Block(c(b), z)
  BY <1>4
<1>. HIDE DEF q, x
<1>7. \A b \in 1 .. q : c(b) = SubSeq(cells, Until(cells, n, b - 1) + 1, Until(cells, n, b))
  BY <1>2 DEF c
<1>8. ASSUME NEW b \in 1 .. q PROVE IsSeq(c(b))
  <2>. DEFINE m == Until(cells, n, b - 1)
              e == Until(cells, n, b)
  <2>1. b - 1 \in 0 .. q /\ b \in 0 .. q
    BY <1>1
  <2>2. m \in 0 .. Len(cells) /\ e \in 0 .. Len(cells) /\ m <= e
    BY <1>1, <1>2, <2>1
  <2>. HIDE DEF m, e
  <2>3. m + 1 \in 1 .. Len(cells) + 1 /\ e \in (m + 1) - 1 .. Len(cells)
    BY <1>3, <2>2
  <2>4. IsSeq(SubSeq(cells, m + 1, e))
    BY <2>3, PartOf
  <2>. QED
    BY <1>7, <2>4 DEF m, e
<1>9. \A b \in 1 .. q : IsSeq(x[b])
  BY <1>6, <1>8, BlockOf
<1>. QED
  BY <1>5, <1>6, <1>7, <1>8, <1>9 DEF AllSeqs, q, x

-----------------------------------------------------------------------------
(* Where the loader stands: what it has kept so far, and what is still to come. *)

IsRap(r) == r = [sizes |-> r.sizes, symbols |-> r.symbols, strtab |-> r.strtab, rela |-> r.rela,
                relocs |-> r.relocs, rec |-> r.rec]
Sized(d, r, n) == r.sizes = [i \in 1 .. n |-> d.sizes[i]]
Counts(d, r)   == r.symbols = Len(d.symbols) /\ r.strtab = d.strtab
Full(d, r)     == r.sizes = d.sizes /\ Counts(d, r)
InRelocs(d, r, s) == r.rela = d.rela[s] /\ r.relocs = Len(d.relocs[s])

StandsInHeader(d, id, r, ws) ==
  \E n \in 1 .. 8 :
    /\ id = <<"header", n, 0>> /\ ws = HeaderRest(d, n) /\ Sized(d, r, 0)
    /\ (n > 6 => r.symbols = Len(d.symbols)) /\ (n > 7 => r.strtab = d.strtab)
StandsInSections(d, id, r, ws) ==
  \E s \in 1 .. 6 :
    /\ Counts(d, r)
    /\ \/ id = <<"size", s, 0>> /\ ws = SizeRest(d, s) /\ Sized(d, r, s - 1)
       \/ id = <<"alignment", s, 0>> /\ ws = AlignmentRest(d, s) /\ Sized(d, r, s)
StandsInContents(d, id, r, ws) ==
  \E n \in 1 .. Len(LoadOrder(d.sizes)) :
    id = <<"contents", LoadOrder(d.sizes)[n], 0>> /\ ws = ContentsRest(d, n) /\ Full(d, r)
StandsAtStrtab(d, id, r, ws) ==
  id = <<"strtab", 0, 0>> /\ ws = AfterContents(d) /\ Full(d, r)
StandsInSymbols(d, id, r, ws) ==
  \E n \in 1 .. Len(d.symbols) :
    /\ Full(d, r)
    /\ \/ id = <<"data", n, 0>> /\ ws = DataRest(d, n)
       \/ id = <<"symname", n, 0>> /\ ws = SymNameRest(d, n)
       \/ id = <<"value", n, 0>> /\ ws = ValueRest(d, n)
StandsAtRelocs(d, id, r, ws) ==
  \E s \in 1 .. 6 : id = <<"relocs", s, 0>> /\ ws = RelocsRest(d, s)
StandsInRecords(d, id, r, ws) ==
  \E s \in 1 .. 6 : \E i \in 1 .. Len(d.relocs[s]) :
    /\ InRelocs(d, r, s)
    /\ \/ id = <<"info", s, i>> /\ ws = InfoRest(d, s, i)
       \/ id = <<"offset", s, i>> /\ ws = OffsetRest(d, s, i) /\ r.rec = d.relocs[s][i]
       \/ id = <<"addend", s, i>> /\ ws = AddendRest(d, s, i) /\ r.rec = d.relocs[s][i]
       \/ id = <<"name", s, i>> /\ ws = NameRest(d, s, i)
DoneId == <<"done", 0, 0>>
StandsAtEnd(d, id, r, ws) == id = DoneId /\ ws = <<>>

Stands(d, id, r, ws) ==
  /\ IsRap(r)
  /\ \/ StandsInHeader(d, id, r, ws) \/ StandsInSections(d, id, r, ws)
     \/ StandsInContents(d, id, r, ws) \/ StandsAtStrtab(d, id, r, ws)
     \/ StandsInSymbols(d, id, r, ws) \/ StandsAtRelocs(d, id, r, ws)
     \/ StandsInRecords(d, id, r, ws) \/ StandsAtEnd(d, id, r, ws)

\* The field the loader wants is the first of what is to come.
Opens(ws, id, len) ==
  IF id = DoneId THEN ws = <<>> /\ len = 0
  ELSE \E w, rest : Field(ws, w, rest) /\ w.id = id /\ w.len = len

\* The loader has the field that is first, and goes on to the next one.
Follows(d, ws) ==
  \E w, rest : /\ Field(ws, w, rest) /\ w.id = at
               /\ Stands(d, at', rap', rest) /\ Opens(rest, at', need') /\ got' = <<>>

LEMMA HeaderStands ==
  ASSUME NEW d, IsDescription(d), NEW ws, Stands(d, at, rap, ws), Header,
         \A w, rest : Field(ws, w, rest) => val = w.val
  PROVE  Follows(d, ws)
<1>1. PICK n \in 1 .. 8 :
        /\ at = <<"header", n, 0>> /\ ws = HeaderRest(d, n) /\ Sized(d, rap, 0)
        /\ (n > 6 => rap.symbols = Len(d.symbols)) /\ (n > 7 => rap.strtab = d.strtab)
  <2>1. at[1] = "header"
    BY DEF Header, Has
  <2>2. StandsInHeader(d, at, rap, ws)
    BY <2>1 DEF Stands, StandsInSections, StandsInContents, StandsAtStrtab, StandsInSymbols,
                StandsAtRelocs, StandsInRecords, StandsAtEnd, DoneId
  <2>. QED
    BY <2>2 DEF StandsInHeader
<1>2. at[2] = n /\ IsRap(rap)
  BY <1>1 DEF Stands
<1>3. Field(ws, HeaderWords(d)[n], HeaderRest(d, n + 1))
  BY <1>1, HeaderField
<1>. DEFINE v == CASE n = 6 -> Len(d.symbols) [] n = 7 -> d.strtab [] OTHER -> d.machine
            w == HeaderWords(d)[n]
<1>4. w = Word(<<"header", n, 0>>, v)
  BY DEF HeaderWords
<1>5. val = v /\ w.id = at
  <2>1. val = w.val
    BY <1>3
  <2>2. w.val = v /\ w.id = <<"header", n, 0>>
    <3>. HIDE DEF v, w
    <3>. QED
      BY <1>4 DEF Word
  <2>. QED
    BY <1>1, <2>1, <2>2
<1>6. rap' = CASE n = 6 -> [rap EXCEPT !.symbols = val]
               [] n = 7 -> [rap EXCEPT !.strtab = val]
               [] OTHER -> rap
  BY <1>2 DEF Header
<1>7. /\ IsRap(rap') /\ Sized(d, rap', 0)
      /\ (n + 1 > 6 => rap'.symbols = Len(d.symbols)) /\ (n + 1 > 7 => rap'.strtab = d.strtab)
  <2>. HIDE DEF w
  <2>1. CASE n = 6
    <3>1. rap' = [rap EXCEPT !.symbols = Len(d.symbols)]
      BY <1>5, <1>6, <2>1
    <3>. QED
      BY <1>1, <1>2, <2>1, <3>1 DEF IsRap, Sized
  <2>2. CASE n = 7
    <3>1. rap' = [rap EXCEPT !.strtab = d.strtab]
      BY <1>5, <1>6, <2>2
    <3>. QED
      BY <1>1, <1>2, <2>2, <3>1 DEF IsRap, Sized
  <2>3. CASE n # 6 /\ n # 7
    <3>1. rap' = rap
      BY <1>6, <2>3
    <3>. QED
      BY <1>1, <1>2, <2>3, <3>1 DEF IsRap, Sized
  <2>. QED
    BY <2>1, <2>2, <2>3
<1>. HIDE DEF v, w
<1>8. CASE n < 8
  <2>1. at' = <<"header", n + 1, 0>> /\ need' = WordLen /\ got' = <<>> /\ n + 1 \in 1 .. 8
    BY <1>2, <1>8 DEF Header, WantWord, Want
  <2>2. Stands(d, at', rap', HeaderRest(d, n + 1))
    BY <1>7, <2>1 DEF Stands, StandsInHeader
  <2>3. Field(HeaderRest(d, n + 1), HeaderWords(d)[n + 1], HeaderRest(d, (n + 1) + 1))
    BY <2>1, HeaderField
  <2>4. HeaderWords(d)[n + 1].id = at' /\ HeaderWords(d)[n + 1].len = WordLen
    BY <2>1 DEF HeaderWords, Word
  <2>5. Opens(HeaderRest(d, n + 1), at', need')
    BY <2>1, <2>3, <2>4 DEF Opens, DoneId
  <2>. QED
    BY <1>3, <1>5, <2>1, <2>2, <2>5 DEF Follows, w
<1>9. CASE n = 8
  <2>1. at' = <<"size", 1, 0>> /\ need' = WordLen /\ got' = <<>> /\ n + 1 = 9
    BY <1>2, <1>9 DEF Header, WantWord, Want
  <2>2. HeaderRest(d, n + 1) = SizeRest(d, 1)
    BY <2>1, HeaderEnds
  <2>3. Counts(d, rap') /\ Sized(d, rap', 1 - 1) /\ 1 \in 1 .. 6
    BY <1>7, <1>9 DEF Counts
  <2>4. StandsInSections(d, at', rap', SizeRest(d, 1))
    BY <2>1, <2>3 DEF StandsInSections
  <2>5. Stands(d, at', rap', SizeRest(d, 1))
    BY <1>7, <2>4 DEF Stands
  <2>6. Field(SizeRest(d, 1), Word(<<"size", 1, 0>>, d.sizes[1]), AlignmentRest(d, 1))
    BY SizeField
  <2>7. Opens(SizeRest(d, 1), at', need')
    BY <2>1, <2>6 DEF Opens, Word, DoneId
  <2>. QED
    BY <1>3, <1>5, <2>1, <2>2, <2>5, <2>7 DEF Follows, w
<1>. QED
  BY <1>8, <1>9

\* The name of a field says where in the file the loader stands.
LEMMA StandsBy ==
  ASSUME NEW d, NEW id, NEW r, NEW ws, Stands(d, id, r, ws)
  PROVE  /\ id[1] \in {"size", "alignment"} => StandsInSections(d, id, r, ws)
         /\ id[1] = "contents" => StandsInContents(d, id, r, ws)
         /\ id[1] = "strtab" => StandsAtStrtab(d, id, r, ws)
         /\ id[1] \in {"data", "symname", "value"} => StandsInSymbols(d, id, r, ws)
         /\ id[1] = "relocs" => StandsAtRelocs(d, id, r, ws)
         /\ id[1] \in {"info", "offset", "addend", "name"} => StandsInRecords(d, id, r, ws)
         /\ id[1] = "done" => ws = <<>>
<1>1. StandsInHeader(d, id, r, ws) => id[1] = "header"
  BY DEF StandsInHeader
<1>2. StandsInSections(d, id, r, ws) => id[1] \in {"size", "alignment"}
  BY DEF StandsInSections
<1>3. StandsInContents(d, id, r, ws) => id[1] = "contents"
  BY DEF StandsInContents
<1>4. StandsAtStrtab(d, id, r, ws) => id[1] = "strtab"
  BY DEF StandsAtStrtab
<1>5. StandsInSymbols(d, id, r, ws) => id[1] \in {"data", "symname", "value"}
  BY DEF StandsInSymbols
<1>6. StandsAtRelocs(d, id, r, ws) => id[1] = "relocs"
  BY DEF StandsAtRelocs
<1>7. StandsInRecords(d, id, r, ws) => id[1] \in {"info", "offset", "addend", "name"}
  BY DEF StandsInRecords
<1>8. StandsAtEnd(d, id, r, ws) => id[1] = "done" /\ ws = <<>>
  BY DEF StandsAtEnd, DoneId
<1>. QED
  BY <1>1, <1>2, <1>3, <1>4, <1>5, <1>6, <1>7, <1>8 DEF Stands

LEMMA SizeStands ==
  ASSUME NEW d, IsDescription(d), NEW ws, Stands(d, at, rap, ws), Size,
         \A w, rest : Field(ws, w, rest) => val = w.val
  PROVE  Follows(d, ws)
<1>1. at[1] = "size" /\ IsRap(rap)
  BY DEF Size, Has, Stands
<1>2. PICK s \in 1 .. 6 : /\ at = <<"size", s, 0>> /\ ws = SizeRest(d, s) /\ Sized(d, rap, s - 1)
                          /\ Counts(d, rap)
  BY <1>1, StandsBy DEF StandsInSections
<1>. DEFINE w == Word(<<"size", s, 0>>, d.sizes[s])
<1>3. Field(ws, w, AlignmentRest(d, s)) /\ w.id = at /\ w.val = d.sizes[s]
  BY <1>2, SizeField DEF Word
<1>4. val = d.sizes[s]
  BY <1>3
<1>5. rap' = [rap EXCEPT !.sizes = Append(@, val)] /\ at' = <<"alignment", s, 0>> /\ need' = WordLen
      /\ got' = <<>>
  BY <1>2 DEF Size, WantWord, Want
<1>6. Append(rap.sizes, d.sizes[s]) = [i \in 1 .. s |-> d.sizes[i]]
  <2>1. rap.sizes = [i \in 1 .. s - 1 |-> d.sizes[i]] /\ d.sizes \in [1 .. 6 -> Nat]
    BY <1>2 DEF Sized, IsDescription
  <2>2. rap.sizes \in Seq(Nat) /\ Len(rap.sizes) = s - 1 /\ \A i \in 1 .. s - 1 : rap.sizes[i] = d.sizes[i]
    <3>1. s - 1 \in Nat /\ \A i \in 1 .. s - 1 : i \in 1 .. 6
      OBVIOUS
    <3>2. rap.sizes \in [1 .. s - 1 -> Nat] /\ \A i \in 1 .. s - 1 : rap.sizes[i] = d.sizes[i]
      BY <2>1, <3>1, SMTT(30)
    <3>. DEFINE x == rap.sizes
                n == s - 1
    <3>. HIDE DEF x, n
    <3>3. x \in [1 .. n -> Nat] /\ n \in Nat
      BY <3>1, <3>2 DEF x, n
    <3>4. DOMAIN x = 1 .. n /\ x = [i \in 1 .. n |-> x[i]] /\ Range(x) \subseteq Nat
      BY <3>3 DEF Range
    <3>5. IsSeq(x) /\ Len(x) = n
      BY <3>3, <3>4, MadeSeq
    <3>6. x \in Seq(Nat)
      BY <3>4, <3>5, SeqMonotonic DEF IsSeq
    <3>. QED
      BY <3>2, <3>5, <3>6 DEF x, n
  <2>. DEFINE t == Append(rap.sizes, d.sizes[s])
  <2>3. /\ t \in Seq(Nat) /\ Len(t) = s /\ t[s] = d.sizes[s]
        /\ \A i \in 1 .. s - 1 : t[i] = d.sizes[i]
    <3>. DEFINE x == rap.sizes
                y == d.sizes[s]
    <3>1. x \in Seq(Nat) /\ Len(x) = s - 1 /\ y \in Nat
      BY <2>1, <2>2
    <3>. HIDE DEF x, y
    <3>2. /\ Append(x, y) \in Seq(Nat) /\ Len(Append(x, y)) = Len(x) + 1
          /\ \A i \in 1 .. Len(x) : Append(x, y)[i] = x[i]
          /\ Append(x, y)[Len(x) + 1] = y
      BY <3>1, AppendProperties
    <3>3. Len(x) + 1 = s
      BY <3>1
    <3>4. \A i \in 1 .. s - 1 : Append(x, y)[i] = d.sizes[i]
      BY <2>2, <3>1, <3>2 DEF x
    <3>. QED
      BY <3>2, <3>3, <3>4 DEF x, y
  <2>4. \A i \in 1 .. s : t[i] = d.sizes[i]
    <3>1. \A i \in 1 .. s : i = s \/ i \in 1 .. s - 1
      OBVIOUS
    <3>. QED
      BY <2>3, <3>1
  <2>5. t = [i \in 1 .. s |-> t[i]]
    BY <2>3, SeqHas, SeqOver
  <2>. QED
    BY <2>4, <2>5
<1>7. IsRap(rap') /\ Counts(d, rap') /\ Sized(d, rap', s)
  <2>. DEFINE x == Append(rap.sizes, d.sizes[s])
  <2>1. rap' = [rap EXCEPT !.sizes = x]
    BY <1>4, <1>5
  <2>. HIDE DEF x
  <2>2. IsRap(rap') /\ Counts(d, rap') /\ rap'.sizes = x
    BY <1>1, <1>2, <2>1 DEF IsRap, Counts
  <2>. QED
    BY <1>6, <2>2 DEF Sized, x
<1>8. StandsInSections(d, at', rap', AlignmentRest(d, s))
  BY <1>5, <1>7 DEF StandsInSections
<1>9. Stands(d, at', rap', AlignmentRest(d, s))
  BY <1>7, <1>8 DEF Stands
<1>10. Opens(AlignmentRest(d, s), at', need')
  <2>1. Field(AlignmentRest(d, s), Word(<<"alignment", s, 0>>, 0), SizeRest(d, s + 1))
    BY SizeField
  <2>. QED
    BY <1>5, <2>1 DEF Opens, DoneId, Word
<1>. QED
  BY <1>3, <1>5, <1>9, <1>10 DEF Follows

LEMMA AlignmentStands ==
  ASSUME NEW d, IsDescription(d), NEW ws, Stands(d, at, rap, ws), Alignment
  PROVE  Follows(d, ws)
<1>1. at[1] = "alignment" /\ IsRap(rap) /\ rap' = rap
  BY DEF Alignment, Has, Stands
<1>2. PICK s \in 1 .. 6 : /\ at = <<"alignment", s, 0>> /\ ws = AlignmentRest(d, s) /\ Sized(d, rap, s)
                          /\ Counts(d, rap)
  BY <1>1, StandsBy DEF StandsInSections
<1>. DEFINE w == Word(<<"alignment", s, 0>>, 0)
<1>3. Field(ws, w, SizeRest(d, s + 1)) /\ w.id = at
  BY <1>2, SizeField DEF Word
<1>4. CASE s < 6
  <2>1. at' = <<"size", s + 1, 0>> /\ need' = WordLen /\ got' = <<>> /\ s + 1 \in 1 .. 6
    BY <1>2, <1>4 DEF Alignment, WantWord, Want
  <2>2. (s + 1) - 1 = s
    OBVIOUS
  <2>3. StandsInSections(d, at', rap', SizeRest(d, s + 1))
    BY <1>1, <1>2, <2>1, <2>2 DEF StandsInSections
  <2>4. Stands(d, at', rap', SizeRest(d, s + 1))
    BY <1>1, <2>3 DEF Stands
  <2>5. Field(SizeRest(d, s + 1), Word(<<"size", s + 1, 0>>, d.sizes[s + 1]), AlignmentRest(d, s + 1))
    BY <2>1, SizeField
  <2>6. Opens(SizeRest(d, s + 1), at', need')
    BY <2>1, <2>5 DEF Opens, DoneId, Word
  <2>. QED
    BY <1>3, <2>1, <2>4, <2>6 DEF Follows
<1>5. CASE s = 6
  <2>1. rap.sizes = d.sizes /\ s + 1 = 7
    <3>1. rap.sizes = [i \in 1 .. 6 |-> d.sizes[i]] /\ d.sizes \in [1 .. 6 -> Nat]
      BY <1>2, <1>5 DEF Sized, IsDescription
    <3>. QED
      BY <1>5, <3>1
  <2>2. SizeRest(d, s + 1) = ContentsRest(d, 1)
    BY <2>1, SizeEnds
  <2>3. WantContents(LoadOrder(rap.sizes))
    BY <1>2, <1>5 DEF Alignment
  <2>. DEFINE order == LoadOrder(d.sizes)
  <2>4. WantContents(order) /\ Full(d, rap') /\ IsSeq(order) /\ rap.sizes = d.sizes /\ rap.strtab = d.strtab
    BY <1>1, <1>2, <2>1, <2>3, PartsOfStream DEF Full, Counts, Once
  <2>5. CASE order = <<>>
    <3>1. at' = <<"strtab", 0, 0>> /\ need' = d.strtab /\ got' = <<>>
      BY <2>4, <2>5 DEF WantContents, Want
    <3>2. Len(order) = 0
      BY <2>5, NoSeq
    <3>3. ContentsRest(d, 1) = AfterContents(d)
      <4>1. Len(order) + 1 = 1
        BY <3>2
      <4>. QED
        BY <4>1, ContentsEnd
    <3>4. Stands(d, at', rap', AfterContents(d))
      BY <1>1, <2>4, <3>1 DEF Stands, StandsAtStrtab
    <3>5. Opens(AfterContents(d), at', need')
      <4>1. Field(AfterContents(d), Bytes(<<"strtab", 0, 0>>, d.strtab), DataRest(d, 1))
        BY ContentsEnd
      <4>. QED
        BY <3>1, <4>1 DEF Opens, DoneId, Bytes
    <3>. QED
      BY <1>3, <2>2, <3>1, <3>3, <3>4, <3>5 DEF Follows
  <2>6. CASE order # <<>>
    <3>1. at' = <<"contents", order[1], 0>> /\ need' = d.sizes[order[1]] /\ got' = <<>>
      BY <2>4, <2>6 DEF WantContents, Want
    <3>2. 1 \in 1 .. Len(order)
      <4>1. order \in Seq(Range(order))
        BY <2>4 DEF IsSeq
      <4>. HIDE DEF order
      <4>2. Len(order) # 0 /\ Len(order) \in Nat
        BY <2>6, <4>1, EmptySeq, LenProperties
      <4>. QED
        BY <4>2
    <3>3. StandsInContents(d, at', rap', ContentsRest(d, 1))
      BY <2>4, <3>1, <3>2 DEF StandsInContents
    <3>4. Stands(d, at', rap', ContentsRest(d, 1))
      BY <1>1, <3>3 DEF Stands
    <3>5. Field(ContentsRest(d, 1), Bytes(<<"contents", order[1], 0>>, d.sizes[order[1]]),
                ContentsRest(d, 1 + 1))
      BY <3>2, ContentsField
    <3>. HIDE DEF order
    <3>6. Opens(ContentsRest(d, 1), at', need')
      BY <3>1, <3>5 DEF Opens, DoneId, Bytes
    <3>. QED
      BY <1>3, <2>2, <3>1, <3>4, <3>6 DEF Follows
  <2>. QED
    BY <2>5, <2>6
<1>. QED
  BY <1>4, <1>5

LEMMA ContentsStands ==
  ASSUME NEW d, IsDescription(d), NEW ws, Stands(d, at, rap, ws), Contents
  PROVE  Follows(d, ws)
<1>. DEFINE order == LoadOrder(d.sizes)
<1>1. at[1] = "contents" /\ IsRap(rap) /\ rap' = rap
  BY DEF Contents, Has, Stands
<1>2. PICK n \in 1 .. Len(order) :
        at = <<"contents", order[n], 0>> /\ ws = ContentsRest(d, n) /\ Full(d, rap)
  BY <1>1, StandsBy DEF StandsInContents
<1>3. Once(order) /\ IsSeq(order) /\ Len(order) \in Nat /\ DOMAIN order = 1 .. Len(order)
  BY PartsOfStream, SeqHas DEF Once
<1>4. rap.sizes = d.sizes /\ rap.strtab = d.strtab
  BY <1>2 DEF Full, Counts
<1>5. WantContents(SubSeq(order, n + 1, Len(order)))
  <2>. DEFINE i == CHOOSE m \in DOMAIN order : order[m] = at[2]
  <2>1. WantContents(SubSeq(order, i + 1, Len(order)))
    BY <1>4 DEF Contents
  <2>2. at[2] = order[n] /\ n \in DOMAIN order
    BY <1>2, <1>3
  <2>. HIDE DEF order
  <2>3. i \in DOMAIN order /\ order[i] = order[n]
    BY <2>2
  <2>4. i = n
    <3>. HIDE DEF i
    <3>. QED
      BY <1>3, <2>3 DEF Once
  <2>. QED
    BY <2>1, <2>4
<1>. DEFINE w == Bytes(<<"contents", order[n], 0>>, d.sizes[order[n]])
<1>6. Field(ws, w, ContentsRest(d, n + 1)) /\ w.id = at
  BY <1>2, ContentsField DEF Bytes
<1>. HIDE DEF w
<1>7. CASE n = Len(order)
  <2>. HIDE DEF order
  <2>1. SubSeq(order, n + 1, Len(order)) = <<>>
    BY <1>3, <1>7, SubSeqEmpty
  <2>2. at' = <<"strtab", 0, 0>> /\ need' = d.strtab /\ got' = <<>>
    BY <1>4, <1>5, <2>1 DEF WantContents, Want
  <2>3. ContentsRest(d, n + 1) = AfterContents(d)
    BY <1>7, ContentsEnd DEF order
  <2>4. Stands(d, at', rap', AfterContents(d))
    BY <1>1, <1>2, <2>2 DEF Stands, StandsAtStrtab
  <2>5. Field(AfterContents(d), Bytes(<<"strtab", 0, 0>>, d.strtab), DataRest(d, 1))
    BY ContentsEnd
  <2>6. Opens(AfterContents(d), at', need')
    BY <2>2, <2>5 DEF Opens, DoneId, Bytes
  <2>. QED
    BY <1>6, <2>2, <2>3, <2>4, <2>6 DEF Follows
<1>8. CASE n # Len(order)
  <2>1. n + 1 \in 1 .. Len(order) /\ Len(order) \in (n + 1) - 1 .. Len(order)
        /\ n + 1 \in 1 .. Len(order) + 1 /\ Len(order) - (n + 1) + 1 >= 1
        /\ 1 \in 1 .. Len(order) - (n + 1) + 1 /\ (n + 1) + 1 - 1 = n + 1
    <3>. DEFINE l == Len(order)
    <3>1. n \in 1 .. l /\ l \in Nat /\ n # l
      BY <1>3, <1>8
    <3>. HIDE DEF l
    <3>2. /\ n + 1 \in 1 .. l /\ l \in (n + 1) - 1 .. l /\ n + 1 \in 1 .. l + 1
          /\ l - (n + 1) + 1 >= 1 /\ 1 \in 1 .. l - (n + 1) + 1 /\ (n + 1) + 1 - 1 = n + 1
      BY <3>1
    <3>. QED
      BY <3>2 DEF l
  <2>. DEFINE t == SubSeq(order, n + 1, Len(order))
  <2>. HIDE DEF order
  <2>2. t[1] = order[n + 1] /\ Len(t) >= 1
    <3>1. /\ Len(t) = Len(order) - (n + 1) + 1
          /\ \A i \in 1 .. Len(order) - (n + 1) + 1 : t[i] = order[(n + 1) + i - 1]
      BY <1>3, <2>1, PartOf
    <3>. HIDE DEF t
    <3>2. t[1] = order[(n + 1) + 1 - 1]
      BY <2>1, <3>1
    <3>. QED
      BY <2>1, <3>1, <3>2
  <2>. HIDE DEF t
  <2>3. t # <<>>
    BY <2>2, NoSeq
  <2>4. WantContents(t)
    BY <1>5 DEF t
  <2>5. at' = <<"contents", order[n + 1], 0>> /\ need' = d.sizes[order[n + 1]] /\ got' = <<>>
    BY <1>4, <2>2, <2>3, <2>4 DEF WantContents, Want
  <2>6. StandsInContents(d, at', rap', ContentsRest(d, n + 1))
    BY <1>1, <1>2, <2>1, <2>5 DEF StandsInContents, order
  <2>7. Stands(d, at', rap', ContentsRest(d, n + 1))
    BY <1>1, <2>6 DEF Stands
  <2>8. Field(ContentsRest(d, n + 1), Bytes(<<"contents", order[n + 1], 0>>, d.sizes[order[n + 1]]),
              ContentsRest(d, (n + 1) + 1))
    BY <2>1, ContentsField DEF order
  <2>9. Opens(ContentsRest(d, n + 1), at', need')
    BY <2>5, <2>8 DEF Opens, DoneId, Bytes
  <2>. QED
    BY <1>6, <2>5, <2>7, <2>9 DEF Follows
<1>. QED
  BY <1>7, <1>8

\* What the loader wants next, and that it stands there.
GoesTo(d, ws) == Stands(d, at', rap', ws) /\ Opens(ws, at', need') /\ got' = <<>>

LEMMA ToRelocs ==
  ASSUME NEW d, IsDescription(d), NEW s \in 1 .. 6, WantWord("relocs", s, 0), IsRap(rap')
  PROVE  GoesTo(d, RelocsRest(d, s))
<1>1. at' = <<"relocs", s, 0>> /\ need' = WordLen /\ got' = <<>>
  BY DEF WantWord, Want
<1>2. Stands(d, at', rap', RelocsRest(d, s))
  BY <1>1 DEF Stands, StandsAtRelocs
<1>3. Field(RelocsRest(d, s), Word(<<"relocs", s, 0>>, [rela |-> d.rela[s], n |-> Len(d.relocs[s])]),
            InfoRest(d, s, 1))
  BY RelocsField
<1>4. Opens(RelocsRest(d, s), at', need')
  BY <1>1, <1>3 DEF Opens, DoneId, Word
<1>. QED
  BY <1>1, <1>2, <1>4 DEF GoesTo

LEMMA ToSymbol ==
  ASSUME NEW d, IsDescription(d), NEW n \in 1 .. Len(d.symbols) + 1, WantSymbol(n),
         IsRap(rap'), Full(d, rap'), rap.symbols = rap'.symbols
  PROVE  GoesTo(d, DataRest(d, n))
<1>1. Len(d.symbols) \in Nat /\ rap.symbols = Len(d.symbols)
  BY PartsOfStream DEF Full, Counts
<1>2. CASE n <= Len(d.symbols)
  <2>1. at' = <<"data", n, 0>> /\ need' = WordLen /\ got' = <<>> /\ n \in 1 .. Len(d.symbols)
    BY <1>1, <1>2 DEF WantSymbol, WantWord, Want
  <2>2. StandsInSymbols(d, at', rap', DataRest(d, n))
    BY <2>1 DEF StandsInSymbols
  <2>3. Stands(d, at', rap', DataRest(d, n))
    BY <2>2 DEF Stands
  <2>4. Field(DataRest(d, n), Word(<<"data", n, 0>>, d.symbols[n]), SymNameRest(d, n))
    BY <2>1, SymbolField
  <2>5. Opens(DataRest(d, n), at', need')
    BY <2>1, <2>4 DEF Opens, DoneId, Word
  <2>. QED
    BY <2>1, <2>3, <2>5 DEF GoesTo
<1>3. CASE ~ (n <= Len(d.symbols))
  <2>1. n = Len(d.symbols) + 1
    BY <1>1, <1>3
  <2>2. DataRest(d, n) = RelocsRest(d, 1)
    BY <2>1, SymbolsEnd
  <2>3. WantWord("relocs", 1, 0)
    BY <1>1, <1>3 DEF WantSymbol
  <2>4. 1 \in 1 .. 6
    OBVIOUS
  <2>5. GoesTo(d, RelocsRest(d, 1))
    BY <2>3, <2>4, ToRelocs
  <2>. QED
    BY <2>2, <2>5
<1>. QED
  BY <1>2, <1>3

LEMMA StrtabStands ==
  ASSUME NEW d, IsDescription(d), NEW ws, Stands(d, at, rap, ws), Strtab
  PROVE  Follows(d, ws)
<1>1. at[1] = "strtab" /\ IsRap(rap) /\ rap' = rap /\ WantSymbol(1)
  BY DEF Strtab, Has, Stands
<1>2. at = <<"strtab", 0, 0>> /\ ws = AfterContents(d) /\ Full(d, rap)
  BY <1>1, StandsBy DEF StandsAtStrtab
<1>3. 1 \in 1 .. Len(d.symbols) + 1
  BY PartsOfStream
<1>4. GoesTo(d, DataRest(d, 1))
  BY <1>1, <1>2, <1>3, ToSymbol
<1>. DEFINE w == Bytes(<<"strtab", 0, 0>>, d.strtab)
<1>5. Field(ws, w, DataRest(d, 1)) /\ w.id = at
  BY <1>2, ContentsEnd DEF Bytes
<1>. QED
  BY <1>4, <1>5 DEF Follows, GoesTo

LEMMA DataStands ==
  ASSUME NEW d, IsDescription(d), NEW ws, Stands(d, at, rap, ws), Data
  PROVE  Follows(d, ws)
<1>1. at[1] = "data" /\ IsRap(rap)
  BY DEF Data, Has, Stands
<1>2. PICK n \in 1 .. Len(d.symbols) : at = <<"data", n, 0>> /\ ws = DataRest(d, n) /\ Full(d, rap)
  BY <1>1, StandsBy DEF StandsInSymbols
<1>3. rap' = [rap EXCEPT !.rec = val] /\ at' = <<"symname", n, 0>> /\ need' = WordLen /\ got' = <<>>
  BY <1>2 DEF Data, WantWord, Want
<1>4. IsRap(rap') /\ Full(d, rap')
  BY <1>1, <1>2, <1>3 DEF IsRap, Full, Counts
<1>5. StandsInSymbols(d, at', rap', SymNameRest(d, n))
  BY <1>3, <1>4 DEF StandsInSymbols
<1>6. Stands(d, at', rap', SymNameRest(d, n))
  BY <1>4, <1>5 DEF Stands
<1>. DEFINE w == Word(<<"data", n, 0>>, d.symbols[n])
<1>7. Field(ws, w, SymNameRest(d, n)) /\ w.id = at
  BY <1>2, SymbolField DEF Word
<1>8. Field(SymNameRest(d, n), Word(<<"symname", n, 0>>, 0), ValueRest(d, n))
  BY SymbolField
<1>9. Opens(SymNameRest(d, n), at', need')
  BY <1>3, <1>8 DEF Opens, DoneId, Word
<1>. QED
  BY <1>3, <1>6, <1>7, <1>9 DEF Follows

LEMMA SymNameStands ==
  ASSUME NEW d, IsDescription(d), NEW ws, Stands(d, at, rap, ws), SymName
  PROVE  Follows(d, ws)
<1>1. at[1] = "symname" /\ IsRap(rap) /\ rap' = rap
  BY DEF SymName, Has, Stands
<1>2. PICK n \in 1 .. Len(d.symbols) : at = <<"symname", n, 0>> /\ ws = SymNameRest(d, n) /\ Full(d, rap)
  BY <1>1, StandsBy DEF StandsInSymbols
<1>3. at' = <<"value", n, 0>> /\ need' = WordLen /\ got' = <<>>
  BY <1>2 DEF SymName, WantWord, Want
<1>5. StandsInSymbols(d, at', rap', ValueRest(d, n))
  BY <1>1, <1>2, <1>3 DEF StandsInSymbols
<1>6. Stands(d, at', rap', ValueRest(d, n))
  BY <1>1, <1>5 DEF Stands
<1>. DEFINE w == Word(<<"symname", n, 0>>, 0)
<1>7. Field(ws, w, ValueRest(d, n)) /\ w.id = at
  BY <1>2, SymbolField DEF Word
<1>8. Field(ValueRest(d, n), Word(<<"value", n, 0>>, 0), DataRest(d, n + 1))
  BY SymbolField
<1>9. Opens(ValueRest(d, n), at', need')
  BY <1>3, <1>8 DEF Opens, DoneId, Word
<1>. QED
  BY <1>3, <1>6, <1>7, <1>9 DEF Follows

LEMMA ValueStands ==
  ASSUME NEW d, IsDescription(d), NEW ws, Stands(d, at, rap, ws), Value
  PROVE  Follows(d, ws)
<1>1. at[1] = "value" /\ IsRap(rap) /\ rap' = rap
  BY DEF Value, Has, Stands
<1>2. PICK n \in 1 .. Len(d.symbols) : at = <<"value", n, 0>> /\ ws = ValueRest(d, n) /\ Full(d, rap)
  BY <1>1, StandsBy DEF StandsInSymbols
<1>3. WantSymbol(n + 1) /\ n + 1 \in 1 .. Len(d.symbols) + 1
  <2>1. at[2] = n
    BY <1>2
  <2>2. Len(d.symbols) \in Nat
    BY PartsOfStream
  <2>. QED
    BY <2>1, <2>2 DEF Value
<1>4. GoesTo(d, DataRest(d, n + 1))
  BY <1>1, <1>2, <1>3, ToSymbol
<1>. DEFINE w == Word(<<"value", n, 0>>, 0)
<1>5. Field(ws, w, DataRest(d, n + 1)) /\ w.id = at
  BY <1>2, SymbolField DEF Word
<1>. QED
  BY <1>4, <1>5 DEF Follows, GoesTo

LEMMA RelocsAreFinite ==
  ASSUME NEW d, IsDescription(d), NEW s \in 1 .. 6
  PROVE  Len(d.relocs[s]) \in Nat
<1>1. IsSeq(d.relocs[s])
  BY DEF IsDescription, IsSeq
<1>. QED
  BY <1>1, SeqHas

LEMMA ToReloc ==
  ASSUME NEW d, IsDescription(d), NEW s \in 1 .. 6, NEW i \in 1 .. Len(d.relocs[s]) + 1,
         WantReloc(s, i), IsRap(rap'), InRelocs(d, rap', s)
  PROVE  GoesTo(d, InfoRest(d, s, i))
<1>1. Len(d.relocs[s]) \in Nat /\ rap'.relocs = Len(d.relocs[s])
  BY RelocsAreFinite DEF InRelocs
<1>2. CASE i <= Len(d.relocs[s])
  <2>1. at' = <<"info", s, i>> /\ need' = WordLen /\ got' = <<>> /\ i \in 1 .. Len(d.relocs[s])
    BY <1>1, <1>2 DEF WantReloc, WantWord, Want
  <2>2. StandsInRecords(d, at', rap', InfoRest(d, s, i))
    BY <2>1 DEF StandsInRecords
  <2>3. Stands(d, at', rap', InfoRest(d, s, i))
    BY <2>2 DEF Stands
  <2>4. Field(InfoRest(d, s, i), Word(<<"info", s, i>>, d.relocs[s][i]), OffsetRest(d, s, i))
    BY <2>1, RecordField
  <2>5. Opens(InfoRest(d, s, i), at', need')
    BY <2>1, <2>4 DEF Opens, DoneId, Word
  <2>. QED
    BY <2>1, <2>3, <2>5 DEF GoesTo
<1>3. CASE ~ (i <= Len(d.relocs[s]))
  <2>1. i = Len(d.relocs[s]) + 1
    BY <1>1, <1>3
  <2>2. InfoRest(d, s, i) = RelocsRest(d, s + 1)
    BY <2>1, RelocsField
  <2>3. CASE s < 6
    <3>1. WantWord("relocs", s + 1, 0) /\ s + 1 \in 1 .. 6
      BY <1>1, <1>3, <2>3 DEF WantReloc
    <3>2. GoesTo(d, RelocsRest(d, s + 1))
      BY <3>1, ToRelocs
    <3>. QED
      BY <2>2, <3>2
  <2>4. CASE ~ (s < 6)
    <3>1. at' = DoneId /\ need' = 0 /\ got' = <<>> /\ s + 1 = 7
      BY <1>1, <1>3, <2>4 DEF WantReloc, Want, DoneId
    <3>2. InfoRest(d, s, i) = <<>>
      BY <2>2, <3>1, RelocsEnd
    <3>. QED
      BY <3>1, <3>2 DEF GoesTo, Stands, StandsAtEnd, Opens
  <2>. QED
    BY <2>3, <2>4
<1>. QED
  BY <1>2, <1>3

LEMMA RelocsStands ==
  ASSUME NEW d, IsDescription(d), NEW ws, Stands(d, at, rap, ws), Relocs,
         \A w, rest : Field(ws, w, rest) => val = w.val
  PROVE  Follows(d, ws)
<1>1. at[1] = "relocs" /\ IsRap(rap)
  BY DEF Relocs, Has, Stands
<1>2. PICK s \in 1 .. 6 : at = <<"relocs", s, 0>> /\ ws = RelocsRest(d, s)
  BY <1>1, StandsBy DEF StandsAtRelocs
<1>. DEFINE w == Word(<<"relocs", s, 0>>, [rela |-> d.rela[s], n |-> Len(d.relocs[s])])
<1>3. Field(ws, w, InfoRest(d, s, 1)) /\ w.id = at /\ val = [rela |-> d.rela[s], n |-> Len(d.relocs[s])]
  <2>1. Field(ws, w, InfoRest(d, s, 1))
    BY <1>2, RelocsField
  <2>2. val = w.val
    BY <2>1
  <2>. QED
    BY <1>2, <2>1, <2>2 DEF Word
<1>4. rap' = [rap EXCEPT !.rela = val.rela, !.relocs = val.n] /\ WantReloc(s, 1)
  BY <1>2 DEF Relocs
<1>5. IsRap(rap') /\ InRelocs(d, rap', s)
  <2>. DEFINE a == d.rela[s]
              b == Len(d.relocs[s])
  <2>1. val.rela = a /\ val.n = b
    BY <1>3
  <2>. HIDE DEF a, b
  <2>2. rap' = [rap EXCEPT !.rela = a, !.relocs = b]
    BY <1>4, <2>1
  <2>3. IsRap(rap') /\ rap'.rela = a /\ rap'.relocs = b
    BY <1>1, <2>2 DEF IsRap
  <2>. QED
    BY <2>3 DEF InRelocs, a, b
<1>6. 1 \in 1 .. Len(d.relocs[s]) + 1
  BY RelocsAreFinite
<1>7. GoesTo(d, InfoRest(d, s, 1))
  BY <1>4, <1>5, <1>6, ToReloc
<1>. HIDE DEF w
<1>. QED
  BY <1>3, <1>7 DEF Follows, GoesTo

LEMMA InfoStands ==
  ASSUME NEW d, IsDescription(d), NEW ws, Stands(d, at, rap, ws), Info,
         \A w, rest : Field(ws, w, rest) => val = w.val
  PROVE  Follows(d, ws)
<1>1. at[1] = "info" /\ IsRap(rap)
  BY DEF Info, Has, Stands
<1>2. PICK s \in 1 .. 6 : \E i \in 1 .. Len(d.relocs[s]) :
        at = <<"info", s, i>> /\ ws = InfoRest(d, s, i) /\ InRelocs(d, rap, s)
  BY <1>1, StandsBy DEF StandsInRecords
<1>3. PICK i \in 1 .. Len(d.relocs[s]) :
        at = <<"info", s, i>> /\ ws = InfoRest(d, s, i) /\ InRelocs(d, rap, s)
  BY <1>2
<1>. DEFINE w == Word(<<"info", s, i>>, d.relocs[s][i])
<1>4. Field(ws, w, OffsetRest(d, s, i)) /\ w.id = at /\ val = d.relocs[s][i]
  <2>1. Field(ws, w, OffsetRest(d, s, i))
    BY <1>3, RecordField
  <2>2. val = w.val
    BY <2>1
  <2>. QED
    BY <1>3, <2>1, <2>2 DEF Word
<1>5. rap' = [rap EXCEPT !.rec = val] /\ at' = <<"offset", s, i>> /\ need' = WordLen /\ got' = <<>>
  BY <1>3 DEF Info, WantWord, Want
<1>6. IsRap(rap') /\ InRelocs(d, rap', s) /\ rap'.rec = d.relocs[s][i]
  <2>. DEFINE a == d.relocs[s][i]
  <2>1. rap' = [rap EXCEPT !.rec = a]
    BY <1>4, <1>5
  <2>. HIDE DEF a
  <2>2. IsRap(rap') /\ rap'.rec = a /\ rap'.rela = rap.rela /\ rap'.relocs = rap.relocs
    BY <1>1, <2>1 DEF IsRap
  <2>. QED
    BY <1>3, <2>2 DEF InRelocs, a
<1>7. StandsInRecords(d, at', rap', OffsetRest(d, s, i))
  BY <1>5, <1>6 DEF StandsInRecords
<1>8. Stands(d, at', rap', OffsetRest(d, s, i))
  BY <1>6, <1>7 DEF Stands
<1>9. Field(OffsetRest(d, s, i), Word(<<"offset", s, i>>, 0), BehindOffset(d, s, i))
  BY RecordField
<1>10. Opens(OffsetRest(d, s, i), at', need')
  BY <1>5, <1>9 DEF Opens, DoneId, Word
<1>. HIDE DEF w
<1>. QED
  BY <1>4, <1>5, <1>8, <1>10 DEF Follows

LEMMA OffsetStands ==
  ASSUME NEW d, IsDescription(d), NEW ws, Stands(d, at, rap, ws), Offset
  PROVE  Follows(d, ws)
<1>1. at[1] = "offset" /\ IsRap(rap) /\ rap' = rap
  BY DEF Offset, Has, Stands
<1>2. PICK s \in 1 .. 6 : \E i \in 1 .. Len(d.relocs[s]) :
        /\ at = <<"offset", s, i>> /\ ws = OffsetRest(d, s, i) /\ InRelocs(d, rap, s)
        /\ rap.rec = d.relocs[s][i]
  BY <1>1, StandsBy DEF StandsInRecords
<1>3. PICK i \in 1 .. Len(d.relocs[s]) :
        /\ at = <<"offset", s, i>> /\ ws = OffsetRest(d, s, i) /\ InRelocs(d, rap, s)
        /\ rap.rec = d.relocs[s][i]
  BY <1>2
<1>. DEFINE w == Word(<<"offset", s, i>>, 0)
<1>4. Field(ws, w, BehindOffset(d, s, i)) /\ w.id = at
  BY <1>3, RecordField DEF Word
<1>5. at' = <<"addend", s, i>> /\ need' = WordLen /\ got' = <<>>
  BY <1>3 DEF Offset, WantWord, Want
<1>6. WithAddend(d, s, i)
  BY <1>3 DEF Offset, HasAddend, WithAddend, InRelocs
<1>7. BehindOffset(d, s, i) = AddendRest(d, s, i)
  BY <1>6 DEF BehindOffset
<1>8. StandsInRecords(d, at', rap', AddendRest(d, s, i))
  BY <1>1, <1>3, <1>5 DEF StandsInRecords
<1>9. Stands(d, at', rap', AddendRest(d, s, i))
  BY <1>1, <1>8 DEF Stands
<1>10. Field(AddendRest(d, s, i), Word(<<"addend", s, i>>, 0), BehindAddend(d, s, i))
  BY RecordField
<1>11. Opens(AddendRest(d, s, i), at', need')
  BY <1>5, <1>10 DEF Opens, DoneId, Word
<1>. HIDE DEF w
<1>. QED
  BY <1>4, <1>5, <1>7, <1>9, <1>11 DEF Follows

\* The last word of a record, and where it stands.
LEMMA RecordedStands ==
  ASSUME NEW d, IsDescription(d), NEW ws, Stands(d, at, rap, ws), Recorded
  PROVE  \E s \in 1 .. 6 : \E i \in 1 .. Len(d.relocs[s]) : \E w :
           /\ at[2] = s /\ at[3] = i /\ InRelocs(d, rap, s) /\ rap.rec = d.relocs[s][i]
           /\ Field(ws, w, BehindAddend(d, s, i)) /\ w.id = at
<1>1. at[1] = "addend" \/ (at[1] = "offset" /\ ~HasAddend)
  BY DEF Recorded, Has
<1>2. PICK s \in 1 .. 6 : \E i \in 1 .. Len(d.relocs[s]) :
        /\ InRelocs(d, rap, s) /\ rap.rec = d.relocs[s][i]
        /\ \/ at = <<"offset", s, i>> /\ ws = OffsetRest(d, s, i)
           \/ at = <<"addend", s, i>> /\ ws = AddendRest(d, s, i)
  BY <1>1, StandsBy DEF StandsInRecords
<1>3. PICK i \in 1 .. Len(d.relocs[s]) :
        /\ InRelocs(d, rap, s) /\ rap.rec = d.relocs[s][i]
        /\ \/ at = <<"offset", s, i>> /\ ws = OffsetRest(d, s, i)
           \/ at = <<"addend", s, i>> /\ ws = AddendRest(d, s, i)
  BY <1>2
<1>4. CASE at = <<"offset", s, i>> /\ ws = OffsetRest(d, s, i)
  <2>. DEFINE w == Word(<<"offset", s, i>>, 0)
  <2>1. ~ WithAddend(d, s, i)
    BY <1>1, <1>3, <1>4 DEF HasAddend, WithAddend, InRelocs
  <2>2. BehindOffset(d, s, i) = BehindAddend(d, s, i)
    BY <2>1 DEF BehindOffset
  <2>3. Field(ws, w, BehindOffset(d, s, i)) /\ w.id = at
    BY <1>4, RecordField DEF Word
  <2>. HIDE DEF w
  <2>4. at[2] = s /\ at[3] = i
    BY <1>4
  <2>. QED
    BY <1>3, <2>2, <2>3, <2>4
<1>5. CASE at = <<"addend", s, i>> /\ ws = AddendRest(d, s, i)
  <2>. DEFINE w == Word(<<"addend", s, i>>, 0)
  <2>3. Field(ws, w, BehindAddend(d, s, i)) /\ w.id = at
    BY <1>5, RecordField DEF Word
  <2>. HIDE DEF w
  <2>4. at[2] = s /\ at[3] = i
    BY <1>5
  <2>. QED
    BY <1>3, <2>3, <2>4
<1>. QED
  BY <1>3, <1>4, <1>5

LEMMA AppendedStands ==
  ASSUME NEW d, IsDescription(d), NEW ws, Stands(d, at, rap, ws), Appended
  PROVE  Follows(d, ws)
<1>1. Recorded /\ NameFollows /\ rap' = rap /\ IsRap(rap)
  BY DEF Appended, Stands
<1>2. PICK s, i, w :
        /\ s \in 1 .. 6 /\ i \in 1 .. Len(d.relocs[s])
        /\ at[2] = s /\ at[3] = i /\ InRelocs(d, rap, s) /\ rap.rec = d.relocs[s][i]
        /\ Field(ws, w, BehindAddend(d, s, i)) /\ w.id = at
  BY <1>1, RecordedStands, ZenonT(30)
<1>3. BehindAddend(d, s, i) = NameRest(d, s, i)
  BY <1>1, <1>2 DEF NameFollows, BehindAddend, WithName
<1>4. at' = <<"name", s, i>> /\ need' = d.relocs[s][i].len /\ got' = <<>>
  BY <1>2 DEF Appended, Want
<1>5. StandsInRecords(d, at', rap', NameRest(d, s, i))
  BY <1>1, <1>2, <1>4 DEF StandsInRecords
<1>6. Stands(d, at', rap', NameRest(d, s, i))
  BY <1>1, <1>5 DEF Stands
<1>7. Field(NameRest(d, s, i), Bytes(<<"name", s, i>>, d.relocs[s][i].len), InfoRest(d, s, i + 1))
  BY <1>2, RecordField
<1>8. Opens(NameRest(d, s, i), at', need')
  BY <1>4, <1>7 DEF Opens, DoneId, Bytes
<1>. QED
  BY <1>2, <1>3, <1>4, <1>6, <1>8 DEF Follows

LEMMA RelocateStands ==
  ASSUME NEW d, IsDescription(d), NEW ws, Stands(d, at, rap, ws), Relocate
  PROVE  Follows(d, ws)
<1>1. /\ (Recorded /\ ~NameFollows) \/ Has("name")
      /\ rap' = rap /\ IsRap(rap) /\ WantReloc(at[2], at[3] + 1)
  BY DEF Relocate, Stands
<1>2. \E s \in 1 .. 6 : \E i \in 1 .. Len(d.relocs[s]) : \E w :
        /\ at[2] = s /\ at[3] = i /\ InRelocs(d, rap, s)
        /\ Field(ws, w, InfoRest(d, s, i + 1)) /\ w.id = at
  <2>1. CASE Recorded /\ ~NameFollows
    <3>1. PICK s, i, w :
            /\ s \in 1 .. 6 /\ i \in 1 .. Len(d.relocs[s])
            /\ at[2] = s /\ at[3] = i /\ InRelocs(d, rap, s) /\ rap.rec = d.relocs[s][i]
            /\ Field(ws, w, BehindAddend(d, s, i)) /\ w.id = at
      BY <2>1, RecordedStands, ZenonT(30)
    <3>2. ~ WithName(d, s, i)
      <4>1. d.relocs[s][i] \in Range(d.relocs[s])
        <5>1. IsSeq(d.relocs[s])
          BY <3>1 DEF IsDescription, IsSeq
        <5>. QED
          BY <3>1, <5>1, SeqHas
      <4>2. d.relocs[s][i].sym = "appended" => d.relocs[s][i].resolves
        BY <3>1, <4>1 DEF IsDescription
      <4>. QED
        BY <2>1, <3>1, <4>2 DEF NameFollows, WithName
    <3>3. BehindAddend(d, s, i) = InfoRest(d, s, i + 1)
      BY <3>2 DEF BehindAddend
    <3>. QED
      BY <3>1, <3>3
  <2>2. CASE Has("name")
    <3>1. at[1] = "name"
      BY <2>2 DEF Has
    <3>2. PICK s \in 1 .. 6 : \E i \in 1 .. Len(d.relocs[s]) :
            at = <<"name", s, i>> /\ ws = NameRest(d, s, i) /\ InRelocs(d, rap, s)
      BY <3>1, StandsBy DEF StandsInRecords
    <3>3. PICK i \in 1 .. Len(d.relocs[s]) :
            at = <<"name", s, i>> /\ ws = NameRest(d, s, i) /\ InRelocs(d, rap, s)
      BY <3>2
    <3>. DEFINE w == Bytes(<<"name", s, i>>, d.relocs[s][i].len)
    <3>4. Field(ws, w, InfoRest(d, s, i + 1)) /\ w.id = at
      BY <3>3, RecordField DEF Bytes
    <3>. HIDE DEF w
    <3>5. at[2] = s /\ at[3] = i
      BY <3>3
    <3>. QED
      BY <3>3, <3>4, <3>5
  <2>. QED
    BY <1>1, <2>1, <2>2
<1>3. PICK s, i, w :
        /\ s \in 1 .. 6 /\ i \in 1 .. Len(d.relocs[s])
        /\ at[2] = s /\ at[3] = i /\ InRelocs(d, rap, s)
        /\ Field(ws, w, InfoRest(d, s, i + 1)) /\ w.id = at
  BY <1>2
<1>4. WantReloc(s, i + 1)
  BY <1>1, <1>3
<1>5. i + 1 \in 1 .. Len(d.relocs[s]) + 1
  BY <1>3, RelocsAreFinite
<1>6. GoesTo(d, InfoRest(d, s, i + 1))
  BY <1>1, <1>3, <1>4, <1>5, ToReloc
<1>. QED
  BY <1>3, <1>6 DEF Follows, GoesTo

-----------------------------------------------------------------------------
(* What has been read of a sequence, and what is behind it. *)

LEMMA Behind ==
  ASSUME NEW s, IsSeq(s), NEW t, IsSeq(t), NEW u, IsSeq(u), NEW m \in 0 .. Len(s),
         SubSeq(s, m + 1, Len(s)) = t \o u
  PROVE  /\ m + Len(t) \in 0 .. Len(s) /\ Len(t) \in Nat /\ Len(s) \in Nat
         /\ SubSeq(s, (m + Len(t)) + 1, Len(s)) = u
         /\ \A i \in 1 .. Len(t) : s[m + i] = t[i]
<1>1. Len(s) \in Nat /\ Len(t) \in Nat /\ Len(u) \in Nat
  BY SeqHas
<1>2. Join(t, u)
  BY Joins
<1>. DEFINE v == t \o u
            ls == Len(s)
            lt == Len(t)
            lu == Len(u)
<1>3. IsSeq(v) /\ Len(v) = lt + lu
  BY <1>2 DEF Join
<1>4. /\ \A i \in 1 .. lt : v[i] = t[i]
      /\ \A i \in 1 .. lu : v[lt + i] = u[i]
  BY <1>2 DEF Join
<1>5. m + Len(v) = ls
  <2>1. m + 1 \in 1 .. ls + 1 /\ ls \in (m + 1) - 1 .. ls
    BY <1>1
  <2>2. Len(SubSeq(s, m + 1, ls)) = ls - (m + 1) + 1
    BY <2>1, PartOf
  <2>3. Len(v) = ls - (m + 1) + 1
    BY <2>2
  <2>. HIDE DEF v, ls
  <2>4. ls \in Nat /\ m \in Nat
    BY <1>1 DEF ls
  <2>. QED
    BY <2>3, <2>4
<1>6. \A i \in 1 .. Len(v) : s[m + i] = v[i]
  <2>1. SubSeq(s, m + 1, Len(s)) = v
    OBVIOUS
  <2>. HIDE DEF v
  <2>2. m + Len(v) = Len(s) /\ IsSeq(v)
    BY <1>3, <1>5
  <2>. HIDE DEF ls, lt, lu
  <2>3. SubSeq(s, m + 1, Len(s)) = v <=> \A i \in 1 .. Len(v) : s[m + i] = v[i]
    BY <2>2, RestEquals
  <2>. QED
    BY <2>1, <2>3
<1>. HIDE DEF v, ls, lt, lu
<1>7. ls \in Nat /\ lt \in Nat /\ lu \in Nat /\ m \in Nat
  BY <1>1 DEF ls, lt, lu
<1>8. m + lt \in 0 .. ls /\ (m + lt) + lu = ls
  BY <1>3, <1>5, <1>7
<1>9. \A i \in 1 .. lt : s[m + i] = t[i]
  <2>1. \A i \in 1 .. lt : i \in 1 .. Len(v)
    BY <1>3, <1>7
  <2>. QED
    BY <1>4, <1>6, <2>1
<1>10. \A i \in 1 .. lu : s[(m + lt) + i] = u[i]
  <2>1. \A i \in 1 .. lu : lt + i \in 1 .. Len(v) /\ m + (lt + i) = (m + lt) + i
    BY <1>3, <1>7
  <2>. QED
    BY <1>4, <1>6, <2>1
<1>11. SubSeq(s, (m + lt) + 1, ls) = u
  <2>. DEFINE p == m + lt
  <2>1. p \in 0 .. Len(s) /\ p + Len(u) = Len(s) /\ \A i \in 1 .. Len(u) : s[p + i] = u[i]
    BY <1>8, <1>10 DEF ls, lu
  <2>. HIDE DEF p
  <2>2. SubSeq(s, p + 1, Len(s)) = u
    BY <2>1, RestEquals
  <2>. QED
    BY <2>2 DEF p, ls
<1>. QED
  BY <1>1, <1>8, <1>9, <1>11 DEF ls, lt

\* The same for a sequence that goes on with t and then with u.
GoesOn(s, m, t, u) == SubSeq(s, m + 1, Len(s)) = t \o u
GoneOn(s, m, t, u) == /\ m + Len(t) \in 0 .. Len(s)
                      /\ SubSeq(s, (m + Len(t)) + 1, Len(s)) = u
                      /\ \A i \in 1 .. Len(t) : s[m + i] = t[i]

LEMMA GoingOn ==
  \A s, t, u : \A m \in 0 .. Len(s) :
    IsSeq(s) /\ IsSeq(t) /\ IsSeq(u) /\ GoesOn(s, m, t, u) => GoneOn(s, m, t, u)
<1>. SUFFICES ASSUME NEW s, NEW t, NEW u, NEW m \in 0 .. Len(s), IsSeq(s), IsSeq(t), IsSeq(u),
                     SubSeq(s, m + 1, Len(s)) = t \o u
              PROVE  GoneOn(s, m, t, u)
  BY DEF GoesOn
<1>1. m + Len(t) \in 0 .. Len(s)
  BY Behind
<1>2. SubSeq(s, (m + Len(t)) + 1, Len(s)) = u
  BY Behind
<1>3. \A i \in 1 .. Len(t) : s[m + i] = t[i]
  BY Behind
<1>. QED
  BY <1>1, <1>2, <1>3 DEF GoneOn

LEMMA AtEnd ==
  ASSUME NEW s, IsSeq(s), NEW m \in 0 .. Len(s), SubSeq(s, m + 1, Len(s)) = <<>>
  PROVE  m = Len(s)
<1>1. Len(s) \in Nat
  BY SeqHas
<1>2. m + 1 \in 1 .. Len(s) + 1 /\ Len(s) \in (m + 1) - 1 .. Len(s)
  BY <1>1
<1>3. Len(SubSeq(s, m + 1, Len(s))) = Len(s) - (m + 1) + 1
  BY <1>2, PartOf
<1>4. Len(s) - (m + 1) + 1 = 0
  BY <1>3, NoSeq
<1>. QED
  BY <1>1, <1>4

\* A part of a sequence, which is in order when its ends are.
LEMMA PartIs ==
  ASSUME NEW s, IsSeq(s), NEW m \in 0 .. Len(s), NEW e \in 0 .. Len(s), m <= e
  PROVE  /\ IsSeq(SubSeq(s, m + 1, e)) /\ Len(SubSeq(s, m + 1, e)) = e - m
         /\ \A i \in 1 .. e - m : SubSeq(s, m + 1, e)[i] = s[m + i]
<1>. DEFINE l == Len(s)
            t == SubSeq(s, m + 1, e)
<1>1. l \in Nat
  BY SeqHas
<1>2. m + 1 \in 1 .. Len(s) + 1 /\ e \in (m + 1) - 1 .. Len(s)
  <2>1. m \in Nat /\ e \in Nat /\ e <= l
    BY <1>1
  <2>. HIDE DEF l
  <2>2. m + 1 \in 1 .. l + 1 /\ e \in (m + 1) - 1 .. l
    BY <1>1, <2>1
  <2>. QED
    BY <2>2 DEF l
<1>3. /\ IsSeq(t) /\ Len(t) = e - (m + 1) + 1
      /\ \A i \in 1 .. e - (m + 1) + 1 : t[i] = s[(m + 1) + i - 1]
  BY <1>2, PartOf
<1>. HIDE DEF t
<1>4. e - (m + 1) + 1 = e - m /\ \A i \in 1 .. e - m : (m + 1) + i - 1 = m + i
  BY <1>1
<1>. QED
  BY <1>3, <1>4 DEF t

LEMMA TakeMore ==
  ASSUME NEW s, IsSeq(s), NEW k \in 0 .. Len(s), NEW m \in 0 .. Len(s), NEW e \in 0 .. Len(s),
         k <= m, m <= e, NEW n \in 0 .. e - m
  PROVE  /\ SubSeq(s, k + 1, m) \o SubSeq(SubSeq(s, m + 1, e), 1, n) = SubSeq(s, k + 1, m + n)
         /\ SubSeq(SubSeq(s, m + 1, e), n + 1, e - m) = SubSeq(s, (m + n) + 1, e)
         /\ m + n \in 0 .. Len(s) /\ m + n <= e
<1>. DEFINE l == Len(s)
            b == SubSeq(s, m + 1, e)
            g == SubSeq(s, k + 1, m)
            h == SubSeq(b, 0 + 1, n)
            r == SubSeq(b, n + 1, e - m)
<1>1. l \in Nat /\ k \in Nat /\ m \in Nat /\ e \in Nat /\ e <= l /\ n \in Nat /\ n <= e - m
  BY SeqHas
<1>2. IsSeq(b) /\ Len(b) = e - m /\ \A i \in 1 .. e - m : b[i] = s[m + i]
  BY PartIs
<1>3. IsSeq(g) /\ Len(g) = m - k /\ \A i \in 1 .. m - k : g[i] = s[k + i]
  BY PartIs
<1>. HIDE DEF b, g, l
<1>4. IsSeq(h) /\ Len(h) = n /\ \A i \in 1 .. n : h[i] = b[i]
  <2>1. 0 \in 0 .. Len(b) /\ n \in 0 .. Len(b) /\ 0 <= n /\ n - 0 = n /\ \A i \in 1 .. n : 0 + i = i
    BY <1>1, <1>2
  <2>2. IsSeq(h) /\ Len(h) = n - 0 /\ \A i \in 1 .. n - 0 : h[i] = b[0 + i]
    BY <1>2, <2>1, PartIs, ZenonT(60)
  <2>. HIDE DEF h
  <2>. QED
    BY <2>1, <2>2
<1>5. IsSeq(r) /\ Len(r) = (e - m) - n /\ \A i \in 1 .. (e - m) - n : r[i] = b[n + i]
  <2>1. n \in 0 .. Len(b) /\ e - m \in 0 .. Len(b) /\ n <= e - m
    BY <1>1, <1>2
  <2>. QED
    BY <1>2, <2>1, PartIs, ZenonT(60)
<1>. HIDE DEF h, r
<1>6. m + n \in 0 .. Len(s) /\ m + n <= e /\ k <= m + n
  BY <1>1 DEF l
<1>. DEFINE x == SubSeq(s, k + 1, m + n)
            y == SubSeq(s, (m + n) + 1, e)
<1>7. IsSeq(x) /\ Len(x) = (m + n) - k /\ \A i \in 1 .. (m + n) - k : x[i] = s[k + i]
  BY <1>6, PartIs
<1>8. IsSeq(y) /\ Len(y) = e - (m + n) /\ \A i \in 1 .. e - (m + n) : y[i] = s[(m + n) + i]
  BY <1>6, PartIs
<1>. HIDE DEF x, y
<1>9. g \o h = x
  <2>. DEFINE z == g \o h
  <2>1. Join(g, h)
    BY <1>3, <1>4, Joins
  <2>2. /\ IsSeq(z) /\ Len(z) = (m - k) + n
        /\ \A i \in 1 .. Len(g) : z[i] = g[i]
        /\ \A i \in 1 .. Len(h) : z[Len(g) + i] = h[i]
    BY <1>3, <1>4, <2>1 DEF Join
  <2>. HIDE DEF z
  <2>3. Len(z) = Len(x)
    BY <1>1, <1>7, <2>2
  <2>4. ASSUME NEW i \in 1 .. Len(z) PROVE z[i] = x[i]
    <3>1. i \in 1 .. (m + n) - k
      BY <1>1, <2>2
    <3>2. x[i] = s[k + i]
      BY <1>7, <3>1
    <3>3. CASE i <= m - k
      <4>1. i \in 1 .. m - k
        BY <1>1, <3>1, <3>3
      <4>2. z[i] = g[i] /\ g[i] = s[k + i]
        BY <1>3, <2>2, <4>1
      <4>. QED
        BY <3>2, <4>2
    <3>4. CASE ~ (i <= m - k)
      <4>. DEFINE j == i - (m - k)
      <4>1. j \in 1 .. n /\ (m - k) + j = i /\ j \in 1 .. e - m /\ m + j = k + i
        BY <1>1, <3>1, <3>4
      <4>. HIDE DEF j
      <4>2. z[i] = h[j]
        BY <1>3, <1>4, <2>2, <4>1
      <4>3. h[j] = s[k + i]
        BY <1>2, <1>4, <4>1
      <4>. QED
        BY <3>2, <4>2, <4>3
    <3>. QED
      BY <3>3, <3>4
  <2>5. z = x
    BY <1>7, <2>2, <2>3, <2>4, SameSeq
  <2>. QED
    BY <2>5 DEF z
<1>10. r = y
  <2>1. Len(r) = Len(y)
    BY <1>1, <1>5, <1>8
  <2>2. ASSUME NEW i \in 1 .. Len(r) PROVE r[i] = y[i]
    <3>1. i \in 1 .. (e - m) - n /\ i \in 1 .. e - (m + n) /\ n + i \in 1 .. e - m
          /\ m + (n + i) = (m + n) + i
      BY <1>1, <1>5
    <3>. QED
      BY <1>2, <1>5, <1>8, <3>1
  <2>. QED
    BY <1>5, <1>8, <2>1, <2>2, SameSeq
<1>. QED
  BY <1>6, <1>9, <1>10 DEF x, y, r, h, g, b

-----------------------------------------------------------------------------
(* The invariant: the file and its stream, what of it is in the buffer, and *)
(* where the loader stands.                                                 *)

Stream  == Streams[file.of]
Packs   == Pieces(Stream, file.blocks, file.compression)
BlockAt(b) == Until(Stream, file.blocks, b)

IsLoading ==
  /\ at # Idle /\ need \in Nat
  /\ file.of \in DOMAIN RapFiles /\ file.blocks \in BlockLens /\ file.compression \in Compressions
  /\ file.cut \in Cuts
  /\ comp = [fd |-> cachefd, compression |-> file.compression, offset |-> comp.offset,
             buffer |-> comp.buffer, read |-> comp.read]

\* The next b blocks are taken: the buffer ends where the last one does, and the
\* offset is where the next one begins.
Buffered(b) ==
  /\ b \in 0 .. BlocksOf(Stream, file.blocks)
  /\ comp.read \in 0 .. Len(Stream) /\ comp.read <= BlockAt(b)
  /\ comp.buffer = SubSeq(Stream, comp.read + 1, BlockAt(b))
  /\ comp.offset \in 0 .. Len(Written)
  /\ SubSeq(Written, comp.offset + 1, Len(Written)) = From(Packs, b + 1)

\* The loader has read the first fields, up to k, and of the first of the others what
\* the decompressor gave it.
Reads(ws, k) ==
  /\ HasLens(ws) /\ Range(ws) \subseteq Fields[file.of]
  /\ k \in 0 .. Len(Stream) /\ k <= comp.read
  /\ got = SubSeq(Stream, k + 1, comp.read)
  /\ SubSeq(Stream, k + 1, Len(Stream)) = CellsOf(file.of, ws)
  /\ Opens(ws, at, (comp.read - k) + need)

LoadInv ==
  \/ at = Idle /\ rap = NoRap
  \/ at = Overrun /\ need = 0
  \/ /\ IsLoading
     /\ \E b : Buffered(b)
     /\ \E ws, k : Reads(ws, k) /\ Stands(RapFiles[file.of], at, rap, ws)

LEMMA ImageOf ==
  ASSUME NEW f \in DOMAIN RapFiles, NEW n \in BlockLens, NEW z \in Compressions
  PROVE  Field(Images[f][n][z], z, From(Pieces(Streams[f], n, z), 1))
<1>. DEFINE x == Pieces(Streams[f], n, z)
<1>1. n \in Nat \ {0} /\ IsSeq(Streams[f])
  BY RapFileAssumption, StreamIs
<1>2. AllSeqs(x)
  BY <1>1, PiecesAre
<1>3. Images[f][n][z] = <<z>> \o Concat(x)
  BY DEF Images
<1>. HIDE DEF x
<1>4. Len(x) \in Nat /\ Concat(x) = From(x, 1) /\ \A i \in 1 .. Len(x) + 1 : IsSeq(From(x, i))
  BY <1>2, FromIs
<1>5. IsSeq(From(x, 1))
  <2>1. 1 \in 1 .. Len(x) + 1
    BY <1>4
  <2>. QED
    BY <1>4, <2>1
<1>6. Field(Images[f][n][z], z, From(x, 1))
  BY <1>3, <1>4, <1>5, FieldOf
<1>. QED
  BY <1>6 DEF x

\* Facts about a file that is loaded.
LEMMA LoadingIs ==
  ASSUME IsLoading
  PROVE  /\ IsDescription(RapFiles[file.of]) /\ HasLens(Words(RapFiles[file.of]))
         /\ IsSeq(Stream) /\ Len(Stream) \in Nat /\ file.blocks \in Nat \ {0}
         /\ Field(Written, file.compression, From(Packs, 1)) /\ IsSeq(Written)
         /\ AllSeqs(Packs) /\ Len(Packs) = BlocksOf(Stream, file.blocks)
         /\ BlocksOf(Stream, file.blocks) \in Nat
<1>1. file.of \in DOMAIN RapFiles /\ file.blocks \in BlockLens /\ file.compression \in Compressions
  BY DEF IsLoading
<1>2. IsDescription(RapFiles[file.of]) /\ HasLens(Words(RapFiles[file.of])) /\ IsSeq(Stream)
      /\ Len(Stream) \in Nat
  BY <1>1, StreamIs DEF Stream
<1>3. file.blocks \in Nat \ {0}
  BY <1>1, RapFileAssumption
<1>4. Field(Written, file.compression, From(Packs, 1))
  BY <1>1, ImageOf DEF Written, Packs, Stream
<1>5. AllSeqs(Packs) /\ Len(Packs) = BlocksOf(Stream, file.blocks)
  BY <1>2, <1>3, PiecesAre DEF Packs
<1>6. BlocksOf(Stream, file.blocks) \in Nat
  BY <1>2, <1>3, BlockEnds
<1>. QED
  BY <1>2, <1>3, <1>4, <1>5, <1>6 DEF Field

\* The invariant is what InStep needs.
LEMMA LoadInvInStep == LoadInv => InStep
<1>1. CASE at = Idle \/ at = Overrun
  BY <1>1 DEF InStep, Idle, Overrun
<1>2. CASE IsLoading /\ (\E b : Buffered(b)) /\ \E ws, k : Reads(ws, k) /\ Stands(RapFiles[file.of], at, rap, ws)
  <2>1. PICK b : Buffered(b)
    BY <1>2
  <2>2. PICK ws, k : Reads(ws, k) /\ Stands(RapFiles[file.of], at, rap, ws)
    BY <1>2
  <2>3. IsSeq(Stream) /\ Len(Stream) \in Nat /\ file.blocks \in Nat \ {0}
    BY <1>2, LoadingIs
  <2>4. k \in 0 .. Len(Stream) /\ comp.read \in 0 .. Len(Stream) /\ k <= comp.read /\ need \in Nat
        /\ got = SubSeq(Stream, k + 1, comp.read)
    BY <1>2, <2>1, <2>2 DEF Buffered, Reads, IsLoading
  <2>5. IsSeq(got) /\ Len(got) = comp.read - k /\ \A i \in 1 .. comp.read - k : got[i] = Stream[k + i]
    BY <2>3, <2>4, PartIs
  <2>6. ASSUME at[1] \notin {"idle", "done", "overrun"}
        PROVE  \E w \in Fields[file.of] :
                 /\ w.id = at /\ Len(got) + need = w.len
                 /\ got = SubSeq(Cells(file.of, w), 1, Len(got))
    <3>1. at # DoneId
      BY <2>6 DEF DoneId
    <3>2. PICK w, rest : Field(ws, w, rest) /\ w.id = at /\ w.len = (comp.read - k) + need
      BY <2>2, <3>1 DEF Reads, Opens
    <3>3. CellsOf(file.of, ws) = Cells(file.of, w) \o CellsOf(file.of, rest) /\ HasLens(rest) /\ w.len \in Nat
      BY <2>2, <3>2, CellsOfField DEF Reads
    <3>4. w \in Fields[file.of]
      BY <2>2, <3>2, FieldHas DEF Reads
    <3>. DEFINE c == Cells(file.of, w)
                u == CellsOf(file.of, rest)
    <3>5. IsSeq(c) /\ Len(c) = w.len /\ IsSeq(u)
      BY <3>3, CellsAre, FieldCellsAre
    <3>. HIDE DEF c, u
    <3>6. SubSeq(Stream, k + 1, Len(Stream)) = c \o u
      BY <2>2, <3>3 DEF Reads, c, u
    <3>7. \A i \in 1 .. Len(c) : Stream[k + i] = c[i]
      BY <2>3, <2>4, <3>5, <3>6, Behind
    <3>. DEFINE l == Len(got)
                t == SubSeq(c, 0 + 1, l)
    <3>8. l \in Nat /\ l = comp.read - k /\ l + need = w.len /\ l <= w.len
      BY <2>3, <2>4, <2>5, <3>2
    <3>9. 0 \in 0 .. Len(c) /\ l \in 0 .. Len(c) /\ 0 <= l /\ l - 0 = l
      <4>. HIDE DEF l
      <4>. QED
        BY <3>3, <3>5, <3>8
    <3>10. IsSeq(t) /\ Len(t) = l - 0 /\ \A i \in 1 .. l - 0 : t[i] = c[0 + i]
      <4>. HIDE DEF l
      <4>. QED
        BY <3>5, <3>9, PartIs
    <3>11. got = t
      <4>. HIDE DEF t
      <4>1. Len(got) = Len(t)
        BY <3>9, <3>10
      <4>2. ASSUME NEW i \in 1 .. Len(got) PROVE got[i] = t[i]
        <5>1. i \in 1 .. comp.read - k /\ i \in 1 .. l - 0 /\ i \in 1 .. Len(c) /\ 0 + i = i
          BY <3>3, <3>5, <3>8
        <5>. QED
          BY <2>5, <3>7, <3>10, <5>1
      <4>. QED
        BY <2>5, <3>10, <4>1, <4>2, SameSeq
    <3>12. got = SubSeq(Cells(file.of, w), 1, Len(got))
      BY <3>11 DEF c
    <3>. HIDE DEF l
    <3>13. Len(got) + need = w.len
      BY <3>8 DEF l
    <3>. QED
      BY <3>2, <3>4, <3>12, <3>13
  <2>7. ASSUME at[1] = "done"
        PROVE  comp.read = Len(Streams[file.of]) /\ comp.buffer = <<>>
    <3>1. ws = <<>>
      BY <2>2, <2>7, StandsBy
    <3>2. SubSeq(Stream, k + 1, Len(Stream)) = <<>>
      BY <2>2, <3>1, NoCells DEF Reads
    <3>3. k = Len(Stream)
      BY <2>3, <2>4, <3>2, AtEnd
    <3>4. comp.read = Len(Stream)
      BY <2>3, <2>4, <3>3
    <3>5. BlockAt(b) \in 0 .. Len(Stream)
      BY <2>1, <2>3, BlockEnds DEF Buffered, BlockAt
    <3>6. comp.buffer = SubSeq(Stream, comp.read + 1, BlockAt(b)) /\ BlockAt(b) = comp.read
      BY <2>1, <2>3, <3>4, <3>5 DEF Buffered
    <3>7. comp.buffer = <<>>
      BY <2>3, <3>4, <3>6, SubSeqEmpty
    <3>. QED
      BY <3>4, <3>7 DEF Stream
  <2>. QED
    BY <2>6, <2>7 DEF InStep
<1>. QED
  BY <1>1, <1>2 DEF LoadInv

-----------------------------------------------------------------------------
(* Every step keeps the invariant. *)

LEMMA NotIdle ==
  ASSUME NEW d, NEW id, NEW r, NEW ws, Stands(d, id, r, ws)
  PROVE  id # Idle
BY DEF Stands, StandsInHeader, StandsInSections, StandsInContents, StandsAtStrtab, StandsInSymbols,
       StandsAtRelocs, StandsInRecords, StandsAtEnd, DoneId, Idle

LEMMA NoField ==
  ASSUME NEW w, NEW rest
  PROVE  ~ Field(<<>>, w, rest)
<1>1. SUFFICES ASSUME Field(<<>>, w, rest) PROVE FALSE
  OBVIOUS
<1>2. Len(rest) \in Nat /\ Len(<<>>) = Len(rest) + 1
  BY <1>1, FieldHas
<1>. QED
  BY <1>2, NoSeq

\* What the loader takes for the value of a word is the value of that word.
LEMMA ValueIs ==
  ASSUME IsLoading, NEW b, Buffered(b), NEW ws, NEW k, Reads(ws, k), got # <<>>
  PROVE  \A w, rest : Field(ws, w, rest) => val = w.val
<1>1. IsSeq(Stream) /\ Len(Stream) \in Nat
  BY LoadingIs
<1>2. k \in 0 .. Len(Stream) /\ comp.read \in 0 .. Len(Stream) /\ k <= comp.read /\ need \in Nat
      /\ got = SubSeq(Stream, k + 1, comp.read)
  BY DEF Buffered, Reads, IsLoading
<1>3. IsSeq(got) /\ Len(got) = comp.read - k /\ \A i \in 1 .. comp.read - k : got[i] = Stream[k + i]
  BY <1>1, <1>2, PartIs
<1>4. Len(got) # 0
  <2>1. got \in Seq(Range(got))
    BY <1>3 DEF IsSeq
  <2>. QED
    BY <2>1, EmptySeq
<1>5. ASSUME NEW w, NEW rest, Field(ws, w, rest) PROVE val = w.val
  <2>1. at # DoneId
    BY <1>5, NoField DEF Reads, Opens
  <2>2. PICK w2, rest2 : Field(ws, w2, rest2) /\ w2.id = at /\ w2.len = (comp.read - k) + need
    BY <2>1 DEF Reads, Opens
  <2>3. w2 = w
    BY <1>5, <2>2, FieldHas
  <2>4. CellsOf(file.of, ws) = Cells(file.of, w) \o CellsOf(file.of, rest) /\ HasLens(rest) /\ w.len \in Nat
    BY <1>5, CellsOfField DEF Reads
  <2>. DEFINE c == Cells(file.of, w)
              u == CellsOf(file.of, rest)
  <2>5. IsSeq(c) /\ Len(c) = w.len /\ IsSeq(u)
    BY <2>4, CellsAre, FieldCellsAre
  <2>6. w.len >= 1
    BY <1>1, <1>2, <1>3, <1>4, <2>2, <2>3
  <2>7. c[1].val = w.val
    <3>1. 1 \in 1 .. w.len
      BY <2>4, <2>6
    <3>2. c[1] = [of |-> file.of, id |-> w.id, part |-> 1, val |-> w.val]
      BY <2>4, <3>1, CellsAre
    <3>. HIDE DEF c
    <3>. QED
      BY <3>2
  <2>. HIDE DEF c, u
  <2>8. SubSeq(Stream, k + 1, Len(Stream)) = c \o u
    BY <2>4 DEF Reads, c, u
  <2>9. \A i \in 1 .. Len(c) : Stream[k + i] = c[i]
    BY <1>1, <1>2, <2>5, <2>8, Behind
  <2>10. 1 \in 1 .. Len(c) /\ 1 \in 1 .. comp.read - k
    BY <1>1, <1>2, <1>3, <1>4, <2>4, <2>5, <2>6
  <2>11. got[1] = c[1]
    BY <1>3, <2>9, <2>10
  <2>. QED
    BY <2>7, <2>11 DEF val
<1>. QED
  BY <1>5

LEMMA ReadingLoads ==
  ASSUME IsLoading, NEW b, Buffered(b), NEW ws, NEW k, Reads(ws, k), need = 0,
         Follows(RapFiles[file.of], ws), Reading
  PROVE  LoadInv'
<1>. DEFINE d == RapFiles[file.of]
<1>1. IsSeq(Stream) /\ Len(Stream) \in Nat
  BY LoadingIs
<1>2. k \in 0 .. Len(Stream) /\ comp.read \in 0 .. Len(Stream) /\ k <= comp.read
  BY DEF Buffered, Reads
<1>3. PICK w, rest : /\ Field(ws, w, rest) /\ w.id = at
                     /\ Stands(d, at', rap', rest) /\ Opens(rest, at', need') /\ got' = <<>>
  BY DEF Follows
<1>. HIDE DEF d
<1>4. w.len = comp.read - k
  <2>1. at # DoneId
    BY <1>3, NoField DEF Reads, Opens
  <2>2. PICK w2, rest2 : Field(ws, w2, rest2) /\ w2.len = (comp.read - k) + need
    BY <2>1 DEF Reads, Opens
  <2>3. w2 = w
    BY <1>3, <2>2, FieldHas
  <2>. QED
    BY <1>1, <1>2, <2>2, <2>3
<1>5. CellsOf(file.of, ws) = Cells(file.of, w) \o CellsOf(file.of, rest) /\ HasLens(rest) /\ w.len \in Nat
  BY <1>3, CellsOfField DEF Reads
<1>6. SubSeq(Stream, comp.read + 1, Len(Stream)) = CellsOf(file.of, rest)
  <2>. DEFINE c == Cells(file.of, w)
              u == CellsOf(file.of, rest)
  <2>1. IsSeq(c) /\ Len(c) = w.len /\ IsSeq(u)
    BY <1>5, CellsAre, FieldCellsAre
  <2>. HIDE DEF c, u
  <2>2. SubSeq(Stream, k + 1, Len(Stream)) = c \o u
    BY <1>5 DEF Reads, c, u
  <2>3. SubSeq(Stream, (k + Len(c)) + 1, Len(Stream)) = u
    <3>1. IsSeq(Stream) /\ k \in 0 .. Len(Stream) /\ IsSeq(c) /\ IsSeq(u)
      BY <1>1, <1>2, <2>1
    <3>. QED
      BY <2>2, <3>1, Behind
  <2>4. k + Len(c) = comp.read
    BY <1>1, <1>2, <1>4, <2>1
  <2>. QED
    BY <2>3, <2>4 DEF u
<1>7. Range(rest) \subseteq Fields[file.of]
  BY <1>3, FieldHas DEF Reads
<1>8. need' \in Nat
  <2>1. CASE at' = DoneId
    BY <1>3, <2>1 DEF Opens
  <2>2. CASE at' # DoneId
    <3>1. PICK w2, rest2 : Field(rest, w2, rest2) /\ w2.len = need'
      BY <1>3, <2>2 DEF Opens
    <3>. QED
      BY <1>5, <3>1, CellsOfField
  <2>. QED
    BY <2>1, <2>2
<1>9. file' = file /\ comp' = comp /\ cachefd' = cachefd
  BY DEF Reading
<1>10. Stream' = Stream /\ Written' = Written /\ Packs' = Packs /\ BlockAt(b)' = BlockAt(b)
  BY <1>9 DEF Stream, Written, Packs, BlockAt
<1>11. Buffered(b)'
  BY <1>9, <1>10 DEF Buffered
<1>12. IsLoading'
  <2>1. at' # Idle
    BY <1>3, NotIdle
  <2>. QED
    BY <1>8, <1>9, <2>1 DEF IsLoading
<1>13. Reads(rest, comp.read)'
  <2>1. (comp.read - comp.read) + need' = need'
    BY <1>1, <1>2, <1>8
  <2>2. SubSeq(Stream, comp.read + 1, comp.read) = <<>>
    BY <1>1, <1>2, SubSeqEmpty
  <2>3. comp.read <= comp.read
    BY <1>1, <1>2
  <2>4. Opens(rest, at', (comp.read - comp.read) + need')
    BY <1>3, <2>1
  <2>. QED
    BY <1>2, <1>3, <1>5, <1>6, <1>7, <1>9, <1>10, <2>2, <2>3, <2>4 DEF Reads
<1>14. Stands(RapFiles[file.of], at, rap, rest)'
  BY <1>3, <1>9 DEF d
<1>. QED
  BY <1>11, <1>12, <1>13, <1>14 DEF LoadInv

LEMMA EndLoads ==
  ASSUME Want(Idle, 0), rap' = NoRap
  PROVE  LoadInv'
BY DEF Want, LoadInv

LEMMA StartLoads ==
  ASSUME LoadInv, Start
  PROVE  LoadInv'
<1>1. PICK f \in DOMAIN RapFiles, n \in BlockLens, z \in Compressions, cut \in Cuts, fdes \in Fds :
        /\ file' = [of |-> f, blocks |-> n, compression |-> z, cut |-> cut]
        /\ fd' = fdes /\ cachefd' = fdes /\ CompSet(z, 1)
  BY DEF Start
<1>. DEFINE d == RapFiles[f]
            S == Streams[f]
            P == Pieces(S, n, z)
            I == Images[f][n][z]
<1>2. at' = <<"header", 1, 0>> /\ need' = WordLen /\ got' = <<>> /\ rap' = rap /\ at = Idle
  BY DEF Start, WantWord, Want
<1>3. rap = NoRap
  BY <1>2, NotIdle DEF LoadInv, IsLoading, Idle, Overrun
<1>4. file'.of = f /\ file'.blocks = n /\ file'.compression = z /\ file'.cut = cut
      /\ comp' = [fd |-> fdes, compression |-> z, offset |-> 1, buffer |-> <<>>, read |-> 0]
  BY <1>1 DEF CompSet
<1>5. /\ IsDescription(d) /\ HasLens(Words(d)) /\ S = CellsOf(f, Words(d)) /\ IsSeq(S)
      /\ Len(S) \in Nat /\ Fields[f] = Range(Words(d))
  BY StreamIs
<1>6. n \in Nat \ {0} /\ WordLen \in Nat
  BY RapFileAssumption
<1>7. Stream' = S /\ Written' = I /\ Packs' = P /\ BlockAt(0)' = Until(S, n, 0)
  BY <1>4 DEF Stream, Written, Packs, BlockAt
<1>8. Field(I, z, From(P, 1))
  BY ImageOf
<1>9. BlocksOf(S, n) \in Nat /\ Until(S, n, 0) = 0
  BY <1>5, <1>6, BlockEnds
<1>10. Words(d) = HeaderRest(d, 1)
  BY <1>5, StreamStarts
<1>11. Field(HeaderRest(d, 1), HeaderWords(d)[1], HeaderRest(d, 1 + 1))
  <2>1. 1 \in 1 .. 8
    OBVIOUS
  <2>. QED
    BY <1>5, <2>1, HeaderField
<1>12. HeaderWords(d)[1].id = <<"header", 1, 0>> /\ HeaderWords(d)[1].len = WordLen
  BY DEF HeaderWords, Word
<1>. HIDE DEF d, S, P, I
<1>13. Stands(d, at', rap', Words(d))
  <2>1. IsRap(NoRap) /\ NoRap.sizes = <<>>
    BY DEF IsRap, NoRap
  <2>2. [i \in 1 .. 0 |-> d.sizes[i]] = <<>>
    OBVIOUS
  <2>3. Sized(d, NoRap, 0)
    BY <2>1, <2>2 DEF Sized
  <2>4. 1 \in 1 .. 8 /\ ~ (1 > 6) /\ ~ (1 > 7)
    OBVIOUS
  <2>5. StandsInHeader(d, at', rap', Words(d))
    BY <1>2, <1>3, <1>10, <2>3, <2>4 DEF StandsInHeader
  <2>. QED
    BY <1>2, <1>3, <2>1, <2>5 DEF Stands
<1>14. Opens(Words(d), at', need')
  BY <1>2, <1>10, <1>11, <1>12 DEF Opens, DoneId
<1>15. IsLoading'
  <2>1. at' # Idle
    BY <1>2 DEF Idle
  <2>. QED
    BY <1>1, <1>2, <1>4, <1>6, <2>1 DEF IsLoading
<1>16. Buffered(0)'
  <2>1. /\ 0 \in 0 .. BlocksOf(S, n) /\ 0 \in 0 .. Len(S) /\ 0 <= 0
    BY <1>5, <1>9
  <2>2. SubSeq(S, 0 + 1, 0) = <<>>
    BY SubSeqEmpty
  <2>3. 1 \in 0 .. Len(I) /\ SubSeq(I, 1 + 1, Len(I)) = From(P, 0 + 1)
    <3>1. IsSeq(I) /\ IsSeq(From(P, 1)) /\ I = <<z>> \o From(P, 1)
      BY <1>8 DEF Field
    <3>2. SubSeq(I, 0 + 1, Len(I)) = I /\ 0 \in 0 .. Len(I)
      BY <3>1, SubSeqFull, SeqHas DEF IsSeq
    <3>. DEFINE a == <<z>>
                m == 0
    <3>3. IsSeq(a) /\ Len(a) = 1 /\ SubSeq(I, m + 1, Len(I)) = a \o From(P, 1)
      BY <3>1, <3>2, OneSeq
    <3>4. m \in 0 .. Len(I) /\ m = 0
      BY <3>2
    <3>. HIDE DEF a, m
    <3>8. GoesOn(I, m, a, From(P, 1))
      BY <3>3 DEF GoesOn
    <3>9. GoneOn(I, m, a, From(P, 1))
      BY <3>1, <3>3, <3>4, <3>8, GoingOn
    <3>5. m + Len(a) \in 0 .. Len(I) /\ SubSeq(I, (m + Len(a)) + 1, Len(I)) = From(P, 1)
      BY <3>9 DEF GoneOn
    <3>6. m + Len(a) = 1
      BY <3>3, <3>4
    <3>7. 1 \in 0 .. Len(I) /\ SubSeq(I, 1 + 1, Len(I)) = From(P, 1)
      BY <3>5, <3>6
    <3>. QED
      BY <3>7
  <2>. QED
    BY <1>4, <1>7, <1>9, <2>1, <2>2, <2>3 DEF Buffered
<1>17. Reads(Words(d), 0)'
  <2>1. 0 \in 0 .. Len(S) /\ 0 <= 0 /\ (0 - 0) + need' = need'
    BY <1>2, <1>5, <1>6
  <2>2. SubSeq(S, 0 + 1, 0) = <<>>
    BY SubSeqEmpty
  <2>3. SubSeq(S, 0 + 1, Len(S)) = S
    BY <1>5, SubSeqFull DEF IsSeq
  <2>4. Opens(Words(d), at', (0 - 0) + need')
    BY <1>14, <2>1
  <2>. QED
    BY <1>2, <1>4, <1>5, <1>7, <2>1, <2>2, <2>3, <2>4 DEF Reads, S, d
<1>18. Stands(RapFiles[file.of], at, rap, Words(d))'
  BY <1>4, <1>13 DEF d
<1>. QED
  BY <1>15, <1>16, <1>17, <1>18 DEF LoadInv

LEMMA TakeLoads ==
  ASSUME LoadInv, Take
  PROVE  LoadInv'
<1>1. at # Idle /\ need # 0
  BY DEF Take
<1>2. PICK b : Buffered(b)
  BY <1>1 DEF LoadInv
<1>3. PICK ws, k : Reads(ws, k) /\ Stands(RapFiles[file.of], at, rap, ws)
  BY <1>1 DEF LoadInv
<1>4. IsLoading
  BY <1>1 DEF LoadInv
<1>5. IsSeq(Stream) /\ Len(Stream) \in Nat /\ file.blocks \in Nat \ {0}
  BY <1>4, LoadingIs
<1>6. Level = comp.buffer
  BY <1>4 DEF Level, IsLoading
<1>. DEFINE m == comp.read
            e == BlockAt(b)
            B == comp.buffer
            n == IF need > Len(B) THEN Len(B) ELSE need
<1>7. /\ k \in 0 .. Len(Stream) /\ m \in 0 .. Len(Stream) /\ k <= m /\ m <= e /\ need \in Nat
      /\ B = SubSeq(Stream, m + 1, e) /\ got = SubSeq(Stream, k + 1, m)
  BY <1>2, <1>3, <1>4 DEF Buffered, Reads, IsLoading
<1>8. e \in 0 .. Len(Stream)
  BY <1>2, <1>5, BlockEnds DEF Buffered, BlockAt
<1>9. Len(B) = e - m
  BY <1>5, <1>7, <1>8, PartIs, SMTT(30)
<1>10. /\ got' = got \o SubSeq(B, 1, n) /\ need' = need - n
       /\ comp' = [comp EXCEPT !.buffer = SubSeq(B, n + 1, Len(B)), !.read = @ + n]
       /\ UNCHANGED <<file, fd, cachefd, at, rap>>
  BY <1>6 DEF Take
<1>11. n \in 0 .. e - m /\ need - n \in Nat
  <2>. DEFINE lb == Len(B)
  <2>1. e \in Nat /\ m \in Nat /\ m <= e /\ need \in Nat /\ lb = e - m
        /\ n = IF need > lb THEN lb ELSE need
    BY <1>5, <1>7, <1>8, <1>9
  <2>. HIDE DEF lb, n, e, m
  <2>. QED
    BY <2>1
<1>. DEFINE mn == m + n
<1>12. /\ got' = SubSeq(Stream, k + 1, mn) /\ SubSeq(B, n + 1, Len(B)) = SubSeq(Stream, mn + 1, e)
       /\ mn \in 0 .. Len(Stream) /\ mn <= e
  <2>. HIDE DEF n
  <2>1. /\ SubSeq(Stream, k + 1, m) \o SubSeq(SubSeq(Stream, m + 1, e), 1, n) = SubSeq(Stream, k + 1, m + n)
        /\ SubSeq(SubSeq(Stream, m + 1, e), n + 1, e - m) = SubSeq(Stream, (m + n) + 1, e)
        /\ m + n \in 0 .. Len(Stream) /\ m + n <= e
    BY <1>5, <1>7, <1>8, <1>11, TakeMore
  <2>2. got \o SubSeq(B, 1, n) = SubSeq(Stream, k + 1, m + n)
    BY <1>7, <2>1
  <2>3. SubSeq(B, n + 1, Len(B)) = SubSeq(Stream, (m + n) + 1, e)
    BY <1>7, <1>9, <2>1
  <2>. QED
    BY <1>10, <2>1, <2>2, <2>3
<1>13. /\ comp' = [comp EXCEPT !.buffer = SubSeq(Stream, mn + 1, e), !.read = mn]
  <2>. HIDE DEF n
  <2>. QED
    BY <1>10, <1>12
<1>. HIDE DEF n, mn
<1>14. /\ comp'.fd = comp.fd /\ comp'.compression = comp.compression /\ comp'.offset = comp.offset
       /\ comp'.buffer = SubSeq(Stream, mn + 1, e) /\ comp'.read = mn
       /\ comp' = [fd |-> comp'.fd, compression |-> comp'.compression, offset |-> comp'.offset,
                   buffer |-> comp'.buffer, read |-> comp'.read]
  BY <1>4, <1>13 DEF IsLoading
<1>15. Stream' = Stream /\ Written' = Written /\ Packs' = Packs /\ e' = e
  BY <1>10 DEF Stream, Written, Packs, BlockAt
<1>16. IsLoading'
  <2>1. comp.fd = cachefd /\ comp.compression = file.compression
    BY <1>4 DEF IsLoading
  <2>. QED
    BY <1>4, <1>10, <1>11, <1>14, <2>1 DEF IsLoading
<1>17. Buffered(b)'
  BY <1>2, <1>10, <1>12, <1>14, <1>15 DEF Buffered
<1>18. Reads(ws, k)'
  <2>0. k <= mn /\ (mn - k) + (need - n) = (m - k) + need
    <3>1. k \in Nat /\ m \in Nat /\ e \in Nat /\ k <= m /\ n \in 0 .. e - m /\ need \in Nat
      BY <1>5, <1>7, <1>8, <1>11
    <3>. HIDE DEF m, e
    <3>. QED
      BY <3>1 DEF mn
  <2>1. k <= mn /\ (mn - k) + need' = (m - k) + need
    BY <1>10, <2>0
  <2>2. Opens(ws, at, (mn - k) + need')
    BY <1>3, <2>1 DEF Reads
  <2>. QED
    BY <1>3, <1>10, <1>12, <1>14, <1>15, <2>1, <2>2 DEF Reads
<1>19. Stands(RapFiles[file.of], at, rap, ws)'
  BY <1>3, <1>10
<1>. QED
  BY <1>16, <1>17, <1>18, <1>19 DEF LoadInv

\* The block at the offset, if the file has it all, is the next one of the stream.
LEMMA FetchLoads ==
  ASSUME LoadInv, Fetch
  PROVE  LoadInv'
<1>1. at # Idle /\ need # 0
  BY DEF Fetch
<1>2. PICK b : Buffered(b)
  BY <1>1 DEF LoadInv
<1>3. PICK ws, k : Reads(ws, k) /\ Stands(RapFiles[file.of], at, rap, ws)
  BY <1>1 DEF LoadInv
<1>4. IsLoading
  BY <1>1 DEF LoadInv
<1>. DEFINE S == Stream
            I == Written
            q == BlocksOf(Stream, file.blocks)
            o == comp.offset
            z == comp.compression
<1>5. /\ IsSeq(S) /\ Len(S) \in Nat /\ file.blocks \in Nat \ {0}
      /\ IsSeq(I) /\ AllSeqs(Packs) /\ Len(Packs) = q /\ q \in Nat
  BY <1>4, LoadingIs
<1>6. Level = comp.buffer /\ z = file.compression
  BY <1>4 DEF Level, IsLoading
<1>7. /\ b \in 0 .. q /\ comp.read \in 0 .. Len(S) /\ comp.read <= BlockAt(b)
      /\ SubSeq(S, comp.read + 1, BlockAt(b)) = <<>>
      /\ o \in 0 .. Len(I) /\ SubSeq(I, o + 1, Len(I)) = From(Packs, b + 1)
  <2>1. comp.buffer = <<>>
    BY <1>6 DEF Fetch
  <2>. QED
    BY <1>2, <2>1 DEF Buffered
<1>8. FileLen <= Len(I) /\ FileLen \in Int /\ o < FileLen /\ Len(I) \in Nat /\ o \in Nat
  <2>1. Len(I) \in Nat /\ file.cut \in Nat
    BY <1>4, <1>5, SeqHas, RapFileAssumption DEF IsLoading
  <2>. QED
    BY <1>7, <2>1 DEF FileLen, Fetch
<1>9. b # q
  <2>1. SUFFICES ASSUME b = q PROVE FALSE
    OBVIOUS
  <2>2. From(Packs, b + 1) = <<>>
    BY <1>5, <2>1, FromIs
  <2>3. o = Len(I)
    BY <1>5, <1>7, <2>2, AtEnd
  <2>. QED
    BY <1>8, <2>3
<1>10. b + 1 \in 1 .. q /\ (b + 1) - 1 = b /\ b + 1 \in 0 .. q
  BY <1>5, <1>7, <1>9
<1>11. /\ BlockAt(b) \in 0 .. Len(S) /\ BlockAt(b + 1) \in 0 .. Len(S) /\ BlockAt(b) <= BlockAt(b + 1)
  <2>1. \A i \in 0 .. q : BlockAt(i) \in 0 .. Len(S)
    BY <1>5, BlockEnds DEF BlockAt
  <2>2. \A i \in 1 .. q : BlockAt(i - 1) <= BlockAt(i)
    BY <1>5, BlockEnds DEF BlockAt
  <2>3. BlockAt((b + 1) - 1) <= BlockAt(b + 1)
    BY <1>10, <2>2
  <2>. QED
    BY <1>7, <1>10, <2>1, <2>3
<1>12. comp.read = BlockAt(b)
  <2>1. Len(SubSeq(S, comp.read + 1, BlockAt(b))) = BlockAt(b) - comp.read
    BY <1>5, <1>7, <1>11, PartIs
  <2>2. BlockAt(b) - comp.read = 0
    BY <1>7, <2>1, NoSeq
  <2>. QED
    BY <1>5, <1>7, <1>11, <2>2
<1>. DEFINE c == SubSeq(S, BlockAt(b) + 1, BlockAt(b + 1))
            bl == Block(c, z)
            rest == From(Packs, (b + 1) + 1)
<1>13. IsSeq(c) /\ Packs[b + 1] = bl
  <2>1. \A i \in 1 .. q : /\ Packs[i] = Block(SubSeq(S, BlockAt(i - 1) + 1, BlockAt(i)), z)
                          /\ IsSeq(SubSeq(S, BlockAt(i - 1) + 1, BlockAt(i)))
    BY <1>5, <1>6, PiecesAre DEF Packs, BlockAt
  <2>2. /\ Packs[b + 1] = Block(SubSeq(S, BlockAt((b + 1) - 1) + 1, BlockAt(b + 1)), z)
        /\ IsSeq(SubSeq(S, BlockAt((b + 1) - 1) + 1, BlockAt(b + 1)))
    BY <1>10, <2>1
  <2>. QED
    BY <1>10, <2>2
<1>14. IsSeq(bl) /\ IsSeq(rest) /\ SubSeq(I, o + 1, Len(I)) = bl \o rest
  <2>1. IsSeq(bl)
    BY <1>13, BlockOf
  <2>2. From(Packs, b + 1) = Packs[b + 1] \o rest
    BY <1>5, <1>10, FromIs
  <2>3. IsSeq(rest)
    <3>1. (b + 1) + 1 \in 1 .. Len(Packs) + 1
      BY <1>5, <1>10
    <3>. QED
      BY <1>5, <3>1, FromIs
  <2>. QED
    BY <1>7, <1>13, <2>1, <2>2, <2>3
<1>15. IsSeq(c)
  BY <1>13
<1>. HIDE DEF c, rest
<1>. DEFINE size == IF z = "NONE" THEN Len(c) ELSE 1
<1>16. Len(bl) = 1 + size /\ bl[1] = size /\ size \in Nat
  <2>. DEFINE y == z
  <2>0. bl = Block(c, y) /\ size = IF y = "NONE" THEN Len(c) ELSE 1
    OBVIOUS
  <2>. HIDE DEF y, bl, size
  <2>1. Len(bl) = 1 + size /\ bl[1] = size
    BY <1>15, <2>0, BlockOf
  <2>. USE DEF size
  <2>2. Len(c) \in Nat
    BY <1>15, SeqHas
  <2>. QED
    BY <2>1, <2>2
<1>17. z = "NONE" => \A i \in 1 .. Len(c) : bl[1 + i] = c[i]
  BY <1>15, BlockOf
<1>18. z # "NONE" => bl[2] = c
  BY <1>15, BlockOf
<1>. HIDE DEF bl, size
<1>. DEFINE o2 == o + (1 + size)
<1>19. /\ o2 \in 0 .. Len(I) /\ SubSeq(I, o2 + 1, Len(I)) = rest
       /\ \A i \in 1 .. 1 + size : I[o + i] = bl[i]
  <2>0. GoneOn(I, o, bl, rest)
    <3>1. GoesOn(I, o, bl, rest)
      BY <1>14 DEF GoesOn
    <3>. QED
      BY <1>5, <1>7, <1>14, <3>1, GoingOn
  <2>1. /\ o + Len(bl) \in 0 .. Len(I) /\ SubSeq(I, (o + Len(bl)) + 1, Len(I)) = rest
        /\ \A i \in 1 .. Len(bl) : I[o + i] = bl[i]
    BY <2>0 DEF GoneOn
  <2>. QED
    BY <1>16, <2>1
<1>. DEFINE end(x, n) == IF x + n > FileLen THEN FileLen ELSE x + n
            held == InFile(o + 1, size)
<1>20. InFile(o, 1)[1] = size
  <2>1. InFile(o, 1) = SubSeq(I, o + 1, o + 1)
    <3>1. ~ (o + 1 > FileLen)
      BY <1>8
    <3>. QED
      BY <3>1 DEF InFile
  <2>2. o + 1 \in 0 .. Len(I) /\ o <= o + 1 /\ (o + 1) - o = 1 /\ 1 \in 1 .. (o + 1) - o
    BY <1>7, <1>8
  <2>3. SubSeq(I, o + 1, o + 1)[1] = I[o + 1]
    BY <1>5, <1>7, <2>2, PartIs, ZenonT(60)
  <2>4. I[o + 1] = bl[1]
    BY <1>16, <1>19
  <2>. QED
    BY <1>16, <2>1, <2>3, <2>4
<1>21. /\ Len(held) = size
       /\ comp' = [comp EXCEPT !.offset = @ + 1 + size,
                               !.buffer = IF z = "NONE" THEN held ELSE held[1]]
       /\ UNCHANGED <<file, fd, cachefd, at, need, got, rap>>
  BY <1>20 DEF Fetch
<1>22. IsSeq(held) /\ \A i \in 1 .. size : held[i] = I[(o + 1) + i]
  <2>. DEFINE p == o + 1
              e == IF p + size > FileLen THEN FileLen ELSE p + size
  <2>1. held = SubSeq(I, p + 1, e)
    BY DEF InFile
  <2>2. p \in 0 .. Len(I) /\ e \in 0 .. Len(I) /\ p <= e
    <3>. DEFINE fl == FileLen
                li == Len(I)
    <3>1. fl <= li /\ fl \in Int /\ o < fl /\ li \in Nat /\ o \in Nat /\ size \in Nat
          /\ e = IF p + size > fl THEN fl ELSE p + size
      BY <1>8, <1>16
    <3>. HIDE DEF fl, li, e, o
    <3>2. p \in 0 .. li /\ e \in 0 .. li /\ p <= e
      BY <3>1
    <3>. QED
      BY <3>2 DEF li
  <2>3. Len(held) = e - p
    BY <1>5, <2>1, <2>2, PartIs, SMTT(30)
  <2>4. e - p = size
    BY <1>21, <2>3
  <2>. HIDE DEF p, e
  <2>. DEFINE t == SubSeq(I, p + 1, e)
  <2>5. IsSeq(t) /\ \A i \in 1 .. e - p : t[i] = I[p + i]
    BY <1>5, <2>2, PartIs
  <2>6. held = t
    BY <2>1
  <2>. HIDE DEF t, held
  <2>. QED
    BY <2>4, <2>5, <2>6 DEF p
<1>23. \A i \in 1 .. size : held[i] = bl[1 + i]
  <2>1. \A i \in 1 .. size : 1 + i \in 1 .. 1 + size /\ (o + 1) + i = o + (1 + i)
    BY <1>8, <1>16
  <2>. QED
    BY <1>19, <1>22, <2>1
<1>. HIDE DEF held
<1>24. (IF z = "NONE" THEN held ELSE held[1]) = c
  <2>1. CASE z = "NONE"
    <3>1. size = Len(c)
      BY <2>1 DEF size
    <3>2. \A i \in 1 .. Len(held) : held[i] = c[i]
      BY <1>17, <1>21, <1>23, <2>1, <3>1
    <3>3. held = c
      BY <1>15, <1>21, <1>22, <3>1, <3>2, SameSeq
    <3>. QED
      BY <2>1, <3>3
  <2>2. CASE z # "NONE"
    <3>1. size = 1
      BY <2>2 DEF size
    <3>2. held[1] = bl[1 + 1]
      BY <1>23, <3>1
    <3>. QED
      BY <1>18, <2>2, <3>2
  <2>. QED
    BY <2>1, <2>2
<1>25. /\ comp'.fd = comp.fd /\ comp'.compression = z /\ comp'.offset = o2
       /\ comp'.buffer = c /\ comp'.read = comp.read
       /\ comp' = [fd |-> comp'.fd, compression |-> comp'.compression, offset |-> comp'.offset,
                   buffer |-> comp'.buffer, read |-> comp'.read]
  <2>1. comp' = [comp EXCEPT !.offset = @ + 1 + size, !.buffer = c]
    BY <1>21, <1>24
  <2>2. comp = [fd |-> comp.fd, compression |-> comp.compression, offset |-> comp.offset,
                buffer |-> comp.buffer, read |-> comp.read]
    BY <1>4 DEF IsLoading
  <2>3. comp.offset + 1 + size = o2
    BY <1>8, <1>16
  <2>. HIDE DEF o2
  <2>4. comp' = [comp EXCEPT !.offset = o2, !.buffer = c]
    BY <2>1, <2>3
  <2>. QED
    BY <2>2, <2>4
<1>. HIDE DEF o2
<1>26. Stream' = Stream /\ Written' = Written /\ Packs' = Packs /\ \A i : BlockAt(i)' = BlockAt(i)
  BY <1>21 DEF Stream, Written, Packs, BlockAt
<1>27. IsLoading'
  <2>1. comp.fd = cachefd
    BY <1>4 DEF IsLoading
  <2>. QED
    BY <1>4, <1>6, <1>21, <1>25, <2>1 DEF IsLoading
<1>28. Buffered(b + 1)'
  <2>1. comp'.buffer = SubSeq(Stream, comp.read + 1, BlockAt(b + 1))
    BY <1>12, <1>25 DEF c
  <2>2. comp.read <= BlockAt(b + 1)
    BY <1>11, <1>12
  <2>3. SubSeq(Written, o2 + 1, Len(Written)) = From(Packs, (b + 1) + 1)
    BY <1>19 DEF rest
  <2>. QED
    BY <1>7, <1>10, <1>19, <1>21, <1>25, <1>26, <2>1, <2>2, <2>3 DEF Buffered
<1>29. Reads(ws, k)'
  BY <1>3, <1>21, <1>25, <1>26 DEF Reads
<1>30. Stands(RapFiles[file.of], at, rap, ws)'
  BY <1>3, <1>21
<1>. QED
  BY <1>27, <1>28, <1>29, <1>30 DEF LoadInv

LEMMA LoadInvInit == FileInit => LoadInv
BY DEF FileInit, LoadInv

\* A step of the loader: it has a whole field and goes on to the one behind it.
LoaderStep == \/ Header \/ Size \/ Alignment \/ Contents \/ Strtab \/ Data \/ SymName \/ Value
              \/ Relocs \/ Info \/ Offset \/ Appended \/ Relocate

LEMMA LoaderLoads ==
  ASSUME LoadInv, LoaderStep
  PROVE  LoadInv'
<1>1. at # Idle /\ at # Overrun /\ Reading /\ need = 0
  BY DEF LoaderStep, Header, Size, Alignment, Contents, Strtab, Data, SymName, Value, Relocs, Info,
         Offset, Appended, Relocate, Recorded, Has, Idle, Overrun
<1>2. IsLoading
  BY <1>1 DEF LoadInv
<1>3. PICK b : Buffered(b)
  BY <1>1 DEF LoadInv
<1>4. PICK ws, k : Reads(ws, k) /\ Stands(RapFiles[file.of], at, rap, ws)
  BY <1>1 DEF LoadInv
<1>5. IsDescription(RapFiles[file.of])
  BY <1>2, LoadingIs
<1>. DEFINE d == RapFiles[file.of]
<1>6. Valued => \A w, rest : Field(ws, w, rest) => val = w.val
  <2>1. Valued => got # <<>>
    BY DEF Valued
  <2>. QED
    BY <1>2, <1>3, <1>4, <2>1, ValueIs
<1>7. Follows(d, ws)
  <2>. HIDE DEF d
  <2>0. IsDescription(d) /\ Stands(d, at, rap, ws)
    BY <1>4, <1>5 DEF d
  <2>1. CASE Header
    <3>1. Valued
      BY <2>1 DEF Header
    <3>. QED
      BY <1>6, <2>0, <2>1, <3>1, HeaderStands
  <2>2. CASE Size
    <3>1. Valued
      BY <2>2 DEF Size
    <3>. QED
      BY <1>6, <2>0, <2>2, <3>1, SizeStands
  <2>3. CASE Alignment
    BY <2>0, <2>3, AlignmentStands
  <2>4. CASE Contents
    BY <2>0, <2>4, ContentsStands
  <2>5. CASE Strtab
    BY <2>0, <2>5, StrtabStands
  <2>6. CASE Data
    BY <2>0, <2>6, DataStands
  <2>7. CASE SymName
    BY <2>0, <2>7, SymNameStands
  <2>8. CASE Value
    BY <2>0, <2>8, ValueStands
  <2>9. CASE Relocs
    <3>1. Valued
      BY <2>9 DEF Relocs
    <3>. QED
      BY <1>6, <2>0, <2>9, <3>1, RelocsStands
  <2>10. CASE Info
    <3>1. Valued
      BY <2>10 DEF Info
    <3>. QED
      BY <1>6, <2>0, <2>10, <3>1, InfoStands
  <2>11. CASE Offset
    BY <2>0, <2>11, OffsetStands
  <2>12. CASE Appended
    BY <2>0, <2>12, AppendedStands
  <2>13. CASE Relocate
    BY <2>0, <2>13, RelocateStands
  <2>. QED
    BY <2>1, <2>2, <2>3, <2>4, <2>5, <2>6, <2>7, <2>8, <2>9, <2>10, <2>11, <2>12, <2>13 DEF LoaderStep
<1>. QED
  BY <1>1, <1>2, <1>3, <1>4, <1>7, ReadingLoads

LEMMA LoadInvNext == LoadInv /\ [FileNext]_fileVars => LoadInv'
<1>. SUFFICES ASSUME LoadInv, [FileNext]_fileVars PROVE LoadInv'
  OBVIOUS
<1>1. CASE Start
  BY <1>1, StartLoads
<1>2. CASE Take
  BY <1>2, TakeLoads
<1>3. CASE Fetch
  BY <1>3, FetchLoads
<1>4. CASE LoaderStep
  BY <1>4, LoaderLoads
<1>5. CASE FetchFails \/ HeaderFails \/ NoMemory \/ ValueFails \/ RelocFails \/ LoadDone
  <2>1. Want(Idle, 0) /\ rap' = NoRap
    BY <1>5 DEF FetchFails, HeaderFails, NoMemory, ValueFails, RelocFails, LoadDone, Fails, End
  <2>. QED
    BY <2>1, EndLoads
<1>6. CASE FetchOverruns
  BY <1>6 DEF FetchOverruns, Want, LoadInv
<1>7. CASE UNCHANGED fileVars
  <2>1. /\ file' = file /\ cachefd' = cachefd /\ comp' = comp /\ at' = at /\ need' = need /\ got' = got
        /\ rap' = rap
    BY <1>7 DEF fileVars
  <2>2. Stream' = Stream /\ Written' = Written /\ Packs' = Packs /\ \A b : BlockAt(b)' = BlockAt(b)
    BY <2>1 DEF Stream, Written, Packs, BlockAt
  <2>3. CASE (at = Idle /\ rap = NoRap) \/ (at = Overrun /\ need = 0)
    BY <2>1, <2>3 DEF LoadInv
  <2>4. CASE /\ IsLoading
             /\ \E b : Buffered(b)
             /\ \E ws, k : Reads(ws, k) /\ Stands(RapFiles[file.of], at, rap, ws)
    <3>1. IsLoading'
      BY <2>1, <2>4 DEF IsLoading
    <3>2. \A b : Buffered(b) => Buffered(b)'
      BY <2>1, <2>2 DEF Buffered
    <3>3. \A ws, k : Reads(ws, k) => Reads(ws, k)'
      BY <2>1, <2>2 DEF Reads
    <3>4. \A ws : Stands(RapFiles[file.of], at, rap, ws) => Stands(RapFiles[file.of], at, rap, ws)'
      BY <2>1
    <3>. QED
      BY <2>4, <3>1, <3>2, <3>3, <3>4 DEF LoadInv
  <2>. QED
    BY <2>3, <2>4 DEF LoadInv
<1>. QED
  BY <1>1, <1>2, <1>3, <1>4, <1>5, <1>6, <1>7 DEF FileNext, LoaderStep

\* LoadingKeepsInStep: whatever the files hold, wherever the blocks end, whenever a
\* load fails and whatever was loaded before, the loader is at a field of the file it
\* loads and has of it what that file holds there, until a block overruns the buffer
\* of the decompressor, and a load that succeeds has taken the whole stream
\* (rtems_rtl_rap_file_load, rtems_rtl_obj_comp_read).
THEOREM LoadingKeepsInStep == FileSpec => []InStep
<1>1. FileSpec => []LoadInv
  BY LoadInvInit, LoadInvNext, PTL DEF FileSpec
<1>. QED
  BY <1>1, LoadInvInStep, PTL

-----------------------------------------------------------------------------
(* Division by the widths of the fields. *)

LEMMA Divided ==
  ASSUME NEW v \in Int, NEW d \in Nat \ {0}
  PROVE  /\ v \div d \in Int /\ v % d \in Int
         /\ v = d * (v \div d) + (v % d) /\ 0 <= v % d /\ v % d < d
BY SMT

LEMMA DividedOnce ==
  ASSUME NEW v \in Int, NEW d \in Nat \ {0}, NEW q \in Int, NEW x \in Int,
         v = d * q + x, 0 <= x, x < d
  PROVE  v \div d = q /\ v % d = x
BY SMT

LEMMA Widths ==
  /\ High \in Nat \ {0} /\ High >= 3 /\ Lens \in Nat /\ Lens >= 4
  /\ Byte \in Nat \ {0} /\ Byte = (Lens + 1) * High /\ Byte >= 15 /\ Byte - 1 \in Nat \ {0}
<1>1. High \in Nat /\ High >= 3 /\ Lens \in Nat /\ Lens >= 4 /\ Byte = (Lens + 1) * High
  BY FastLZAssumption
<1>2. \A a, b \in Nat : a >= 3 /\ b >= 4 => (b + 1) * a \in Nat /\ (b + 1) * a >= 15
  OBVIOUS
<1>. QED
  BY <1>1, <1>2

\* What n bytes need besides themselves: a count for as many as it can say.
CountBytes(n) == n \div High

LEMMA CountsGrow ==
  ASSUME NEW m \in Nat, NEW n \in Nat, m <= n
  PROVE  CountBytes(m) \in Nat /\ CountBytes(n) \in Nat /\ CountBytes(m) <= CountBytes(n)
         /\ CountBytes(m + High) = CountBytes(m) + 1 /\ CountBytes(0) = 0
<1>1. High \in Nat \ {0}
  BY Widths
<1>. DEFINE h == High
            a == m \div h
            b == n \div h
            x == m % h
            y == n % h
<1>2. a \in Int /\ x \in Int /\ m = h * a + x /\ 0 <= x /\ x < h
  BY <1>1, Divided
<1>3. b \in Int /\ y \in Int /\ n = h * b + y /\ 0 <= y /\ y < h
  BY <1>1, Divided
<1>. HIDE DEF a, b, x, y, h
<1>4. h \in Nat /\ h >= 1
  BY <1>1 DEF h
<1>5. a >= 0
  <2>1. ~ (a <= -1)
    <3>1. a <= -1 => h * a <= -h
      BY <1>2, <1>4
    <3>. QED
      BY <1>2, <1>4, <3>1
  <2>. QED
    BY <1>2, <2>1
<1>6. a <= b
  <2>1. ~ (b + 1 <= a)
    <3>1. b + 1 <= a => h * (b + 1) <= h * a
      BY <1>2, <1>3, <1>4
    <3>2. h * (b + 1) = h * b + h
      BY <1>3, <1>4
    <3>. QED
      BY <1>2, <1>3, <1>4, <3>1, <3>2
  <2>. QED
    BY <1>2, <1>3, <2>1
<1>7. m + h = h * (a + 1) + x
  BY <1>2, <1>4
<1>8. (m + h) \div h = a + 1
  <2>1. m + h \in Int /\ h \in Nat \ {0} /\ a + 1 \in Int
    BY <1>2, <1>4
  <2>. QED
    BY <1>2, <1>7, <2>1, DividedOnce
<1>9. 0 \div h = 0
  <2>1. 0 = h * 0 + 0 /\ 0 < h /\ h \in Nat \ {0}
    BY <1>4
  <2>. QED
    BY <2>1, DividedOnce
<1>. QED
  BY <1>2, <1>3, <1>5, <1>6, <1>8, <1>9 DEF CountBytes, a, b, h

\* A control byte says what it was made of.
LEMMA ControlSays ==
  ASSUME NEW l \in Nat \ {0}, NEW d \in Nat, d < High * Byte
  PROVE  /\ ControlOf(l, d) \in Nat /\ ControlOf(l, d) >= High
         /\ ControlOf(l, d) \div High = IF l < Lens THEN l ELSE Lens
         /\ ControlOf(l, d) % High = d \div Byte
         /\ d \div Byte \in 0 .. High - 1 /\ d % Byte \in 0 .. Byte - 1
         /\ (d \div Byte) * Byte + (d % Byte) = d
<1>. DEFINE k == IF l < Lens THEN l ELSE Lens
            h == High
            b == Byte
            q == d \div Byte
            x == d % Byte
            c == ControlOf(l, d)
<1>1. h \in Nat \ {0} /\ b \in Nat \ {0} /\ k \in Nat \ {0}
  BY Widths
<1>2. q \in Int /\ x \in Int /\ d = b * q + x /\ 0 <= x /\ x < b
  BY <1>1, Divided
<1>3. c = k * h + q
  BY DEF ControlOf
<1>. HIDE DEF k, q, x, c
<1>4. d < h * b
  OBVIOUS
<1>. HIDE DEF h, b
<1>5. q >= 0
  <2>1. q <= -1 => b * q <= -b
    BY <1>1, <1>2
  <2>. QED
    BY <1>1, <1>2, <2>1
<1>6. q < h
  <2>1. h <= q => b * h <= b * q
    BY <1>1, <1>2
  <2>2. b * h = h * b
    BY <1>1
  <2>. QED
    BY <1>1, <1>2, <1>4, <2>1, <2>2
<1>7. c = h * k + q /\ k * h >= h /\ k * h \in Nat
  BY <1>1, <1>2, <1>3
<1>8. c \in Int /\ c >= h
  BY <1>1, <1>2, <1>3, <1>5, <1>7
<1>9. c \div h = k /\ c % h = q
  BY <1>1, <1>2, <1>5, <1>6, <1>7, <1>8, DividedOnce
<1>10. q * b + x = d
  BY <1>1, <1>2
<1>11. c \in Nat /\ q \in 0 .. h - 1 /\ x \in 0 .. b - 1
  BY <1>1, <1>2, <1>5, <1>6, <1>8
<1>. QED
  BY <1>8, <1>9, <1>10, <1>11 DEF k, h, b, q, x, c

-----------------------------------------------------------------------------
(* The items of a packed block: what is at a place p of it stands for the  *)
(* bytes of the block behind the first o, and the next item is at q for    *)
(* those behind the first t.                                               *)

\* The first byte has the level in the bits above its count.
CtrlAt(P, p) == IF p = 0 THEN P[1] % High ELSE P[p + 1]

LiteralAt(P, D, p, o, q, t) ==
  \E c \in 0 .. High - 1 : /\ CtrlAt(P, p) = c /\ q = p + c + 2 /\ t = o + c + 1
                           /\ \A j \in 1 .. c + 1 : P[p + 1 + j] = D[o + j]

\* Bytes that are those d + 1 before.
Repeats(D, o, n, d) == d + 1 <= o /\ \A j \in 1 .. n : D[o + j] = D[(o + j) - (d + 1)]

Code1(P, p, q, l, d) ==
  /\ d < High * Byte /\ P[p + 1] = ControlOf(l, d)
  /\ \/ l < Lens /\ q = p + 2 /\ P[p + 2] = d % Byte
     \/ l >= Lens /\ q = p + 3 /\ P[p + 2] = l - Lens /\ P[p + 3] = d % Byte

LenBytes(l) == IF l < Lens THEN 0 ELSE 1 + ((l - Lens) \div (Byte - 1))
LenAt(P, p, l) ==
  /\ \A j \in 1 .. LenBytes(l) - 1 : P[p + 1 + j] = Byte - 1
  /\ l >= Lens => P[p + 1 + LenBytes(l)] = (l - Lens) % (Byte - 1)

NearAt(P, p, q, l, d) ==
  /\ d < MaxDistance(2) /\ P[p + 1] = ControlOf(l, d)
  /\ q = p + LenBytes(l) + 2 /\ P[p + LenBytes(l) + 2] = d % Byte
FarAt(P, p, q, l, d) ==
  /\ d >= MaxDistance(2) /\ P[p + 1] = ControlOf(l, Byte * (High - 1))
  /\ q = p + LenBytes(l) + 4 /\ P[p + LenBytes(l) + 2] = Byte - 1
  /\ P[p + LenBytes(l) + 3] = (d - MaxDistance(2)) \div Byte
  /\ P[p + LenBytes(l) + 4] = (d - MaxDistance(2)) % Byte
Code2(P, p, q, l, d) == LenAt(P, p, l) /\ (NearAt(P, p, q, l, d) \/ FarAt(P, p, q, l, d))

CodeAt(P, lv, p, q, l, d) == IF lv = 1 THEN Code1(P, p, q, l, d) ELSE Code2(P, p, q, l, d)
MatchAt(P, D, lv, p, o, q, t) ==
  /\ p > 0
  /\ \E l \in Nat \ {0}, d \in Nat :
       t = o + l + 2 /\ Repeats(D, o, l + 2, d) /\ CodeAt(P, lv, p, q, l, d)

ItemAt(P, D, lv, x, y) == \/ LiteralAt(P, D, x[1], x[2], y[1], y[2])
                          \/ MatchAt(P, D, lv, x[1], x[2], y[1], y[2])

\* Places from the first to one behind, each but the last with an item that leads to
\* another.
Chain(P, D, lv, G, p, o) ==
  /\ G \subseteq Nat \X Nat /\ <<0, 0>> \in G /\ <<p, o>> \in G
  /\ \A x \in G : x[1] <= p /\ x[2] <= o
  /\ \A x \in G : x # <<p, o>> => x[1] < p /\ \E y \in G : ItemAt(P, D, lv, x, y)

\* The same bytes up to n, except for the level.
Same(P, R, n) == (n > 0 => P[1] % High = R[1] % High) /\ \A i \in 2 .. n : P[i] = R[i]

LEMMA SameCtrl ==
  ASSUME NEW P, NEW R, NEW n \in Nat, Same(P, R, n), NEW p \in Nat, p < n
  PROVE  CtrlAt(P, p) = CtrlAt(R, p)
<1>1. p # 0 => p + 1 \in 2 .. n
  OBVIOUS
<1>. QED
  BY <1>1 DEF CtrlAt, Same

LEMMA LiteralStays ==
  ASSUME NEW P, NEW R, NEW D, NEW n \in Nat, Same(P, R, n),
         NEW p \in Nat, NEW o, NEW q \in Nat, NEW t, q <= n, LiteralAt(P, D, p, o, q, t)
  PROVE  LiteralAt(R, D, p, o, q, t)
<1>1. PICK c \in 0 .. High - 1 : /\ CtrlAt(P, p) = c /\ q = p + c + 2 /\ t = o + c + 1
                                 /\ \A j \in 1 .. c + 1 : P[p + 1 + j] = D[o + j]
  BY DEF LiteralAt
<1>2. High \in Nat
  BY Widths
<1>3. p < n /\ \A j \in 1 .. c + 1 : p + 1 + j \in 2 .. n
  BY <1>1, <1>2
<1>4. CtrlAt(R, p) = c
  BY <1>1, <1>3, SameCtrl
<1>5. \A j \in 1 .. c + 1 : R[p + 1 + j] = D[o + j]
  BY <1>1, <1>3 DEF Same
<1>. QED
  BY <1>1, <1>4, <1>5 DEF LiteralAt

LEMMA LenBytesAre ==
  ASSUME NEW l \in Nat \ {0}
  PROVE  LenBytes(l) \in Nat /\ (l < Lens => LenBytes(l) = 0)
         /\ (l >= Lens => LenBytes(l) >= 1 /\ (l - Lens) % (Byte - 1) \in 0 .. Byte - 2
             /\ l - Lens = (LenBytes(l) - 1) * (Byte - 1) + ((l - Lens) % (Byte - 1))
             /\ LenBytes(l) - 1 <= l - Lens)
<1>1. Byte \in Nat /\ Byte - 1 \in Nat \ {0} /\ Lens \in Nat /\ Byte >= 3
  BY Widths
<1>2. CASE l < Lens
  BY <1>1, <1>2 DEF LenBytes
<1>3. CASE l >= Lens
  <2>. DEFINE b == Byte - 1
              m == l - Lens
              q == m \div b
              x == m % b
  <2>1. b \in Nat \ {0} /\ m \in Nat /\ b >= 2
    BY <1>1, <1>3
  <2>3. LenBytes(l) = 1 + q
    BY <1>1, <1>3 DEF LenBytes
  <2>4. x \in 0 .. Byte - 2 <=> x \in 0 .. b - 1
    BY <1>1
  <2>. HIDE DEF b, m
  <2>2. q \in Int /\ x \in Int /\ m = b * q + x /\ 0 <= x /\ x < b
    BY <2>1, Divided
  <2>. HIDE DEF q, x
  <2>5. q >= 0
    <3>1. q <= -1 => b * q <= -b
      BY <2>1, <2>2
    <3>. QED
      BY <2>1, <2>2, <3>1
  <2>6. q <= m
    <3>1. b * q >= q
      BY <2>1, <2>2, <2>5
    <3>. QED
      BY <2>1, <2>2, <2>5, <3>1
  <2>7. m = q * b + x /\ x \in 0 .. b - 1
    BY <2>1, <2>2
  <2>8. (1 + q) - 1 = q /\ 1 + q \in Nat /\ 1 + q >= 1
    BY <2>2, <2>5
  <2>9. LenBytes(l) - 1 = q
    BY <2>3, <2>8
  <2>10. l - Lens = m /\ Byte - 1 = b /\ (l - Lens) % (Byte - 1) = x
    BY DEF m, b, x
  <2>. QED
    BY <1>1, <1>3, <2>3, <2>4, <2>6, <2>7, <2>8, <2>9, <2>10
<1>. QED
  BY <1>1, <1>2, <1>3

LEMMA CodeStays ==
  ASSUME NEW P, NEW R, NEW n \in Nat, Same(P, R, n), NEW lv,
         NEW p \in Nat \ {0}, NEW q \in Nat, q <= n, NEW l \in Nat \ {0}, NEW d \in Nat,
         CodeAt(P, lv, p, q, l, d)
  PROVE  CodeAt(R, lv, p, q, l, d) /\ p + 2 <= q
<1>1. Lens \in Nat
  BY Widths
<1>2. \A i \in 2 .. n : P[i] = R[i]
  BY DEF Same
<1>3. CASE lv = 1
  <2>1. p + 2 <= q /\ p + 1 \in 2 .. n /\ p + 2 \in 2 .. n /\ (q = p + 3 => p + 3 \in 2 .. n)
    BY <1>3 DEF CodeAt, Code1
  <2>. QED
    BY <1>2, <1>3, <2>1 DEF CodeAt, Code1
<1>4. CASE lv # 1
  <2>. DEFINE h == LenBytes(l)
  <2>1. h \in Nat /\ (l >= Lens => h >= 1)
    BY LenBytesAre
  <2>2. LenAt(P, p, l) /\ (NearAt(P, p, q, l, d) \/ FarAt(P, p, q, l, d))
    BY <1>4 DEF CodeAt, Code2
  <2>3. p + h + 2 <= q
    BY <2>1, <2>2 DEF NearAt, FarAt
  <2>4. LenAt(R, p, l)
    <3>1. \A j \in 1 .. h - 1 : p + 1 + j \in 2 .. n
      BY <2>1, <2>3
    <3>2. p + 1 + h \in 2 .. n
      BY <2>1, <2>3
    <3>. QED
      BY <1>2, <2>2, <3>1, <3>2 DEF LenAt
  <2>5. CASE NearAt(P, p, q, l, d)
    <3>1. p + 1 \in 2 .. n /\ p + h + 2 \in 2 .. n
      BY <2>1, <2>3
    <3>2. NearAt(R, p, q, l, d)
      BY <1>2, <2>5, <3>1 DEF NearAt
    <3>. QED
      BY <1>4, <2>1, <2>3, <2>4, <3>2 DEF CodeAt, Code2
  <2>6. CASE FarAt(P, p, q, l, d)
    <3>1. p + 1 \in 2 .. n /\ p + h + 2 \in 2 .. n /\ p + h + 3 \in 2 .. n /\ p + h + 4 \in 2 .. n
      BY <2>1, <2>3, <2>6 DEF FarAt
    <3>2. FarAt(R, p, q, l, d)
      BY <1>2, <2>6, <3>1 DEF FarAt
    <3>. QED
      BY <1>4, <2>1, <2>3, <2>4, <3>2 DEF CodeAt, Code2
  <2>. QED
    BY <2>2, <2>5, <2>6
<1>. QED
  BY <1>3, <1>4

LEMMA ItemStays ==
  ASSUME NEW P, NEW R, NEW D, NEW lv, NEW n \in Nat, Same(P, R, n),
         NEW x \in Nat \X Nat, NEW y \in Nat \X Nat, y[1] <= n, ItemAt(P, D, lv, x, y)
  PROVE  ItemAt(R, D, lv, x, y)
<1>. DEFINE p == x[1]
            o == x[2]
            q == y[1]
            t == y[2]
<1>1. p \in Nat /\ q \in Nat
  OBVIOUS
<1>2. CASE LiteralAt(P, D, p, o, q, t)
  BY <1>1, <1>2, LiteralStays DEF ItemAt
<1>3. CASE MatchAt(P, D, lv, p, o, q, t)
  <2>1. PICK l \in Nat \ {0}, d \in Nat :
          t = o + l + 2 /\ Repeats(D, o, l + 2, d) /\ CodeAt(P, lv, p, q, l, d)
    BY <1>3 DEF MatchAt
  <2>2. p \in Nat \ {0} /\ p > 0
    BY <1>1, <1>3 DEF MatchAt
  <2>3. CodeAt(R, lv, p, q, l, d)
    BY <1>1, <2>1, <2>2, CodeStays
  <2>4. MatchAt(R, D, lv, p, o, q, t)
    BY <2>1, <2>2, <2>3 DEF MatchAt
  <2>. QED
    BY <2>4 DEF ItemAt
<1>. QED
  BY <1>2, <1>3 DEF ItemAt

LEMMA ChainStays ==
  ASSUME NEW P, NEW R, NEW D, NEW lv, NEW G, NEW p \in Nat, NEW o \in Nat,
         Same(P, R, p), Chain(P, D, lv, G, p, o)
  PROVE  Chain(R, D, lv, G, p, o)
<1>1. \A x, y \in G : x \in Nat \X Nat /\ y \in Nat \X Nat /\ y[1] <= p
  BY DEF Chain
<1>2. \A x, y \in G : ItemAt(P, D, lv, x, y) => ItemAt(R, D, lv, x, y)
  BY <1>1, ItemStays
<1>. QED
  BY <1>2 DEF Chain

LEMMA ChainGrows ==
  ASSUME NEW P, NEW R, NEW D, NEW lv, NEW G, NEW p \in Nat, NEW o \in Nat,
         Same(P, R, p), Chain(P, D, lv, G, p, o),
         NEW q \in Nat, NEW t \in Nat, p < q, o <= t, ItemAt(R, D, lv, <<p, o>>, <<q, t>>)
  PROVE  \E H : Chain(R, D, lv, H, q, t)
<1>1. Chain(R, D, lv, G, p, o)
  BY ChainStays
<1>. DEFINE H == G \union {<<q, t>>}
<1>2. H \subseteq Nat \X Nat /\ <<0, 0>> \in H /\ <<q, t>> \in H
  BY <1>1 DEF Chain
<1>3. ASSUME NEW x \in H PROVE x[1] <= q /\ x[2] <= t
  <2>1. CASE x = <<q, t>>
    BY <2>1
  <2>2. CASE x \in G
    <3>1. x[1] \in Nat /\ x[2] \in Nat /\ x[1] <= p /\ x[2] <= o
      BY <1>1, <2>2 DEF Chain
    <3>. QED
      BY <3>1
  <2>. QED
    BY <2>1, <2>2
<1>4. ASSUME NEW x \in H, x # <<q, t>> PROVE x[1] < q /\ \E y \in H : ItemAt(R, D, lv, x, y)
  <2>1. x \in G
    BY <1>4
  <2>2. CASE x = <<p, o>>
    BY <2>2
  <2>3. CASE x # <<p, o>>
    <3>1. x[1] \in Nat /\ x[1] < p /\ \E y \in G : ItemAt(R, D, lv, x, y)
      BY <1>1, <2>1, <2>3 DEF Chain
    <3>. QED
      BY <3>1
  <2>. QED
    BY <2>2, <2>3
<1>. HIDE DEF H
<1>. QED
  BY <1>2, <1>3, <1>4 DEF Chain

-----------------------------------------------------------------------------
(* Packing: a chain of items, and behind it literals with a count that is  *)
(* not yet known.                                                          *)

Packing(P, D, lv, p, o, n) ==
  /\ P \in Seq(Int) /\ p \in Nat /\ o \in Nat /\ n \in 0 .. High - 1 /\ Len(P) = p + n + 1
  /\ P[p + 1] = High - 1 /\ (p = 0 => o = 0)
  /\ P[1] \in 0 .. High - 1
  /\ p <= o + CountBytes(o)
  /\ \E G : Chain(P, D, lv, G, p, o)
  /\ \A j \in 1 .. n : P[p + 1 + j] = D[o + j]

\* The first o bytes are packed, and each count is known.
Complete(P, D, lv, o) ==
  /\ P \in Seq(Int) /\ o \in Nat /\ Len(P) > 0 /\ P[1] \in 0 .. High - 1
  /\ Len(P) <= o + CountBytes(o) + 1
  /\ \E G : Chain(P, D, lv, G, Len(P), o)

LEMMA CountIsLow ==
  ASSUME NEW c \in 0 .. High - 1
  PROVE  c % High = c /\ c \div High = 0
<1>1. High \in Nat \ {0}
  BY Widths
<1>2. c \in Int /\ c = High * 0 + c /\ 0 <= c /\ c < High
  BY <1>1
<1>. QED
  BY <1>1, <1>2, DividedOnce

LEMMA ChainOfSome ==
  ASSUME NEW P, NEW R, NEW D, NEW lv, NEW p \in Nat, NEW o \in Nat, NEW q \in Nat, NEW t \in Nat,
         \E G : Chain(P, D, lv, G, p, o), Same(P, R, p), p < q, o <= t,
         LiteralAt(R, D, p, o, q, t) \/ MatchAt(R, D, lv, p, o, q, t)
  PROVE  \E H : Chain(R, D, lv, H, q, t)
<1>1. PICK G : Chain(P, D, lv, G, p, o)
  OBVIOUS
<1>2. ItemAt(R, D, lv, <<p, o>>, <<q, t>>)
  BY DEF ItemAt
<1>. QED
  BY <1>1, <1>2, ChainGrows

LEMMA FrontIs ==
  ASSUME NEW P \in Seq(Int), Len(P) > 0
  PROVE  /\ Front(P) \in Seq(Int) /\ Len(Front(P)) = Len(P) - 1
         /\ \A i \in 1 .. Len(P) - 1 : Front(P)[i] = P[i]
<1>. DEFINE l == Len(P)
<1>1. l \in Nat /\ l >= 1
  OBVIOUS
<1>2. \A i \in 1 .. l - 1 : P[i] \in Int
  BY <1>1
<1>3. /\ SubSeq(P, 1, l - 1) \in Seq(Int)
      /\ Len(SubSeq(P, 1, l - 1)) = IF 1 <= l - 1 THEN (l - 1) - 1 + 1 ELSE 0
      /\ \A i \in 1 .. (l - 1) - 1 + 1 : SubSeq(P, 1, l - 1)[i] = P[1 + i - 1]
  BY <1>1, <1>2, SubSeqProperties
<1>4. Front(P) = SubSeq(P, 1, l - 1)
  BY DEF Front
<1>. HIDE DEF l
<1>5. (l - 1) - 1 + 1 = l - 1 /\ (~ (1 <= l - 1) => l - 1 = 0) /\ \A i \in 1 .. l - 1 : 1 + i - 1 = i
  BY <1>1
<1>. QED
  BY <1>3, <1>4, <1>5 DEF l

LEMMA CountedIs ==
  ASSUME NEW P, NEW D, NEW lv, NEW p, NEW o, NEW n, Packing(P, D, lv, p, o, n), n = 0 => p > 0
  PROVE  Complete(Counted(P, n), D, lv, o + n)
<1>1. /\ P \in Seq(Int) /\ p \in Nat /\ o \in Nat /\ n \in 0 .. High - 1 /\ Len(P) = p + n + 1
      /\ P[1] \in 0 .. High - 1 /\ p <= o + CountBytes(o) /\ \E G : Chain(P, D, lv, G, p, o)
      /\ \A j \in 1 .. n : P[p + 1 + j] = D[o + j]
  BY DEF Packing
<1>2. High \in Nat /\ n \in Nat
  BY <1>1, Widths
<1>3. CountBytes(o) \in Nat /\ CountBytes(o + n) \in Nat /\ CountBytes(o) <= CountBytes(o + n)
  <2>1. o + n \in Nat /\ o <= o + n
    BY <1>1, <1>2
  <2>. QED
    BY <1>1, <2>1, CountsGrow
<1>. DEFINE Q == Counted(P, n)
<1>4. CASE n = 0
  <2>1. Q = Front(P)
    BY <1>4 DEF Counted
  <2>2. Len(P) - 1 = p /\ Len(P) > 0 /\ p > 0 /\ o + n = o
    BY <1>1, <1>4
  <2>3. Q \in Seq(Int) /\ Len(Q) = p /\ \A i \in 1 .. p : Q[i] = P[i]
    BY <1>1, <2>1, <2>2, FrontIs
  <2>. HIDE DEF Q
  <2>4. Same(P, Q, p) /\ Q[1] = P[1]
    <3>1. 1 \in 1 .. p /\ \A i \in 2 .. p : i \in 1 .. p
      BY <1>1, <2>2
    <3>. QED
      BY <2>3, <3>1 DEF Same
  <2>5. \E G : Chain(Q, D, lv, G, p, o)
    BY <1>1, <2>4, ChainStays
  <2>6. p <= o + CountBytes(o) + 1
    BY <1>1, <1>3
  <2>. QED
    BY <1>1, <2>2, <2>3, <2>4, <2>5, <2>6 DEF Complete, Q
<1>5. CASE n # 0
  <2>1. Len(P) - n = p + 1 /\ p + 1 \in 1 .. Len(P) /\ n - 1 \in Int /\ n - 1 \in 0 .. High - 1
    BY <1>1, <1>2, <1>5
  <2>2. Q = [P EXCEPT ![p + 1] = n - 1]
    BY <1>5, <2>1 DEF Counted
  <2>3. Q \in Seq(Int) /\ Len(Q) = Len(P)
        /\ \A j \in 1 .. Len(P) : Q[j] = IF j = p + 1 THEN n - 1 ELSE P[j]
    BY <1>1, <2>1, <2>2, ExceptSeq
  <2>. HIDE DEF Q
  <2>4. Q[p + 1] = n - 1
    BY <2>1, <2>3
  <2>5. \A i \in 1 .. p : Q[i] = P[i]
    <3>1. \A i \in 1 .. p : i \in 1 .. Len(P) /\ i # p + 1
      BY <1>1, <1>2
    <3>. QED
      BY <2>3, <3>1
  <2>6. Same(P, Q, p) /\ Q[1] \in 0 .. High - 1
    <3>1. CASE p = 0
      BY <2>1, <2>4, <3>1 DEF Same
    <3>2. CASE p # 0
      <4>1. 1 \in 1 .. p /\ \A i \in 2 .. p : i \in 1 .. p
        BY <1>1, <3>2
      <4>. QED
        BY <1>1, <2>5, <4>1 DEF Same
    <3>. QED
      BY <3>1, <3>2
  <2>7. CtrlAt(Q, p) = n - 1
    BY <1>1, <2>1, <2>4, CountIsLow DEF CtrlAt
  <2>8. \A j \in 1 .. n : Q[p + 1 + j] = D[o + j]
    <3>1. \A j \in 1 .. n : p + 1 + j \in 1 .. Len(P) /\ p + 1 + j # p + 1
      BY <1>1, <1>2
    <3>. QED
      BY <1>1, <2>3, <3>1
  <2>9. LiteralAt(Q, D, p, o, p + n + 1, o + n)
    <3>1. p + n + 1 = p + (n - 1) + 2 /\ o + n = o + (n - 1) + 1 /\ (n - 1) + 1 = n
      BY <1>1, <1>2
    <3>. QED
      BY <2>1, <2>7, <2>8, <3>1 DEF LiteralAt
  <2>10. p + n + 1 \in Nat /\ o + n \in Nat /\ p < p + n + 1 /\ o <= o + n
    BY <1>1, <1>2
  <2>11. \E G : Chain(Q, D, lv, G, p + n + 1, o + n)
    BY <1>1, <2>6, <2>9, <2>10, ChainOfSome
  <2>12. p + n + 1 <= (o + n) + CountBytes(o + n) + 1 /\ p + n + 1 > 0
    BY <1>1, <1>2, <1>3
  <2>. QED
    BY <1>1, <2>3, <2>6, <2>10, <2>11, <2>12 DEF Complete, Q
<1>. QED
  BY <1>4, <1>5

LEMMA WithByteIs ==
  ASSUME NEW P, NEW D, NEW lv, NEW p, NEW o, NEW n, Packing(P, D, lv, p, o, n),
         NEW b \in Int, b = D[o + n + 1],
         NEW s, s = WithByte([packed |-> P, copy |-> n], b)
  PROVE  \E q, t : Packing(s.packed, D, lv, q, t, s.copy) /\ t + s.copy = o + n + 1
<1>0. P \in Seq(Int) /\ Len(P) \in Nat
  BY DEF Packing
<1>1. /\ P \in Seq(Int) /\ p \in Nat /\ o \in Nat /\ n \in 0 .. High - 1 /\ Len(P) = p + n + 1
      /\ P[p + 1] = High - 1
      /\ P[1] \in 0 .. High - 1 /\ p <= o + CountBytes(o) /\ \E G : Chain(P, D, lv, G, p, o)
      /\ \A j \in 1 .. n : P[p + 1 + j] = D[o + j]
      /\ (p = 0 => o = 0)
  BY DEF Packing
<1>2. High \in Nat \ {0} /\ n \in Nat
  BY <1>1, Widths
<1>3. CASE n + 1 = High
  <2>. DEFINE w == <<b, High - 1>>
              R == P \o w
              q == p + High + 1
              t == o + High
  <2>1. s.packed = R /\ s.copy = 0
    BY <1>3 DEF WithByte, MaxCopy
  <2>2. w \in Seq(Int) /\ Len(w) = 2 /\ w[1] = b /\ w[2] = High - 1
    BY <1>2
  <2>. HIDE DEF w
  <2>3. /\ R \in Seq(Int) /\ Len(R) = Len(P) + Len(w)
        /\ \A i \in 1 .. Len(P) + Len(w) : R[i] = IF i <= Len(P) THEN P[i] ELSE w[i - Len(P)]
    BY <1>0, <2>2, ConcatProperties
  <2>. HIDE DEF R
  <2>4. Len(P) = p + High /\ Len(R) = p + High + 2
    BY <1>1, <1>2, <1>3, <2>2, <2>3
  <2>5. \A i \in 1 .. p + High : R[i] = P[i]
    <3>1. \A i \in 1 .. Len(P) : i \in 1 .. Len(P) + Len(w) /\ i <= Len(P)
      BY <1>0, <2>2
    <3>. QED
      BY <2>3, <2>4, <3>1
  <2>6. R[p + High + 1] = b /\ R[p + High + 2] = High - 1
    <3>1. p + High + 1 \in 1 .. Len(P) + Len(w) /\ ~ (p + High + 1 <= Len(P)) /\ (p + High + 1) - Len(P) = 1
          /\ p + High + 2 \in 1 .. Len(P) + Len(w) /\ ~ (p + High + 2 <= Len(P)) /\ (p + High + 2) - Len(P) = 2
      BY <1>1, <1>2, <2>2, <2>4
    <3>. QED
      BY <2>2, <2>3, <3>1
  <2>7. R[1] = P[1] /\ R[p + 1] = High - 1 /\ Same(P, R, p)
    <3>1. 1 \in 1 .. p + High /\ p + 1 \in 1 .. p + High /\ \A i \in 2 .. p : i \in 1 .. p + High
      BY <1>1, <1>2
    <3>. QED
      BY <1>1, <2>5, <3>1 DEF Same
  <2>8. CtrlAt(R, p) = High - 1 /\ High - 1 \in 0 .. High - 1
    <3>1. High - 1 \in 0 .. High - 1
      BY <1>2
    <3>. QED
      BY <1>1, <2>7, <3>1, CountIsLow DEF CtrlAt
  <2>9. ASSUME NEW j \in 1 .. High PROVE R[p + 1 + j] = D[o + j]
    <3>1. CASE j = High
      <4>1. p + 1 + j = p + High + 1 /\ o + j = o + n + 1
        BY <1>1, <1>2, <1>3, <3>1
      <4>. QED
        BY <2>6, <4>1
    <3>2. CASE j # High
      <4>1. j \in 1 .. n /\ p + 1 + j \in 1 .. p + High
        BY <1>1, <1>2, <1>3, <3>2
      <4>. QED
        BY <1>1, <2>5, <4>1
    <3>. QED
      BY <3>1, <3>2
  <2>10. LiteralAt(R, D, p, o, q, t)
    <3>1. q = p + (High - 1) + 2 /\ t = o + (High - 1) + 1 /\ (High - 1) + 1 = High
      BY <1>1, <1>2
    <3>. QED
      BY <2>8, <2>9, <3>1 DEF LiteralAt
  <2>11. q \in Nat /\ t \in Nat /\ p < q /\ o <= t /\ q # 0
    BY <1>1, <1>2
  <2>12. \E G : Chain(R, D, lv, G, q, t)
    BY <1>1, <2>7, <2>10, <2>11, ChainOfSome
  <2>13. CountBytes(o) \in Nat /\ CountBytes(t) = CountBytes(o) + 1
    BY <1>1, CountsGrow
  <2>14. q <= t + CountBytes(t)
    BY <1>1, <1>2, <2>13
  <2>15. /\ Len(R) = q + 0 + 1 /\ 0 \in 0 .. High - 1 /\ R[q + 1] = High - 1 /\ t + 0 = o + n + 1
         /\ \A j \in 1 .. 0 : R[q + 1 + j] = D[t + j]
    <3>1. Len(R) = q + 0 + 1 /\ q + 1 = p + High + 2 /\ 0 \in 0 .. High - 1 /\ t + 0 = o + n + 1
      BY <1>1, <1>2, <1>3, <2>4
    <3>. QED
      BY <2>6, <3>1
  <2>. HIDE DEF q, t
  <2>16. Packing(R, D, lv, q, t, 0)
    BY <1>1, <2>3, <2>7, <2>11, <2>12, <2>14, <2>15 DEF Packing
  <2>. QED
    BY <2>1, <2>15, <2>16
<1>4. CASE n + 1 # High
  <2>. DEFINE R == Append(P, b)
  <2>1. s.packed = R /\ s.copy = n + 1
    BY <1>4 DEF WithByte, MaxCopy
  <2>2. /\ R \in Seq(Int) /\ Len(R) = Len(P) + 1 /\ R[Len(P) + 1] = b
        /\ \A i \in 1 .. Len(P) : R[i] = P[i]
    BY <1>0, AppendProperties
  <2>. HIDE DEF R
  <2>3. R[1] = P[1] /\ R[p + 1] = High - 1 /\ Same(P, R, p)
    <3>1. 1 \in 1 .. Len(P) /\ p + 1 \in 1 .. Len(P) /\ \A i \in 2 .. p : i \in 1 .. Len(P)
      BY <1>1, <1>2
    <3>. QED
      BY <1>1, <2>2, <3>1 DEF Same
  <2>4. \E G : Chain(R, D, lv, G, p, o)
    BY <1>1, <2>3, ChainStays
  <2>5. ASSUME NEW j \in 1 .. n + 1 PROVE R[p + 1 + j] = D[o + j]
    <3>1. CASE j = n + 1
      <4>1. p + 1 + j = Len(P) + 1 /\ o + j = o + n + 1
        BY <1>1, <1>2, <3>1
      <4>. QED
        BY <2>2, <4>1
    <3>2. CASE j # n + 1
      <4>1. j \in 1 .. n /\ p + 1 + j \in 1 .. Len(P)
        BY <1>1, <1>2, <3>2
      <4>. QED
        BY <1>1, <2>2, <4>1
    <3>. QED
      BY <3>1, <3>2
  <2>6. n + 1 \in 0 .. High - 1 /\ Len(R) = p + (n + 1) + 1 /\ o + (n + 1) = o + n + 1
    BY <1>1, <1>2, <1>4, <2>2
  <2>7. Packing(R, D, lv, p, o, n + 1)
    BY <1>1, <2>2, <2>3, <2>4, <2>5, <2>6 DEF Packing
  <2>. QED
    BY <2>1, <2>6, <2>7
<1>. QED
  BY <1>3, <1>4

-----------------------------------------------------------------------------
(* What a match is encoded as. *)

Together(s, t, u) ==
  /\ u \in Seq(Int) /\ Len(u) = Len(s) + Len(t)
  /\ \A i \in 1 .. Len(s) : u[i] = s[i]
  /\ \A i \in 1 .. Len(t) : u[Len(s) + i] = t[i]

LEMMA PutBehind ==
  ASSUME NEW s \in Seq(Int), NEW t \in Seq(Int)
  PROVE  Together(s, t, s \o t)
<1>. DEFINE u == s \o t
<1>1. Len(s) \in Nat /\ Len(t) \in Nat
  OBVIOUS
<1>2. /\ u \in Seq(Int) /\ Len(u) = Len(s) + Len(t)
      /\ \A i \in 1 .. Len(s) + Len(t) : u[i] = IF i <= Len(s) THEN s[i] ELSE t[i - Len(s)]
  BY ConcatProperties
<1>. HIDE DEF u
<1>3. ASSUME NEW i \in 1 .. Len(s) PROVE u[i] = s[i]
  <2>1. i \in 1 .. Len(s) + Len(t) /\ i <= Len(s)
    BY <1>1
  <2>. QED
    BY <1>2, <2>1
<1>4. ASSUME NEW i \in 1 .. Len(t) PROVE u[Len(s) + i] = t[i]
  <2>1. Len(s) + i \in 1 .. Len(s) + Len(t) /\ ~ (Len(s) + i <= Len(s)) /\ (Len(s) + i) - Len(s) = i
    BY <1>1
  <2>. QED
    BY <1>2, <2>1
<1>5. Together(s, t, u)
  BY <1>2, <1>3, <1>4 DEF Together
<1>. QED
  BY <1>5 DEF u

\* Three together, the first of them a single byte.
AllTogether(a, s, t, u) ==
  /\ u \in Seq(Int) /\ Len(u) = 1 + Len(s) + Len(t) /\ u[1] = a
  /\ \A i \in 1 .. Len(s) : u[1 + i] = s[i]
  /\ \A i \in 1 .. Len(t) : u[1 + Len(s) + i] = t[i]

LEMMA Wrapped ==
  ASSUME NEW a \in Int, NEW s \in Seq(Int), NEW t \in Seq(Int)
  PROVE  AllTogether(a, s, t, <<a>> \o s \o t)
<1>. DEFINE h == <<a>>
            u == h \o s
            w == u \o t
<1>1. h \in Seq(Int) /\ Len(h) = 1 /\ h[1] = a
  OBVIOUS
<1>2. w = <<a>> \o s \o t
  OBVIOUS
<1>. HIDE DEF h
<1>3. Together(h, s, u)
  BY <1>1, PutBehind
<1>. HIDE DEF u
<1>4. u \in Seq(Int)
  BY <1>3 DEF Together
<1>5. Together(u, t, w)
  BY <1>4, PutBehind
<1>. HIDE DEF w
<1>6. /\ Len(u) = 1 + Len(s) /\ u[1] = a
      /\ \A i \in 1 .. Len(s) : u[1 + i] = s[i]
  <2>1. 1 \in 1 .. 1
    OBVIOUS
  <2>. QED
    BY <1>1, <1>3, <2>1 DEF Together
<1>7. Len(s) \in Nat /\ 1 \in 1 .. 1 + Len(s) /\ \A i \in 1 .. Len(s) : 1 + i \in 1 .. 1 + Len(s)
  OBVIOUS
<1>8. AllTogether(a, s, t, w)
  BY <1>5, <1>6, <1>7 DEF Together, AllTogether
<1>. QED
  BY <1>2, <1>8

\* The bytes of a length that the control byte cannot hold.
LensOf(l) == IF l < Lens THEN <<>>
             ELSE [p \in 1 .. (l - Lens) \div (Byte - 1) |-> Byte - 1] \o <<(l - Lens) % (Byte - 1)>>

LEMMA LensAre ==
  ASSUME NEW l \in Nat \ {0}
  PROVE  /\ LensOf(l) \in Seq(Int) /\ Len(LensOf(l)) = LenBytes(l)
         /\ \A j \in 1 .. LenBytes(l) - 1 : LensOf(l)[j] = Byte - 1
         /\ l >= Lens => LensOf(l)[LenBytes(l)] = (l - Lens) % (Byte - 1)
<1>1. Lens \in Nat /\ Byte \in Nat
  BY Widths
<1>2. CASE l < Lens
  <2>1. LensOf(l) = <<>> /\ LenBytes(l) = 0 /\ ~ (l >= Lens)
    BY <1>1, <1>2 DEF LensOf, LenBytes
  <2>. QED
    BY <2>1
<1>3. CASE l >= Lens
  <2>. DEFINE k == (l - Lens) \div (Byte - 1)
              x == (l - Lens) % (Byte - 1)
              a == [p \in 1 .. k |-> Byte - 1]
              z == <<x>>
  <2>1. LenBytes(l) = 1 + k
    BY <1>1, <1>3 DEF LenBytes
  <2>2. LensOf(l) = a \o z
    <3>1. ~ (l < Lens)
      BY <1>1, <1>3
    <3>. QED
      BY <3>1 DEF LensOf
  <2>3. LenBytes(l) \in Nat /\ LenBytes(l) >= 1 /\ x \in 0 .. Byte - 2
    BY <1>3, LenBytesAre
  <2>4. k \in Int
    <3>1. Byte - 1 \in Nat \ {0} /\ l - Lens \in Int
      BY <1>1, Widths
    <3>. QED
      BY <3>1, Divided
  <2>. HIDE DEF k
  <2>5. k \in Nat /\ Byte - 1 \in Int /\ x \in Int
    BY <1>1, <2>1, <2>3, <2>4
  <2>. HIDE DEF x
  <2>6. a \in Seq(Int) /\ Len(a) = k /\ \A j \in 1 .. k : a[j] = Byte - 1
    BY <2>5
  <2>7. z \in Seq(Int) /\ Len(z) = 1 /\ z[1] = x
    BY <2>5
  <2>. HIDE DEF a, z
  <2>8. /\ LensOf(l) \in Seq(Int) /\ Len(LensOf(l)) = k + 1
        /\ \A i \in 1 .. k : LensOf(l)[i] = a[i]
        /\ \A i \in 1 .. 1 : LensOf(l)[k + i] = z[i]
    <3>1. /\ LensOf(l) \in Seq(Int) /\ Len(LensOf(l)) = Len(a) + Len(z)
          /\ \A i \in 1 .. Len(a) : LensOf(l)[i] = a[i]
          /\ \A i \in 1 .. Len(z) : LensOf(l)[Len(a) + i] = z[i]
      <4>1. Together(a, z, LensOf(l))
        BY <2>2, <2>6, <2>7, PutBehind
      <4>. QED
        BY <4>1 DEF Together
    <3>. QED
      BY <2>6, <2>7, <3>1
  <2>9. 1 \in 1 .. 1 /\ LenBytes(l) = k + 1 /\ LenBytes(l) - 1 = k
    BY <2>1, <2>5
  <2>10. LensOf(l)[k + 1] = x
    BY <2>7, <2>8, <2>9
  <2>. QED
    BY <2>6, <2>8, <2>9, <2>10 DEF x
<1>. QED
  BY <1>1, <1>2, <1>3

LEMMA DistanceFits ==
  /\ MaxDistance(2) \in Nat /\ MaxDistance(2) = High * Byte - 1
  /\ Byte * (High - 1) \in Nat /\ Byte * (High - 1) < High * Byte
  /\ (Byte * (High - 1)) \div Byte = High - 1
<1>1. High \in Nat /\ High >= 3 /\ Byte \in Nat /\ Byte >= 15
  BY Widths
<1>2. MaxDistance(2) = High * Byte - 1
  BY DEF MaxDistance
<1>3. \A a, b \in Nat : a >= 3 /\ b >= 15 => a * b \in Nat /\ a * b >= 1
                        /\ b * (a - 1) \in Nat /\ b * (a - 1) < a * b
  OBVIOUS
<1>4. Byte * (High - 1) = Byte * (High - 1) + 0 /\ High - 1 \in Int /\ Byte \in Nat \ {0} /\ 0 < Byte
      /\ Byte * (High - 1) \in Int
  BY <1>1, <1>3
<1>5. (Byte * (High - 1)) \div Byte = High - 1
  BY <1>4, DividedOnce
<1>6. High * Byte \in Nat /\ High * Byte >= 1
      /\ Byte * (High - 1) \in Nat /\ Byte * (High - 1) < High * Byte
  BY <1>1, <1>3
<1>7. High * Byte - 1 \in Nat
  BY <1>6
<1>. QED
  BY <1>2, <1>5, <1>6, <1>7

LEMMA Encoded2Is ==
  ASSUME NEW Q \in Seq(Int), NEW l \in Nat \ {0}, NEW d \in Nat,
         NEW c, c = Encoded2(l, d)
  PROVE  /\ c \in Seq(Int)
         /\ Len(c) = LenBytes(l) + IF d < MaxDistance(2) THEN 2 ELSE 4
         /\ Code2(Q \o c, Len(Q), Len(Q) + Len(c), l, d)
<1>. DEFINE R == Q \o c
            h == LenBytes(l)
            ls == LensOf(l)
            p == Len(Q)
            m == MaxDistance(2)
            hb == High * Byte
<1>1. h \in Nat /\ p \in Nat /\ m \in Nat /\ m = hb - 1 /\ Byte \in Nat \ {0} /\ hb \in Int
      /\ Lens \in Nat /\ (l >= Lens => h >= 1)
  BY LenBytesAre, DistanceFits, Widths
<1>2. /\ ls \in Seq(Int) /\ Len(ls) = h /\ \A j \in 1 .. h - 1 : ls[j] = Byte - 1
      /\ l >= Lens => ls[h] = (l - Lens) % (Byte - 1)
  BY LensAre
<1>3. CASE d < m
  <2>. DEFINE a == ControlOf(l, d)
              x == d % Byte
              z == <<x>>
  <2>1. a \in Int /\ x \in Int
    <3>1. d < hb
      BY <1>1, <1>3
    <3>. QED
      BY <3>1, ControlSays
  <2>2. c = <<a>> \o ls \o z
    <3>1. ~ (d >= m)
      BY <1>1, <1>3
    <3>. QED
      BY <3>1 DEF Encoded2, LensOf
  <2>. HIDE DEF a, x, ls
  <2>3. z \in Seq(Int) /\ Len(z) = 1 /\ z[1] = x
    BY <2>1
  <2>. HIDE DEF z
  <2>4. /\ c \in Seq(Int) /\ Len(c) = 1 + h + 1 /\ c[1] = a
        /\ \A i \in 1 .. h : c[1 + i] = ls[i]
        /\ \A i \in 1 .. 1 : c[1 + h + i] = z[i]
    <3>1. /\ c \in Seq(Int) /\ Len(c) = 1 + Len(ls) + Len(z) /\ c[1] = a
          /\ \A i \in 1 .. Len(ls) : c[1 + i] = ls[i]
          /\ \A i \in 1 .. Len(z) : c[1 + Len(ls) + i] = z[i]
      <4>1. AllTogether(a, ls, z, c)
        BY <1>2, <2>1, <2>2, <2>3, Wrapped
      <4>. QED
        BY <4>1 DEF AllTogether
    <3>. QED
      BY <1>2, <2>3, <3>1
  <2>. HIDE DEF h, p
  <2>5. Len(c) = h + 2 /\ 1 \in 1 .. 1 /\ 1 + h + 1 = h + 2 /\ h + 2 \in 1 .. h + 2 /\ 1 \in 1 .. h + 2
        /\ \A i \in 1 .. h : 1 + i \in 1 .. h + 2
    BY <1>1, <2>4
  <2>6. c[h + 2] = x
    BY <2>3, <2>4, <2>5
  <2>7. \A i \in 1 .. h + 2 : R[p + i] = c[i]
    <3>1. Together(Q, c, R)
      BY <2>4, PutBehind
    <3>. QED
      BY <2>5, <3>1 DEF Together, p
  <2>. HIDE DEF R
  <2>8. R[p + 1] = a /\ R[p + h + 2] = x /\ \A i \in 1 .. h : R[p + 1 + i] = ls[i]
    <3>1. p + (h + 2) = p + h + 2 /\ \A i \in 1 .. h : p + (1 + i) = p + 1 + i
      BY <1>1
    <3>2. R[p + 1] = a /\ R[p + (h + 2)] = x /\ \A i \in 1 .. h : R[p + (1 + i)] = ls[i]
      BY <2>4, <2>5, <2>6, <2>7
    <3>. QED
      BY <3>1, <3>2
  <2>9. LenAt(R, p, l)
    <3>1. (\A j \in 1 .. h - 1 : j \in 1 .. h) /\ (l >= Lens => h \in 1 .. h)
      BY <1>1
    <3>. QED
      BY <1>2, <2>8, <3>1 DEF LenAt, h
  <2>10. NearAt(R, p, p + (h + 2), l, d)
    <3>1. p + (h + 2) = p + h + 2
      BY <1>1
    <3>. QED
      BY <1>3, <2>8, <3>1 DEF NearAt, h, a, x
  <2>. QED
    BY <1>3, <2>4, <2>5, <2>9, <2>10 DEF Code2, R, p, h
<1>4. CASE ~ (d < m)
  <2>. DEFINE a == ControlOf(l, Byte * (High - 1))
              x == (d - m) \div Byte
              y == (d - m) % Byte
              z == <<Byte - 1, x, y>>
  <2>1. a \in Int /\ x \in Int /\ y \in Int /\ d >= m
    <3>1. a \in Int
      BY DistanceFits, ControlSays
    <3>2. d - m \in Int /\ d >= m
      BY <1>1, <1>4
    <3>. QED
      BY <1>1, <3>1, <3>2, Divided
  <2>2. c = <<a>> \o ls \o z
    BY <2>1 DEF Encoded2, LensOf
  <2>. HIDE DEF a, x, y, ls
  <2>3. z \in Seq(Int) /\ Len(z) = 3 /\ z[1] = Byte - 1 /\ z[2] = x /\ z[3] = y
    BY <1>1, <2>1
  <2>. HIDE DEF z
  <2>4. /\ c \in Seq(Int) /\ Len(c) = 1 + h + 3 /\ c[1] = a
        /\ \A i \in 1 .. h : c[1 + i] = ls[i]
        /\ \A i \in 1 .. 3 : c[1 + h + i] = z[i]
    <3>1. /\ c \in Seq(Int) /\ Len(c) = 1 + Len(ls) + Len(z) /\ c[1] = a
          /\ \A i \in 1 .. Len(ls) : c[1 + i] = ls[i]
          /\ \A i \in 1 .. Len(z) : c[1 + Len(ls) + i] = z[i]
      <4>1. AllTogether(a, ls, z, c)
        BY <1>2, <2>1, <2>2, <2>3, Wrapped
      <4>. QED
        BY <4>1 DEF AllTogether
    <3>. QED
      BY <1>2, <2>3, <3>1
  <2>. HIDE DEF h, p
  <2>5. /\ Len(c) = h + 4 /\ 1 + h + 1 = h + 2 /\ 1 + h + 2 = h + 3 /\ 1 + h + 3 = h + 4
        /\ 1 \in 1 .. 3 /\ 2 \in 1 .. 3 /\ 3 \in 1 .. 3
        /\ h + 2 \in 1 .. h + 4 /\ h + 3 \in 1 .. h + 4 /\ h + 4 \in 1 .. h + 4 /\ 1 \in 1 .. h + 4
        /\ \A i \in 1 .. h : 1 + i \in 1 .. h + 4
    BY <1>1, <2>4
  <2>6. c[h + 2] = Byte - 1 /\ c[h + 3] = x /\ c[h + 4] = y
    BY <2>3, <2>4, <2>5
  <2>7. \A i \in 1 .. h + 4 : R[p + i] = c[i]
    <3>1. Together(Q, c, R)
      BY <2>4, PutBehind
    <3>. QED
      BY <2>5, <3>1 DEF Together, p
  <2>. HIDE DEF R
  <2>8. /\ R[p + 1] = a /\ R[p + h + 2] = Byte - 1 /\ R[p + h + 3] = x /\ R[p + h + 4] = y
        /\ \A i \in 1 .. h : R[p + 1 + i] = ls[i]
    <3>1. /\ p + (h + 2) = p + h + 2 /\ p + (h + 3) = p + h + 3 /\ p + (h + 4) = p + h + 4
          /\ \A i \in 1 .. h : p + (1 + i) = p + 1 + i
      BY <1>1
    <3>2. /\ R[p + 1] = a /\ R[p + (h + 2)] = Byte - 1 /\ R[p + (h + 3)] = x /\ R[p + (h + 4)] = y
          /\ \A i \in 1 .. h : R[p + (1 + i)] = ls[i]
      BY <2>4, <2>5, <2>6, <2>7
    <3>. QED
      BY <3>1, <3>2
  <2>9. LenAt(R, p, l)
    <3>1. (\A j \in 1 .. h - 1 : j \in 1 .. h) /\ (l >= Lens => h \in 1 .. h)
      BY <1>1
    <3>. QED
      BY <1>2, <2>8, <3>1 DEF LenAt, h
  <2>10. FarAt(R, p, p + (h + 4), l, d)
    <3>1. p + (h + 4) = p + h + 4
      BY <1>1
    <3>. QED
      BY <2>1, <2>8, <3>1 DEF FarAt, h, a, x, y
  <2>. QED
    BY <1>4, <2>4, <2>5, <2>9, <2>10 DEF Code2, R, p, h
<1>. QED
  BY <1>3, <1>4

-----------------------------------------------------------------------------
(* A match adds items for the bytes it covers, and is shorter than those. *)

LEMMA SameBefore ==
  ASSUME NEW P, NEW R, NEW n \in Nat, \A i \in 1 .. n : R[i] = P[i]
  PROVE  Same(P, R, n)
<1>1. (n > 0 => 1 \in 1 .. n) /\ \A i \in 2 .. n : i \in 1 .. n
  OBVIOUS
<1>. QED
  BY <1>1 DEF Same

LEMMA MatchEnds ==
  ASSUME NEW Q, NEW D, NEW lv, NEW o, Complete(Q, D, lv, o), NEW l \in Nat \ {0},
         NEW c \in Seq(Int), NEW R, Together(Q, c, R), Len(c) <= l + 1,
         \E H : Chain(R, D, lv, H, Len(R), o + l + 2)
  PROVE  \E p : Packing(Append(R, High - 1), D, lv, p, o + l + 2, 0)
<1>1. /\ Q \in Seq(Int) /\ o \in Nat /\ Len(Q) > 0 /\ Q[1] \in 0 .. High - 1
      /\ Len(Q) <= o + CountBytes(o) + 1
  BY DEF Complete
<1>2. /\ R \in Seq(Int) /\ Len(R) = Len(Q) + Len(c) /\ \A i \in 1 .. Len(Q) : R[i] = Q[i]
  BY DEF Together
<1>3. Len(Q) \in Nat /\ Len(c) \in Nat /\ High \in Nat \ {0} /\ High - 1 \in Int
  BY <1>1, Widths
<1>. DEFINE P == Append(R, High - 1)
            p == Len(R)
            t == o + l + 2
<1>4. /\ P \in Seq(Int) /\ Len(P) = p + 1 /\ P[p + 1] = High - 1
      /\ \A i \in 1 .. p : P[i] = R[i]
  BY <1>2, <1>3, AppendProperties
<1>. HIDE DEF P
<1>5. p \in Nat /\ p > 0 /\ 1 \in 1 .. p /\ 1 \in 1 .. Len(Q)
  BY <1>1, <1>2, <1>3
<1>6. P[1] \in 0 .. High - 1
  <2>1. P[1] = R[1] /\ R[1] = Q[1]
    BY <1>2, <1>4, <1>5
  <2>. QED
    BY <1>1, <2>1
<1>7. t \in Nat /\ CountBytes(o) \in Nat /\ CountBytes(t) \in Nat /\ CountBytes(o) <= CountBytes(t)
  <2>1. t \in Nat /\ o <= t
    BY <1>1
  <2>. QED
    BY <1>1, <2>1, CountsGrow
<1>8. p <= t + CountBytes(t)
  BY <1>1, <1>2, <1>3, <1>7
<1>9. \E G : Chain(P, D, lv, G, p, t)
  <2>1. Same(R, P, p)
    BY <1>4, <1>5, SameBefore
  <2>. QED
    BY <1>5, <1>7, <2>1, ChainStays
<1>10. Len(P) = p + 0 + 1 /\ 0 \in 0 .. High - 1 /\ (p = 0 => t = 0)
       /\ \A j \in 1 .. 0 : P[p + 1 + j] = D[t + j]
  BY <1>3, <1>4, <1>5
<1>. HIDE DEF p, t
<1>11. Packing(P, D, lv, p, t, 0)
  BY <1>4, <1>5, <1>6, <1>7, <1>8, <1>9, <1>10 DEF Packing
<1>. QED
  BY <1>11 DEF P, t

LEMMA Matched2 ==
  ASSUME NEW Q, NEW D, NEW o, Complete(Q, D, 2, o), NEW l \in Nat \ {0}, NEW d \in Nat,
         d >= MaxDistance(2) => l >= 3, Repeats(D, o, l + 2, d)
  PROVE  \E p : Packing(Append(Q \o Encoded2(l, d), High - 1), D, 2, p, o + l + 2, 0)
<1>1. Q \in Seq(Int) /\ o \in Nat /\ Len(Q) > 0 /\ Len(Q) \in Nat /\ \E G : Chain(Q, D, 2, G, Len(Q), o)
  BY DEF Complete
<1>. DEFINE c == Encoded2(l, d)
            R == Q \o c
            p == Len(Q)
<1>2. /\ c \in Seq(Int) /\ Len(c) = LenBytes(l) + (IF d < MaxDistance(2) THEN 2 ELSE 4)
      /\ Code2(R, p, p + Len(c), l, d)
  BY <1>1, Encoded2Is
<1>. HIDE DEF c
<1>3. Together(Q, c, R)
  BY <1>1, <1>2, PutBehind
<1>. HIDE DEF R
<1>4. Len(R) = p + Len(c) /\ Len(c) \in Nat /\ \A i \in 1 .. p : R[i] = Q[i]
  BY <1>2, <1>3 DEF Together
<1>5. Same(Q, R, p)
  BY <1>1, <1>4, SameBefore
<1>6. LenBytes(l) \in Nat /\ (l < Lens => LenBytes(l) = 0)
      /\ (l >= Lens => LenBytes(l) - 1 <= l - Lens)
      /\ Lens \in Nat /\ Lens >= 4 /\ MaxDistance(2) \in Nat
  BY LenBytesAre, Widths, DistanceFits
<1>7. Len(c) <= l + 1 /\ Len(c) >= 2
  <2>. DEFINE b == LenBytes(l)
              n == Len(c)
              m == MaxDistance(2)
  <2>1. b \in Nat /\ m \in Nat /\ n = b + (IF d < m THEN 2 ELSE 4) /\ (d >= m => l >= 3)
        /\ (l < Lens => b = 0) /\ (l >= Lens => b - 1 <= l - Lens) /\ Lens \in Nat /\ Lens >= 4
    BY <1>2, <1>6
  <2>. HIDE DEF b, n, m
  <2>2. CASE d < m
    <3>1. n = b + 2
      BY <2>1, <2>2
    <3>. QED
      BY <2>1, <3>1 DEF n
  <2>3. CASE ~ (d < m)
    <3>1. n = b + 4 /\ l >= 3
      BY <2>1, <2>3
    <3>. QED
      BY <2>1, <3>1 DEF n
  <2>. QED
    BY <2>2, <2>3
<1>8. MatchAt(R, D, 2, p, o, Len(R), o + l + 2)
  BY <1>1, <1>2, <1>4 DEF MatchAt, CodeAt
<1>9. Len(R) \in Nat /\ p < Len(R) /\ o + l + 2 \in Nat /\ o <= o + l + 2
  BY <1>1, <1>4, <1>7
<1>10. \E H : Chain(R, D, 2, H, Len(R), o + l + 2)
  BY <1>1, <1>5, <1>8, <1>9, ChainOfSome
<1>11. \E x : Packing(Append(R, High - 1), D, 2, x, o + l + 2, 0)
  BY <1>2, <1>3, <1>7, <1>10, MatchEnds
<1>. QED
  BY <1>11 DEF R, c

\* A long match of level 1 is k of the longest ones, and one for the rest x.
Longest == MaxLen - 2
IsSplit(c, k, x, d) ==
  /\ c \in Seq(Int) /\ Len(c) = 3 * k + (IF x < Lens THEN 2 ELSE 3)
  /\ \A i \in 1 .. k : /\ c[3 * (i - 1) + 1] = ControlOf(Lens, d)
                       /\ c[3 * (i - 1) + 2] = Longest - Lens - 2
                       /\ c[3 * (i - 1) + 3] = d % Byte
  /\ c[3 * k + 1] = ControlOf(x, d)
  /\ x < Lens => c[3 * k + 2] = d % Byte
  /\ x >= Lens => c[3 * k + 2] = x - Lens /\ c[3 * k + 3] = d % Byte

LEMMA LongestIs == Longest \in Nat /\ Longest >= Lens + 14 /\ Longest = Byte + Lens - 1
BY Widths DEF Longest, MaxLen

LEMMA Encoded1Is ==
  ASSUME NEW l \in Nat \ {0}, NEW d \in Nat, d < High * Byte
  PROVE  \E k \in Nat, x \in Nat \ {0} : l = k * Longest + x /\ IsSplit(Encoded1(l, d), k, x, d)
<1>1. Lens \in Nat \ {0} /\ Byte \in Nat /\ Longest \in Nat \ {0}
  BY Widths, LongestIs
<1>. DEFINE m == Longest
            k == (l - 1) \div m
            x == l - k * m
            part == <<ControlOf(Lens, d), m - Lens - 2, d % Byte>>
            a == [i \in 1 .. 3 * k |-> part[1 + ((i - 1) % 3)]]
            s == IF x < Lens THEN <<>> ELSE <<x - Lens>>
            t == <<d % Byte>>
            b == <<ControlOf(x, d)>> \o s \o t
            c == Encoded1(l, d)
<1>2. c = a \o b
  BY DEF Encoded1, Longest
<1>. HIDE DEF c, m
<1>3. m \in Nat \ {0} /\ l - 1 \in Int
  BY <1>1 DEF m
<1>4. k \in Int /\ (l - 1) % m \in Int /\ l - 1 = m * k + ((l - 1) % m)
      /\ 0 <= (l - 1) % m /\ (l - 1) % m < m
  BY <1>3, Divided
<1>. HIDE DEF k
<1>5. k \in Nat
  <2>1. k <= -1 => m * k <= -m
    BY <1>3, <1>4
  <2>. QED
    BY <1>3, <1>4, <2>1
<1>6. x \in Nat \ {0} /\ l = k * m + x
  <2>1. m * k = k * m /\ k * m \in Int
    BY <1>3, <1>5
  <2>2. x = ((l - 1) % m) + 1
    BY <1>4, <2>1
  <2>. QED
    BY <1>4, <2>1, <2>2
<1>. HIDE DEF x
<1>7. ControlOf(Lens, d) \in Int /\ ControlOf(x, d) \in Int /\ d % Byte \in Int /\ m - Lens - 2 \in Int
  BY <1>1, <1>3, <1>6, ControlSays
<1>8. /\ a \in Seq(Int) /\ Len(a) = 3 * k
      /\ \A i \in 1 .. k : /\ a[3 * (i - 1) + 1] = ControlOf(Lens, d)
                           /\ a[3 * (i - 1) + 2] = m - Lens - 2
                           /\ a[3 * (i - 1) + 3] = d % Byte
  <2>1. part[1] = ControlOf(Lens, d) /\ part[2] = m - Lens - 2 /\ part[3] = d % Byte
    OBVIOUS
  <2>2. \A j \in {1, 2, 3} : part[j] \in Int
    BY <1>7, <2>1
  <2>. HIDE DEF part
  <2>3. \A i \in 1 .. 3 * k : 1 + ((i - 1) % 3) \in {1, 2, 3}
    BY <1>5
  <2>4. a \in Seq(Int) /\ Len(a) = 3 * k
    <3>1. 3 * k \in Nat
      BY <1>5
    <3>2. \A i \in 1 .. 3 * k : part[1 + ((i - 1) % 3)] \in Int
      BY <2>2, <2>3
    <3>. QED
      BY <3>1, <3>2
  <2>5. ASSUME NEW i \in 1 .. k
        PROVE  /\ a[3 * (i - 1) + 1] = part[1] /\ a[3 * (i - 1) + 2] = part[2]
               /\ a[3 * (i - 1) + 3] = part[3]
    <3>. DEFINE j == 3 * (i - 1)
    <3>1. j + 1 \in 1 .. 3 * k /\ j + 2 \in 1 .. 3 * k /\ j + 3 \in 1 .. 3 * k
      BY <1>5
    <3>2. 1 + (((j + 1) - 1) % 3) = 1 /\ 1 + (((j + 2) - 1) % 3) = 2 /\ 1 + (((j + 3) - 1) % 3) = 3
      BY <1>5
    <3>. HIDE DEF j
    <3>3. /\ a[j + 1] = part[1 + (((j + 1) - 1) % 3)] /\ a[j + 2] = part[1 + (((j + 2) - 1) % 3)]
          /\ a[j + 3] = part[1 + (((j + 3) - 1) % 3)]
      BY <3>1
    <3>. QED
      BY <3>2, <3>3 DEF j
  <2>. QED
    BY <2>1, <2>4, <2>5
<1>. HIDE DEF a
<1>9. s \in Seq(Int) /\ Len(s) = (IF x < Lens THEN 0 ELSE 1) /\ (x >= Lens => s[1] = x - Lens)
  <2>1. CASE x < Lens
    <3>1. s = <<>> /\ ~ (x >= Lens)
      BY <1>1, <1>6, <2>1
    <3>. QED
      BY <2>1, <3>1
  <2>2. CASE ~ (x < Lens)
    <3>1. s = <<x - Lens>> /\ x - Lens \in Int
      BY <1>1, <1>6, <2>2
    <3>. QED
      BY <2>2, <3>1
  <2>. QED
    BY <2>1, <2>2
<1>10. t \in Seq(Int) /\ Len(t) = 1 /\ t[1] = d % Byte
  BY <1>7
<1>. HIDE DEF s, t
<1>11. AllTogether(ControlOf(x, d), s, t, b)
  BY <1>7, <1>9, <1>10, Wrapped
<1>. HIDE DEF b
<1>12. /\ b \in Seq(Int) /\ Len(b) = (IF x < Lens THEN 2 ELSE 3) /\ b[1] = ControlOf(x, d)
       /\ x < Lens => b[2] = d % Byte
       /\ x >= Lens => b[2] = x - Lens /\ b[3] = d % Byte
  <2>1. /\ b \in Seq(Int) /\ Len(b) = 1 + Len(s) + 1 /\ b[1] = ControlOf(x, d)
        /\ \A i \in 1 .. Len(s) : b[1 + i] = s[i]
        /\ \A i \in 1 .. 1 : b[1 + Len(s) + i] = t[i]
    BY <1>10, <1>11 DEF AllTogether
  <2>2. 1 \in 1 .. 1
    OBVIOUS
  <2>3. CASE x < Lens
    <3>1. Len(s) = 0 /\ ~ (x >= Lens) /\ 1 + 0 + 1 = 2
      BY <1>1, <1>6, <1>9, <2>3
    <3>. QED
      BY <1>10, <2>1, <2>2, <2>3, <3>1
  <2>4. CASE ~ (x < Lens)
    <3>1. Len(s) = 1 /\ x >= Lens /\ 1 + 1 = 2 /\ 1 + 1 + 1 = 3
      BY <1>1, <1>6, <1>9, <2>4
    <3>. QED
      BY <1>9, <1>10, <2>1, <2>2, <2>4, <3>1
  <2>. QED
    BY <2>3, <2>4
<1>13. Together(a, b, c)
  BY <1>2, <1>8, <1>12, PutBehind
<1>14. /\ c \in Seq(Int) /\ Len(c) = 3 * k + Len(b)
       /\ \A i \in 1 .. 3 * k : c[i] = a[i]
       /\ \A i \in 1 .. Len(b) : c[3 * k + i] = b[i]
  BY <1>8, <1>13 DEF Together
<1>15. ASSUME NEW i \in 1 .. k
       PROVE  /\ c[3 * (i - 1) + 1] = ControlOf(Lens, d)
              /\ c[3 * (i - 1) + 2] = m - Lens - 2
              /\ c[3 * (i - 1) + 3] = d % Byte
  <2>1. 3 * (i - 1) + 1 \in 1 .. 3 * k /\ 3 * (i - 1) + 2 \in 1 .. 3 * k /\ 3 * (i - 1) + 3 \in 1 .. 3 * k
    BY <1>5
  <2>. QED
    BY <1>8, <1>14, <2>1
<1>16. /\ 1 \in 1 .. Len(b) /\ 2 \in 1 .. Len(b) /\ (x >= Lens => 3 \in 1 .. Len(b))
  BY <1>1, <1>6, <1>12
<1>17. IsSplit(c, k, x, d)
  BY <1>12, <1>14, <1>15, <1>16 DEF IsSplit, m
<1>. QED
  BY <1>5, <1>6, <1>17 DEF c, m


LEMMA RepeatsLater ==
  ASSUME NEW D, NEW o \in Nat, NEW n \in Nat, NEW d \in Nat, Repeats(D, o, n, d),
         NEW a \in Nat, NEW b \in Nat, a + b <= n
  PROVE  Repeats(D, o + a, b, d)
<1>1. d + 1 <= o /\ \A j \in 1 .. n : D[o + j] = D[(o + j) - (d + 1)]
  BY DEF Repeats
<1>2. ASSUME NEW j \in 1 .. b PROVE D[(o + a) + j] = D[((o + a) + j) - (d + 1)]
  <2>1. a + j \in 1 .. n /\ o + (a + j) = (o + a) + j
    OBVIOUS
  <2>. QED
    BY <1>1, <2>1
<1>3. d + 1 <= o + a
  BY <1>1
<1>. QED
  BY <1>2, <1>3 DEF Repeats

LEMMA PartsChain ==
  ASSUME NEW Q, NEW D, NEW o, Complete(Q, D, 1, o), NEW l \in Nat \ {0}, NEW d \in Nat,
         d < High * Byte, Repeats(D, o, l + 2, d),
         NEW k \in Nat, NEW x \in Nat \ {0}, l = k * Longest + x,
         NEW c, IsSplit(c, k, x, d), NEW R, Together(Q, c, R)
  PROVE  \A i \in 0 .. k : \E H : Chain(R, D, 1, H, Len(Q) + 3 * i, o + i * Longest)
<1>1. Q \in Seq(Int) /\ o \in Nat /\ Len(Q) > 0 /\ Len(Q) \in Nat /\ \E G : Chain(Q, D, 1, G, Len(Q), o)
  BY DEF Complete
<1>2. /\ c \in Seq(Int) /\ Len(c) = 3 * k + (IF x < Lens THEN 2 ELSE 3)
      /\ \A i \in 1 .. k : /\ c[3 * (i - 1) + 1] = ControlOf(Lens, d)
                           /\ c[3 * (i - 1) + 2] = Longest - Lens - 2
                           /\ c[3 * (i - 1) + 3] = d % Byte
  BY DEF IsSplit
<1>3. /\ \A i \in 1 .. Len(Q) : R[i] = Q[i]
      /\ \A i \in 1 .. Len(c) : R[Len(Q) + i] = c[i]
  BY DEF Together
<1>4. Lens \in Nat /\ Lens >= 4 /\ Longest \in Nat /\ Longest >= Lens + 14
  BY Widths, LongestIs
<1>. DEFINE z == Len(Q)
            m == Longest
            n == Len(c)
<1>5. n \in Nat /\ n >= 3 * k /\ z \in Nat /\ m \in Nat /\ z > 0
  BY <1>1, <1>2, <1>4
<1>. DEFINE G == {i \in 0 .. k : \E H : Chain(R, D, 1, H, z + 3 * i, o + i * m)}
<1>6. 0 \in G
  <2>1. z + 3 * 0 = z /\ o + 0 * m = o /\ 0 \in 0 .. k
    BY <1>1, <1>5
  <2>2. Same(Q, R, z)
    BY <1>3, <1>5, SameBefore
  <2>3. \E H : Chain(R, D, 1, H, z, o)
    BY <1>1, <2>2, ChainStays
  <2>. QED
    BY <2>1, <2>3
<1>7. ASSUME NEW i \in 1 .. k, i - 1 \in G PROVE i \in G
  <2>. DEFINE p == z + 3 * (i - 1)
              u == o + (i - 1) * m
              q == z + 3 * i
              t == o + i * m
  <2>0. i \in Nat /\ i - 1 \in Nat /\ i <= k
    OBVIOUS
  <2>1. \E H : Chain(R, D, 1, H, p, u)
    BY <1>7
  <2>2. (i - 1) * m \in Nat /\ i * m = (i - 1) * m + m /\ i * m <= k * m
    BY <1>5, <2>0
  <2>3. p \in Nat /\ p > 0 /\ q \in Nat /\ u \in Nat /\ t \in Nat /\ p < q /\ u <= t /\ q = p + 3 /\ t = u + m
    <3>. DEFINE y == (i - 1) * m
                w == i * m
    <3>1. y \in Nat /\ w = y + m
      BY <2>2
    <3>. HIDE DEF y, w, m, z
    <3>. QED
      BY <1>1, <1>5, <2>0, <3>1
  <2>4. /\ R[p + 1] = ControlOf(Lens, d) /\ R[p + 2] = m - Lens - 2 /\ R[p + 3] = d % Byte
    <3>1. /\ 3 * (i - 1) + 1 \in 1 .. n /\ 3 * (i - 1) + 2 \in 1 .. n /\ 3 * (i - 1) + 3 \in 1 .. n
          /\ z + (3 * (i - 1) + 1) = p + 1 /\ z + (3 * (i - 1) + 2) = p + 2
          /\ z + (3 * (i - 1) + 3) = p + 3
      BY <1>5, <2>0
    <3>2. /\ R[z + (3 * (i - 1) + 1)] = ControlOf(Lens, d)
          /\ R[z + (3 * (i - 1) + 2)] = m - Lens - 2
          /\ R[z + (3 * (i - 1) + 3)] = d % Byte
      <4>. HIDE DEF z, m, n
      <4>1. \A j \in 1 .. n : R[z + j] = c[j]
        BY <1>3 DEF z, n
      <4>2. /\ c[3 * (i - 1) + 1] = ControlOf(Lens, d)
            /\ c[3 * (i - 1) + 2] = m - Lens - 2
            /\ c[3 * (i - 1) + 3] = d % Byte
        BY <1>2 DEF m
      <4>. QED
        BY <3>1, <4>1, <4>2
    <3>. HIDE DEF p, z, m
    <3>. QED
      BY <3>1, <3>2
  <2>5. Repeats(D, u, m, d)
    <3>1. (i - 1) * m + m <= l + 2 /\ l + 2 \in Nat
      BY <1>5, <2>0, <2>2
    <3>. HIDE DEF m
    <3>. QED
      BY <1>1, <1>5, <2>2, <3>1, RepeatsLater
  <2>6. ControlOf(m - 2, d) = ControlOf(Lens, d) /\ m - 2 \in Nat \ {0} /\ m - 2 >= Lens
        /\ (m - 2) + 2 = m /\ (m - 2) - Lens = m - Lens - 2
    <3>1. ~ (m - 2 < Lens) /\ ~ (Lens < Lens) /\ m - 2 \in Nat \ {0} /\ m - 2 >= Lens
          /\ (m - 2) + 2 = m /\ (m - 2) - Lens = m - Lens - 2
      BY <1>4
    <3>. QED
      BY <3>1 DEF ControlOf
  <2>7. u + (m - 2) + 2 = u + m
    BY <1>5, <2>3
  <2>. HIDE DEF p, q, u, t, m, z
  <2>8. Code1(R, p, q, m - 2, d)
    BY <2>3, <2>4, <2>6 DEF Code1
  <2>9. MatchAt(R, D, 1, p, u, q, t)
    BY <2>3, <2>5, <2>6, <2>7, <2>8 DEF MatchAt, CodeAt
  <2>10. \E H : Chain(R, D, 1, H, q, t)
    <3>1. Same(R, R, p)
      BY <2>3, SameBefore
    <3>. QED
      BY <2>1, <2>3, <2>9, <3>1, ChainOfSome
  <2>. QED
    BY <2>10 DEF q, t, m, z
<1>. HIDE DEF G
<1>8. \A i \in 0 .. k : i \in G
  BY <1>6, <1>7, Induction
<1>. QED
  BY <1>8 DEF G

LEMMA Matched1 ==
  ASSUME NEW Q, NEW D, NEW o, Complete(Q, D, 1, o), NEW l \in Nat \ {0}, NEW d \in Nat,
         d < High * Byte, Repeats(D, o, l + 2, d)
  PROVE  \E p : Packing(Append(Q \o Encoded1(l, d), High - 1), D, 1, p, o + l + 2, 0)
<1>1. Q \in Seq(Int) /\ o \in Nat /\ Len(Q) > 0 /\ Len(Q) \in Nat
  BY DEF Complete
<1>. DEFINE c == Encoded1(l, d)
            R == Q \o c
<1>2. \E k, x : k \in Nat /\ x \in Nat \ {0} /\ l = k * Longest + x /\ IsSplit(c, k, x, d)
  BY Encoded1Is
<1>. HIDE DEF c
<1>3. PICK k, x : k \in Nat /\ x \in Nat \ {0} /\ l = k * Longest + x /\ IsSplit(c, k, x, d)
  BY <1>2
<1>. DEFINE z == Len(Q)
            m == Longest
            p == z + 3 * k
            u == o + k * m
            t == o + l + 2
<1>4. /\ c \in Seq(Int) /\ Len(c) = 3 * k + (IF x < Lens THEN 2 ELSE 3)
      /\ c[3 * k + 1] = ControlOf(x, d)
      /\ x < Lens => c[3 * k + 2] = d % Byte
      /\ x >= Lens => c[3 * k + 2] = x - Lens /\ c[3 * k + 3] = d % Byte
  BY <1>3 DEF IsSplit
<1>5. Together(Q, c, R)
  BY <1>1, <1>4, PutBehind
<1>. HIDE DEF R
<1>6. Lens \in Nat /\ Lens >= 4 /\ m \in Nat /\ m >= 18
  BY Widths, LongestIs
<1>7. \E H : Chain(R, D, 1, H, p, u)
  <2>1. \A i \in 0 .. k : \E H : Chain(R, D, 1, H, Len(Q) + 3 * i, o + i * Longest)
    BY <1>3, <1>5, PartsChain
  <2>2. k \in 0 .. k
    BY <1>3
  <2>. QED
    BY <2>1, <2>2
<1>8. Len(R) = z + Len(c) /\ Len(c) \in Nat /\ \A i \in 1 .. Len(c) : R[z + i] = c[i]
  BY <1>4, <1>5 DEF Together
<1>. HIDE DEF m, z
<1>9. z \in Nat /\ z > 0 /\ k \in Nat /\ x \in Nat \ {0} /\ k * m \in Nat /\ l = k * m + x /\ 18 * k <= k * m
  BY <1>1, <1>3, <1>6 DEF m, z
<1>10. p \in Nat /\ p > 0 /\ u \in Nat /\ t \in Nat /\ u <= t /\ t = u + x + 2
  <2>. DEFINE y == k * m
  <2>1. y \in Nat /\ l = y + x /\ z \in Nat /\ z > 0 /\ k \in Nat /\ x \in Nat /\ o \in Nat
    BY <1>1, <1>9
  <2>2. u = o + y
    OBVIOUS
  <2>. HIDE DEF y, u
  <2>. QED
    BY <2>1, <2>2
<1>11. Repeats(D, u, x + 2, d)
  <2>1. k * m + (x + 2) <= l + 2 /\ l + 2 \in Nat /\ x + 2 \in Nat
    BY <1>9
  <2>. QED
    BY <1>1, <1>9, <2>1, RepeatsLater
<1>12. Code1(R, p, Len(R), x, d) /\ Len(c) <= l + 1 /\ p < Len(R) /\ Len(R) \in Nat
  <2>. DEFINE n == Len(c)
              r == Len(R)
  <2>1. CASE x < Lens
    <3>1. n = 3 * k + 2
      BY <1>4, <2>1
    <3>2. r = p + 2 /\ n <= l + 1 /\ p < r /\ r \in Nat
      BY <1>8, <1>9, <3>1, SMTT(30)
    <3>3. 3 * k + 1 \in 1 .. n /\ 3 * k + 2 \in 1 .. n
          /\ z + (3 * k + 1) = p + 1 /\ z + (3 * k + 2) = p + 2
      BY <1>9, <3>1
    <3>4. R[p + 1] = ControlOf(x, d) /\ R[p + 2] = d % Byte
      <4>1. R[z + (3 * k + 1)] = ControlOf(x, d) /\ R[z + (3 * k + 2)] = d % Byte
        BY <1>4, <1>8, <2>1, <3>3
      <4>. HIDE DEF p
      <4>. QED
        BY <3>3, <4>1
    <3>. HIDE DEF p, n, r
    <3>5. Code1(R, p, r, x, d)
      BY <2>1, <3>2, <3>4 DEF Code1
    <3>. QED
      BY <3>2, <3>5 DEF n, r
  <2>2. CASE ~ (x < Lens)
    <3>0. x >= Lens
      BY <1>6, <1>9, <2>2
    <3>1. n = 3 * k + 3
      BY <1>4, <2>2
    <3>2. r = p + 3 /\ n <= l + 1 /\ p < r /\ r \in Nat
      BY <1>6, <1>8, <1>9, <3>0, <3>1
    <3>3. 3 * k + 1 \in 1 .. n /\ 3 * k + 2 \in 1 .. n /\ 3 * k + 3 \in 1 .. n
          /\ z + (3 * k + 1) = p + 1 /\ z + (3 * k + 2) = p + 2 /\ z + (3 * k + 3) = p + 3
      BY <1>9, <3>1
    <3>4. R[p + 1] = ControlOf(x, d) /\ R[p + 2] = x - Lens /\ R[p + 3] = d % Byte
      <4>1. R[z + (3 * k + 1)] = ControlOf(x, d) /\ R[z + (3 * k + 2)] = x - Lens
            /\ R[z + (3 * k + 3)] = d % Byte
        BY <1>4, <1>8, <3>0, <3>3
      <4>. HIDE DEF p
      <4>. QED
        BY <3>3, <4>1
    <3>. HIDE DEF p, n, r
    <3>5. Code1(R, p, r, x, d)
      BY <3>0, <3>2, <3>4 DEF Code1
    <3>. QED
      BY <3>2, <3>5 DEF n, r
  <2>. QED
    BY <2>1, <2>2
<1>13. MatchAt(R, D, 1, p, u, Len(R), t)
  <2>. HIDE DEF p, u, t
  <2>. QED
    BY <1>9, <1>10, <1>11, <1>12 DEF MatchAt, CodeAt
<1>14. \E H : Chain(R, D, 1, H, Len(R), t)
  <2>. HIDE DEF p, u, t
  <2>1. Same(R, R, p)
    BY <1>10, SameBefore
  <2>. QED
    BY <1>7, <1>10, <1>12, <1>13, <2>1, ChainOfSome
<1>15. \E y : Packing(Append(R, High - 1), D, 1, y, o + l + 2, 0)
  BY <1>4, <1>5, <1>12, <1>14, MatchEnds
<1>. QED
  BY <1>15 DEF R, c

-----------------------------------------------------------------------------
(* Unpacking: what the bytes behind a control byte say.                    *)

LEMMA Item1Is ==
  ASSUME ip \in Nat, ip >= 2, NEW q \in Nat, NEW l \in Nat \ {0}, NEW d \in Nat,
         Code1(packed, ip - 1, q, l, d), ctrl = packed[ip]
  PROVE  /\ ctrl >= High /\ ctrl \in Nat
         /\ Item1 = [len |-> l - 1, back |-> d, end |-> q]
<1>1. d < High * Byte /\ (ip - 1) + 1 = ip /\ (ip - 1) + 2 = ip + 1 /\ (ip - 1) + 3 = ip + 2
  BY DEF Code1
<1>2. ctrl = ControlOf(l, d)
  BY <1>1 DEF Code1
<1>3. /\ ctrl \in Nat /\ ctrl >= High
      /\ ctrl \div High = IF l < Lens THEN l ELSE Lens
      /\ ctrl % High = d \div Byte /\ (d \div Byte) * Byte + (d % Byte) = d
  BY <1>1, <1>2, ControlSays
<1>4. Lens \in Nat
  BY Widths
<1>5. CASE l < Lens
  <2>1. ~ (ctrl \div High = Lens) /\ ctrl \div High = l /\ ~ (l >= Lens)
    BY <1>3, <1>4, <1>5
  <2>2. q = ip + 1 /\ packed[ip + 1] = d % Byte
    BY <1>1, <2>1 DEF Code1
  <2>3. Item1 = [len |-> l - 1 + 0, back |-> (d \div Byte) * Byte + (d % Byte), end |-> q]
    BY <1>3, <2>1, <2>2 DEF Item1
  <2>4. l - 1 + 0 = l - 1
    OBVIOUS
  <2>. QED
    BY <1>3, <2>3, <2>4
<1>6. CASE ~ (l < Lens)
  <2>1. ctrl \div High = Lens
    BY <1>3, <1>6
  <2>2. q = ip + 2 /\ packed[ip + 1] = l - Lens /\ packed[ip + 2] = d % Byte
    BY <1>1, <1>6 DEF Code1
  <2>3. (ip + 1) + 1 = ip + 2 /\ (Lens - 1) + (l - Lens) = l - 1
    BY <1>4
  <2>4. Item1 = [len |-> (Lens - 1) + (l - Lens), back |-> (d \div Byte) * Byte + (d % Byte), end |-> q]
    BY <1>3, <2>1, <2>2, <2>3 DEF Item1
  <2>. QED
    BY <1>3, <2>3, <2>4
<1>. QED
  BY <1>3, <1>5, <1>6

\* The full bytes of a length.
LEMMA FullIs ==
  ASSUME ip \in Nat, Len(packed) \in Nat, NEW h \in Nat \ {0}, h - 1 <= Len(packed),
         \A j \in 1 .. h - 1 : packed[ip + j] = Byte - 1,
         packed[ip + h] # Byte - 1
  PROVE  (CHOOSE k \in 0 .. Len(packed) :
            /\ packed[ip + k + 1] # Byte - 1
            /\ \A j \in 1 .. k : packed[ip + j] = Byte - 1) = h - 1
<1>. DEFINE Is(k) == /\ packed[ip + k + 1] # Byte - 1
                     /\ \A j \in 1 .. k : packed[ip + j] = Byte - 1
<1>1. h - 1 \in 0 .. Len(packed) /\ ip + (h - 1) + 1 = ip + h
  OBVIOUS
<1>2. Is(h - 1)
  BY <1>1
<1>3. ASSUME NEW k \in 0 .. Len(packed), Is(k) PROVE k = h - 1
  <2>1. ~ (k < h - 1)
    <3>1. k < h - 1 => k + 1 \in 1 .. h - 1 /\ ip + (k + 1) = ip + k + 1
      OBVIOUS
    <3>. QED
      BY <1>3, <3>1
  <2>2. ~ (h - 1 < k)
    <3>1. h - 1 < k => h \in 1 .. k
      OBVIOUS
    <3>. QED
      BY <1>3, <3>1
  <2>. QED
    BY <2>1, <2>2
<1>. HIDE DEF Is
<1>4. (CHOOSE k \in 0 .. Len(packed) : Is(k)) = h - 1
  BY <1>1, <1>2, <1>3
<1>. QED
  BY <1>4 DEF Is

LEMMA Item2Is ==
  ASSUME ip \in Nat, ip >= 2, Len(packed) \in Nat, NEW q \in Nat, q <= Len(packed),
         NEW l \in Nat \ {0}, NEW d \in Nat,
         Code2(packed, ip - 1, q, l, d), ctrl = packed[ip]
  PROVE  /\ ctrl >= High /\ ctrl \in Nat
         /\ Item2 = [len |-> l - 1, back |-> d, end |-> q]
<1>. DEFINE h == LenBytes(l)
            m == MaxDistance(2)
            far == d >= m
            e == IF far THEN Byte * (High - 1) ELSE d
            long == ctrl \div High = Lens
            full == CHOOSE k \in 0 .. Len(packed) :
                      /\ packed[ip + k + 1] # Byte - 1
                      /\ \A j \in 1 .. k : packed[ip + j] = Byte - 1
            spot == IF long THEN ip + full + 1 ELSE ip
            code == packed[spot + 1]
<1>1. LenAt(packed, ip - 1, l) /\ (NearAt(packed, ip - 1, q, l, d) \/ FarAt(packed, ip - 1, q, l, d))
  BY DEF Code2
<1>2. /\ h \in Nat /\ (l < Lens => h = 0)
      /\ (l >= Lens => h >= 1 /\ (l - Lens) % (Byte - 1) \in 0 .. Byte - 2
             /\ l - Lens = (h - 1) * (Byte - 1) + ((l - Lens) % (Byte - 1)))
  BY LenBytesAre
<1>3. Lens \in Nat /\ Byte \in Nat /\ Byte >= 15 /\ High \in Nat /\ m \in Nat /\ m = High * Byte - 1
      /\ High * Byte \in Nat
  BY Widths, DistanceFits
<1>4. (ip - 1) + 1 = ip /\ (ip - 1) + h + 2 = ip + h + 1 /\ (ip - 1) + h + 3 = ip + h + 2
      /\ (ip - 1) + h + 4 = ip + h + 3 /\ (ip - 1) + 1 + h = ip + h
      /\ \A j \in 1 .. h - 1 : (ip - 1) + 1 + j = ip + j
  <2>1. h \in Nat
    BY <1>2
  <2>. HIDE DEF h
  <2>. QED
    BY <2>1
<1>5. /\ ctrl = ControlOf(l, e) /\ q = ip + h + (IF far THEN 3 ELSE 1)
      /\ far => /\ packed[ip + h + 1] = Byte - 1
                /\ packed[ip + h + 2] = (d - m) \div Byte
                /\ packed[ip + h + 3] = (d - m) % Byte
      /\ ~ far => packed[ip + h + 1] = d % Byte
  <2>1. CASE NearAt(packed, ip - 1, q, l, d)
    <3>1. ~ far
      BY <1>3, <2>1 DEF NearAt
    <3>. HIDE DEF m, h
    <3>2. ctrl = ControlOf(l, d) /\ q = ip + h + 1 /\ packed[ip + h + 1] = d % Byte
      BY <1>4, <2>1 DEF NearAt, m, h
    <3>. QED
      BY <3>1, <3>2
  <2>2. CASE FarAt(packed, ip - 1, q, l, d)
    <3>1. far
      BY <2>2 DEF FarAt
    <3>. HIDE DEF m, h
    <3>2. /\ ctrl = ControlOf(l, Byte * (High - 1)) /\ q = ip + h + 3
          /\ packed[ip + h + 1] = Byte - 1
          /\ packed[ip + h + 2] = (d - m) \div Byte
          /\ packed[ip + h + 3] = (d - m) % Byte
      BY <1>4, <2>2 DEF FarAt, m, h
    <3>. QED
      BY <3>1, <3>2
  <2>. QED
    BY <1>1, <2>1, <2>2
<1>6. e \in Nat /\ e < High * Byte
  <2>1. ~ far => d < High * Byte
    BY <1>3
  <2>. QED
    BY <2>1, DistanceFits
<1>7. /\ ctrl \in Nat /\ ctrl >= High
      /\ ctrl \div High = IF l < Lens THEN l ELSE Lens
      /\ ctrl % High = e \div Byte /\ e \div Byte \in 0 .. High - 1 /\ e % Byte \in 0 .. Byte - 1
      /\ (e \div Byte) * Byte + (e % Byte) = e
  BY <1>5, <1>6, ControlSays
<1>8. long <=> ~ (l < Lens)
  BY <1>3, <1>7, SMTT(30)
<1>. HIDE DEF h, m, e
<1>9. spot = ip + h /\ (ctrl \div High) - 1 + (IF long THEN full * (Byte - 1) + packed[spot] ELSE 0) = l - 1
  <2>1. CASE l < Lens
    <3>1. ~ long /\ h = 0 /\ ctrl \div High = l
      BY <1>2, <1>7, <1>8, <2>1
    <3>2. ip + 0 = ip /\ l - 1 + 0 = l - 1
      OBVIOUS
    <3>. HIDE DEF long, full
    <3>. QED
      BY <3>1, <3>2
  <2>2. CASE ~ (l < Lens)
    <3>. DEFINE x == (l - Lens) % (Byte - 1)
    <3>1. long /\ l >= Lens /\ ctrl \div High = Lens
      BY <1>3, <1>7, <1>8, <2>2
    <3>2. /\ \A j \in 1 .. h - 1 : packed[ip + j] = Byte - 1
          /\ packed[ip + h] = x
      BY <1>1, <1>4, <3>1 DEF LenAt, h
    <3>3. h \in Nat \ {0} /\ x \in 0 .. Byte - 2 /\ l - Lens = (h - 1) * (Byte - 1) + x
      BY <1>2, <3>1
    <3>. HIDE DEF x
    <3>4. h - 1 <= Len(packed) /\ x # Byte - 1
      BY <1>3, <1>5, <3>3
    <3>5. full = h - 1
      BY <3>2, <3>3, <3>4, FullIs
    <3>. HIDE DEF long, full
    <3>6. spot = ip + h
      <4>1. ip + (h - 1) + 1 = ip + h
        BY <3>3
      <4>. QED
        BY <3>1, <3>5, <4>1
    <3>7. full * (Byte - 1) + packed[spot] = l - Lens
      BY <3>2, <3>3, <3>5, <3>6
    <3>. HIDE DEF spot
    <3>8. (Lens - 1) + (l - Lens) = l - 1
      BY <1>3
    <3>. QED
      BY <3>1, <3>6, <3>7, <3>8
  <2>. QED
    BY <2>1, <2>2
<1>10. (code = Byte - 1 /\ ctrl % High = High - 1) <=> far
  <2>1. CASE far
    <3>1. e = Byte * (High - 1)
      BY <2>1 DEF e
    <3>2. ctrl % High = High - 1
      BY <1>7, <3>1, DistanceFits
    <3>. HIDE DEF spot, far
    <3>. QED
      BY <1>5, <1>9, <2>1, <3>2
  <2>2. CASE ~ far
    <3>1. e = d
      BY <2>2 DEF e
    <3>2. code = d % Byte
      <4>. HIDE DEF spot, far
      <4>. QED
        BY <1>5, <1>9, <2>2
    <3>3. ~ (d % Byte = Byte - 1 /\ d \div Byte = High - 1)
      <4>. DEFINE x == d % Byte
                  y == d \div Byte
      <4>1. y * Byte + x = d /\ d < m
        BY <1>3, <1>7, <2>2, <3>1
      <4>. HIDE DEF x, y
      <4>2. x = Byte - 1 /\ y = High - 1 => y * Byte + x = High * Byte - 1
        <5>1. (High - 1) * Byte + (Byte - 1) = High * Byte - 1
          BY <1>3
        <5>. QED
          BY <5>1
      <4>. QED
        BY <1>3, <4>1, <4>2 DEF x, y
    <3>. QED
      BY <1>7, <2>2, <3>1, <3>2, <3>3
  <2>. QED
    BY <2>1, <2>2
<1>. DEFINE back == IF code = Byte - 1 /\ ctrl % High = High - 1
                      THEN packed[spot + 2] * Byte + packed[spot + 3] + MaxDistance(2)
                      ELSE (ctrl % High) * Byte + code
            end  == IF code = Byte - 1 /\ ctrl % High = High - 1 THEN spot + 3 ELSE spot + 1
            len  == (ctrl \div High) - 1 + (IF long THEN full * (Byte - 1) + packed[spot] ELSE 0)
<1>11. Item2 = [len |-> len, back |-> back, end |-> end]
  BY DEF Item2
<1>12. len = l - 1
  BY <1>9
<1>. HIDE DEF long, full
<1>13. back = d /\ end = q
  <2>1. CASE far
    <3>. DEFINE x == (d - m) \div Byte
                y == (d - m) % Byte
    <3>1. d - m \in Int /\ Byte \in Nat \ {0} /\ d - m + m = d
      BY <1>3
    <3>2. x \in Int /\ y \in Int /\ d - m = Byte * x + y
      BY <3>1, Divided
    <3>. HIDE DEF x, y
    <3>3. packed[spot + 2] = x /\ packed[spot + 3] = y /\ q = spot + 3
      <4>. HIDE DEF spot, far
      <4>. QED
        BY <1>5, <1>9, <2>1 DEF x, y
    <3>4. x * Byte + y + m = d
      <4>1. Byte * x = x * Byte /\ x * Byte \in Int
        BY <1>3, <3>2
      <4>. QED
        BY <1>3, <3>1, <3>2, <4>1
    <3>5. back = packed[spot + 2] * Byte + packed[spot + 3] + m /\ end = spot + 3
      <4>. HIDE DEF spot, far
      <4>. QED
        BY <1>10, <2>1 DEF m
    <3>. HIDE DEF back, end, spot, far
    <3>. QED
      BY <3>3, <3>4, <3>5
  <2>2. CASE ~ far
    <3>1. e = d
      BY <2>2 DEF e
    <3>. HIDE DEF spot, far
    <3>2. code = d % Byte /\ q = spot + 1
      BY <1>5, <1>9, <2>2
    <3>. HIDE DEF code
    <3>3. back = (ctrl % High) * Byte + code /\ end = spot + 1
      BY <1>10, <2>2 DEF back, end
    <3>. HIDE DEF back, end
    <3>. QED
      BY <1>7, <3>1, <3>2, <3>3
  <2>. QED
    BY <2>1, <2>2
<1>. HIDE DEF len, back, end
<1>. QED
  BY <1>7, <1>11, <1>12, <1>13

\* The bytes of a match behind those that are there.
Copies(item, o) ==
  LET WithCopy(x) == Append(x, x[Len(x) - item.back])
      copied[k \in 0 .. item.len + 3] == IF k = 0 THEN o ELSE WithCopy(copied[k - 1])
  IN  copied[item.len + 3]

LEMMA FirstBytes ==
  ASSUME NEW D \in Seq(Int), NEW a \in 0 .. Len(D)
  PROVE  /\ SubSeq(D, 1, a) \in Seq(Int) /\ Len(SubSeq(D, 1, a)) = a
         /\ \A i \in 1 .. a : SubSeq(D, 1, a)[i] = D[i]
<1>1. Len(D) \in Nat /\ a \in Nat /\ \A i \in 1 .. a : D[i] \in Int
  OBVIOUS
<1>2. /\ SubSeq(D, 1, a) \in Seq(Int)
      /\ Len(SubSeq(D, 1, a)) = IF 1 <= a THEN a - 1 + 1 ELSE 0
      /\ \A i \in 1 .. a - 1 + 1 : SubSeq(D, 1, a)[i] = D[1 + i - 1]
  BY <1>1, SubSeqProperties
<1>3. a - 1 + 1 = a /\ (~ (1 <= a) => a = 0) /\ \A i \in 1 .. a : 1 + i - 1 = i
  BY <1>1
<1>. QED
  BY <1>2, <1>3

LEMMA OneMore ==
  ASSUME NEW D \in Seq(Int), NEW a \in Nat, a < Len(D)
  PROVE  Append(SubSeq(D, 1, a), D[a + 1]) = SubSeq(D, 1, a + 1)
<1>. DEFINE s == SubSeq(D, 1, a)
            t == SubSeq(D, 1, a + 1)
            x == D[a + 1]
            u == Append(s, x)
<1>1. Len(D) \in Nat /\ a \in 0 .. Len(D) /\ a + 1 \in 0 .. Len(D) /\ x \in Int
  OBVIOUS
<1>2. /\ s \in Seq(Int) /\ Len(s) = a /\ \A i \in 1 .. a : s[i] = D[i]
  BY <1>1, FirstBytes
<1>3. /\ t \in Seq(Int) /\ Len(t) = a + 1 /\ \A i \in 1 .. a + 1 : t[i] = D[i]
  BY <1>1, FirstBytes
<1>. HIDE DEF s, t
<1>4. /\ u \in Seq(Int) /\ Len(u) = a + 1 /\ u[a + 1] = x /\ \A i \in 1 .. a : u[i] = s[i]
  BY <1>1, <1>2, AppendProperties
<1>. HIDE DEF u
<1>5. ASSUME NEW i \in 1 .. a + 1 PROVE u[i] = t[i]
  <2>1. CASE i = a + 1
    BY <1>3, <1>4, <2>1
  <2>2. CASE i # a + 1
    <3>1. i \in 1 .. a
      BY <2>2
    <3>. QED
      BY <1>2, <1>3, <1>4, <3>1
  <2>. QED
    BY <2>1, <2>2
<1>6. u = t
  BY <1>3, <1>4, <1>5, SeqEqual
<1>. QED
  BY <1>6 DEF u, t, s, x

LEMMA CopiesAre ==
  ASSUME NEW D \in Seq(Int), NEW a \in Nat, NEW item, item.len + 3 \in Nat, item.back \in Nat,
         a + (item.len + 3) <= Len(D), Repeats(D, a, item.len + 3, item.back)
  PROVE  Copies(item, SubSeq(D, 1, a)) = SubSeq(D, 1, a + (item.len + 3))
<1>. DEFINE n == item.len + 3
            d == item.back
            o == SubSeq(D, 1, a)
            W(x) == Append(x, x[Len(x) - d])
            Made(g) == [k \in 0 .. n |-> IF k = 0 THEN o ELSE W(g[k - 1])]
            f == [k \in 0 .. n |-> SubSeq(D, 1, a + k)]
            copied == CHOOSE g : g = Made(g)
<1>1. Copies(item, o) = copied[n]
  BY DEF Copies
<1>2. n \in Nat /\ d \in Nat /\ d + 1 <= a /\ \A j \in 1 .. n : D[a + j] = D[(a + j) - (d + 1)]
  BY DEF Repeats
<1>3. a + n <= Len(D) /\ Len(D) \in Nat
  OBVIOUS
<1>. HIDE DEF n, d
<1>4. ASSUME NEW k \in 1 .. n
      PROVE  W(SubSeq(D, 1, a + (k - 1))) = SubSeq(D, 1, a + k)
  <2>. DEFINE x == SubSeq(D, 1, a + (k - 1))
              b == a + (k - 1)
  <2>1. b \in Nat /\ b \in 0 .. Len(D) /\ b < Len(D) /\ b - d \in 1 .. b /\ b - d = (a + k) - (d + 1)
        /\ b + 1 = a + k
    BY <1>2, <1>3
  <2>2. Len(x) = b /\ \A i \in 1 .. b : x[i] = D[i]
    BY <2>1, FirstBytes
  <2>3. x[Len(x) - d] = D[b + 1]
    <3>1. D[a + k] = D[(a + k) - (d + 1)]
      BY <1>2
    <3>. HIDE DEF x, b
    <3>. QED
      BY <2>1, <2>2, <3>1
  <2>4. Append(SubSeq(D, 1, b), D[b + 1]) = SubSeq(D, 1, b + 1)
    BY <2>1, OneMore
  <2>. QED
    BY <2>1, <2>3, <2>4
<1>5. f = Made(f)
  <2>1. ASSUME NEW k \in 0 .. n PROVE f[k] = IF k = 0 THEN o ELSE W(f[k - 1])
    <3>1. CASE k = 0
      <4>1. f[k] = SubSeq(D, 1, a + 0) /\ a + 0 = a
        BY <3>1
      <4>. QED
        BY <3>1, <4>1
    <3>2. CASE k # 0
      <4>1. k \in 1 .. n /\ k - 1 \in 0 .. n
        BY <1>2, <3>2
      <4>2. f[k] = SubSeq(D, 1, a + k) /\ f[k - 1] = SubSeq(D, 1, a + (k - 1))
        BY <4>1
      <4>3. W(SubSeq(D, 1, a + (k - 1))) = SubSeq(D, 1, a + k)
        BY <1>4, <4>1
      <4>. HIDE DEF f, W
      <4>. QED
        BY <3>2, <4>2, <4>3
    <3>. QED
      BY <3>1, <3>2
  <2>2. f = [k \in 0 .. n |-> f[k]]
    OBVIOUS
  <2>. HIDE DEF f, W, o
  <2>. QED
    BY <2>1, <2>2
<1>6. copied = Made(copied)
  <2>. HIDE DEF Made, f
  <2>. QED
    BY <1>5
<1>. HIDE DEF copied
<1>7. copied[0] = o /\ \A k \in 1 .. n : copied[k] = W(copied[k - 1])
  <2>1. 0 \in 0 .. n /\ \A k \in 1 .. n : k \in 0 .. n /\ k # 0
    BY <1>2
  <2>. HIDE DEF W, o
  <2>. QED
    BY <1>6, <2>1
<1>. DEFINE G == {k \in 0 .. n : copied[k] = SubSeq(D, 1, a + k)}
<1>8. 0 \in G
  <2>1. 0 \in 0 .. n /\ a + 0 = a
    BY <1>2
  <2>. QED
    BY <1>7, <2>1
<1>9. ASSUME NEW k \in 1 .. n, k - 1 \in G PROVE k \in G
  <2>1. k \in 0 .. n /\ copied[k] = W(SubSeq(D, 1, a + (k - 1)))
    <3>1. copied[k - 1] = SubSeq(D, 1, a + (k - 1)) /\ k \in 0 .. n
      BY <1>2, <1>9
    <3>. HIDE DEF W
    <3>2. copied[k] = W(copied[k - 1])
      BY <1>7
    <3>. QED
      BY <3>1, <3>2
  <2>. HIDE DEF W
  <2>. QED
    BY <1>4, <2>1
<1>. HIDE DEF G
<1>10. \A k \in 0 .. n : k \in G
  BY <1>2, <1>8, <1>9, Induction
<1>11. copied[n] = SubSeq(D, 1, a + n)
  BY <1>2, <1>10 DEF G
<1>. QED
  BY <1>1, <1>11 DEF n

-----------------------------------------------------------------------------
(* What the search for a match comes to.                                   *)

InBytes == data \in Seq(0 .. Byte - 1) /\ ip \in Nat /\ ip >= 2 /\ htab \in [Slots -> Nat]
           /\ level \in {1, 2}

LEMMA AByte ==
  ASSUME data \in Seq(0 .. Byte - 1), NEW i \in Nat, i < Len(data)
  PROVE  At(i) \in 0 .. Byte - 1
<1>1. Len(data) \in Nat
  OBVIOUS
<1>2. i + 1 \in 1 .. Len(data)
  BY <1>1
<1>3. data[i + 1] \in 0 .. Byte - 1
  BY <1>2, ElementOfSeq
<1>. QED
  BY <1>3 DEF At

LEMMA ASlot ==
  ASSUME data \in Seq(0 .. Byte - 1), NEW i \in Nat, i + 2 < Len(data)
  PROVE  Slot(i) \in Slots
<1>1. Len(data) \in Nat
  OBVIOUS
<1>2. i + 1 \in Nat /\ i + 2 \in Nat /\ i < Len(data) /\ i + 1 < Len(data)
  BY <1>1
<1>3. At(i) \in 0 .. Byte - 1 /\ At(i + 1) \in 0 .. Byte - 1 /\ At(i + 2) \in 0 .. Byte - 1
  BY <1>2, AByte
<1>. QED
  BY <1>3, FastLZAssumption DEF Slot

LEMMA DistanceIs ==
  ASSUME InBytes, ip + 2 < Len(data), IsMatch
  PROVE  /\ Distance \in Nat \ {0} /\ Distance <= ip /\ Checked \in {3, 5}
         /\ level = 1 => Distance - 1 < High * Byte
         /\ level = 2 /\ Distance - 1 >= MaxDistance(2) => Checked = 5
<1>1. Slot(ip) \in Slots /\ htab \in [Slots -> Nat] /\ ip \in Nat /\ ip >= 2
  BY ASlot DEF InBytes
<1>2. htab[Slot(ip)] \in Nat
  BY <1>1
<1>3. 0 < Distance /\ Distance < Limit(level)
  BY DEF IsMatch
<1>4. Distance \in Int /\ Distance <= ip /\ (IsRun => Distance = 1)
  <2>1. CASE IsRun
    BY <1>1, <2>1 DEF Distance
  <2>2. CASE ~ IsRun
    <3>1. Distance = ip - htab[Slot(ip)]
      BY <2>2 DEF Distance
    <3>. QED
      BY <1>1, <1>2, <2>2, <3>1
  <2>. QED
    BY <2>1, <2>2
<1>5. level = 1 => Distance - 1 < High * Byte
  <2>1. ASSUME level = 1 PROVE Distance - 1 < High * Byte
    <3>1. Limit(level) = High * Byte
      BY <2>1 DEF Limit, MaxDistance
    <3>2. High * Byte \in Int
      BY Widths
    <3>. QED
      BY <1>3, <1>4, <3>1, <3>2
  <2>. QED
    BY <2>1
<1>6. level = 2 /\ Distance - 1 >= MaxDistance(2) => Checked = 5
  <2>1. ASSUME level = 2, Distance - 1 >= MaxDistance(2) PROVE Checked = 5
    <3>1. MaxDistance(2) \in Nat
      BY DistanceFits
    <3>. DEFINE m == MaxDistance(2)
    <3>. HIDE DEF m
    <3>2. Distance >= m /\ Distance # 1
      <4>1. Distance - 1 >= m
        BY <2>1 DEF m
      <4>2. m \in Nat /\ m # 0
        <5>1. \A a, b \in Nat : a >= 3 /\ b >= 15 => a * b - 1 # 0
          OBVIOUS
        <5>. QED
          BY <3>1, <5>1, DistanceFits, Widths DEF m
      <4>. QED
        BY <1>4, <4>1, <4>2
    <3>. QED
      BY <1>4, <2>1, <3>2 DEF Checked, m
  <2>. QED
    BY <2>1
<1>7. Checked \in {3, 5}
  BY DEF Checked
<1>. QED
  BY <1>3, <1>4, <1>5, <1>6, <1>7

LEMMA ComparedIs ==
  ASSUME InBytes, ip < Len(data) - 12, IsMatch
  PROVE  /\ Compared \in Nat /\ ip + Checked + 1 <= Compared /\ Compared <= Len(data)
         /\ Repeats(data, ip, Compared - 1 - ip, Distance - 1)
<1>. DEFINE n == Len(data)
            x == Distance
            c == Checked
            from  == ip + c
            bound == n - 2
            stop  == IF x # 1 /\ from + 8 > bound THEN from + 8 ELSE bound
            diff  == {i \in from .. stop - 1 : At(i) # At(i - x)}
            end == Compared
<1>1. n \in Nat /\ ip \in Nat /\ ip >= 2 /\ ip + 2 < n /\ ip < n - 12
  BY DEF InBytes
<1>2. x \in Nat \ {0} /\ x <= ip /\ c \in {3, 5}
  BY <1>1, DistanceIs
<1>3. \A k \in 0 .. c - 1 : At(ip + k - x) = At(ip + k)
  BY DEF IsMatch
<1>4. end = IF diff = {} THEN stop ELSE 1 + CHOOSE i \in diff : \A j \in diff : i <= j
  BY DEF Compared
<1>. HIDE DEF n, x, c, end
<1>5. from \in Nat /\ stop \in Nat /\ from + 1 <= stop /\ stop <= n
  BY <1>1, <1>2
<1>6. /\ end \in Nat /\ from + 1 <= end /\ end <= stop
      /\ \A i \in from .. end - 2 : i \notin diff
  <2>1. CASE diff = {}
    <3>1. end = stop
      BY <1>4, <2>1
    <3>. HIDE DEF diff, stop, from
    <3>. QED
      BY <1>5, <2>1, <3>1
  <2>2. CASE diff # {}
    <3>. DEFINE y == CHOOSE i \in diff : \A j \in diff : i <= j
    <3>1. diff \subseteq Nat
      BY <1>5
    <3>2. \A i \in diff : i \in from .. stop - 1
      OBVIOUS
    <3>. HIDE DEF diff
    <3>3. \E i \in diff : \A j \in diff : i <= j
      BY <2>2, <3>1, Smallest
    <3>4. y \in diff /\ \A j \in diff : y <= j
      BY <3>3
    <3>5. end = 1 + y
      BY <1>4, <2>2
    <3>. HIDE DEF y, from, stop
    <3>6. y \in Nat /\ y \in from .. stop - 1
      BY <3>1, <3>2, <3>4
    <3>7. \A i \in from .. end - 2 : ~ (y <= i)
      BY <1>5, <3>5, <3>6
    <3>8. \A i \in from .. end - 2 : i \notin diff
      BY <3>4, <3>7
    <3>. QED
      BY <1>5, <3>5, <3>6, <3>8
  <2>. QED
    BY <2>1, <2>2
<1>7. ASSUME NEW i \in ip .. end - 2 PROVE At(i) = At(i - x)
  <2>1. CASE i < from
    <3>. DEFINE k == i - ip
    <3>1. k \in 0 .. c - 1 /\ ip + k = i
      BY <1>1, <1>2, <1>6, <2>1
    <3>. HIDE DEF k
    <3>2. At(ip + k - x) = At(ip + k)
      BY <1>3, <3>1
    <3>. QED
      BY <1>1, <1>2, <3>1, <3>2 DEF At
  <2>2. CASE ~ (i < from)
    <3>. HIDE DEF from, stop
    <3>1. i \in from .. end - 2 /\ i \in from .. stop - 1
      BY <1>1, <1>5, <1>6, <2>2
    <3>. QED
      BY <1>6, <3>1
  <2>. QED
    BY <2>1, <2>2
<1>8. ASSUME NEW j \in 1 .. end - 1 - ip
      PROVE  data[ip + j] = data[(ip + j) - ((x - 1) + 1)]
  <2>. DEFINE i == ip + j - 1
  <2>1. i \in ip .. end - 2 /\ i + 1 = ip + j /\ (i - x) + 1 = (ip + j) - ((x - 1) + 1)
    BY <1>1, <1>2, <1>6
  <2>. HIDE DEF i
  <2>2. At(i) = At(i - x)
    BY <1>7, <2>1
  <2>. QED
    BY <2>1, <2>2 DEF At
<1>9. (x - 1) + 1 <= ip
  BY <1>1, <1>2
<1>10. Repeats(data, ip, end - 1 - ip, x - 1)
  BY <1>8, <1>9 DEF Repeats
<1>11. ip + c + 1 <= end /\ end <= n
  <2>1. from + 1 = ip + c + 1
    BY <1>1, <1>2
  <2>. HIDE DEF from, stop
  <2>. QED
    BY <1>1, <1>5, <1>6, <2>1
<1>. QED
  BY <1>6, <1>10, <1>11 DEF x, end, c, n

-----------------------------------------------------------------------------
(* The invariant.                                                          *)

Filling ==
  /\ Len(data) >= 4 /\ level \in {1, 2} /\ ip \in Nat /\ ip >= 2 /\ ip <= Len(data)
  /\ \E p, o : Packing(packed, data, level, p, o, copy) /\ o + copy = ip

\* All of the block is packed, and the first byte has the level.
Filled(lv) == /\ packed \in Seq(Int) /\ Len(packed) > 0
              /\ \E G : Chain(packed, data, lv, G, Len(packed), Len(data))
Ready == /\ Len(packed) <= Len(data) + CountBytes(Len(data)) + 1
         /\ \E lv \in {1, 2} : (packed[1] \div High) + 1 = lv /\ Filled(lv)

\* What is unpacked are the first bytes, and they end where an item of the chain
\* begins.
PartOut == /\ Len(out) \in Nat /\ Len(out) <= Len(data) /\ out = SubSeq(data, 1, Len(out))
           /\ room \in Nat /\ Len(out) <= room
OnTheWay(G) ==
  /\ Chain(packed, data, level, G, Len(packed), Len(data))
  /\ <<ip - 1, Len(out)>> \in G /\ <<ip - 1, Len(out)>> # <<Len(packed), Len(data)>>
Emptying == /\ level \in {1, 2} /\ packed \in Seq(Int) /\ ip \in Nat /\ ip >= 1
            /\ ctrl = CtrlAt(packed, ip - 1) /\ PartOut /\ \E G : OnTheWay(G)

LzInv ==
  /\ step \in {"idle", "pack", "packed", "unpack", "done", "refused"}
  /\ htab \in [Slots -> Nat]
  /\ step # "idle" => data \in Blocks
  /\ step \in {"idle", "pack", "packed"} => out = <<>>
  /\ step = "pack" => Filling
  /\ step = "packed" => Ready
  /\ step = "unpack" => Emptying
  /\ step = "done" => PartOut /\ out = data
  /\ step = "refused" => PartOut /\ room < Len(data)

LEMMA BlockIs ==
  ASSUME NEW b \in Blocks
  PROVE  b \in Seq(0 .. Byte - 1) /\ b \in Seq(Int) /\ Len(b) \in Nat \ {0} /\ Rooms(b) \subseteq Nat
<1>1. b \in Seq(0 .. Byte - 1) /\ b # <<>> /\ Rooms(b) \subseteq Nat
  BY FastLZAssumption
<1>2. 0 .. Byte - 1 \subseteq Int
  OBVIOUS
<1>3. b \in Seq(Int)
  BY <1>1, <1>2, SeqMonotonic
<1>4. Len(b) \in Nat /\ Len(b) # 0
  <2>1. Len(b) \in Nat
    BY <1>3
  <2>2. Len(b) # 0
    BY <1>1, <1>3, EmptySeq
  <2>. QED
    BY <2>1, <2>2
<1>. QED
  BY <1>1, <1>3, <1>4

LEMMA ShortChain ==
  ASSUME NEW P, NEW D, NEW lv
  PROVE  Chain(P, D, lv, {<<0, 0>>}, 0, 0)
BY DEF Chain

-----------------------------------------------------------------------------
(* Packing keeps it.                                                       *)

LEMMA BeginKeeps ==
  ASSUME LzInv, NEW block \in Blocks, NEW l \in {1, 2}, Begin(block, l)
  PROVE  LzInv'
<1>1. block \in Seq(0 .. Byte - 1) /\ block \in Seq(Int) /\ Len(block) \in Nat \ {0}
  BY BlockIs
<1>2. step = "idle" /\ data' = block /\ level' = l /\ htab' = htab /\ out' = out
  BY DEF Begin
<1>3. out = <<>> /\ htab \in [Slots -> Nat]
  BY <1>2 DEF LzInv
<1>4. High \in Nat \ {0} /\ High >= 3
  BY Widths
<1>. DEFINE n == Len(block)
<1>5. CASE n < 4
  <2>1. packed' = <<n - 1>> \o block /\ step' = "packed"
    BY <1>5 DEF Begin
  <2>. DEFINE P == packed'
              h == <<n - 1>>
  <2>2. h \in Seq(Int) /\ Len(h) = 1 /\ h[1] = n - 1
    BY <1>1
  <2>3. Together(h, block, P)
    BY <1>1, <2>1, <2>2, PutBehind
  <2>. HIDE DEF h
  <2>4. /\ P \in Seq(Int) /\ Len(P) = n + 1 /\ P[1] = n - 1
        /\ \A i \in 1 .. n : P[1 + i] = block[i]
    <3>1. 1 \in 1 .. 1 /\ 1 + n = n + 1
      BY <1>1
    <3>. QED
      BY <2>2, <2>3, <3>1 DEF Together
  <2>. HIDE DEF P, n
  <2>5. n \in Nat \ {0} /\ n - 1 \in 0 .. High - 1
    BY <1>1, <1>4, <1>5 DEF n
  <2>6. (n - 1) % High = n - 1 /\ (n - 1) \div High = 0
    BY <2>5, CountIsLow
  <2>7. LiteralAt(P, block, 0, 0, n + 1, n)
    <3>1. CtrlAt(P, 0) = n - 1
      BY <2>4, <2>6 DEF CtrlAt
    <3>2. n + 1 = 0 + (n - 1) + 2 /\ n = 0 + (n - 1) + 1 /\ (n - 1) + 1 = n
      BY <2>5
    <3>3. \A j \in 1 .. n : P[0 + 1 + j] = block[0 + j]
      <4>1. \A j \in 1 .. n : 0 + 1 + j = 1 + j /\ 0 + j = j
        BY <2>5
      <4>. QED
        BY <2>4, <4>1
    <3>. QED
      BY <2>5, <3>1, <3>2, <3>3 DEF LiteralAt
  <2>8. \E G : Chain(P, block, 1, G, n + 1, n)
    <3>1. \E G : Chain(P, block, 1, G, 0, 0)
      BY ShortChain
    <3>2. Same(P, P, 0)
      BY SameBefore
    <3>3. n + 1 \in Nat /\ n \in Nat /\ 0 < n + 1 /\ 0 <= n
      BY <2>5
    <3>. QED
      BY <2>7, <3>1, <3>2, <3>3, ChainOfSome
  <2>9. n + 1 <= n + CountBytes(n) + 1 /\ n + 1 > 0
    <3>1. CountBytes(n) \in Nat
      BY <2>5, CountsGrow
    <3>. QED
      BY <2>5, <3>1
  <2>10. (P[1] \div High) + 1 = 1
    BY <2>4, <2>6
  <2>11. Ready'
    BY <1>2, <2>4, <2>8, <2>9, <2>10 DEF Ready, Filled, P, n
  <2>. QED
    BY <1>2, <1>3, <2>1, <2>11 DEF LzInv
<1>6. CASE ~ (n < 4)
  <2>1. /\ packed' = <<High - 1, block[1], block[2]>>
        /\ step' = "pack" /\ ip' = 2 /\ copy' = 2
    BY <1>6 DEF Begin, MaxCopy
  <2>2. n >= 4 /\ 1 \in 1 .. n /\ 2 \in 1 .. n
    BY <1>1, <1>6
  <2>3. block[1] \in Int /\ block[2] \in Int
    BY <1>1, <2>2
  <2>. DEFINE P == packed'
  <2>4. /\ P \in Seq(Int) /\ Len(P) = 3 /\ P[1] = High - 1 /\ P[2] = block[1] /\ P[3] = block[2]
    BY <1>4, <2>1, <2>3
  <2>. HIDE DEF P
  <2>5. \A j \in 1 .. 2 : P[0 + 1 + j] = block[0 + j]
    <3>1. \A j \in 1 .. 2 : (j = 1 /\ 0 + 1 + j = 2 /\ 0 + j = 1) \/ (j = 2 /\ 0 + 1 + j = 3 /\ 0 + j = 2)
      OBVIOUS
    <3>. QED
      BY <2>4, <3>1
  <2>6. /\ 2 \in 0 .. High - 1 /\ Len(P) = 0 + 2 + 1 /\ P[0 + 1] = High - 1 /\ P[1] \in 0 .. High - 1
        /\ 0 <= 0 + CountBytes(0) /\ \E G : Chain(P, block, l, G, 0, 0)
    <3>1. 0 \in Nat /\ 0 <= 0
      OBVIOUS
    <3>2. CountBytes(0) = 0
      BY <3>1, CountsGrow
    <3>3. \E G : Chain(P, block, l, G, 0, 0)
      BY ShortChain
    <3>4. 2 \in 0 .. High - 1 /\ Len(P) = 0 + 2 + 1 /\ P[0 + 1] = High - 1 /\ P[1] \in 0 .. High - 1
      BY <1>4, <2>4
    <3>. QED
      BY <3>2, <3>3, <3>4
  <2>7. Packing(P, block, l, 0, 0, 2)
    BY <2>4, <2>5, <2>6 DEF Packing
  <2>8. Filling'
    <3>1. 0 + 2 = 2 /\ 2 <= n
      BY <2>2
    <3>. QED
      BY <1>2, <2>1, <2>2, <2>7, <3>1 DEF Filling, P
  <2>. QED
    BY <1>2, <1>3, <2>1, <2>8 DEF LzInv
<1>. QED
  BY <1>5, <1>6

\* What holds while it packs.
LEMMA WhilePacking ==
  ASSUME LzInv, step = "pack"
  PROVE  /\ data \in Blocks /\ data \in Seq(0 .. Byte - 1) /\ data \in Seq(Int) /\ Len(data) \in Nat
         /\ out = <<>> /\ htab \in [Slots -> Nat]
         /\ level \in {1, 2} /\ ip \in Nat /\ ip >= 2 /\ ip <= Len(data) /\ Len(data) >= 4
         /\ InBytes /\ \E p, o : Packing(packed, data, level, p, o, copy) /\ o + copy = ip
<1>1. data \in Blocks /\ out = <<>> /\ htab \in [Slots -> Nat] /\ Filling
  BY DEF LzInv
<1>. QED
  BY <1>1, BlockIs DEF Filling, InBytes

\* The literals so far are counted.
LEMMA AllCounted ==
  ASSUME LzInv, step = "pack"
  PROVE  Complete(Counted(packed, copy), data, level, ip)
<1>1. PICK p, o : Packing(packed, data, level, p, o, copy) /\ o + copy = ip
  BY WhilePacking
<1>2. ip \in Nat /\ ip >= 2 /\ o \in Nat /\ p \in Nat /\ (p = 0 => o = 0)
  BY <1>1, WhilePacking DEF Packing
<1>3. copy = 0 => p > 0
  BY <1>1, <1>2
<1>4. Complete(Counted(packed, copy), data, level, o + copy)
  BY <1>1, <1>3, CountedIs
<1>. QED
  BY <1>1, <1>4

LEMMA OneLiteral ==
  ASSUME LzInv, step = "pack", ip < Len(data),
         NEW next, next = WithByte([packed |-> packed, copy |-> copy], At(ip)),
         packed' = next.packed, copy' = next.copy, ip' = ip + 1,
         step' = step, data' = data, level' = level, out' = out, htab' \in [Slots -> Nat]
  PROVE  LzInv'
<1>1. PICK p, o : Packing(packed, data, level, p, o, copy) /\ o + copy = ip
  BY WhilePacking
<1>2. data \in Seq(Int) /\ ip \in Nat /\ ip >= 2 /\ Len(data) \in Nat /\ Len(data) >= 4
      /\ level \in {1, 2} /\ data \in Blocks /\ out = <<>>
  BY WhilePacking
<1>3. ip + 1 \in 1 .. Len(data) /\ ip + 1 \in Nat /\ ip + 1 >= 2 /\ ip + 1 <= Len(data)
  BY <1>2
<1>4. At(ip) = data[ip + 1] /\ At(ip) \in Int
  BY <1>2, <1>3 DEF At
<1>. DEFINE b == At(ip)
<1>5. b \in Int /\ b = data[o + copy + 1]
  BY <1>1, <1>4
<1>. HIDE DEF b
<1>6. next = WithByte([packed |-> packed, copy |-> copy], b)
  BY DEF b
<1>7. \E q, t : Packing(next.packed, data, level, q, t, next.copy) /\ t + next.copy = o + copy + 1
  BY <1>1, <1>5, <1>6, WithByteIs
<1>8. Filling'
  BY <1>1, <1>2, <1>3, <1>7 DEF Filling
<1>. QED
  BY <1>2, <1>8 DEF LzInv

LEMMA LiteralKeeps ==
  ASSUME LzInv, Literal
  PROVE  LzInv'
<1>1. step = "pack" /\ ip < Len(data) - 12
  BY DEF Literal, InBlock
<1>2. htab \in [Slots -> Nat] /\ ip \in Nat /\ Len(data) \in Nat
  BY <1>1, WhilePacking
<1>3. ip < Len(data)
  BY <1>1, <1>2
<1>4. htab' \in [Slots -> Nat]
  BY <1>2 DEF Literal
<1>. DEFINE next == WithByte([packed |-> packed, copy |-> copy], At(ip))
<1>5. /\ packed' = next.packed /\ copy' = next.copy /\ ip' = ip + 1
      /\ step' = step /\ data' = data /\ level' = level /\ out' = out
  BY DEF Literal
<1>. HIDE DEF next
<1>6. next = WithByte([packed |-> packed, copy |-> copy], At(ip))
  BY DEF next
<1>. QED
  BY <1>1, <1>3, <1>4, <1>5, <1>6, OneLiteral

LEMMA LeftOverKeeps ==
  ASSUME LzInv, LeftOver
  PROVE  LzInv'
<1>1. step = "pack" /\ ip < Len(data)
  BY DEF LeftOver
<1>2. htab' \in [Slots -> Nat]
  BY <1>1, WhilePacking DEF LeftOver
<1>. DEFINE next == WithByte([packed |-> packed, copy |-> copy], At(ip))
<1>3. /\ packed' = next.packed /\ copy' = next.copy /\ ip' = ip + 1
      /\ step' = step /\ data' = data /\ level' = level /\ out' = out
  BY DEF LeftOver
<1>. HIDE DEF next
<1>4. next = WithByte([packed |-> packed, copy |-> copy], At(ip))
  BY DEF next
<1>. QED
  BY <1>1, <1>2, <1>3, <1>4, OneLiteral

LEMMA MatchKeeps ==
  ASSUME LzInv, Match
  PROVE  LzInv'
<1>1. step = "pack" /\ ip < Len(data) - 12 /\ IsMatch
  BY DEF Match, InBlock
<1>2. /\ data \in Seq(Int) /\ ip \in Nat /\ ip >= 2 /\ Len(data) \in Nat /\ Len(data) >= 4
      /\ level \in {1, 2} /\ data \in Blocks /\ out = <<>> /\ htab \in [Slots -> Nat] /\ InBytes
  BY <1>1, WhilePacking
<1>. DEFINE end == Compared
            l == end - 3 - ip
            d == Distance - 1
            Q == Counted(packed, copy)
            code == IF level = 1 THEN Encoded1(l, d) ELSE Encoded2(l, d)
<1>3. /\ packed' = Append(Q \o code, High - 1)
      /\ ip' = end - 1 /\ copy' = 0
      /\ step' = step /\ data' = data /\ level' = level /\ out' = out
  BY DEF Match, MaxCopy
<1>4. ip + 2 < Len(data)
  BY <1>1, <1>2
<1>5. /\ Distance \in Nat \ {0} /\ Distance <= ip /\ Checked \in {3, 5}
      /\ level = 1 => Distance - 1 < High * Byte
      /\ level = 2 /\ Distance - 1 >= MaxDistance(2) => Checked = 5
  BY <1>1, <1>2, <1>4, DistanceIs
<1>6. /\ end \in Nat /\ ip + Checked + 1 <= end /\ end <= Len(data)
      /\ Repeats(data, ip, end - 1 - ip, d)
  BY <1>1, <1>2, ComparedIs
<1>7. htab' \in [Slots -> Nat]
  <2>. DEFINE first  == IF IsRun THEN htab ELSE [htab EXCEPT ![Slot(ip)] = ip]
              second == [first EXCEPT ![Slot(end - 3)] = end - 3]
  <2>1. PICK s \in IF end < Len(data) THEN {Slot(end - 2)} ELSE Slots :
          htab' = [second EXCEPT ![s] = end - 2]
    BY DEF Match
  <2>2. end - 3 \in Nat /\ end - 2 \in Nat
    <3>. HIDE DEF end
    <3>. QED
      BY <1>2, <1>5, <1>6
  <2>3. first \in [Slots -> Nat]
    BY <1>2
  <2>. HIDE DEF first, end
  <2>4. second \in [Slots -> Nat]
    BY <2>2, <2>3
  <2>. HIDE DEF second
  <2>. QED
    BY <2>1, <2>2, <2>4
<1>. HIDE DEF end
<1>8. /\ l \in Nat \ {0} /\ d \in Nat /\ end - 1 - ip = l + 2 /\ ip + l + 2 = end - 1
      /\ (Checked = 5 => l >= 3) /\ end - 1 \in Nat /\ end - 1 >= 2 /\ end - 1 <= Len(data)
  BY <1>2, <1>5, <1>6
<1>9. Complete(Q, data, level, ip)
  BY <1>1, AllCounted
<1>. HIDE DEF l, d, Q
<1>10. Repeats(data, ip, l + 2, d)
  BY <1>6, <1>8
<1>11. \E p : Packing(packed', data, level, p, end - 1, 0)
  <2>1. CASE level = 1
    <3>1. d < High * Byte
      BY <1>5, <2>1 DEF d
    <3>2. \E p : Packing(Append(Q \o Encoded1(l, d), High - 1), data, 1, p, ip + l + 2, 0)
      BY <1>8, <1>9, <1>10, <2>1, <3>1, Matched1
    <3>. QED
      BY <1>3, <1>8, <2>1, <3>2
  <2>2. CASE level = 2
    <3>1. d >= MaxDistance(2) => l >= 3
      BY <1>5, <1>8, <2>2 DEF d
    <3>2. \E p : Packing(Append(Q \o Encoded2(l, d), High - 1), data, 2, p, ip + l + 2, 0)
      BY <1>8, <1>9, <1>10, <2>2, <3>1, Matched2
    <3>. QED
      BY <1>3, <1>8, <2>2, <3>2
  <2>. QED
    BY <1>2, <2>1, <2>2
<1>12. Filling'
  <2>1. end - 1 + 0 = end - 1
    BY <1>8
  <2>. QED
    BY <1>2, <1>3, <1>8, <1>11, <2>1 DEF Filling
<1>. QED
  BY <1>1, <1>2, <1>3, <1>7, <1>12 DEF LzInv

LEMMA FinishKeeps ==
  ASSUME LzInv, Finish
  PROVE  LzInv'
<1>1. step = "pack" /\ ip = Len(data)
  BY DEF Finish
<1>2. /\ data \in Seq(Int) /\ ip \in Nat /\ Len(data) \in Nat
      /\ level \in {1, 2} /\ data \in Blocks /\ out = <<>>
  BY <1>1, WhilePacking
<1>. DEFINE Q == Counted(packed, copy)
            P == packed'
            n == Len(Q)
            add == (level - 1) * High
<1>3. /\ packed' = [Q EXCEPT ![1] = @ + add]
      /\ step' = "packed" /\ htab' = [s \in Slots |-> 0] /\ data' = data /\ out' = out
  BY DEF Finish
<1>4. Complete(Q, data, level, Len(data))
  BY <1>1, AllCounted
<1>. HIDE DEF Q
<1>5. /\ Q \in Seq(Int) /\ n > 0 /\ Q[1] \in 0 .. High - 1 /\ n \in Nat
      /\ n <= Len(data) + CountBytes(Len(data)) + 1
      /\ \E G : Chain(Q, data, level, G, n, Len(data))
  BY <1>4 DEF Complete
<1>6. High \in Nat \ {0}
  BY Widths
<1>7. add \in Int /\ Q[1] + add \in Int /\ Q[1] + add = High * (level - 1) + Q[1] /\ level - 1 \in Int
      /\ 1 \in 1 .. n
  <2>1. level = 1 => add = 0 /\ High * (level - 1) = 0
    BY <1>6
  <2>2. level = 2 => add = High /\ High * (level - 1) = High
    BY <1>6
  <2>. HIDE DEF add
  <2>. QED
    BY <1>2, <1>5, <1>6, <2>1, <2>2
<1>. HIDE DEF add
<1>8. /\ P \in Seq(Int) /\ Len(P) = n
      /\ \A j \in 1 .. n : P[j] = IF j = 1 THEN Q[1] + add ELSE Q[j]
  BY <1>3, <1>5, <1>7, ExceptSeq
<1>. HIDE DEF P, n
<1>9. P[1] = Q[1] + add
  BY <1>7, <1>8
<1>10. P[1] \div High = level - 1 /\ P[1] % High = Q[1]
  <2>1. Q[1] \in Int /\ 0 <= Q[1] /\ Q[1] < High
    BY <1>5, <1>6
  <2>. QED
    BY <1>6, <1>7, <1>9, <2>1, DividedOnce
<1>11. Same(Q, P, n)
  <2>1. Q[1] % High = P[1] % High
    BY <1>5, <1>10, CountIsLow
  <2>2. \A i \in 2 .. n : i \in 1 .. n /\ i # 1
    OBVIOUS
  <2>. QED
    BY <1>8, <2>1, <2>2 DEF Same
<1>12. \E G : Chain(P, data, level, G, n, Len(data))
  BY <1>2, <1>5, <1>11, ChainStays
<1>13. (P[1] \div High) + 1 = level
  BY <1>2, <1>10
<1>14. Ready'
  BY <1>2, <1>3, <1>5, <1>8, <1>12, <1>13 DEF Ready, Filled, P
<1>15. htab' \in [Slots -> Nat]
  BY <1>3
<1>. QED
  BY <1>2, <1>3, <1>14, <1>15 DEF LzInv

-----------------------------------------------------------------------------
(* Unpacking keeps it.                                                     *)

LEMMA UnpackKeeps ==
  ASSUME LzInv, NEW size \in Rooms(data), Unpack(size)
  PROVE  LzInv'
<1>1. /\ step = "packed" /\ room' = size /\ level' = (packed[1] \div High) + 1
      /\ ctrl' = packed[1] % High /\ ip' = 1 /\ step' = "unpack"
      /\ data' = data /\ htab' = htab /\ packed' = packed /\ out' = out
  BY DEF Unpack
<1>2. data \in Blocks /\ out = <<>> /\ Ready /\ htab \in [Slots -> Nat]
  BY <1>1 DEF LzInv
<1>3. data \in Seq(Int) /\ Len(data) \in Nat /\ size \in Nat
  BY <1>2, BlockIs
<1>4. PICK lv \in {1, 2} : (packed[1] \div High) + 1 = lv /\ Filled(lv)
  BY <1>2 DEF Ready
<1>5. packed \in Seq(Int) /\ Len(packed) > 0
  BY <1>4 DEF Filled
<1>6. PICK G : Chain(packed, data, lv, G, Len(packed), Len(data))
  BY <1>4 DEF Filled
<1>7. Len(out) = 0 /\ out = SubSeq(data, 1, 0)
  <2>1. Len(SubSeq(data, 1, 0)) = 0 /\ SubSeq(data, 1, 0) \in Seq(Int)
    BY <1>3, FirstBytes
  <2>2. SubSeq(data, 1, 0) = <<>>
    BY <2>1, EmptySeq
  <2>. QED
    BY <1>2, <2>2, EmptySeq
<1>8. PartOut'
  <2>1. 0 \in Nat /\ 0 <= Len(data) /\ 0 <= size
    BY <1>3
  <2>. QED
    BY <1>1, <1>3, <1>7, <2>1 DEF PartOut
<1>9. OnTheWay(G)'
  <2>1. <<0, 0>> \in G /\ 1 - 1 = 0
    BY <1>6 DEF Chain
  <2>2. <<0, 0>> # <<Len(packed), Len(data)>>
    BY <1>5
  <2>. QED
    BY <1>1, <1>4, <1>6, <1>7, <2>1, <2>2 DEF OnTheWay
<1>10. ctrl' = CtrlAt(packed', ip' - 1)
  BY <1>1 DEF CtrlAt
<1>11. Emptying'
  BY <1>1, <1>4, <1>5, <1>8, <1>9, <1>10 DEF Emptying
<1>. QED
  BY <1>1, <1>2, <1>11 DEF LzInv

LEMMA Unpacking ==
  ASSUME LzInv, step = "unpack"
  PROVE  /\ data \in Blocks /\ data \in Seq(Int) /\ Len(data) \in Nat
         /\ packed \in Seq(Int) /\ Len(packed) \in Nat /\ ip \in Nat /\ ip >= 1 /\ level \in {1, 2}
         /\ ctrl = CtrlAt(packed, ip - 1) /\ PartOut /\ htab \in [Slots -> Nat]
         /\ \E G, x, y : /\ OnTheWay(G) /\ x = <<ip - 1, Len(out)>> /\ y \in G
                         /\ y \in Nat \X Nat /\ y[1] <= Len(packed) /\ y[2] <= Len(data)
                         /\ ItemAt(packed, data, level, x, y)
<1>1. data \in Blocks /\ Emptying /\ htab \in [Slots -> Nat]
  BY DEF LzInv
<1>2. data \in Seq(Int) /\ Len(data) \in Nat
  BY <1>1, BlockIs
<1>3. PICK G : OnTheWay(G)
  BY <1>1 DEF Emptying
<1>. DEFINE x == <<ip - 1, Len(out)>>
<1>4. Chain(packed, data, level, G, Len(packed), Len(data)) /\ x \in G /\ x # <<Len(packed), Len(data)>>
  BY <1>3 DEF OnTheWay
<1>. HIDE DEF x
<1>5. PICK y \in G : ItemAt(packed, data, level, x, y)
  BY <1>4 DEF Chain
<1>6. y \in Nat \X Nat /\ y[1] <= Len(packed) /\ y[2] <= Len(data)
  BY <1>4, <1>5 DEF Chain
<1>7. packed \in Seq(Int) /\ ip \in Nat /\ ip >= 1 /\ level \in {1, 2}
      /\ ctrl = CtrlAt(packed, ip - 1) /\ PartOut
  BY <1>1 DEF Emptying
<1>8. Len(packed) \in Nat
  BY <1>7
<1>9. \E H, u, v : /\ OnTheWay(H) /\ u = <<ip - 1, Len(out)>> /\ v \in H
                   /\ v \in Nat \X Nat /\ v[1] <= Len(packed) /\ v[2] <= Len(data)
                   /\ ItemAt(packed, data, level, u, v)
  BY <1>3, <1>5, <1>6 DEF x
<1>. QED
  BY <1>1, <1>2, <1>7, <1>8, <1>9

\* To the end of an item.
LEMMA PutKeeps ==
  ASSUME LzInv, step = "unpack", NEW G, OnTheWay(G), NEW q \in Nat, NEW t \in Nat, <<q, t>> \in G,
         q > 0, t <= room, Put(SubSeq(data, 1, t), q)
  PROVE  LzInv'
<1>1. /\ data \in Blocks /\ data \in Seq(Int) /\ Len(data) \in Nat
      /\ packed \in Seq(Int) /\ Len(packed) \in Nat /\ ip \in Nat /\ level \in {1, 2}
      /\ PartOut /\ htab \in [Slots -> Nat]
  BY Unpacking
<1>2. Chain(packed, data, level, G, Len(packed), Len(data))
  BY DEF OnTheWay
<1>3. q <= Len(packed) /\ t <= Len(data)
      /\ (<<q, t>> # <<Len(packed), Len(data)>> => q < Len(packed))
  BY <1>2 DEF Chain
<1>4. /\ out' = SubSeq(data, 1, t) /\ data' = data /\ level' = level /\ htab' = htab
      /\ packed' = packed /\ room' = room
  BY DEF Put
<1>5. SubSeq(data, 1, t) \in Seq(Int) /\ Len(SubSeq(data, 1, t)) = t
  BY <1>1, <1>3, FirstBytes
<1>6. Len(out') = t
  BY <1>4, <1>5
<1>7. PartOut'
  BY <1>1, <1>3, <1>4, <1>6 DEF PartOut
<1>8. CASE q < Len(packed)
  <2>1. ctrl' = packed[q + 1] /\ ip' = q + 1 /\ step' = step
    BY <1>8 DEF Put
  <2>2. (q + 1) - 1 = q /\ q + 1 \in Nat /\ q + 1 >= 1
    OBVIOUS
  <2>3. <<q, t>> # <<Len(packed), Len(data)>>
    BY <1>1, <1>8
  <2>4. OnTheWay(G)'
    BY <1>2, <1>4, <1>6, <2>1, <2>2, <2>3 DEF OnTheWay
  <2>5. ctrl' = CtrlAt(packed', ip' - 1)
    BY <1>4, <2>1, <2>2 DEF CtrlAt
  <2>6. Emptying'
    BY <1>1, <1>4, <1>7, <2>1, <2>2, <2>4, <2>5 DEF Emptying
  <2>. QED
    BY <1>1, <1>4, <2>1, <2>6 DEF LzInv
<1>9. CASE ~ (q < Len(packed))
  <2>1. step' = "done"
    BY <1>9 DEF Put
  <2>2. t = Len(data)
    BY <1>3, <1>9
  <2>3. SubSeq(data, 1, t) = data
    <3>. DEFINE s == SubSeq(data, 1, t)
    <3>1. Len(data) \in 0 .. Len(data)
      BY <1>1
    <3>2. s \in Seq(Int) /\ Len(s) = Len(data) /\ \A i \in 1 .. Len(data) : s[i] = data[i]
      BY <1>1, <2>2, <3>1, FirstBytes
    <3>. HIDE DEF s
    <3>3. s = data
      BY <1>1, <3>2, SeqEqual
    <3>. QED
      BY <3>3 DEF s
  <2>. QED
    BY <1>1, <1>4, <1>7, <2>1, <2>3 DEF LzInv
<1>. QED
  BY <1>8, <1>9

LEMMA RefusedKeeps ==
  ASSUME LzInv, step = "unpack", Refused, room < Len(data)
  PROVE  LzInv'
<1>1. data \in Blocks /\ PartOut /\ htab \in [Slots -> Nat]
  BY Unpacking
<1>2. /\ step' = "refused" /\ data' = data /\ htab' = htab /\ out' = out /\ room' = room
  BY DEF Refused, packVars
<1>3. PartOut' /\ room' < Len(data')
  BY <1>1, <1>2 DEF PartOut
<1>. QED
  BY <1>1, <1>2, <1>3 DEF LzInv

\* What is read of a match.
Says(item, q, o, t) ==
  \E l \in Nat \ {0}, d \in Nat : /\ t = o + l + 2 /\ Repeats(data, o, l + 2, d)
                                  /\ item = [len |-> l - 1, back |-> d, end |-> q]

\* A control byte tells a literal from a match.
LEMMA MatchSays ==
  ASSUME NEW q \in Nat, NEW t \in Nat, NEW o \in Nat,
         packed \in Seq(Int), Len(packed) \in Nat, ip \in Nat, ip >= 1, level \in {1, 2},
         ctrl = CtrlAt(packed, ip - 1), q <= Len(packed),
         MatchAt(packed, data, level, ip - 1, o, q, t)
  PROVE  /\ ctrl >= High /\ ctrl \in Nat /\ q > 0
         /\ Says(IF level = 1 THEN Item1 ELSE Item2, q, o, t)
<1>1. ip - 1 > 0 /\ \E l, d : /\ l \in Nat \ {0} /\ d \in Nat
                              /\ t = o + l + 2 /\ Repeats(data, o, l + 2, d)
                              /\ CodeAt(packed, level, ip - 1, q, l, d)
  BY DEF MatchAt
<1>2. PICK l, d : /\ l \in Nat \ {0} /\ d \in Nat
                  /\ t = o + l + 2 /\ Repeats(data, o, l + 2, d)
                  /\ CodeAt(packed, level, ip - 1, q, l, d)
  BY <1>1
<1>3. ip >= 2 /\ ip - 1 # 0 /\ (ip - 1) + 1 = ip
  BY <1>1
<1>4. ctrl = packed[ip]
  BY <1>3 DEF CtrlAt
<1>5. /\ ctrl >= High /\ ctrl \in Nat
      /\ (IF level = 1 THEN Item1 ELSE Item2) = [len |-> l - 1, back |-> d, end |-> q]
  <2>1. CASE level = 1
    <3>1. Code1(packed, ip - 1, q, l, d)
      BY <1>2, <2>1 DEF CodeAt
    <3>2. ctrl >= High /\ ctrl \in Nat /\ Item1 = [len |-> l - 1, back |-> d, end |-> q]
      BY <1>2, <1>3, <1>4, <3>1, Item1Is
    <3>. QED
      BY <2>1, <3>2
  <2>2. CASE level # 1
    <3>1. Code2(packed, ip - 1, q, l, d)
      BY <1>2, <2>2 DEF CodeAt
    <3>2. ctrl >= High /\ ctrl \in Nat /\ Item2 = [len |-> l - 1, back |-> d, end |-> q]
      BY <1>2, <1>3, <1>4, <3>1, Item2Is
    <3>. QED
      BY <2>2, <3>2
  <2>. QED
    BY <2>1, <2>2
<1>6. q > 0
  <2>1. ip - 1 \in Nat \ {0} /\ Same(packed, packed, Len(packed))
    BY <1>3, SameBefore
  <2>2. (ip - 1) + 2 <= q
    BY <1>2, <2>1, CodeStays
  <2>. QED
    BY <1>3, <2>2
<1>7. Says(IF level = 1 THEN Item1 ELSE Item2, q, o, t)
  BY <1>2, <1>5 DEF Says
<1>. QED
  BY <1>5, <1>6, <1>7

\* The bytes of a literal.
Literals(P, D, p, o, n) == \A j \in 1 .. n : P[p + 1 + j] = D[o + j]

LEMMA LiteralPut ==
  ASSUME NEW P \in Seq(Int), NEW D \in Seq(Int), NEW p \in Nat, NEW o \in Nat, NEW c \in Nat,
         p + c + 2 <= Len(P), o + c + 1 <= Len(D), Literals(P, D, p, o, c + 1)
  PROVE  SubSeq(D, 1, o) \o SubSeq(P, p + 2, p + c + 2) = SubSeq(D, 1, o + c + 1)
<1>0. Len(P) \in Nat /\ Len(D) \in Nat
  OBVIOUS
<1>1. Len(P) \in Nat /\ Len(D) \in Nat /\ o \in 0 .. Len(D) /\ o + c + 1 \in 0 .. Len(D)
  BY <1>0
<1>. DEFINE s == SubSeq(D, 1, o)
            w == SubSeq(P, p + 2, p + c + 2)
            t == SubSeq(D, 1, o + c + 1)
            u == s \o w
<1>2. s \in Seq(Int) /\ Len(s) = o /\ \A i \in 1 .. o : s[i] = D[i]
  BY <1>1, FirstBytes
<1>3. t \in Seq(Int) /\ Len(t) = o + c + 1 /\ \A i \in 1 .. o + c + 1 : t[i] = D[i]
  BY <1>1, FirstBytes
<1>4. w \in Seq(Int) /\ Len(w) = c + 1 /\ \A i \in 1 .. c + 1 : w[i] = D[o + i]
  <2>. DEFINE m == p + 2
              n == p + c + 2
  <2>1. m \in Int /\ n \in Int /\ \A i \in m .. n : P[i] \in Int
    BY <1>1
  <2>2. w = SubSeq(P, m, n)
    OBVIOUS
  <2>. HIDE DEF m, n, w
  <2>3. /\ w \in Seq(Int)
        /\ Len(w) = IF m <= n THEN n - m + 1 ELSE 0
        /\ \A i \in 1 .. n - m + 1 : w[i] = P[m + i - 1]
    <3>1. /\ SubSeq(P, m, n) \in Seq(Int)
          /\ Len(SubSeq(P, m, n)) = IF m <= n THEN n - m + 1 ELSE 0
          /\ \A i \in 1 .. n - m + 1 : SubSeq(P, m, n)[i] = P[m + i - 1]
      BY <2>1, SubSeqProperties
    <3>. QED
      BY <2>2, <3>1
  <2>. USE DEF m, n
  <2>4. p + 2 <= p + c + 2 /\ (p + c + 2) - (p + 2) + 1 = c + 1
        /\ \A i \in 1 .. c + 1 : (p + 2) + i - 1 = p + 1 + i
    OBVIOUS
  <2>5. \A j \in 1 .. c + 1 : P[p + 1 + j] = D[o + j]
    BY DEF Literals
  <2>. QED
    BY <2>3, <2>4, <2>5
<1>. HIDE DEF s, w, t
<1>5. Together(s, w, u)
  BY <1>2, <1>4, PutBehind
<1>. HIDE DEF u
<1>6. /\ u \in Seq(Int) /\ Len(u) = o + (c + 1)
      /\ \A i \in 1 .. o : u[i] = D[i]
      /\ \A i \in 1 .. c + 1 : u[o + i] = D[o + i]
  BY <1>2, <1>4, <1>5 DEF Together
<1>7. ASSUME NEW i \in 1 .. o + c + 1 PROVE u[i] = t[i]
  <2>1. CASE i <= o
    <3>1. i \in 1 .. o
      BY <2>1
    <3>. QED
      BY <1>3, <1>6, <3>1
  <2>2. CASE ~ (i <= o)
    <3>1. i - o \in 1 .. c + 1 /\ o + (i - o) = i
      BY <2>2
    <3>. QED
      BY <1>3, <1>6, <3>1
  <2>. QED
    BY <2>1, <2>2
<1>8. Len(u) = Len(t) /\ Len(t) = o + c + 1
  BY <1>3, <1>6
<1>9. u = t
  BY <1>3, <1>6, <1>7, <1>8, SeqEqual
<1>. QED
  BY <1>9 DEF u, s, w, t

LEMMA UnpackLiteralKeeps ==
  ASSUME LzInv, UnpackLiteral
  PROVE  LzInv'
<1>1. step = "unpack" /\ ctrl < High
  BY DEF UnpackLiteral
<1>2. /\ data \in Blocks /\ data \in Seq(Int) /\ Len(data) \in Nat
      /\ packed \in Seq(Int) /\ Len(packed) \in Nat /\ ip \in Nat /\ ip >= 1 /\ level \in {1, 2}
      /\ ctrl = CtrlAt(packed, ip - 1) /\ PartOut
      /\ \E G, x, y : /\ OnTheWay(G) /\ x = <<ip - 1, Len(out)>> /\ y \in G
                      /\ y \in Nat \X Nat /\ y[1] <= Len(packed) /\ y[2] <= Len(data)
                      /\ ItemAt(packed, data, level, x, y)
  BY <1>1, Unpacking
<1>3. PICK G, x, y : /\ OnTheWay(G) /\ x = <<ip - 1, Len(out)>> /\ y \in G
                     /\ y \in Nat \X Nat /\ y[1] <= Len(packed) /\ y[2] <= Len(data)
                     /\ ItemAt(packed, data, level, x, y)
  BY <1>2
<1>. DEFINE p == ip - 1
            o == Len(out)
            q == y[1]
            t == y[2]
<1>4. p \in Nat /\ o \in Nat /\ q \in Nat /\ t \in Nat /\ q <= Len(packed) /\ t <= Len(data)
      /\ out = SubSeq(data, 1, o) /\ room \in Nat
  BY <1>2, <1>3 DEF PartOut
<1>5. y = <<q, t>> /\ <<q, t>> \in G
  BY <1>3
<1>6. High \in Nat
  BY Widths
<1>7. LiteralAt(packed, data, p, o, q, t)
  <2>1. LiteralAt(packed, data, p, o, q, t) \/ MatchAt(packed, data, level, p, o, q, t)
    BY <1>3 DEF ItemAt
  <2>2. MatchAt(packed, data, level, p, o, q, t) => ctrl >= High /\ ctrl \in Nat
    <3>. HIDE DEF q, t, o
    <3>. QED
      BY <1>2, <1>4, MatchSays
  <2>. QED
    BY <1>1, <1>6, <2>1, <2>2
<1>. HIDE DEF p, o, q, t
<1>8. PICK c \in 0 .. High - 1 : /\ CtrlAt(packed, p) = c /\ q = p + c + 2 /\ t = o + c + 1
                                 /\ \A j \in 1 .. c + 1 : packed[p + 1 + j] = data[o + j]
  BY <1>7 DEF LiteralAt
<1>9. ctrl = c /\ c \in Nat
  BY <1>2, <1>6, <1>8 DEF p
<1>10. ip + ctrl + 1 = q /\ ip + 1 = p + 2 /\ Len(out) + ctrl + 1 = t /\ q > 0
  <2>1. ip = p + 1 /\ p \in Nat /\ o \in Nat /\ Len(out) = o /\ c \in Nat /\ ctrl = c
    BY <1>2, <1>4, <1>9 DEF p, o
  <2>2. q = p + c + 2 /\ t = o + c + 1
    BY <1>8
  <2>. QED
    BY <2>1, <2>2
<1>11. out \o SubSeq(packed, ip + 1, q) = SubSeq(data, 1, t)
  <2>1. p + c + 2 <= Len(packed) /\ o + c + 1 <= Len(data)
    BY <1>4, <1>8
  <2>2. SubSeq(data, 1, o) \o SubSeq(packed, p + 2, p + c + 2) = SubSeq(data, 1, o + c + 1)
    <3>1. Literals(packed, data, p, o, c + 1)
      BY <1>8 DEF Literals
    <3>2. packed \in Seq(Int) /\ data \in Seq(Int) /\ p \in Nat /\ o \in Nat /\ c \in Nat
      BY <1>2, <1>4, <1>9
    <3>. QED
      BY <2>1, <3>1, <3>2, LiteralPut, SMTT(30)
  <2>. QED
    BY <1>4, <1>8, <1>10, <2>2
<1>12. IF t > room \/ q > Len(packed) THEN Refused
       ELSE Put(out \o SubSeq(packed, ip + 1, q), q)
  BY <1>10 DEF UnpackLiteral
<1>13. ~ (q > Len(packed))
  BY <1>2, <1>4
<1>14. CASE t > room
  <2>1. Refused /\ room < Len(data)
    BY <1>2, <1>4, <1>12, <1>14
  <2>. QED
    BY <1>1, <2>1, RefusedKeeps
<1>15. CASE ~ (t > room)
  <2>1. Put(out \o SubSeq(packed, ip + 1, q), q)
    BY <1>12, <1>13, <1>15
  <2>2. Put(SubSeq(data, 1, t), q)
    BY <1>11, <2>1 DEF Put
  <2>3. t <= room
    BY <1>4, <1>15
  <2>. QED
    BY <1>1, <1>3, <1>4, <1>5, <1>10, <2>2, <2>3, PutKeeps
<1>. QED
  BY <1>14, <1>15

LEMMA UnpackMatchKeeps ==
  ASSUME LzInv, UnpackMatch
  PROVE  LzInv'
<1>1. step = "unpack" /\ ctrl >= High
  BY DEF UnpackMatch
<1>2. /\ data \in Blocks /\ data \in Seq(Int) /\ Len(data) \in Nat
      /\ packed \in Seq(Int) /\ Len(packed) \in Nat /\ ip \in Nat /\ ip >= 1 /\ level \in {1, 2}
      /\ ctrl = CtrlAt(packed, ip - 1) /\ PartOut
      /\ \E G, x, y : /\ OnTheWay(G) /\ x = <<ip - 1, Len(out)>> /\ y \in G
                      /\ y \in Nat \X Nat /\ y[1] <= Len(packed) /\ y[2] <= Len(data)
                      /\ ItemAt(packed, data, level, x, y)
  BY <1>1, Unpacking
<1>3. PICK G, x, y : /\ OnTheWay(G) /\ x = <<ip - 1, Len(out)>> /\ y \in G
                     /\ y \in Nat \X Nat /\ y[1] <= Len(packed) /\ y[2] <= Len(data)
                     /\ ItemAt(packed, data, level, x, y)
  BY <1>2
<1>. DEFINE p == ip - 1
            o == Len(out)
            q == y[1]
            t == y[2]
            item == IF level = 1 THEN Item1 ELSE Item2
<1>4. p \in Nat /\ o \in Nat /\ q \in Nat /\ t \in Nat /\ q <= Len(packed) /\ t <= Len(data)
      /\ out = SubSeq(data, 1, o) /\ room \in Nat
  BY <1>2, <1>3 DEF PartOut
<1>5. y = <<q, t>> /\ <<q, t>> \in G
  BY <1>3
<1>6. High \in Nat
  BY Widths
<1>7. MatchAt(packed, data, level, p, o, q, t)
  <2>1. LiteralAt(packed, data, p, o, q, t) \/ MatchAt(packed, data, level, p, o, q, t)
    BY <1>3 DEF ItemAt
  <2>2. LiteralAt(packed, data, p, o, q, t) => ctrl \in 0 .. High - 1
    <3>. HIDE DEF q, t, o
    <3>. QED
      BY <1>2 DEF LiteralAt
  <2>. QED
    BY <1>1, <1>6, <2>1, <2>2
<1>. HIDE DEF q, t, o, item
<1>8. q > 0 /\ \E l, d : /\ l \in Nat \ {0} /\ d \in Nat
                         /\ t = o + l + 2 /\ Repeats(data, o, l + 2, d)
                         /\ item = [len |-> l - 1, back |-> d, end |-> q]
  <2>1. /\ packed \in Seq(Int) /\ Len(packed) \in Nat /\ ip \in Nat /\ ip >= 1 /\ level \in {1, 2}
        /\ ctrl = CtrlAt(packed, ip - 1) /\ q \in Nat /\ t \in Nat /\ o \in Nat /\ q <= Len(packed)
        /\ MatchAt(packed, data, level, ip - 1, o, q, t)
    BY <1>2, <1>4, <1>7
  <2>2. q > 0 /\ Says(IF level = 1 THEN Item1 ELSE Item2, q, o, t)
    BY <2>1, MatchSays
  <2>. QED
    BY <2>2 DEF Says, item
<1>9. PICK l, d : /\ l \in Nat \ {0} /\ d \in Nat
                  /\ t = o + l + 2 /\ Repeats(data, o, l + 2, d)
                  /\ item = [len |-> l - 1, back |-> d, end |-> q]
  BY <1>8
<1>10. item.len = l - 1 /\ item.back = d /\ item.end = q
  BY <1>9
<1>11. item.len + 3 = l + 2 /\ Len(out) + item.len + 3 = t /\ ~ (item.back + 1 > Len(out))
       /\ l + 2 \in Nat
  <2>1. d + 1 <= o
    BY <1>9 DEF Repeats
  <2>. QED
    BY <1>4, <1>9, <1>10, <2>1 DEF o
<1>12. Copies(item, out) = SubSeq(data, 1, t)
  <2>1. /\ o + (item.len + 3) <= Len(data) /\ item.len + 3 \in Nat /\ item.back \in Nat
        /\ Repeats(data, o, item.len + 3, item.back) /\ o + (item.len + 3) = t
    <3>1. o + (l + 2) = t
      BY <1>4, <1>9
    <3>. QED
      BY <1>4, <1>9, <1>10, <1>11, <3>1
  <2>2. Copies(item, SubSeq(data, 1, o)) = SubSeq(data, 1, o + (item.len + 3))
    BY <1>2, <1>4, <2>1, CopiesAre
  <2>. QED
    BY <1>4, <2>1, <2>2
<1>13. IF Len(out) + item.len + 3 > room \/ item.back + 1 > Len(out) THEN Refused
       ELSE Put(Copies(item, out), item.end)
  BY DEF UnpackMatch, Copies, item
<1>14. CASE t > room
  <2>1. Refused /\ room < Len(data)
    BY <1>2, <1>4, <1>11, <1>13, <1>14
  <2>. QED
    BY <1>1, <2>1, RefusedKeeps
<1>15. CASE ~ (t > room)
  <2>1. Put(Copies(item, out), item.end)
    BY <1>11, <1>13, <1>15
  <2>2. Put(SubSeq(data, 1, t), q)
    BY <1>10, <1>12, <2>1 DEF Put
  <2>3. t <= room
    BY <1>4, <1>15
  <2>. QED
    BY <1>1, <1>3, <1>4, <1>5, <1>8, <2>2, <2>3, PutKeeps
<1>. QED
  BY <1>14, <1>15

-----------------------------------------------------------------------------
(* The property follows.                                                   *)

LEMMA PrefixOf ==
  ASSUME NEW D \in Seq(Int), NEW o, Len(o) \in Nat, Len(o) <= Len(D), o = SubSeq(D, 1, Len(o))
  PROVE  IsPrefix(o, D)
<1>. DEFINE n == Len(o)
<1>1. n \in 0 .. Len(D)
  OBVIOUS
<1>2. o \in Seq(Int)
  BY <1>1, FirstBytes
<1>3. n \in 0 .. Len(o)
  OBVIOUS
<1>. DEFINE s == SubSeq(o, 1, n)
<1>4. s \in Seq(Int) /\ Len(s) = n /\ \A i \in 1 .. n : s[i] = o[i]
  BY <1>2, <1>3, FirstBytes
<1>. HIDE DEF s
<1>5. s = o
  BY <1>2, <1>4, SeqEqual
<1>. QED
  BY <1>5 DEF IsPrefix, s

LEMMA InvComesBack ==
  ASSUME LzInv
  PROVE  ComesBack
<1>1. ASSUME step \in {"unpack", "done", "refused"} PROVE IsPrefix(out, data) /\ Len(out) <= room
  <2>1. PartOut /\ data \in Blocks
    BY <1>1 DEF LzInv, Emptying
  <2>2. data \in Seq(Int)
    BY <2>1, BlockIs
  <2>. QED
    BY <2>1, <2>2, PrefixOf DEF PartOut
<1>2. step = "done" => out = data
  BY DEF LzInv
<1>3. step = "refused" => room < Len(data)
  BY DEF LzInv
<1>4. ASSUME step \in {"pack", "packed"} PROVE Len(packed) <= Len(data) + (Len(data) \div MaxCopy) + 1
  <2>1. Len(packed) <= Len(data) + CountBytes(Len(data)) + 1
    <3>1. CASE step = "packed"
      BY <3>1 DEF LzInv, Ready
    <3>2. CASE step = "pack"
      <4>1. PICK p, o : Packing(packed, data, level, p, o, copy) /\ o + copy = ip
        BY <3>2, WhilePacking
      <4>2. /\ p \in Nat /\ o \in Nat /\ copy \in 0 .. High - 1 /\ Len(packed) = p + copy + 1
            /\ p <= o + CountBytes(o) /\ ip <= Len(data) /\ Len(data) \in Nat /\ High \in Nat
        BY <3>2, <4>1, WhilePacking, Widths DEF Packing
      <4>3. o <= Len(data) /\ copy \in Nat
        BY <4>1, <4>2
      <4>4. CountBytes(o) \in Nat /\ CountBytes(Len(data)) \in Nat /\ CountBytes(o) <= CountBytes(Len(data))
        BY <4>2, <4>3, CountsGrow
      <4>. QED
        BY <4>1, <4>2, <4>3, <4>4
    <3>. QED
      BY <1>4, <3>1, <3>2
  <2>. QED
    BY <2>1 DEF CountBytes, MaxCopy
<1>. QED
  BY <1>1, <1>2, <1>3, <1>4 DEF ComesBack

\* What is packed comes back: whatever the hash table proposes, fastlz_decompress
\* makes of what fastlz_compress made of a block the same block when the buffer has
\* room for it, refuses it when it has not, and never gets a byte that is wrong or
\* behind the buffer; and packing needs no more than one byte in MAX_COPY of its own.
THEOREM PackingComesBack == LzSpec => []ComesBack
<1>1. LzInit => LzInv
  BY DEF LzInit, LzInv
<1>2. LzInv /\ [LzNext]_lzVars => LzInv'
  <2>. SUFFICES ASSUME LzInv, [LzNext]_lzVars PROVE LzInv'
    OBVIOUS
  <2>1. ASSUME NEW b \in Blocks, NEW l \in {1, 2}, Begin(b, l) PROVE LzInv'
    BY <2>1, BeginKeeps
  <2>2. CASE Match
    BY <2>2, MatchKeeps
  <2>3. CASE Literal
    BY <2>3, LiteralKeeps
  <2>4. CASE LeftOver
    BY <2>4, LeftOverKeeps
  <2>5. CASE Finish
    BY <2>5, FinishKeeps
  <2>6. ASSUME NEW r \in Rooms(data), Unpack(r) PROVE LzInv'
    BY <2>6, UnpackKeeps
  <2>7. CASE UnpackLiteral
    BY <2>7, UnpackLiteralKeeps
  <2>8. CASE UnpackMatch
    BY <2>8, UnpackMatchKeeps
  <2>9. CASE UNCHANGED lzVars
    BY <2>9 DEF lzVars, packVars, LzInv, Filling, Ready, Filled, Emptying, OnTheWay, PartOut
  <2>. QED
    BY <2>1, <2>2, <2>3, <2>4, <2>5, <2>6, <2>7, <2>8, <2>9 DEF LzNext
<1>3. LzInv => ComesBack
  BY InvComesBack
<1>. QED
  BY <1>1, <1>2, <1>3, PTL DEF LzSpec

=============================================================================
