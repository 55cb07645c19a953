----------------------------- MODULE ImageProofs -----------------------------
(***************************************************************************)
(* Proofs about Image, for any archives, section headers and relocation    *)
(* records: the object that is found is the one that was named, its        *)
(* sections fit into their memory, and what its words refer to is what its *)
(* records say.                                                            *)
(***************************************************************************)
EXTENDS Image, FiniteSetTheorems, SequenceTheorems, WellFoundedInduction, TLAPS

-----------------------------------------------------------------------------
(* Relocated words.  Numbers are written out as sums for the provers.      *)

\* Division by a power of two, and what is left of it.
LEMMA Divided ==
  ASSUME NEW v \in Int, NEW d \in Nat \ {0}
  PROVE  /\ v \div d \in Int /\ v % d \in Int
         /\ v = d * (v \div d) + (v % d) /\ 0 <= v % d /\ v % d < d
BY SMT

LEMMA DividedOnce ==
  ASSUME NEW v \in Int, NEW d \in Nat \ {0}, NEW q \in Int, NEW x \in Int,
         v = d * q + x, 0 <= x, x < d
  PROVE  v \div d = q /\ v % d = x
BY SMT

LEMMA Powers ==
  /\ 2 ^ 8 = 256 /\ 2 ^ 10 = 1024 /\ 2 ^ 22 = 4194304 /\ 2 ^ 23 = 8388608
  /\ 2 ^ 24 = 16777216 /\ 2 ^ 25 = 33554432 /\ 2 ^ 27 = 134217728
  /\ 2 ^ 29 = 536870912 /\ 2 ^ 30 = 1073741824
  /\ 2 ^ 0 = 1 /\ 2 ^ 2 = 4
BY SMT

\* The bits below n and the others: a word has both.
LEMMA LowAndHigh ==
  ASSUME NEW w \in Int, NEW n \in Nat, n # 32, NEW d \in Nat \ {0}, 2 ^ n = d
  PROVE  /\ Low(w, n) = w % d /\ High(w, n) = d * (w \div d)
         /\ Low(w, n) \in Int /\ 0 <= Low(w, n) /\ Low(w, n) < d
         /\ High(w, n) \in Int /\ w = High(w, n) + Low(w, n)
<1>1. /\ w \div d \in Int /\ w % d \in Int
      /\ w = d * (w \div d) + (w % d) /\ 0 <= w % d /\ w % d < d
  BY Divided
<1>2. Low(w, n) = w % d /\ High(w, n) = w - (w % d)
  BY DEF Low, High
<1>. QED
  BY <1>1, <1>2, SMT

\* A word put together of the upper bits of one number and the lower of another.
LEMMA Composed ==
  ASSUME NEW w \in Int, NEW v \in Int, NEW n \in Nat, n # 32, NEW d \in Nat \ {0}, 2 ^ n = d
  PROVE  /\ High(w, n) + Low(v, n) \in Int
         /\ High(High(w, n) + Low(v, n), n) = High(w, n)
         /\ Low(High(w, n) + Low(v, n), n) = Low(v, n)
<1>1. /\ High(w, n) = d * (w \div d) /\ w \div d \in Int
      /\ Low(v, n) \in Int /\ 0 <= Low(v, n) /\ Low(v, n) < d
  BY LowAndHigh, Divided
<1>. DEFINE x == High(w, n) + Low(v, n)
<1>2. x \in Int
  BY <1>1, SMT
<1>3. x \div d = w \div d /\ x % d = Low(v, n)
  BY <1>1, <1>2, DividedOnce
<1>. HIDE DEF x
<1>4. High(x, n) = d * (x \div d) /\ Low(x, n) = x % d
  BY <1>2, LowAndHigh
<1>. QED
  BY <1>1, <1>2, <1>3, <1>4 DEF x

\* What a processor reads in a field of n bits.
LEMMA SignedField ==
  ASSUME NEW v \in Int, NEW n \in Nat \ {0}, n # 32, NEW h \in Nat \ {0}, 2 ^ (n - 1) = h, 2 ^ n = 2 * h
  PROVE  /\ Signed(Low(v, n), n) \in Int
         /\ -h <= Signed(Low(v, n), n) /\ Signed(Low(v, n), n) < h
         /\ \E k \in Int : v = Signed(Low(v, n), n) + 2 * h * k
         /\ -h <= v /\ v < h => Signed(Low(v, n), n) = v
<1>. DEFINE x == Low(v, n)
            q == v \div (2 * h)
<1>1. /\ x \in Int /\ 0 <= x /\ x < 2 * h /\ x = v % (2 * h)
  <2>1. 2 * h \in Nat \ {0} /\ n \in Nat
    BY SMT
  <2>. QED
    BY <2>1, LowAndHigh
<1>2. q \in Int /\ v = 2 * h * q + x
  <2>1. 2 * h \in Nat \ {0}
    BY SMT
  <2>2. q \in Int /\ v = (2 * h) * q + (v % (2 * h))
    BY <2>1, Divided
  <2>. QED
    BY <1>1, <2>2
<1>3. Signed(x, n) = IF x >= h THEN x - 2 * h ELSE x
  BY DEF Signed
<1>. HIDE DEF x, q
<1>4. PICK k \in Int : k = IF x >= h THEN q + 1 ELSE q
  BY <1>2
<1>5. /\ Signed(x, n) \in Int /\ -h <= Signed(x, n) /\ Signed(x, n) < h
      /\ v = Signed(x, n) + 2 * h * k
  <2>1. CASE x >= h
    BY <1>1, <1>2, <1>3, <1>4, <2>1, SMT
  <2>2. CASE ~(x >= h)
    BY <1>1, <1>2, <1>3, <1>4, <2>2, SMT
  <2>. QED
    BY <2>1, <2>2
<1>6. ASSUME -h <= v, v < h PROVE Signed(x, n) = v
  <2>. DEFINE y == Signed(x, n)
  <2>. HIDE DEF y
  <2>1. v \in Int /\ y \in Int /\ -h <= y /\ y < h /\ v = y + 2 * h * k
    BY <1>5 DEF y
  <2>2. k >= 1 => h * k >= h
    BY <1>4, SMT
  <2>3. k <= -1 => h * k <= -h
    BY <1>4, SMT
  <2>4. k = 0
    <3>. DEFINE m == h * k
    <3>1. m \in Int /\ 2 * h * k = m + m
      BY <1>4, SMT
    <3>. HIDE DEF m
    <3>2. ~(k >= 1) /\ ~(k <= -1)
      BY <1>6, <2>1, <2>2, <2>3, <3>1 DEF m
    <3>. QED
      BY <1>4, <3>2
  <2>. QED
    BY <2>1, <2>4 DEF y
<1>. QED
  BY <1>4, <1>5, <1>6 DEF x

LEMMA RecordTypes ==
  ASSUME NEW r \in RelocRecord
  PROVE  /\ r.s \in Int /\ r.a \in Int /\ r.p \in Int /\ r.word \in Int /\ r.b \in Int
         /\ r.thumb \in BOOLEAN
         /\ \A t : /\ [r EXCEPT !.type = t].type = t /\ [r EXCEPT !.type = t].s = r.s
                   /\ [r EXCEPT !.type = t].thumb = r.thumb
                   /\ [r EXCEPT !.type = t].a = r.a /\ [r EXCEPT !.type = t].p = r.p
                   /\ [r EXCEPT !.type = t].word = r.word /\ [r EXCEPT !.type = t].b = r.b
BY DEF RelocRecord

\* The addend of a branch: that of the instruction, or one that is wrong by five
\* times 2^26 at least.
LEMMA BranchAddend ==
  ASSUME NEW w \in Int, IsBranch(w)
  PROVE  \E k \in Int :
           /\ Addend(w) = 4 * Signed(Low(w, 24), 24) + 67108864 * k
           /\ k = 0 \/ k >= 5 \/ k <= -5
           /\ (w \div 8388608) % 2 = 1 <=> k = 0
<1>. DEFINE q == w \div 16777216
            x == w % 16777216
<1>1. /\ q \in Int /\ x \in Int /\ w = 16777216 * q + x /\ 0 <= x /\ x < 16777216
  BY Divided, SMT
<1>2. Low(w, 24) = x
  BY Powers DEF Low
<1>. HIDE DEF q, x
<1>3. (w \div 8388608) % 2 = 1 <=> x >= 8388608
  BY <1>1, SMT
<1>4. q % 16 = 10 \/ q % 16 = 11
  <2>1. (w \div 33554432) % 8 = 5
    BY Powers DEF IsBranch
  <2>. QED
    BY <1>1, <2>1, SMT
<1>5. Signed(x, 24) = IF x >= 8388608 THEN x - 16777216 ELSE x
  BY Powers DEF Signed
<1>6. CASE x >= 8388608
  <2>1. Addend(w) = 4 * Signed(x, 24)
    BY <1>2, <1>3, <1>6, Powers DEF Addend
  <2>2. Signed(x, 24) \in Int
    BY <1>1, <1>5, <1>6, SMT
  <2>3. Addend(w) = 4 * Signed(x, 24) + 67108864 * 0
    BY <2>1, <2>2, SMT
  <2>. QED
    BY <1>2, <1>3, <1>6, <2>3
<1>7. CASE ~(x >= 8388608)
  <2>. DEFINE y == Low(w, 30)
              j == q % 64
  <2>1. y = w % 1073741824
    BY Powers DEF Low
  <2>2. j \in Int /\ 0 <= j /\ j < 64 /\ y = 16777216 * j + x
    BY <1>1, <2>1, SMT
  <2>3. j % 16 = 10 \/ j % 16 = 11
    BY <1>1, <1>4, SMT
  <2>4. Signed(y, 30) = IF y >= 536870912 THEN y - 1073741824 ELSE y
    BY Powers DEF Signed
  <2>5. Addend(w) = 4 * Signed(y, 30)
    BY <1>3, <1>7, Powers DEF Addend
  <2>. HIDE DEF j, y
  <2>6. PICK k \in Int : k = IF j >= 32 THEN j - 64 ELSE j
    BY <2>2, SMT
  <2>7. Signed(y, 30) = 16777216 * k + x
    <3>1. j >= 32 <=> y >= 536870912
      BY <1>1, <1>7, <2>2, SMT
    <3>. QED
      BY <1>1, <2>2, <2>4, <2>6, <3>1, SMT
  <2>8. k >= 5 \/ k <= -5
    BY <2>2, <2>3, <2>6, SMT
  <2>9. Signed(x, 24) = x
    BY <1>5, <1>7
  <2>10. Addend(w) = 4 * x + 67108864 * k
    BY <1>1, <2>5, <2>6, <2>7, SMT
  <2>. QED
    BY <1>2, <1>3, <1>7, <2>6, <2>8, <2>9, <2>10, SMT
<1>. QED
  BY <1>6, <1>7

LEMMA BitsOf ==
  ASSUME NEW v \in Int
  PROVE  /\ InSigned(v, 26) <=> -33554432 <= v /\ v < 33554432
         /\ InSigned(v, 32) <=> -2147483648 <= v /\ v < 2147483648
         /\ InBits(v, 32) <=> 0 <= v /\ v < 4294967296
<1>1. 26 - 2 = 24 /\ 32 - 2 = 30
  OBVIOUS
<1>2. /\ v \div 16777216 \in -2 .. 1 <=> -33554432 <= v /\ v < 33554432
      /\ v \div 1073741824 \in -2 .. 1 <=> -2147483648 <= v /\ v < 2147483648
      /\ v \div 1073741824 \in 0 .. 3 <=> 0 <= v /\ v < 4294967296
  BY SMT
<1>. QED
  BY <1>1, <1>2, Powers, SMT DEF InSigned, InBits

\* The fields there are.
LEMMA Fields ==
  ASSUME NEW n \in {10, 22, 24, 30}
  PROVE  /\ n \in Nat \ {0} /\ n # 32 /\ 2 ^ n \in Nat \ {0} /\ 2 ^ (n - 1) \in Nat \ {0}
         /\ 2 ^ n = 2 * 2 ^ (n - 1)
<1>1. /\ 10 - 1 = 9 /\ 22 - 1 = 21 /\ 24 - 1 = 23 /\ 30 - 1 = 29
  OBVIOUS
<1>2. /\ 2 ^ 10 = 1024 /\ 2 ^ 9 = 512 /\ 2 ^ 22 = 4194304 /\ 2 ^ 21 = 2097152
      /\ 2 ^ 24 = 16777216 /\ 2 ^ 23 = 8388608 /\ 2 ^ 30 = 1073741824 /\ 2 ^ 29 = 536870912
  BY SMT
<1>3. CASE n = 10
  BY <1>1, <1>2, <1>3, SMT
<1>4. CASE n = 22
  BY <1>1, <1>2, <1>4, SMT
<1>5. CASE n = 24
  BY <1>1, <1>2, <1>5, SMT
<1>6. CASE n = 30
  BY <1>1, <1>2, <1>6, SMT
<1>. QED
  BY <1>3, <1>4, <1>5, <1>6

LEMMA ComposedField ==
  ASSUME NEW n \in {10, 22, 24, 30}, NEW w \in Int, NEW v \in Int
  PROVE  /\ High(High(w, n) + Low(v, n), n) = High(w, n)
         /\ Low(High(w, n) + Low(v, n), n) = Low(v, n)
<1>. DEFINE d == 2 ^ n
<1>1. n \in Nat /\ n # 32 /\ d \in Nat \ {0} /\ 2 ^ n = d
  BY Fields
<1>. HIDE DEF d
<1>. QED
  BY <1>1, Composed

LEMMA FittingField ==
  ASSUME NEW n \in {10, 22, 24, 30}, NEW v \in Int
  PROVE  /\ Signed(Low(v, n), n) \in Int
         /\ -(2 ^ (n - 1)) <= Signed(Low(v, n), n) /\ Signed(Low(v, n), n) < 2 ^ (n - 1)
         /\ -(2 ^ (n - 1)) <= v /\ v < 2 ^ (n - 1) => Signed(Low(v, n), n) = v
<1>. DEFINE h == 2 ^ (n - 1)
<1>1. n \in Nat \ {0} /\ n # 32 /\ h \in Nat \ {0} /\ 2 ^ (n - 1) = h /\ 2 ^ n = 2 * h
  BY Fields
<1>. HIDE DEF h
<1>2. /\ Signed(Low(v, n), n) \in Int
      /\ -h <= Signed(Low(v, n), n) /\ Signed(Low(v, n), n) < h
      /\ -h <= v /\ v < h => Signed(Low(v, n), n) = v
  BY <1>1, SignedField
<1>. QED
  BY <1>2 DEF h

\* The upper bits of a branch stay, and the field says where it goes.
LEMMA ArmReaches ==
  ASSUME NEW r \in RelocRecord
  PROVE  ReachesArm(r)
<1>. DEFINE w  == r.word
            S  == Signed(Low(w, 24), 24)
            to == r.s + 4 * S
            t  == r.b + r.s - r.p + Addend(w)
            d  == r.b + to - r.p
            x  == Arm([r EXCEPT !.type = "PC24"])
            z  == High(w, 24) + Low(t \div 4, 24)
            back == (w \div 2 ^ 23) % 2 = 1
<1>. SUFFICES ASSUME IsBranch(w)
              PROVE  /\ High(x.word, 24) = High(w, 24)
                     /\ InSigned(d, 26) => (x.ok <=> back)
                     /\ x.ok => InSigned(d, 26) \/ ~back
                     /\ x.ok /\ back => r.b + to - Goes(x.word, r.p) \in 0 .. 3
                     /\ ~x.ok => x.word = w
  BY DEF ReachesArm
<1>1. /\ r.b \in Int /\ r.s \in Int /\ r.p \in Int /\ w \in Int
  BY RecordTypes
<1>2. x = IF t < -33554432 \/ t >= 33554432 THEN Refused(w) ELSE Done(z)
  <2>. DEFINE rr == [r EXCEPT !.type = "PC24"]
  <2>1. /\ rr.type = "PC24" /\ rr.b = r.b /\ rr.s = r.s /\ rr.p = r.p /\ rr.word = w
    BY RecordTypes
  <2>. HIDE DEF rr
  <2>2. Arm(rr) = Pc24(rr)
    BY <2>1 DEF Arm
  <2>3. 2 ^ 25 = 33554432
    BY Powers
  <2>4. Pc24(rr) = IF t < -(2 ^ 25) \/ t >= 2 ^ 25 THEN Refused(w) ELSE Done(z)
    BY <2>1 DEF Pc24
  <2>5. Pc24(rr) = IF t < -33554432 \/ t >= 33554432 THEN Refused(w) ELSE Done(z)
    BY <2>3, <2>4, SMT
  <2>. QED
    BY <2>2, <2>5 DEF rr
<1>. HIDE DEF x
<1>3. /\ S \in Int /\ -8388608 <= S /\ S < 8388608
  <2>1. S \in Int /\ -(2 ^ (24 - 1)) <= S /\ S < 2 ^ (24 - 1)
    BY <1>1, FittingField
  <2>2. 2 ^ (24 - 1) = 8388608
    BY SMT
  <2>. QED
    BY <2>1, <2>2, SMT
<1>4. PICK k \in Int : /\ Addend(w) = 4 * S + 67108864 * k
                       /\ k = 0 \/ k >= 5 \/ k <= -5
                       /\ back <=> k = 0
  <2>1. 2 ^ 23 = 8388608
    BY Powers
  <2>. QED
    BY <1>1, <2>1, BranchAddend
<1>. HIDE DEF S, back
<1>5. t = d + 67108864 * k /\ t \in Int /\ d \in Int /\ to \in Int
  BY <1>1, <1>3, <1>4, SMT
<1>6. InSigned(d, 26) <=> -33554432 <= d /\ d < 33554432
  BY <1>5, BitsOf
<1>. HIDE DEF t
<1>7. CASE t < -33554432 \/ t >= 33554432
  <2>1. x.ok = FALSE /\ x.word = w
    BY <1>2, <1>7 DEF Refused
  <2>2. InSigned(d, 26) => ~back
    BY <1>4, <1>5, <1>6, <1>7, SMT
  <2>. QED
    BY <2>1, <2>2
<1>8. CASE ~(t < -33554432 \/ t >= 33554432)
  <2>1. x.ok = TRUE /\ x.word = z
    BY <1>2, <1>8 DEF Done
  <2>2. back <=> InSigned(d, 26)
    <3>1. back => t = d
      BY <1>4, <1>5, SMT
    <3>2. ~back => k >= 5 \/ k <= -5
      BY <1>4
    <3>. QED
      BY <1>5, <1>6, <1>8, <3>1, <3>2, SMT
  <2>. DEFINE f == t \div 4
  <2>3. /\ f \in Int /\ t - 4 * f \in Int /\ 0 <= t - 4 * f /\ t - 4 * f <= 3
        /\ -8388608 <= f /\ f < 8388608
    BY <1>5, <1>8, SMT
  <2>4. 2 ^ (24 - 1) = 8388608
    BY SMT
  <2>5. -(2 ^ (24 - 1)) <= f /\ f < 2 ^ (24 - 1)
    BY <2>3, <2>4, SMT
  <2>6. Signed(Low(f, 24), 24) = f
    BY <2>3, <2>5, FittingField
  <2>7. High(z, 24) = High(w, 24) /\ Low(z, 24) = Low(f, 24)
    BY <1>1, <2>3, ComposedField
  <2>. HIDE DEF f
  <2>8. ASSUME back PROVE r.b + to - Goes(x.word, r.p) \in 0 .. 3
    <3>1. Goes(x.word, r.p) = r.p + 4 * f
      BY <2>1, <2>6, <2>7 DEF Goes
    <3>2. t = d
      BY <1>4, <1>5, <2>8, SMT
    <3>3. r.b + to - (r.p + 4 * f) = t - 4 * f
      BY <1>1, <1>5, <2>3, <3>2, SMT
    <3>. QED
      BY <2>3, <3>1, <3>3, SMT
  <2>. QED
    BY <2>1, <2>2, <2>7, <2>8
<1>. QED
  BY <1>7, <1>8

\* A call reaches what is in reach; a word that is built by two instructions is
\* the address.
LEMMA SparcReaches ==
  ASSUME NEW r \in RelocRecord
  PROVE  ReachesSparc(r)
<1>. DEFINE w    == r.word
            to   == r.s + r.a
            call == Sparc([r EXCEPT !.type = "WDISP_30"]).word
            hi   == Sparc([r EXCEPT !.type = "HI22"]).word
            lo   == Sparc([r EXCEPT !.type = "LO10"]).word
<1>1. /\ r.a \in Int /\ r.s \in Int /\ r.p \in Int /\ w \in Int /\ to \in Int /\ to - r.p \in Int
      /\ r.a + r.s = to /\ r.a + r.s - r.p = to - r.p
  BY RecordTypes, SMT
<1>2. call = High(w, 30) + Low((to - r.p) \div 4, 30)
  <2>. DEFINE rr == [r EXCEPT !.type = "WDISP_30"]
  <2>1. /\ rr.type = "WDISP_30" /\ rr.a = r.a /\ rr.s = r.s /\ rr.p = r.p /\ rr.word = w
    BY RecordTypes
  <2>. HIDE DEF rr
  <2>2. Bits(rr.type) = 30 /\ Shift(rr.type) = 2 /\ Sum(rr) = to - r.p
    BY <1>1, <2>1 DEF Bits, Shift, Sum
  <2>3. 2 ^ 2 = 4
    BY Powers
  <2>4. Sparc(rr) = Done(High(rr.word, Bits(rr.type))
                         + Low(Sum(rr) \div 2 ^ Shift(rr.type), Bits(rr.type)))
    BY <2>1 DEF Sparc
  <2>5. Sparc(rr).word = High(w, 30) + Low((to - r.p) \div 4, 30)
    BY <2>1, <2>2, <2>3, <2>4 DEF Done
  <2>. QED
    BY <2>5 DEF rr
<1>3. hi = High(w, 22) + Low(to \div 1024, 22)
  <2>. DEFINE rr == [r EXCEPT !.type = "HI22"]
  <2>1. /\ rr.type = "HI22" /\ rr.a = r.a /\ rr.s = r.s /\ rr.p = r.p /\ rr.word = w
    BY RecordTypes
  <2>. HIDE DEF rr
  <2>2. Bits(rr.type) = 22 /\ Shift(rr.type) = 10 /\ Sum(rr) = to
    BY <1>1, <2>1 DEF Bits, Shift, Sum
  <2>3. 2 ^ 10 = 1024
    BY Powers
  <2>4. Sparc(rr) = Done(High(rr.word, Bits(rr.type))
                         + Low(Sum(rr) \div 2 ^ Shift(rr.type), Bits(rr.type)))
    BY <2>1 DEF Sparc
  <2>5. Sparc(rr).word = High(w, 22) + Low(to \div 1024, 22)
    BY <2>1, <2>2, <2>3, <2>4 DEF Done
  <2>. QED
    BY <2>5 DEF rr
<1>4. lo = High(w, 10) + Low(to, 10)
  <2>. DEFINE rr == [r EXCEPT !.type = "LO10"]
  <2>1. /\ rr.type = "LO10" /\ rr.a = r.a /\ rr.s = r.s /\ rr.p = r.p /\ rr.word = w
    BY RecordTypes
  <2>. HIDE DEF rr
  <2>2. Bits(rr.type) = 10 /\ Shift(rr.type) = 0 /\ Sum(rr) = to
    BY <1>1, <2>1 DEF Bits, Shift, Sum
  <2>3. 2 ^ 0 = 1 /\ to \div 1 = to
    BY <1>1, Powers, SMT
  <2>4. Sparc(rr) = Done(High(rr.word, Bits(rr.type))
                         + Low(Sum(rr) \div 2 ^ Shift(rr.type), Bits(rr.type)))
    BY <2>1 DEF Sparc
  <2>5. Sparc(rr).word = High(w, 10) + Low(to, 10)
    BY <2>1, <2>2, <2>3, <2>4 DEF Done
  <2>. QED
    BY <2>5 DEF rr
<1>. HIDE DEF to, call, hi, lo
<1>. DEFINE f == (to - r.p) \div 4
            g == to \div 1024
<1>5. f \in Int /\ g \in Int
  BY <1>1, SMT
<1>8. High(call, 30) = High(w, 30) /\ Low(call, 30) = Low(f, 30)
  BY <1>1, <1>2, <1>5, ComposedField
<1>9. High(hi, 22) = High(w, 22) /\ Low(hi, 22) = Low(g, 22)
  BY <1>1, <1>3, <1>5, ComposedField
<1>10. High(lo, 10) = High(w, 10) /\ Low(lo, 10) = Low(to, 10)
  BY <1>1, <1>4, ComposedField
<1>11. ASSUME (to - r.p) % 4 = 0, InSigned(to - r.p, 32)
       PROVE  r.p + 4 * Signed(Low(call, 30), 30) = to
  <2>1. -2147483648 <= to - r.p /\ to - r.p < 2147483648
    BY <1>1, <1>11, BitsOf, SMT
  <2>. DEFINE e == to - r.p
  <2>2. e \in Int /\ e % 4 = 0 /\ f = e \div 4 /\ -2147483648 <= e /\ e < 2147483648
    BY <1>1, <1>11, <2>1
  <2>. HIDE DEF e, f
  <2>3. 4 * f = e /\ -536870912 <= f /\ f < 536870912
    BY <1>5, <2>2, SMT
  <2>4. Signed(Low(f, 30), 30) = f
    <3>1. 2 ^ (30 - 1) = 536870912
      BY SMT
    <3>2. -(2 ^ (30 - 1)) <= f /\ f < 2 ^ (30 - 1)
      BY <2>3, <3>1, SMT
    <3>. QED
      BY <1>5, <3>2, FittingField
  <2>. QED
    BY <1>1, <1>8, <2>3, <2>4, SMT DEF e
<1>12. ASSUME InBits(to, 32)
       PROVE  Low(hi, 22) * 2 ^ 10 + Low(lo, 10) = to
  <2>1. 0 <= to /\ to < 4294967296
    BY <1>1, <1>12, BitsOf, SMT
  <2>2. Low(g, 22) = g % 4194304 /\ Low(to, 10) = to % 1024
    BY Powers DEF Low
  <2>3. 0 <= g /\ g < 4194304
    BY <1>1, <2>1, SMT
  <2>4. g % 4194304 = g
    BY <1>5, <2>3, SMT
  <2>5. to = 1024 * g + (to % 1024)
    BY <1>1, SMT
  <2>6. to % 1024 \in Int
    BY <1>1, SMT
  <2>. HIDE DEF g
  <2>7. g * 1024 + (to % 1024) = to
    BY <1>1, <1>5, <2>5, <2>6, SMT
  <2>. QED
    BY <1>9, <1>10, <2>2, <2>4, <2>7, Powers
<1>13. /\ High(call, 30) = High(w, 30) /\ High(hi, 22) = High(w, 22)
       /\ High(lo, 10) = High(w, 10)
  BY <1>8, <1>9, <1>10
<1>. QED
  BY <1>11, <1>12, <1>13 DEF ReachesSparc, call, hi, lo, to

LEMMA PointerReaches ==
  ASSUME NEW r \in RelocRecord
  PROVE  ReachesPointer(r)
<1>1. /\ r.b \in Int /\ r.s \in Int /\ r.p \in Int /\ r.word \in Int /\ r.thumb \in BOOLEAN
  BY RecordTypes
<1>. DEFINE x == Arm([r EXCEPT !.type = "ABS32"]).word
            v == r.word + r.s + (IF r.p % 4 = 0 THEN r.b ELSE 0)
<1>2. x = IF r.thumb THEN v - (v % 2) + 1 ELSE v
  <2>. DEFINE rr == [r EXCEPT !.type = "ABS32"]
  <2>1. /\ rr.type = "ABS32" /\ rr.b = r.b /\ rr.s = r.s /\ rr.p = r.p /\ rr.word = r.word
        /\ rr.thumb = r.thumb
    BY RecordTypes
  <2>. HIDE DEF rr
  <2>2. Arm(rr) = Abs32(rr)
    BY <2>1 DEF Arm
  <2>. QED
    BY <2>1, <2>2 DEF rr, Abs32, Done
<1>3. v \in Int
  BY <1>1, SMT
<1>. HIDE DEF x, v
<1>4. x = v \/ (r.thumb /\ x % 2 = 1)
  BY <1>1, <1>2, <1>3, SMT
<1>5. I386([r EXCEPT !.type = "PC32"]).word = r.word + r.s - r.p
  BY RecordTypes DEF I386, Done
<1>6. I386([r EXCEPT !.type = "32"]).word = r.s + r.word
  BY RecordTypes DEF I386, Done
<1>7. r.p + (r.word + r.s - r.p) = r.s + r.word
  BY <1>1, SMT
<1>. QED
  BY <1>4, <1>5, <1>6, <1>7 DEF ReachesPointer, x, v

\* What is relocated is one of the records.
THEOREM RecordsReach ==
  ASSUME NEW r \in RelocRecord
  PROVE  Reaches(r)
BY ArmReaches, SparcReaches, PointerReaches DEF Reaches

-----------------------------------------------------------------------------
(* Induction up to a bound, for a set; a function defined by recursion.    *)

LEMMA Smallest ==
  ASSUME NEW S, S \subseteq Nat, S # {}
  PROVE  \E x \in S : \A y \in S : x <= y
<1>. DEFINE R == {p \in Nat \X Nat : p[1] < p[2]}
<1>1. IsWellFoundedOn(R, Nat)
  BY NatLessThanWellFounded DEF OpToRel
<1>2. PICK x \in S : \A y \in S : ~ (<<y, x>> \in R)
  BY <1>1, WFMin
<1>3. ASSUME NEW y \in S PROVE x <= y
  <2>1. x \in Nat /\ y \in Nat /\ ~ (y < x)
    BY <1>2
  <2>. QED
    BY <2>1
<1>. QED
  BY <1>3

LEMMA Induction ==
  ASSUME NEW n \in Nat, NEW G, 0 \in G,
         \A k \in 1 .. n : k - 1 \in G => k \in G
  PROVE  \A k \in 0 .. n : k \in G
<1>. DEFINE Bad == {k \in 0 .. n : k \notin G}
<1>1. SUFFICES ASSUME Bad # {} PROVE FALSE
  OBVIOUS
<1>2. Bad \subseteq Nat
  OBVIOUS
<1>. HIDE DEF Bad
<1>3. PICK k \in Bad : \A m \in Bad : k <= m
  BY <1>1, <1>2, Smallest
<1>. USE DEF Bad
<1>4. k \in 1 .. n /\ k - 1 \in 0 .. n /\ ~ (k <= k - 1)
  BY <1>3
<1>5. k - 1 \in Bad
  BY <1>3, <1>4
<1>. QED
  BY <1>3, <1>4, <1>5

Iterates(f, n, s, F) == f[0] = s /\ \A i \in 1 .. n : f[i] = F[<<i, f[i - 1]>>]

LEMMA Recursion ==
  ASSUME NEW n \in Nat, NEW S, NEW s \in S, NEW F \in [(1 .. n) \X S -> S]
  PROVE  \E f \in [0 .. n -> S] : Iterates(f, n, s, F)
<1>. DEFINE Is(f, m) == \A i \in 0 .. m : f[i] = IF i = 0 THEN s ELSE F[<<i, f[i - 1]>>]
            G == {m \in 0 .. n : \E f \in [0 .. m -> S] : Is(f, m)}
<1>1. 0 \in G
  <2>. DEFINE f == [i \in 0 .. 0 |-> s]
  <2>1. f \in [0 .. 0 -> S] /\ Is(f, 0)
    OBVIOUS
  <2>. HIDE DEF f
  <2>. QED
    BY <2>1
<1>2. ASSUME NEW m \in 1 .. n, m - 1 \in G PROVE m \in G
  <2>1. PICK f \in [0 .. m - 1 -> S] : Is(f, m - 1)
    BY <1>2
  <2>. DEFINE x == F[<<m, f[m - 1]>>]
  <2>2. f[m - 1] \in S /\ x \in S
    OBVIOUS
  <2>. DEFINE g == [i \in 0 .. m |-> IF i = m THEN x ELSE f[i]]
  <2>. HIDE DEF x
  <2>3. g \in [0 .. m -> S]
    BY <2>2
  <2>4. ASSUME NEW i \in 0 .. m PROVE g[i] = IF i = 0 THEN s ELSE F[<<i, g[i - 1]>>]
    <3>1. CASE i = m
      <4>1. g[i] = x /\ g[i - 1] = f[m - 1] /\ i # 0
        BY <3>1
      <4>. QED
        BY <3>1, <4>1 DEF x
    <3>2. CASE i # m
      <4>1. i \in 0 .. m - 1 /\ g[i] = f[i] /\ (i # 0 => g[i - 1] = f[i - 1])
        BY <3>2
      <4>2. f[i] = IF i = 0 THEN s ELSE F[<<i, f[i - 1]>>]
        BY <2>1, <4>1
      <4>. HIDE DEF g
      <4>. QED
        BY <4>1, <4>2
    <3>. QED
      BY <3>1, <3>2
  <2>. HIDE DEF g
  <2>. QED
    BY <2>3, <2>4
<1>. HIDE DEF G
<1>3. n \in G
  BY <1>1, <1>2, Induction
<1>4. PICK f \in [0 .. n -> S] : Is(f, n)
  BY <1>3 DEF G
<1>5. ASSUME NEW i \in 0 .. n PROVE f[i] = IF i = 0 THEN s ELSE F[<<i, f[i - 1]>>]
  BY <1>4
<1>. HIDE DEF Is
<1>6. 0 \in 0 .. n /\ \A i \in 1 .. n : i \in 0 .. n /\ i # 0
  OBVIOUS
<1>7. f[0] = s /\ \A i \in 1 .. n : f[i] = F[<<i, f[i - 1]>>]
  BY <1>5, <1>6
<1>. QED
  BY <1>7 DEF Iterates

\* The same, as the equation that such a function is defined by.
Recursive(f, n, s, F, S) ==
  /\ f = [i \in 0 .. n |-> IF i = 0 THEN s ELSE F[<<i, f[i - 1]>>]]
  /\ f[0] = s /\ \A i \in 1 .. n : f[i] = F[<<i, f[i - 1]>>] /\ f[i - 1] \in S

LEMMA RecursiveFunction ==
  ASSUME NEW n \in Nat, NEW S, NEW s \in S, NEW F \in [(1 .. n) \X S -> S]
  PROVE  \E f \in [0 .. n -> S] : Recursive(f, n, s, F, S)
<1>1. PICK f \in [0 .. n -> S] : Iterates(f, n, s, F)
  BY Recursion
<1>2. f[0] = s /\ \A i \in 1 .. n : f[i] = F[<<i, f[i - 1]>>]
  BY <1>1 DEF Iterates
<1>3. \A i \in 1 .. n : f[i - 1] \in S
  BY <1>1
<1>4. \A i \in 0 .. n : f[i] = IF i = 0 THEN s ELSE F[<<i, f[i - 1]>>]
  <2>1. \A i \in 0 .. n : i # 0 => i \in 1 .. n
    OBVIOUS
  <2>. QED
    BY <1>2, <2>1
<1>5. f = [i \in 0 .. n |-> f[i]]
  BY <1>1
<1>6. f = [i \in 0 .. n |-> IF i = 0 THEN s ELSE F[<<i, f[i - 1]>>]]
  BY <1>4, <1>5
<1>. QED
  BY <1>2, <1>3, <1>6 DEF Recursive

-----------------------------------------------------------------------------
(* Sizes and offsets of sections.                                          *)

\* The flags there are.  That a literal is a string is not known to the provers.
Flags   == {"LOAD", "TEXT", "CONST", "DATA", "BSS", "ZERO", "REL", "RELA", "SYM", "STR",
            "CTOR", "DTOR"}
SectRec == [section : Nat, name : STRING \union Range(RapNames), size : Nat, offset : Nat,
            alignment : Nat, info : Nat, flags : SUBSET Flags, base : Int]

LEMMA SectFields ==
  ASSUME NEW sects \in Seq(SectRec)
  PROVE  /\ Len(sects) \in Nat /\ DOMAIN sects = 1 .. Len(sects)
         /\ \A i \in 1 .. Len(sects) :
              /\ sects[i] \in SectRec /\ sects[i].size \in Nat /\ sects[i].offset \in Nat
              /\ sects[i].alignment \in Nat /\ sects[i].info \in Nat /\ sects[i].section \in Nat
              /\ sects[i].base \in Int
<1>1. Len(sects) \in Nat /\ DOMAIN sects = 1 .. Len(sects)
  OBVIOUS
<1>2. \A i \in 1 .. Len(sects) : sects[i] \in SectRec
  OBVIOUS
<1>. QED
  BY <1>1, <1>2 DEF SectRec

\* An aligned offset is a multiple of the alignment, not before the offset, and
\* not before that of a smaller one.
LEMMA Aligned ==
  ASSUME NEW o \in Nat, NEW a \in Nat
  PROVE  /\ SectAlign(o, a) \in Nat /\ o <= SectAlign(o, a)
         /\ a > 1 => SectAlign(o, a) % a = 0
<1>. DEFINE q == (o + a) \div a
<1>1. CASE a > 1 /\ o \notin {0, a}
  <2>1. q \in Nat /\ o + a = a * q + ((o + a) % a) /\ (o + a) % a < a /\ (o + a) % a \in Nat
    BY <1>1, SMT
  <2>2. SectAlign(o, a) = q * a
    BY <1>1 DEF SectAlign
  <2>. HIDE DEF q
  <2>3. q * a \in Nat /\ q * a = a * q /\ o <= q * a
    BY <2>1, SMT
  <2>4. (q * a) % a = 0
    BY <1>1, <2>1, SMT
  <2>. QED
    BY <2>2, <2>3, <2>4
<1>2. CASE ~(a > 1 /\ o \notin {0, a})
  <2>1. SectAlign(o, a) = o
    BY <1>2 DEF SectAlign
  <2>2. a > 1 => o % a = 0
    BY <1>2, SMT
  <2>. QED
    BY <2>1, <2>2
<1>. QED
  BY <1>1, <1>2

LEMMA AlignedInOrder ==
  ASSUME NEW o \in Nat, NEW p \in Nat, o <= p, NEW a \in Nat
  PROVE  SectAlign(o, a) <= SectAlign(p, a)
<1>1. CASE ~(a > 1)
  BY <1>1 DEF SectAlign
<1>2. CASE a > 1
  <2>. DEFINE q == (o + a) \div a
              m == (p + a) \div a
  <2>1. /\ q \in Nat /\ o + a >= a * q /\ o + a < a * q + a
        /\ m \in Nat /\ p + a >= a * m /\ p + a < a * m + a
    BY <1>2, SMT
  <2>2. /\ SectAlign(o, a) = IF o \notin {0, a} THEN q * a ELSE o
        /\ SectAlign(p, a) = IF p \notin {0, a} THEN m * a ELSE p
    BY <1>2 DEF SectAlign
  <2>. HIDE DEF q, m
  <2>3. q <= m
    <3>1. SUFFICES ASSUME q >= m + 1 PROVE FALSE
      BY <2>1, SMT
    <3>2. a * q >= a * (m + 1)
      BY <2>1, <3>1, SMT
    <3>3. a * (m + 1) = a * m + a
      BY <2>1, SMT
    <3>. QED
      BY <2>1, <3>2, <3>3, SMT
  <2>4. q * a <= m * a /\ q * a \in Nat /\ m * a \in Nat /\ q * a = a * q /\ m * a = a * m
    BY <2>1, <2>3, SMT
  <2>5. CASE o \notin {0, a} /\ p \notin {0, a}
    BY <2>2, <2>4, <2>5
  <2>6. CASE o \in {0, a}
    <3>1. o <= p /\ p <= SectAlign(p, a) /\ SectAlign(p, a) \in Nat
      BY Aligned
    <3>2. SectAlign(o, a) = o
      BY <2>2, <2>6
    <3>. QED
      BY <3>1, <3>2, SMT
  <2>7. CASE o \notin {0, a} /\ p \in {0, a}
    <3>1. p = a /\ o < a
      BY <1>2, <2>7, SMT
    <3>2. q = 1
      <4>1. SUFFICES ASSUME q >= 2 \/ q = 0 PROVE FALSE
        BY <2>1, SMT
      <4>2. CASE q >= 2
        <5>1. a * q >= a * 2
          BY <2>1, <4>2, SMT
        <5>. QED
          BY <2>1, <3>1, <5>1, SMT
      <4>3. CASE q = 0
        BY <2>1, <4>3, SMT
      <4>. QED
        BY <4>1, <4>2, <4>3
    <3>3. SectAlign(o, a) = a /\ SectAlign(p, a) = a
      BY <2>2, <2>7, <3>1, <3>2, SMT
    <3>. QED
      BY <3>3
  <2>. QED
    BY <2>5, <2>6, <2>7
<1>. QED
  BY <1>1, <1>2

LEMMA PlaceIsAligned ==
  ASSUME NEW o \in Nat, NEW s \in SectRec
  PROVE  PlaceAt(o, s) = SectAlign(o, s.alignment)
BY DEF PlaceAt, SectAlign, SectRec

\* The sum of the sizes is the last value of a function.
LEMMA SizeFunction ==
  ASSUME NEW sects \in Seq(SectRec), NEW mask
  PROVE  \E size \in [0 .. Len(sects) -> Nat] :
           /\ size[0] = 0
           /\ \A i \in 1 .. Len(sects) : /\ size[i] = Summed(mask, size[i - 1], sects[i])
                                        /\ size[i - 1] \in Nat /\ size[i] \in Nat
           /\ SectionSize(sects, mask) = size[Len(sects)] /\ SectionSize(sects, mask) \in Nat
<1>. DEFINE n == Len(sects)
            S == Nat
            F == [p \in (1 .. n) \X Nat |-> Summed(mask, p[2], sects[p[1]])]
            E(f) == f = [i \in 0 .. n |-> IF i = 0 THEN 0 ELSE Summed(mask, f[i - 1], sects[i])]
<1>1. n \in Nat /\ 0 \in Nat
  OBVIOUS
<1>2. F \in [(1 .. n) \X S -> S] /\ 0 \in S
  <2>1. ASSUME NEW p \in (1 .. n) \X Nat PROVE Summed(mask, p[2], sects[p[1]]) \in Nat
    <3>1. p[2] \in Nat /\ p[1] \in 1 .. n
      BY <2>1
    <3>2. sects[p[1]].size \in Nat /\ sects[p[1]].alignment \in Nat
      BY <3>1, SectFields
    <3>3. SectAlign(p[2], sects[p[1]].alignment) \in Nat
      BY <3>1, <3>2, Aligned
    <3>. QED
      BY <3>1, <3>2, <3>3 DEF Summed
  <2>. QED
    BY <2>1
<1>. HIDE DEF n, S, F
<1>3. PICK g \in [0 .. n -> S] : Recursive(g, n, 0, F, S)
  BY <1>1, <1>2, RecursiveFunction
<1>4. \A i \in 1 .. n : g[i] = Summed(mask, g[i - 1], sects[i])
  BY <1>3 DEF F, S, Recursive
<1>5. E(g)
  <2>1. \A i \in 0 .. n : g[i] = IF i = 0 THEN 0 ELSE Summed(mask, g[i - 1], sects[i])
    <3>1. \A i \in 0 .. n : i # 0 => i \in 1 .. n
      BY <1>1
    <3>. QED
      BY <1>3, <1>4, <3>1 DEF Recursive
  <2>2. g = [i \in 0 .. n |-> g[i]]
    OBVIOUS
  <2>. QED
    BY <2>1, <2>2
<1>6. E(CHOOSE f : E(f))
  BY <1>5
<1>. DEFINE h == CHOOSE f : E(f)
<1>7. SectionSize(sects, mask) = h[n]
  BY DEF SectionSize, n
<1>. HIDE DEF h
<1>8. h = [i \in 0 .. n |-> IF i = 0 THEN 0 ELSE Summed(mask, h[i - 1], sects[i])]
  BY <1>6 DEF h
<1>9. h[0] = 0 /\ \A i \in 1 .. n : h[i] = Summed(mask, h[i - 1], sects[i])
  BY <1>1, <1>8
<1>10. \A i \in 0 .. n : i \in {k \in 0 .. n : h[k] = g[k]}
  <2>. DEFINE G == {k \in 0 .. n : h[k] = g[k]}
  <2>1. 0 \in G
    BY <1>1, <1>3, <1>9 DEF Recursive
  <2>2. \A k \in 1 .. n : k - 1 \in G => k \in G
    BY <1>1, <1>4, <1>9
  <2>. HIDE DEF G
  <2>3. \A k \in 0 .. n : k \in G
    BY <1>1, <2>1, <2>2, Induction
  <2>. QED
    BY <2>3 DEF G
<1>11. SectionSize(sects, mask) = g[n] /\ n \in 0 .. n
  BY <1>1, <1>7, <1>10
<1>12. g \in [0 .. n -> Nat] /\ g[n] \in Nat /\ g[0] = 0
  BY <1>3, <1>11 DEF S, Recursive
<1>13. \A i \in 1 .. n : g[i] \in Nat /\ g[i - 1] \in Nat
  <2>1. \A i \in 1 .. n : i \in 0 .. n
    BY <1>1
  <2>2. \A i \in 1 .. n : g[i - 1] \in Nat
    BY <1>3 DEF S, Recursive
  <2>. QED
    BY <1>12, <2>1, <2>2
<1>14. \A i \in 1 .. n : /\ g[i] = Summed(mask, g[i - 1], sects[i])
                         /\ g[i - 1] \in Nat /\ g[i] \in Nat
  BY <1>4, <1>13
<1>15. SectionSize(sects, mask) = g[n] /\ SectionSize(sects, mask) \in Nat
  BY <1>11, <1>12
<1>. QED
  BY <1>12, <1>14, <1>15 DEF n

\* Sections that differ in their base only.
Alike(s, t) ==
  /\ s \in Seq(SectRec) /\ t \in Seq(SectRec) /\ Len(s) = Len(t)
  /\ \A i \in 1 .. Len(s) :
       /\ s[i].section = t[i].section /\ s[i].name = t[i].name /\ s[i].size = t[i].size
       /\ s[i].offset = t[i].offset /\ s[i].alignment = t[i].alignment
       /\ s[i].info = t[i].info /\ s[i].flags = t[i].flags

LEMMA SizeStays ==
  ASSUME NEW s, NEW t, Alike(s, t), NEW mask
  PROVE  SectionSize(s, mask) = SectionSize(t, mask)
<1>. DEFINE n == Len(s)
<1>1. s \in Seq(SectRec) /\ t \in Seq(SectRec) /\ n = Len(t) /\ n \in Nat
  BY DEF Alike
<1>2. \A i \in 1 .. n : s[i].size = t[i].size /\ s[i].alignment = t[i].alignment
                        /\ s[i].flags = t[i].flags
  BY DEF Alike
<1>3. PICK f \in [0 .. n -> Nat] :
        /\ f[0] = 0
        /\ \A i \in 1 .. n : /\ f[i] = Summed(mask, f[i - 1], s[i])
                             /\ f[i - 1] \in Nat /\ f[i] \in Nat
        /\ SectionSize(s, mask) = f[n] /\ SectionSize(s, mask) \in Nat
  BY <1>1, SizeFunction
<1>4. PICK g \in [0 .. n -> Nat] :
        /\ g[0] = 0
        /\ \A i \in 1 .. n : /\ g[i] = Summed(mask, g[i - 1], t[i])
                             /\ g[i - 1] \in Nat /\ g[i] \in Nat
        /\ SectionSize(t, mask) = g[n] /\ SectionSize(t, mask) \in Nat
  BY <1>1, SizeFunction
<1>. DEFINE G == {k \in 0 .. n : f[k] = g[k]}
<1>. HIDE DEF n
<1>5. 0 \in G
  BY <1>1, <1>3, <1>4
<1>6. ASSUME NEW k \in 1 .. n, k - 1 \in G PROVE k \in G
  <2>1. f[k - 1] = g[k - 1] /\ k \in 0 .. n
    BY <1>1, <1>6
  <2>2. Summed(mask, f[k - 1], s[k]) = Summed(mask, g[k - 1], t[k])
    BY <1>2, <2>1 DEF Summed
  <2>. QED
    BY <1>3, <1>4, <2>1, <2>2
<1>. HIDE DEF G
<1>7. n \in G
  <2>1. \A k \in 0 .. n : k \in G
    BY <1>1, <1>5, <1>6, Induction
  <2>. QED
    BY <1>1, <2>1
<1>. QED
  BY <1>3, <1>4, <1>7 DEF G

\* Where the sections end one after the other.
Behind(mask, o, sect) == IF HasPlace(mask, sect) THEN PlaceAt(o, sect) + sect.size ELSE o

LEMMA OffsetsFunction ==
  ASSUME NEW sects \in Seq(SectRec), NEW mask
  PROVE  LET b == OffsetsIn(sects, mask)
         IN  /\ b[0] = 0
             /\ \A i \in 1 .. Len(sects) :
                  /\ b[i - 1] \in Nat /\ b[i] \in Nat
                  /\ b[i] = IF HasPlace(mask, sects[i])
                              THEN SectAlign(b[i - 1], sects[i].alignment) + sects[i].size
                              ELSE b[i - 1]
<1>. DEFINE n == Len(sects)
            S == Nat
            F == [p \in (1 .. n) \X S |-> Behind(mask, p[2], sects[p[1]])]
            E(f) == f = [i \in 0 .. n |-> IF i = 0 THEN 0
                                          ELSE IF HasPlace(mask, sects[i])
                                            THEN PlaceAt(f[i - 1], sects[i]) + sects[i].size
                                          ELSE f[i - 1]]
<1>1. n \in Nat
  OBVIOUS
<1>. HIDE DEF n
<1>2. ASSUME NEW i \in 1 .. n, NEW o \in Nat
      PROVE  /\ Behind(mask, o, sects[i]) \in Nat
             /\ Behind(mask, o, sects[i]) = IF HasPlace(mask, sects[i])
                                              THEN SectAlign(o, sects[i].alignment) + sects[i].size
                                              ELSE o
  <2>. DEFINE q == SectAlign(o, sects[i].alignment)
              z == sects[i].size
  <2>1. PlaceAt(o, sects[i]) = q /\ q \in Nat /\ z \in Nat
    <3>1. sects[i] \in SectRec /\ sects[i].size \in Nat /\ sects[i].alignment \in Nat
      BY SectFields DEF n
    <3>. QED
      BY <3>1, Aligned, PlaceIsAligned
  <2>2. Behind(mask, o, sects[i]) = IF HasPlace(mask, sects[i]) THEN q + z ELSE o
    BY <2>1 DEF Behind
  <2>. HIDE DEF q, z
  <2>3. q + z \in Nat
    BY <2>1
  <2>4. Behind(mask, o, sects[i]) \in Nat
    BY <2>2, <2>3
  <2>. QED
    BY <2>2, <2>4 DEF q, z
<1>3. F \in [(1 .. n) \X S -> S]
  <2>1. ASSUME NEW p \in (1 .. n) \X S PROVE Behind(mask, p[2], sects[p[1]]) \in S
    <3>1. p[1] \in 1 .. n /\ p[2] \in Nat
      OBVIOUS
    <3>. QED
      BY <1>2, <3>1
  <2>. HIDE DEF S
  <2>. QED
    BY <2>1
<1>0. 0 \in S
  OBVIOUS
<1>. HIDE DEF S, F
<1>4. PICK g \in [0 .. n -> S] : Recursive(g, n, 0, F, S)
  BY <1>0, <1>1, <1>3, RecursiveFunction
<1>5. \A i \in 1 .. n : g[i] = Behind(mask, g[i - 1], sects[i])
  BY <1>4 DEF F, S, Recursive
<1>6. E(g)
  <2>1. \A i \in 0 .. n : g[i] = IF i = 0 THEN 0 ELSE Behind(mask, g[i - 1], sects[i])
    <3>1. \A i \in 0 .. n : i # 0 => i \in 1 .. n
      BY <1>1
    <3>. QED
      BY <1>4, <1>5, <3>1 DEF Recursive
  <2>2. g = [i \in 0 .. n |-> g[i]]
    OBVIOUS
  <2>. QED
    BY <2>1, <2>2 DEF Behind
<1>7. E(CHOOSE f : E(f))
  BY <1>6
<1>. DEFINE h == CHOOSE f : E(f)
<1>8. OffsetsIn(sects, mask) = h
  BY DEF OffsetsIn, n
<1>. HIDE DEF h
<1>9. h = [i \in 0 .. n |-> IF i = 0 THEN 0 ELSE Behind(mask, h[i - 1], sects[i])]
  BY <1>7 DEF h, Behind
<1>10. h[0] = 0 /\ \A i \in 1 .. n : h[i] = Behind(mask, h[i - 1], sects[i])
  BY <1>1, <1>9
<1>. DEFINE G == {k \in 0 .. n : h[k] \in Nat}
<1>11. \A k \in 0 .. n : k \in G
  <2>1. 0 \in G
    BY <1>1, <1>10
  <2>2. ASSUME NEW k \in 1 .. n, k - 1 \in G PROVE k \in G
    <3>1. k \in 0 .. n /\ h[k - 1] \in Nat
      BY <1>1, <2>2
    <3>2. Behind(mask, h[k - 1], sects[k]) \in Nat
      BY <1>2, <3>1
    <3>. QED
      BY <1>10, <3>1, <3>2
  <2>. HIDE DEF G
  <2>. QED
    BY <1>1, <2>1, <2>2, Induction
<1>12. \A i \in 1 .. n : h[i - 1] \in Nat /\ h[i] \in Nat
  BY <1>1, <1>11
<1>. QED
  BY <1>2, <1>8, <1>10, <1>12 DEF n

\* They end in their order, and where the sum of the sizes says at the latest.
LEMMA OffsetsInOrder ==
  ASSUME NEW sects \in Seq(SectRec), NEW mask
  PROVE  /\ \A i, j \in 0 .. Len(sects) :
              i <= j => OffsetsIn(sects, mask)[i] <= OffsetsIn(sects, mask)[j]
         /\ \A i \in 0 .. Len(sects) : OffsetsIn(sects, mask)[i] <= SectionSize(sects, mask)
<1>. DEFINE n == Len(sects)
            b == OffsetsIn(sects, mask)
<1>1. n \in Nat /\ \A i \in 1 .. n : sects[i].size \in Nat /\ sects[i].alignment \in Nat
  BY SectFields
<1>2. /\ b[0] = 0
      /\ \A i \in 1 .. n : /\ b[i - 1] \in Nat /\ b[i] \in Nat
                           /\ b[i] = IF HasPlace(mask, sects[i])
                                       THEN SectAlign(b[i - 1], sects[i].alignment) + sects[i].size
                                       ELSE b[i - 1]
  BY OffsetsFunction
<1>3. PICK f \in [0 .. n -> Nat] :
        /\ f[0] = 0
        /\ \A i \in 1 .. n : /\ f[i] = Summed(mask, f[i - 1], sects[i])
                             /\ f[i - 1] \in Nat /\ f[i] \in Nat
        /\ SectionSize(sects, mask) = f[n] /\ SectionSize(sects, mask) \in Nat
  BY SizeFunction
<1>. HIDE DEF n, b
<1>4. \A i \in 0 .. n : b[i] \in Nat
  BY <1>1, <1>2
<1>5. ASSUME NEW i \in 1 .. n PROVE b[i - 1] <= b[i]
  <2>1. b[i - 1] <= SectAlign(b[i - 1], sects[i].alignment)
        /\ SectAlign(b[i - 1], sects[i].alignment) \in Nat
    BY <1>1, <1>2, Aligned
  <2>2. CASE HasPlace(mask, sects[i])
    <3>. DEFINE a == SectAlign(b[i - 1], sects[i].alignment)
                z == sects[i].size
    <3>1. b[i] = a + z /\ b[i - 1] <= a
      BY <1>2, <2>1, <2>2
    <3>2. a \in Nat /\ z \in Nat /\ b[i - 1] \in Nat
      BY <1>1, <1>2, <2>1
    <3>. HIDE DEF a, z
    <3>. QED
      BY <3>1, <3>2
  <2>3. CASE ~HasPlace(mask, sects[i])
    <3>1. b[i] = b[i - 1] /\ b[i] \in Nat
      BY <1>2, <2>3
    <3>. QED
      BY <3>1
  <2>. QED
    BY <2>2, <2>3
<1>6. \A i, j \in 0 .. n : i <= j => b[i] <= b[j]
  <2>. DEFINE G == {k \in 0 .. n : \A i \in 0 .. k : b[i] <= b[k]}
  <2>1. 0 \in G
    BY <1>1, <1>4
  <2>2. ASSUME NEW k \in 1 .. n, k - 1 \in G PROVE k \in G
    <3>1. \A i \in 0 .. k : i = k \/ i \in 0 .. k - 1
      OBVIOUS
    <3>2. \A i \in 0 .. k - 1 : i \in 0 .. n /\ b[i] <= b[k - 1]
      BY <1>1, <2>2
    <3>3. k - 1 \in 0 .. n /\ k \in 0 .. n
      BY <1>1
    <3>4. ASSUME NEW i \in 0 .. k - 1 PROVE b[i] <= b[k]
      <4>1. b[i] <= b[k - 1] /\ b[i] \in Nat /\ b[k - 1] \in Nat /\ b[k] \in Nat
        BY <1>4, <3>2, <3>3
      <4>. QED
        BY <1>5, <4>1
    <3>. QED
      BY <1>4, <3>1, <3>3, <3>4
  <2>. HIDE DEF G
  <2>3. \A k \in 0 .. n : k \in G
    BY <1>1, <2>1, <2>2, Induction
  <2>. QED
    BY <1>1, <2>3 DEF G
<1>7. ASSUME NEW i \in 1 .. n, b[i - 1] <= f[i - 1] PROVE b[i] <= f[i]
  <2>. DEFINE a == sects[i].alignment
              p == SectAlign(b[i - 1], a)
              q == SectAlign(f[i - 1], a)
  <2>1. b[i - 1] \in Nat /\ f[i - 1] \in Nat /\ a \in Nat /\ sects[i].size \in Nat
    BY <1>1, <1>2, <1>3
  <2>2. p \in Nat /\ q \in Nat /\ f[i - 1] <= q
    BY <2>1, Aligned
  <2>3. p <= q
    BY <1>7, <2>1, AlignedInOrder
  <2>4. b[i] = IF HasPlace(mask, sects[i]) THEN p + sects[i].size ELSE b[i - 1]
    BY <1>2
  <2>5. f[i] = IF mask \in sects[i].flags THEN q + sects[i].size ELSE f[i - 1]
    BY <1>3 DEF Summed
  <2>. HIDE DEF p, q, a
  <2>. QED
    BY <1>7, <2>1, <2>2, <2>3, <2>4, <2>5 DEF HasPlace
<1>8. b[n] <= f[n]
  <2>. DEFINE G == {k \in 0 .. n : b[k] <= f[k]}
  <2>1. 0 \in G
    BY <1>1, <1>2, <1>3
  <2>2. \A k \in 1 .. n : k - 1 \in G => k \in G
    <3>1. ASSUME NEW k \in 1 .. n, k - 1 \in G PROVE k \in G
      <4>1. b[k - 1] <= f[k - 1]
        BY <3>1
      <4>2. b[k] <= f[k]
        BY <1>7, <4>1
      <4>3. k \in 0 .. n
        BY <1>1
      <4>. QED
        BY <4>2, <4>3
    <3>. QED
      BY <3>1
  <2>. HIDE DEF G
  <2>3. \A k \in 0 .. n : k \in G
    BY <1>1, <2>1, <2>2, Induction
  <2>4. n \in 0 .. n
    BY <1>1
  <2>. QED
    BY <2>3, <2>4 DEF G
<1>9. \A i \in 0 .. n : b[i] <= SectionSize(sects, mask)
  <2>1. \A i \in 0 .. n : b[i] <= b[n]
    BY <1>1, <1>6
  <2>2. f[n] \in Nat /\ b[n] \in Nat
    BY <1>1, <1>3, <1>4
  <2>. QED
    BY <1>3, <1>4, <1>8, <2>1, <2>2
<1>. QED
  BY <1>6, <1>9 DEF n, b

\* What the loader of a region does to the sections of its kind.
LEMMA PlacedWell ==
  ASSUME NEW s \in Seq(SectRec), NEW mask, NEW region \in Nat
  PROVE  LET t == Placed(s, mask, region)
         IN  /\ Alike(t, s)
             /\ \A i \in 1 .. Len(s) : ~HasPlace(mask, s[i]) => t[i] = s[i]
             /\ \A i \in 1 .. Len(s) : HasPlace(mask, s[i]) =>
                  /\ t[i].base \in Nat /\ region <= t[i].base
                  /\ t[i].base + t[i].size <= region + SectionSize(s, mask)
                  /\ t[i].alignment > 1 => (t[i].base - region) % t[i].alignment = 0
             /\ \A i, j \in 1 .. Len(s) :
                  HasPlace(mask, s[i]) /\ HasPlace(mask, s[j]) /\ i < j =>
                    t[i].base + t[i].size <= t[j].base
<1>. DEFINE n == Len(s)
            t == Placed(s, mask, region)
            b == OffsetsIn(s, mask)
            at == [i \in 1 .. n |-> SectAlign(b[i - 1], s[i].alignment)]
<1>1. /\ n \in Nat /\ DOMAIN s = 1 .. n
      /\ \A i \in 1 .. n : s[i] \in SectRec /\ s[i].size \in Nat /\ s[i].alignment \in Nat
  BY SectFields
<1>2. \A i \in 1 .. n : /\ b[i - 1] \in Nat /\ b[i] \in Nat
                        /\ HasPlace(mask, s[i]) => b[i] = at[i] + s[i].size
  BY OffsetsFunction
<1>3. /\ \A i, j \in 0 .. n : i <= j => b[i] <= b[j]
      /\ \A i \in 0 .. n : b[i] <= SectionSize(s, mask)
  BY OffsetsInOrder
<1>4. SectionSize(s, mask) \in Nat
  BY SizeFunction
<1>5. \A i \in 1 .. n : at[i] \in Nat /\ b[i - 1] <= at[i]
                        /\ (s[i].alignment > 1 => at[i] % s[i].alignment = 0)
  BY <1>1, <1>2, Aligned
<1>6. t = [i \in 1 .. n |-> IF HasPlace(mask, s[i])
                              THEN [s[i] EXCEPT !.base = region + PlaceAt(b[i - 1], s[i])]
                              ELSE s[i]]
  BY <1>1 DEF Placed
<1>. HIDE DEF n, b, t
<1>7. \A i \in 1 .. n : t[i] = IF HasPlace(mask, s[i])
                                 THEN [s[i] EXCEPT !.base = region + at[i]] ELSE s[i]
  <2>1. ASSUME NEW i \in 1 .. n PROVE PlaceAt(b[i - 1], s[i]) = at[i]
    BY <1>1, <1>2, PlaceIsAligned
  <2>. QED
    BY <1>6, <2>1
<1>. HIDE DEF at
<1>8. \A i \in 1 .. n : region + at[i] \in Nat
  BY <1>5
<1>9. ASSUME NEW i \in 1 .. n
      PROVE  /\ t[i] \in SectRec
             /\ t[i].section = s[i].section /\ t[i].name = s[i].name /\ t[i].size = s[i].size
             /\ t[i].offset = s[i].offset /\ t[i].alignment = s[i].alignment
             /\ t[i].info = s[i].info /\ t[i].flags = s[i].flags
             /\ HasPlace(mask, s[i]) => t[i].base = region + at[i]
  <2>1. CASE HasPlace(mask, s[i])
    <3>1. t[i] = [s[i] EXCEPT !.base = region + at[i]] /\ s[i] \in SectRec
      BY <1>1, <1>7, <2>1
    <3>2. region + at[i] \in Int
      BY <1>5
    <3>. QED
      BY <3>1, <3>2 DEF SectRec
  <2>2. CASE ~HasPlace(mask, s[i])
    BY <1>1, <1>7, <2>2
  <2>. QED
    BY <2>1, <2>2
<1>10. t \in Seq(SectRec) /\ Len(t) = n
  <2>1. t \in [1 .. n -> SectRec]
    BY <1>6, <1>9
  <2>. QED
    BY <1>1, <2>1
<1>11. Alike(t, s)
  BY <1>9, <1>10 DEF Alike, n
<1>12. ASSUME NEW i \in 1 .. n, HasPlace(mask, s[i])
       PROVE  /\ t[i].base \in Nat /\ region <= t[i].base
              /\ t[i].base + t[i].size = region + b[i]
              /\ t[i].base + t[i].size <= region + SectionSize(s, mask)
              /\ t[i].alignment > 1 => (t[i].base - region) % t[i].alignment = 0
  <2>1. t[i].base = region + at[i] /\ t[i].size = s[i].size /\ b[i] = at[i] + s[i].size
    BY <1>2, <1>9, <1>12
  <2>2. i \in 0 .. n /\ b[i] <= SectionSize(s, mask) /\ b[i] \in Nat
    BY <1>1, <1>2, <1>3
  <2>3. t[i].alignment = s[i].alignment /\ t[i].base - region = at[i]
    BY <1>5, <1>9, <2>1
  <2>4. t[i].base \in Nat /\ region <= t[i].base /\ t[i].base + t[i].size = region + b[i]
    <3>. DEFINE a == at[i]
                z == s[i].size
    <3>1. /\ t[i].base = region + a /\ t[i].size = z /\ b[i] = a + z
          /\ a \in Nat /\ z \in Nat
      BY <1>1, <1>5, <2>1
    <3>. HIDE DEF a, z
    <3>2. t[i].base \in Nat /\ region <= t[i].base
      BY <3>1
    <3>3. t[i].base + t[i].size = (region + a) + z
      BY <3>1
    <3>. QED
      BY <3>1, <3>2, <3>3
  <2>5. region + b[i] <= region + SectionSize(s, mask)
    BY <1>4, <2>2
  <2>6. t[i].alignment > 1 => (t[i].base - region) % t[i].alignment = 0
    BY <1>5, <2>3
  <2>. QED
    BY <2>4, <2>5, <2>6
<1>13. ASSUME NEW i \in 1 .. n, NEW j \in 1 .. n, HasPlace(mask, s[i]), HasPlace(mask, s[j]), i < j
       PROVE  t[i].base + t[i].size <= t[j].base
  <2>1. t[i].base + t[i].size = region + b[i] /\ t[j].base = region + at[j]
    BY <1>9, <1>12, <1>13
  <2>2. i \in 0 .. n /\ j - 1 \in 0 .. n /\ i <= j - 1
    BY <1>1, <1>13
  <2>3. b[i] <= b[j - 1] /\ b[j - 1] <= at[j]
    BY <1>3, <1>5, <2>2
  <2>. QED
    BY <1>2, <1>5, <2>1, <2>3
<1>. QED
  BY <1>7, <1>11, <1>12, <1>13 DEF n, t

-----------------------------------------------------------------------------
(* The four regions.                                                       *)

\* The sections of a file before they are loaded: at most one region each.
Unloaded(s) ==
  /\ s \in Seq(SectRec)
  /\ \A i \in 1 .. Len(s) :
       /\ s[i].base = NoBase
       /\ \A r, q \in 1 .. 4 :
            RegionFlags[r] \in s[i].flags /\ RegionFlags[q] \in s[i].flags => r = q

\* The sections t of s when the regions up to the m-th are loaded.
LoadedTo(t, s, regions, m) ==
  /\ Alike(t, s)
  /\ \A i \in 1 .. Len(s) :
       t[i].base # NoBase <=> \E r \in 1 .. m : HasPlace(RegionFlags[r], s[i])
  /\ \A r \in 1 .. m : \A i \in 1 .. Len(s) : HasPlace(RegionFlags[r], s[i]) =>
       /\ t[i].base \in Nat /\ regions[r] <= t[i].base
       /\ t[i].base + t[i].size <= regions[r] + SectionSize(s, RegionFlags[r])
       /\ t[i].alignment > 1 => (t[i].base - regions[r]) % t[i].alignment = 0
  /\ \A r \in 1 .. m : \A i, j \in 1 .. Len(s) :
       HasPlace(RegionFlags[r], s[i]) /\ HasPlace(RegionFlags[r], s[j]) /\ i < j =>
         t[i].base + t[i].size <= t[j].base

LEMMA LoadRegion ==
  ASSUME NEW s, Unloaded(s), NEW regions \in [1 .. 4 -> Nat], NEW m \in 1 .. 4,
         NEW t, LoadedTo(t, s, regions, m - 1)
  PROVE  LoadedTo(Placed(t, RegionFlags[m], regions[m]), s, regions, m)
<1>. DEFINE n == Len(s)
            mask == RegionFlags[m]
            u == Placed(t, mask, regions[m])
<1>1. Alike(t, s) /\ t \in Seq(SectRec) /\ s \in Seq(SectRec) /\ Len(t) = n /\ n \in Nat
  BY DEF LoadedTo, Alike
<1>2. regions[m] \in Nat
  OBVIOUS
<1>3. /\ Alike(u, t)
      /\ \A i \in 1 .. n : ~HasPlace(mask, t[i]) => u[i] = t[i]
      /\ \A i \in 1 .. n : HasPlace(mask, t[i]) =>
           /\ u[i].base \in Nat /\ regions[m] <= u[i].base
           /\ u[i].base + u[i].size <= regions[m] + SectionSize(t, mask)
           /\ u[i].alignment > 1 => (u[i].base - regions[m]) % u[i].alignment = 0
      /\ \A i, j \in 1 .. n :
           HasPlace(mask, t[i]) /\ HasPlace(mask, t[j]) /\ i < j =>
             u[i].base + u[i].size <= u[j].base
  <2>. DEFINE k == Len(t)
  <2>1. /\ Alike(u, t)
        /\ \A i \in 1 .. k : ~HasPlace(mask, t[i]) => u[i] = t[i]
        /\ \A i \in 1 .. k : HasPlace(mask, t[i]) =>
             /\ u[i].base \in Nat /\ regions[m] <= u[i].base
             /\ u[i].base + u[i].size <= regions[m] + SectionSize(t, mask)
             /\ u[i].alignment > 1 => (u[i].base - regions[m]) % u[i].alignment = 0
        /\ \A i, j \in 1 .. k :
             HasPlace(mask, t[i]) /\ HasPlace(mask, t[j]) /\ i < j =>
               u[i].base + u[i].size <= u[j].base
    BY <1>1, <1>2, PlacedWell
  <2>2. k = n
    BY <1>1
  <2>. QED
    BY <2>1, <2>2
<1>4. SectionSize(t, mask) = SectionSize(s, mask)
  BY <1>1, SizeStays
<1>5. \A i \in 1 .. n : \A x : HasPlace(x, t[i]) <=> HasPlace(x, s[i])
  BY <1>1 DEF Alike, HasPlace
<1>. HIDE DEF u, n, mask
<1>6. Alike(u, s)
  BY <1>1, <1>3 DEF Alike
<1>7. \A i \in 1 .. n : \A r \in 1 .. 4 :
        HasPlace(RegionFlags[r], s[i]) /\ HasPlace(mask, s[i]) => r = m
  BY DEF Unloaded, HasPlace, mask, n
<1>8. \A r \in 1 .. m : r = m \/ r \in 1 .. m - 1
  OBVIOUS
<1>9. \A r \in 1 .. m - 1 : r \in 1 .. m /\ r \in 1 .. 4 /\ r # m
  OBVIOUS
<1>10. ASSUME NEW i \in 1 .. n
       PROVE  u[i].base # NoBase <=> \E r \in 1 .. m : HasPlace(RegionFlags[r], s[i])
  <2>1. CASE HasPlace(mask, s[i])
    <3>1. u[i].base \in Nat
      BY <1>3, <1>5, <2>1
    <3>2. m \in 1 .. m
      OBVIOUS
    <3>. QED
      BY <2>1, <3>1, <3>2 DEF NoBase, mask
  <2>2. CASE ~HasPlace(mask, s[i])
    <3>1. u[i] = t[i]
      BY <1>3, <1>5, <2>2
    <3>2. t[i].base # NoBase <=> \E r \in 1 .. m - 1 : HasPlace(RegionFlags[r], s[i])
      BY DEF LoadedTo, n
    <3>. QED
      BY <1>8, <1>9, <2>2, <3>1, <3>2 DEF mask
  <2>. QED
    BY <2>1, <2>2
<1>11. ASSUME NEW r \in 1 .. m, NEW i \in 1 .. n, HasPlace(RegionFlags[r], s[i])
       PROVE  /\ u[i].base \in Nat /\ regions[r] <= u[i].base
              /\ u[i].base + u[i].size <= regions[r] + SectionSize(s, RegionFlags[r])
              /\ u[i].alignment > 1 => (u[i].base - regions[r]) % u[i].alignment = 0
  <2>1. CASE r = m
    BY <1>3, <1>4, <1>5, <1>11, <2>1 DEF mask
  <2>2. CASE r # m
    <3>1. r \in 1 .. m - 1 /\ r \in 1 .. 4
      BY <1>8, <1>9, <2>2
    <3>2. u[i] = t[i]
      BY <1>3, <1>5, <1>7, <1>11, <2>2, <3>1
    <3>. QED
      BY <1>11, <3>1, <3>2 DEF LoadedTo, n
  <2>. QED
    BY <2>1, <2>2
<1>12. ASSUME NEW r \in 1 .. m, NEW i \in 1 .. n, NEW j \in 1 .. n,
              HasPlace(RegionFlags[r], s[i]), HasPlace(RegionFlags[r], s[j]), i < j
       PROVE  u[i].base + u[i].size <= u[j].base
  <2>1. CASE r = m
    BY <1>3, <1>5, <1>12, <2>1 DEF mask
  <2>2. CASE r # m
    <3>1. r \in 1 .. m - 1 /\ r \in 1 .. 4
      BY <1>8, <1>9, <2>2
    <3>2. u[i] = t[i] /\ u[j] = t[j]
      BY <1>3, <1>5, <1>7, <1>12, <2>2, <3>1
    <3>. QED
      BY <1>12, <3>1, <3>2 DEF LoadedTo, n
  <2>. QED
    BY <2>1, <2>2
<1>. QED
  BY <1>6, <1>10, <1>11, <1>12 DEF LoadedTo, n, u, mask

LEMMA LoadRegions ==
  ASSUME NEW s, Unloaded(s), NEW regions \in [1 .. 4 -> Nat]
  PROVE  LoadedTo(LoadSections(s, regions), s, regions, 4)
<1>. DEFINE t1 == Placed(s, RegionFlags[1], regions[1])
            t2 == Placed(t1, RegionFlags[2], regions[2])
            t3 == Placed(t2, RegionFlags[3], regions[3])
<1>1. 1 - 1 = 0 /\ 2 - 1 = 1 /\ 3 - 1 = 2 /\ 4 - 1 = 3
  OBVIOUS
<1>2. 1 \in 1 .. 4 /\ 2 \in 1 .. 4 /\ 3 \in 1 .. 4 /\ 4 \in 1 .. 4
  OBVIOUS
<1>3. LoadedTo(s, s, regions, 0)
  <2>1. Alike(s, s)
    BY DEF Alike, Unloaded
  <2>2. \A i \in 1 .. Len(s) : s[i].base = NoBase
    BY DEF Unloaded
  <2>3. 1 .. 0 = {}
    OBVIOUS
  <2>. QED
    BY <2>1, <2>2, <2>3 DEF LoadedTo
<1>4. LoadedTo(t1, s, regions, 1)
  BY <1>1, <1>2, <1>3, LoadRegion
<1>5. LoadedTo(t2, s, regions, 2)
  <2>. HIDE DEF t1
  <2>. QED
    BY <1>1, <1>2, <1>4, LoadRegion DEF t2
<1>6. LoadedTo(t3, s, regions, 3)
  <2>. HIDE DEF t2
  <2>. QED
    BY <1>1, <1>2, <1>5, LoadRegion DEF t3
<1>7. LoadedTo(Placed(t3, RegionFlags[4], regions[4]), s, regions, 4)
  <2>. HIDE DEF t3
  <2>. QED
    BY <1>1, <1>2, <1>6, LoadRegion
<1>. QED
  BY <1>7 DEF LoadSections

\* What FirstOf takes is one of them, and the first.
LEMMA FirstIs ==
  ASSUME NEW K, K \subseteq Nat, K # {}, NEW sects
  PROVE  \E k \in K : FirstOf(sects, K) = sects[k] /\ \A j \in K : k <= j
<1>1. \E k \in K : \A j \in K : k <= j
  BY Smallest
<1>. DEFINE c == CHOOSE k \in K : \A j \in K : k <= j
<1>2. c \in K /\ \A j \in K : c <= j
  BY <1>1
<1>. QED
  BY <1>2 DEF FirstOf

\* A region has room for the sum of the sizes at least.
LEMMA RegionHolds ==
  ASSUME NEW s \in Seq(SectRec), NEW r \in 1 .. 4
  PROVE  /\ SectionSize(s, RegionFlags[r]) \in Nat /\ RegionSize(s, r) \in Nat
         /\ SectionSize(s, RegionFlags[r]) <= RegionSize(s, r)
<1>1. ASSUME NEW mask PROVE SectionAlignment(s, mask) \in Nat
  <2>. DEFINE kind == {k \in DOMAIN s : mask \in s[k].flags}
  <2>1. kind \subseteq 1 .. Len(s) /\ kind \subseteq Nat
    BY SectFields
  <2>2. SectionAlignment(s, mask) = IF kind = {} THEN 0 ELSE FirstOf(s, kind).alignment
    BY DEF SectionAlignment
  <2>. HIDE DEF kind
  <2>3. CASE kind # {}
    <3>1. PICK k \in kind : FirstOf(s, kind) = s[k]
      BY <2>1, <2>3, FirstIs
    <3>2. s[k].alignment \in Nat
      BY <2>1, SectFields
    <3>. QED
      BY <2>2, <2>3, <3>1, <3>2
  <2>. QED
    BY <2>2, <2>3
<1>2. \A mask : SectionSize(s, mask) \in Nat
  BY SizeFunction
<1>. DEFINE z == SizeAndAlignment(s)
<1>3. \A q \in 1 .. 4 : z[q][1] = SectionSize(s, RegionFlags[q])
                        /\ z[q][2] = SectionAlignment(s, RegionFlags[q])
  BY DEF SizeAndAlignment
<1>4. RegionSize(s, r) = z[r][1] + IF r = 4 THEN 0 ELSE z[r + 1][2]
  BY DEF RegionSize
<1>. HIDE DEF z
<1>5. z[r][1] = SectionSize(s, RegionFlags[r]) /\ z[r][1] \in Nat
  BY <1>2, <1>3
<1>6. r # 4 => z[r + 1][2] \in Nat
  BY <1>1, <1>3
<1>. QED
  BY <1>4, <1>5, <1>6

\* The region of a section that has one.
LEMMA RegionOf ==
  ASSUME NEW s, Unloaded(s), NEW t, Alike(t, s), NEW i \in 1 .. Len(s),
         NEW r \in 1 .. 4, RegionFlags[r] \in s[i].flags
  PROVE  InRegion(t[i]) = r
<1>1. t[i].flags = s[i].flags
  BY DEF Alike
<1>2. \A q \in 1 .. 4 : RegionFlags[q] \in s[i].flags => q = r
  BY DEF Unloaded
<1>. QED
  BY <1>1, <1>2 DEF InRegion

LEMMA RegionNames ==
  \A flags : flags \intersect Range(RegionFlags) # {} <=> \E r \in 1 .. 4 : RegionFlags[r] \in flags
<1>1. DOMAIN RegionFlags = 1 .. 4
  BY DEF RegionFlags
<1>. QED
  BY <1>1 DEF Range

\* Where the loaded sections are.
LEMMA Ordered ==
  ASSUME NEW a \in Int, NEW k \in Nat, NEW x \in Int, NEW y \in Int,
         NEW b \in Int, NEW l \in Nat, NEW v \in Int, NEW w \in Int,
         a <= x, x + y <= a + k, b <= v, v + w <= b + l, a + k <= b \/ b + l <= a
  PROVE  x + y <= v \/ v + w <= x
OBVIOUS

LEMMA LoadedPlaces ==
  ASSUME NEW s, Unloaded(s), Regions \in [1 .. 4 -> Nat], Apart(s)
  PROVE  LET t == LoadSections(s, Regions)
         IN  /\ Alike(t, s)
             /\ \A i \in 1 .. Len(s) :
                  t[i].base # NoBase <=> s[i].size # 0 /\ \E r \in 1 .. 4 : RegionFlags[r] \in s[i].flags
             /\ \A i \in 1 .. Len(s) : t[i].base # NoBase =>
                  /\ t[i].base \in Nat
                  /\ Regions[InRegion(t[i])] <= t[i].base
                  /\ t[i].base + t[i].size <= Regions[InRegion(t[i])] + RegionSize(s, InRegion(t[i]))
                  /\ t[i].alignment > 1 => (t[i].base - Regions[InRegion(t[i])]) % t[i].alignment = 0
             /\ \A i, j \in 1 .. Len(s) :
                  t[i].base # NoBase /\ t[j].base # NoBase /\ i # j =>
                    \/ t[i].base + t[i].size <= t[j].base
                    \/ t[j].base + t[j].size <= t[i].base
<1>. DEFINE n == Len(s)
            t == LoadSections(s, Regions)
<1>1. LoadedTo(t, s, Regions, 4)
  BY LoadRegions
<1>2. Alike(t, s) /\ s \in Seq(SectRec) /\ n \in Nat
  BY <1>1 DEF LoadedTo, Alike
<1>. HIDE DEF t
<1>3. \A i \in 1 .. n : t[i].base # NoBase <=> \E r \in 1 .. 4 : HasPlace(RegionFlags[r], s[i])
  BY <1>1 DEF LoadedTo
<1>4. \A i \in 1 .. n :
        t[i].base # NoBase <=> s[i].size # 0 /\ \E r \in 1 .. 4 : RegionFlags[r] \in s[i].flags
  BY <1>3 DEF HasPlace
<1>5. \A i \in 1 .. n : t[i].size = s[i].size /\ s[i].size \in Nat
  BY <1>2, SectFields DEF Alike
<1>6. \A r \in 1 .. 4 : Regions[r] \in Nat
  OBVIOUS
<1>7. ASSUME NEW i \in 1 .. n, t[i].base # NoBase
      PROVE  \E r \in 1 .. 4 :
               /\ InRegion(t[i]) = r /\ HasPlace(RegionFlags[r], s[i])
               /\ t[i].base \in Nat /\ Regions[r] <= t[i].base
               /\ t[i].base + t[i].size <= Regions[r] + RegionSize(s, r)
               /\ t[i].alignment > 1 => (t[i].base - Regions[r]) % t[i].alignment = 0
  <2>1. PICK r \in 1 .. 4 : HasPlace(RegionFlags[r], s[i])
    BY <1>3, <1>7
  <2>2. InRegion(t[i]) = r
    BY <1>2, <2>1, RegionOf DEF HasPlace
  <2>3. /\ t[i].base \in Nat /\ Regions[r] <= t[i].base
        /\ t[i].base + t[i].size <= Regions[r] + SectionSize(s, RegionFlags[r])
        /\ t[i].alignment > 1 => (t[i].base - Regions[r]) % t[i].alignment = 0
    BY <1>1, <2>1 DEF LoadedTo
  <2>4. /\ SectionSize(s, RegionFlags[r]) \in Nat /\ RegionSize(s, r) \in Nat
        /\ SectionSize(s, RegionFlags[r]) <= RegionSize(s, r)
    BY <1>2, RegionHolds
  <2>5. t[i].base + t[i].size <= Regions[r] + RegionSize(s, r)
    <3>1. t[i].base \in Nat /\ t[i].size \in Nat /\ Regions[r] \in Nat
      <4>1. t[i].base \in Nat
        BY <2>3
      <4>2. t[i].size \in Nat
        BY <1>5
      <4>3. Regions[r] \in Nat
        BY <1>6
      <4>. QED
        BY <4>1, <4>2, <4>3
    <3>. DEFINE k == SectionSize(s, RegionFlags[r])
                l == RegionSize(s, r)
                x == t[i].base
                z == t[i].size
                a == Regions[r]
    <3>2. k \in Int /\ l \in Int /\ k <= l /\ x + z <= a + k
      BY <2>3, <2>4
    <3>3. x \in Int /\ z \in Int /\ a \in Int
      BY <3>1
    <3>4. x + z <= a + l
      <4>. HIDE DEF k, l, x, z, a
      <4>. QED
        BY <3>2, <3>3
    <3>. QED
      BY <3>4
  <2>. QED
    BY <2>1, <2>2, <2>3, <2>5
<1>8. ASSUME NEW i \in 1 .. n, NEW j \in 1 .. n, t[i].base # NoBase, t[j].base # NoBase, i # j
      PROVE  \/ t[i].base + t[i].size <= t[j].base
             \/ t[j].base + t[j].size <= t[i].base
  <2>1. PICK r \in 1 .. 4 :
          /\ HasPlace(RegionFlags[r], s[i])
          /\ t[i].base \in Nat /\ Regions[r] <= t[i].base
          /\ t[i].base + t[i].size <= Regions[r] + RegionSize(s, r)
    BY <1>7, <1>8
  <2>2. PICK q \in 1 .. 4 :
          /\ HasPlace(RegionFlags[q], s[j])
          /\ t[j].base \in Nat /\ Regions[q] <= t[j].base
          /\ t[j].base + t[j].size <= Regions[q] + RegionSize(s, q)
    BY <1>7, <1>8
  <2>3. CASE r = q
    <3>1. i < j \/ j < i
      BY <1>8
    <3>2. HasPlace(RegionFlags[r], s[i]) /\ HasPlace(RegionFlags[r], s[j])
      BY <2>1, <2>2, <2>3
    <3>3. \A k, l \in 1 .. n :
            HasPlace(RegionFlags[r], s[k]) /\ HasPlace(RegionFlags[r], s[l]) /\ k < l =>
              t[k].base + t[k].size <= t[l].base
      BY <1>1 DEF LoadedTo
    <3>. QED
      BY <3>1, <3>2, <3>3
  <2>4. CASE r # q
    <3>1. \/ Regions[r] + RegionSize(s, r) <= Regions[q]
          \/ Regions[q] + RegionSize(s, q) <= Regions[r]
      BY <2>4 DEF Apart
    <3>2. RegionSize(s, r) \in Nat /\ RegionSize(s, q) \in Nat
      BY <1>2, RegionHolds
    <3>3. Regions[r] \in Int /\ Regions[q] \in Int /\ t[i].size \in Int /\ t[j].size \in Int
      <4>1. r \in 1 .. 4 /\ q \in 1 .. 4
        BY <2>1, <2>2
      <4>2. Regions[r] \in Int /\ Regions[q] \in Int
        BY <1>6, <4>1
      <4>3. t[i].size \in Int
        BY <1>5
      <4>4. t[j].size \in Int
        BY <1>5
      <4>. QED
        BY <4>2, <4>3, <4>4
    <3>4. t[i].base \in Int /\ t[j].base \in Int
      <4>1. t[i].base \in Nat /\ t[j].base \in Nat
        BY <2>1, <2>2
      <4>. QED
        BY <4>1
    <3>5. /\ Regions[r] <= t[i].base /\ t[i].base + t[i].size <= Regions[r] + RegionSize(s, r)
          /\ Regions[q] <= t[j].base /\ t[j].base + t[j].size <= Regions[q] + RegionSize(s, q)
      BY <2>1, <2>2
    <3>. QED
      BY <3>1, <3>2, <3>3, <3>4, <3>5, Ordered
  <2>. QED
    BY <2>3, <2>4
<1>9. \A i \in 1 .. n : t[i].base # NoBase =>
        /\ t[i].base \in Nat
        /\ Regions[InRegion(t[i])] <= t[i].base
        /\ t[i].base + t[i].size <= Regions[InRegion(t[i])] + RegionSize(s, InRegion(t[i]))
        /\ t[i].alignment > 1 => (t[i].base - Regions[InRegion(t[i])]) % t[i].alignment = 0
  BY <1>7
<1>. QED
  BY <1>2, <1>4, <1>8, <1>9 DEF t

LEMMA SectionsOfAnObjectFit ==
  ASSUME NEW s, Unloaded(s), Regions \in [1 .. 4 -> Nat], Apart(s)
  PROVE  Fits(s, Regions)
<1>. DEFINE n == Len(s)
            t == LoadSections(s, Regions)
<1>1. /\ Alike(t, s)
      /\ \A i \in 1 .. n :
           t[i].base # NoBase <=> s[i].size # 0 /\ \E r \in 1 .. 4 : RegionFlags[r] \in s[i].flags
      /\ \A i \in 1 .. n : t[i].base # NoBase =>
           /\ t[i].base \in Nat
           /\ Regions[InRegion(t[i])] <= t[i].base
           /\ t[i].base + t[i].size <= Regions[InRegion(t[i])] + RegionSize(s, InRegion(t[i]))
           /\ t[i].alignment > 1 => (t[i].base - Regions[InRegion(t[i])]) % t[i].alignment = 0
      /\ \A i, j \in 1 .. n :
           t[i].base # NoBase /\ t[j].base # NoBase /\ i # j =>
             \/ t[i].base + t[i].size <= t[j].base
             \/ t[j].base + t[j].size <= t[i].base
  BY LoadedPlaces
<1>. HIDE DEF t
<1>2. /\ t \in Seq(SectRec) /\ s \in Seq(SectRec) /\ Len(t) = n /\ n \in Nat /\ DOMAIN t = 1 .. n
      /\ \A i \in 1 .. n : /\ t[i].size = s[i].size /\ t[i].flags = s[i].flags /\ t[i].size \in Nat
  BY <1>1, SectFields DEF Alike
<1>. HIDE DEF n
<1>3. \A i \in DOMAIN t :
        t[i].base # NoBase <=> t[i].size > 0 /\ t[i].flags \intersect Range(RegionFlags) # {}
  <2>1. \A i \in 1 .. n : t[i].size > 0 <=> s[i].size # 0
    BY <1>2
  <2>. QED
    BY <1>1, <1>2, <2>1, RegionNames
<1>4. \A i : i \in Loaded(t) <=> i \in 1 .. n /\ t[i].base # NoBase
  BY <1>2 DEF Loaded
<1>5. \A i \in Loaded(t) :
        LET r == InRegion(t[i]) IN
        /\ t[i].base >= Regions[r]
        /\ t[i].base + t[i].size <= Regions[r] + RegionSize(s, r)
        /\ t[i].alignment > 1 => (t[i].base - Regions[r]) % t[i].alignment = 0
  BY <1>1, <1>4
<1>6. \A i, j \in Loaded(t) :
        i # j => \/ t[i].base + t[i].size <= t[j].base
                 \/ t[j].base + t[j].size <= t[i].base
  BY <1>1, <1>4
<1>. QED
  BY <1>3, <1>5, <1>6 DEF Fits, t

-----------------------------------------------------------------------------
(* The sections of a file.                                                 *)

LEMMA HeaderFields ==
  ASSUME NEW headers \in Seq(ElfHeader)
  PROVE  /\ Len(headers) \in Nat /\ DOMAIN headers = 1 .. Len(headers)
         /\ \A i \in 1 .. Len(headers) :
              /\ headers[i] \in ElfHeader /\ headers[i] \in Range(headers)
              /\ headers[i].type \in STRING /\ headers[i].flags \in SUBSET STRING
              /\ headers[i].name \in STRING /\ headers[i].size \in Nat
              /\ headers[i].offset \in Nat /\ headers[i].addralign \in Nat
              /\ headers[i].info \in Nat
<1>1. Len(headers) \in Nat /\ DOMAIN headers = 1 .. Len(headers)
  OBVIOUS
<1>2. \A i \in 1 .. Len(headers) : headers[i] \in ElfHeader
  OBVIOUS
<1>3. \A i \in 1 .. Len(headers) : headers[i] \in Range(headers)
  BY <1>1 DEF Range
<1>. QED
  BY <1>1, <1>2, <1>3 DEF ElfHeader

\* The flags are of one region at most, and tell a relocation section.
LEMMA FlagsOfAHeader ==
  ASSUME NEW type, NEW flags
  PROVE  /\ ElfFlags(type, flags) \in SUBSET Flags
         /\ \A r, q \in 1 .. 4 :
              RegionFlags[r] \in ElfFlags(type, flags) /\ RegionFlags[q] \in ElfFlags(type, flags) => r = q
         /\ {"CTOR", "DTOR"} \intersect ElfFlags(type, flags) = {}
         /\ {"REL", "RELA"} \intersect ElfFlags(type, flags) # {} => type \in {"REL", "RELA"}
<1>. DEFINE e == ElfFlags(type, flags)
<1>1. \/ e = {} \/ e = {"LOAD", "TEXT"} \/ e = {"LOAD", "DATA"} \/ e = {"LOAD", "CONST"}
      \/ e = {"BSS", "ZERO"} \/ (type \in {"REL", "RELA"} /\ e = {type}) \/ e = {"SYM"} \/ e = {"STR"}
  <2>1. CASE type = "PROGBITS" /\ "ALLOC" \in flags
    <3>1. e = {"LOAD", CASE "EXECINSTR" \in flags                       -> "TEXT"
                    [] "EXECINSTR" \notin flags /\ "WRITE" \in flags -> "DATA"
                    [] flags \intersect {"EXECINSTR", "WRITE"} = {}  -> "CONST"}
      BY <2>1 DEF ElfFlags
    <3>2. CASE "EXECINSTR" \in flags
      BY <3>1, <3>2
    <3>3. CASE "EXECINSTR" \notin flags /\ "WRITE" \in flags
      BY <3>1, <3>3
    <3>4. CASE "EXECINSTR" \notin flags /\ "WRITE" \notin flags
      <4>1. flags \intersect {"EXECINSTR", "WRITE"} = {}
        BY <3>4
      <4>. QED
        BY <3>1, <3>4, <4>1
    <3>. QED
      BY <3>2, <3>3, <3>4
  <2>2. CASE type = "NOBITS" /\ {"ALLOC", "WRITE"} \subseteq flags
    BY <2>2 DEF ElfFlags
  <2>3. CASE type \in {"REL", "RELA"}
    BY <2>3 DEF ElfFlags
  <2>4. CASE type = "SYMTAB"
    BY <2>4 DEF ElfFlags
  <2>5. CASE type = "STRTAB"
    BY <2>5 DEF ElfFlags
  <2>6. CASE /\ ~(type = "PROGBITS" /\ "ALLOC" \in flags)
             /\ ~(type = "NOBITS" /\ {"ALLOC", "WRITE"} \subseteq flags)
             /\ type \notin {"REL", "RELA"} /\ type # "SYMTAB" /\ type # "STRTAB"
    BY <2>6 DEF ElfFlags
  <2>. QED
    BY <2>1, <2>2, <2>3, <2>4, <2>5, <2>6
<1>. HIDE DEF e
<1>2. \A r \in 1 .. 4 : /\ RegionFlags[r] = "TEXT" <=> r = 1
                        /\ RegionFlags[r] = "CONST" <=> r = 2
                        /\ RegionFlags[r] = "DATA" <=> r = 3
                        /\ RegionFlags[r] = "BSS" <=> r = 4
                        /\ RegionFlags[r] \in {"TEXT", "CONST", "DATA", "BSS"}
  BY DEF RegionFlags
<1>3. e \in SUBSET Flags
  BY <1>1 DEF Flags
<1>4. \A r, q \in 1 .. 4 : RegionFlags[r] \in e /\ RegionFlags[q] \in e => r = q
  BY <1>1, <1>2
<1>5. {"CTOR", "DTOR"} \intersect e = {}
  BY <1>1
<1>6. {"REL", "RELA"} \intersect e # {} => type \in {"REL", "RELA"}
  BY <1>1
<1>. QED
  BY <1>3, <1>4, <1>5, <1>6 DEF e

\* What is kept of the first k headers.
KeptOf(e, headers, k) ==
  /\ e \in Seq(SectRec)
  /\ \A i \in 1 .. Len(e) : \E h \in 1 .. k : Kept(headers[h]) /\ e[i] = ElfSect(headers, h)
  /\ \A h \in 1 .. k : Kept(headers[h]) => \E i \in 1 .. Len(e) : e[i] = ElfSect(headers, h)
  /\ \A i, j \in 1 .. Len(e) : i < j => e[i].section < e[j].section

LEMMA SectOfAHeader ==
  ASSUME NEW headers \in Seq(ElfHeader), NEW h \in 1 .. Len(headers)
  PROVE  ElfSect(headers, h) \in SectRec /\ ElfSect(headers, h).section = h - 1
<1>1. /\ h - 1 \in Nat /\ headers[h].name \in STRING /\ headers[h].size \in Nat
      /\ headers[h].offset \in Nat /\ headers[h].addralign \in Nat /\ headers[h].info \in Nat
  BY HeaderFields
<1>2. ElfFlags(headers[h].type, headers[h].flags) \union CdtorFlags(headers[h].name) \in SUBSET Flags
  <2>1. CdtorFlags(headers[h].name) \in SUBSET Flags
    BY DEF CdtorFlags, Flags
  <2>. QED
    BY <2>1, FlagsOfAHeader
<1>. QED
  BY <1>1, <1>2 DEF ElfSect, Sect, SectRec, NoBase

LEMMA KeepNext ==
  ASSUME NEW headers \in Seq(ElfHeader), NEW k \in 1 .. Len(headers),
         NEW e, KeptOf(e, headers, k - 1)
  PROVE  KeptOf(IF Kept(headers[k]) THEN Append(e, ElfSect(headers, k)) ELSE e, headers, k)
<1>. DEFINE x == ElfSect(headers, k)
<1>1. e \in Seq(SectRec) /\ Len(e) \in Nat
  BY DEF KeptOf
<1>2. k - 1 \in Nat /\ \A h \in 1 .. k - 1 : h \in 1 .. k /\ h \in 1 .. Len(headers)
  BY HeaderFields
<1>3. \A h \in 1 .. k : h = k \/ h \in 1 .. k - 1
  OBVIOUS
<1>4. CASE Kept(headers[k])
  <2>. DEFINE g == Append(e, x)
              n == Len(e)
  <2>1. x \in SectRec /\ x.section = k - 1
    BY SectOfAHeader
  <2>. HIDE DEF x
  <2>2. /\ g \in Seq(SectRec) /\ Len(g) = n + 1 /\ g[n + 1] = x
        /\ \A i \in 1 .. n : g[i] = e[i]
    BY <1>1, <2>1
  <2>. HIDE DEF g, n
  <2>3. n \in Nat /\ \A i \in 1 .. n + 1 : i = n + 1 \/ i \in 1 .. n
    BY <1>1 DEF n
  <2>4. \A i \in 1 .. n : \E h \in 1 .. k - 1 : Kept(headers[h]) /\ e[i] = ElfSect(headers, h)
    BY DEF KeptOf, n
  <2>5. \A i \in 1 .. Len(g) : \E h \in 1 .. k : Kept(headers[h]) /\ g[i] = ElfSect(headers, h)
    <3>1. ASSUME NEW i \in 1 .. n PROVE \E h \in 1 .. k : Kept(headers[h]) /\ g[i] = ElfSect(headers, h)
      BY <1>2, <2>2, <2>4
    <3>2. k \in 1 .. k
      OBVIOUS
    <3>. QED
      BY <1>4, <2>2, <2>3, <3>1, <3>2 DEF x
  <2>6. \A h \in 1 .. k : Kept(headers[h]) => \E i \in 1 .. Len(g) : g[i] = ElfSect(headers, h)
    <3>1. ASSUME NEW h \in 1 .. k - 1, Kept(headers[h])
          PROVE  \E i \in 1 .. Len(g) : g[i] = ElfSect(headers, h)
      <4>1. PICK i \in 1 .. n : e[i] = ElfSect(headers, h)
        BY <3>1 DEF KeptOf, n
      <4>2. i \in 1 .. Len(g) /\ g[i] = e[i]
        BY <2>2, <2>3
      <4>. QED
        BY <4>1, <4>2
    <3>2. n + 1 \in 1 .. Len(g)
      BY <2>2, <2>3
    <3>. QED
      BY <1>3, <2>2, <3>1, <3>2 DEF x
  <2>7. ASSUME NEW i \in 1 .. Len(g), NEW j \in 1 .. Len(g), i < j
        PROVE  g[i].section < g[j].section
    <3>1. i \in 1 .. n
      BY <2>2, <2>3, <2>7
    <3>2. CASE j \in 1 .. n
      BY <2>2, <2>7, <3>1, <3>2 DEF KeptOf, n
    <3>3. CASE j = n + 1
      <4>1. PICK h \in 1 .. k - 1 : g[i] = ElfSect(headers, h)
        BY <2>2, <2>4, <3>1
      <4>2. g[i].section = h - 1 /\ g[j].section = k - 1
        BY <1>2, <2>1, <2>2, <3>3, <4>1, SectOfAHeader
      <4>. QED
        BY <4>2
    <3>. QED
      BY <2>2, <2>3, <3>2, <3>3
  <2>. QED
    BY <1>4, <2>2, <2>5, <2>6, <2>7 DEF KeptOf, g, x
<1>5. CASE ~Kept(headers[k])
  <2>1. \A i \in 1 .. Len(e) : \E h \in 1 .. k : Kept(headers[h]) /\ e[i] = ElfSect(headers, h)
    BY <1>2 DEF KeptOf
  <2>2. \A h \in 1 .. k : Kept(headers[h]) => \E i \in 1 .. Len(e) : e[i] = ElfSect(headers, h)
    BY <1>3, <1>5 DEF KeptOf
  <2>. QED
    BY <1>5, <2>1, <2>2 DEF KeptOf
<1>. QED
  BY <1>4, <1>5

LEMMA KeptSections ==
  ASSUME NEW headers \in Seq(ElfHeader)
  PROVE  KeptOf(ElfSections(headers), headers, Len(headers))
<1>. DEFINE n == Len(headers)
            S == Seq(SectRec)
            F == [p \in (1 .. n) \X S |->
                    IF Kept(headers[p[1]]) THEN Append(p[2], ElfSect(headers, p[1])) ELSE p[2]]
            E(f) == f = [i \in 0 .. n |->
                           IF i = 0 THEN <<>>
                           ELSE IF Kept(headers[i]) THEN Append(f[i - 1], ElfSect(headers, i))
                           ELSE f[i - 1]]
<1>1. n \in Nat
  OBVIOUS
<1>2. F \in [(1 .. n) \X S -> S]
  <2>1. ASSUME NEW p \in (1 .. n) \X S
        PROVE  (IF Kept(headers[p[1]]) THEN Append(p[2], ElfSect(headers, p[1])) ELSE p[2]) \in S
    <3>1. p[1] \in 1 .. n /\ p[2] \in Seq(SectRec)
      OBVIOUS
    <3>2. ElfSect(headers, p[1]) \in SectRec
      BY <3>1, SectOfAHeader
    <3>3. Append(p[2], ElfSect(headers, p[1])) \in Seq(SectRec)
      BY <3>1, <3>2
    <3>. QED
      BY <3>1, <3>3
  <2>. HIDE DEF S
  <2>. QED
    BY <2>1
<1>3. <<>> \in S
  OBVIOUS
<1>. HIDE DEF n, S, F
<1>4. PICK g \in [0 .. n -> S] : Recursive(g, n, <<>>, F, S)
  BY <1>1, <1>2, <1>3, RecursiveFunction
<1>5. \A i \in 1 .. n : g[i - 1] \in S /\ F[<<i, g[i - 1]>>] = g[i]
  BY <1>4 DEF Recursive
<1>6. \A i \in 1 .. n : g[i] = IF Kept(headers[i]) THEN Append(g[i - 1], ElfSect(headers, i))
                               ELSE g[i - 1]
  BY <1>5 DEF F
<1>7. E(g)
  <2>1. \A i \in 0 .. n : i # 0 => i \in 1 .. n
    BY <1>1
  <2>2. \A i \in 0 .. n : g[i] = IF i = 0 THEN <<>>
                           ELSE IF Kept(headers[i]) THEN Append(g[i - 1], ElfSect(headers, i))
                           ELSE g[i - 1]
    BY <1>4, <1>6, <2>1 DEF Recursive
  <2>3. g = [i \in 0 .. n |-> g[i]]
    OBVIOUS
  <2>. QED
    BY <2>2, <2>3
<1>8. E(CHOOSE f : E(f))
  BY <1>7
<1>. DEFINE c == CHOOSE f : E(f)
<1>9. ElfSections(headers) = c[n]
  BY DEF ElfSections, n
<1>. HIDE DEF c
<1>10. /\ c[0] = <<>>
       /\ \A i \in 1 .. n : c[i] = IF Kept(headers[i]) THEN Append(c[i - 1], ElfSect(headers, i))
                                   ELSE c[i - 1]
  <2>1. c = [i \in 0 .. n |->
               IF i = 0 THEN <<>>
               ELSE IF Kept(headers[i]) THEN Append(c[i - 1], ElfSect(headers, i))
               ELSE c[i - 1]]
    BY <1>8 DEF c
  <2>2. 0 \in 0 .. n /\ \A i \in 1 .. n : i \in 0 .. n /\ i # 0
    BY <1>1
  <2>. HIDE DEF c
  <2>. QED
    BY <2>1, <2>2
<1>. DEFINE G == {k \in 0 .. n : KeptOf(c[k], headers, k)}
<1>11. 0 \in G
  <2>1. KeptOf(<<>>, headers, 0)
    <3>1. <<>> \in Seq(SectRec) /\ Len(<<>>) = 0
      OBVIOUS
    <3>2. 1 .. 0 = {}
      OBVIOUS
    <3>. QED
      BY <3>1, <3>2 DEF KeptOf
  <2>. QED
    BY <1>1, <1>10, <2>1
<1>12. ASSUME NEW k \in 1 .. n, k - 1 \in G PROVE k \in G
  <2>1. KeptOf(c[k - 1], headers, k - 1) /\ k \in 0 .. n
    BY <1>1, <1>12
  <2>2. k \in 1 .. Len(headers)
    BY DEF n
  <2>3. KeptOf(IF Kept(headers[k]) THEN Append(c[k - 1], ElfSect(headers, k)) ELSE c[k - 1], headers, k)
    BY <2>1, <2>2, KeepNext
  <2>. QED
    BY <1>10, <2>1, <2>3
<1>. HIDE DEF G
<1>13. n \in G
  <2>1. \A k \in 0 .. n : k \in G
    BY <1>1, <1>11, <1>12, Induction
  <2>. QED
    BY <1>1, <2>1
<1>. QED
  BY <1>9, <1>13 DEF G, n

LEMMA FunctionIsSeq ==
  ASSUME NEW n \in Nat, NEW S, NEW f \in [1 .. n -> S]
  PROVE  f \in Seq(S) /\ Len(f) = n
OBVIOUS

LEMMA ElfUnloaded ==
  ASSUME NEW headers, WellFormed(headers)
  PROVE  Unloaded(ElfSections(headers))
<1>. DEFINE s == ElfSections(headers)
<1>1. headers \in Seq(ElfHeader)
  BY DEF WellFormed
<1>2. KeptOf(s, headers, Len(headers))
  BY <1>1, KeptSections
<1>. HIDE DEF s
<1>3. s \in Seq(SectRec)
  BY <1>2 DEF KeptOf
<1>4. ASSUME NEW i \in 1 .. Len(s)
      PROVE  /\ s[i].base = NoBase
             /\ \A r, q \in 1 .. 4 :
                  RegionFlags[r] \in s[i].flags /\ RegionFlags[q] \in s[i].flags => r = q
  <2>1. PICK h \in 1 .. Len(headers) : s[i] = ElfSect(headers, h)
    BY <1>2 DEF KeptOf
  <2>. DEFINE e == ElfFlags(headers[h].type, headers[h].flags)
              c == CdtorFlags(headers[h].name)
  <2>2. s[i].base = NoBase /\ s[i].flags = e \union c
    BY <2>1 DEF ElfSect, Sect
  <2>3. c \subseteq {"CTOR", "DTOR"}
    BY DEF CdtorFlags
  <2>4. \A r, q \in 1 .. 4 : RegionFlags[r] \in e /\ RegionFlags[q] \in e => r = q
    BY FlagsOfAHeader
  <2>5. \A r \in 1 .. 4 : RegionFlags[r] \notin {"CTOR", "DTOR"}
    BY DEF RegionFlags
  <2>. HIDE DEF e, c
  <2>6. \A r \in 1 .. 4 : RegionFlags[r] \in s[i].flags <=> RegionFlags[r] \in e
    BY <2>2, <2>3, <2>5
  <2>. QED
    BY <2>2, <2>4, <2>6
<1>. QED
  BY <1>3, <1>4 DEF Unloaded, s

LEMMA RapUnloaded ==
  ASSUME NEW secs, \A i \in 1 .. 6 : secs[i].size \in Nat /\ secs[i].alignment \in Nat
  PROVE  Unloaded(RapSections(secs))
<1>. DEFINE s == RapSections(secs)
<1>1. /\ DOMAIN RapNames = 1 .. 6
      /\ \A i \in 1 .. 6 : RapFlags[i] \in SUBSET Flags
  BY DEF RapNames, RapFlags, Flags
<1>2. \A i \in 1 .. 6 : RapNames[i] \in STRING \union Range(RapNames)
  BY <1>1 DEF Range
<1>3. s = [i \in 1 .. 6 |-> Sect(i - 1, RapNames[i], secs[i].size, 0, secs[i].alignment, 0,
                                 RapFlags[i])]
  BY DEF RapSections
<1>. HIDE DEF s
<1>4. ASSUME NEW i \in 1 .. 6
      PROVE  s[i] \in SectRec /\ s[i].base = NoBase /\ s[i].flags = RapFlags[i]
  <2>1. i - 1 \in Nat
    OBVIOUS
  <2>2. s[i] = Sect(i - 1, RapNames[i], secs[i].size, 0, secs[i].alignment, 0, RapFlags[i])
    BY <1>3
  <2>. QED
    BY <1>1, <1>2, <2>1, <2>2 DEF Sect, SectRec, NoBase
<1>5. s \in Seq(SectRec) /\ Len(s) = 6
  <2>1. s \in [1 .. 6 -> SectRec]
    BY <1>3, <1>4
  <2>2. Len(s) = 6
    BY <2>1
  <2>3. s \in Seq(SectRec)
    BY <2>1, FunctionIsSeq
  <2>. QED
    BY <2>2, <2>3
<1>6. ASSUME NEW i \in 1 .. 6
      PROVE  /\ \A r, q \in 1 .. 4 :
                  RegionFlags[r] \in RapFlags[i] /\ RegionFlags[q] \in RapFlags[i] => r = q
  <2>1. /\ RegionFlags[1] = "TEXT" /\ RegionFlags[2] = "CONST" /\ RegionFlags[3] = "DATA"
        /\ RegionFlags[4] = "BSS"
    BY DEF RegionFlags
  <2>2. \A r \in 1 .. 4 : r = 1 \/ r = 2 \/ r = 3 \/ r = 4
    OBVIOUS
  <2>3. \A f : f = RapFlags[i] => \/ f = {"TEXT", "LOAD"} \/ f = {"CONST", "LOAD"}
                                  \/ f = {"CONST", "LOAD", "CTOR"} \/ f = {"CONST", "LOAD", "DTOR"}
                                  \/ f = {"DATA", "LOAD"} \/ f = {"BSS", "ZERO"}
    BY DEF RapFlags
  <2>4. \E r \in 1 .. 4 : \A q \in 1 .. 4 : RegionFlags[q] \in RapFlags[i] <=> q = r
    <3>1. CASE \E x \in {"TEXT"} : x \in RapFlags[i]
      <4>1. \A q \in 1 .. 4 : RegionFlags[q] \in RapFlags[i] <=> q = 1
        BY <2>1, <2>2, <2>3, <3>1
      <4>. QED
        BY <4>1
    <3>2. CASE \E x \in {"CONST"} : x \in RapFlags[i]
      <4>1. \A q \in 1 .. 4 : RegionFlags[q] \in RapFlags[i] <=> q = 2
        BY <2>1, <2>2, <2>3, <3>2
      <4>. QED
        BY <4>1
    <3>3. CASE \E x \in {"DATA"} : x \in RapFlags[i]
      <4>1. \A q \in 1 .. 4 : RegionFlags[q] \in RapFlags[i] <=> q = 3
        BY <2>1, <2>2, <2>3, <3>3
      <4>. QED
        BY <4>1
    <3>4. CASE \E x \in {"BSS"} : x \in RapFlags[i]
      <4>1. \A q \in 1 .. 4 : RegionFlags[q] \in RapFlags[i] <=> q = 4
        BY <2>1, <2>2, <2>3, <3>4
      <4>. QED
        BY <4>1
    <3>. QED
      BY <2>3, <3>1, <3>2, <3>3, <3>4
  <2>. QED
    BY <2>4
<1>7. Unloaded(s)
  <2>1. \A i \in 1 .. Len(s) : i \in 1 .. 6
    BY <1>5
  <2>2. ASSUME NEW i \in 1 .. Len(s)
        PROVE  /\ s[i].base = NoBase
               /\ \A r, q \in 1 .. 4 :
                    RegionFlags[r] \in s[i].flags /\ RegionFlags[q] \in s[i].flags => r = q
    <3>1. s[i].base = NoBase /\ s[i].flags = RapFlags[i]
      BY <1>4, <2>1
    <3>. QED
      BY <1>6, <2>1, <3>1
  <2>. QED
    BY <1>5, <2>2 DEF Unloaded
<1>. QED
  BY <1>7 DEF s

\* What is found by its number in the file.
LEMMA FoundByNumber ==
  ASSUME NEW headers, WellFormed(headers), NEW t, Alike(t, ElfSections(headers)),
         NEW h \in 1 .. Len(headers), Kept(headers[h])
  PROVE  \E k \in 1 .. Len(t) :
           /\ FindSectionByIndex(t, h - 1) = t[k]
           /\ t[k].name = headers[h].name /\ t[k].size = headers[h].size
           /\ t[k].offset = headers[h].offset
<1>. DEFINE e == ElfSections(headers)
            K == {k \in DOMAIN t : t[k].section = h - 1}
<1>1. headers \in Seq(ElfHeader)
  BY DEF WellFormed
<1>2. KeptOf(e, headers, Len(headers))
  BY <1>1, KeptSections
<1>3. PICK i \in 1 .. Len(e) : e[i] = ElfSect(headers, h)
  BY <1>2 DEF KeptOf
<1>4. e[i].section = h - 1
  BY <1>1, <1>3, SectOfAHeader
<1>. HIDE DEF e
<1>5. /\ t \in Seq(SectRec) /\ e \in Seq(SectRec) /\ Len(t) = Len(e)
      /\ \A k \in 1 .. Len(t) :
           /\ t[k].section = e[k].section /\ t[k].name = e[k].name /\ t[k].size = e[k].size
           /\ t[k].offset = e[k].offset
  BY DEF Alike, e
<1>6. DOMAIN t = 1 .. Len(t) /\ Len(t) \in Nat /\ \A k \in 1 .. Len(t) : e[k].section \in Nat
  BY <1>5, SectFields
<1>7. i \in K
  BY <1>3, <1>4, <1>5, <1>6
<1>8. \A k \in K : k = i
  <2>1. \A k \in K : k \in 1 .. Len(e) /\ e[k].section = e[i].section /\ e[k].section \in Nat
    BY <1>4, <1>5, <1>6
  <2>2. \A k \in 1 .. Len(e) : k = i \/ k < i \/ i < k
    BY <1>3
  <2>3. \A k, l \in 1 .. Len(e) : k < l => e[k].section < e[l].section
    BY <1>2 DEF KeptOf
  <2>. QED
    BY <1>3, <2>1, <2>2, <2>3
<1>9. K = {i} /\ K \subseteq Nat
  BY <1>6, <1>7, <1>8
<1>10. FindSectionByIndex(t, h - 1) = FirstOf(t, K)
  BY DEF FindSectionByIndex
<1>. HIDE DEF K
<1>11. FirstOf(t, K) = t[i]
  BY <1>9, FirstIs
<1>12. /\ e[i].name = headers[h].name /\ e[i].size = headers[h].size
       /\ e[i].offset = headers[h].offset
  BY <1>3 DEF ElfSect, Sect
<1>. QED
  BY <1>3, <1>5, <1>10, <1>11, <1>12

LEMMA Inside ==
  ASSUME NEW x \in Nat, NEW y \in Nat, NEW v \in Nat, v < y
  PROVE  x + v < x + y
OBVIOUS

LEMMA Disjoint ==
  ASSUME NEW x \in Nat, NEW y \in Nat, NEW v \in Nat, NEW w \in Nat, NEW a \in Nat,
         x <= a, a < x + y, v <= a, a < v + w, x + y <= v \/ v + w <= x
  PROVE  FALSE
OBVIOUS

\* An address inside of a loaded section is that of one byte of the file.
BytesFound(s, t, from) ==
  \A k \in 1 .. Len(s) : \A v \in Nat :
    v < s[k].size /\ t[k].base # NoBase /\ "LOAD" \in s[k].flags =>
      FileBytes(t, from, t[k].base + v) = {from + s[k].offset + v}

LEMMA Onward ==
  ASSUME NEW x \in Nat, NEW y \in Nat, NEW z, z = x + y
  PROVE  z \in Nat /\ x <= z /\ z - x = y
OBVIOUS

LEMMA ByteOfTheFile ==
  ASSUME NEW s, Unloaded(s), Regions \in [1 .. 4 -> Nat], Apart(s),
         NEW from \in Nat
  PROVE  BytesFound(s, LoadSections(s, Regions), from)
<1>. SUFFICES ASSUME NEW k \in 1 .. Len(s), NEW v \in Nat, v < s[k].size,
                     LoadSections(s, Regions)[k].base # NoBase, "LOAD" \in s[k].flags
              PROVE  FileBytes(LoadSections(s, Regions), from, LoadSections(s, Regions)[k].base + v)
                       = {from + s[k].offset + v}
  BY DEF BytesFound
<1>. DEFINE n == Len(s)
            t == LoadSections(s, Regions)
            a == t[k].base + v
            T == {u \in Range(t) : /\ u.base # NoBase /\ "LOAD" \in u.flags
                                   /\ u.base <= a /\ a < u.base + u.size}
<1>1. /\ Alike(t, s)
      /\ \A i \in 1 .. n : t[i].base # NoBase => t[i].base \in Nat
      /\ \A i, j \in 1 .. n :
           t[i].base # NoBase /\ t[j].base # NoBase /\ i # j =>
             \/ t[i].base + t[i].size <= t[j].base
             \/ t[j].base + t[j].size <= t[i].base
  BY LoadedPlaces
<1>2. t[k].base # NoBase
  OBVIOUS
<1>. HIDE DEF t
<1>3. /\ t \in Seq(SectRec) /\ Len(t) = n /\ DOMAIN t = 1 .. n
      /\ t[k].size = s[k].size /\ t[k].flags = s[k].flags /\ t[k].offset = s[k].offset
      /\ t[k].offset \in Nat
      /\ \A i \in 1 .. n : t[i].size \in Nat
  BY <1>1, SectFields DEF Alike
<1>4. t[k].base \in Nat
  BY <1>1, <1>2
<1>5. a = t[k].base + v
  OBVIOUS
<1>. HIDE DEF n, a
<1>6. t[k].base # NoBase /\ t[k].base \in Nat /\ a \in Nat
  BY <1>2, <1>4, <1>5, Onward
<1>7. t[k].base <= a /\ a < t[k].base + t[k].size /\ k \in 1 .. n
  <2>1. k \in 1 .. n
    BY DEF n
  <2>2. v < t[k].size /\ t[k].size \in Nat
    BY <1>3, <2>1
  <2>3. a = t[k].base + v
    BY <1>5
  <2>4. t[k].base <= a
    BY <1>4, <1>5, Onward
  <2>5. a < t[k].base + t[k].size
    BY <1>6, <2>2, <2>3, Inside
  <2>. QED
    BY <2>1, <2>4, <2>5
<1>8. t[k] \in T
  BY <1>3, <1>6, <1>7 DEF Range
<1>9. ASSUME NEW u \in T PROVE u = t[k]
  <2>1. PICK i \in 1 .. n : u = t[i]
    BY <1>3 DEF Range
  <2>2. t[i].base # NoBase /\ t[i].base <= a /\ a < t[i].base + t[i].size
    BY <2>1
  <2>3. t[i].base \in Nat /\ t[i].size \in Nat
    BY <1>1, <1>3, <2>2
  <2>4. i = k
    <3>1. SUFFICES ASSUME i # k PROVE FALSE
      OBVIOUS
    <3>2. \/ t[i].base + t[i].size <= t[k].base
          \/ t[k].base + t[k].size <= t[i].base
      BY <1>1, <1>6, <1>7, <2>2, <3>1
    <3>3. t[k].size \in Nat
      BY <1>3, <1>7
    <3>. QED
      BY <1>6, <1>7, <2>2, <2>3, <3>2, <3>3, Disjoint
  <2>. QED
    BY <2>1, <2>4
<1>10. T = {t[k]}
  BY <1>8, <1>9
<1>11. FileBytes(t, from, a) = {from + u.offset + (a - u.base) : u \in T}
  BY DEF FileBytes
<1>. HIDE DEF T
<1>12. FileBytes(t, from, a) = {from + t[k].offset + (a - t[k].base)}
  BY <1>10, <1>11
<1>13. a - t[k].base = v
  BY <1>4, <1>5, Onward
<1>. QED
  BY <1>3, <1>12, <1>13 DEF t, a

LEMMA SectionsAreFoundAgain ==
  ASSUME NEW headers, WellFormed(headers), Regions \in [1 .. 4 -> Nat],
         Apart(ElfSections(headers)), NEW from \in Nat
  PROVE  FoundAgain(headers, Regions, from)
<1>. DEFINE e == ElfSections(headers)
            s == LoadSections(e, Regions)
<1>1. headers \in Seq(ElfHeader) /\ Len(headers) \in Nat
  BY DEF WellFormed
<1>2. KeptOf(e, headers, Len(headers)) /\ Unloaded(e)
  BY <1>1, KeptSections, ElfUnloaded
<1>3. Alike(s, e)
  BY <1>2, LoadedPlaces
<1>4. BytesFound(e, s, from)
  <2>1. Unloaded(e) /\ Apart(e)
    BY <1>2
  <2>. HIDE DEF e
  <2>. QED
    BY <2>1, ByteOfTheFile
<1>5. \A g \in 1 .. Len(headers) : Kept(headers[g]) =>
        \E k \in 1 .. Len(s) :
          /\ FindSectionByIndex(s, g - 1) = s[k]
          /\ s[k].name = headers[g].name /\ s[k].size = headers[g].size
          /\ s[k].offset = headers[g].offset
  <2>. HIDE DEF s
  <2>. QED
    BY <1>3, FoundByNumber
<1>6. ASSUME NEW rel \in Handled(s, {"REL", "RELA"}),
             headers[rel.info + 1].size > 0, Kept(headers[rel.info + 1])
      PROVE  LET h == headers[rel.info + 1]
                 t == TargetOf(s, rel)
             IN  /\ t.name = h.name /\ t.size = h.size
                 /\ "LOAD" \in t.flags /\ t.base # NoBase =>
                      \A v \in 0 .. h.size - 1 :
                        FileBytes(s, from, ValueIn(s, rel.info, v)) = {from + h.offset + v}
  <2>. DEFINE i == rel.info + 1
              h == headers[i]
  <2>1. i \in 1 .. Len(headers) /\ rel.info = i - 1
    <3>1. PICK j \in 1 .. Len(s) : rel = s[j] /\ rel.flags \intersect {"REL", "RELA"} # {}
      <4>1. DOMAIN s = 1 .. Len(s)
        BY <1>3, SectFields DEF Alike
      <4>. HIDE DEF s
      <4>. QED
        BY <4>1 DEF Handled, Range
    <3>2. j \in 1 .. Len(e) /\ s[j].flags = e[j].flags /\ s[j].info = e[j].info
      BY <1>3, <3>1 DEF Alike
    <3>3. PICK g \in 1 .. Len(headers) : e[j] = ElfSect(headers, g)
      BY <1>2, <3>2 DEF KeptOf
    <3>4. e[j].info = headers[g].info
          /\ e[j].flags = ElfFlags(headers[g].type, headers[g].flags) \union CdtorFlags(headers[g].name)
      BY <3>3 DEF ElfSect, Sect
    <3>5. CdtorFlags(headers[g].name) \intersect {"REL", "RELA"} = {}
      BY DEF CdtorFlags
    <3>6. {"REL", "RELA"} \intersect ElfFlags(headers[g].type, headers[g].flags) # {}
      BY <3>1, <3>2, <3>4, <3>5
    <3>7. headers[g].type \in {"REL", "RELA"}
      BY <3>6, FlagsOfAHeader
    <3>8. headers[g] \in Range(headers) /\ headers[g].info \in Nat
      BY <1>1, HeaderFields
    <3>9. headers[g].info < Len(headers)
      BY <3>7, <3>8 DEF WellFormed
    <3>10. rel.info = headers[g].info
      BY <3>1, <3>2, <3>4
    <3>. DEFINE z == rel.info
    <3>11. z \in Nat /\ z < Len(headers)
      BY <3>8, <3>9, <3>10
    <3>. HIDE DEF s, e, z
    <3>12. z + 1 \in 1 .. Len(headers) /\ z = (z + 1) - 1
      BY <1>1, <3>11
    <3>. QED
      BY <3>12 DEF z
  <2>2. PICK k \in 1 .. Len(s) :
          /\ FindSectionByIndex(s, i - 1) = s[k]
          /\ s[k].name = h.name /\ s[k].size = h.size /\ s[k].offset = h.offset
    <3>1. Kept(headers[i])
      BY <1>6
    <3>2. ASSUME NEW g \in 1 .. Len(headers), Kept(headers[g])
          PROVE  \E k \in 1 .. Len(s) :
                   /\ FindSectionByIndex(s, g - 1) = s[k]
                   /\ s[k].name = headers[g].name /\ s[k].size = headers[g].size
                   /\ s[k].offset = headers[g].offset
      <4>. HIDE DEF s
      <4>. QED
        BY <1>5, <3>2
    <3>. HIDE DEF s, i
    <3>. QED
      BY <2>1, <3>1, <3>2
  <2>3. TargetOf(s, rel) = s[k] /\ \A v : ValueIn(s, rel.info, v) = s[k].base + v
    BY <2>1, <2>2 DEF TargetOf, ValueIn
  <2>4. k \in 1 .. Len(e) /\ e[k].size = h.size /\ e[k].offset = h.offset /\ e[k].flags = s[k].flags
    BY <1>3, <2>2 DEF Alike
  <2>5. ASSUME "LOAD" \in s[k].flags, s[k].base # NoBase, NEW v \in 0 .. h.size - 1
        PROVE  FileBytes(s, from, ValueIn(s, rel.info, v)) = {from + h.offset + v}
    <3>1. h.size \in Nat
      BY <1>1, <2>1, HeaderFields
    <3>2. v \in Nat /\ v < e[k].size
      <4>. DEFINE z == h.size
      <4>1. z \in Nat /\ v \in 0 .. z - 1 /\ e[k].size = z
        BY <2>4, <3>1
      <4>. HIDE DEF z
      <4>2. v \in Nat /\ v < z
        BY <4>1
      <4>. QED
        BY <4>1, <4>2
    <3>3. FileBytes(s, from, s[k].base + v) = {from + e[k].offset + v}
      <4>1. "LOAD" \in e[k].flags /\ k \in 1 .. Len(e) /\ s[k].base # NoBase
        BY <2>4, <2>5
      <4>. HIDE DEF e, s
      <4>. QED
        BY <1>4, <3>2, <4>1 DEF BytesFound
    <3>. QED
      BY <2>3, <2>4, <3>3
  <2>. QED
    BY <2>2, <2>3, <2>5
<1>. QED
  BY <1>6 DEF FoundAgain, Kept

\* The three parts of SectionsFit, for all section headers.
THEOREM HeadersFit ==
  ASSUME NEW headers \in HeaderLists
  PROVE  /\ Fits(ElfSections(headers), Regions)
         /\ FoundAgain(headers, Regions, Header)
         /\ Fits(RapSections(RapSizes(headers)), Regions)
<1>1. /\ WellFormed(headers) /\ headers # <<>> /\ Apart(ElfSections(headers))
      /\ Apart(RapSections(RapSizes(headers))) /\ Regions \in [1 .. 4 -> Nat]
  BY ImageAssumption
<1>2. Fits(ElfSections(headers), Regions)
  BY <1>1, ElfUnloaded, SectionsOfAnObjectFit
<1>3. Header \in Nat
  BY DEF Header
<1>4. FoundAgain(headers, Regions, Header)
  BY <1>1, <1>3, SectionsAreFoundAgain
<1>5. Unloaded(RapSections(RapSizes(headers)))
  <2>. DEFINE secs == RapSizes(headers)
              n == Len(headers)
  <2>1. headers \in Seq(ElfHeader) /\ n \in Nat \ {0}
    BY <1>1 DEF WellFormed
  <2>2. ASSUME NEW i \in 1 .. 6 PROVE secs[i].size \in Nat /\ secs[i].alignment \in Nat
    <3>1. secs[i].size = headers[(i % n) + 1].size
          /\ secs[i].alignment = headers[((i * i) % n) + 1].addralign
      BY DEF RapSizes
    <3>. HIDE DEF n
    <3>2. (i % n) + 1 \in 1 .. n /\ ((i * i) % n) + 1 \in 1 .. n
      <4>1. \A x \in Nat : x % n \in 0 .. n - 1
        BY <2>1
      <4>2. i \in Nat /\ i * i \in Nat
        OBVIOUS
      <4>3. \A y \in 0 .. n - 1 : y + 1 \in 1 .. n
        BY <2>1
      <4>. QED
        BY <4>1, <4>2, <4>3
    <3>. QED
      BY <2>1, <3>1, <3>2, HeaderFields DEF n
  <2>. HIDE DEF secs
  <2>. QED
    BY <2>2, RapUnloaded DEF secs
<1>6. Fits(RapSections(RapSizes(headers)), Regions)
  BY <1>1, <1>5, SectionsOfAnObjectFit
<1>. QED
  BY <1>2, <1>4, <1>6

-----------------------------------------------------------------------------
(* The search.                                                             *)

\* Before a file is opened, an archive was not scanned; there is a table of long
\* names where one is said to be.
StartInv ==
  /\ request \in Requests
  /\ pc \in {"idle", "path", "open"} => ~scanning
  /\ pc = "idle" => dir = 0 /\ fname = <<>>
  /\ extended # 0 => \E k \in DOMAIN Archive :
       Archive[k].kind = "names" /\ extended = HeaderOf(k) + Header

\* The file that was found is the first of the path, and none was before.
OnPath(d) ==
  /\ d \in DOMAIN path /\ <<path[d], Target>> \in disk
  /\ \A i \in DOMAIN path : <<path[i], Target>> \in disk => d <= i
PathInv ==
  /\ path \in Seq(Range(path))
  /\ pc = "path" => /\ dir \in 0 .. Len(path)
                    /\ \A i \in 1 .. dir : <<path[i], Target>> \notin disk
  /\ pc \in {"open", "scan", "probe", "found"} =>
       \E d \in DOMAIN path : OnPath(d) /\ fname = <<path[d], Target>>

\* What becomes of the offset in the name: a scan begins there, and begins again if
\* there is no header.
OffsetInv ==
  /\ pc \in {"path", "open"} /\ request.aname # NoName => ooffset = request.offset
  /\ pc \in {"scan", "probe"} =>
       /\ request.aname # NoName
       /\ IsMember(request.offset) => ~scanning
       /\ ~scanning /\ ~IsHeader(request.offset) => ooffset = request.offset

\* Where a scan along the members has begun.
From       == IF scanning THEN Ident ELSE request.offset
FromMember == scanning \/ IsMember(request.offset)

\* It is at a member, or at the end; it has passed no member of the wanted name, and
\* no table without taking note of it.
AtOrBehind(i) ==
  /\ ooffset = HeaderOf(i) /\ From <= ooffset
  /\ \A j \in Wanted : From <= HeaderOf(j) => i <= j
  /\ \A k \in 1 .. i - 1 : From <= HeaderOf(k) /\ Archive[k].kind = "names" => extended # 0
ScanInv ==
  pc \in {"scan", "probe"} /\ FromMember => \E i \in 1 .. Len(Archive) + 1 : AtOrBehind(i)

\* A search for the table has not passed it.
ProbeInv ==
  pc = "probe" =>
    /\ IsHeader(ooffset) /\ IsHeader(off)
    /\ scanning => ~HasNames /\ ~NoLong
    /\ IsMember(ooffset) =>
         \E i, x \in DOMAIN Archive :
           /\ ooffset = HeaderOf(i) /\ off = HeaderOf(x) /\ Archive[i].kind = "long" /\ i <= x
           /\ \A k \in i + 1 .. x : Archive[k].kind # "names"

SearchInv ==
  /\ StartInv /\ PathInv /\ OffsetInv /\ ScanInv /\ ProbeInv
  /\ FoundInArchive /\ MissedFromStart /\ MissedAtOffset

\* The first of the path is what was named.
LEMMA InvFinds ==
  ASSUME SearchInv
  PROVE  FindsWhatIsNamed
<1>1. ASSUME pc = "found"
      PROVE  /\ fname \in disk
             /\ \A i \in DOMAIN path : <<path[i], Target>> \in disk =>
                  \E j \in 1 .. i : fname = <<path[j], Target>>
  <2>1. PICK d \in DOMAIN path : OnPath(d) /\ fname = <<path[d], Target>>
    BY <1>1 DEF SearchInv, PathInv
  <2>2. DOMAIN path = 1 .. Len(path) /\ Len(path) \in Nat
    BY DEF SearchInv, PathInv
  <2>3. ASSUME NEW i \in DOMAIN path, <<path[i], Target>> \in disk PROVE d \in 1 .. i
    BY <2>1, <2>2, <2>3 DEF OnPath
  <2>. QED
    BY <2>1, <2>3 DEF OnPath
<1>. QED
  BY <1>1 DEF FindsWhatIsNamed, SearchInv

LEMMA ArchiveIs ==
  /\ Archive \in Seq(Member) /\ Len(Archive) \in Nat /\ DOMAIN Archive = 1 .. Len(Archive)
  /\ \A i \in DOMAIN Archive : Archive[i].size \in Nat /\ Archive[i].at \in Nat
  /\ WellMade(Archive)
<1>1. WellMade(<<>>)
  BY DEF WellMade
<1>2. Target \in DOMAIN Archives => WellMade(Archives[Target])
  BY FileSearchAssumption
<1>3. WellMade(Archive)
  BY <1>1, <1>2 DEF Archive
<1>4. Archive \in Seq(Member)
  BY <1>3 DEF WellMade
<1>5. Len(Archive) \in Nat /\ DOMAIN Archive = 1 .. Len(Archive)
  BY <1>4
<1>6. \A i \in DOMAIN Archive : Archive[i] \in Member
  BY <1>4, <1>5
<1>. QED
  BY <1>3, <1>4, <1>5, <1>6 DEF Member

\* What passes for a header is not one of a table of long names.
LEMMA StraysAre ==
  ASSUME NEW s \in StraysHere
  PROVE  s.at \in Nat /\ s.member.kind # "names"
<1>1. Target \in DOMAIN Strays /\ s \in Strays[Target]
  BY DEF StraysHere
<1>. QED
  BY <1>1, FileSearchAssumption

LEMMA EvenIs ==
  ASSUME NEW x \in Nat
  PROVE  Even(x) \in Nat
BY SMT DEF Even

LEMMA EndsFunction ==
  ASSUME NEW archive \in Seq(Member)
  PROVE  /\ Ends(archive)[0] = Ident
         /\ \A i \in 1 .. Len(archive) :
              /\ Ends(archive)[i - 1] \in Nat
              /\ Ends(archive)[i] = Ends(archive)[i - 1] + Header + Even(archive[i].size)
<1>. DEFINE n == Len(archive)
            S == Nat
            F == [p \in (1 .. n) \X S |-> p[2] + Header + Even(archive[p[1]].size)]
            E(f) == f = [k \in 0 .. n |-> IF k = 0 THEN Ident
                                          ELSE f[k - 1] + Header + Even(archive[k].size)]
<1>1. n \in Nat /\ \A i \in 1 .. n : Even(archive[i].size) \in Nat
  <2>1. \A i \in 1 .. n : archive[i] \in Member
    OBVIOUS
  <2>2. ASSUME NEW i \in 1 .. n PROVE Even(archive[i].size) \in Nat
    <3>1. archive[i].size \in Nat
      BY <2>1 DEF Member
    <3>. QED
      BY <3>1, EvenIs
  <2>. QED
    BY <2>2
<1>2. Header \in Nat /\ Ident \in Nat
  BY DEF Header, Ident
<1>. HIDE DEF n
<1>3. F \in [(1 .. n) \X S -> S]
  <2>1. ASSUME NEW p \in (1 .. n) \X S PROVE p[2] + Header + Even(archive[p[1]].size) \in S
    BY <1>1, <1>2
  <2>. HIDE DEF S
  <2>. QED
    BY <2>1
<1>4. Ident \in S
  BY <1>2
<1>. HIDE DEF S, F
<1>5. PICK g \in [0 .. n -> S] : Recursive(g, n, Ident, F, S)
  BY <1>1, <1>3, <1>4, RecursiveFunction
<1>6. \A i \in 1 .. n : g[i - 1] \in S /\ F[<<i, g[i - 1]>>] = g[i]
  BY <1>5 DEF Recursive
<1>7. \A i \in 1 .. n : g[i] = g[i - 1] + Header + Even(archive[i].size)
  BY <1>6 DEF F
<1>8. E(g)
  <2>1. \A i \in 0 .. n : i # 0 => i \in 1 .. n
    BY <1>1
  <2>2. \A i \in 0 .. n : g[i] = IF i = 0 THEN Ident
                           ELSE g[i - 1] + Header + Even(archive[i].size)
    BY <1>5, <1>7, <2>1 DEF Recursive
  <2>3. g = [i \in 0 .. n |-> g[i]]
    OBVIOUS
  <2>. QED
    BY <2>2, <2>3
<1>9. E(CHOOSE f : E(f))
  BY <1>8
<1>. DEFINE c == CHOOSE f : E(f)
<1>10. Ends(archive) = c
  BY DEF Ends, n
<1>. HIDE DEF c
<1>11. /\ c[0] = Ident
       /\ \A i \in 1 .. n : c[i] = c[i - 1] + Header + Even(archive[i].size)
  <2>1. c = [i \in 0 .. n |->
               IF i = 0 THEN Ident ELSE c[i - 1] + Header + Even(archive[i].size)]
    BY <1>9 DEF c
  <2>2. 0 \in 0 .. n /\ \A i \in 1 .. n : i \in 0 .. n /\ i # 0
    BY <1>1
  <2>. HIDE DEF c
  <2>. QED
    BY <2>1, <2>2
<1>. DEFINE G == {k \in 0 .. n : c[k] \in Nat}
<1>12. \A k \in 0 .. n : k \in G
  <2>1. 0 \in G
    BY <1>1, <1>2, <1>11
  <2>2. ASSUME NEW k \in 1 .. n, k - 1 \in G PROVE k \in G
    <3>1. c[k - 1] \in Nat /\ k \in 0 .. n /\ Even(archive[k].size) \in Nat
      BY <1>1, <2>2
    <3>2. c[k - 1] + Header + Even(archive[k].size) \in Nat
      BY <1>2, <3>1
    <3>. QED
      BY <1>11, <3>1, <3>2
  <2>. HIDE DEF G
  <2>. QED
    BY <1>1, <2>1, <2>2, Induction
<1>13. \A i \in 1 .. n : c[i - 1] \in Nat
  BY <1>1, <1>12
<1>. QED
  BY <1>10, <1>11, <1>13 DEF n

\* The headers lie one behind the other.
LEMMA HeadersInOrder ==
  /\ \A i \in 1 .. Len(Archive) + 1 : HeaderOf(i) \in Nat /\ HeaderOf(i) >= Ident
  /\ \A i \in 1 .. Len(Archive) : /\ HeaderOf(i + 1) = HeaderOf(i) + Header + Even(Archive[i].size)
                                 /\ Even(Archive[i].size) \in Nat
  /\ \A i, j \in 1 .. Len(Archive) + 1 : i < j => HeaderOf(i) + Header <= HeaderOf(j)
<1>. DEFINE n == Len(Archive)
            e == Ends(Archive)
<1>1. n \in Nat /\ \A i \in 1 .. n : Even(Archive[i].size) \in Nat
  BY ArchiveIs, EvenIs
<1>2. /\ e[0] = Ident
      /\ \A i \in 1 .. n : e[i - 1] \in Nat /\ e[i] = e[i - 1] + Header + Even(Archive[i].size)
  BY ArchiveIs, EndsFunction
<1>3. Header \in Nat /\ Ident \in Nat
  BY DEF Header, Ident
<1>4. \A i : HeaderOf(i) = e[i - 1]
  BY DEF HeaderOf
<1>. HIDE DEF n, e
<1>5. ASSUME NEW i \in 1 .. n
      PROVE  /\ HeaderOf(i + 1) = HeaderOf(i) + Header + Even(Archive[i].size)
             /\ HeaderOf(i) \in Nat
  <2>1. i + 1 - 1 = i
    OBVIOUS
  <2>. QED
    BY <1>2, <1>4, <2>1
<1>. DEFINE G == {k \in 0 .. n : /\ e[k] \in Nat /\ e[k] >= Ident
                                /\ \A i \in 0 .. k - 1 : e[i] + Header <= e[k]}
<1>6. \A k \in 0 .. n : k \in G
  <2>1. 0 \in G
    BY <1>1, <1>2, <1>3
  <2>2. ASSUME NEW k \in 1 .. n, k - 1 \in G PROVE k \in G
    <3>. DEFINE z == Even(Archive[k].size)
                x == e[k - 1]
    <3>1. k \in 0 .. n /\ z \in Nat /\ x \in Nat /\ x >= Ident /\ e[k] = x + Header + z
      BY <1>1, <1>2, <2>2
    <3>2. \A i \in 0 .. (k - 1) - 1 : e[i] + Header <= x
      BY <2>2
    <3>3. \A i \in 0 .. k - 1 : i = k - 1 \/ i \in 0 .. (k - 1) - 1
      OBVIOUS
    <3>4. \A i \in 0 .. k - 1 : e[i] \in Nat
      <4>1. \A i \in 0 .. k - 1 : i + 1 \in 1 .. n /\ i + 1 - 1 = i
        BY <1>1
      <4>. QED
        BY <1>2, <4>1
    <3>. HIDE DEF z
    <3>5. ASSUME NEW i \in 0 .. k - 1 PROVE e[i] + Header <= e[k]
      <4>1. CASE i = k - 1
        BY <1>3, <3>1, <4>1
      <4>2. CASE i # k - 1
        <5>1. e[i] + Header <= x /\ e[i] \in Nat
          BY <3>2, <3>3, <3>4, <4>2
        <5>. HIDE DEF x
        <5>. QED
          BY <1>3, <3>1, <5>1
      <4>. QED
        BY <4>1, <4>2
    <3>. HIDE DEF x
    <3>6. e[k] \in Nat /\ e[k] >= Ident
      BY <1>3, <3>1
    <3>. QED
      BY <3>1, <3>5, <3>6
  <2>. HIDE DEF G
  <2>. QED
    BY <1>1, <2>1, <2>2, Induction
<1>7. ASSUME NEW i \in 1 .. n + 1 PROVE HeaderOf(i) \in Nat /\ HeaderOf(i) >= Ident
  <2>1. i - 1 \in 0 .. n
    BY <1>1
  <2>. QED
    BY <1>4, <1>6, <2>1
<1>8. ASSUME NEW i \in 1 .. n + 1, NEW j \in 1 .. n + 1, i < j
      PROVE  HeaderOf(i) + Header <= HeaderOf(j)
  <2>1. j - 1 \in 0 .. n /\ i - 1 \in 0 .. (j - 1) - 1
    BY <1>1, <1>8
  <2>. QED
    BY <1>4, <1>6, <2>1
<1>. QED
  BY <1>1, <1>5, <1>7, <1>8 DEF n

\* The order of the headers is that of the members.
LEMMA Between ==
  ASSUME NEW i \in 1 .. Len(Archive) + 1, NEW j \in 1 .. Len(Archive) + 1
  PROVE  /\ HeaderOf(i) \in Nat /\ HeaderOf(i) >= Ident /\ HeaderOf(i) + Header # 0
         /\ Ident \in Nat /\ Ident # 0
         /\ HeaderOf(i) < HeaderOf(j) <=> i < j
         /\ HeaderOf(i) <= HeaderOf(j) <=> i <= j
         /\ HeaderOf(i) = HeaderOf(j) <=> i = j
<1>1. Header = 60 /\ Ident = 8
  BY DEF Header, Ident
<1>2. HeaderOf(i) \in Nat /\ HeaderOf(j) \in Nat /\ HeaderOf(i) >= Ident
  BY HeadersInOrder
<1>3. i < j => HeaderOf(i) + Header <= HeaderOf(j)
  BY HeadersInOrder
<1>4. j < i => HeaderOf(j) + Header <= HeaderOf(i)
  BY HeadersInOrder
<1>5. i \in Nat /\ j \in Nat
  BY ArchiveIs
<1>. QED
  BY <1>1, <1>2, <1>3, <1>4, <1>5

\* What is read at a header of a member, and at its end.
LEMMA HeaderIs ==
  ASSUME NEW i \in DOMAIN Archive
  PROVE  /\ i \in 1 .. Len(Archive) + 1 /\ i \in 1 .. Len(Archive)
         /\ IsMember(HeaderOf(i)) /\ IsHeader(HeaderOf(i)) /\ MemberAt(HeaderOf(i)) = Archive[i]
         /\ Readable(HeaderOf(i), Header) /\ HeaderOf(i) < Size
         /\ PaddedSize(HeaderOf(i)) = Even(Archive[i].size)
<1>1. /\ i \in 1 .. Len(Archive) /\ Len(Archive) \in Nat /\ DOMAIN Archive = 1 .. Len(Archive)
      /\ i \in 1 .. Len(Archive) + 1 /\ Len(Archive) + 1 \in 1 .. Len(Archive) + 1
      /\ \A j \in DOMAIN Archive : j \in 1 .. Len(Archive) + 1
  BY ArchiveIs
<1>2. \A j \in DOMAIN Archive : HeaderOf(j) = HeaderOf(i) => j = i
  BY <1>1, Between
<1>3. (CHOOSE j \in DOMAIN Archive : HeaderOf(j) = HeaderOf(i)) = i
  BY <1>2
<1>4. IsMember(HeaderOf(i)) /\ IsHeader(HeaderOf(i)) /\ MemberAt(HeaderOf(i)) = Archive[i]
  BY <1>3 DEF IsMember, IsHeader, MemberAt
<1>5. /\ HeaderOf(i) + Header <= HeaderOf(Len(Archive) + 1) /\ HeaderOf(i) \in Nat
      /\ HeaderOf(Len(Archive) + 1) \in Nat
  BY <1>1, HeadersInOrder
<1>6. Header = 60
  BY DEF Header
<1>7. Readable(HeaderOf(i), Header) /\ HeaderOf(i) < Size
  BY <1>5, <1>6 DEF Readable, Size
<1>. QED
  BY <1>1, <1>4, <1>7 DEF PaddedSize

\* The archive is the same as long as the request is.
LEMMA SameArchive ==
  ASSUME request' = request
  PROVE  /\ Target' = Target /\ Archive' = Archive /\ StraysHere' = StraysHere
         /\ \A i : HeaderOf(i)' = HeaderOf(i)
         /\ \A o : /\ IsMember(o)' <=> IsMember(o)
                   /\ IsStray(o)' <=> IsStray(o)
                   /\ IsHeader(o)' <=> IsHeader(o)
         /\ Wanted' = Wanted /\ (HasNames' <=> HasNames) /\ (NoLong' <=> NoLong)
         /\ \A k, i : NameReadable(k, i)' <=> NameReadable(k, i)
<1>1. Target' = Target
  BY DEF Target
<1>2. Archive' = Archive /\ StraysHere' = StraysHere
  BY <1>1 DEF Archive, StraysHere
<1>3. \A i : HeaderOf(i)' = HeaderOf(i)
  BY <1>2 DEF HeaderOf
<1>4. \A o : (IsMember(o)' <=> IsMember(o)) /\ (IsStray(o)' <=> IsStray(o))
  BY <1>2, <1>3 DEF IsMember, IsStray
<1>5. \A o : IsHeader(o)' <=> IsHeader(o)
  BY <1>4 DEF IsHeader
<1>6. Wanted' = Wanted
  BY <1>2 DEF Wanted, Matches
<1>7. \A o, l : Readable(o, l)' <=> Readable(o, l)
  <2>1. Size' = Size
    BY <1>2 DEF Size, HeaderOf
  <2>. QED
    BY <2>1 DEF Readable
<1>8. \A k, i : NameReadable(k, i)' <=> NameReadable(k, i)
  BY <1>2, <1>3, <1>7 DEF NameReadable
<1>9. HasNames' <=> HasNames
  BY <1>2, <1>8 DEF HasNames
<1>10. NoLong' <=> NoLong
  BY <1>2 DEF NoLong
<1>. QED
  BY <1>1, <1>2, <1>3, <1>4, <1>5, <1>6, <1>8, <1>9, <1>10

\* In the archive, the file that was found stays.
LEMMA PathStays ==
  ASSUME PathInv, UNCHANGED searchVars, pc \in {"open", "scan", "probe"}, pc' # "path"
  PROVE  PathInv'
<1>1. Target' = Target /\ path' = path /\ disk' = disk /\ fname' = fname
  BY SameArchive DEF searchVars
<1>2. PICK d \in DOMAIN path : OnPath(d) /\ fname = <<path[d], Target>>
  BY DEF PathInv
<1>3. OnPath(d)'
  BY <1>1, <1>2 DEF OnPath
<1>4. fname' = <<path'[d], Target'>> /\ d \in DOMAIN path'
  BY <1>1, <1>2
<1>5. path' \in Seq(Range(path'))
  BY <1>1 DEF PathInv
<1>. QED
  BY <1>3, <1>4, <1>5 DEF PathInv

\* What the table of long names is stays, and so does what was found out about the
\* offset, when the scan goes on.
LEMMA NotesStay ==
  ASSUME SearchInv, UNCHANGED searchVars, scanning' = scanning,
         pc \in {"scan", "probe"}, pc' \notin {"idle", "path", "open"},
         extended' = extended \/ \E k \in DOMAIN Archive :
                                   Archive[k].kind = "names" /\ extended' = HeaderOf(k) + Header
  PROVE  /\ StartInv' /\ PathInv'
         /\ (ooffset' = ooffset \/ IsHeader(ooffset) \/ pc' \notin {"scan", "probe"}) => OffsetInv'
<1>1. request' = request
  BY DEF searchVars
<1>2. /\ Archive' = Archive /\ \A i : HeaderOf(i)' = HeaderOf(i)
      /\ \A o : (IsMember(o)' <=> IsMember(o)) /\ (IsHeader(o)' <=> IsHeader(o))
  BY <1>1, SameArchive
<1>3. extended' # 0 => \E k \in DOMAIN Archive :
        Archive[k].kind = "names" /\ extended' = HeaderOf(k) + Header
  BY DEF SearchInv, StartInv
<1>4. StartInv'
  BY <1>1, <1>2, <1>3 DEF SearchInv, StartInv
<1>5. PathInv'
  BY PathStays DEF SearchInv
<1>6. ASSUME ooffset' = ooffset \/ IsHeader(ooffset) \/ pc' \notin {"scan", "probe"}
      PROVE  OffsetInv'
  <2>1. /\ request.aname # NoName
        /\ IsMember(request.offset) => ~scanning
        /\ ~scanning /\ ~IsHeader(request.offset) => ooffset = request.offset
    BY DEF SearchInv, OffsetInv
  <2>2. request'.offset = request.offset /\ request'.aname # NoName
    BY <1>1, <2>1
  <2>3. (IsMember(request.offset)' => ~scanning') /\ (IsHeader(request.offset)' <=> IsHeader(request.offset))
    BY <1>1, <1>2, <2>1
  <2>4. pc' \in {"scan", "probe"} /\ ~scanning' /\ ~IsHeader(request.offset) => ooffset' = request.offset
    BY <1>6, <2>1
  <2>. QED
    BY <2>2, <2>3, <2>4 DEF OffsetInv
<1>. QED
  BY <1>4, <1>5, <1>6

\* The scan stays where it is, and forgets no table.
LEMMA ScanStays ==
  ASSUME ScanInv, pc \in {"scan", "probe"}, UNCHANGED <<searchVars, scanning>>,
         ooffset' = ooffset, extended # 0 => extended' # 0
  PROVE  ScanInv'
<1>1. request' = request /\ scanning' = scanning
  BY DEF searchVars
<1>2. /\ Archive' = Archive /\ Wanted' = Wanted /\ \A i : HeaderOf(i)' = HeaderOf(i)
      /\ From' = From /\ (FromMember' <=> FromMember)
  BY <1>1, SameArchive DEF From, FromMember
<1>3. ASSUME FromMember' PROVE \E i \in 1 .. Len(Archive') + 1 : AtOrBehind(i)'
  <2>1. PICK i \in 1 .. Len(Archive) + 1 : AtOrBehind(i)
    BY <1>2, <1>3 DEF ScanInv
  <2>2. AtOrBehind(i)'
    BY <1>2, <2>1 DEF AtOrBehind
  <2>. QED
    BY <1>2, <2>1, <2>2
<1>. QED
  BY <1>3 DEF ScanInv

\* An answer but the object that is there is right if there is none.
LEMMA GivesUp ==
  ASSUME SearchInv, pc \in {"scan", "probe"}, NEW a \in {"notfound", "failed", "ioerror"}, Give(a),
         a # "ioerror" /\ scanning /\ (HasNames \/ NoLong) => Wanted = {},
         a # "ioerror" =>
           \A i \in Wanted : request.offset = HeaderOf(i) =>
             Archive[i].kind = "long" /\ \A k \in DOMAIN Archive : i < k => ~NameReadable(k, i),
         a = "notfound" /\ ~scanning /\ ~IsStray(request.offset) =>
           \A i \in Wanted : HeaderOf(i) < request.offset
  PROVE  SearchInv'
<1>1. /\ pc' = a /\ scanning' = scanning /\ extended' = extended /\ request' = request
      /\ UNCHANGED searchVars
  BY DEF Give, searchVars
<1>2. /\ Archive' = Archive /\ Wanted' = Wanted /\ (HasNames' <=> HasNames) /\ (NoLong' <=> NoLong)
      /\ \A i : HeaderOf(i)' = HeaderOf(i)
      /\ \A o : IsStray(o)' <=> IsStray(o)
      /\ \A k, i : NameReadable(k, i)' <=> NameReadable(k, i)
  BY <1>1, SameArchive
<1>3. StartInv' /\ PathInv' /\ OffsetInv'
  BY <1>1, NotesStay
<1>4. ScanInv' /\ ProbeInv' /\ FoundInArchive'
  BY <1>1 DEF ScanInv, ProbeInv, FoundInArchive
<1>5. MissedFromStart'
  BY <1>1, <1>2 DEF MissedFromStart
<1>6. MissedAtOffset'
  BY <1>1, <1>2 DEF MissedAtOffset
<1>. QED
  BY <1>3, <1>4, <1>5, <1>6 DEF SearchInv

\* A scan along the members is at one of them, or at the end.
LEMMA NotAtMember ==
  ASSUME SearchInv, pc = "scan", ~IsMember(ooffset), FromMember
  PROVE  AtOrBehind(Len(Archive) + 1) /\ ooffset = Size
<1>1. PICK h \in 1 .. Len(Archive) + 1 : AtOrBehind(h)
  BY DEF SearchInv, ScanInv
<1>2. ooffset = HeaderOf(h)
  BY <1>1 DEF AtOrBehind
<1>3. h \notin DOMAIN Archive
  BY <1>2, HeaderIs
<1>4. h = Len(Archive) + 1
  BY <1>1, <1>3, ArchiveIs
<1>. QED
  BY <1>1, <1>2, <1>4 DEF Size

LEMMA EndOfArchive ==
  Size \in Nat /\ Len(Archive) + 1 \in 1 .. Len(Archive) + 1
<1>1. Len(Archive) + 1 \in 1 .. Len(Archive) + 1
  BY ArchiveIs
<1>. QED
  BY <1>1, Between DEF Size

\* At a header there is a member, and the scan has passed those before; or it has
\* begun, and is, at bytes that pass for one.
LEMMA AtHeader ==
  ASSUME SearchInv, pc = "scan", Scan, IsHeader(ooffset)
  PROVE  \/ \E i \in DOMAIN Archive :
              /\ ooffset = HeaderOf(i) /\ MemberAt(ooffset) = Archive[i]
              /\ FromMember => AtOrBehind(i)
         \/ /\ ~FromMember /\ ~IsMember(ooffset) /\ MemberAt(ooffset).kind # "names"
            /\ \E s \in StraysHere : ooffset = s.at
<1>1. CASE IsMember(ooffset)
  <2>1. PICK i \in DOMAIN Archive : HeaderOf(i) = ooffset
    BY <1>1 DEF IsMember
  <2>2. MemberAt(ooffset) = Archive[i]
    BY <2>1, HeaderIs
  <2>3. ASSUME FromMember PROVE AtOrBehind(i)
    <3>1. PICK h \in 1 .. Len(Archive) + 1 : AtOrBehind(h)
      BY <2>3 DEF SearchInv, ScanInv
    <3>2. HeaderOf(h) = HeaderOf(i)
      BY <2>1, <3>1 DEF AtOrBehind
    <3>3. h = i
      BY <3>2, Between, HeaderIs
    <3>. QED
      BY <3>1, <3>3
  <2>. QED
    BY <2>1, <2>2, <2>3
<1>2. CASE ~IsMember(ooffset)
  <2>1. ~FromMember
    <3>1. ~(Size < Size)
      BY EndOfArchive
    <3>. QED
      BY <1>2, <3>1, NotAtMember DEF Scan
  <2>2. \E s \in StraysHere : s.at = ooffset
    BY <1>2 DEF IsHeader, IsStray
  <2>3. PICK s \in StraysHere : s = (CHOOSE r \in StraysHere : r.at = ooffset)
    BY <2>2
  <2>4. MemberAt(ooffset).kind # "names"
    BY <1>2, <2>3, StraysAre DEF MemberAt
  <2>. QED
    BY <1>2, <2>1, <2>2, <2>4
<1>. QED
  BY <1>1, <1>2

\* With the right offset, the scan is and stays at the member.
LEMMA AtRightOffset ==
  ASSUME SearchInv, pc \in {"scan", "probe"}, NEW i \in Wanted, request.offset = HeaderOf(i)
  PROVE  i \in DOMAIN Archive /\ ooffset = HeaderOf(i) /\ ~scanning
<1>1. i \in DOMAIN Archive
  BY DEF Wanted
<1>2. IsMember(request.offset)
  BY <1>1, HeaderIs
<1>3. ~scanning
  BY <1>2 DEF SearchInv, OffsetInv
<1>4. PICK h \in 1 .. Len(Archive) + 1 : AtOrBehind(h)
  BY <1>2 DEF SearchInv, ScanInv, FromMember
<1>5. /\ ooffset = HeaderOf(h) /\ HeaderOf(i) <= HeaderOf(h)
      /\ HeaderOf(i) <= HeaderOf(i) => h <= i
  BY <1>3, <1>4 DEF AtOrBehind, From
<1>6. i \in 1 .. Len(Archive) + 1 /\ HeaderOf(i) \in Nat
  BY <1>1, HeaderIs, Between
<1>7. i <= h /\ h <= i
  BY <1>4, <1>5, <1>6, Between
<1>8. h = i
  BY <1>4, <1>6, <1>7, ArchiveIs
<1>. QED
  BY <1>1, <1>3, <1>5, <1>8

\* The next member, when this one is not of the name.
LEMMA SkipsOn ==
  ASSUME SearchInv, pc = "scan", pc' = "scan", Skip,
         scanning' = scanning, UNCHANGED searchVars,
         NEW i \in DOMAIN Archive, ooffset = HeaderOf(i), i \notin Wanted,
         FromMember => AtOrBehind(i),
         \/ extended' = extended /\ Archive[i].kind # "names"
         \/ extended' = HeaderOf(i) + Header /\ Archive[i].kind = "names"
  PROVE  SearchInv'
<1>1. request' = request
  BY DEF searchVars
<1>2. /\ Archive' = Archive /\ Wanted' = Wanted /\ (\A k : HeaderOf(k)' = HeaderOf(k))
      /\ From' = From /\ (FromMember' <=> FromMember)
  BY <1>1, SameArchive DEF From, FromMember
<1>3. StartInv' /\ PathInv' /\ OffsetInv'
  <2>1. IsHeader(ooffset)
    BY HeaderIs
  <2>. QED
    BY <2>1, NotesStay
<1>4. i \in 1 .. Len(Archive) /\ Len(Archive) \in Nat /\ DOMAIN Archive = 1 .. Len(Archive)
  BY ArchiveIs
<1>5. i \in 1 .. Len(Archive) + 1 /\ i + 1 \in 1 .. Len(Archive) + 1
  BY <1>4
<1>6. ooffset' = HeaderOf(i + 1)
  <2>1. PaddedSize(ooffset) = Even(Archive[i].size)
    BY HeaderIs
  <2>2. HeaderOf(i + 1) = HeaderOf(i) + Header + Even(Archive[i].size)
    BY <1>4, HeadersInOrder
  <2>. QED
    BY <2>1, <2>2 DEF Skip
<1>7. HeaderOf(i) + Header # 0 /\ HeaderOf(i) \in Nat /\ HeaderOf(i + 1) \in Nat
      /\ HeaderOf(i) < HeaderOf(i + 1)
  BY <1>4, <1>5, Between
<1>8. ASSUME FromMember PROVE AtOrBehind(i + 1)'
  <2>1. AtOrBehind(i)
    BY <1>8
  <2>2. From <= ooffset' /\ From \in Nat
    <3>1. From \in Nat
      <4>1. scanning => From = Ident /\ Ident \in Nat
        BY DEF From, Ident
      <4>2. ~scanning => \E k \in DOMAIN Archive : From = HeaderOf(k)
        BY <1>8 DEF From, FromMember, IsMember
      <4>. QED
        BY <4>1, <4>2, HeaderIs, Between
    <3>2. From <= HeaderOf(i)
      BY <2>1 DEF AtOrBehind
    <3>. QED
      BY <1>6, <1>7, <3>1, <3>2
  <2>3. \A j \in Wanted : From <= HeaderOf(j) => i + 1 <= j
    <3>1. \A j \in Wanted : j \in Nat /\ j # i
      BY <1>4 DEF Wanted
    <3>. QED
      BY <1>4, <2>1, <3>1 DEF AtOrBehind
  <2>4. \A k \in 1 .. (i + 1) - 1 :
          From <= HeaderOf(k) /\ Archive[k].kind = "names" => extended' # 0
    <3>1. \A k \in 1 .. (i + 1) - 1 : k = i \/ k \in 1 .. i - 1
      BY <1>4
    <3>2. extended # 0 => extended' # 0
      BY <1>7
    <3>3. Archive[i].kind = "names" => extended' # 0
      BY <1>7
    <3>4. \A k \in 1 .. i - 1 : From <= HeaderOf(k) /\ Archive[k].kind = "names" => extended # 0
      BY <2>1 DEF AtOrBehind
    <3>. QED
      BY <3>1, <3>2, <3>3, <3>4
  <2>. QED
    BY <1>2, <1>6, <2>2, <2>3, <2>4 DEF AtOrBehind
<1>9. ScanInv'
  BY <1>2, <1>5, <1>8 DEF ScanInv
<1>10. ProbeInv' /\ FoundInArchive' /\ MissedFromStart' /\ MissedAtOffset'
  BY DEF ProbeInv, FoundInArchive, MissedFromStart, MissedAtOffset
<1>. QED
  BY <1>3, <1>9, <1>10 DEF SearchInv

\* The member that is taken has the name.
LEMMA Hits ==
  ASSUME SearchInv, pc = "scan", Hit, UNCHANGED <<scanning, extended, off, searchVars>>,
         NEW i \in Wanted, ooffset = HeaderOf(i), FromMember => AtOrBehind(i)
  PROVE  SearchInv'
<1>1. /\ request' = request /\ UNCHANGED searchVars /\ scanning' = scanning
      /\ extended' = extended /\ pc' = "found"
  BY DEF searchVars, Hit
<1>2. /\ Archive' = Archive /\ Wanted' = Wanted /\ \A k : HeaderOf(k)' = HeaderOf(k)
  BY <1>1, SameArchive
<1>3. StartInv' /\ PathInv' /\ OffsetInv'
  BY <1>1, NotesStay
<1>4. i \in DOMAIN Archive
  BY DEF Wanted
<1>5. ooffset' = HeaderOf(i) + Header /\ fsize' = Even(Archive[i].size)
  BY <1>4, HeaderIs DEF Hit
<1>6. ASSUME scanning, NEW j \in Wanted PROVE i <= j
  <2>1. Ident <= HeaderOf(j)
    <3>1. j \in DOMAIN Archive
      BY DEF Wanted
    <3>2. HeaderOf(j) >= Ident /\ HeaderOf(j) \in Nat /\ Ident \in Nat
      BY <3>1, HeaderIs, Between
    <3>. QED
      BY <3>2
  <2>. QED
    BY <1>6, <2>1 DEF AtOrBehind, From, FromMember
<1>7. FoundInArchive'
  BY <1>1, <1>2, <1>5, <1>6 DEF FoundInArchive
<1>8. ScanInv' /\ ProbeInv' /\ MissedFromStart' /\ MissedAtOffset'
  BY <1>1 DEF ScanInv, ProbeInv, MissedFromStart, MissedAtOffset
<1>. QED
  BY <1>3, <1>7, <1>8 DEF SearchInv

\* Bytes that pass for a header are skipped, or taken.
LEMMA StraySteps ==
  ASSUME SearchInv, pc = "scan", IsHeader(ooffset), ~FromMember,
         NEW s \in StraysHere, ooffset = s.at,
         Hit \/ (Skip /\ UNCHANGED pc), UNCHANGED <<scanning, extended, searchVars>>
  PROVE  SearchInv'
<1>1. request' = request /\ UNCHANGED searchVars /\ scanning' = scanning /\ extended' = extended
  BY DEF searchVars
<1>2. /\ StraysHere' = StraysHere /\ (FromMember' <=> FromMember)
  BY <1>1, SameArchive DEF FromMember
<1>3. pc' \in {"scan", "found"}
  BY DEF Hit
<1>4. StartInv' /\ PathInv' /\ OffsetInv'
  BY <1>1, <1>3, NotesStay
<1>5. ScanInv' /\ ProbeInv' /\ MissedFromStart' /\ MissedAtOffset'
  BY <1>2, <1>3 DEF ScanInv, ProbeInv, MissedFromStart, MissedAtOffset
<1>6. FoundInArchive'
  <2>1. ~scanning
    BY DEF FromMember
  <2>2. pc' = "found" => ooffset' = s.at + Header
    BY DEF Hit
  <2>. QED
    BY <1>1, <1>2, <2>1, <2>2 DEF FoundInArchive
<1>. QED
  BY <1>4, <1>5, <1>6 DEF SearchInv

\* A scan begins at the first member.
LEMMA FromTheStart ==
  /\ Ident = HeaderOf(1) /\ 1 \in 1 .. Len(Archive) + 1
  /\ \A j \in Wanted : 1 <= j
<1>1. Len(Archive) \in Nat /\ DOMAIN Archive = 1 .. Len(Archive) /\ Archive \in Seq(Member)
  BY ArchiveIs
<1>2. Ends(Archive)[0] = Ident
  BY <1>1, EndsFunction
<1>3. HeaderOf(1) = Ends(Archive)[1 - 1] /\ 1 - 1 = 0
  BY DEF HeaderOf
<1>4. HeaderOf(1) = Ident
  BY <1>2, <1>3
<1>5. \A j \in Wanted : j \in 1 .. Len(Archive)
  BY <1>1 DEF Wanted
<1>. QED
  BY <1>1, <1>4, <1>5

\* A file is looked for.
LEMMA PathSteps ==
  ASSUME SearchInv,
         (\E p \in Paths : ParseName(p)) \/ ParseNameFails \/ FindFile \/ NoFile
  PROVE  SearchInv'
<1>1. /\ request' = request /\ disk' = disk /\ scanning' = scanning /\ extended' = extended
      /\ pc \in {"idle", "path"}
  BY DEF ParseName, ParseNameFails, FindFile, NoFile, searchVars, scanVars
<1>2. /\ Target' = Target /\ Archive' = Archive /\ \A i : HeaderOf(i)' = HeaderOf(i)
  BY <1>1, SameArchive
<1>3. ~scanning
  BY <1>1 DEF SearchInv, StartInv
<1>4. pc' \in {"path", "nomemory", "open", "nofile"}
  BY <1>1 DEF ParseName, ParseNameFails, FindFile, NoFile
<1>5. extended' # 0 => \E k \in DOMAIN Archive' :
        Archive'[k].kind = "names" /\ extended' = HeaderOf(k)' + Header
  BY <1>1, <1>2 DEF SearchInv, StartInv
<1>6. StartInv'
  BY <1>1, <1>3, <1>4, <1>5 DEF StartInv, SearchInv
<1>7. ScanInv' /\ ProbeInv' /\ FoundInArchive' /\ MissedFromStart' /\ MissedAtOffset'
  BY <1>4 DEF ScanInv, ProbeInv, FoundInArchive, MissedFromStart, MissedAtOffset
<1>9. OffsetInv'
  <2>1. ASSUME NEW p \in Paths, ParseName(p) PROVE OffsetInv'
    <3>1. request.aname # NoName => ooffset' = request.offset
      BY <2>1 DEF ParseName
    <3>. QED
      BY <1>1, <1>4, <3>1 DEF OffsetInv
  <2>2. ASSUME ParseNameFails \/ NoFile PROVE OffsetInv'
    <3>1. pc' \in {"nomemory", "nofile"}
      BY <2>2 DEF ParseNameFails, NoFile
    <3>. QED
      BY <3>1 DEF OffsetInv
  <2>3. ASSUME FindFile PROVE OffsetInv'
    <3>1. pc = "path" /\ ooffset' = ooffset
      BY <2>3 DEF FindFile, scanVars
    <3>. QED
      BY <1>1, <1>4, <3>1 DEF OffsetInv, SearchInv
  <2>. QED
    BY <2>1, <2>2, <2>3
<1>8. PathInv'
  <2>1. ASSUME NEW p \in Paths, ParseName(p) PROVE PathInv'
    <3>1. dir' = 0 /\ pc' = "path"
      BY <2>1 DEF ParseName, SearchInv, StartInv
    <3>2. path' \in Seq(Range(path'))
      <4>1. CASE Target \in Absolute
        <5>1. path' = <<NoDir>>
          BY <2>1, <4>1 DEF ParseName
        <5>2. NoDir \in Range(<<NoDir>>)
          BY DEF Range
        <5>. QED
          BY <5>1, <5>2
      <4>2. CASE Target \notin Absolute
        BY <2>1, <4>2, FileSearchAssumption DEF ParseName
      <4>. QED
        BY <4>1, <4>2
    <3>3. Len(path') \in Nat
      BY <3>2
    <3>4. dir' \in 0 .. Len(path')
      BY <3>1, <3>3
    <3>5. \A i \in 1 .. dir' : <<path'[i], Target'>> \notin disk'
      BY <3>1
    <3>. QED
      BY <3>1, <3>2, <3>4, <3>5 DEF PathInv
  <2>2. ASSUME ParseNameFails \/ NoFile PROVE PathInv'
    <3>1. pc' \in {"nomemory", "nofile"} /\ path' = path
      BY <2>2 DEF ParseNameFails, NoFile, searchVars
    <3>. QED
      BY <3>1 DEF PathInv, SearchInv
  <2>3. ASSUME FindFile PROVE PathInv'
    <3>1. /\ pc = "path" /\ path' = path /\ path \in Seq(Range(path)) /\ dir \in 0 .. Len(path)
          /\ \A i \in 1 .. dir : <<path[i], Target>> \notin disk
          /\ dir < Len(path) /\ dir' = dir + 1
      BY <2>3 DEF FindFile, SearchInv, PathInv
    <3>2. Len(path) \in Nat /\ DOMAIN path = 1 .. Len(path)
      BY <3>1
    <3>3. dir + 1 \in DOMAIN path /\ dir' \in 0 .. Len(path)
      BY <3>1, <3>2
    <3>4. CASE <<path[dir + 1], Target>> \in disk
      <4>1. PICK d \in DOMAIN path : d = dir + 1
        BY <3>3
      <4>2. pc' = "open" /\ fname' = <<path[d], Target>> /\ <<path[d], Target>> \in disk
        BY <2>3, <3>4, <4>1 DEF FindFile
      <4>3. \A i \in DOMAIN path : i \in 1 .. dir \/ d <= i
        BY <3>1, <3>2, <4>1
      <4>4. \A i \in DOMAIN path : <<path[i], Target>> \in disk => d <= i
        BY <3>1, <4>3
      <4>5. OnPath(d)'
        BY <1>1, <1>2, <3>1, <4>2, <4>4 DEF OnPath
      <4>6. d \in DOMAIN path' /\ fname' = <<path'[d], Target'>>
        BY <1>2, <3>1, <4>2
      <4>7. path' \in Seq(Range(path'))
        BY <3>1
      <4>. QED
        BY <4>2, <4>5, <4>6, <4>7 DEF PathInv
    <3>5. CASE <<path[dir + 1], Target>> \notin disk
      <4>1. pc' = pc
        BY <2>3, <3>5 DEF FindFile
      <4>2. \A i \in 1 .. dir + 1 : i \in 1 .. dir \/ i = dir + 1
        BY <3>1
      <4>3. \A i \in 1 .. dir' : <<path'[i], Target'>> \notin disk'
        BY <1>1, <1>2, <3>1, <3>5, <4>2
      <4>4. path' \in Seq(Range(path')) /\ dir' \in 0 .. Len(path')
        BY <3>1, <3>3
      <4>. QED
        BY <3>1, <4>1, <4>3, <4>4 DEF PathInv
    <3>. QED
      BY <3>4, <3>5
  <2>. QED
    BY <2>1, <2>2, <2>3
<1>. QED
  BY <1>6, <1>7, <1>8, <1>9 DEF SearchInv

\* The file is opened, or the scan begins again at its start.
LEMMA OpenSteps ==
  ASSUME SearchInv, OpenObject \/ OpenArchive \/ IdentError \/ BadHeader
  PROVE  SearchInv'
<1>1. /\ request' = request /\ UNCHANGED searchVars
      /\ pc \in {"open", "scan"}
  BY DEF OpenObject, OpenArchive, IdentError, BadHeader, Give, Restart, searchVars, Scan
<1>2. /\ Archive' = Archive /\ Wanted' = Wanted /\ (\A i : HeaderOf(i)' = HeaderOf(i))
      /\ \A o : (IsMember(o)' <=> IsMember(o)) /\ (IsHeader(o)' <=> IsHeader(o))
  BY <1>1, SameArchive
<1>3. request \in Requests /\ request.offset \in Nat
  BY FileSearchAssumption DEF SearchInv, StartInv
<1>4. ASSUME pc = "open", UNCHANGED scanVars,
             \/ pc' = "found" /\ request.aname = NoName
             \/ pc' = "failed" /\ Archive = <<>>
             \/ pc' = "ioerror"
      PROVE  SearchInv'
  <2>1. scanning' = scanning /\ extended' = extended /\ ~scanning
    BY <1>4 DEF scanVars, SearchInv, StartInv
  <2>2. PathInv'
    BY <1>1, <1>4, PathStays DEF SearchInv
  <2>3. StartInv'
    BY <1>1, <1>2, <1>4, <2>1 DEF StartInv, SearchInv
  <2>4. ScanInv' /\ ProbeInv' /\ OffsetInv' /\ FoundInArchive' /\ MissedFromStart'
    BY <1>1, <1>4, <2>1 DEF ScanInv, ProbeInv, OffsetInv, FoundInArchive, MissedFromStart
  <2>5. MissedAtOffset'
    <3>1. pc' = "failed" => Wanted' = {}
      BY <1>2, <1>4 DEF Wanted
    <3>. QED
      BY <1>4, <3>1 DEF MissedAtOffset
  <2>. QED
    BY <2>2, <2>3, <2>4, <2>5 DEF SearchInv
<1>5. ASSUME pc' = "scan", extended' = 0 \/ extended' = extended, request.aname # NoName,
             \/ scanning' = FALSE /\ ooffset' = request.offset
             \/ Restart /\ ~IsMember(request.offset)
      PROVE  SearchInv'
  <2>1. PathInv'
    BY <1>1, <1>5, PathStays DEF SearchInv
  <2>2. StartInv'
    BY <1>1, <1>2, <1>5 DEF StartInv, SearchInv
  <2>3. OffsetInv'
    BY <1>1, <1>2, <1>5 DEF OffsetInv, Restart
  <2>4. ASSUME Restart PROVE 1 \in 1 .. Len(Archive') + 1 /\ AtOrBehind(1)'
    <3>1. /\ From' = Ident /\ ooffset' = HeaderOf(1)' /\ ooffset' = Ident
          /\ \A j \in Wanted' : 1 <= j
      BY <1>2, <2>4, FromTheStart DEF Restart, From
    <3>2. 1 \in 1 .. Len(Archive') + 1
      BY <1>2, FromTheStart
    <3>3. From' <= ooffset'
      BY <3>1 DEF Ident
    <3>4. \A k \in 1 .. 1 - 1 : Archive'[k].kind = "names" => extended' # 0
      OBVIOUS
    <3>. QED
      BY <3>1, <3>2, <3>3, <3>4 DEF AtOrBehind
  <2>5. ASSUME scanning' = FALSE, ooffset' = request.offset, FromMember'
        PROVE  \E i \in 1 .. Len(Archive') + 1 : AtOrBehind(i)'
    <3>1. IsMember(request.offset)
      BY <1>1, <1>2, <2>5 DEF FromMember
    <3>2. PICK i \in DOMAIN Archive : HeaderOf(i) = request.offset
      BY <3>1 DEF IsMember
    <3>3. i \in 1 .. Len(Archive) + 1 /\ From' = HeaderOf(i) /\ ooffset' = HeaderOf(i)
      BY <1>1, <2>5, <3>2, HeaderIs DEF From
    <3>4. \A j \in DOMAIN Archive : HeaderOf(i) <= HeaderOf(j) => i <= j
      BY <3>3, HeaderIs, Between
    <3>5. \A j \in Wanted : j \in DOMAIN Archive
      BY DEF Wanted
    <3>6. \A k \in 1 .. i - 1 : ~(HeaderOf(i) <= HeaderOf(k))
      <4>1. ASSUME NEW k \in 1 .. i - 1 PROVE k \in DOMAIN Archive /\ ~(i <= k)
        BY <3>2, ArchiveIs
      <4>. QED
        BY <3>4, <4>1
    <3>7. HeaderOf(i) <= HeaderOf(i)
      BY <3>3, Between
    <3>. QED
      BY <1>2, <3>3, <3>4, <3>5, <3>6, <3>7 DEF AtOrBehind
  <2>6. ScanInv'
    BY <1>5, <2>4, <2>5 DEF ScanInv
  <2>7. ProbeInv' /\ FoundInArchive' /\ MissedFromStart' /\ MissedAtOffset'
    BY <1>5 DEF ProbeInv, FoundInArchive, MissedFromStart, MissedAtOffset
  <2>. QED
    BY <2>1, <2>2, <2>3, <2>6, <2>7 DEF SearchInv
<1>6. CASE OpenObject \/ IdentError
  BY <1>4, <1>6 DEF OpenObject, IdentError
<1>7. CASE OpenArchive
  <2>1. CASE Archive = <<>>
    BY <1>4, <1>7, <2>1 DEF OpenArchive
  <2>2. CASE Archive # <<>>
    <3>1. /\ pc = "open" /\ pc' = "scan" /\ extended' = 0 /\ request.aname # NoName
          /\ IF ooffset # 0 THEN scanning' = FALSE /\ ooffset' = ooffset ELSE Restart
          /\ ooffset = request.offset
      BY <1>7, <2>2 DEF OpenArchive, SearchInv, OffsetInv
    <3>2. ~IsMember(0)
      <4>1. ASSUME NEW i \in DOMAIN Archive PROVE HeaderOf(i) # 0
        <5>1. HeaderOf(i) \in Nat /\ HeaderOf(i) >= Ident
          BY HeaderIs, Between
        <5>. QED
          BY <5>1 DEF Ident
      <4>. QED
        BY <4>1 DEF IsMember
    <3>. QED
      BY <1>5, <3>1, <3>2
  <2>. QED
    BY <2>1, <2>2
<1>8. CASE BadHeader
  <2>1. pc = "scan" /\ Scan /\ ~IsHeader(ooffset) /\ request.aname # NoName
    BY <1>8 DEF BadHeader, Scan, SearchInv, OffsetInv
  <2>2. ~FromMember
    <3>1. ~IsMember(ooffset) /\ ~(Size < Size)
      BY <2>1, EndOfArchive DEF IsHeader
    <3>. QED
      BY <2>1, <3>1, NotAtMember DEF Scan
  <2>3. Restart /\ pc' = pc /\ extended' = extended
    BY <1>8, <2>2 DEF BadHeader, FromMember
  <2>. QED
    BY <1>5, <2>1, <2>2, <2>3 DEF FromMember
<1>. QED
  BY <1>6, <1>7, <1>8

\* A search that comes to its end has passed all members from where it began.
LEMMA EndSteps ==
  ASSUME SearchInv, NotFound \/ ReadFails \/ IoError
  PROVE  SearchInv'
<1>1. CASE IoError
  <2>1. pc \in {"scan", "probe"} /\ Give("ioerror")
    BY <1>1 DEF IoError, Scan
  <2>. QED
    BY <2>1, GivesUp
<1>2. CASE NotFound \/ ReadFails
  <2>1. PICK a \in {"notfound", "failed"} : Give(a) /\ (a = "notfound" => ooffset >= Size)
    BY <1>2 DEF NotFound, ReadFails
  <2>2. pc = "scan"
    BY <1>2 DEF NotFound, ReadFails, Scan
  <2>3. ~IsMember(ooffset)
    <3>1. ASSUME NEW i \in DOMAIN Archive PROVE HeaderOf(i) # ooffset
      <4>1. Readable(HeaderOf(i), Header) /\ HeaderOf(i) < Size /\ HeaderOf(i) \in Nat
        BY HeaderIs, Between
      <4>. QED
        BY <1>2, <4>1, EndOfArchive DEF NotFound, ReadFails
    <3>. QED
      BY <3>1 DEF IsMember
  <2>4. ASSUME FromMember, NEW j \in Wanted PROVE HeaderOf(j) < From
    <3>1. AtOrBehind(Len(Archive) + 1)
      BY <2>2, <2>3, <2>4, NotAtMember
    <3>2. From <= HeaderOf(j) => Len(Archive) + 1 <= j
      BY <3>1 DEF AtOrBehind
    <3>3. j \in 1 .. Len(Archive) /\ Len(Archive) \in Nat
      BY ArchiveIs DEF Wanted
    <3>4. HeaderOf(j) \in Nat /\ From \in Nat
      <4>1. j \in 1 .. Len(Archive) + 1
        BY <3>3
      <4>2. scanning => From = Ident /\ Ident \in Nat
        BY DEF From, Ident
      <4>3. request \in Requests /\ request.offset \in Nat
        BY FileSearchAssumption DEF SearchInv, StartInv
      <4>. QED
        BY <4>1, <4>2, <4>3, Between DEF From
    <3>. QED
      BY <3>2, <3>3, <3>4
  <2>5. ASSUME scanning PROVE Wanted = {}
    <3>1. ASSUME NEW j \in Wanted PROVE FALSE
      <4>1. HeaderOf(j) < Ident
        BY <2>4, <2>5 DEF FromMember, From
      <4>2. j \in DOMAIN Archive
        BY DEF Wanted
      <4>3. HeaderOf(j) \in Nat /\ HeaderOf(j) >= Ident /\ Ident \in Nat
        BY <4>2, HeaderIs, Between
      <4>. QED
        BY <4>1, <4>3
    <3>. QED
      BY <3>1
  <2>6. \A i \in Wanted : request.offset # HeaderOf(i)
    <3>1. ASSUME NEW i \in Wanted, request.offset = HeaderOf(i) PROVE FALSE
      <4>1. i \in DOMAIN Archive /\ ooffset = HeaderOf(i)
        BY <2>2, <3>1, AtRightOffset
      <4>. QED
        BY <2>3, <4>1, HeaderIs
    <3>. QED
      BY <3>1
  <2>7. ASSUME a = "notfound", ~scanning, ~IsStray(request.offset), NEW i \in Wanted
        PROVE  HeaderOf(i) < request.offset
    <3>1. CASE IsMember(request.offset)
      BY <2>4, <2>7, <3>1 DEF FromMember, From
    <3>2. CASE ~IsMember(request.offset)
      <4>1. ~IsHeader(request.offset)
        BY <2>7, <3>2 DEF IsHeader
      <4>2. ooffset = request.offset
        BY <2>2, <2>7, <4>1 DEF SearchInv, OffsetInv
      <4>3. request.offset >= Size /\ request.offset \in Nat
        BY <2>1, <2>7, <4>2, FileSearchAssumption DEF SearchInv, StartInv
      <4>4. i \in DOMAIN Archive
        BY DEF Wanted
      <4>5. HeaderOf(i) < Size /\ HeaderOf(i) \in Nat
        BY <4>4, HeaderIs, Between
      <4>. QED
        BY <4>3, <4>5, EndOfArchive
    <3>. QED
      BY <3>1, <3>2
  <2>. QED
    BY <2>1, <2>2, <2>5, <2>6, <2>7, GivesUp
<1>. QED
  BY <1>1, <1>2

\* The name of a long member is the one that is read, in the one table there is.
LEMMA NameInTable ==
  ASSUME SearchInv, NEW i \in DOMAIN Archive, Archive[i].kind = "long", extended # 0
  PROVE  LET at == extended + Archive[i].at IN
         /\ \A n : n \in TableNames(at) <=> n = Archive[i].name
         /\ ~Readable(at, NameRead) => \A h \in DOMAIN Archive : ~NameReadable(h, i)
<1>. DEFINE at == extended + Archive[i].at
<1>1. PICK k \in DOMAIN Archive :
        Archive[k].kind = "names" /\ extended = HeaderOf(k) + Header
  BY DEF SearchInv, StartInv
<1>2. extended \in Nat
  <2>1. HeaderOf(k) \in Nat /\ Header = 60
    BY HeaderIs, Between DEF Header
  <2>. QED
    BY <1>1, <2>1
<1>3. Archive[i].name \in TableNames(at)
  <2>1. Archive[i] \in Range(Archive)
    BY DEF Range
  <2>. QED
    BY <2>1 DEF TableNames
<1>4. ASSUME NEW n \in TableNames(at) PROVE n = Archive[i].name
  <2>1. PICK x \in Range(Archive) :
          x.kind = "long" /\ extended + x.at = at /\ n = x.name
    BY <1>4 DEF TableNames
  <2>2. PICK j \in DOMAIN Archive : x = Archive[j]
    BY DEF Range
  <2>3. Archive[j].at = Archive[i].at
    <3>1. Archive[j].at \in Nat /\ Archive[i].at \in Nat
      BY ArchiveIs
    <3>. QED
      BY <1>2, <2>1, <2>2, <3>1
  <2>. QED
    BY <2>1, <2>2, <2>3, ArchiveIs DEF WellMade
<1>5. ASSUME ~Readable(at, NameRead), NEW h \in DOMAIN Archive, NameReadable(h, i)
      PROVE  FALSE
  <2>1. h = k
    BY <1>1, <1>5, ArchiveIs DEF WellMade, NameReadable
  <2>. QED
    BY <1>1, <1>5, <2>1 DEF NameReadable
<1>. QED
  BY <1>3, <1>4, <1>5

\* The members that are not of the wanted name are passed, and those that are, taken.
LEMMA MemberSteps ==
  ASSUME SearchInv, SymbolTable \/ NamesTable \/ ShortName \/ LongName
  PROVE  SearchInv'
<1>1. pc = "scan" /\ Scan /\ IsHeader(ooffset)
  BY DEF SymbolTable, NamesTable, ShortName, LongName, AtMember, Scan
<1>2. ASSUME NEW i \in DOMAIN Archive, ooffset = HeaderOf(i), MemberAt(ooffset) = Archive[i],
             FromMember => AtOrBehind(i)
      PROVE  SearchInv'
  <2>1. CASE SymbolTable
    <3>1. /\ Archive[i].kind \in {"symbols", "unknown"} /\ Skip
          /\ UNCHANGED <<pc, scanning, extended, off, searchVars>>
      BY <1>2, <2>1 DEF SymbolTable, AtMember
    <3>2. i \notin Wanted /\ Archive[i].kind # "names"
      BY <3>1 DEF Wanted
    <3>. QED
      BY <1>1, <1>2, <3>1, <3>2, SkipsOn DEF searchVars
  <2>2. CASE NamesTable
    <3>1. /\ Archive[i].kind = "names" /\ Skip /\ extended' = HeaderOf(i) + Header
          /\ UNCHANGED <<pc, scanning, off, searchVars>>
      BY <1>2, <2>2 DEF NamesTable, AtMember
    <3>2. i \notin Wanted
      BY <3>1 DEF Wanted
    <3>. QED
      BY <1>1, <1>2, <3>1, <3>2, SkipsOn DEF searchVars
  <2>3. CASE ShortName
    <3>1. /\ Archive[i].kind = "short" /\ UNCHANGED <<scanning, extended, off, searchVars>>
          /\ IF Matches(Archive[i].name) THEN Hit ELSE Skip /\ UNCHANGED pc
      BY <1>2, <2>3 DEF ShortName, AtMember
    <3>2. CASE Matches(Archive[i].name)
      <4>1. i \in Wanted
        BY <3>1, <3>2 DEF Wanted
      <4>. QED
        BY <1>1, <1>2, <3>1, <3>2, <4>1, Hits
    <3>3. CASE ~Matches(Archive[i].name)
      <4>1. i \notin Wanted /\ Archive[i].kind # "names"
        BY <3>1, <3>3 DEF Wanted
      <4>. QED
        BY <1>1, <1>2, <3>1, <3>3, <4>1, SkipsOn DEF searchVars
    <3>. QED
      BY <3>2, <3>3
  <2>4. CASE LongName
    <3>. DEFINE at == extended + Archive[i].at
    <3>1. /\ Archive[i].kind = "long" /\ extended # 0
          /\ IF ~Readable(at, NameRead) THEN Give("failed")
             ELSE /\ IF \E n \in TableNames(at) : Matches(n)
                       THEN Hit ELSE Skip /\ UNCHANGED pc
                  /\ UNCHANGED <<scanning, extended, off, searchVars>>
      BY <1>2, <2>4 DEF LongName, AtMember
    <3>2. /\ \A n : n \in TableNames(at) <=> n = Archive[i].name
          /\ ~Readable(at, NameRead) => \A h \in DOMAIN Archive : ~NameReadable(h, i)
      BY <3>1, NameInTable
    <3>. HIDE DEF at
    <3>3. CASE ~Readable(at, NameRead)
      <4>1. ~NoLong /\ ~HasNames
        BY <3>1, <3>2, <3>3 DEF NoLong, HasNames
      <4>2. ASSUME NEW j \in Wanted, request.offset = HeaderOf(j)
            PROVE  Archive[j].kind = "long" /\ \A k \in DOMAIN Archive : j < k => ~NameReadable(k, j)
        <5>1. j \in DOMAIN Archive /\ HeaderOf(j) = HeaderOf(i)
          BY <1>1, <1>2, <4>2, AtRightOffset
        <5>2. j = i
          BY <5>1, HeaderIs, Between
        <5>. QED
          BY <3>1, <3>2, <3>3, <5>2
      <4>. QED
        BY <1>1, <3>1, <3>3, <4>1, <4>2, GivesUp
    <3>4. CASE Readable(at, NameRead) /\ Matches(Archive[i].name)
      <4>1. i \in Wanted
        BY <3>1, <3>4 DEF Wanted
      <4>2. Hit /\ UNCHANGED <<scanning, extended, off, searchVars>>
        BY <3>1, <3>2, <3>4
      <4>. QED
        BY <1>1, <1>2, <4>1, <4>2, Hits
    <3>5. CASE Readable(at, NameRead) /\ ~Matches(Archive[i].name)
      <4>1. i \notin Wanted /\ Archive[i].kind # "names"
        BY <3>1, <3>5 DEF Wanted
      <4>2. Skip /\ UNCHANGED pc /\ UNCHANGED <<scanning, extended, off, searchVars>>
        BY <3>1, <3>2, <3>5
      <4>. QED
        BY <1>1, <1>2, <4>1, <4>2, SkipsOn DEF searchVars
    <3>. QED
      BY <3>3, <3>4, <3>5
  <2>. QED
    BY <2>1, <2>2, <2>3, <2>4
<1>3. ASSUME ~FromMember, ~IsMember(ooffset), MemberAt(ooffset).kind # "names",
             NEW s \in StraysHere, ooffset = s.at
      PROVE  SearchInv'
  <2>1. ASSUME Hit \/ (Skip /\ UNCHANGED pc), UNCHANGED <<scanning, extended, searchVars>>
        PROVE  SearchInv'
    BY <1>1, <1>3, <2>1, StraySteps
  <2>2. CASE SymbolTable \/ ShortName
    <3>1. Hit \/ (Skip /\ UNCHANGED pc)
      BY <2>2 DEF SymbolTable, ShortName
    <3>2. UNCHANGED <<scanning, extended, searchVars>>
      BY <2>2 DEF SymbolTable, ShortName
    <3>. QED
      BY <2>1, <3>1, <3>2
  <2>3. CASE NamesTable
    BY <1>3, <2>3 DEF NamesTable, AtMember
  <2>4. CASE LongName
    <3>1. CASE Give("failed")
      <4>1. ASSUME NEW j \in Wanted, request.offset = HeaderOf(j) PROVE FALSE
        <5>1. j \in DOMAIN Archive /\ ooffset = HeaderOf(j)
          BY <1>1, <4>1, AtRightOffset
        <5>. QED
          BY <1>3, <5>1, HeaderIs
      <4>2. ~scanning
        BY <1>3 DEF FromMember
      <4>. QED
        BY <1>1, <3>1, <4>1, <4>2, GivesUp
    <3>2. CASE ~Give("failed")
      <4>1. Hit \/ (Skip /\ UNCHANGED pc)
        BY <2>4, <3>2 DEF LongName
      <4>2. UNCHANGED <<scanning, extended, searchVars>>
        BY <2>4, <3>2 DEF LongName
      <4>. QED
        BY <2>1, <4>1, <4>2
    <3>. QED
      BY <3>1, <3>2
  <2>. QED
    BY <2>2, <2>3, <2>4
<1>. QED
  BY <1>1, <1>2, <1>3, AtHeader

\* The table of long names is looked for behind a long name.
LEMMA ProbeBegins ==
  ASSUME SearchInv, LongNameUnknown
  PROVE  SearchInv'
<1>1. /\ pc = "scan" /\ Scan /\ IsHeader(ooffset) /\ MemberAt(ooffset).kind = "long"
      /\ extended = 0 /\ off' = ooffset /\ pc' = "probe"
      /\ ooffset' = ooffset /\ scanning' = scanning /\ extended' = extended
      /\ UNCHANGED searchVars
  BY DEF LongNameUnknown, AtMember, Scan
<1>2. request' = request
  BY <1>1 DEF searchVars
<1>3. /\ Archive' = Archive /\ (HasNames' <=> HasNames) /\ (NoLong' <=> NoLong)
      /\ (\A i : HeaderOf(i)' = HeaderOf(i))
      /\ \A o : (IsMember(o)' <=> IsMember(o)) /\ (IsHeader(o)' <=> IsHeader(o))
  BY <1>2, SameArchive
<1>4. StartInv' /\ PathInv' /\ OffsetInv'
  BY <1>1, NotesStay
<1>5. ScanInv'
  BY <1>1, ScanStays DEF SearchInv
<1>6. ASSUME scanning PROVE ~HasNames /\ ~NoLong
  <2>1. PICK i \in DOMAIN Archive : /\ ooffset = HeaderOf(i) /\ MemberAt(ooffset) = Archive[i]
                                    /\ AtOrBehind(i)
    BY <1>1, <1>6, AtHeader DEF FromMember
  <2>2. ~NoLong
    BY <1>1, <2>1 DEF NoLong
  <2>3. ASSUME HasNames PROVE FALSE
    <3>1. PICK h \in DOMAIN Archive : Archive[h].kind = "names" /\ h < i
      BY <1>1, <2>1, <2>3 DEF HasNames
    <3>2. h \in 1 .. i - 1
      BY <3>1, ArchiveIs
    <3>3. Ident <= HeaderOf(h)
      <4>1. HeaderOf(h) \in Nat /\ HeaderOf(h) >= Ident /\ Ident \in Nat
        BY HeaderIs, Between
      <4>. QED
        BY <4>1
    <3>. QED
      BY <1>1, <1>6, <2>1, <3>1, <3>2, <3>3 DEF AtOrBehind, From
  <2>. QED
    BY <2>2, <2>3
<1>7. ASSUME IsMember(ooffset)
      PROVE  \E i, x \in DOMAIN Archive :
               /\ ooffset = HeaderOf(i) /\ off' = HeaderOf(x) /\ Archive[i].kind = "long" /\ i <= x
               /\ \A k \in i + 1 .. x : Archive[k].kind # "names"
  <2>1. PICK i \in DOMAIN Archive : HeaderOf(i) = ooffset
    BY <1>7 DEF IsMember
  <2>2. Archive[i].kind = "long" /\ i \in Nat
    BY <1>1, <2>1, HeaderIs, ArchiveIs
  <2>3. i <= i /\ \A k \in i + 1 .. i : Archive[k].kind # "names"
    BY <2>2
  <2>. QED
    BY <1>1, <2>1, <2>2, <2>3
<1>8. ProbeInv'
  <2>1. IsHeader(ooffset)' /\ IsHeader(off)'
    BY <1>1, <1>3
  <2>2. IsMember(ooffset)' <=> IsMember(ooffset)
    BY <1>1, <1>3
  <2>. QED
    BY <1>1, <1>3, <1>6, <1>7, <2>1, <2>2 DEF ProbeInv
<1>9. FoundInArchive' /\ MissedFromStart' /\ MissedAtOffset'
  BY <1>1 DEF FoundInArchive, MissedFromStart, MissedAtOffset
<1>. QED
  BY <1>4, <1>5, <1>8, <1>9 DEF SearchInv

LEMMA ProbeSteps ==
  ASSUME SearchInv, Probe
  PROVE  SearchInv'
<1>. DEFINE next == off + PaddedSize(off) + Header
<1>1. pc = "probe" /\ IsHeader(ooffset) /\ IsHeader(off)
  BY DEF Probe, SearchInv, ProbeInv
<1>2. ASSUME NEW x \in DOMAIN Archive, off = HeaderOf(x)
      PROVE  x + 1 \in 1 .. Len(Archive) + 1 /\ next = HeaderOf(x + 1)
  <2>1. x \in 1 .. Len(Archive) /\ x + 1 \in 1 .. Len(Archive) + 1 /\ x \in 1 .. Len(Archive) + 1
    BY ArchiveIs
  <2>2. /\ HeaderOf(x + 1) = HeaderOf(x) + Header + Even(Archive[x].size)
        /\ Even(Archive[x].size) \in Nat
    BY <2>1, HeadersInOrder
  <2>3. PaddedSize(off) = Even(Archive[x].size)
    BY <1>2, HeaderIs
  <2>4. HeaderOf(x) \in Nat /\ Header = 60
    BY <2>1, Between DEF Header
  <2>. QED
    BY <1>2, <2>1, <2>2, <2>3, <2>4
<1>3. CASE ~Readable(next, Header) \/ ~IsHeader(next)
  <2>1. Give("failed")
    BY <1>3 DEF Probe
  <2>2. scanning /\ (HasNames \/ NoLong) => Wanted = {}
    BY <1>1 DEF SearchInv, ProbeInv
  <2>3. ASSUME NEW j \in Wanted, request.offset = HeaderOf(j)
        PROVE  Archive[j].kind = "long" /\ \A k \in DOMAIN Archive : j < k => ~NameReadable(k, j)
    <3>1. j \in DOMAIN Archive /\ ooffset = HeaderOf(j)
      BY <1>1, <2>3, AtRightOffset
    <3>2. PICK i \in DOMAIN Archive, x \in DOMAIN Archive :
            /\ ooffset = HeaderOf(i) /\ off = HeaderOf(x) /\ Archive[i].kind = "long" /\ i <= x
            /\ \A k \in i + 1 .. x : Archive[k].kind # "names"
      BY <1>1, <3>1, HeaderIs DEF SearchInv, ProbeInv
    <3>3. i = j
      BY <3>1, <3>2, HeaderIs, Between
    <3>4. x + 1 \notin DOMAIN Archive
      BY <1>2, <1>3, <3>2, HeaderIs
    <3>5. \A k \in DOMAIN Archive : i < k => k \in i + 1 .. x
      BY <3>2, <3>4, ArchiveIs
    <3>. QED
      BY <3>2, <3>3, <3>5 DEF NameReadable
  <2>. QED
    BY <1>1, <2>1, <2>2, <2>3, GivesUp
<1>4. CASE Readable(next, Header) /\ IsHeader(next)
  <2>1. /\ off' = next
        /\ IF MemberAt(next).kind = "names"
             THEN extended' = next + Header /\ pc' = "scan"
             ELSE UNCHANGED <<extended, pc>>
        /\ ooffset' = ooffset /\ scanning' = scanning /\ UNCHANGED searchVars
    BY <1>4 DEF Probe
  <2>2. request' = request
    BY <2>1 DEF searchVars
  <2>3. /\ Archive' = Archive /\ (HasNames' <=> HasNames) /\ (NoLong' <=> NoLong)
        /\ (\A i : HeaderOf(i)' = HeaderOf(i))
        /\ \A o : (IsMember(o)' <=> IsMember(o)) /\ (IsHeader(o)' <=> IsHeader(o))
    BY <2>2, SameArchive
  <2>4. ASSUME MemberAt(next).kind = "names"
        PROVE  \E k \in DOMAIN Archive : Archive[k].kind = "names" /\ next = HeaderOf(k)
    <3>1. IsMember(next)
      <4>1. ASSUME ~IsMember(next) PROVE FALSE
        <5>1. PICK s \in StraysHere : s = (CHOOSE r \in StraysHere : r.at = next)
          BY <1>4, <4>1 DEF IsHeader, IsStray
        <5>. QED
          BY <2>4, <4>1, <5>1, StraysAre DEF MemberAt
      <4>. QED
        BY <4>1
    <3>2. PICK k \in DOMAIN Archive : HeaderOf(k) = next
      BY <3>1 DEF IsMember
    <3>. QED
      BY <2>4, <3>2, HeaderIs
  <2>5. /\ pc' \in {"scan", "probe"} /\ (extended # 0 => extended' # 0)
        /\ \/ extended' = extended
           \/ \E k \in DOMAIN Archive : Archive[k].kind = "names" /\ extended' = HeaderOf(k) + Header
    <3>1. \A k \in DOMAIN Archive : HeaderOf(k) + Header # 0
      BY HeaderIs, Between
    <3>. QED
      BY <1>1, <2>1, <2>4, <3>1
  <2>6. StartInv' /\ PathInv' /\ OffsetInv'
    BY <1>1, <2>1, <2>5, NotesStay
  <2>7. ScanInv'
    BY <1>1, <2>1, <2>5, ScanStays DEF SearchInv
  <2>8. ASSUME IsMember(ooffset), MemberAt(next).kind # "names"
        PROVE  \E i, x \in DOMAIN Archive :
                 /\ ooffset = HeaderOf(i) /\ next = HeaderOf(x) /\ Archive[i].kind = "long" /\ i <= x
                 /\ \A k \in i + 1 .. x : Archive[k].kind # "names"
    <3>1. PICK i \in DOMAIN Archive, x \in DOMAIN Archive :
            /\ ooffset = HeaderOf(i) /\ off = HeaderOf(x) /\ Archive[i].kind = "long" /\ i <= x
            /\ \A k \in i + 1 .. x : Archive[k].kind # "names"
      BY <1>1, <2>8 DEF SearchInv, ProbeInv
    <3>2. x + 1 \in 1 .. Len(Archive) + 1 /\ next = HeaderOf(x + 1)
      BY <1>2, <3>1
    <3>3. x + 1 \in DOMAIN Archive
      <4>1. next # Size
        <5>1. Readable(next, Header) /\ Header = 60
          BY <1>4 DEF Header
        <5>. QED
          BY <5>1, EndOfArchive DEF Readable
      <4>. QED
        BY <3>2, <4>1, ArchiveIs DEF Size
    <3>4. Archive[x + 1].kind # "names"
      BY <2>8, <3>2, <3>3, HeaderIs
    <3>5. \A k \in i + 1 .. x + 1 : k = x + 1 \/ k \in i + 1 .. x
      BY ArchiveIs
    <3>6. i <= x + 1
      BY <3>1, ArchiveIs
    <3>. QED
      BY <3>1, <3>2, <3>3, <3>4, <3>5, <3>6
  <2>9. ProbeInv'
    <3>1. IsHeader(ooffset)' /\ IsHeader(off)' /\ (IsMember(ooffset)' <=> IsMember(ooffset))
      BY <1>1, <1>4, <2>1, <2>3
    <3>2. scanning' => ~HasNames' /\ ~NoLong'
      BY <1>1, <2>1, <2>3 DEF SearchInv, ProbeInv
    <3>3. pc' = "probe" => MemberAt(next).kind # "names"
      BY <2>1
    <3>. HIDE DEF next
    <3>. QED
      BY <2>1, <2>3, <2>8, <3>1, <3>2, <3>3 DEF ProbeInv
  <2>10. FoundInArchive' /\ MissedFromStart' /\ MissedAtOffset'
    BY <2>5 DEF FoundInArchive, MissedFromStart, MissedAtOffset
  <2>. QED
    BY <2>6, <2>7, <2>9, <2>10 DEF SearchInv
<1>. QED
  BY <1>3, <1>4

\* Before the search, and before the next one.
LEMMA AtTheStart ==
  ASSUME pc = "idle", request \in Requests, path = <<>>, dir = 0, fname = <<>>,
         scanning = FALSE, extended = 0
  PROVE  SearchInv
<1>1. path \in Seq(Range(path))
  OBVIOUS
<1>. QED
  BY <1>1 DEF SearchInv, StartInv, PathInv, OffsetInv, ScanInv, ProbeInv, FoundInArchive,
              MissedFromStart, MissedAtOffset

LEMMA SearchStep ==
  ASSUME SearchInv, [SearchNext]_allVars
  PROVE  SearchInv'
<1>1. ASSUME UNCHANGED allVars PROVE SearchInv'
  <2>1. /\ pc' = pc /\ path' = path /\ dir' = dir /\ fname' = fname /\ disk' = disk /\ off' = off
        /\ ooffset' = ooffset /\ fsize' = fsize /\ scanning' = scanning /\ extended' = extended
        /\ request' = request
    BY <1>1 DEF allVars, searchVars, scanVars
  <2>2. /\ Target' = Target /\ Archive' = Archive /\ StraysHere' = StraysHere
        /\ \A i : HeaderOf(i)' = HeaderOf(i)
        /\ \A o : /\ IsMember(o)' <=> IsMember(o)
                  /\ IsStray(o)' <=> IsStray(o)
                  /\ IsHeader(o)' <=> IsHeader(o)
        /\ Wanted' = Wanted /\ (HasNames' <=> HasNames) /\ (NoLong' <=> NoLong)
        /\ \A k, i : NameReadable(k, i)' <=> NameReadable(k, i)
    BY <2>1, SameArchive
  <2>3. StartInv' /\ FoundInArchive' /\ MissedFromStart'
    BY <2>1, <2>2 DEF SearchInv, StartInv, FoundInArchive, MissedFromStart
  <2>4. PathInv'
    BY <2>1, <2>2 DEF SearchInv, PathInv, OnPath
  <2>5. (IsMember(ooffset)' <=> IsMember(ooffset)) /\ (IsHeader(ooffset)' <=> IsHeader(ooffset))
        /\ (IsHeader(off)' <=> IsHeader(off))
        /\ (IsMember(request.offset)' <=> IsMember(request.offset))
        /\ (IsHeader(request.offset)' <=> IsHeader(request.offset))
        /\ (IsStray(request.offset)' <=> IsStray(request.offset))
    BY <2>1, <2>2
  <2>6. OffsetInv'
    BY <2>1, <2>5 DEF SearchInv, OffsetInv
  <2>7. MissedAtOffset'
    BY <2>1, <2>2, <2>5 DEF SearchInv, MissedAtOffset
  <2>8. ProbeInv'
    BY <2>1, <2>2, <2>5 DEF SearchInv, ProbeInv
  <2>9. ScanInv'
    <3>1. From' = From /\ (FromMember' <=> FromMember)
      BY <2>1, <2>5 DEF From, FromMember
    <3>2. \A i : AtOrBehind(i)' <=> AtOrBehind(i)
      BY <2>1, <2>2, <3>1 DEF AtOrBehind
    <3>. QED
      BY <2>1, <2>2, <3>1, <3>2 DEF SearchInv, ScanInv
  <2>. QED
    BY <2>3, <2>4, <2>6, <2>7, <2>8, <2>9 DEF SearchInv
<1>. QED
  BY <1>1, PathSteps, OpenSteps, EndSteps, MemberSteps, ProbeBegins, ProbeSteps DEF SearchNext

\* A search by itself finds what is named, whatever the archives, the disk and the
\* path, and misses it only as FindsWhatIsNamed says (rtems_rtl_find_file,
\* rtems_rtl_obj_archive_find).
THEOREM SearchFinds == SearchSpec => []FindsWhatIsNamed
<1>1. SearchInit => SearchInv
  BY AtTheStart DEF SearchInit
<1>2. SearchInv /\ [SearchNext]_allVars => SearchInv'
  BY SearchStep
<1>3. SearchInv => FindsWhatIsNamed
  BY InvFinds
<1>. QED
  BY <1>1, <1>2, <1>3, PTL DEF SearchSpec

-----------------------------------------------------------------------------
(* The image. *)

\* Only lists of headers of an object and records of its relocations are worked on.
WorkInv ==
  \/ work.kind \in {"none", "object"}
  \/ work.kind = "headers" /\ work.headers \in HeaderLists
  \/ work.kind = "record" /\ work.record \in Records

ImageInv == SearchInv /\ WorkInv

LEMMA ImageStarts ==
  ASSUME ImageInit
  PROVE  ImageInv
<1>1. SearchInv
  BY AtTheStart DEF ImageInit, SearchInit
<1>2. WorkInv
  BY DEF ImageInit, WorkInv
<1>. QED
  BY <1>1, <1>2 DEF ImageInv

LEMMA ImageStep ==
  ASSUME ImageInv, [ImageNext]_imageVars
  PROVE  ImageInv'
<1>1. CASE Find
  <2>1. SearchInv'
    BY <1>1, SearchStep DEF Find, ImageInv
  <2>2. WorkInv'
    BY <1>1 DEF Find, ImageInv, WorkInv
  <2>. QED
    BY <2>1, <2>2 DEF ImageInv
<1>2. CASE LoadObject
  <2>1. SearchInv'
    <3>1. /\ pc' = "idle" /\ path' = <<>> /\ dir' = 0 /\ fname' = <<>>
          /\ scanning' = FALSE /\ extended' = 0
      BY <1>2 DEF LoadObject, SearchOver
    <3>2. path' \in Seq(Range(path'))
      BY <3>1
    <3>3. request' \in Requests
      BY <1>2, ImageAssumption DEF LoadObject, SearchOver
    <3>. QED
      BY <3>1, <3>2, <3>3 DEF SearchInv, StartInv, PathInv, OffsetInv, ScanInv, ProbeInv,
                              FoundInArchive, MissedFromStart, MissedAtOffset
  <2>2. WorkInv'
    BY <1>2 DEF LoadObject, WorkInv
  <2>. QED
    BY <2>1, <2>2 DEF ImageInv
<1>3. CASE Lay
  <2>1. SearchInv'
    BY <1>3, SearchStep DEF Lay, ImageInv
  <2>2. WorkInv'
    BY <1>3 DEF Lay, WorkInv
  <2>. QED
    BY <2>1, <2>2 DEF ImageInv
<1>4. CASE Patch
  <2>1. SearchInv'
    BY <1>4, SearchStep DEF Patch, ImageInv
  <2>2. WorkInv'
    BY <1>4 DEF Patch, WorkInv
  <2>. QED
    BY <2>1, <2>2 DEF ImageInv
<1>5. CASE UNCHANGED imageVars
  <2>1. SearchInv'
    BY <1>5, SearchStep DEF imageVars, ImageInv
  <2>2. WorkInv'
    BY <1>5 DEF imageVars, ImageInv, WorkInv
  <2>. QED
    BY <2>1, <2>2 DEF ImageInv
<1>. QED
  BY <1>1, <1>2, <1>3, <1>4, <1>5 DEF ImageNext

THEOREM ImageInvariant == ImageSpec => []ImageInv
<1>1. ImageInit => ImageInv
  BY ImageStarts
<1>2. ImageInv /\ [ImageNext]_imageVars => ImageInv'
  BY ImageStep
<1>. QED
  BY <1>1, <1>2, PTL DEF ImageSpec

\* What is loaded is what was named: FindsWhatIsNamed, for any archives, disks and
\* paths (rtems_rtl_find_file, rtems_rtl_obj_archive_find).
THEOREM ImageFinds == ImageSpec => []FindsWhatIsNamed
<1>1. ImageInv => FindsWhatIsNamed
  BY InvFinds DEF ImageInv
<1>. QED
  BY <1>1, ImageInvariant, PTL

\* The sections of an object fit into its regions and are found again: SectionsFit,
\* for any section headers and regions (rtems_rtl_obj_load_sections).
THEOREM ImageFits == ImageSpec => []SectionsFit
<1>1. ASSUME ImageInv PROVE SectionsFit
  <2>1. work.kind = "headers" => work.headers \in HeaderLists
    BY <1>1 DEF ImageInv, WorkInv
  <2>. QED
    BY <2>1, HeadersFit DEF SectionsFit
<1>. QED
  BY <1>1, ImageInvariant, PTL

\* A relocated word reaches its target, that of an arm with the base of the section
\* added: RelocationsReach, for any records and words (rtems_rtl_elf_relocate_rel,
\* rtems_rtl_elf_relocate_rela).
THEOREM ImageReaches == ImageSpec => []RelocationsReach
<1>1. ASSUME ImageInv PROVE RelocationsReach
  <2>1. work.kind = "record" => work.record \in RelocRecord
    BY <1>1, ImageAssumption DEF ImageInv, WorkInv
  <2>. QED
    BY <2>1, RecordsReach DEF RelocationsReach
<1>. QED
  BY <1>1, ImageInvariant, PTL
=============================================================================
