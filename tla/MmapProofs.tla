----------------------------- MODULE MmapProofs ------------------------------
(***************************************************************************)
(* Proofs about Mmap for every set of tasks and every heap: no memory is   *)
(* lost and none is freed twice.                                           *)
(***************************************************************************)
EXTENDS Mmap, SequenceTheorems, WellFoundedInduction, TLAPS

Places == {"idle", "args", "empty", "create", "obtain", "inside", "read", "extract"}
Mapping == [addr : Addresses, fixed : BOOLEAN]

TypeInv ==
  /\ list \in Seq(Mapping)
  /\ heap \subseteq Memory
  /\ pc \in [Tasks -> Places]
  /\ call \in [Tasks -> [op : {"mmap", "munmap"}, addr : Addresses, fixed : BOOLEAN]]
  /\ block \in [Tasks -> Addresses]

\* A fixed mapping is one without memory, while it is made and afterwards.
FixedInv ==
  /\ \A i \in DOMAIN list : list[i].fixed <=> list[i].addr = Null
  /\ \A t \in Tasks :
       IF pc[t] = "read" THEN block[t] = Null <=> call[t].fixed ELSE block[t] = Null

\* A block has one owner, and all that are allocated have one.
OwnerInv ==
  /\ \A i, j \in DOMAIN list :
       list[i].addr = list[j].addr /\ list[i].addr # Null => i = j
  /\ \A t, u \in Tasks : block[t] = block[u] /\ block[t] # Null => t = u
  /\ \A i \in DOMAIN list, t \in Tasks : list[i].addr = block[t] => block[t] = Null
  /\ \A b \in Memory :
       b \in heap <=> \/ \E i \in DOMAIN list : list[i].addr = b
                      \/ \E t \in Tasks : block[t] = b

\* What a munmap is about to extract is still there.
HitInv == \A t \in Tasks : pc[t] = "extract" => Hits(t) # {}

Inv == TypeInv /\ (~broken => FixedInv /\ OwnerInv /\ HitInv)

-----------------------------------------------------------------------------
LEMMA RemoveAtFacts ==
  ASSUME NEW S, NEW s \in Seq(S), NEW i \in DOMAIN s
  PROVE  /\ RemoveAt(s, i) \in Seq(S)
         /\ DOMAIN RemoveAt(s, i) = 1 .. Len(s) - 1
         /\ \A j \in 1 .. Len(s) - 1 :
              RemoveAt(s, i)[j] = IF j < i THEN s[j] ELSE s[j + 1]
<1>. DEFINE front == SubSeq(s, 1, i - 1)
            back  == SubSeq(s, i + 1, Len(s))
<1>1. /\ front \in Seq(S) /\ Len(front) = i - 1
      /\ \A j \in 1 .. i - 1 : front[j] = s[j]
  BY SubSeqProperties
<1>2. /\ back \in Seq(S) /\ Len(back) = Len(s) - i
      /\ \A j \in 1 .. Len(s) - i : back[j] = s[i + j]
  BY SubSeqProperties
<1>3. RemoveAt(s, i) = front \o back
  BY DEF RemoveAt
<1>. HIDE DEF front, back
<1>4. /\ front \o back \in Seq(S) /\ Len(front \o back) = Len(s) - 1
      /\ \A j \in 1 .. Len(s) - 1 :
           (front \o back)[j] = IF j <= i - 1 THEN front[j] ELSE back[j - (i - 1)]
  <2>1. front \in Seq(S) /\ back \in Seq(S)
    BY <1>1, <1>2
  <2>2. /\ front \o back \in Seq(S) /\ Len(front \o back) = Len(front) + Len(back)
        /\ \A j \in 1 .. Len(front) + Len(back) :
             (front \o back)[j] = IF j <= Len(front) THEN front[j] ELSE back[j - Len(front)]
    BY <2>1, ConcatProperties
  <2>3. Len(front) = i - 1 /\ Len(back) = Len(s) - i /\ (i - 1) + (Len(s) - i) = Len(s) - 1
    BY <1>1, <1>2
  <2>. QED
    BY <2>2, <2>3
<1>5. /\ RemoveAt(s, i) \in Seq(S) /\ DOMAIN RemoveAt(s, i) = 1 .. Len(s) - 1
  BY <1>3, <1>4
<1>6. ASSUME NEW j \in 1 .. Len(s) - 1
      PROVE  RemoveAt(s, i)[j] = IF j < i THEN s[j] ELSE s[j + 1]
  <2>1. RemoveAt(s, i)[j] = IF j <= i - 1 THEN front[j] ELSE back[j - (i - 1)]
    BY <1>3, <1>4
  <2>2. CASE j < i
    BY <1>1, <2>1, <2>2
  <2>3. CASE ~ (j < i)
    <3>1. j - (i - 1) \in 1 .. Len(s) - i
      BY <2>3
    <3>2. back[j - (i - 1)] = s[i + (j - (i - 1))]
      BY <1>2, <3>1
    <3>. QED
      BY <2>1, <2>3, <3>2
  <2>. QED
    BY <2>2, <2>3
<1>. QED
  BY <1>5, <1>6

LEMMA Least ==
  ASSUME NEW T, T \subseteq Nat, T # {}
  PROVE  \E n \in T : \A k \in T : n <= k
<1>. DEFINE R == {p \in Nat \X Nat : p[1] < p[2]}
<1>1. IsWellFoundedOn(R, Nat)
  BY NatLessThanWellFounded DEF OpToRel
<1>2. PICK n \in T : \A k \in T : ~ (<<k, n>> \in R)
  BY <1>1, WFMin
<1>3. ASSUME NEW k \in T PROVE n <= k
  <2>1. ~ (<<k, n>> \in R)
    BY <1>2
  <2>2. k \in Nat /\ n \in Nat
    OBVIOUS
  <2>. QED
    BY <2>1, <2>2
<1>. QED
  BY <1>3

\* The first mapping with the wanted address is one of them, and is on the list.
LEMMA FirstFacts ==
  ASSUME TypeInv, NEW t \in Tasks, Hits(t) # {}
  PROVE  First(t) \in DOMAIN list /\ list[First(t)].addr = call[t].addr
<1>1. Hits(t) \subseteq Nat
  BY DEF Hits, TypeInv
<1>2. First(t) \in Hits(t)
  BY <1>1, Least DEF First
<1>. QED
  BY <1>2 DEF Hits, Covers

LEMMA InitInv == MmapInit => Inv
BY MmapAssumption DEF MmapAssumption, MmapInit, Inv, TypeInv, FixedInv, OwnerInv, HitInv,
   Places, Mapping, Addresses

\* A list that is only appended to keeps what a munmap is about to extract.
LEMMA StepInv ==
  ASSUME Inv, [MmapNext]_mmapVars
  PROVE  Inv'
<1>. USE MmapAssumption DEF MmapAssumption
<1>a. CASE UNCHANGED mmapVars
  BY <1>a DEF mmapVars, Inv, TypeInv, FixedInv, OwnerInv, HitInv, Hits, Covers
<1>b. ASSUME NEW t \in Tasks, Step(t), ~broken PROVE Inv'
  <2>. USE <1>b DEF Goto, Release, Inv, TypeInv, FixedInv, OwnerInv, HitInv, Hits, Covers,
           Places, Mapping, Addresses
  <2>1. CASE Reject(t)
    BY <2>1 DEF Reject
  <2>2. CASE Test(t)
    BY <2>2 DEF Test
  <2>3. CASE Empty(t)
    <3>1. TypeInv' /\ (~broken' => list = <<>>)
      BY <2>3, EmptySeq DEF Empty
    <3>2. CASE list = <<>>
      BY <2>3, <3>1, <3>2 DEF Empty
    <3>. QED
      BY <3>1, <3>2
  <2>4. CASE Create(t)
    BY <2>4 DEF Create
  <2>5. CASE CreateFails(t)
    BY <2>5 DEF CreateFails
  <2>6. CASE Obtain(t)
    BY <2>6 DEF Obtain
  <2>7. CASE FixedTaken(t)
    BY <2>7 DEF FixedTaken, Maps
  <2>8. CASE NoMemory(t)
    BY <2>8 DEF NoMemory, Maps
  <2>9. CASE Allocate(t)
    <3>1. CASE call[t].fixed
      BY <2>9, <3>1 DEF Allocate, Maps
    <3>2. CASE ~call[t].fixed
      <4>1. PICK b \in Memory \ heap :
              heap' = heap \union {b} /\ block' = [block EXCEPT ![t] = b]
        BY <2>9, <3>2 DEF Allocate
      <4>2. /\ pc[t] = "inside" /\ pc' = [pc EXCEPT ![t] = "read"]
            /\ UNCHANGED <<list, call, broken>>
        BY <2>9 DEF Allocate, Maps
      <4>3. TypeInv' /\ FixedInv'
        BY <3>2, <4>1, <4>2
      <4>4. OwnerInv'
        <5>1. /\ \A u \in Tasks : block'[u] = IF u = t THEN b ELSE block[u]
              /\ b \in Memory /\ b # Null /\ block[t] = Null
          BY <4>1, <4>2
        <5>2. /\ \A i \in DOMAIN list : list[i].addr # b
              /\ \A u \in Tasks : block[u] # b
          BY <4>1
        <5>. QED
          BY <4>1, <4>2, <5>1, <5>2
      <4>5. HitInv'
        BY <4>2
      <4>. QED
        BY <4>3, <4>4, <4>5
    <3>. QED
      BY <3>1, <3>2
  <2>10. CASE ReadFails(t)
    BY <2>10 DEF ReadFails
  <2>11. CASE Map(t)
    <3>. DEFINE new == [addr |-> block[t], fixed |-> call[t].fixed]
    <3>1. list' = Append(list, new) /\ new \in Mapping
      BY <2>11 DEF Map
    <3>2. /\ list' \in Seq(Mapping) /\ Len(list') = Len(list) + 1
          /\ \A i \in 1 .. Len(list) : list'[i] = list[i]
          /\ list'[Len(list) + 1] = new
      BY <3>1, AppendProperties
    <3>3. TypeInv'
      BY <2>11, <3>2 DEF Map
    <3>4. FixedInv'
      BY <2>11, <3>2 DEF Map
    <3>5. OwnerInv'
      <4>1. /\ DOMAIN list' = 1 .. Len(list) + 1 /\ DOMAIN list = 1 .. Len(list)
            /\ \A u \in Tasks : block'[u] = IF u = t THEN Null ELSE block[u]
            /\ heap' = heap /\ ~broken /\ pc[t] = "read" /\ new.addr = block[t]
        BY <2>11, <3>2 DEF Map
      <4>. HIDE DEF new
      <4>2. \A i, j \in DOMAIN list' :
              list'[i].addr = list'[j].addr /\ list'[i].addr # Null => i = j
        BY <3>2, <4>1
      <4>3. \A i \in DOMAIN list', u \in Tasks :
              list'[i].addr = block'[u] => block'[u] = Null
        BY <3>2, <4>1
      <4>4. \A b \in Memory :
              b \in heap' <=> \/ \E i \in DOMAIN list' : list'[i].addr = b
                              \/ \E u \in Tasks : block'[u] = b
        <5>. SUFFICES ASSUME NEW b \in Memory
                      PROVE  b \in heap <=> \/ \E i \in DOMAIN list' : list'[i].addr = b
                                            \/ \E u \in Tasks : block'[u] = b
          BY <4>1
        <5>1. (\E i \in DOMAIN list' : list'[i].addr = b)
                <=> (\E i \in DOMAIN list : list[i].addr = b) \/ block[t] = b
          BY <3>2, <4>1
        <5>2. (\E u \in Tasks : block[u] = b)
                <=> (\E u \in Tasks : block'[u] = b) \/ block[t] = b
          BY <4>1
        <5>. QED
          BY <4>1, <5>1, <5>2
      <4>. QED
        BY <4>1, <4>2, <4>3, <4>4
    <3>6. HitInv'
      BY <2>11, <3>2 DEF Map
    <3>. QED
      BY <3>3, <3>4, <3>5, <3>6
  <2>12. CASE NotMapped(t)
    BY <2>12 DEF NotMapped, Unmaps
  <2>13. CASE FindMapping(t)
    BY <2>13 DEF FindMapping, Unmaps
  <2>14. CASE Extract(t)
    <3>. DEFINE f == First(t)
                gone == list[f].addr
    <3>1. f \in DOMAIN list /\ Hits(t) # {}
      <4>1. Hits(t) # {} /\ TypeInv
        BY <2>14 DEF Extract
      <4>. QED
        BY <4>1, FirstFacts
    <3>2. /\ list' = RemoveAt(list, f) /\ heap' = heap \ {gone}
          /\ broken' = \E u \in Tasks \ {t} : pc[u] = "extract" /\ First(u) = f
          /\ pc' = [pc EXCEPT ![t] = "idle"] /\ pc[t] = "extract"
          /\ UNCHANGED <<call, block>>
      BY <2>14 DEF Extract
    <3>3. list \in Seq(Mapping)
      OBVIOUS
    <3>. HIDE DEF f
    <3>4. /\ list' \in Seq(Mapping) /\ DOMAIN list' = 1 .. Len(list) - 1
          /\ \A j \in 1 .. Len(list) - 1 : list'[j] = IF j < f THEN list[j] ELSE list[j + 1]
      <4>. HIDE DEF Mapping, TypeInv, FixedInv, OwnerInv, HitInv, Hits
      <4>1. /\ RemoveAt(list, f) \in Seq(Mapping)
            /\ DOMAIN RemoveAt(list, f) = 1 .. Len(list) - 1
            /\ \A j \in 1 .. Len(list) - 1 :
                 RemoveAt(list, f)[j] = IF j < f THEN list[j] ELSE list[j + 1]
        BY <3>1, <3>3, RemoveAtFacts
      <4>2. list' = RemoveAt(list, f)
        BY <3>2
      <4>. QED
        BY <4>1, <4>2
    <3>5. DOMAIN list = 1 .. Len(list) /\ Len(list) \in Nat
      BY <3>3
    <3>6. TypeInv'
      BY <3>2, <3>4
    <3>7. \A j \in DOMAIN list' : \E i \in DOMAIN list \ {f} : list'[j] = list[i]
      <4>. SUFFICES ASSUME NEW j \in DOMAIN list'
                    PROVE  \E i \in DOMAIN list \ {f} : list'[j] = list[i]
        OBVIOUS
      <4>. HIDE DEF Mapping, TypeInv, FixedInv, OwnerInv, HitInv
      <4>. DEFINE i == IF j < f THEN j ELSE j + 1
      <4>1. i \in 1 .. Len(list) /\ i # f
        BY <3>1, <3>4, <3>5
      <4>2. list'[j] = list[i]
        BY <3>4
      <4>. QED
        BY <3>5, <4>1, <4>2
    <3>8. \A i \in DOMAIN list \ {f} : \E j \in DOMAIN list' : list'[j] = list[i]
      <4>. SUFFICES ASSUME NEW i \in DOMAIN list \ {f}
                    PROVE  \E j \in DOMAIN list' : list'[j] = list[i]
        OBVIOUS
      <4>. HIDE DEF Mapping, TypeInv, FixedInv, OwnerInv, HitInv
      <4>. DEFINE j == IF i < f THEN i ELSE i - 1
      <4>1. j \in 1 .. Len(list) - 1
        BY <3>1, <3>5
      <4>2. i = IF j < f THEN j ELSE j + 1
        BY <3>1, <3>5
      <4>3. list'[j] = list[i]
        BY <3>4, <4>1, <4>2
      <4>. QED
        BY <3>4, <4>1, <4>3
    <3>9. FixedInv'
      BY <3>2, <3>7
    <3>10. OwnerInv'
      <4>1. \A i, j \in DOMAIN list' :
              list'[i].addr = list'[j].addr /\ list'[i].addr # Null => i = j
        <5>. SUFFICES ASSUME NEW i \in DOMAIN list', NEW j \in DOMAIN list',
                             list'[i].addr = list'[j].addr, list'[i].addr # Null
                      PROVE  i = j
          OBVIOUS
        <5>1. PICK k \in DOMAIN list : list'[i] = list[k] /\ k = IF i < f THEN i ELSE i + 1
          BY <3>1, <3>4, <3>5
        <5>2. PICK l \in DOMAIN list : list'[j] = list[l] /\ l = IF j < f THEN j ELSE j + 1
          BY <3>1, <3>4, <3>5
        <5>3. k = l
          BY <5>1, <5>2
        <5>. QED
          BY <3>1, <3>4, <3>5, <5>1, <5>2, <5>3
      <4>2. \A i \in DOMAIN list', u \in Tasks :
              list'[i].addr = block'[u] => block'[u] = Null
        BY <3>2, <3>7
      <4>3. \A b \in Memory :
              b \in heap' <=> \/ \E i \in DOMAIN list' : list'[i].addr = b
                              \/ \E u \in Tasks : block'[u] = b
        <5>. SUFFICES ASSUME NEW b \in Memory
                      PROVE  b \in heap' <=> \/ \E i \in DOMAIN list' : list'[i].addr = b
                                             \/ \E u \in Tasks : block[u] = b
          BY <3>2
        <5>1. (\E i \in DOMAIN list' : list'[i].addr = b)
                <=> (\E i \in DOMAIN list \ {f} : list[i].addr = b)
          BY <3>7, <3>8
        <5>2. b # Null
          OBVIOUS
        <5>3. CASE b = gone
          <6>1. \A i \in DOMAIN list \ {f} : list[i].addr # b
            BY <3>1, <5>2, <5>3
          <6>2. \A u \in Tasks : block[u] # b
            BY <3>1, <5>2, <5>3
          <6>. QED
            BY <3>2, <5>1, <5>3, <6>1, <6>2
        <5>4. CASE b # gone
          <6>1. (\E i \in DOMAIN list \ {f} : list[i].addr = b)
                  <=> (\E i \in DOMAIN list : list[i].addr = b)
            BY <5>4
          <6>. QED
            BY <3>2, <5>1, <5>4, <6>1
        <5>. QED
          BY <5>3, <5>4
      <4>4. \A v, u \in Tasks : block'[v] = block'[u] /\ block'[v] # Null => v = u
        BY <3>2
      <4>. QED
        BY <4>1, <4>2, <4>3, <4>4
    <3>11. ~broken' => HitInv'
      <4>. SUFFICES ASSUME ~broken', NEW u \in Tasks, pc'[u] = "extract"
                    PROVE  \E j \in DOMAIN list' : list'[j].addr = call'[u].addr
        OBVIOUS
      <4>1. u # t /\ pc[u] = "extract" /\ Hits(u) # {} /\ TypeInv
        BY <3>2
      <4>2. First(u) \in DOMAIN list /\ list[First(u)].addr = call[u].addr
        BY <4>1, FirstFacts
      <4>3. First(u) # f
        BY <3>2, <4>1
      <4>. QED
        BY <3>2, <3>8, <4>2, <4>3
    <3>. QED
      BY <3>6, <3>9, <3>10, <3>11
  <2>. QED
    BY <1>b, <2>1, <2>2, <2>3, <2>4, <2>5, <2>6, <2>7, <2>8, <2>9, <2>10, <2>11, <2>12,
       <2>13, <2>14 DEF Step
<1>c. ASSUME NEW t \in Tasks, NEW o \in {"mmap", "munmap"}, NEW a \in Addresses,
             NEW f \in BOOLEAN, Call(t, o, a, f)
      PROVE  Inv'
  BY <1>c DEF Call, Goto, Inv, TypeInv, FixedInv, OwnerInv, HitInv, Hits, Covers, Places
<1>. QED
  BY <1>a, <1>b, <1>c DEF MmapNext, Addresses

LEMMA Invariance == MmapSpec => []Inv
BY InitInv, StepInv, PTL DEF MmapSpec

LEMMA InvImpliesListed == Inv => MemoryIsListed
<1>. SUFFICES ASSUME TypeInv, FixedInv, OwnerInv PROVE MemoryIsListed
  BY DEF Inv, MemoryIsListed
<1>. USE MmapAssumption DEF MmapAssumption, TypeInv, FixedInv, OwnerInv, Mapping, Addresses
<1>. DEFINE own  == {i \in DOMAIN list : ~list[i].fixed}
            used == {list[i].addr : i \in own}
            hand == {block[t] : t \in {u \in Tasks : pc[u] = "read"}} \ {Null}
<1>1. \A i \in DOMAIN list : list[i].addr \in Addresses /\ list[i].fixed \in BOOLEAN
  <2>1. \A i \in DOMAIN list : list[i] \in Mapping
    <3>. HIDE DEF Mapping
    <3>. QED
      OBVIOUS
  <2>. QED
    BY <2>1
<1>2. \A b \in Memory : b \in used <=> \E i \in DOMAIN list : list[i].addr = b
  <2>. SUFFICES ASSUME NEW b \in Memory
                PROVE  b \in used <=> \E i \in DOMAIN list : list[i].addr = b
    OBVIOUS
  <2>1. \A i \in DOMAIN list : list[i].addr = b => i \in own
    BY <1>1
  <2>. QED
    BY <2>1
<1>3. used \subseteq Memory
  BY <1>1
<1>4. hand \subseteq Memory
  OBVIOUS
<1>5. \A b \in Memory : b \in hand <=> \E t \in Tasks : block[t] = b
  OBVIOUS
<1>6. heap = used \union hand
  <2>1. \A b \in Memory : b \in heap <=> b \in used \/ b \in hand
    BY <1>2, <1>5
  <2>. QED
    BY <1>3, <1>4, <2>1
<1>7. used \intersect hand = {}
  BY <1>2, <1>3, <1>5
<1>8. \A i, j \in own : list[i].addr = list[j].addr => i = j
  OBVIOUS
<1>. QED
  BY <1>3, <1>6, <1>7, <1>8 DEF MemoryIsListed

\* In every behaviour the memory in use is exactly that of the mappings, each
\* listed once, and what the calls are reading into, until the chain is broken:
\* for any number of tasks, blocks and mappings (mmap, munmap).
THEOREM MemoryIsAccountedFor == MmapSpec => []MemoryIsListed
BY Invariance, InvImpliesListed, PTL
=============================================================================
