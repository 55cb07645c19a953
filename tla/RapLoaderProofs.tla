--------------------------- MODULE RapLoaderProofs ---------------------------
(***************************************************************************)
(* Proofs about RapLoader for all tasks, files and nestings of calls: who  *)
(* holds the mutex, that the list of applications is made before it is     *)
(* used, and that each application on it keeps one object open.            *)
(***************************************************************************)
EXTENDS RapLoader, TLAPS, FiniteSetTheorems, SequenceTheorems,
        WellFoundedInduction

-----------------------------------------------------------------------------
(* The inductive invariant. *)

Pcs     == Obtained \union {"libio", "test", "chain", "obtain"}
Running == {"entry", "fini", "callback"}
Frames  == [op : {"load", "unload", "find", "iterate"}, file : Files \union {NoFile},
            absolute : BOOLEAN, app : AppIds \union {NoApp}, calls : Int, pc : Pcs]
Apps    == [id : AppIds, file : Files, handle : Files \union {NoFile}]

TypeInv ==
  /\ made \in BOOLEAN /\ ready \in BOOLEAN /\ lost \in BOOLEAN
  /\ owner \in Tasks \union {NoTask} /\ nest \in Int
  /\ libio \in Tasks \union {NoTask} /\ stuck \in Tasks \union {NoTask}
  /\ apps \in Seq(Apps)
  /\ users \in [Files -> Int] /\ refused \in [Files -> Int]
  /\ stack \in [Tasks -> Seq(Frames)]
  /\ kept \in [Tasks -> Int]

\* Only the innermost call is at work, the others wait in the program, and only
\* the initialisation and the files of a request are without a name.
StackInv ==
  \A t \in Tasks : \A i \in DOMAIN stack[t] :
    /\ i < Len(stack[t]) => stack[t][i].pc \in Running
    /\ stack[t][i].op # "iterate" => stack[t][i].file \in Files

\* One task at a time initialises.
LibioInv ==
  /\ \A t \in Tasks : IsAt(t, "test") \/ IsAt(t, "chain") => libio = t
  /\ stuck # NoTask => libio = stuck

\* Before the list is initialised nobody is inside, and the mutex is held by the
\* task that initialises it, or by nobody.
ReadyInv ==
  /\ ~ready => \A t \in Tasks : Inside(t) = {} /\ kept[t] = 0
  /\ ready => made
  /\ \A t \in Tasks : IsAt(t, "obtain") => made
  /\ \A t \in Tasks : IsAt(t, "chain") => ~ready /\ made /\ owner = t
  /\ made /\ ~ready => \E t \in Tasks : IsAt(t, "chain")
  /\ ~ready => apps = <<>>

\* The holds of the mutex.
Holds(t) == Cardinality(Inside(t)) + kept[t] + (IF IsAt(t, "chain") THEN 1 ELSE 0)
HoldInv ==
  /\ \A t \in Tasks : kept[t] >= 0
  /\ owner = NoTask <=> nest = 0
  /\ \A t \in Tasks : IF owner = t THEN nest = Holds(t) ELSE Holds(t) = 0

\* Applications have descriptors of their own, and objects are open once for
\* each of them.
Handles(f) == {i \in DOMAIN apps : apps[i].handle = f}
CountInv ==
  /\ \A i, j \in DOMAIN apps : apps[i].id = apps[j].id => i = j
  /\ \A f \in Files : users[f] = Cardinality(Handles(f)) + refused[f]

\* What a call knows of its application.
Listed(id, H) == \E k \in DOMAIN apps : apps[k].id = id /\ apps[k].handle \in H
Placed(fr) ==
  /\ fr.pc \in {"dlopen", "dlsym", "entry", "fini", "callback"} => fr.app # NoApp
  /\ fr.app # NoApp => fr.pc \in Obtained /\ Listed(fr.app, Files \union {NoFile})
  /\ fr.pc = "dlopen" => fr.file \in Files /\ Listed(fr.app, {NoFile})
  /\ fr.pc = "dlsym" => Listed(fr.app, Files)
  /\ fr.pc \in {"entry", "fini"} => Listed(fr.app, HasEntry)

\* The application a call may free is not one of the calls below it.
Frees == {"dlopen", "dlsym", "entry", "fini"}
Apart(s) ==
  \A i, j \in DOMAIN s : i < j /\ s[j].pc \in Frees => s[i].app # s[j].app

\* Nor is the one an unload is going to find.
Asking == {"libio", "test", "chain", "obtain", "find"}
Spared(s) ==
  \A j \in DOMAIN s : s[j].op = "unload" /\ s[j].pc \in Asking =>
    \A k \in DOMAIN apps : k = FindIndex(s[j].file, s[j].absolute) =>
      \A i \in DOMAIN s : i < j => s[i].app # apps[k].id

Settled(s) == (\A i \in DOMAIN s : Placed(s[i])) /\ Apart(s) /\ Spared(s)
FrameInv   == \A t \in Tasks : Settled(stack[t])

Inv == /\ TypeInv /\ StackInv /\ LibioInv /\ ReadyInv /\ HoldInv
       /\ CountInv /\ FrameInv

-----------------------------------------------------------------------------
(* Searching the list. *)

LEMMA MinFacts ==
  ASSUME NEW S, S \subseteq Nat, S # {}
  PROVE  Min(S) \in S
<1>. DEFINE R == {p \in Nat \X Nat : p[1] < p[2]}
<1>1. IsWellFoundedOn(R, Nat)
  BY NatLessThanWellFounded DEF OpToRel
<1>2. PICK x \in S : \A y \in S : ~ (<<y, x>> \in R)
  BY <1>1, WFMin
<1>3. \A y \in S : x <= y
  <2>. SUFFICES ASSUME NEW y \in S PROVE x <= y
    OBVIOUS
  <2>1. x \in Nat /\ y \in Nat /\ ~ (y < x)
    BY <1>2
  <2>. QED
    BY <2>1
<1>. QED
  BY <1>3 DEF Min

\* The index of a descriptor, and of what rtems_rap_find finds.
LEMMA AppIndexFacts ==
  ASSUME apps \in Seq(Apps), NEW id
  PROVE  /\ Listed(id, Files \union {NoFile}) =>
              AppIndex(id) \in DOMAIN apps /\ apps[AppIndex(id)].id = id
         /\ AppIndex(id) \in Nat
<1>. DEFINE I == {i \in 1 .. Len(apps) : apps[i].id = id}
<1>1. AppIndex(id) = IF I # {} THEN Min(I) ELSE 0
  BY DEF AppIndex, SelectInSeq
<1>2. I \subseteq Nat /\ I \subseteq DOMAIN apps
  OBVIOUS
<1>3. Listed(id, Files \union {NoFile}) => I # {}
  BY DEF Listed
<1>4. I # {} => Min(I) \in I
  <2>. HIDE DEF I
  <2>. QED
    BY <1>2, MinFacts
<1>. QED
  BY <1>1, <1>2, <1>3, <1>4

LEMMA FindIndexFacts ==
  ASSUME apps \in Seq(Apps), NEW f, NEW a
  PROVE  FindIndex(f, a) \in DOMAIN apps \union {0}
<1>. DEFINE I == {i \in 1 .. Len(apps) : Matches(apps[i], f, a)}
<1>1. FindIndex(f, a) = IF I # {} THEN Min(I) ELSE 0
  BY DEF FindIndex, SelectInSeq
<1>2. I \subseteq Nat /\ I \subseteq DOMAIN apps
  OBVIOUS
<1>3. I # {} => Min(I) \in I
  <2>. HIDE DEF I
  <2>. QED
    BY <1>2, MinFacts
<1>. QED
  BY <1>1, <1>2, <1>3

-----------------------------------------------------------------------------
(* Stacks of calls. *)

\* The innermost call goes on as fr, it returns, or it makes the call fr.
SwapTo(t, fr) == stack' = [stack EXCEPT ![t] = [stack[t] EXCEPT ![Len(stack[t])] = fr]]
Push(t, fr) ==
  LET caller == IF stack[t] = <<>> THEN <<>>
                ELSE Append(Front(stack[t]), [Top(t) EXCEPT !.calls = @ + 1])
  IN  stack' = [stack EXCEPT ![t] = Append(caller, fr)]

LEMMA SwapFacts ==
  ASSUME TypeInv, NEW t \in Tasks, stack[t] # <<>>, NEW fr \in Frames, SwapTo(t, fr)
  PROVE  /\ stack' \in [Tasks -> Seq(Frames)]
         /\ \A u \in Tasks \ {t} : stack'[u] = stack[u]
         /\ Len(stack'[t]) = Len(stack[t]) /\ DOMAIN stack'[t] = DOMAIN stack[t]
         /\ Len(stack[t]) \in DOMAIN stack[t] /\ stack'[t][Len(stack[t])] = fr
         /\ \A i \in DOMAIN stack[t] : i # Len(stack[t]) => stack'[t][i] = stack[t][i]
<1>. DEFINE s == stack[t]
<1>1. stack \in [Tasks -> Seq(Frames)] /\ s \in Seq(Frames) /\ s # <<>>
  BY DEF TypeInv
<1>2. stack' = [stack EXCEPT ![t] = [s EXCEPT ![Len(s)] = fr]]
  BY DEF SwapTo
<1>. HIDE DEF s
<1>3. DOMAIN s = 1 .. Len(s) /\ Len(s) \in Nat /\ Len(s) \in DOMAIN s
  BY <1>1
<1>. DEFINE r == [s EXCEPT ![Len(s)] = fr]
<1>4. r \in Seq(Frames) /\ Len(r) = Len(s) /\ DOMAIN r = DOMAIN s /\ r[Len(s)] = fr
      /\ \A i \in DOMAIN s : i # Len(s) => r[i] = s[i]
  BY <1>1, <1>3
<1>5. stack'[t] = r /\ \A u \in Tasks \ {t} : stack'[u] = stack[u]
  BY <1>1, <1>2
<1>6. stack' \in [Tasks -> Seq(Frames)]
  <2>. HIDE DEF r
  <2>. QED
    BY <1>1, <1>2, <1>4 DEF r
<1>. QED
  BY <1>3, <1>4, <1>5, <1>6 DEF s

LEMMA PopFacts ==
  ASSUME TypeInv, NEW t \in Tasks, stack[t] # <<>>, Return(t)
  PROVE  /\ stack' \in [Tasks -> Seq(Frames)]
         /\ \A u \in Tasks \ {t} : stack'[u] = stack[u]
         /\ Len(stack[t]) \in DOMAIN stack[t] /\ Len(stack'[t]) = Len(stack[t]) - 1
         /\ DOMAIN stack'[t] = DOMAIN stack[t] \ {Len(stack[t])}
         /\ \A i \in DOMAIN stack'[t] : stack'[t][i] = stack[t][i]
<1>. DEFINE s == stack[t]
            r == SubSeq(s, 1, Len(s) - 1)
<1>1. stack \in [Tasks -> Seq(Frames)] /\ s \in Seq(Frames) /\ s # <<>>
  BY DEF TypeInv
<1>2. stack' = [stack EXCEPT ![t] = r]
  BY DEF Return, Front
<1>. HIDE DEF s
<1>3. DOMAIN s = 1 .. Len(s) /\ Len(s) \in Nat /\ Len(s) \in DOMAIN s
  BY <1>1
<1>. HIDE DEF Frames
<1>4. r \in Seq(Frames) /\ Len(r) = Len(s) - 1 /\ \A i \in 1 .. Len(s) - 1 : r[i] = s[i]
  BY <1>1, <1>3
<1>5. DOMAIN r = 1 .. Len(s) - 1
  BY <1>3, <1>4
<1>. HIDE DEF r
<1>6. stack'[t] = r /\ stack' \in [Tasks -> Seq(Frames)]
      /\ \A u \in Tasks \ {t} : stack'[u] = stack[u]
  BY <1>1, <1>2, <1>4
<1>7. DOMAIN r = DOMAIN s \ {Len(s)}
  BY <1>3, <1>5
<1>8. \A i \in DOMAIN r : r[i] = s[i]
  BY <1>4, <1>5
<1>. QED
  BY <1>3, <1>4, <1>6, <1>7, <1>8 DEF s

\* A call that differs in the calls it has made only.
Alike(x, y) ==
  x.op = y.op /\ x.file = y.file /\ x.absolute = y.absolute /\ x.app = y.app /\ x.pc = y.pc

LEMMA PushFacts ==
  ASSUME TypeInv, NEW t \in Tasks, NEW fr \in Frames, Push(t, fr)
  PROVE  /\ stack' \in [Tasks -> Seq(Frames)]
         /\ \A u \in Tasks \ {t} : stack'[u] = stack[u]
         /\ Len(stack[t]) \in Nat /\ DOMAIN stack[t] = 1 .. Len(stack[t])
         /\ Len(stack'[t]) = Len(stack[t]) + 1 /\ DOMAIN stack'[t] = 1 .. Len(stack[t]) + 1
         /\ stack'[t][Len(stack[t]) + 1] = fr
         /\ \A i \in DOMAIN stack[t] : Alike(stack'[t][i], stack[t][i])
<1>. DEFINE s == stack[t]
            e == [s[Len(s)] EXCEPT !.calls = @ + 1]
            b == SubSeq(s, 1, Len(s) - 1)
            caller == IF s = <<>> THEN <<>> ELSE Append(b, e)
            r == Append(caller, fr)
<1>1. stack \in [Tasks -> Seq(Frames)] /\ s \in Seq(Frames)
  BY DEF TypeInv
<1>2. stack' = [stack EXCEPT ![t] = r]
  BY DEF Push, Front, Top, Last
<1>. HIDE DEF s
<1>3. DOMAIN s = 1 .. Len(s) /\ Len(s) \in Nat
  BY <1>1
<1>4. \A f \in Frames : LET g == [f EXCEPT !.calls = @ + 1] IN g \in Frames /\ Alike(g, f)
  BY DEF Frames, Alike
<1>5. /\ caller \in Seq(Frames) /\ Len(caller) = Len(s)
      /\ \A i \in DOMAIN s : Alike(caller[i], s[i])
  <2>1. CASE s = <<>>
    BY <2>1
  <2>2. CASE s # <<>>
    <3>. HIDE DEF Frames
    <3>1. Len(s) \in DOMAIN s /\ s[Len(s)] \in Frames
      BY <1>1, <1>3, <2>2
    <3>2. e \in Frames /\ Alike(e, s[Len(s)])
      BY <1>4, <3>1
    <3>3. b \in Seq(Frames) /\ Len(b) = Len(s) - 1 /\ \A i \in 1 .. Len(s) - 1 : b[i] = s[i]
      BY <1>1, <1>3, <3>1
    <3>. HIDE DEF b, e
    <3>4. Append(b, e) \in Seq(Frames) /\ Len(Append(b, e)) = Len(s)
          /\ Append(b, e)[Len(s)] = e
      <4>1. Append(b, e) \in Seq(Frames) /\ Len(Append(b, e)) = Len(b) + 1
            /\ Append(b, e)[Len(b) + 1] = e
        BY <3>2, <3>3
      <4>2. Len(b) + 1 = Len(s)
        BY <1>3, <3>3
      <4>. QED
        BY <4>1, <4>2
    <3>5. \A i \in 1 .. Len(s) - 1 : Append(b, e)[i] = s[i]
      BY <1>3, <3>2, <3>3
    <3>6. \A i \in DOMAIN s : Alike(s[i], s[i])
      BY DEF Alike
    <3>7. ASSUME NEW i \in DOMAIN s PROVE Alike(Append(b, e)[i], s[i])
      <4>1. CASE i = Len(s)
        BY <3>2, <3>4, <4>1
      <4>2. CASE i \in 1 .. Len(s) - 1
        <5>1. Append(b, e)[i] = s[i]
          BY <3>5, <4>2
        <5>. QED
          BY <5>1 DEF Alike
      <4>3. i = Len(s) \/ i \in 1 .. Len(s) - 1
        BY <1>3
      <4>. QED
        BY <4>1, <4>2, <4>3
    <3>. QED
      BY <2>2, <3>4, <3>7
  <2>. QED
    BY <2>1, <2>2
<1>. HIDE DEF caller, Frames
<1>6. r \in Seq(Frames) /\ Len(r) = Len(s) + 1 /\ r[Len(s) + 1] = fr
  BY <1>3, <1>5
<1>7. \A i \in 1 .. Len(s) : r[i] = caller[i]
  BY <1>3, <1>5
<1>8. DOMAIN r = 1 .. Len(s) + 1
  BY <1>3, <1>6
<1>. HIDE DEF r
<1>9. stack'[t] = r /\ stack' \in [Tasks -> Seq(Frames)]
      /\ \A u \in Tasks \ {t} : stack'[u] = stack[u]
  BY <1>1, <1>2, <1>6
<1>10. \A i \in DOMAIN s : Alike(r[i], s[i])
  BY <1>3, <1>5, <1>7
<1>. QED
  BY <1>3, <1>6, <1>8, <1>9, <1>10 DEF s

LEMMA TopFacts ==
  ASSUME TypeInv, StackInv, NEW t \in Tasks, stack[t] # <<>>
  PROVE  /\ Top(t) = stack[t][Len(stack[t])] /\ Len(stack[t]) \in DOMAIN stack[t]
         /\ Top(t) \in Frames /\ (Top(t).op # "iterate" => Top(t).file \in Files)
<1>1. stack[t] \in Seq(Frames)
  BY DEF TypeInv
<1>2. Len(stack[t]) \in DOMAIN stack[t] /\ stack[t][Len(stack[t])] \in Frames
  <2>. HIDE DEF Frames
  <2>. QED
    BY <1>1
<1>. QED
  BY <1>2 DEF Top, Last, StackInv

\* The call goes on elsewhere.
Moved(t, pc)      == [Top(t) EXCEPT !.pc = pc]
MovedApp(t, pc, a) == [Top(t) EXCEPT !.pc = pc, !.app = a]

LEMMA MovedFacts ==
  ASSUME TypeInv, StackInv, NEW t \in Tasks, stack[t] # <<>>, NEW pc \in Pcs,
         NEW a \in AppIds \union {NoApp}
  PROVE  /\ Moved(t, pc) \in Frames /\ Moved(t, pc).pc = pc
         /\ Moved(t, pc).op = Top(t).op /\ Moved(t, pc).file = Top(t).file
         /\ Moved(t, pc).absolute = Top(t).absolute /\ Moved(t, pc).app = Top(t).app
         /\ MovedApp(t, pc, a) \in Frames /\ MovedApp(t, pc, a).pc = pc
         /\ MovedApp(t, pc, a).op = Top(t).op /\ MovedApp(t, pc, a).file = Top(t).file
         /\ MovedApp(t, pc, a).absolute = Top(t).absolute /\ MovedApp(t, pc, a).app = a
<1>1. Top(t) \in Frames
  BY TopFacts
<1>. QED
  BY <1>1 DEF Moved, MovedApp, Frames

LEMMA MovedPlain ==
  ASSUME TypeInv, StackInv, NEW t \in Tasks, stack[t] # <<>>, NEW pc \in Pcs
  PROVE  /\ Moved(t, pc) \in Frames /\ Moved(t, pc).pc = pc
         /\ Moved(t, pc).op = Top(t).op /\ Moved(t, pc).file = Top(t).file
         /\ Moved(t, pc).absolute = Top(t).absolute /\ Moved(t, pc).app = Top(t).app
<1>1. Top(t) \in Frames
  BY TopFacts
<1>. QED
  BY <1>1 DEF Moved, Frames

LEMMA GotoSwaps ==
  ASSUME TypeInv, StackInv, NEW t \in Tasks, stack[t] # <<>>, NEW pc, NEW a
  PROVE  /\ Goto(t, pc) => SwapTo(t, Moved(t, pc))
         /\ GotoApp(t, pc, a) => SwapTo(t, MovedApp(t, pc, a))
<1>1. stack \in [Tasks -> Seq(Frames)] /\ Len(stack[t]) \in DOMAIN stack[t]
      /\ Top(t) = stack[t][Len(stack[t])]
  BY TopFacts DEF TypeInv
<1>2. Goto(t, pc) => SwapTo(t, Moved(t, pc))
  BY <1>1 DEF Goto, SwapTo, Moved
<1>3. GotoApp(t, pc, a) => SwapTo(t, MovedApp(t, pc, a))
  BY <1>1 DEF GotoApp, SwapTo, MovedApp
<1>. QED
  BY <1>2, <1>3

\* What a call does with the stack of its task.
LEMMA SwapStack ==
  ASSUME TypeInv, StackInv, NEW t \in Tasks, stack[t] # <<>>, NEW fr \in Frames, SwapTo(t, fr),
         fr.op # "iterate" => fr.file \in Files
  PROVE  stack' \in [Tasks -> Seq(Frames)] /\ StackInv'
<1>1. ASSUME NEW u \in Tasks, NEW i \in DOMAIN stack'[u]
      PROVE  /\ i < Len(stack'[u]) => stack'[u][i].pc \in Running
             /\ stack'[u][i].op # "iterate" => stack'[u][i].file \in Files
  <2>1. CASE u # t
    BY <1>1, <2>1, SwapFacts DEF StackInv
  <2>2. CASE u = t /\ i = Len(stack[t])
    BY <2>2, SwapFacts
  <2>3. CASE u = t /\ i # Len(stack[t])
    BY <1>1, <2>3, SwapFacts DEF StackInv
  <2>. QED
    BY <2>1, <2>2, <2>3
<1>. QED
  BY <1>1, SwapFacts DEF StackInv

LEMMA PopStack ==
  ASSUME TypeInv, StackInv, NEW t \in Tasks, stack[t] # <<>>, Return(t)
  PROVE  stack' \in [Tasks -> Seq(Frames)] /\ StackInv'
<1>1. ASSUME NEW u \in Tasks, NEW i \in DOMAIN stack'[u]
      PROVE  /\ i < Len(stack'[u]) => stack'[u][i].pc \in Running
             /\ stack'[u][i].op # "iterate" => stack'[u][i].file \in Files
  <2>1. CASE u # t
    BY <1>1, <2>1, PopFacts DEF StackInv
  <2>2. CASE u = t
    <3>1. Len(stack[t]) \in Nat /\ DOMAIN stack[t] = 1 .. Len(stack[t])
      BY DEF TypeInv
    <3>2. i \in DOMAIN stack[t] /\ i < Len(stack[t]) /\ stack'[t][i] = stack[t][i]
      BY <1>1, <2>2, <3>1, PopFacts
    <3>. QED
      BY <2>2, <3>2 DEF StackInv
  <2>. QED
    BY <2>1, <2>2
<1>. QED
  BY <1>1, PopFacts DEF StackInv

LEMMA PushStack ==
  ASSUME TypeInv, StackInv, NEW t \in Tasks, InProgram(t), NEW fr \in Frames, Push(t, fr),
         fr.op # "iterate" => fr.file \in Files
  PROVE  stack' \in [Tasks -> Seq(Frames)] /\ StackInv'
<1>1. ASSUME NEW u \in Tasks, NEW i \in DOMAIN stack'[u]
      PROVE  /\ i < Len(stack'[u]) => stack'[u][i].pc \in Running
             /\ stack'[u][i].op # "iterate" => stack'[u][i].file \in Files
  <2>1. CASE u # t
    BY <1>1, <2>1, PushFacts DEF StackInv
  <2>2. CASE u = t /\ i \in DOMAIN stack[t]
    <3>1. Alike(stack'[t][i], stack[t][i])
      BY <2>2, PushFacts
    <3>2. stack[t][i].pc \in Running
      <4>1. CASE i = Len(stack[t])
        <5>1. stack[t] # <<>>
          BY <2>2
        <5>. QED
          BY <4>1, <5>1, TopFacts DEF InProgram, Running
      <4>2. CASE i # Len(stack[t])
        <5>1. i < Len(stack[t])
          BY <2>2, <4>2, PushFacts
        <5>. QED
          BY <2>2, <5>1 DEF StackInv
      <4>. QED
        BY <4>1, <4>2
    <3>. QED
      BY <2>2, <3>1, <3>2 DEF Alike, StackInv
  <2>3. CASE u = t /\ i = Len(stack[t]) + 1
    BY <2>3, PushFacts
  <2>4. u = t => i \in DOMAIN stack[t] \/ i = Len(stack[t]) + 1
    BY <1>1, PushFacts
  <2>. QED
    BY <2>1, <2>2, <2>3, <2>4
<1>. QED
  BY <1>1, PushFacts DEF StackInv

-----------------------------------------------------------------------------
(* The list of applications: an application comes, gets its object, goes. *)

LEMMA RemoveFacts ==
  ASSUME apps \in Seq(Apps), NEW k \in DOMAIN apps
  PROVE  /\ RemoveAt(apps, k) \in Seq(Apps)
         /\ DOMAIN RemoveAt(apps, k) = 1 .. Len(apps) - 1
         /\ \A i \in 1 .. Len(apps) - 1 :
              RemoveAt(apps, k)[i] = IF i < k THEN apps[i] ELSE apps[i + 1]
<1>. DEFINE n == Len(apps)
            x == SubSeq(apps, 1, k - 1)
            y == SubSeq(apps, k + 1, n)
<1>1. n \in Nat /\ k \in 1 .. n /\ DOMAIN apps = 1 .. n
  OBVIOUS
<1>2. x \in Seq(Apps) /\ Len(x) = k - 1 /\ \A i \in 1 .. k - 1 : x[i] = apps[i]
  <2>. HIDE DEF Apps
  <2>. QED
    BY <1>1
<1>3. y \in Seq(Apps) /\ Len(y) = n - k /\ \A i \in 1 .. n - k : y[i] = apps[k + i]
  <2>. HIDE DEF Apps
  <2>1. \A i \in k + 1 .. n : apps[i] \in Apps
    BY <1>1
  <2>2. CASE k = n
    <3>1. y = <<>>
      BY <1>1, <2>2
    <3>. QED
      BY <1>1, <2>2, <3>1
  <2>3. CASE k < n
    <3>1. y \in Seq(Apps) /\ Len(y) = n - (k + 1) + 1
      BY <1>1, <2>1, <2>3
    <3>2. \A i \in 1 .. n - (k + 1) + 1 : y[i] = apps[k + 1 + i - 1]
      BY <1>1, <2>1, <2>3
    <3>3. n - (k + 1) + 1 = n - k /\ \A i \in 1 .. n - k : k + 1 + i - 1 = k + i
      BY <1>1
    <3>. HIDE DEF y, n
    <3>. QED
      BY <3>1, <3>2, <3>3
  <2>. QED
    BY <1>1, <2>2, <2>3
<1>4. RemoveAt(apps, k) = x \o y
  BY DEF RemoveAt
<1>. HIDE DEF x, y, n
<1>. HIDE DEF Apps
<1>8. /\ x \o y \in Seq(Apps) /\ Len(x \o y) = Len(x) + Len(y)
      /\ \A i \in 1 .. Len(x) + Len(y) :
           (x \o y)[i] = IF i <= Len(x) THEN x[i] ELSE y[i - Len(x)]
  BY <1>2, <1>3, ConcatProperties
<1>5. x \o y \in Seq(Apps) /\ Len(x \o y) = n - 1
  <2>1. (k - 1) + (n - k) = n - 1
    BY <1>1
  <2>. QED
    BY <1>2, <1>3, <1>8, <2>1
<1>9. \A i \in 1 .. n - 1 : (x \o y)[i] = IF i <= k - 1 THEN x[i] ELSE y[i - (k - 1)]
  <2>1. (k - 1) + (n - k) = n - 1
    BY <1>1
  <2>. QED
    BY <1>2, <1>3, <1>8, <2>1
<1>6. ASSUME NEW i \in 1 .. n - 1
      PROVE  (x \o y)[i] = IF i < k THEN apps[i] ELSE apps[i + 1]
  <2>1. CASE i < k
    <3>1. i \in 1 .. k - 1 /\ i <= k - 1
      BY <1>1, <2>1
    <3>2. (x \o y)[i] = x[i]
      BY <1>9, <3>1
    <3>. QED
      BY <1>2, <2>1, <3>1, <3>2
  <2>2. CASE ~ (i < k)
    <3>1. i - (k - 1) \in 1 .. n - k /\ ~ (i <= k - 1) /\ k + (i - (k - 1)) = i + 1
      BY <1>1, <2>2
    <3>2. (x \o y)[i] = y[i - (k - 1)]
      BY <1>9, <3>1
    <3>. QED
      BY <1>3, <2>2, <3>1, <3>2
  <2>. QED
    BY <2>1, <2>2
<1>7. DOMAIN (x \o y) = 1 .. n - 1
  BY <1>1, <1>5
<1>. QED
  BY <1>4, <1>5, <1>6, <1>7 DEF n

\* The indices behind the one that is removed move up by one.
Up(i, k) == IF i < k THEN i ELSE i + 1

LEMMA UpFacts ==
  ASSUME NEW n \in Nat, NEW k \in 1 .. n
  PROVE  /\ \A i \in 1 .. n - 1 : Up(i, k) \in (1 .. n) \ {k}
         /\ \A i, j \in 1 .. n - 1 : Up(i, k) = Up(j, k) => i = j
         /\ \A m \in (1 .. n) \ {k} : \E i \in 1 .. n - 1 : Up(i, k) = m
<1>1. ASSUME NEW m \in (1 .. n) \ {k} PROVE \E i \in 1 .. n - 1 : Up(i, k) = m
  <2>1. CASE m < k
    <3>1. m \in 1 .. n - 1 /\ Up(m, k) = m
      BY <2>1 DEF Up
    <3>. QED
      BY <3>1
  <2>2. CASE ~ (m < k)
    <3>1. m - 1 \in 1 .. n - 1 /\ Up(m - 1, k) = m
      BY <2>2 DEF Up
    <3>. QED
      BY <3>1
  <2>. QED
    BY <2>1, <2>2
<1>. QED
  BY <1>1 DEF Up

LEMMA HandlesFinite ==
  ASSUME apps \in Seq(Apps), NEW f
  PROVE  IsFiniteSet(Handles(f)) /\ Cardinality(Handles(f)) \in Nat
<1>1. IsFiniteSet(1 .. Len(apps))
  BY FS_Interval
<1>2. Handles(f) \subseteq 1 .. Len(apps)
  BY DEF Handles
<1>. QED
  BY <1>1, <1>2, FS_Subset, FS_CardinalityType

\* Applications other than id keep their places on the list.
Others(id) ==
  \A a, H : a # id /\ Listed(a, H) =>
    \E m \in DOMAIN apps' : apps'[m].id = a /\ apps'[m].handle \in H

\* What calls hold when they hold application id, and are about to free it.
LEMMA FreeCounts ==
  ASSUME TypeInv, CountInv, NEW id, Listed(id, Files \union {NoFile}), AppFree(id)
  PROVE  apps' \in Seq(Apps) /\ users' \in [Files -> Int] /\ refused' \in [Files -> Int] /\ CountInv' /\ Others(id)
<1>. DEFINE k == AppIndex(id)
            n == Len(apps)
            h == apps[k].handle
<1>1. /\ apps \in Seq(Apps) /\ NoFile \notin Files
      /\ users \in [Files -> Int] /\ refused \in [Files -> Int]
  BY RapAssumption DEF TypeInv, RapAssumption
<1>2. k \in DOMAIN apps /\ apps[k].id = id /\ DOMAIN apps = 1 .. n /\ n \in Nat
  <2>1. k \in DOMAIN apps /\ apps[k].id = id
    BY <1>1, AppIndexFacts
  <2>2. DOMAIN apps = 1 .. n /\ n \in Nat
    BY <1>1
  <2>. QED
    BY <2>1, <2>2
<1>3. apps[k] \in Apps
  <2>. HIDE DEF Apps
  <2>. QED
    BY <1>1, <1>2
<1>4. h \in Files \union {NoFile}
  BY <1>3 DEF Apps
<1>5. /\ apps' = RemoveAt(apps, k)
      /\ \/ /\ users' = IF h = NoFile THEN users ELSE [users EXCEPT ![h] = @ - 1]
            /\ refused' = refused
         \/ /\ h # NoFile /\ users' = users
            /\ refused' = [refused EXCEPT ![h] = @ + 1]
  BY DEF AppFree, AppOf
<1>. HIDE DEF k, n, h
<1>6. /\ apps' \in Seq(Apps) /\ DOMAIN apps' = 1 .. n - 1
      /\ \A i \in 1 .. n - 1 : apps'[i] = apps[Up(i, k)]
  <2>1. \A i \in 1 .. n - 1 : apps'[i] = IF i < k THEN apps[i] ELSE apps[i + 1]
    BY <1>1, <1>2, <1>5, RemoveFacts DEF n
  <2>2. apps' \in Seq(Apps) /\ DOMAIN apps' = 1 .. n - 1
    BY <1>1, <1>2, <1>5, RemoveFacts DEF n
  <2>. QED
    BY <2>1, <2>2 DEF Up
<1>7. /\ \A i \in 1 .. n - 1 : Up(i, k) \in (1 .. n) \ {k}
      /\ \A i, j \in 1 .. n - 1 : Up(i, k) = Up(j, k) => i = j
      /\ \A m \in (1 .. n) \ {k} : \E i \in 1 .. n - 1 : Up(i, k) = m
  BY <1>2, UpFacts
<1>8. users' \in [Files -> Int] /\ refused' \in [Files -> Int]
  BY <1>1, <1>4, <1>5
<1>9. ASSUME NEW i \in DOMAIN apps', NEW j \in DOMAIN apps', apps'[i].id = apps'[j].id
      PROVE  i = j
  BY <1>2, <1>6, <1>7, <1>9 DEF CountInv
<1>10. ASSUME NEW f \in Files PROVE users'[f] = Cardinality(Handles(f)') + refused'[f]
  <2>. DEFINE A == Handles(f)'
              B == Handles(f) \ {k}
              g == [i \in A |-> Up(i, k)]
  <2>1. A \subseteq 1 .. n - 1 /\ Handles(f) \subseteq 1 .. n
    BY <1>2, <1>6 DEF Handles
  <2>2. \A i \in 1 .. n - 1 : i \in A <=> Up(i, k) \in B
    BY <1>2, <1>6, <1>7 DEF Handles
  <2>3. IsFiniteSet(A)
    BY <2>1, FS_Interval, FS_Subset, <1>2
  <2>. HIDE DEF A, B
  <2>4. g \in Bijection(A, B)
    <3>1. g \in [A -> B]
      BY <2>1, <2>2
    <3>2. \A i, j \in A : g[i] = g[j] => i = j
      BY <1>7, <2>1
    <3>3. \A m \in B : \E i \in A : g[i] = m
      <4>1. ASSUME NEW m \in B PROVE \E i \in A : g[i] = m
        <5>1. PICK i \in 1 .. n - 1 : Up(i, k) = m
          BY <1>7, <2>1 DEF B
        <5>2. i \in A
          BY <2>2, <5>1
        <5>. QED
          BY <5>1, <5>2
      <4>. QED
        BY <4>1
    <3>. QED
      BY <3>1, <3>2, <3>3 DEF Bijection, Injection, Surjection, IsInjective
  <2>5. Cardinality(A) = Cardinality(B)
    BY <2>3, <2>4, FS_Bijection DEF ExistsBijection
  <2>6. IsFiniteSet(Handles(f)) /\ Cardinality(Handles(f)) \in Nat
    BY <1>1, HandlesFinite
  <2>7. Cardinality(B) = IF k \in Handles(f) THEN Cardinality(Handles(f)) - 1
                                            ELSE Cardinality(Handles(f))
    <3>1. k \notin Handles(f) => B = Handles(f)
      BY DEF B
    <3>. QED
      BY <2>6, <3>1, FS_RemoveElement DEF B
  <2>8. k \in Handles(f) <=> h = f
    BY <1>2 DEF Handles, h
  <2>9. users'[f] - refused'[f] = users[f] - refused[f] - (IF h = f THEN 1 ELSE 0)
    <3>1. CASE /\ users' = IF h = NoFile THEN users ELSE [users EXCEPT ![h] = @ - 1]
               /\ refused' = refused
      BY <1>1, <1>4, <3>1
    <3>2. CASE /\ h # NoFile /\ users' = users
               /\ refused' = [refused EXCEPT ![h] = @ + 1]
      BY <1>1, <1>4, <3>2
    <3>. QED
      BY <1>5, <3>1, <3>2
  <2>10. users[f] = Cardinality(Handles(f)) + refused[f]
    BY DEF CountInv
  <2>11. users[f] \in Int /\ refused[f] \in Int /\ users'[f] \in Int /\ refused'[f] \in Int
    BY <1>1, <1>8
  <2>12. Cardinality(A) = Cardinality(Handles(f)) - (IF h = f THEN 1 ELSE 0)
    BY <2>5, <2>6, <2>7, <2>8
  <2>. QED
    BY <2>6, <2>9, <2>10, <2>11, <2>12 DEF A
<1>11. ASSUME NEW a, NEW H, a # id, Listed(a, H)
       PROVE  \E m \in DOMAIN apps' : apps'[m].id = a /\ apps'[m].handle \in H
  <2>1. PICK j \in DOMAIN apps : apps[j].id = a /\ apps[j].handle \in H
    BY <1>11 DEF Listed
  <2>2. PICK m \in 1 .. n - 1 : Up(m, k) = j
    BY <1>2, <1>7, <1>11, <2>1
  <2>. QED
    BY <1>6, <2>1, <2>2
<1>12. CountInv'
  BY <1>9, <1>10 DEF CountInv
<1>13. Others(id)
  BY <1>11 DEF Others
<1>. QED
  BY <1>6, <1>8, <1>12, <1>13

\* A new application, without an object yet.
LEMMA AppendCounts ==
  ASSUME TypeInv, CountInv, NEW id \in AppIds, NEW f \in Files,
         id \notin {apps[i].id : i \in DOMAIN apps},
         apps' = Append(apps, [id |-> id, file |-> f, handle |-> NoFile]), UNCHANGED <<users, refused>>
  PROVE  /\ apps' \in Seq(Apps) /\ CountInv'
         /\ \E m \in DOMAIN apps' : apps'[m].id = id /\ apps'[m].handle = NoFile
         /\ \A a, H : Listed(a, H) => \E m \in DOMAIN apps' :
                                        apps'[m].id = a /\ apps'[m].handle \in H
<1>. DEFINE e == [id |-> id, file |-> f, handle |-> NoFile]
            n == Len(apps)
<1>1. apps \in Seq(Apps) /\ NoFile \notin Files /\ e \in Apps
  BY RapAssumption DEF TypeInv, RapAssumption, Apps
<1>2. e.id = id /\ e.handle = NoFile
  OBVIOUS
<1>. HIDE DEF e, Apps
<1>3. apps' = Append(apps, e)
  BY DEF e
<1>4. DOMAIN apps = 1 .. n /\ n \in Nat
  BY <1>1
<1>5. apps' \in Seq(Apps) /\ DOMAIN apps' = 1 .. n + 1 /\ apps'[n + 1] = e
  BY <1>1, <1>3
<1>6. \A i \in 1 .. n : apps'[i] = apps[i]
  BY <1>1, <1>3
<1>. HIDE DEF n
<1>7. n + 1 \in DOMAIN apps' /\ \A i \in DOMAIN apps' : i \in DOMAIN apps \/ i = n + 1
  BY <1>4, <1>5
<1>8. \A i \in DOMAIN apps : i \in DOMAIN apps' /\ apps'[i] = apps[i]
  BY <1>4, <1>5, <1>6
<1>9. ASSUME NEW i \in DOMAIN apps', NEW j \in DOMAIN apps', apps'[i].id = apps'[j].id
      PROVE  i = j
  BY <1>2, <1>5, <1>7, <1>8, <1>9 DEF CountInv
<1>10. ASSUME NEW g \in Files PROVE users'[g] = Cardinality(Handles(g)') + refused'[g]
  <2>1. Handles(g)' = Handles(g)
    BY <1>1, <1>2, <1>5, <1>7, <1>8 DEF Handles
  <2>. QED
    BY <2>1 DEF CountInv
<1>11. CountInv'
  BY <1>9, <1>10 DEF CountInv
<1>. QED
  BY <1>2, <1>5, <1>7, <1>8, <1>11 DEF Listed

\* dlopen's object is entered.
LEMMA HandleCounts ==
  ASSUME TypeInv, CountInv, NEW id \in AppIds, NEW g \in Files, Listed(id, {NoFile}),
         apps' = SetHandle(id, g), users' = [users EXCEPT ![g] = @ + 1], UNCHANGED refused
  PROVE  /\ apps' \in Seq(Apps) /\ users' \in [Files -> Int] /\ refused' \in [Files -> Int] /\ CountInv'
         /\ \E m \in DOMAIN apps' : apps'[m].id = id /\ apps'[m].handle = g
         /\ \A a, H : a # id /\ Listed(a, H) => \E m \in DOMAIN apps' :
                                                  apps'[m].id = a /\ apps'[m].handle \in H
<1>1. /\ apps \in Seq(Apps) /\ NoFile \notin Files
      /\ users \in [Files -> Int] /\ refused \in [Files -> Int]
  BY RapAssumption DEF TypeInv, RapAssumption
<1>2. PICK k \in DOMAIN apps : apps[k].id = id /\ apps[k].handle = NoFile
  BY DEF Listed
<1>3. \A i \in DOMAIN apps : apps[i].id = id => i = k
  BY <1>2 DEF CountInv
<1>4. \A e \in Apps : LET x == [e EXCEPT !.handle = g]
                      IN  x \in Apps /\ x.id = e.id /\ x.handle = g
  BY DEF Apps
<1>5. \A i \in DOMAIN apps : apps[i] \in Apps
  <2>. HIDE DEF Apps
  <2>. QED
    BY <1>1
<1>6. /\ DOMAIN apps' = DOMAIN apps
      /\ \A i \in DOMAIN apps : apps'[i] = IF i = k THEN [apps[i] EXCEPT !.handle = g] ELSE apps[i]
  BY <1>2, <1>3 DEF SetHandle
<1>. HIDE DEF Apps
<1>7. /\ \A i \in DOMAIN apps : apps'[i] \in Apps /\ apps'[i].id = apps[i].id
      /\ apps'[k].handle = g
      /\ \A i \in DOMAIN apps : i # k => apps'[i].handle = apps[i].handle
  BY <1>4, <1>5, <1>6
<1>8. apps' \in Seq(Apps)
  <2>1. DOMAIN apps = 1 .. Len(apps) /\ Len(apps) \in Nat
    BY <1>1
  <2>2. apps' \in [1 .. Len(apps) -> Apps]
    <3>1. apps' = [i \in DOMAIN apps |-> apps'[i]]
      BY <1>6 DEF SetHandle
    <3>. QED
      BY <1>7, <2>1, <3>1
  <2>. QED
    BY <2>1, <2>2
<1>9. ASSUME NEW f \in Files PROVE users'[f] = Cardinality(Handles(f)') + refused'[f]
  <2>1. Handles(f)' = IF f = g THEN Handles(f) \union {k} ELSE Handles(f)
    BY <1>1, <1>2, <1>6, <1>7 DEF Handles
  <2>2. k \notin Handles(f)
    BY <1>1, <1>2 DEF Handles
  <2>3. IsFiniteSet(Handles(f)) /\ Cardinality(Handles(f)) \in Nat
    BY <1>1, HandlesFinite
  <2>4. Cardinality(Handles(f) \union {k}) = Cardinality(Handles(f)) + 1
    BY <2>2, <2>3, FS_AddElement
  <2>5. users[f] = Cardinality(Handles(f)) + refused[f]
    BY DEF CountInv
  <2>6. users[f] \in Int /\ refused[f] \in Int /\ refused'[f] = refused[f]
        /\ users'[f] = IF f = g THEN users[f] + 1 ELSE users[f]
    BY <1>1
  <2>. QED
    BY <2>1, <2>3, <2>4, <2>5, <2>6
<1>10. CountInv'
  BY <1>6, <1>7, <1>9 DEF CountInv
<1>11. users' \in [Files -> Int] /\ refused' \in [Files -> Int]
  BY <1>1
<1>. QED
  BY <1>2, <1>6, <1>7, <1>8, <1>10, <1>11 DEF Listed

-----------------------------------------------------------------------------
(* Who is inside. *)

LEMMA InsideFinite ==
  ASSUME TypeInv, NEW t \in Tasks
  PROVE  IsFiniteSet(Inside(t)) /\ Cardinality(Inside(t)) \in Nat
<1>1. stack[t] \in Seq(Frames)
  BY DEF TypeInv
<1>2. DOMAIN stack[t] = 1 .. Len(stack[t]) /\ Len(stack[t]) \in Nat
  BY <1>1
<1>3. IsFiniteSet(1 .. Len(stack[t]))
  BY <1>2, FS_Interval
<1>4. Inside(t) \subseteq 1 .. Len(stack[t])
  BY <1>2 DEF Inside
<1>. QED
  BY <1>3, <1>4, FS_Subset, FS_CardinalityType

\* The other tasks are where they were.
LEMMA OthersInside ==
  ASSUME NEW t, NEW u, stack'[u] = stack[u]
  PROVE  Inside(u)' = Inside(u) /\ \A pc : (IsAt(u, pc))' <=> IsAt(u, pc)
BY DEF Inside, IsAt, Top, Last

LEMMA SwapInside ==
  ASSUME TypeInv, StackInv, NEW t \in Tasks, stack[t] # <<>>, NEW fr \in Frames, SwapTo(t, fr)
  PROVE  /\ \A u \in Tasks \ {t} : Inside(u)' = Inside(u) /\ \A pc : (IsAt(u, pc))' <=> IsAt(u, pc)
         /\ \A pc : (IsAt(t, pc))' <=> fr.pc = pc
         /\ Top(t).pc \in Obtained /\ fr.pc \in Obtained => Inside(t)' = Inside(t)
         /\ Top(t).pc \notin Obtained /\ fr.pc \notin Obtained => Inside(t)' = Inside(t)
         /\ Top(t).pc \notin Obtained /\ fr.pc \in Obtained =>
              Cardinality(Inside(t)') = Cardinality(Inside(t)) + 1
<1>. DEFINE n == Len(stack[t])
<1>1. \A u \in Tasks \ {t} : stack'[u] = stack[u]
  BY SwapFacts
<1>2. /\ Len(stack'[t]) = n /\ DOMAIN stack'[t] = DOMAIN stack[t]
      /\ n \in DOMAIN stack[t] /\ stack'[t][n] = fr
      /\ \A i \in DOMAIN stack[t] : i # n => stack'[t][i] = stack[t][i]
  BY SwapFacts
<1>3. Top(t) = stack[t][n]
  BY TopFacts
<1>4. stack'[t] # <<>>
  BY <1>2
<1>. HIDE DEF n
<1>5. \A pc : (IsAt(t, pc))' <=> fr.pc = pc
  BY <1>2, <1>4 DEF IsAt, Top, Last
<1>6. ASSUME (Top(t).pc \in Obtained) <=> (fr.pc \in Obtained) PROVE Inside(t)' = Inside(t)
  BY <1>2, <1>3, <1>6 DEF Inside
<1>7. ASSUME Top(t).pc \notin Obtained, fr.pc \in Obtained
      PROVE  Cardinality(Inside(t)') = Cardinality(Inside(t)) + 1
  <2>1. Inside(t)' = Inside(t) \union {n} /\ n \notin Inside(t)
    BY <1>2, <1>3, <1>7 DEF Inside
  <2>. QED
    BY <2>1, InsideFinite, FS_AddElement
<1>. QED
  BY <1>1, <1>5, <1>6, <1>7, OthersInside

LEMMA PopInside ==
  ASSUME TypeInv, StackInv, NEW t \in Tasks, stack[t] # <<>>, Return(t)
  PROVE  /\ \A u \in Tasks \ {t} : Inside(u)' = Inside(u) /\ \A pc : (IsAt(u, pc))' <=> IsAt(u, pc)
         /\ \A pc : (IsAt(t, pc))' => pc \in Running
         /\ Top(t).pc \notin Obtained => Inside(t)' = Inside(t)
         /\ Top(t).pc \in Obtained =>
              Inside(t)' \subseteq Inside(t)
              /\ Cardinality(Inside(t)') = Cardinality(Inside(t)) - 1
<1>. DEFINE n == Len(stack[t])
<1>1. \A u \in Tasks \ {t} : stack'[u] = stack[u]
  BY PopFacts
<1>2. /\ Len(stack'[t]) = n - 1 /\ DOMAIN stack'[t] = DOMAIN stack[t] \ {n}
      /\ n \in DOMAIN stack[t]
      /\ \A i \in DOMAIN stack'[t] : stack'[t][i] = stack[t][i]
  BY PopFacts
<1>3. Top(t) = stack[t][n]
  BY TopFacts
<1>4. \A pc : (IsAt(t, pc))' => pc \in Running
  <2>. SUFFICES ASSUME NEW pc, (IsAt(t, pc))' PROVE pc \in Running
    OBVIOUS
  <2>1. stack'[t] # <<>> /\ stack'[t][Len(stack'[t])].pc = pc
    BY DEF IsAt, Top, Last
  <2>2. stack'[t] \in Seq(Frames) /\ stack[t] \in Seq(Frames)
    BY PopFacts DEF TypeInv
  <2>3. Len(stack'[t]) \in DOMAIN stack'[t] /\ Len(stack'[t]) < n
    <3>. HIDE DEF Frames
    <3>1. Len(stack'[t]) \in DOMAIN stack'[t]
      BY <2>1, <2>2
    <3>2. n \in Nat
      BY <2>2
    <3>. QED
      BY <1>2, <3>1, <3>2
  <2>. QED
    BY <1>2, <2>1, <2>3 DEF StackInv
<1>. HIDE DEF n
<1>5. ASSUME Top(t).pc \notin Obtained PROVE Inside(t)' = Inside(t)
  BY <1>2, <1>3, <1>5 DEF Inside
<1>6. ASSUME Top(t).pc \in Obtained
      PROVE  /\ Inside(t)' \subseteq Inside(t)
             /\ Cardinality(Inside(t)') = Cardinality(Inside(t)) - 1
  <2>1. Inside(t)' = Inside(t) \ {n} /\ n \in Inside(t)
    BY <1>2, <1>3, <1>6 DEF Inside
  <2>. QED
    BY <2>1, InsideFinite, FS_RemoveElement
<1>. QED
  BY <1>1, <1>4, <1>5, <1>6, OthersInside

LEMMA PushInside ==
  ASSUME TypeInv, StackInv, NEW t \in Tasks, NEW fr \in Frames, Push(t, fr),
         fr.pc \notin Obtained
  PROVE  /\ \A u \in Tasks \ {t} : Inside(u)' = Inside(u) /\ \A pc : (IsAt(u, pc))' <=> IsAt(u, pc)
         /\ \A pc : (IsAt(t, pc))' <=> fr.pc = pc
         /\ Inside(t)' = Inside(t)
<1>. DEFINE n == Len(stack[t])
<1>1. \A u \in Tasks \ {t} : stack'[u] = stack[u]
  BY PushFacts
<1>2. /\ n \in Nat /\ DOMAIN stack[t] = 1 .. n
      /\ Len(stack'[t]) = n + 1 /\ DOMAIN stack'[t] = 1 .. n + 1
      /\ stack'[t][n + 1] = fr
      /\ \A i \in DOMAIN stack[t] : Alike(stack'[t][i], stack[t][i])
  BY PushFacts
<1>. HIDE DEF n
<1>3. \A i : i \in 1 .. n + 1 <=> i \in 1 .. n \/ i = n + 1
  BY <1>2
<1>4. \A pc : (IsAt(t, pc))' <=> fr.pc = pc
  <2>1. stack'[t] # <<>>
    BY <1>2, <1>3
  <2>. QED
    BY <1>2, <2>1 DEF IsAt, Top, Last
<1>5. Inside(t)' = Inside(t)
  BY <1>2, <1>3 DEF Inside, Alike
<1>. QED
  BY <1>1, <1>4, <1>5, OthersInside

-----------------------------------------------------------------------------
(* The mutex: a step that leaves it, takes it, or gives it up once. *)

LEMMA HoldsInt ==
  ASSUME TypeInv, HoldInv, NEW t \in Tasks
  PROVE  /\ Cardinality(Inside(t)) \in Nat /\ kept[t] \in Nat /\ Holds(t) \in Nat
         /\ Inside(t) # {} => Holds(t) > 0
<1>1. kept[t] \in Nat
  BY DEF TypeInv, HoldInv
<1>2. IsFiniteSet(Inside(t)) /\ Cardinality(Inside(t)) \in Nat
  BY InsideFinite
<1>3. Inside(t) # {} => Cardinality(Inside(t)) # 0
  BY <1>2, FS_EmptySet
<1>. QED
  BY <1>1, <1>2, <1>3 DEF Holds

LEMMA HoldSame ==
  ASSUME HoldInv, NEW t \in Tasks, UNCHANGED <<owner, nest>>, kept'[t] >= 0,
         Holds(t)' = Holds(t),
         \A u \in Tasks \ {t} : Holds(u)' = Holds(u) /\ kept'[u] = kept[u]
  PROVE  HoldInv'
<1>1. \A u \in Tasks : Holds(u)' = Holds(u) /\ kept'[u] >= 0
  BY DEF HoldInv
<1>. QED
  BY <1>1 DEF HoldInv

LEMMA HoldMore ==
  ASSUME TypeInv, HoldInv, NEW t \in Tasks, Lock(t), UNCHANGED kept,
         Holds(t)' = Holds(t) + 1, \A u \in Tasks \ {t} : Holds(u)' = Holds(u)
  PROVE  HoldInv' /\ owner' \in Tasks \union {NoTask} /\ nest' \in Int
<1>1. \A u \in Tasks : Holds(u) \in Nat /\ u # NoTask
  BY HoldsInt, RapAssumption
<1>2. /\ owner \in {NoTask, t} /\ owner' = t /\ nest' = nest + 1 /\ nest \in Int
  BY DEF Lock, TypeInv
<1>3. nest = Holds(t)
  BY <1>1, <1>2 DEF HoldInv
<1>4. \A u \in Tasks \ {t} : Holds(u)' = 0
  BY <1>1, <1>2 DEF HoldInv
<1>5. nest' = Holds(t)' /\ nest' # 0
  BY <1>1, <1>2, <1>3
<1>6. \A u \in Tasks : kept'[u] >= 0
  BY DEF HoldInv
<1>. QED
  BY <1>1, <1>2, <1>4, <1>5, <1>6 DEF HoldInv

LEMMA HoldLess ==
  ASSUME TypeInv, HoldInv, NEW t \in Tasks, Unlock(t), UNCHANGED kept, Holds(t) > 0,
         Holds(t)' = Holds(t) - 1, \A u \in Tasks \ {t} : Holds(u)' = Holds(u)
  PROVE  HoldInv' /\ owner' \in Tasks \union {NoTask} /\ nest' \in Int
<1>1. \A u \in Tasks : Holds(u) \in Nat /\ u # NoTask
  BY HoldsInt, RapAssumption
<1>2. owner = t /\ nest = Holds(t)
  BY <1>1 DEF HoldInv
<1>3. nest' = nest - 1 /\ owner' = IF nest = 1 THEN NoTask ELSE owner
  BY DEF Unlock
<1>4. \A u \in Tasks \ {t} : Holds(u)' = 0
  BY <1>1, <1>2 DEF HoldInv
<1>5. \A u \in Tasks : kept'[u] >= 0
  BY DEF HoldInv
<1>6. nest' = Holds(t)' /\ nest' \in Nat
  BY <1>1, <1>2, <1>3
<1>7. owner' = NoTask <=> nest' = 0
  BY <1>1, <1>2, <1>3
<1>8. \A u \in Tasks : IF owner' = u THEN nest' = Holds(u)' ELSE Holds(u)' = 0
  BY <1>1, <1>2, <1>3, <1>4, <1>6, <1>7
<1>9. owner' \in Tasks \union {NoTask}
  BY <1>2, <1>3
<1>. QED
  BY <1>5, <1>6, <1>7, <1>8, <1>9 DEF HoldInv

-----------------------------------------------------------------------------
(* Calls that are inside: the list is ready, and others are not inside. *)

LEMMA InsideNonempty ==
  ASSUME TypeInv, StackInv, NEW t \in Tasks, stack[t] # <<>>, Top(t).pc \in Obtained
  PROVE  Len(stack[t]) \in Inside(t)
<1>1. Top(t) = stack[t][Len(stack[t])] /\ Len(stack[t]) \in DOMAIN stack[t]
  BY TopFacts
<1>. QED
  BY <1>1 DEF Inside

LEMMA InsideAlone ==
  ASSUME Inv, NEW t \in Tasks, stack[t] # <<>>, Top(t).pc \in Obtained
  PROVE  /\ ready /\ made /\ owner = t /\ Holds(t) > 0
         /\ \A u \in Tasks : ~ IsAt(u, "chain")
         /\ \A u \in Tasks \ {t} : Inside(u) = {}
<1>1. Inside(t) # {}
  BY InsideNonempty DEF Inv
<1>2. ready /\ made
  BY <1>1 DEF Inv, ReadyInv
<1>3. \A u \in Tasks : ~ IsAt(u, "chain")
  BY <1>2 DEF Inv, ReadyInv
<1>4. \A u \in Tasks : Holds(u) \in Nat /\ (Inside(u) # {} => Holds(u) > 0)
  BY HoldsInt DEF Inv
<1>5. owner = t
  BY <1>1, <1>4 DEF Inv, HoldInv
<1>6. \A u \in Tasks \ {t} : Holds(u) = 0
  BY <1>5 DEF Inv, HoldInv
<1>7. \A u \in Tasks \ {t} : Inside(u) = {}
  BY <1>4, <1>6
<1>. QED
  BY <1>1, <1>2, <1>3, <1>4, <1>5, <1>7

\* When the list is ready it stays ready.
LEMMA ReadyStays ==
  ASSUME ReadyInv, ready, UNCHANGED <<made, ready>>,
         \A u \in Tasks : ~ (IsAt(u, "chain"))'
  PROVE  ReadyInv'
BY DEF ReadyInv

\* It goes on inside.
LEMMA InsideSwap ==
  ASSUME Inv, NEW t \in Tasks, stack[t] # <<>>, Top(t).pc \in Obtained, NEW fr \in Frames,
         fr.pc \in Obtained, fr.op = Top(t).op, fr.file = Top(t).file, SwapTo(t, fr),
         UNCHANGED <<made, ready, owner, nest, libio, stuck, kept, lost>>
  PROVE  /\ stack' \in [Tasks -> Seq(Frames)]
         /\ StackInv' /\ LibioInv' /\ ReadyInv' /\ HoldInv'
<1>1. TypeInv /\ StackInv /\ ReadyInv /\ HoldInv /\ LibioInv
  BY DEF Inv
<1>2. /\ ready /\ made /\ owner = t /\ Holds(t) > 0
      /\ \A u \in Tasks : ~ IsAt(u, "chain")
  BY InsideAlone
<1>3. Top(t).op # "iterate" => Top(t).file \in Files
  BY <1>1, TopFacts
<1>4. stack' \in [Tasks -> Seq(Frames)] /\ StackInv'
  BY <1>1, <1>3, SwapStack
<1>5. /\ \A u \in Tasks \ {t} : Inside(u)' = Inside(u) /\ \A pc : (IsAt(u, pc))' <=> IsAt(u, pc)
      /\ \A pc : (IsAt(t, pc))' <=> fr.pc = pc
      /\ Inside(t)' = Inside(t)
  BY <1>1, SwapInside
<1>6. fr.pc # "chain" /\ fr.pc # "test"
  BY DEF Obtained
<1>7. \A u \in Tasks : ~ (IsAt(u, "chain"))'
  BY <1>2, <1>5, <1>6
<1>8. \A u \in Tasks : (IsAt(u, "test"))' => IsAt(u, "test")
  BY <1>5, <1>6
<1>9. LibioInv'
  BY <1>1, <1>7, <1>8 DEF LibioInv
<1>10. ReadyInv'
  BY <1>1, <1>2, <1>7, ReadyStays
<1>11. \A u \in Tasks : Inside(u)' = Inside(u)
  BY <1>5
<1>12. \A u \in Tasks : Holds(u)' = Holds(u)
  BY <1>2, <1>7, <1>11 DEF Holds
<1>13. HoldInv'
  BY <1>1, <1>12, HoldSame DEF HoldInv
<1>. QED
  BY <1>4, <1>9, <1>10, <1>13

\* What every return from inside has in common.
LEMMA InsideReturn ==
  ASSUME Inv, NEW t \in Tasks, stack[t] # <<>>, Top(t).pc \in Obtained, Return(t),
         UNCHANGED <<made, ready, libio, stuck, lost>>
  PROVE  /\ stack' \in [Tasks -> Seq(Frames)]
         /\ StackInv' /\ LibioInv' /\ ReadyInv'
         /\ \A u \in Tasks \ {t} : Inside(u)' = Inside(u)
         /\ \A u \in Tasks : ~ IsAt(u, "chain") /\ ~ (IsAt(u, "chain"))'
         /\ Cardinality(Inside(t)') = Cardinality(Inside(t)) - 1
<1>1. TypeInv /\ StackInv /\ ReadyInv /\ HoldInv /\ LibioInv
  BY DEF Inv
<1>2. ready /\ \A u \in Tasks : ~ IsAt(u, "chain")
  BY InsideAlone
<1>3. stack' \in [Tasks -> Seq(Frames)] /\ StackInv'
  BY <1>1, PopStack
<1>4. /\ \A u \in Tasks \ {t} : Inside(u)' = Inside(u) /\ \A pc : (IsAt(u, pc))' <=> IsAt(u, pc)
      /\ \A pc : (IsAt(t, pc))' => pc \in Running
      /\ Cardinality(Inside(t)') = Cardinality(Inside(t)) - 1
  BY <1>1, PopInside
<1>5. "chain" \notin Running /\ "test" \notin Running
  BY DEF Running
<1>6. \A u \in Tasks : ~ (IsAt(u, "chain"))'
  BY <1>2, <1>4, <1>5
<1>7. \A u \in Tasks : (IsAt(u, "test"))' => IsAt(u, "test")
  BY <1>4, <1>5
<1>8. LibioInv'
  BY <1>1, <1>6, <1>7 DEF LibioInv
<1>9. ReadyInv'
  BY <1>1, <1>2, <1>6, ReadyStays
<1>. QED
  BY <1>2, <1>3, <1>4, <1>6, <1>8, <1>9

LEMMA InsideLeave ==
  ASSUME Inv, NEW t \in Tasks, stack[t] # <<>>, Top(t).pc \in Obtained, Leave(t),
         UNCHANGED <<made, ready, libio, stuck, kept, lost>>
  PROVE  /\ stack' \in [Tasks -> Seq(Frames)]
         /\ owner' \in Tasks \union {NoTask} /\ nest' \in Int
         /\ StackInv' /\ LibioInv' /\ ReadyInv' /\ HoldInv'
<1>1. TypeInv /\ HoldInv
  BY DEF Inv
<1>2. Return(t) /\ Unlock(t)
  BY DEF Leave
<1>3. /\ stack' \in [Tasks -> Seq(Frames)]
      /\ StackInv' /\ LibioInv' /\ ReadyInv'
      /\ \A u \in Tasks \ {t} : Inside(u)' = Inside(u)
      /\ \A u \in Tasks : ~ IsAt(u, "chain") /\ ~ (IsAt(u, "chain"))'
      /\ Cardinality(Inside(t)') = Cardinality(Inside(t)) - 1
  BY <1>2, InsideReturn
<1>4. Holds(t) > 0
  BY InsideAlone
<1>5. \A u \in Tasks \ {t} : Holds(u)' = Holds(u)
  BY <1>3 DEF Holds
<1>6. Cardinality(Inside(t)) \in Nat /\ kept[t] \in Nat
  BY <1>1, HoldsInt
<1>7. Holds(t)' = Holds(t) - 1
  <2>. DEFINE c == Cardinality(Inside(t))
              d == Cardinality(Inside(t)')
  <2>1. c \in Nat /\ kept[t] \in Nat /\ d = c - 1
    BY <1>3, <1>6
  <2>2. Holds(t) = c + kept[t] + 0 /\ Holds(t)' = d + kept[t] + 0
    BY <1>3 DEF Holds
  <2>. QED
    BY <2>1, <2>2
<1>8. HoldInv' /\ owner' \in Tasks \union {NoTask} /\ nest' \in Int
  BY <1>1, <1>2, <1>4, <1>5, <1>7, HoldLess
<1>. QED
  BY <1>3, <1>8

\* rtems_rap_load returns true: the hold of the call becomes one that is kept.
LEMMA InsideKeep ==
  ASSUME Inv, NEW t \in Tasks, stack[t] # <<>>, Top(t).pc \in Obtained, Return(t),
         kept' = [kept EXCEPT ![t] = @ + 1],
         UNCHANGED <<made, ready, owner, nest, libio, stuck, lost>>
  PROVE  /\ stack' \in [Tasks -> Seq(Frames)] /\ kept' \in [Tasks -> Int]
         /\ StackInv' /\ LibioInv' /\ ReadyInv' /\ HoldInv'
<1>1. TypeInv /\ HoldInv
  BY DEF Inv
<1>2. /\ stack' \in [Tasks -> Seq(Frames)]
      /\ StackInv' /\ LibioInv' /\ ReadyInv'
      /\ \A u \in Tasks \ {t} : Inside(u)' = Inside(u)
      /\ \A u \in Tasks : ~ IsAt(u, "chain") /\ ~ (IsAt(u, "chain"))'
      /\ Cardinality(Inside(t)') = Cardinality(Inside(t)) - 1
  BY InsideReturn
<1>3. /\ kept' \in [Tasks -> Int] /\ kept'[t] = kept[t] + 1
      /\ \A u \in Tasks \ {t} : kept'[u] = kept[u]
  BY <1>1 DEF TypeInv
<1>4. Cardinality(Inside(t)) \in Nat /\ kept[t] \in Nat
  BY <1>1, HoldsInt
<1>5. \A u \in Tasks \ {t} : Holds(u)' = Holds(u)
  BY <1>2, <1>3 DEF Holds
<1>6. Holds(t)' = Holds(t) /\ kept'[t] >= 0
  <2>. DEFINE c == Cardinality(Inside(t))
              d == Cardinality(Inside(t)')
  <2>1. c \in Nat /\ kept[t] \in Nat /\ d = c - 1 /\ kept'[t] = kept[t] + 1
    BY <1>2, <1>3, <1>4
  <2>2. Holds(t) = c + kept[t] + 0 /\ Holds(t)' = d + kept'[t] + 0
    BY <1>2 DEF Holds
  <2>. QED
    BY <2>1, <2>2
<1>7. HoldInv'
  BY <1>1, <1>3, <1>5, <1>6, HoldSame
<1>. QED
  BY <1>2, <1>3, <1>7

-----------------------------------------------------------------------------
(* What calls know of their applications. *)

\* A task that is not inside knows of none.
LEMMA OutsideSettled ==
  ASSUME Inv, NEW u \in Tasks, Inside(u) = {}
  PROVE  /\ Len(stack[u]) \in Nat /\ DOMAIN stack[u] = 1 .. Len(stack[u])
         /\ \A i \in DOMAIN stack[u] : /\ stack[u][i].app = NoApp
                                       /\ stack[u][i].pc \notin Obtained
                                       /\ i = Len(stack[u])
<1>1. stack[u] \in Seq(Frames)
  BY DEF Inv, TypeInv
<1>2. Len(stack[u]) \in Nat /\ DOMAIN stack[u] = 1 .. Len(stack[u])
  BY <1>1
<1>3. ASSUME NEW i \in DOMAIN stack[u]
      PROVE  /\ stack[u][i].app = NoApp /\ stack[u][i].pc \notin Obtained
             /\ i = Len(stack[u])
  <2>1. stack[u][i].pc \notin Obtained
    BY DEF Inside
  <2>2. stack[u][i].app = NoApp
    BY <2>1 DEF Inv, FrameInv, Settled, Placed
  <2>3. i < Len(stack[u]) => stack[u][i].pc \in Running
    BY DEF Inv, StackInv
  <2>4. Running \subseteq Obtained
    BY DEF Running, Obtained
  <2>. QED
    BY <1>2, <2>1, <2>2, <2>3, <2>4
<1>. QED
  BY <1>2, <1>3

\* Whatever becomes of the list meanwhile.
LEMMA OutsideStays ==
  ASSUME Inv, NEW u \in Tasks, Inside(u) = {}, stack'[u] = stack[u]
  PROVE  Settled(stack[u])'
<1>1. /\ Len(stack[u]) \in Nat /\ DOMAIN stack[u] = 1 .. Len(stack[u])
      /\ \A i \in DOMAIN stack[u] : /\ stack[u][i].app = NoApp
                                    /\ stack[u][i].pc \notin Obtained
                                    /\ i = Len(stack[u])
  BY OutsideSettled
<1>2. \A i \in DOMAIN stack'[u] : /\ stack'[u][i].app = NoApp
                                  /\ stack'[u][i].pc \notin Obtained
                                  /\ i = Len(stack'[u])
  BY <1>1
<1>3. \A i \in DOMAIN stack'[u] : Placed(stack[u][i])'
  BY <1>2 DEF Placed, Obtained
<1>4. \A i, j \in DOMAIN stack'[u] : ~ (i < j)
  BY <1>1, <1>2
<1>5. Apart(stack[u])'
  BY <1>4 DEF Apart
<1>6. Spared(stack[u])'
  BY <1>4 DEF Spared
<1>. QED
  BY <1>3, <1>5, <1>6 DEF Settled

\* The list is left alone: so are the others.
LEMMA OthersSettled ==
  ASSUME FrameInv, NEW t \in Tasks, UNCHANGED apps,
         \A u \in Tasks \ {t} : stack'[u] = stack[u]
  PROVE  \A u \in Tasks \ {t} : Settled(stack[u])'
<1>1. ASSUME NEW u \in Tasks \ {t} PROVE Settled(stack[u])'
  <2>1. Settled(stack[u])
    BY DEF FrameInv
  <2>2. \A id, H : Listed(id, H)' = Listed(id, H)
    BY DEF Listed
  <2>3. \A f, a : FindIndex(f, a)' = FindIndex(f, a)
    BY DEF FindIndex, Matches, SelectInSeq
  <2>4. (\A i \in DOMAIN stack[u] : Placed(stack[u][i]))'
    BY <2>1, <2>2 DEF Settled, Placed
  <2>5. Apart(stack[u])'
    BY <2>1 DEF Settled, Apart
  <2>6. Spared(stack[u])'
    BY <2>1, <2>3 DEF Settled, Spared
  <2>. QED
    BY <2>4, <2>5, <2>6 DEF Settled
<1>. QED
  BY <1>1

\* The call goes on, and the list is left alone.
LEMMA SettledSwap ==
  ASSUME Inv, NEW t \in Tasks, stack[t] # <<>>, NEW fr \in Frames, SwapTo(t, fr),
         UNCHANGED apps, fr.op = Top(t).op, fr.file = Top(t).file,
         fr.absolute = Top(t).absolute, Placed(fr),
         fr.pc \in Frees =>
           \A i \in DOMAIN stack[t] : i < Len(stack[t]) => stack[t][i].app # fr.app,
         fr.pc \in Asking => Top(t).pc \in Asking
  PROVE  FrameInv'
<1>. DEFINE n == Len(stack[t])
            s == stack[t]
            r == stack'[t]
<1>1. TypeInv /\ StackInv /\ FrameInv
  BY DEF Inv
<1>2. /\ \A u \in Tasks \ {t} : stack'[u] = stack[u]
      /\ Len(r) = n /\ DOMAIN r = DOMAIN s /\ n \in DOMAIN s /\ r[n] = fr
      /\ \A i \in DOMAIN s : i # n => r[i] = s[i]
  BY <1>1, SwapFacts
<1>3. DOMAIN s = 1 .. n /\ n \in Nat /\ Top(t) = s[n]
  BY <1>1, TopFacts DEF TypeInv
<1>4. \A u \in Tasks \ {t} : Settled(stack[u])'
  BY <1>1, <1>2, OthersSettled
<1>5. Settled(s)
  BY <1>1 DEF FrameInv
<1>. HIDE DEF n, s, r
<1>6. \A id, H : Listed(id, H)' = Listed(id, H)
  BY DEF Listed
<1>7. \A f, a : FindIndex(f, a)' = FindIndex(f, a)
  BY DEF FindIndex, Matches, SelectInSeq
<1>8. \A i \in DOMAIN r : Placed(r[i])
  BY <1>2, <1>5 DEF Settled
<1>9. (\A i \in DOMAIN stack[t] : Placed(stack[t][i]))'
  BY <1>6, <1>8 DEF Placed, r
<1>10. ASSUME NEW i \in DOMAIN r, NEW j \in DOMAIN r, i < j
       PROVE  i # n /\ r[i] = s[i] /\ i \in DOMAIN s /\ j \in DOMAIN s
  <2>1. i \in 1 .. n /\ j \in 1 .. n /\ n \in Nat
    BY <1>2, <1>3
  <2>2. i # n
    BY <1>10, <2>1
  <2>. QED
    BY <1>2, <2>2
<1>11. ASSUME NEW i \in DOMAIN r, NEW j \in DOMAIN r, i < j, r[j].pc \in Frees
       PROVE  r[i].app # r[j].app
  <2>1. CASE j = n
    BY <1>2, <1>10, <1>11, <2>1 DEF n, s
  <2>2. CASE j # n
    BY <1>2, <1>5, <1>10, <1>11, <2>2 DEF Settled, Apart
  <2>. QED
    BY <2>1, <2>2
<1>12. Apart(stack[t])'
  BY <1>11 DEF Apart, r
<1>13. ASSUME NEW j \in DOMAIN r, r[j].op = "unload", r[j].pc \in Asking,
              NEW k \in DOMAIN apps, k = FindIndex(r[j].file, r[j].absolute),
              NEW i \in DOMAIN r, i < j
       PROVE  r[i].app # apps[k].id
  <2>1. /\ s[j].op = r[j].op /\ s[j].file = r[j].file /\ s[j].absolute = r[j].absolute
        /\ s[j].pc \in Asking
    BY <1>2, <1>3, <1>13
  <2>2. s[i].app # apps[k].id
    BY <1>2, <1>5, <1>13, <2>1 DEF Settled, Spared
  <2>. QED
    BY <1>10, <1>13, <2>2
<1>14. Spared(stack[t])'
  BY <1>7, <1>13 DEF Spared, r
<1>15. Settled(stack[t])'
  BY <1>9, <1>12, <1>14 DEF Settled, r
<1>. QED
  BY <1>4, <1>15 DEF FrameInv

\* The call returns, and the list is left alone.
LEMMA SettledPop ==
  ASSUME Inv, NEW t \in Tasks, stack[t] # <<>>, Return(t), UNCHANGED apps
  PROVE  FrameInv'
<1>. DEFINE s == stack[t]
            r == stack'[t]
<1>1. TypeInv /\ StackInv /\ FrameInv
  BY DEF Inv
<1>2. /\ \A u \in Tasks \ {t} : stack'[u] = stack[u]
      /\ DOMAIN r \subseteq DOMAIN s /\ \A i \in DOMAIN r : r[i] = s[i]
  BY <1>1, PopFacts
<1>4. \A u \in Tasks \ {t} : Settled(stack[u])'
  BY <1>1, <1>2, OthersSettled
<1>5. Settled(s)
  BY <1>1 DEF FrameInv
<1>. HIDE DEF s, r
<1>6. \A id, H : Listed(id, H)' = Listed(id, H)
  BY DEF Listed
<1>7. \A f, a : FindIndex(f, a)' = FindIndex(f, a)
  BY DEF FindIndex, Matches, SelectInSeq
<1>8. \A i \in DOMAIN r : Placed(r[i])
  BY <1>2, <1>5 DEF Settled
<1>9. (\A i \in DOMAIN stack[t] : Placed(stack[t][i]))'
  BY <1>6, <1>8 DEF Placed, r
<1>10. Apart(r) /\ Spared(r)
  <2>1. Apart(r)
    BY <1>2, <1>5 DEF Settled, Apart
  <2>2. Spared(r)
    BY <1>2, <1>5 DEF Settled, Spared
  <2>. QED
    BY <2>1, <2>2
<1>11. Apart(stack[t])'
  BY <1>10 DEF Apart, r
<1>12. Spared(stack[t])'
  BY <1>7, <1>10 DEF Spared, r
<1>13. Settled(stack[t])'
  BY <1>9, <1>11, <1>12 DEF Settled, r
<1>. QED
  BY <1>4, <1>13 DEF FrameInv

\* A call is made, and the list is left alone.
LEMMA SettledPush ==
  ASSUME Inv, NEW t \in Tasks, NEW fr \in Frames, Push(t, fr),
         UNCHANGED apps, fr.app = NoApp, fr.pc \notin Obtained,
         fr.op = "unload" =>
           \A k \in DOMAIN apps : k = FindIndex(fr.file, fr.absolute) =>
             apps[k].id \notin Busy(t)
  PROVE  FrameInv'
<1>. DEFINE n == Len(stack[t])
            s == stack[t]
            r == stack'[t]
<1>1. TypeInv /\ StackInv /\ FrameInv
  BY DEF Inv
<1>2. /\ \A u \in Tasks \ {t} : stack'[u] = stack[u]
      /\ n \in Nat /\ DOMAIN s = 1 .. n
      /\ DOMAIN r = 1 .. n + 1 /\ r[n + 1] = fr
      /\ \A i \in DOMAIN s : Alike(r[i], s[i])
  BY <1>1, PushFacts
<1>4. \A u \in Tasks \ {t} : Settled(stack[u])'
  BY <1>1, <1>2, OthersSettled
<1>5. Settled(s)
  BY <1>1 DEF FrameInv
<1>16. \A i \in DOMAIN s : s[i].app \in Busy(t)
  BY DEF Busy
<1>. HIDE DEF n, s, r
<1>6. \A id, H : Listed(id, H)' = Listed(id, H)
  BY DEF Listed
<1>7. \A f, a : FindIndex(f, a)' = FindIndex(f, a)
  BY DEF FindIndex, Matches, SelectInSeq
<1>3. /\ \A i \in 1 .. n + 1 : i \in DOMAIN s \/ i = n + 1
      /\ \A i, j \in 1 .. n + 1 : i < j => i \in DOMAIN s
  BY <1>2
<1>8. \A i \in DOMAIN r : Placed(r[i])
  <2>1. Placed(fr)
    BY DEF Placed, Obtained
  <2>2. \A i \in DOMAIN s : Placed(r[i])
    BY <1>2, <1>5 DEF Settled, Placed, Alike
  <2>. QED
    BY <1>2, <1>3, <2>1, <2>2
<1>9. (\A i \in DOMAIN stack[t] : Placed(stack[t][i]))'
  BY <1>6, <1>8 DEF Placed, r
<1>11. ASSUME NEW i \in DOMAIN r, NEW j \in DOMAIN r, i < j, r[j].pc \in Frees
       PROVE  r[i].app # r[j].app
  <2>1. j # n + 1
    BY <1>2, <1>11 DEF Frees, Obtained
  <2>2. i \in DOMAIN s /\ j \in DOMAIN s
    BY <1>2, <1>3, <1>11, <2>1
  <2>. QED
    BY <1>2, <1>5, <1>11, <2>2 DEF Settled, Apart, Alike
<1>12. Apart(stack[t])'
  BY <1>11 DEF Apart, r
<1>13. ASSUME NEW j \in DOMAIN r, r[j].op = "unload", r[j].pc \in Asking,
              NEW k \in DOMAIN apps, k = FindIndex(r[j].file, r[j].absolute),
              NEW i \in DOMAIN r, i < j
       PROVE  r[i].app # apps[k].id
  <2>1. i \in DOMAIN s /\ r[i].app = s[i].app
    BY <1>2, <1>3, <1>13 DEF Alike
  <2>2. CASE j = n + 1
    BY <1>2, <1>13, <1>16, <2>1, <2>2
  <2>3. CASE j \in DOMAIN s
    <3>1. /\ s[j].op = "unload" /\ s[j].pc \in Asking
          /\ s[j].file = r[j].file /\ s[j].absolute = r[j].absolute
      BY <1>2, <1>13, <2>3 DEF Alike
    <3>. QED
      BY <1>5, <1>13, <2>1, <2>3, <3>1 DEF Settled, Spared
  <2>. QED
    BY <1>2, <1>3, <2>2, <2>3
<1>14. Spared(stack[t])'
  BY <1>7, <1>13 DEF Spared, r
<1>15. Settled(stack[t])'
  BY <1>9, <1>12, <1>14 DEF Settled, r
<1>. QED
  BY <1>4, <1>15 DEF FrameInv

LEMMA PlacedStays ==
  ASSUME NEW id, Others(id)
  PROVE  \A fr : Placed(fr) /\ fr.app # id => Placed(fr)'
<1>1. ASSUME NEW fr, Placed(fr), fr.app # id PROVE Placed(fr)'
  <2>1. \A H : Listed(fr.app, H) => Listed(fr.app, H)'
    BY <1>1 DEF Others, Listed
  <2>. QED
    BY <1>1, <2>1 DEF Placed
<1>. QED
  BY <1>1

\* The list changes at application id, in a call that goes on with it: the calls
\* below it stand on other applications.
LEMMA SettledChange ==
  ASSUME Inv, NEW t \in Tasks, stack[t] # <<>>, Top(t).pc \in Obtained,
         NEW fr \in Frames, SwapTo(t, fr), NEW id, Others(id),
         \A i \in DOMAIN stack[t] : i < Len(stack[t]) => stack[t][i].app # id,
         fr.app = id, fr.pc \notin Asking, Placed(fr)'
  PROVE  FrameInv'
<1>. DEFINE n == Len(stack[t])
            s == stack[t]
            r == stack'[t]
<1>1. TypeInv /\ StackInv /\ FrameInv
  BY DEF Inv
<1>2. /\ \A u \in Tasks \ {t} : stack'[u] = stack[u]
      /\ Len(r) = n /\ DOMAIN r = DOMAIN s /\ n \in DOMAIN s /\ r[n] = fr
      /\ \A i \in DOMAIN s : i # n => r[i] = s[i]
  BY <1>1, SwapFacts
<1>3. DOMAIN s = 1 .. n /\ n \in Nat /\ Top(t) = s[n]
  BY <1>1, TopFacts DEF TypeInv
<1>4. \A u \in Tasks \ {t} : Settled(stack[u])'
  BY <1>2, InsideAlone, OutsideStays
<1>5. Settled(s)
  BY <1>1 DEF FrameInv
<1>6. \A i \in DOMAIN s : i < n => s[i].pc \in Running
  BY <1>1 DEF StackInv
<1>. HIDE DEF n, s, r
<1>7. \A i \in 1 .. n : i = n \/ i < n
  BY <1>3
<1>8. ASSUME NEW i \in DOMAIN r, i # n
      PROVE  i < n /\ r[i] = s[i] /\ i \in DOMAIN s
  BY <1>2, <1>3, <1>7, <1>8
<1>9. ASSUME NEW i \in DOMAIN r, i # n
      PROVE  Placed(r[i]) /\ r[i].app # id
  BY <1>5, <1>8, <1>9 DEF Settled, s, n
<1>10. ASSUME NEW i \in DOMAIN stack'[t] PROVE Placed(stack[t][i])'
  <2>1. CASE i = n
    BY <1>2, <2>1 DEF r, Placed, Listed
  <2>2. CASE i # n
    <3>1. Placed(s[i]) /\ s[i].app # id /\ r[i] = s[i]
      BY <1>8, <1>9, <1>10, <2>2 DEF r
    <3>2. \A e : Placed(e) /\ e.app # id => Placed(e)'
      BY PlacedStays
    <3>. QED
      BY <3>1, <3>2 DEF Placed, Listed, r
  <2>. QED
    BY <2>1, <2>2
<1>11. ASSUME NEW i \in DOMAIN r, NEW j \in DOMAIN r, i < j
       PROVE  i # n
  <2>1. i \in 1 .. n /\ j \in 1 .. n
    BY <1>2, <1>3
  <2>. QED
    BY <1>3, <1>11, <2>1
<1>12. ASSUME NEW i \in DOMAIN r, NEW j \in DOMAIN r, i < j, r[j].pc \in Frees
       PROVE  r[i].app # r[j].app
  <2>1. i # n /\ r[i] = s[i] /\ i \in DOMAIN s /\ r[i].app # id
    BY <1>8, <1>9, <1>11, <1>12
  <2>2. CASE j = n
    BY <1>2, <2>1, <2>2
  <2>3. CASE j # n
    <3>1. j \in DOMAIN s /\ r[j] = s[j]
      BY <1>8, <2>3
    <3>. QED
      BY <1>5, <1>12, <2>1, <3>1 DEF Settled, Apart
  <2>. QED
    BY <2>2, <2>3
<1>13. Apart(stack[t])'
  BY <1>12 DEF Apart, r
<1>14. \A j \in DOMAIN r : r[j].pc \notin Asking
  BY <1>2, <1>6, <1>8 DEF Running, Asking
<1>15. Spared(stack[t])'
  BY <1>14 DEF Spared, r
<1>16. Settled(stack[t])'
  BY <1>10, <1>13, <1>15 DEF Settled
<1>. QED
  BY <1>4, <1>16 DEF FrameInv

\* The same in a call that returns.
LEMMA SettledGone ==
  ASSUME Inv, NEW t \in Tasks, stack[t] # <<>>, Top(t).pc \in Obtained,
         Return(t), NEW id, Others(id),
         \A i \in DOMAIN stack[t] : i < Len(stack[t]) => stack[t][i].app # id
  PROVE  FrameInv'
<1>. DEFINE n == Len(stack[t])
            s == stack[t]
            r == stack'[t]
<1>1. TypeInv /\ StackInv /\ FrameInv
  BY DEF Inv
<1>2. /\ \A u \in Tasks \ {t} : stack'[u] = stack[u]
      /\ DOMAIN r = DOMAIN s \ {n}
      /\ \A i \in DOMAIN r : r[i] = s[i]
  BY <1>1, PopFacts
<1>3. DOMAIN s = 1 .. n /\ n \in Nat
  BY <1>1 DEF TypeInv
<1>4. \A u \in Tasks \ {t} : Settled(stack[u])'
  BY <1>2, InsideAlone, OutsideStays
<1>5. Settled(s)
  BY <1>1 DEF FrameInv
<1>6. \A i \in DOMAIN s : i < n => s[i].pc \in Running
  BY <1>1 DEF StackInv
<1>. HIDE DEF n, s, r
<1>7. \A i \in (1 .. n) \ {n} : i < n
  BY <1>3
<1>8. ASSUME NEW i \in DOMAIN r
      PROVE  i < n /\ r[i] = s[i] /\ i \in DOMAIN s
  BY <1>2, <1>3, <1>7
<1>9. ASSUME NEW i \in DOMAIN r
      PROVE  Placed(r[i]) /\ r[i].app # id
  BY <1>5, <1>8 DEF Settled, s, n
<1>10. ASSUME NEW i \in DOMAIN stack'[t] PROVE Placed(stack[t][i])'
  <2>1. Placed(s[i]) /\ s[i].app # id /\ r[i] = s[i]
    BY <1>8, <1>9, <1>10 DEF r
  <2>2. \A e : Placed(e) /\ e.app # id => Placed(e)'
    BY PlacedStays
  <2>. QED
    BY <2>1, <2>2 DEF Placed, Listed, r
<1>11. Apart(stack[t])'
  BY <1>5, <1>8 DEF Settled, Apart, r
<1>12. \A j \in DOMAIN r : r[j].pc \notin Asking
  BY <1>6, <1>8 DEF Running, Asking
<1>13. Spared(stack[t])'
  BY <1>12 DEF Spared, r
<1>14. Settled(stack[t])'
  BY <1>10, <1>11, <1>13 DEF Settled
<1>. QED
  BY <1>4, <1>14 DEF FrameInv

-----------------------------------------------------------------------------
(* The steps from inside. *)

LEMMA TopPlaced ==
  ASSUME Inv, NEW t \in Tasks, stack[t] # <<>>
  PROVE  /\ Top(t) \in Frames /\ Placed(Top(t))
         /\ Top(t).op # "iterate" => Top(t).file \in Files
         /\ Top(t).pc \in Frees =>
              \A i \in DOMAIN stack[t] : i < Len(stack[t]) => stack[t][i].app # Top(t).app
<1>1. TypeInv /\ StackInv /\ Settled(stack[t])
  BY DEF Inv, FrameInv
<1>2. /\ Top(t) = stack[t][Len(stack[t])] /\ Len(stack[t]) \in DOMAIN stack[t]
      /\ Top(t) \in Frames /\ (Top(t).op # "iterate" => Top(t).file \in Files)
  BY <1>1, TopFacts
<1>3. Placed(Top(t))
  BY <1>1, <1>2 DEF Settled
<1>4. Top(t).pc \in Frees =>
        \A i \in DOMAIN stack[t] : i < Len(stack[t]) => stack[t][i].app # Top(t).app
  BY <1>1, <1>2 DEF Settled, Apart
<1>. QED
  BY <1>2, <1>3, <1>4

LEMMA CountStays ==
  ASSUME CountInv, UNCHANGED <<apps, users, refused>>
  PROVE  CountInv'
BY DEF CountInv, Handles

\* A call that frees its application and returns.
LEMMA FreesTop ==
  ASSUME Inv, NEW t \in Tasks, stack[t] # <<>>, Top(t).pc \in Frees,
         AppFree(Top(t).app), Return(t)
  PROVE  /\ apps' \in Seq(Apps) /\ users' \in [Files -> Int] /\ refused' \in [Files -> Int]
         /\ CountInv' /\ FrameInv'
<1>. DEFINE id == Top(t).app
<1>1. TypeInv /\ CountInv /\ Top(t).pc \in Obtained
  BY DEF Inv, Frees, Obtained
<1>2. /\ Placed(Top(t))
      /\ \A i \in DOMAIN stack[t] : i < Len(stack[t]) => stack[t][i].app # id
  BY TopPlaced
<1>3. Listed(id, Files \union {NoFile})
  BY <1>2 DEF Placed, Frees
<1>. HIDE DEF id
<1>4. AppFree(id)
  BY DEF id
<1>5. /\ apps' \in Seq(Apps) /\ users' \in [Files -> Int] /\ refused' \in [Files -> Int] /\ CountInv'
      /\ Others(id)
  BY <1>1, <1>3, <1>4, FreeCounts
<1>6. FrameInv'
  BY <1>1, <1>2, <1>5, SettledGone
<1>. QED
  BY <1>5, <1>6

\* A call that leaves the list alone, unlocks and returns.
LEMMA LeaveStep ==
  ASSUME Inv, NEW t \in Tasks, stack[t] # <<>>, Top(t).pc \in Obtained, Leave(t),
         UNCHANGED <<made, ready, libio, stuck, apps, users, refused, kept, lost>>
  PROVE  Inv'
<1>1. /\ stack' \in [Tasks -> Seq(Frames)]
      /\ owner' \in Tasks \union {NoTask} /\ nest' \in Int
      /\ StackInv' /\ LibioInv' /\ ReadyInv' /\ HoldInv'
  BY InsideLeave
<1>2. TypeInv'
  BY <1>1 DEF Inv, TypeInv
<1>3. FrameInv'
  BY SettledPop DEF Leave
<1>4. CountInv'
  BY CountStays DEF Inv
<1>. QED
  BY <1>1, <1>2, <1>3, <1>4 DEF Inv

\* A call that frees its application, unlocks and returns.
LEMMA FreeStep ==
  ASSUME Inv, NEW t \in Tasks, stack[t] # <<>>, Top(t).pc \in Frees,
         AppFree(Top(t).app), Leave(t),
         UNCHANGED <<made, ready, libio, stuck, kept, lost>>
  PROVE  Inv'
<1>0. Top(t).pc \in Obtained /\ Return(t)
  BY DEF Frees, Obtained, Leave
<1>1. /\ stack' \in [Tasks -> Seq(Frames)]
      /\ owner' \in Tasks \union {NoTask} /\ nest' \in Int
      /\ StackInv' /\ LibioInv' /\ ReadyInv' /\ HoldInv'
  BY <1>0, InsideLeave
<1>2. /\ apps' \in Seq(Apps) /\ users' \in [Files -> Int] /\ refused' \in [Files -> Int]
      /\ CountInv' /\ FrameInv'
  BY <1>0, FreesTop
<1>3. TypeInv'
  BY <1>1, <1>2 DEF Inv, TypeInv
<1>. QED
  BY <1>1, <1>2, <1>3 DEF Inv

\* A call that keeps what it holds and returns true.
LEMMA KeepStep ==
  ASSUME Inv, NEW t \in Tasks, stack[t] # <<>>, Top(t).pc \in Obtained, Return(t),
         kept' = [kept EXCEPT ![t] = @ + 1],
         UNCHANGED <<made, ready, owner, nest, libio, stuck, apps, users, refused, lost>>
  PROVE  Inv'
<1>1. /\ stack' \in [Tasks -> Seq(Frames)] /\ kept' \in [Tasks -> Int]
      /\ StackInv' /\ LibioInv' /\ ReadyInv' /\ HoldInv'
  BY InsideKeep
<1>2. TypeInv'
  BY <1>1 DEF Inv, TypeInv
<1>3. FrameInv'
  BY SettledPop
<1>4. CountInv'
  BY CountStays DEF Inv
<1>. QED
  BY <1>1, <1>2, <1>3, <1>4 DEF Inv

\* A call that goes on inside and leaves the list alone.
LEMMA GoStep ==
  ASSUME Inv, NEW t \in Tasks, stack[t] # <<>>, Top(t).pc \in Obtained, NEW fr \in Frames,
         fr.pc \in Obtained, fr.op = Top(t).op, fr.file = Top(t).file,
         fr.absolute = Top(t).absolute, SwapTo(t, fr), Placed(fr),
         fr.pc \in Frees =>
           \A i \in DOMAIN stack[t] : i < Len(stack[t]) => stack[t][i].app # fr.app,
         fr.pc \in Asking => Top(t).pc \in Asking,
         UNCHANGED <<made, ready, owner, nest, libio, stuck, apps, users, refused, kept, lost>>
  PROVE  Inv'
<1>1. /\ stack' \in [Tasks -> Seq(Frames)]
      /\ StackInv' /\ LibioInv' /\ ReadyInv' /\ HoldInv'
  BY InsideSwap
<1>2. TypeInv'
  BY <1>1 DEF Inv, TypeInv
<1>3. FrameInv'
  BY SettledSwap
<1>4. CountInv'
  BY CountStays DEF Inv
<1>. QED
  BY <1>1, <1>2, <1>3, <1>4 DEF Inv

\* rtems_rap_load.
LEMMA LoadFoundStep == ASSUME Inv, NEW t \in Tasks, LoadFound(t) PROVE Inv'
<1>1. stack[t] # <<>> /\ Top(t).pc \in Obtained
  BY DEF LoadFound, IsAt, Obtained
<1>. QED
  BY <1>1, KeepStep DEF LoadFound

LEMMA LocateStep == ASSUME Inv, NEW t \in Tasks, Locate(t) PROVE Inv'
<1>1. stack[t] # <<>> /\ Top(t).pc \in Obtained /\ Top(t).op = "load"
  BY DEF Locate, IsAt, Obtained
<1>2. TypeInv /\ StackInv /\ CountInv
  BY DEF Inv
<1>3. /\ Top(t) \in Frames /\ Placed(Top(t)) /\ Top(t).file \in Files
  BY <1>1, TopPlaced
<1>a. UNCHANGED <<made, ready, libio, stuck, users, refused, kept>>
  BY DEF Locate
<1>4. CASE UNCHANGED apps /\ Leave(t) /\ UNCHANGED lost
  BY <1>1, <1>4, <1>a, LeaveStep
<1>6. CASE lost' = TRUE /\ UNCHANGED <<owner, nest, apps, stack>>
  <2>1. TypeInv'
    BY <1>2, <1>6, <1>a DEF TypeInv
  <2>2. StackInv' /\ CountInv'
    BY <1>2, <1>6, <1>a DEF StackInv, CountInv, Handles
  <2>3. LibioInv' /\ ReadyInv' /\ HoldInv'
    BY <1>6, <1>a DEF Inv, LibioInv, ReadyInv, HoldInv, Holds, IsAt, Top, Inside
  <2>4. FrameInv'
    <3>1. \A id, H : Listed(id, H) = Listed(id, H)'
      BY <1>6 DEF Listed
    <3>2. \A fr : Placed(fr) => Placed(fr)'
      BY <1>6, <3>1 DEF Placed
    <3>3. ASSUME NEW u \in Tasks PROVE Settled(stack[u])'
      <4>1. Settled(stack[u]) /\ stack'[u] = stack[u]
        BY <1>6 DEF Inv, FrameInv
      <4>2. Spared(stack[u])'
        <5>1. \A f, absolute : FindIndex(f, absolute)' = FindIndex(f, absolute)
          BY <1>6 DEF FindIndex, Matches, SelectInSeq
        <5>. QED
          BY <1>6, <4>1, <5>1 DEF Settled, Spared
      <4>3. Apart(stack[u])'
        BY <4>1 DEF Settled, Apart
      <4>4. \A i \in DOMAIN stack'[u] : Placed(stack[u][i])'
        BY <3>2, <4>1 DEF Settled
      <4>. QED
        BY <4>2, <4>3, <4>4 DEF Settled
    <3>. QED
      BY <3>3 DEF FrameInv
  <2>. QED
    BY <2>1, <2>2, <2>3, <2>4 DEF Inv
<1>5. ASSUME NEW id \in AppIds \ {apps[i].id : i \in DOMAIN apps},
             apps' = Append(apps, [id |-> id, file |-> Top(t).file, handle |-> NoFile]),
             GotoApp(t, "dlopen", id), UNCHANGED <<owner, nest, lost>>
      PROVE  Inv'
  <2>. DEFINE f == Top(t).file
  <2>0. PICK fr : fr = MovedApp(t, "dlopen", id)
    OBVIOUS
  <2>1. UNCHANGED <<made, ready, libio, stuck, users, refused, kept, lost>>
    BY <1>5, <1>a
  <2>2. SwapTo(t, fr)
    BY <1>1, <1>2, <1>5, <2>0, GotoSwaps
  <2>3. /\ fr \in Frames /\ fr.pc = "dlopen" /\ fr.app = id
        /\ fr.op = Top(t).op /\ fr.file = Top(t).file
    BY <1>1, <1>2, <1>5, <2>0, MovedFacts DEF Pcs, Obtained
  <2>. HIDE DEF f
  <2>4. id \in AppIds /\ id \notin {apps[i].id : i \in DOMAIN apps} /\ f \in Files
        /\ apps' = Append(apps, [id |-> id, file |-> f, handle |-> NoFile])
    BY <1>3, <1>5 DEF f
  <2>5. /\ apps' \in Seq(Apps) /\ CountInv'
        /\ \E m \in DOMAIN apps' : apps'[m].id = id /\ apps'[m].handle = NoFile
        /\ \A a, H : Listed(a, H) => \E m \in DOMAIN apps' :
                                       apps'[m].id = a /\ apps'[m].handle \in H
    BY <1>2, <2>1, <2>4, AppendCounts
  <2>6. Others(id)
    BY <2>5 DEF Others
  <2>7. id # NoApp /\ \A H : ~ Listed(id, H)
    BY <2>4, RapAssumption DEF Listed
  <2>8. ASSUME NEW i \in DOMAIN stack[t] PROVE stack[t][i].app # id
    <3>1. Placed(stack[t][i])
      BY DEF Inv, FrameInv, Settled
    <3>. QED
      BY <2>7, <3>1 DEF Placed
  <2>9. Placed(fr)'
    BY <2>3, <2>4, <2>5, <2>7 DEF Placed, Listed, Obtained, f
  <2>10. fr.pc \in Obtained /\ fr.pc \notin Asking
    BY <2>3 DEF Obtained, Asking
  <2>11. FrameInv'
    BY <1>1, <2>2, <2>3, <2>6, <2>8, <2>9, <2>10, SettledChange
  <2>12. /\ stack' \in [Tasks -> Seq(Frames)]
         /\ StackInv' /\ LibioInv' /\ ReadyInv' /\ HoldInv'
    BY <1>1, <1>5, <2>1, <2>2, <2>3, <2>10, InsideSwap
  <2>13. TypeInv'
    BY <1>5, <2>1, <2>5, <2>12 DEF Inv, TypeInv
  <2>. QED
    BY <2>5, <2>11, <2>12, <2>13 DEF Inv
<1>. QED
  BY <1>4, <1>5, <1>6 DEF Locate

LEMMA DlOpenStep == ASSUME Inv, NEW t \in Tasks, DlOpen(t) PROVE Inv'
<1>. DEFINE id == Top(t).app
            g  == Opened(Top(t).file)
<1>1. stack[t] # <<>> /\ Top(t).pc = "dlopen"
      /\ Top(t).pc \in Obtained /\ Top(t).pc \in Frees
  BY DEF DlOpen, IsAt, Obtained, Frees
<1>2. TypeInv /\ StackInv /\ CountInv
  BY DEF Inv
<1>3. /\ Top(t) \in Frames /\ Placed(Top(t))
      /\ \A i \in DOMAIN stack[t] : i < Len(stack[t]) => stack[t][i].app # id
  BY <1>1, TopPlaced
<1>4. UNCHANGED <<made, ready, libio, stuck, kept, lost>>
  BY DEF DlOpen
<1>5. CASE AppFree(id) /\ Leave(t)
  BY <1>1, <1>4, <1>5, FreeStep
<1>6. ASSUME users' = [users EXCEPT ![g] = @ + 1], apps' = SetHandle(id, g),
             Goto(t, "dlsym"), UNCHANGED <<owner, nest, refused>>
      PROVE  Inv'
  <2>0. PICK fr : fr = Moved(t, "dlsym")
    OBVIOUS
  <2>1. id # NoApp /\ Listed(id, {NoFile}) /\ id \in AppIds
    <3>1. id # NoApp /\ Listed(id, {NoFile})
      BY <1>1, <1>3 DEF Placed
    <3>2. id \in AppIds
      BY <1>3, <3>1 DEF Frames
    <3>. QED
      BY <3>1, <3>2
  <2>2. SwapTo(t, fr)
    BY <1>1, <1>2, <1>6, <2>0, GotoSwaps
  <2>3. /\ fr \in Frames /\ fr.pc = "dlsym" /\ fr.app = id
        /\ fr.op = Top(t).op /\ fr.file = Top(t).file
    BY <1>1, <1>2, <2>0, MovedPlain DEF Pcs, Obtained
  <2>4. g \in Files
    <3>1. Top(t).file \in Files
      BY <1>1, <1>3 DEF Placed
    <3>. QED
      BY <3>1 DEF Opened
  <2>. HIDE DEF id, g
  <2>5. /\ apps' \in Seq(Apps) /\ users' \in [Files -> Int] /\ refused' \in [Files -> Int] /\ CountInv'
        /\ \E m \in DOMAIN apps' : apps'[m].id = id /\ apps'[m].handle = g
        /\ \A a, H : a # id /\ Listed(a, H) => \E m \in DOMAIN apps' :
                                                 apps'[m].id = a /\ apps'[m].handle \in H
    BY <1>2, <1>6, <2>1, <2>4, HandleCounts
  <2>6. Others(id)
    BY <2>5 DEF Others
  <2>9. Placed(fr)'
    BY <2>1, <2>3, <2>4, <2>5 DEF Placed, Listed, Obtained
  <2>10. fr.pc \in Obtained /\ fr.pc \notin Asking
    BY <2>3 DEF Obtained, Asking
  <2>11. FrameInv'
    BY <1>1, <1>3, <2>2, <2>3, <2>6, <2>9, <2>10, SettledChange DEF id
  <2>12. /\ stack' \in [Tasks -> Seq(Frames)]
         /\ StackInv' /\ LibioInv' /\ ReadyInv' /\ HoldInv'
    BY <1>1, <1>4, <1>6, <2>2, <2>3, <2>10, InsideSwap
  <2>13. TypeInv'
    BY <1>4, <1>6, <2>5, <2>12 DEF Inv, TypeInv
  <2>. QED
    BY <2>5, <2>11, <2>12, <2>13 DEF Inv
<1>. QED
  BY <1>5, <1>6 DEF DlOpen

LEMMA DlSymStep == ASSUME Inv, NEW t \in Tasks, DlSym(t) PROVE Inv'
<1>1. stack[t] # <<>> /\ Top(t).pc = "dlsym"
      /\ Top(t).pc \in Obtained /\ Top(t).pc \in Frees
  BY DEF DlSym, IsAt, Obtained, Frees
<1>2. TypeInv /\ StackInv /\ apps \in Seq(Apps)
  BY DEF Inv, TypeInv
<1>3. /\ Top(t) \in Frames /\ Placed(Top(t))
      /\ \A i \in DOMAIN stack[t] : i < Len(stack[t]) => stack[t][i].app # Top(t).app
  BY <1>1, TopPlaced
<1>4. CASE AppFree(Top(t).app) /\ Leave(t)
  BY <1>1, <1>4, FreeStep DEF DlSym
<1>5. CASE /\ AppOf(Top(t).app).handle \in HasEntry
           /\ Goto(t, "entry") /\ UNCHANGED <<owner, nest, apps, users, refused>>
  <2>0. PICK fr : fr = Moved(t, "entry")
    OBVIOUS
  <2>1. UNCHANGED <<made, ready, owner, nest, libio, stuck, apps, users, refused, kept, lost>>
    BY <1>5 DEF DlSym
  <2>2. SwapTo(t, fr)
    BY <1>1, <1>2, <1>5, <2>0, GotoSwaps
  <2>3. /\ fr \in Frames /\ fr.pc = "entry" /\ fr.app = Top(t).app /\ fr.op = Top(t).op
        /\ fr.file = Top(t).file /\ fr.absolute = Top(t).absolute
    BY <1>1, <1>2, <2>0, MovedPlain DEF Pcs, Obtained
  <2>4. fr.app # NoApp /\ Listed(fr.app, Files \union {NoFile})
    BY <1>1, <1>3, <2>3 DEF Placed
  <2>5. Listed(fr.app, HasEntry)
    <3>. DEFINE k == AppIndex(Top(t).app)
    <3>1. k \in DOMAIN apps /\ apps[k].id = fr.app
      BY <1>2, <2>3, <2>4, AppIndexFacts
    <3>2. apps[k].handle \in HasEntry
      BY <1>5 DEF AppOf
    <3>. HIDE DEF k
    <3>. QED
      BY <3>1, <3>2 DEF Listed
  <2>6. Placed(fr)
    BY <2>3, <2>4, <2>5 DEF Placed, Obtained
  <2>7. fr.pc \in Obtained /\ fr.pc \notin Asking
    BY <2>3 DEF Obtained, Asking
  <2>. QED
    BY <1>1, <1>3, <2>1, <2>2, <2>3, <2>6, <2>7, GoStep
<1>. QED
  BY <1>4, <1>5 DEF DlSym

LEMMA EntryReturnsStep == ASSUME Inv, NEW t \in Tasks, EntryReturns(t) PROVE Inv'
<1>1. /\ stack[t] # <<>> /\ Top(t).pc \in Obtained /\ Top(t).pc \in Frees
      /\ UNCHANGED <<made, ready, libio, stuck, lost>>
  BY DEF EntryReturns, IsAt, Obtained, Frees
<1>2. CASE /\ kept' = [kept EXCEPT ![t] = @ + 1]
           /\ Return(t) /\ UNCHANGED <<owner, nest, apps, users, refused>>
  BY <1>1, <1>2, KeepStep
<1>3. CASE AppFree(Top(t).app) /\ Leave(t) /\ UNCHANGED kept
  BY <1>1, <1>3, FreeStep
<1>. QED
  BY <1>2, <1>3 DEF EntryReturns

\* rtems_rap_unload: the application that is found is not one of the calls below.
LEMMA UnloadFindStep == ASSUME Inv, NEW t \in Tasks, UnloadFind(t) PROVE Inv'
<1>. DEFINE k == FindIndex(Top(t).file, Top(t).absolute)
<1>1. /\ stack[t] # <<>> /\ Top(t).pc = "find" /\ Top(t).op = "unload"
      /\ Top(t).pc \in Obtained /\ Top(t).pc \in Asking
      /\ UNCHANGED <<made, ready, libio, stuck, apps, users, refused, kept, lost>>
  BY DEF UnloadFind, IsAt, Obtained, Asking
<1>2. TypeInv /\ StackInv /\ apps \in Seq(Apps)
  BY DEF Inv, TypeInv
<1>3. CASE Leave(t)
  BY <1>1, <1>3, LeaveStep
<1>4. CASE /\ k # 0 /\ apps[k].handle \in HasEntry
           /\ GotoApp(t, "fini", apps[k].id) /\ UNCHANGED <<owner, nest>>
  <2>1. k \in DOMAIN apps
    BY <1>2, <1>4, FindIndexFacts
  <2>2. apps[k].id \in AppIds /\ apps[k].id # NoApp
    <3>. HIDE DEF k
    <3>1. apps[k] \in Apps
      BY <1>2, <2>1
    <3>. QED
      BY <3>1, RapAssumption DEF Apps
  <2>3. Top(t) = stack[t][Len(stack[t])] /\ Len(stack[t]) \in DOMAIN stack[t]
    BY <1>1, <1>2, TopFacts
  <2>4. Spared(stack[t])
    BY DEF Inv, FrameInv, Settled
  <2>5. \A i \in DOMAIN stack[t] : i < Len(stack[t]) => stack[t][i].app # apps[k].id
    BY <1>1, <2>1, <2>3, <2>4 DEF Spared
  <2>6. PICK fr : fr = MovedApp(t, "fini", apps[k].id)
    OBVIOUS
  <2>. HIDE DEF k
  <2>7. SwapTo(t, fr)
    BY <1>1, <1>2, <1>4, <2>6, GotoSwaps
  <2>8. /\ fr \in Frames /\ fr.pc = "fini" /\ fr.app = apps[k].id /\ fr.op = Top(t).op
        /\ fr.file = Top(t).file /\ fr.absolute = Top(t).absolute
    BY <1>1, <1>2, <2>2, <2>6, MovedFacts DEF Pcs, Obtained
  <2>9. Listed(fr.app, HasEntry) /\ Listed(fr.app, Files \union {NoFile})
    BY <1>4, <2>1, <2>8, RapAssumption DEF Listed
  <2>10. Placed(fr)
    BY <2>2, <2>8, <2>9 DEF Placed, Obtained
  <2>11. fr.pc \in Obtained /\ fr.pc \notin Asking
    BY <2>8 DEF Obtained, Asking
  <2>. QED
    BY <1>1, <1>4, <2>5, <2>7, <2>8, <2>10, <2>11, GoStep
<1>. QED
  BY <1>3, <1>4 DEF UnloadFind

LEMMA FiniReturnsStep == ASSUME Inv, NEW t \in Tasks, FiniReturns(t) PROVE Inv'
<1>1. /\ stack[t] # <<>> /\ Top(t).pc \in Obtained /\ Top(t).pc \in Frees
      /\ Leave(t) /\ UNCHANGED <<made, ready, libio, stuck, kept, lost>>
  BY DEF FiniReturns, IsAt, Obtained, Frees
<1>2. CASE AppFree(Top(t).app)
  BY <1>1, <1>2, FreeStep
<1>3. CASE UNCHANGED <<apps, users, refused>>
  BY <1>1, <1>3, LeaveStep
<1>. QED
  BY <1>2, <1>3 DEF FiniReturns

LEMMA FindStep == ASSUME Inv, NEW t \in Tasks, Find(t) PROVE Inv'
<1>1. /\ stack[t] # <<>> /\ Top(t).pc \in Obtained /\ Leave(t)
      /\ UNCHANGED <<made, ready, libio, stuck, apps, users, refused, kept, lost>>
  BY DEF Find, IsAt, Obtained
<1>. QED
  BY <1>1, LeaveStep

\* rtems_rap_iterate.
LEMMA WalkStep == ASSUME Inv, NEW t \in Tasks, Walk(t) PROVE Inv'
<1>. DEFINE k == NextApp(t)
<1>1. /\ stack[t] # <<>> /\ Top(t).pc = "walk" /\ Top(t).pc \in Obtained
      /\ UNCHANGED <<made, ready, libio, stuck, apps, users, refused, kept, lost>>
  BY DEF Walk, IsAt, Obtained
<1>2. TypeInv /\ StackInv /\ apps \in Seq(Apps)
  BY DEF Inv, TypeInv
<1>3. CASE Leave(t)
  BY <1>1, <1>3, LeaveStep
<1>4. CASE /\ k <= Len(apps)
           /\ GotoApp(t, "callback", apps[k].id) /\ UNCHANGED <<owner, nest>>
  <2>1. k \in DOMAIN apps
    <3>1. AppIndex(Top(t).app) \in Nat
      BY <1>2, AppIndexFacts
    <3>2. k \in Nat /\ 1 <= k
      BY <3>1 DEF NextApp
    <3>. QED
      BY <1>2, <1>4, <3>2
  <2>2. apps[k].id \in AppIds /\ apps[k].id # NoApp
        /\ apps[k].handle \in Files \union {NoFile}
    <3>. HIDE DEF k
    <3>1. apps[k] \in Apps
      BY <1>2, <2>1
    <3>. QED
      BY <3>1, RapAssumption DEF Apps
  <2>3. PICK fr : fr = MovedApp(t, "callback", apps[k].id)
    OBVIOUS
  <2>. HIDE DEF k
  <2>4. SwapTo(t, fr)
    BY <1>1, <1>2, <1>4, <2>3, GotoSwaps
  <2>5. /\ fr \in Frames /\ fr.pc = "callback" /\ fr.app = apps[k].id /\ fr.op = Top(t).op
        /\ fr.file = Top(t).file /\ fr.absolute = Top(t).absolute
    BY <1>1, <1>2, <2>2, <2>3, MovedFacts DEF Pcs, Obtained
  <2>6. Placed(fr)
    BY <2>1, <2>2, <2>5 DEF Placed, Obtained, Listed
  <2>7. fr.pc \in Obtained /\ fr.pc \notin Asking /\ fr.pc \notin Frees
    BY <2>5 DEF Obtained, Asking, Frees
  <2>. QED
    BY <1>1, <1>4, <2>4, <2>5, <2>6, <2>7, GoStep
<1>. QED
  BY <1>3, <1>4 DEF Walk

LEMMA CallbackReturnsStep == ASSUME Inv, NEW t \in Tasks, CallbackReturns(t) PROVE Inv'
<1>1. /\ stack[t] # <<>> /\ Top(t).pc = "callback" /\ Top(t).pc \in Obtained
      /\ UNCHANGED <<made, ready, libio, stuck, apps, users, refused, kept, lost>>
  BY DEF CallbackReturns, IsAt, Obtained
<1>2. TypeInv /\ StackInv
  BY DEF Inv
<1>3. CASE Leave(t)
  BY <1>1, <1>3, LeaveStep
<1>4. CASE Goto(t, "walk") /\ UNCHANGED <<owner, nest>>
  <2>1. PICK fr : fr = Moved(t, "walk")
    OBVIOUS
  <2>2. SwapTo(t, fr)
    BY <1>1, <1>2, <1>4, <2>1, GotoSwaps
  <2>3. /\ fr \in Frames /\ fr.pc = "walk" /\ fr.app = Top(t).app /\ fr.op = Top(t).op
        /\ fr.file = Top(t).file /\ fr.absolute = Top(t).absolute
    BY <1>1, <1>2, <2>1, MovedPlain DEF Pcs, Obtained
  <2>4. Placed(Top(t))
    BY <1>1, TopPlaced
  <2>5. Placed(fr)
    BY <1>1, <2>3, <2>4 DEF Placed, Obtained
  <2>6. fr.pc \in Obtained /\ fr.pc \notin Asking /\ fr.pc \notin Frees
    BY <2>3 DEF Obtained, Asking, Frees
  <2>. QED
    BY <1>1, <1>4, <2>2, <2>3, <2>5, <2>6, GoStep
<1>. QED
  BY <1>3, <1>4 DEF CallbackReturns

-----------------------------------------------------------------------------
(* The steps of rtems_rap_data_init, rtems_rap_lock and a new call. *)

LEMMA OutsideGoes ==
  ASSUME Inv, NEW t \in Tasks, stack[t] # <<>>,
         Top(t).pc \in {"libio", "test", "chain", "obtain"},
         NEW pc \in Asking \union {"walk"}, Goto(t, pc), UNCHANGED apps
  PROVE  /\ stack' \in [Tasks -> Seq(Frames)] /\ StackInv' /\ FrameInv'
         /\ \A u \in Tasks \ {t} : Inside(u)' = Inside(u) /\ \A c : (IsAt(u, c))' <=> IsAt(u, c)
         /\ \A c : (IsAt(t, c))' <=> pc = c
         /\ pc \notin Obtained => Inside(t)' = Inside(t)
         /\ pc \in Obtained => Cardinality(Inside(t)') = Cardinality(Inside(t)) + 1
<1>1. TypeInv /\ StackInv
  BY DEF Inv
<1>2. PICK fr : fr = Moved(t, pc)
  OBVIOUS
<1>3. SwapTo(t, fr)
  BY <1>1, <1>2, GotoSwaps
<1>4. pc \in Pcs
  BY DEF Asking, Pcs, Obtained
<1>5. /\ fr \in Frames /\ fr.pc = pc /\ fr.app = Top(t).app /\ fr.op = Top(t).op
      /\ fr.file = Top(t).file /\ fr.absolute = Top(t).absolute
  BY <1>1, <1>2, <1>4, MovedPlain
<1>6. Placed(Top(t)) /\ (Top(t).op # "iterate" => Top(t).file \in Files)
  BY TopPlaced
<1>7. Top(t).app = NoApp /\ Top(t).pc \notin Obtained /\ Top(t).pc \in Asking
  BY <1>6 DEF Placed, Obtained, Asking
<1>8. Placed(fr)
  BY <1>5, <1>7 DEF Placed, Asking
<1>9. fr.pc \notin Frees
  BY <1>5 DEF Asking, Frees
<1>10. stack' \in [Tasks -> Seq(Frames)] /\ StackInv'
  BY <1>1, <1>3, <1>5, <1>6, SwapStack
<1>11. FrameInv'
  BY <1>3, <1>5, <1>7, <1>8, <1>9, SettledSwap
<1>12. /\ \A u \in Tasks \ {t} : Inside(u)' = Inside(u) /\ \A c : (IsAt(u, c))' <=> IsAt(u, c)
       /\ \A c : (IsAt(t, c))' <=> fr.pc = c
       /\ Top(t).pc \notin Obtained /\ fr.pc \notin Obtained => Inside(t)' = Inside(t)
       /\ Top(t).pc \notin Obtained /\ fr.pc \in Obtained =>
            Cardinality(Inside(t)') = Cardinality(Inside(t)) + 1
  BY <1>1, <1>3, <1>5, SwapInside
<1>. QED
  BY <1>5, <1>7, <1>10, <1>11, <1>12

LEMMA AtTop ==
  ASSUME NEW t, NEW pc, IsAt(t, pc)
  PROVE  stack[t] # <<>> /\ Top(t).pc = pc /\ \A c : IsAt(t, c) <=> c = pc
BY DEF IsAt

\* Nobody else is at work in the initialisation.
LEMMA LibioAlone ==
  ASSUME Inv, NEW t \in Tasks, libio \in {NoTask, t}
  PROVE  \A u \in Tasks \ {t} : ~ IsAt(u, "test") /\ ~ IsAt(u, "chain")
BY RapAssumption DEF Inv, LibioInv

LEMMA LibioLockStep == ASSUME Inv, NEW t \in Tasks, LibioLock(t) PROVE Inv'
<1>1. /\ IsAt(t, "libio") /\ Goto(t, "test") /\ libio \in {NoTask, t} /\ libio' = t
      /\ UNCHANGED <<made, ready, owner, nest, stuck, apps, users, refused, kept, lost>>
  BY DEF LibioLock
<1>2. stack[t] # <<>> /\ Top(t).pc = "libio" /\ ~ IsAt(t, "chain")
  BY <1>1, AtTop
<1>3. /\ stack' \in [Tasks -> Seq(Frames)] /\ StackInv' /\ FrameInv'
      /\ \A u \in Tasks \ {t} : Inside(u)' = Inside(u) /\ \A c : (IsAt(u, c))' <=> IsAt(u, c)
      /\ \A c : (IsAt(t, c))' <=> "test" = c
      /\ Inside(t)' = Inside(t)
  <2>1. "test" \in Asking \union {"walk"} /\ "test" \notin Obtained
    BY DEF Asking, Obtained
  <2>. QED
    BY <1>1, <1>2, <2>1, OutsideGoes
<1>4. \A u \in Tasks : /\ Inside(u)' = Inside(u)
                       /\ (IsAt(u, "chain"))' <=> IsAt(u, "chain")
                       /\ (IsAt(u, "obtain"))' => IsAt(u, "obtain")
  BY <1>2, <1>3
<1>5. LibioInv'
  <2>1. \A u \in Tasks \ {t} : ~ IsAt(u, "test") /\ ~ IsAt(u, "chain")
    BY <1>1, LibioAlone
  <2>2. stuck # NoTask => libio = stuck
    BY DEF Inv, LibioInv
  <2>. QED
    BY <1>1, <1>3, <2>1, <2>2 DEF LibioInv
<1>6. ReadyInv'
  BY <1>1, <1>4 DEF Inv, ReadyInv
<1>7. HoldInv'
  <2>1. \A u \in Tasks : Holds(u)' = Holds(u)
    BY <1>1, <1>4 DEF Holds
  <2>. QED
    BY <1>1, <2>1, HoldSame DEF Inv, HoldInv
<1>8. TypeInv'
  BY <1>1, <1>3 DEF Inv, TypeInv
<1>9. CountInv'
  BY <1>1, CountStays DEF Inv
<1>. QED
  BY <1>3, <1>5, <1>6, <1>7, <1>8, <1>9 DEF Inv

LEMMA InitDoneStep == ASSUME Inv, NEW t \in Tasks, InitDone(t) PROVE Inv'
<1>1. /\ IsAt(t, "test") /\ made /\ Goto(t, "obtain") /\ libio' = stuck
      /\ UNCHANGED <<made, ready, owner, nest, stuck, apps, users, refused, kept, lost>>
  BY DEF InitDone
<1>2. stack[t] # <<>> /\ Top(t).pc = "test" /\ ~ IsAt(t, "chain")
  BY <1>1, AtTop
<1>3. /\ stack' \in [Tasks -> Seq(Frames)] /\ StackInv' /\ FrameInv'
      /\ \A u \in Tasks \ {t} : Inside(u)' = Inside(u) /\ \A c : (IsAt(u, c))' <=> IsAt(u, c)
      /\ \A c : (IsAt(t, c))' <=> "obtain" = c
      /\ Inside(t)' = Inside(t)
  <2>1. "obtain" \in Asking \union {"walk"} /\ "obtain" \notin Obtained
    BY DEF Asking, Obtained
  <2>. QED
    BY <1>1, <1>2, <2>1, OutsideGoes
<1>4. \A u \in Tasks : Inside(u)' = Inside(u) /\ ((IsAt(u, "chain"))' <=> IsAt(u, "chain"))
  BY <1>2, <1>3
<1>5. LibioInv'
  <2>1. libio = t
    BY <1>1 DEF Inv, LibioInv
  <2>2. \A u \in Tasks \ {t} : ~ IsAt(u, "test") /\ ~ IsAt(u, "chain")
    BY <2>1, LibioAlone
  <2>. QED
    BY <1>1, <1>3, <2>2 DEF LibioInv
<1>6. ReadyInv'
  BY <1>1, <1>4 DEF Inv, ReadyInv
<1>7. HoldInv'
  <2>1. \A u \in Tasks : Holds(u)' = Holds(u)
    BY <1>1, <1>4 DEF Holds
  <2>. QED
    BY <1>1, <2>1, HoldSame DEF Inv, HoldInv
<1>8. TypeInv'
  BY <1>1, <1>3 DEF Inv, TypeInv
<1>9. CountInv'
  BY <1>1, CountStays DEF Inv
<1>. QED
  BY <1>3, <1>5, <1>6, <1>7, <1>8, <1>9 DEF Inv

LEMMA InitMakeStep == ASSUME Inv, NEW t \in Tasks, InitMake(t) PROVE Inv'
<1>1. /\ IsAt(t, "test") /\ ~ made /\ made' = TRUE /\ Goto(t, "chain") /\ Lock(t)
      /\ UNCHANGED <<ready, libio, stuck, apps, users, refused, kept, lost>>
  BY DEF InitMake
<1>2. stack[t] # <<>> /\ Top(t).pc = "test" /\ ~ IsAt(t, "chain")
  BY <1>1, AtTop
<1>3. /\ stack' \in [Tasks -> Seq(Frames)] /\ StackInv' /\ FrameInv'
      /\ \A u \in Tasks \ {t} : Inside(u)' = Inside(u) /\ \A c : (IsAt(u, c))' <=> IsAt(u, c)
      /\ \A c : (IsAt(t, c))' <=> "chain" = c
      /\ Inside(t)' = Inside(t)
  <2>1. "chain" \in Asking \union {"walk"} /\ "chain" \notin Obtained
    BY DEF Asking, Obtained
  <2>. QED
    BY <1>1, <1>2, <2>1, OutsideGoes
<1>4. libio = t
  BY <1>1 DEF Inv, LibioInv
<1>5. \A u \in Tasks \ {t} : ~ IsAt(u, "test") /\ ~ IsAt(u, "chain")
  BY <1>4, LibioAlone
<1>6. LibioInv'
  BY <1>1, <1>3, <1>4, <1>5 DEF Inv, LibioInv
<1>7. ~ ready /\ owner' = t
  BY <1>1 DEF Inv, ReadyInv, Lock
<1>8. ReadyInv'
  <2>1. ~ ready' /\ made' /\ owner' = t /\ (IsAt(t, "chain"))'
    BY <1>1, <1>3, <1>7
  <2>2. \A u \in Tasks : Inside(u)' = {} /\ kept'[u] = 0
    BY <1>1, <1>3, <1>7 DEF Inv, ReadyInv
  <2>3. \A u \in Tasks \ {t} : ~ (IsAt(u, "chain"))'
    BY <1>3, <1>5
  <2>4. apps' = <<>>
    BY <1>1, <1>7 DEF Inv, ReadyInv
  <2>. QED
    BY <2>1, <2>2, <2>3, <2>4 DEF ReadyInv
<1>9. HoldInv' /\ owner' \in Tasks \union {NoTask} /\ nest' \in Int
  <2>1. \A u \in Tasks \ {t} : Holds(u)' = Holds(u)
    BY <1>1, <1>3, <1>5 DEF Holds
  <2>2. Cardinality(Inside(t)) \in Nat /\ kept[t] \in Nat
    BY HoldsInt DEF Inv
  <2>3. Holds(t) = Cardinality(Inside(t)) + kept[t] + 0
        /\ Holds(t)' = Cardinality(Inside(t)) + kept[t] + 1
    BY <1>1, <1>2, <1>3 DEF Holds
  <2>4. Holds(t)' = Holds(t) + 1
    BY <2>2, <2>3
  <2>. QED
    BY <1>1, <2>1, <2>4, HoldMore DEF Inv
<1>10. TypeInv'
  BY <1>1, <1>3, <1>9 DEF Inv, TypeInv
<1>11. CountInv'
  BY <1>1, CountStays DEF Inv
<1>. QED
  BY <1>3, <1>6, <1>8, <1>9, <1>10, <1>11 DEF Inv

LEMMA InitFailsStep == ASSUME Inv, NEW t \in Tasks, InitFails(t) PROVE Inv'
<1>1. /\ IsAt(t, "test") /\ ~ made /\ Return(t) /\ stuck' = t /\ lost' \in BOOLEAN
      /\ UNCHANGED <<made, ready, owner, nest, libio, apps, users, refused, kept>>
  BY DEF InitFails
<1>2. stack[t] # <<>> /\ Top(t).pc = "test" /\ ~ IsAt(t, "chain") /\ Top(t).pc \notin Obtained
  BY <1>1, AtTop DEF Obtained
<1>3. TypeInv /\ StackInv
  BY DEF Inv
<1>4. /\ \A u \in Tasks \ {t} : Inside(u)' = Inside(u) /\ \A c : (IsAt(u, c))' <=> IsAt(u, c)
      /\ \A c : (IsAt(t, c))' => c \in Running
      /\ Inside(t)' = Inside(t)
  BY <1>1, <1>2, <1>3, PopInside
<1>5. stack' \in [Tasks -> Seq(Frames)] /\ StackInv'
  BY <1>1, <1>2, <1>3, PopStack
<1>6. FrameInv'
  BY <1>1, <1>2, SettledPop
<1>7. \A c \in {"test", "chain", "obtain"} : ~ (IsAt(t, c))'
  BY <1>4 DEF Running
<1>8. \A u \in Tasks : /\ Inside(u)' = Inside(u)
                       /\ (IsAt(u, "chain"))' <=> IsAt(u, "chain")
                       /\ (IsAt(u, "test"))' => IsAt(u, "test")
                       /\ (IsAt(u, "obtain"))' => IsAt(u, "obtain")
  BY <1>2, <1>4, <1>7
<1>9. LibioInv'
  <2>1. libio = t
    BY <1>1 DEF Inv, LibioInv
  <2>. QED
    BY <1>1, <1>8, <2>1 DEF Inv, LibioInv
<1>10. ReadyInv'
  BY <1>1, <1>8 DEF Inv, ReadyInv
<1>11. HoldInv'
  <2>1. \A u \in Tasks : Holds(u)' = Holds(u)
    BY <1>1, <1>8 DEF Holds
  <2>. QED
    BY <1>1, <2>1, HoldSame DEF Inv, HoldInv
<1>12. TypeInv'
  BY <1>1, <1>5 DEF Inv, TypeInv
<1>13. CountInv'
  BY <1>1, CountStays DEF Inv
<1>. QED
  BY <1>5, <1>6, <1>9, <1>10, <1>11, <1>12, <1>13 DEF Inv

LEMMA InitChainStep == ASSUME Inv, NEW t \in Tasks, InitChain(t) PROVE Inv'
<1>1. /\ IsAt(t, "chain") /\ ready' = TRUE /\ apps' = <<>> /\ libio' = stuck
      /\ Unlock(t) /\ Goto(t, "obtain")
      /\ UNCHANGED <<made, stuck, users, refused, kept, lost>>
  BY DEF InitChain
<1>2. stack[t] # <<>> /\ Top(t).pc = "chain"
  BY <1>1, AtTop
<1>3. ~ ready /\ made /\ UNCHANGED apps
  BY <1>1 DEF Inv, ReadyInv
<1>4. /\ stack' \in [Tasks -> Seq(Frames)] /\ StackInv' /\ FrameInv'
      /\ \A u \in Tasks \ {t} : Inside(u)' = Inside(u) /\ \A c : (IsAt(u, c))' <=> IsAt(u, c)
      /\ \A c : (IsAt(t, c))' <=> "obtain" = c
      /\ Inside(t)' = Inside(t)
  <2>1. "obtain" \in Asking \union {"walk"} /\ "obtain" \notin Obtained
    BY DEF Asking, Obtained
  <2>. QED
    BY <1>1, <1>2, <1>3, <2>1, OutsideGoes
<1>5. libio = t
  BY <1>1 DEF Inv, LibioInv
<1>6. \A u \in Tasks \ {t} : ~ IsAt(u, "test") /\ ~ IsAt(u, "chain")
  BY <1>5, LibioAlone
<1>7. LibioInv'
  BY <1>1, <1>4, <1>6 DEF LibioInv
<1>8. \A u \in Tasks : ~ (IsAt(u, "chain"))'
  BY <1>4, <1>6
<1>9. ReadyInv'
  BY <1>1, <1>3, <1>8 DEF ReadyInv
<1>10. HoldInv' /\ owner' \in Tasks \union {NoTask} /\ nest' \in Int
  <2>1. \A u \in Tasks \ {t} : Holds(u)' = Holds(u)
    BY <1>1, <1>4, <1>6 DEF Holds
  <2>2. Cardinality(Inside(t)) \in Nat /\ kept[t] \in Nat
    BY HoldsInt DEF Inv
  <2>3. Holds(t) = Cardinality(Inside(t)) + kept[t] + 1
        /\ Holds(t)' = Cardinality(Inside(t)) + kept[t] + 0
    BY <1>1, <1>4, <1>8 DEF Holds
  <2>4. Holds(t)' = Holds(t) - 1 /\ Holds(t) > 0
    BY <2>2, <2>3
  <2>. QED
    BY <1>1, <2>1, <2>4, HoldLess DEF Inv
<1>11. TypeInv'
  BY <1>1, <1>3, <1>4, <1>10 DEF Inv, TypeInv
<1>12. CountInv'
  BY <1>1, <1>3, CountStays DEF Inv
<1>. QED
  BY <1>4, <1>7, <1>9, <1>10, <1>11, <1>12 DEF Inv

\* rtems_rap_lock: nobody can obtain the mutex before the list is initialised.
LEMMA ObtainStep == ASSUME Inv, NEW t \in Tasks, Obtain(t) PROVE Inv'
<1>1. /\ IsAt(t, "obtain") /\ Lock(t)
      /\ UNCHANGED <<made, ready, libio, stuck, apps, users, refused, kept, lost>>
  BY DEF Obtain
<1>2. PICK pc \in {"walk", "find"} : Goto(t, pc)
  BY DEF Obtain
<1>3. stack[t] # <<>> /\ Top(t).pc = "obtain" /\ ~ IsAt(t, "chain")
  BY <1>1, AtTop
<1>4. /\ stack' \in [Tasks -> Seq(Frames)] /\ StackInv' /\ FrameInv'
      /\ \A u \in Tasks \ {t} : Inside(u)' = Inside(u) /\ \A c : (IsAt(u, c))' <=> IsAt(u, c)
      /\ \A c : (IsAt(t, c))' <=> pc = c
      /\ Cardinality(Inside(t)') = Cardinality(Inside(t)) + 1
  <2>1. pc \in Asking \union {"walk"} /\ pc \in Obtained
    BY DEF Asking, Obtained
  <2>. QED
    BY <1>1, <1>2, <1>3, <2>1, OutsideGoes
<1>5. ready
  <2>1. SUFFICES ASSUME ~ ready PROVE FALSE
    OBVIOUS
  <2>2. made
    BY <1>1 DEF Inv, ReadyInv
  <2>3. PICK c \in Tasks : IsAt(c, "chain")
    BY <2>1, <2>2 DEF Inv, ReadyInv
  <2>4. owner = c /\ c # t /\ c # NoTask
    BY <1>3, <2>3, RapAssumption DEF Inv, ReadyInv
  <2>. QED
    BY <1>1, <2>4 DEF Lock
<1>6. \A u \in Tasks : ~ IsAt(u, "chain") /\ ~ (IsAt(u, "chain"))'
  <2>1. \A u \in Tasks : ~ IsAt(u, "chain")
    BY <1>5 DEF Inv, ReadyInv
  <2>2. pc # "chain"
    OBVIOUS
  <2>. QED
    BY <1>4, <2>1, <2>2
<1>7. LibioInv'
  <2>1. pc # "test"
    OBVIOUS
  <2>2. \A u \in Tasks : (IsAt(u, "test"))' => IsAt(u, "test")
    BY <1>4, <2>1
  <2>. QED
    BY <1>1, <1>6, <2>2 DEF Inv, LibioInv
<1>8. ReadyInv'
  BY <1>1, <1>5, <1>6, ReadyStays DEF Inv
<1>9. HoldInv' /\ owner' \in Tasks \union {NoTask} /\ nest' \in Int
  <2>1. \A u \in Tasks \ {t} : Holds(u)' = Holds(u)
    BY <1>1, <1>4, <1>6 DEF Holds
  <2>2. Cardinality(Inside(t)) \in Nat /\ kept[t] \in Nat
    BY HoldsInt DEF Inv
  <2>3. Holds(t) = Cardinality(Inside(t)) + kept[t] + 0
        /\ Holds(t)' = (Cardinality(Inside(t)) + 1) + kept[t] + 0
    BY <1>1, <1>4, <1>6 DEF Holds
  <2>4. Holds(t)' = Holds(t) + 1
    BY <2>2, <2>3
  <2>. QED
    BY <1>1, <2>1, <2>4, HoldMore DEF Inv
<1>10. TypeInv'
  BY <1>1, <1>4, <1>9 DEF Inv, TypeInv
<1>11. CountInv'
  BY <1>1, CountStays DEF Inv
<1>. QED
  BY <1>4, <1>7, <1>8, <1>9, <1>10, <1>11 DEF Inv

LEMMA CallStep ==
  ASSUME Inv, NEW t \in Tasks, NEW op \in {"load", "unload", "find", "iterate"},
         NEW f \in Files \union {NoFile}, NEW absolute \in BOOLEAN,
         op # "iterate" => f \in Files, Call(t, op, f, absolute)
  PROVE  Inv'
<1>1. /\ InProgram(t)
      /\ op = "unload" =>
           \A i \in DOMAIN apps : i = FindIndex(f, absolute) => apps[i].id \notin Busy(t)
      /\ UNCHANGED <<made, ready, owner, nest, libio, stuck, apps, users, refused, kept, lost>>
  BY DEF Call
<1>2. PICK fr : fr = Frame(op, f, absolute)
  OBVIOUS
<1>3. Push(t, fr)
  BY <1>2 DEF Call, Push
<1>4. /\ fr \in Frames /\ fr.app = NoApp /\ fr.op = op /\ fr.file = f
      /\ fr.absolute = absolute /\ fr.pc = IF made THEN "obtain" ELSE "libio"
  BY <1>2 DEF Frame, Frames, Pcs
<1>5. fr.pc \notin Obtained /\ fr.pc # "chain" /\ fr.pc # "test" /\ (fr.pc = "obtain" => made)
  BY <1>4 DEF Obtained
<1>6. TypeInv /\ StackInv
  BY DEF Inv
<1>7. stack' \in [Tasks -> Seq(Frames)] /\ StackInv'
  BY <1>1, <1>3, <1>4, <1>6, PushStack
<1>8. FrameInv'
  BY <1>1, <1>3, <1>4, <1>5, SettledPush
<1>9. /\ \A u \in Tasks \ {t} : Inside(u)' = Inside(u) /\ \A pc : (IsAt(u, pc))' <=> IsAt(u, pc)
      /\ \A pc : (IsAt(t, pc))' <=> fr.pc = pc
      /\ Inside(t)' = Inside(t)
  BY <1>3, <1>4, <1>5, <1>6, PushInside
<1>10. ~ IsAt(t, "chain")
  BY <1>1, AtTop DEF InProgram
<1>11. \A u \in Tasks : /\ Inside(u)' = Inside(u)
                        /\ (IsAt(u, "chain"))' <=> IsAt(u, "chain")
                        /\ (IsAt(u, "test"))' => IsAt(u, "test")
  BY <1>5, <1>9, <1>10
<1>12. \A u \in Tasks : (IsAt(u, "obtain"))' => made
  BY <1>5, <1>9 DEF Inv, ReadyInv
<1>13. LibioInv'
  BY <1>1, <1>11 DEF Inv, LibioInv
<1>14. ReadyInv'
  BY <1>1, <1>11, <1>12 DEF Inv, ReadyInv
<1>15. HoldInv'
  <2>1. \A u \in Tasks : Holds(u)' = Holds(u)
    BY <1>1, <1>11 DEF Holds
  <2>. QED
    BY <1>1, <2>1, HoldSame DEF Inv, HoldInv
<1>16. TypeInv'
  BY <1>1, <1>7 DEF Inv, TypeInv
<1>17. CountInv'
  BY <1>1, CountStays DEF Inv
<1>. QED
  BY <1>7, <1>8, <1>13, <1>14, <1>15, <1>16, <1>17 DEF Inv

-----------------------------------------------------------------------------
(* The invariant, and what it says. *)

LEMMA InvInit == Init => Inv
<1>. SUFFICES ASSUME Init PROVE Inv
  OBVIOUS
<1>1. /\ \A t \in Tasks : stack[t] = <<>> /\ kept[t] = 0
      /\ \A f \in Files : users[f] = 0 /\ refused[f] = 0
      /\ ~ made /\ ~ ready /\ owner = NoTask /\ nest = 0 /\ libio = NoTask /\ stuck = NoTask
      /\ apps = <<>>
  BY DEF Init
<1>2. \A t \in Tasks : Inside(t) = {} /\ \A pc : ~ IsAt(t, pc)
  BY <1>1 DEF Inside, IsAt
<1>3. TypeInv
  <2>. HIDE DEF Frames, Apps
  <2>1. <<>> \in Seq(Frames) /\ <<>> \in Seq(Apps)
    OBVIOUS
  <2>2. stack \in [Tasks -> Seq(Frames)] /\ apps \in Seq(Apps)
    BY <2>1 DEF Init
  <2>3. /\ users \in [Files -> Int] /\ refused \in [Files -> Int]
        /\ kept \in [Tasks -> Int] /\ nest \in Int
    BY DEF Init
  <2>4. made \in BOOLEAN /\ ready \in BOOLEAN /\ lost \in BOOLEAN
    BY Zenon DEF Init
  <2>. QED
    BY <1>1, <2>2, <2>3, <2>4 DEF TypeInv
<1>4. StackInv /\ FrameInv
  <2>1. \A t \in Tasks : DOMAIN stack[t] = {}
    BY <1>1
  <2>2. StackInv
    BY <2>1 DEF StackInv
  <2>3. \A t \in Tasks : Settled(stack[t])
    BY <2>1 DEF Settled, Apart, Spared
  <2>. QED
    BY <2>2, <2>3 DEF FrameInv
<1>5. LibioInv /\ ReadyInv
  BY <1>1, <1>2 DEF LibioInv, ReadyInv
<1>6. HoldInv
  <2>1. \A t \in Tasks : Holds(t) = 0
    <3>1. ASSUME NEW t \in Tasks
          PROVE  Inside(t) = {} /\ ~ IsAt(t, "chain") /\ kept[t] = 0
      BY <1>1, <1>2
    <3>2. Cardinality({}) = 0
      BY FS_EmptySet
    <3>3. ASSUME NEW t \in Tasks PROVE Holds(t) = Cardinality({}) + 0 + 0
      BY <3>1 DEF Holds
    <3>. QED
      BY <3>2, <3>3
  <2>. QED
    <3>1. \A t \in Tasks : t # NoTask
      BY RapAssumption
    <3>. QED
      BY <1>1, <2>1, <3>1 DEF HoldInv
<1>7. CountInv
  <2>1. DOMAIN apps = {}
    BY <1>1
  <2>2. \A f \in Files : Handles(f) = {}
    BY <2>1 DEF Handles
  <2>3. Cardinality({}) = 0
    BY FS_EmptySet
  <2>4. \A f \in Files : users[f] = 0 /\ refused[f] = 0 /\ 0 = 0 + 0
    BY <1>1
  <2>. QED
    BY <2>1, <2>2, <2>3, <2>4 DEF CountInv
<1>. QED
  BY <1>3, <1>4, <1>5, <1>6, <1>7 DEF Inv

LEMMA InvStep == Inv /\ [Next]_vars => Inv'
<1>. SUFFICES ASSUME Inv, [Next]_vars PROVE Inv'
  OBVIOUS
<1>1. ASSUME NEW t \in Tasks, Step(t) PROVE Inv'
  BY <1>1, LibioLockStep, InitDoneStep, InitMakeStep, InitFailsStep, InitChainStep,
     ObtainStep, LoadFoundStep, LocateStep, DlOpenStep, DlSymStep, EntryReturnsStep,
     UnloadFindStep, FiniReturnsStep, FindStep, WalkStep, CallbackReturnsStep DEF Step
<1>2. ASSUME NEW t \in Tasks, Call(t, "iterate", NoFile, FALSE) PROVE Inv'
  BY <1>2, CallStep
<1>3. ASSUME NEW t \in Tasks, NEW op \in {"load", "unload", "find"}, NEW r \in Requests,
             Call(t, op, r[1], r[2])
      PROVE  Inv'
  <2>1. r[1] \in Files /\ r[2] \in BOOLEAN
    BY RapAssumption
  <2>. QED
    BY <1>3, <2>1, CallStep
<1>4. CASE UNCHANGED vars
  <2>1. \A t \in Tasks : Inside(t)' = Inside(t) /\ \A pc : (IsAt(t, pc))' <=> IsAt(t, pc)
    BY <1>4, OthersInside DEF vars
  <2>2. \A t \in Tasks : Holds(t)' = Holds(t)
    BY <1>4, <2>1 DEF Holds, vars
  <2>3. TypeInv' /\ StackInv'
    BY <1>4 DEF Inv, TypeInv, StackInv, vars
  <2>4. LibioInv'
    BY <1>4, <2>1 DEF Inv, LibioInv, vars
  <2>5. ReadyInv'
    BY <1>4, <2>1 DEF Inv, ReadyInv, vars
  <2>6. HoldInv'
    BY <1>4, <2>2 DEF Inv, HoldInv, vars
  <2>7. CountInv'
    BY <1>4, CountStays DEF Inv, vars
  <2>8. FrameInv'
    <3>1. UNCHANGED apps /\ UNCHANGED stack
      BY <1>4 DEF vars
    <3>2. \A id, H : Listed(id, H)' = Listed(id, H)
      BY <3>1 DEF Listed
    <3>3. \A f, a : FindIndex(f, a)' = FindIndex(f, a)
      BY <3>1 DEF FindIndex, Matches, SelectInSeq
    <3>4. ASSUME NEW t \in Tasks PROVE Settled(stack[t])'
      <4>1. Settled(stack[t])
        BY DEF Inv, FrameInv
      <4>2. (\A i \in DOMAIN stack[t] : Placed(stack[t][i]))'
        BY <3>1, <3>2, <4>1 DEF Settled, Placed
      <4>3. Apart(stack[t])'
        BY <3>1, <4>1 DEF Settled, Apart
      <4>4. Spared(stack[t])'
        BY <3>1, <3>3, <4>1 DEF Settled, Spared
      <4>. QED
        BY <4>2, <4>3, <4>4 DEF Settled
    <3>. QED
      BY <3>4 DEF FrameInv
  <2>. QED
    BY <2>3, <2>4, <2>5, <2>6, <2>7, <2>8 DEF Inv
<1>. QED
  BY <1>1, <1>2, <1>3, <1>4 DEF Next

\* RapInvariance: the invariant holds whatever tasks call, however calls are
\* nested in entry points and callbacks.
THEOREM RapInvariance == Spec => []Inv
<1>. QED
  BY InvInit, InvStep, PTL DEF Spec

\* HoldsAreCallsAlways: at every moment a task holds the mutex once for each of
\* its calls that is inside and each load that returned true, and nobody else
\* holds it (rtems_rap_lock, rtems_rap_unlock on every exit).
THEOREM HoldsAreCallsAlways == Spec => []HoldsAreCalls
<1>1. Inv => HoldsAreCalls
  BY DEF Inv, HoldInv, HoldsAreCalls, Holds
<1>. QED
  BY <1>1, RapInvariance, PTL

\* RefsMatchAlways: each application on the list keeps its object open once, as each
\* dlclose that was refused does, and the code that runs in an entry point is that of
\* an application on the list.
THEOREM RefsMatchAlways == Spec => []RefsMatch
<1>1. ASSUME Inv PROVE RefsMatch
  <2>1. \A f \in Files : users[f] = Cardinality({i \in DOMAIN apps : apps[i].handle = f}) + refused[f]
    BY <1>1 DEF Inv, CountInv, Handles
  <2>2. \A t \in Tasks : \A i \in DOMAIN stack[t] : Placed(stack[t][i])
    BY <1>1 DEF Inv, FrameInv, Settled
  <2>. QED
    BY <2>1, <2>2 DEF RefsMatch, Placed, Listed
<1>. QED
  BY <1>1, RapInvariance, PTL

\* ListIsReadyAlways: nobody looks at the list before it is initialised, and it
\* is initialised once (rtems_rap_data_init).
THEOREM ListIsReadyAlways == Spec => []ListIsReady
<1>1. Inv => ListIsReady
  BY DEF Inv, ReadyInv, ListIsReady
<1>. QED
  BY <1>1, RapInvariance, PTL
=============================================================================
