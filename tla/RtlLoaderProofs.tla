--------------------------- MODULE RtlLoaderProofs ---------------------------
(***************************************************************************)
(* Proofs about the linker for every set of tasks, names and descriptors.  *)
(* Of RtlLoader: what holds whatever the clients do, and then, for clients *)
(* that serialise the calls for one module, that memory is safe, that      *)
(* handles are usable and that the linker implements ModuleRegistry.  Of   *)
(* RtlInit, which comes before: nobody gets into a linker that is half     *)
(* made, and an initialisation that fails closes what it had opened.       *)
(***************************************************************************)
EXTENDS RtlLoader, RtlInit, FiniteSetTheorems, TLAPS

-----------------------------------------------------------------------------
(* The inductive invariant, conjunct by conjunct. *)

\* The mutex: nest counts, and only its owner is in a critical section.  (An
\* owner outside of one is a task whose dlinfo(NULL) kept the mutex.)
LockInv ==
  /\ nest = 0 <=> owner = NoProc
  /\ \A p \in Procs : pc[p] \in Critical => owner = p

\* Where a task has an object in hand it is a listed one; while constructors
\* run the task holds the reference that keeps it listed.
Opening == {"open_load", "open_use"}
Constructing == {"ctors", "open_relock", "open_clear"}
Destructing == {"dtors", "close_relock", "close_unload"}
Finishing == {"open_done", "close_done"}

CurInv ==
  \A p \in Procs :
    /\ pc[p] \in Opening => cur[p] \in chain /\ ref[p] = NoDesc
    /\ pc[p] \in {"open_lock", "open_find"} => ref[p] = NoDesc
    /\ pc[p] \in Constructing => cur[p] = ref[p] /\ ref[p] # NoDesc
    /\ pc[p] \in Destructing => cur[p] \in Descs /\ (p \notin stale => cur[p] \in chain)
    /\ p \in stale => pc[p] \in Destructing
    /\ pc[p] \notin Opening \union Constructing \union Destructing \union Finishing
         => cur[p] = NoDesc
    /\ pc[p] = "open_load" => users[cur[p]] = 0

\* NoOrphan with the linker locked: an object without users is being loaded,
\* about to get its first user, or waiting for its destructors.
Attended ==
  \A d \in chain \ {Base} :
    \/ users[d] > 0
    \/ RunningDtors(d) # {}
    \/ \E p \in Procs : pc[p] \in Opening /\ cur[p] = d

Named == \A d \in chain : oname[d] \in AllNames

Inv ==
  /\ TypeOK /\ LockInv /\ CurInv
  /\ HeldIsListed /\ RefCount /\ SymsListed /\ Attended

-----------------------------------------------------------------------------
(* What the user count says about the holders of an object. *)

LEMMA HoldersFinite == \A d : IsFiniteSet(Holders(d))
BY ConstantsAssumption, FS_Subset DEF ConstantsAssumption, Holders

LEMMA CountFacts ==
  ASSUME TypeOK, HeldIsListed, RefCount, NEW p \in Procs, ref[p] # NoDesc
  PROVE  /\ ref[p] \in chain
         /\ users[ref[p]] \in Nat \ {0}
         /\ users[ref[p]] = 1 => Holders(ref[p]) = {p}
<1>1. ref[p] \in chain
  BY DEF HeldIsListed
<1>2. p \in Holders(ref[p]) /\ IsFiniteSet(Holders(ref[p]))
  BY HoldersFinite DEF Holders
<1>3. users[ref[p]] = Cardinality(Holders(ref[p]))
  BY <1>1 DEF RefCount
<1>4. users[ref[p]] \in Nat
  BY <1>2, <1>3, FS_CardinalityType
<1>5. users[ref[p]] # 0
  BY <1>2, <1>3, FS_EmptySet
<1>6. ASSUME users[ref[p]] = 1 PROVE Holders(ref[p]) = {p}
  <2>1. PICK x : Holders(ref[p]) = {x}
    BY <1>2, <1>3, <1>6, FS_Singleton
  <2>. QED
    BY <1>2, <2>1
<1>. QED
  BY <1>1, <1>4, <1>5, <1>6

\* An object without users has no holders.
LEMMA UnusedHasNoHolder ==
  ASSUME TypeOK, HeldIsListed, RefCount, NEW d \in Descs, users[d] = 0
  PROVE  \A q \in Procs : ref[q] # d
<1>1. ASSUME NEW q \in Procs, ref[q] = d PROVE FALSE
  <2>1. ref[q] # NoDesc
    BY <1>1, ConstantsAssumption DEF ConstantsAssumption
  <2>. QED
    BY <1>1, <2>1, CountFacts
<1>. QED
  BY <1>1

\* Nobody but tasks that run its destructors has an object without users in
\* hand while p is in a critical section.
LEMMA OnlyDestructorsLeft ==
  ASSUME Inv, NEW p \in Procs, pc[p] \in Critical,
         NEW d \in Descs, users[d] = 0,
         NEW q \in Procs \ {p}, cur[q] = d
  PROVE  pc[q] \in Destructing
<1>1. pc[q] \notin Critical
  BY ConstantsAssumption DEF ConstantsAssumption, Inv, LockInv
<1>2. ref[q] # d
  BY UnusedHasNoHolder DEF Inv
<1>3. d # NoDesc
  BY ConstantsAssumption DEF ConstantsAssumption
<1>. QED
  BY <1>1, <1>2, <1>3
     DEF Inv, CurInv, Opening, Constructing, Destructing, Finishing,
         Critical

\* Taking a reference adds one holder, and changes no other object's.
LEMMA HoldersGain ==
  ASSUME TypeOK, NEW p \in Procs, NEW d \in Descs,
         ref[p] = NoDesc, ref' = [ref EXCEPT ![p] = d]
  PROVE  /\ Cardinality(Holders(d)') = Cardinality(Holders(d)) + 1
         /\ \A e \in Descs \ {d} : Holders(e)' = Holders(e)
<1>1. Holders(d)' = Holders(d) \union {p} /\ p \notin Holders(d)
  BY ConstantsAssumption DEF ConstantsAssumption, TypeOK, Holders
<1>2. \A e \in Descs \ {d} : Holders(e)' = Holders(e)
  BY ConstantsAssumption DEF ConstantsAssumption, TypeOK, Holders
<1>. QED
  BY <1>1, <1>2, HoldersFinite, FS_AddElement

\* Giving it up removes one.
LEMMA HoldersLose ==
  ASSUME TypeOK, NEW p \in Procs, NEW d \in Descs,
         ref[p] = d, ref' = [ref EXCEPT ![p] = NoDesc]
  PROVE  /\ Cardinality(Holders(d)') = Cardinality(Holders(d)) - 1
         /\ \A e \in Descs \ {d} : Holders(e)' = Holders(e)
<1>1. Holders(d)' = Holders(d) \ {p} /\ p \in Holders(d)
  BY ConstantsAssumption DEF ConstantsAssumption, TypeOK, Holders
<1>2. \A e \in Descs \ {d} : Holders(e)' = Holders(e)
  BY ConstantsAssumption DEF ConstantsAssumption, TypeOK, Holders
<1>. QED
  BY <1>1, <1>2, HoldersFinite, FS_RemoveElement

-----------------------------------------------------------------------------
(* The steps that touch no object, no reference and no dangling pointer.   *)

Quiet(p) ==
  \/ \E n \in Names \union {NoName} : OpenCall(p, n)
  \/ CloseCall(p) \/ SymCall(p) \/ \E a \in InfoArgs : InfoCall(p, a)
  \/ Lock(p) \/ OpenNull(p) \/ OpenNoFile(p)
  \/ \E d \in Descs : OpenFound(p, d)
  \/ CtorsReturn(p) \/ CallDone(p) \/ CloseInvalid(p) \/ CloseLocked(p)
  \/ DtorsReturn(p) \/ CloseDangling(p) \/ Query(p) \/ InfoNull(p)

LEMMA QuietLeaves ==
  ASSUME NEW p \in Procs, Quiet(p)
  PROVE  UNCHANGED <<ref, chain, oname, users, locked, syms, stale>>
BY DEF Quiet, OpenCall, CloseCall, SymCall, InfoCall, Lock, OpenNull, OpenNoFile,
       OpenFound, CtorsReturn, CallDone, CloseInvalid, CloseLocked, DtorsReturn,
       CloseDangling, Query, InfoNull, objVars

-----------------------------------------------------------------------------
LEMMA InvInit == Init => Inv
<1>. SUFFICES ASSUME Init PROVE Inv
  OBVIOUS
<1>1. TypeOK
  BY ConstantsAssumption DEF ConstantsAssumption, Init, TypeOK, AllNames, Unlocked
<1>2. LockInv
  BY DEF Init, LockInv, Critical
<1>3. CurInv
  BY DEF Init, CurInv, Opening, Constructing, Destructing, Finishing
<1>4. HeldIsListed /\ SymsListed /\ Attended
  BY DEF Init, HeldIsListed, SymsListed, Attended
<1>5. RefCount
  <2>1. \A d \in chain : Holders(d) = {} /\ users[d] = 0
    BY ConstantsAssumption DEF ConstantsAssumption, Init, Holders
  <2>. QED
    BY <2>1, FS_EmptySet DEF RefCount
<1>. QED
  BY <1>1, <1>2, <1>3, <1>4, <1>5 DEF Inv

\* Types, with the mutex never released by a task that does not hold it.
LEMMA TypeStep == ASSUME Inv, [Next]_vars PROVE TypeOK'
<1>1. ASSUME NEW p \in Procs, NEW n \in Names \union {NoName}, OpenCall(p, n) PROVE TypeOK'
  BY <1>1, ConstantsAssumption
     DEF ConstantsAssumption, Inv, TypeOK, LockInv, CurInv, Opening,
         Constructing, Destructing, AllNames, Waiting, Critical,
         Unlocked, lockVars, objVars, Goto, OpenCall
<1>2. ASSUME NEW p \in Procs, CloseCall(p) PROVE TypeOK'
  BY <1>2, ConstantsAssumption
     DEF ConstantsAssumption, Inv, TypeOK, LockInv, CurInv, Opening,
         Constructing, Destructing, AllNames, Waiting, Critical,
         Unlocked, lockVars, objVars, Goto, CloseCall
<1>3. ASSUME NEW p \in Procs, SymCall(p) PROVE TypeOK'
  BY <1>3, ConstantsAssumption
     DEF ConstantsAssumption, Inv, TypeOK, LockInv, CurInv, Opening,
         Constructing, Destructing, AllNames, Waiting, Critical,
         Unlocked, lockVars, objVars, Goto, SymCall
<1>4. ASSUME NEW p \in Procs, NEW a \in InfoArgs, InfoCall(p, a) PROVE TypeOK'
  BY <1>4, ConstantsAssumption
     DEF ConstantsAssumption, Inv, TypeOK, LockInv, CurInv, Opening,
         Constructing, Destructing, AllNames, Waiting, Critical,
         Unlocked, lockVars, objVars, Goto, InfoCall
<1>5. ASSUME NEW p \in Procs, Lock(p) PROVE TypeOK'
  BY <1>5, ConstantsAssumption
     DEF ConstantsAssumption, Inv, TypeOK, LockInv, CurInv, Opening,
         Constructing, Destructing, AllNames, Waiting, Critical,
         Unlocked, AfterLock, objVars, Goto, Lock
<1>6. ASSUME NEW p \in Procs, OpenNull(p) PROVE TypeOK'
  BY <1>6, ConstantsAssumption
     DEF ConstantsAssumption, Inv, TypeOK, LockInv, CurInv, Opening,
         Constructing, Destructing, AllNames, Waiting, Critical,
         Unlocked, lockVars, objVars, Goto, KeepLock, OpenNull
<1>7. ASSUME NEW p \in Procs, OpenNoFile(p) PROVE TypeOK'
  BY <1>7, ConstantsAssumption
     DEF ConstantsAssumption, Inv, TypeOK, LockInv, CurInv, Opening,
         Constructing, Destructing, AllNames, Waiting, Critical,
         Unlocked, Matches, lockVars, objVars, Goto, KeepLock,
         OpenNoFile
<1>8. ASSUME NEW p \in Procs, NEW d \in Descs, OpenFound(p, d) PROVE TypeOK'
  BY <1>8, ConstantsAssumption
     DEF ConstantsAssumption, Inv, TypeOK, LockInv, CurInv, Opening,
         Constructing, Destructing, AllNames, Waiting, Critical,
         Unlocked, Matches, lockVars, objVars, Goto, KeepLock, OpenFound
<1>9. ASSUME NEW p \in Procs, NEW d \in Descs, OpenCreate(p, d) PROVE TypeOK'
  BY <1>9, ConstantsAssumption
     DEF ConstantsAssumption, Inv, TypeOK, LockInv, CurInv, Opening,
         Constructing, Destructing, AllNames, Waiting, Critical,
         Unlocked, Matches, lockVars, Goto, KeepLock, OpenCreate
<1>10. ASSUME NEW p \in Procs, OpenLoaded(p) PROVE TypeOK'
  BY <1>10, ConstantsAssumption
     DEF ConstantsAssumption, Inv, TypeOK, LockInv, CurInv, Opening,
         Constructing, Destructing, AllNames, Waiting, Critical,
         Unlocked, lockVars, Goto, KeepLock, OpenLoaded
<1>11. ASSUME NEW p \in Procs, OpenLoadFails(p) PROVE TypeOK'
  BY <1>11, ConstantsAssumption
     DEF ConstantsAssumption, Inv, TypeOK, LockInv, CurInv, Opening,
         Constructing, Destructing, AllNames, Waiting, Critical,
         Unlocked, lockVars, Goto, KeepLock, Free, OpenLoadFails
<1>12. ASSUME NEW p \in Procs, OpenShare(p) PROVE TypeOK'
  BY <1>12, ConstantsAssumption
     DEF ConstantsAssumption, Inv, TypeOK, LockInv, CurInv, Opening,
         Constructing, Destructing, AllNames, Waiting, Critical,
         Unlocked, lockVars, Goto, KeepLock, OpenShare
<1>13. ASSUME NEW p \in Procs, OpenFirst(p) PROVE TypeOK'
  BY <1>13, ConstantsAssumption
     DEF ConstantsAssumption, Inv, TypeOK, LockInv, CurInv, Opening,
         Constructing, Destructing, AllNames, Waiting, Critical,
         Unlocked, Goto, Unlock, OpenFirst
<1>14. ASSUME NEW p \in Procs, CtorsReturn(p) PROVE TypeOK'
  BY <1>14, ConstantsAssumption
     DEF ConstantsAssumption, Inv, TypeOK, LockInv, CurInv, Opening,
         Constructing, Destructing, AllNames, Waiting, Critical,
         Unlocked, lockVars, objVars, Goto, KeepLock, CtorsReturn
<1>15. ASSUME NEW p \in Procs, OpenClear(p) PROVE TypeOK'
  BY <1>15, ConstantsAssumption
     DEF ConstantsAssumption, Inv, TypeOK, LockInv, CurInv, Opening,
         Constructing, Destructing, AllNames, Waiting, Critical,
         Unlocked, lockVars, Goto, KeepLock, OpenClear
<1>16. ASSUME NEW p \in Procs, CallDone(p) PROVE TypeOK'
  BY <1>16, ConstantsAssumption
     DEF ConstantsAssumption, Inv, TypeOK, LockInv, CurInv, Opening,
         Constructing, Destructing, AllNames, Waiting, Critical,
         Unlocked, objVars, Goto, Unlock, CallDone
<1>17. ASSUME NEW p \in Procs, CloseInvalid(p) PROVE TypeOK'
  BY <1>17, ConstantsAssumption
     DEF ConstantsAssumption, Inv, TypeOK, LockInv, CurInv, Opening,
         Constructing, Destructing, AllNames, Waiting, Critical,
         Unlocked, objVars, Goto, Unlock, CloseInvalid
<1>18. ASSUME NEW p \in Procs, CloseLocked(p) PROVE TypeOK'
  BY <1>18, ConstantsAssumption
     DEF ConstantsAssumption, Inv, TypeOK, LockInv, CurInv, Opening,
         Constructing, Destructing, AllNames, Waiting, Critical,
         Unlocked, lockVars, objVars, Goto, KeepLock, CloseLocked
<1>19. ASSUME NEW p \in Procs, CloseShared(p) PROVE TypeOK'
  BY <1>19, ConstantsAssumption
     DEF ConstantsAssumption, Inv, TypeOK, LockInv, CurInv, Opening,
         Constructing, Destructing, AllNames, Waiting, Critical,
         Unlocked, lockVars, Goto, KeepLock, CloseShared
<1>20. ASSUME NEW p \in Procs, CloseLast(p) PROVE TypeOK'
  BY <1>20, ConstantsAssumption
     DEF ConstantsAssumption, Inv, TypeOK, LockInv, CurInv, Opening,
         Constructing, Destructing, AllNames, Waiting, Critical,
         Unlocked, Goto, Unlock, CloseLast
<1>21. ASSUME NEW p \in Procs, DtorsReturn(p) PROVE TypeOK'
  BY <1>21, ConstantsAssumption
     DEF ConstantsAssumption, Inv, TypeOK, LockInv, CurInv, Opening,
         Constructing, Destructing, AllNames, Waiting, Critical,
         Unlocked, lockVars, objVars, Goto, KeepLock, DtorsReturn
<1>22. ASSUME NEW p \in Procs, CloseUnload(p) PROVE TypeOK'
  BY <1>22, ConstantsAssumption
     DEF ConstantsAssumption, Inv, TypeOK, LockInv, CurInv, Opening,
         Constructing, Destructing, AllNames, Waiting, Critical,
         Unlocked, lockVars, Goto, KeepLock, Free, CloseUnload
<1>23. ASSUME NEW p \in Procs, CloseReopened(p) PROVE TypeOK'
  BY <1>23, ConstantsAssumption
     DEF ConstantsAssumption, Inv, TypeOK, LockInv, CurInv, Opening,
         Constructing, Destructing, AllNames, Waiting, Critical,
         Unlocked, lockVars, Goto, KeepLock, CloseReopened
<1>24. ASSUME NEW p \in Procs, CloseDangling(p) PROVE TypeOK'
  BY <1>24, ConstantsAssumption
     DEF ConstantsAssumption, Inv, TypeOK, LockInv, CurInv, Opening,
         Constructing, Destructing, AllNames, Waiting, Critical,
         Unlocked, lockVars, objVars, CloseDangling
<1>25. ASSUME NEW p \in Procs, Query(p) PROVE TypeOK'
  BY <1>25, ConstantsAssumption
     DEF ConstantsAssumption, Inv, TypeOK, LockInv, CurInv, Opening,
         Constructing, Destructing, AllNames, Waiting, Critical,
         Unlocked, objVars, Goto, Unlock, Query
<1>26. ASSUME NEW p \in Procs, InfoNull(p) PROVE TypeOK'
  BY <1>26, ConstantsAssumption
     DEF ConstantsAssumption, Inv, TypeOK, LockInv, CurInv, Opening,
         Constructing, Destructing, AllNames, Waiting, Critical,
         Unlocked, lockVars, objVars, Goto, KeepLock, InfoNull
<1>27. CASE UNCHANGED vars
  BY <1>27, ConstantsAssumption
     DEF ConstantsAssumption, Inv, TypeOK, LockInv, CurInv, Opening,
         Constructing, Destructing, AllNames, Waiting, Critical,
         Unlocked, Matches, lockVars, objVars, Goto, KeepLock, Unlock,
         Free, vars, objVars, lockVars
<1>. QED
  BY <1>1, <1>2, <1>3, <1>4, <1>5, <1>6, <1>7, <1>8, <1>9, <1>10, <1>11,
      <1>12, <1>13, <1>14, <1>15, <1>16, <1>17, <1>18, <1>19, <1>20, <1>21,
      <1>22, <1>23, <1>24, <1>25, <1>26, <1>27
     DEF Next, Call, Step, Undefined

\* Mutual exclusion of the critical sections.
LEMMA LockStep == ASSUME Inv, [Next]_vars PROVE LockInv'
<1>1. ASSUME NEW p \in Procs, NEW n \in Names \union {NoName}, OpenCall(p, n) PROVE LockInv'
  BY <1>1, ConstantsAssumption
     DEF ConstantsAssumption, Inv, TypeOK, LockInv, Waiting, Critical,
         Unlocked, lockVars, objVars, Goto, OpenCall
<1>2. ASSUME NEW p \in Procs, CloseCall(p) PROVE LockInv'
  BY <1>2, ConstantsAssumption
     DEF ConstantsAssumption, Inv, TypeOK, LockInv, Waiting, Critical,
         Unlocked, lockVars, objVars, Goto, CloseCall
<1>3. ASSUME NEW p \in Procs, SymCall(p) PROVE LockInv'
  BY <1>3, ConstantsAssumption
     DEF ConstantsAssumption, Inv, TypeOK, LockInv, Waiting, Critical,
         Unlocked, lockVars, objVars, Goto, SymCall
<1>4. ASSUME NEW p \in Procs, NEW a \in InfoArgs, InfoCall(p, a) PROVE LockInv'
  BY <1>4, ConstantsAssumption
     DEF ConstantsAssumption, Inv, TypeOK, LockInv, Waiting, Critical,
         Unlocked, lockVars, objVars, Goto, InfoCall
<1>5. ASSUME NEW p \in Procs, Lock(p) PROVE LockInv'
  BY <1>5, ConstantsAssumption
     DEF ConstantsAssumption, Inv, TypeOK, LockInv, Waiting, Critical,
         Unlocked, AfterLock, objVars, Goto, Lock
<1>6. ASSUME NEW p \in Procs, OpenNull(p) PROVE LockInv'
  BY <1>6, ConstantsAssumption
     DEF ConstantsAssumption, Inv, TypeOK, LockInv, Waiting, Critical,
         Unlocked, lockVars, objVars, Goto, KeepLock, OpenNull
<1>7. ASSUME NEW p \in Procs, OpenNoFile(p) PROVE LockInv'
  BY <1>7, ConstantsAssumption
     DEF ConstantsAssumption, Inv, TypeOK, LockInv, Waiting, Critical,
         Unlocked, lockVars, objVars, Goto, KeepLock, OpenNoFile
<1>8. ASSUME NEW p \in Procs, NEW d \in Descs, OpenFound(p, d) PROVE LockInv'
  BY <1>8, ConstantsAssumption
     DEF ConstantsAssumption, Inv, TypeOK, LockInv, Waiting, Critical,
         Unlocked, lockVars, objVars, Goto, KeepLock, OpenFound
<1>9. ASSUME NEW p \in Procs, NEW d \in Descs, OpenCreate(p, d) PROVE LockInv'
  BY <1>9, ConstantsAssumption
     DEF ConstantsAssumption, Inv, TypeOK, LockInv, Waiting, Critical,
         Unlocked, lockVars, Goto, KeepLock, OpenCreate
<1>10. ASSUME NEW p \in Procs, OpenLoaded(p) PROVE LockInv'
  BY <1>10, ConstantsAssumption
     DEF ConstantsAssumption, Inv, TypeOK, LockInv, Waiting, Critical,
         Unlocked, lockVars, Goto, KeepLock, OpenLoaded
<1>11. ASSUME NEW p \in Procs, OpenLoadFails(p) PROVE LockInv'
  BY <1>11, ConstantsAssumption
     DEF ConstantsAssumption, Inv, TypeOK, LockInv, Waiting, Critical,
         Unlocked, lockVars, Goto, KeepLock, Free, OpenLoadFails
<1>12. ASSUME NEW p \in Procs, OpenShare(p) PROVE LockInv'
  BY <1>12, ConstantsAssumption
     DEF ConstantsAssumption, Inv, TypeOK, LockInv, Waiting, Critical,
         Unlocked, lockVars, Goto, KeepLock, OpenShare
<1>13. ASSUME NEW p \in Procs, OpenFirst(p) PROVE LockInv'
  BY <1>13, ConstantsAssumption
     DEF ConstantsAssumption, Inv, TypeOK, LockInv, Waiting, Critical,
         Unlocked, Goto, Unlock, OpenFirst
<1>14. ASSUME NEW p \in Procs, CtorsReturn(p) PROVE LockInv'
  BY <1>14, ConstantsAssumption
     DEF ConstantsAssumption, Inv, TypeOK, LockInv, Waiting, Critical,
         Unlocked, lockVars, objVars, Goto, KeepLock, CtorsReturn
<1>15. ASSUME NEW p \in Procs, OpenClear(p) PROVE LockInv'
  BY <1>15, ConstantsAssumption
     DEF ConstantsAssumption, Inv, TypeOK, LockInv, Waiting, Critical,
         Unlocked, lockVars, Goto, KeepLock, OpenClear
<1>16. ASSUME NEW p \in Procs, CallDone(p) PROVE LockInv'
  BY <1>16, ConstantsAssumption
     DEF ConstantsAssumption, Inv, TypeOK, LockInv, Waiting, Critical,
         Unlocked, objVars, Goto, Unlock, CallDone
<1>17. ASSUME NEW p \in Procs, CloseInvalid(p) PROVE LockInv'
  BY <1>17, ConstantsAssumption
     DEF ConstantsAssumption, Inv, TypeOK, LockInv, Waiting, Critical,
         Unlocked, objVars, Goto, Unlock, CloseInvalid
<1>18. ASSUME NEW p \in Procs, CloseLocked(p) PROVE LockInv'
  BY <1>18, ConstantsAssumption
     DEF ConstantsAssumption, Inv, TypeOK, LockInv, Waiting, Critical,
         Unlocked, lockVars, objVars, Goto, KeepLock, CloseLocked
<1>19. ASSUME NEW p \in Procs, CloseShared(p) PROVE LockInv'
  BY <1>19, ConstantsAssumption
     DEF ConstantsAssumption, Inv, TypeOK, LockInv, Waiting, Critical,
         Unlocked, lockVars, Goto, KeepLock, CloseShared
<1>20. ASSUME NEW p \in Procs, CloseLast(p) PROVE LockInv'
  BY <1>20, ConstantsAssumption
     DEF ConstantsAssumption, Inv, TypeOK, LockInv, Waiting, Critical,
         Unlocked, Goto, Unlock, CloseLast
<1>21. ASSUME NEW p \in Procs, DtorsReturn(p) PROVE LockInv'
  BY <1>21, ConstantsAssumption
     DEF ConstantsAssumption, Inv, TypeOK, LockInv, Waiting, Critical,
         Unlocked, lockVars, objVars, Goto, KeepLock, DtorsReturn
<1>22. ASSUME NEW p \in Procs, CloseUnload(p) PROVE LockInv'
  BY <1>22, ConstantsAssumption
     DEF ConstantsAssumption, Inv, TypeOK, LockInv, Waiting, Critical,
         Unlocked, lockVars, Goto, KeepLock, Free, CloseUnload
<1>23. ASSUME NEW p \in Procs, CloseReopened(p) PROVE LockInv'
  BY <1>23, ConstantsAssumption
     DEF ConstantsAssumption, Inv, TypeOK, LockInv, Waiting, Critical,
         Unlocked, lockVars, Goto, KeepLock, CloseReopened
<1>24. ASSUME NEW p \in Procs, CloseDangling(p) PROVE LockInv'
  BY <1>24, ConstantsAssumption
     DEF ConstantsAssumption, Inv, TypeOK, LockInv, Waiting, Critical,
         Unlocked, lockVars, objVars, CloseDangling
<1>25. ASSUME NEW p \in Procs, Query(p) PROVE LockInv'
  BY <1>25, ConstantsAssumption
     DEF ConstantsAssumption, Inv, TypeOK, LockInv, Waiting, Critical,
         Unlocked, objVars, Goto, Unlock, Query
<1>26. ASSUME NEW p \in Procs, InfoNull(p) PROVE LockInv'
  BY <1>26, ConstantsAssumption
     DEF ConstantsAssumption, Inv, TypeOK, LockInv, Waiting, Critical,
         Unlocked, lockVars, objVars, Goto, KeepLock, InfoNull
<1>27. CASE UNCHANGED vars
  BY <1>27, ConstantsAssumption
     DEF ConstantsAssumption, Inv, TypeOK, LockInv, Waiting, Critical,
         Unlocked, lockVars, objVars, Goto, KeepLock, Unlock, Free,
         vars, objVars, lockVars
<1>. QED
  BY <1>1, <1>2, <1>3, <1>4, <1>5, <1>6, <1>7, <1>8, <1>9, <1>10, <1>11,
      <1>12, <1>13, <1>14, <1>15, <1>16, <1>17, <1>18, <1>19, <1>20, <1>21,
      <1>22, <1>23, <1>24, <1>25, <1>26, <1>27
     DEF Next, Call, Step, Undefined

\* The object in hand stays listed: only an object without users is freed,
\* and then the only tasks left with it are the ones in its destructors.
LEMMA CurStep == ASSUME Inv, [Next]_vars PROVE CurInv'
<1>1. ASSUME NEW p \in Procs, NEW n \in Names \union {NoName}, OpenCall(p, n) PROVE CurInv'
  BY <1>1, ConstantsAssumption
     DEF ConstantsAssumption, Inv, TypeOK, CurInv, Opening,
         Constructing, Destructing, Finishing, Waiting, Critical,
         Unlocked, lockVars, objVars, Goto, OpenCall
<1>2. ASSUME NEW p \in Procs, CloseCall(p) PROVE CurInv'
  BY <1>2, ConstantsAssumption
     DEF ConstantsAssumption, Inv, TypeOK, CurInv, Opening,
         Constructing, Destructing, Finishing, Waiting, Critical,
         Unlocked, lockVars, objVars, Goto, CloseCall
<1>3. ASSUME NEW p \in Procs, SymCall(p) PROVE CurInv'
  BY <1>3, ConstantsAssumption
     DEF ConstantsAssumption, Inv, TypeOK, CurInv, Opening,
         Constructing, Destructing, Finishing, Waiting, Critical,
         Unlocked, lockVars, objVars, Goto, SymCall
<1>4. ASSUME NEW p \in Procs, NEW a \in InfoArgs, InfoCall(p, a) PROVE CurInv'
  BY <1>4, ConstantsAssumption
     DEF ConstantsAssumption, Inv, TypeOK, CurInv, Opening,
         Constructing, Destructing, Finishing, Waiting, Critical,
         Unlocked, lockVars, objVars, Goto, InfoCall
<1>5. ASSUME NEW p \in Procs, Lock(p) PROVE CurInv'
  BY <1>5, ConstantsAssumption
     DEF ConstantsAssumption, Inv, TypeOK, CurInv, Opening,
         Constructing, Destructing, Finishing, Waiting, Critical,
         Unlocked, AfterLock, objVars, Goto, Lock
<1>6. ASSUME NEW p \in Procs, OpenNull(p) PROVE CurInv'
  BY <1>6, ConstantsAssumption
     DEF ConstantsAssumption, Inv, TypeOK, CurInv, Opening,
         Constructing, Destructing, Finishing, Waiting, Critical,
         Unlocked, lockVars, objVars, Goto, KeepLock, OpenNull
<1>7. ASSUME NEW p \in Procs, OpenNoFile(p) PROVE CurInv'
  BY <1>7, ConstantsAssumption
     DEF ConstantsAssumption, Inv, TypeOK, CurInv, Opening,
         Constructing, Destructing, Finishing, Waiting, Critical,
         Unlocked, lockVars, objVars, Goto, KeepLock, OpenNoFile
<1>8. ASSUME NEW p \in Procs, NEW d \in Descs, OpenFound(p, d) PROVE CurInv'
  BY <1>8, ConstantsAssumption
     DEF ConstantsAssumption, Inv, TypeOK, CurInv, Opening,
         Constructing, Destructing, Finishing, Waiting, Critical,
         Unlocked, lockVars, objVars, Goto, KeepLock, OpenFound, Matches
<1>9. ASSUME NEW p \in Procs, NEW d \in Descs, OpenCreate(p, d) PROVE CurInv'
  BY <1>9, ConstantsAssumption
     DEF ConstantsAssumption, Inv, TypeOK, CurInv, Opening,
         Constructing, Destructing, Finishing, Waiting, Critical,
         Unlocked, lockVars, Goto, KeepLock, OpenCreate, HeldIsListed
<1>10. ASSUME NEW p \in Procs, OpenLoaded(p) PROVE CurInv'
  BY <1>10, ConstantsAssumption
     DEF ConstantsAssumption, Inv, TypeOK, CurInv, Opening,
         Constructing, Destructing, Finishing, Waiting, Critical,
         Unlocked, lockVars, Goto, KeepLock, OpenLoaded, LockInv
<1>11. ASSUME NEW p \in Procs, OpenLoadFails(p) PROVE CurInv'
  BY <1>11, ConstantsAssumption, OnlyDestructorsLeft, UnusedHasNoHolder,
      CountFacts
     DEF ConstantsAssumption, Inv, TypeOK, CurInv, Opening,
         Constructing, Destructing, Finishing, Waiting, Critical,
         Unlocked, lockVars, Goto, KeepLock, Free, OpenLoadFails,
         HeldIsListed, LockInv
<1>12. ASSUME NEW p \in Procs, OpenShare(p) PROVE CurInv'
  BY <1>12, ConstantsAssumption
     DEF ConstantsAssumption, Inv, TypeOK, CurInv, Opening,
         Constructing, Destructing, Finishing, Waiting, Critical,
         Unlocked, lockVars, Goto, KeepLock, OpenShare, LockInv
<1>13. ASSUME NEW p \in Procs, OpenFirst(p) PROVE CurInv'
  BY <1>13, ConstantsAssumption
     DEF ConstantsAssumption, Inv, TypeOK, CurInv, Opening,
         Constructing, Destructing, Finishing, Waiting, Critical,
         Unlocked, Goto, Unlock, OpenFirst, LockInv
<1>14. ASSUME NEW p \in Procs, CtorsReturn(p) PROVE CurInv'
  BY <1>14, ConstantsAssumption
     DEF ConstantsAssumption, Inv, TypeOK, CurInv, Opening,
         Constructing, Destructing, Finishing, Waiting, Critical,
         Unlocked, lockVars, objVars, Goto, KeepLock, CtorsReturn
<1>15. ASSUME NEW p \in Procs, OpenClear(p) PROVE CurInv'
  BY <1>15, ConstantsAssumption
     DEF ConstantsAssumption, Inv, TypeOK, CurInv, Opening,
         Constructing, Destructing, Finishing, Waiting, Critical,
         Unlocked, lockVars, Goto, KeepLock, OpenClear
<1>16. ASSUME NEW p \in Procs, CallDone(p) PROVE CurInv'
  BY <1>16, ConstantsAssumption
     DEF ConstantsAssumption, Inv, TypeOK, CurInv, Opening,
         Constructing, Destructing, Finishing, Waiting, Critical,
         Unlocked, objVars, Goto, Unlock, CallDone, LockInv
<1>17. ASSUME NEW p \in Procs, CloseInvalid(p) PROVE CurInv'
  BY <1>17, ConstantsAssumption
     DEF ConstantsAssumption, Inv, TypeOK, CurInv, Opening,
         Constructing, Destructing, Finishing, Waiting, Critical,
         Unlocked, objVars, Goto, Unlock, CloseInvalid
<1>18. ASSUME NEW p \in Procs, CloseLocked(p) PROVE CurInv'
  BY <1>18, ConstantsAssumption
     DEF ConstantsAssumption, Inv, TypeOK, CurInv, Opening,
         Constructing, Destructing, Finishing, Waiting, Critical,
         Unlocked, lockVars, objVars, Goto, KeepLock, CloseLocked
<1>19. ASSUME NEW p \in Procs, CloseShared(p) PROVE CurInv'
  BY <1>19, ConstantsAssumption, CountFacts
     DEF ConstantsAssumption, Inv, TypeOK, CurInv, Opening,
         Constructing, Destructing, Finishing, Waiting, Critical,
         Unlocked, lockVars, Goto, KeepLock, CloseShared, LockInv
<1>20. ASSUME NEW p \in Procs, CloseLast(p) PROVE CurInv'
  BY <1>20, ConstantsAssumption, CountFacts
     DEF ConstantsAssumption, Inv, TypeOK, CurInv, Opening,
         Constructing, Destructing, Finishing, Waiting, Critical,
         Unlocked, Goto, Unlock, CloseLast, LockInv
<1>21. ASSUME NEW p \in Procs, DtorsReturn(p) PROVE CurInv'
  BY <1>21, ConstantsAssumption
     DEF ConstantsAssumption, Inv, TypeOK, CurInv, Opening,
         Constructing, Destructing, Finishing, Waiting, Critical,
         Unlocked, lockVars, objVars, Goto, KeepLock, DtorsReturn
<1>22. ASSUME NEW p \in Procs, CloseUnload(p) PROVE CurInv'
  BY <1>22, ConstantsAssumption, OnlyDestructorsLeft, UnusedHasNoHolder,
      CountFacts
     DEF ConstantsAssumption, Inv, TypeOK, CurInv, Opening,
         Constructing, Destructing, Finishing, Waiting, Critical,
         Unlocked, lockVars, Goto, KeepLock, Free, CloseUnload,
         HeldIsListed, LockInv
<1>23. ASSUME NEW p \in Procs, CloseReopened(p) PROVE CurInv'
  BY <1>23, ConstantsAssumption
     DEF ConstantsAssumption, Inv, TypeOK, CurInv, Opening,
         Constructing, Destructing, Finishing, Waiting, Critical,
         Unlocked, lockVars, Goto, KeepLock, CloseReopened, LockInv
<1>24. ASSUME NEW p \in Procs, CloseDangling(p) PROVE CurInv'
  BY <1>24, ConstantsAssumption
     DEF ConstantsAssumption, Inv, TypeOK, CurInv, Opening,
         Constructing, Destructing, Finishing, Waiting, Critical,
         Unlocked, lockVars, objVars, CloseDangling
<1>25. ASSUME NEW p \in Procs, Query(p) PROVE CurInv'
  BY <1>25, ConstantsAssumption
     DEF ConstantsAssumption, Inv, TypeOK, CurInv, Opening,
         Constructing, Destructing, Finishing, Waiting, Critical,
         Unlocked, objVars, Goto, Unlock, Query
<1>26. ASSUME NEW p \in Procs, InfoNull(p) PROVE CurInv'
  BY <1>26, ConstantsAssumption
     DEF ConstantsAssumption, Inv, TypeOK, CurInv, Opening,
         Constructing, Destructing, Finishing, Waiting, Critical,
         Unlocked, lockVars, objVars, Goto, KeepLock, InfoNull
<1>27. CASE UNCHANGED vars
  BY <1>27, ConstantsAssumption
     DEF ConstantsAssumption, Inv, TypeOK, CurInv, Opening,
         Constructing, Destructing, Finishing, Waiting, Critical,
         Unlocked, lockVars, objVars, Goto, KeepLock, Unlock, Free,
         vars, objVars, lockVars
<1>. QED
  BY <1>1, <1>2, <1>3, <1>4, <1>5, <1>6, <1>7, <1>8, <1>9, <1>10, <1>11,
      <1>12, <1>13, <1>14, <1>15, <1>16, <1>17, <1>18, <1>19, <1>20, <1>21,
      <1>22, <1>23, <1>24, <1>25, <1>26, <1>27
     DEF Next, Call, Step, Undefined

\* Handles stay listed: what is freed has no users, hence no holder.
LEMMA HeldStep == ASSUME Inv, [Next]_vars PROVE HeldIsListed'
<1>1. ASSUME NEW p \in Procs, Quiet(p) PROVE HeldIsListed'
  BY <1>1, QuietLeaves
     DEF Inv, HeldIsListed
<1>2. ASSUME NEW p \in Procs, NEW d \in Descs, OpenCreate(p, d) PROVE HeldIsListed'
  BY <1>2, ConstantsAssumption
     DEF ConstantsAssumption, Inv, TypeOK, CurInv, Opening,
         Constructing, Destructing, Finishing, HeldIsListed, lockVars,
         Goto, KeepLock, OpenCreate
<1>3. ASSUME NEW p \in Procs, OpenLoaded(p) PROVE HeldIsListed'
  BY <1>3, ConstantsAssumption
     DEF ConstantsAssumption, Inv, TypeOK, CurInv, Opening,
         Constructing, Destructing, Finishing, HeldIsListed, lockVars,
         Goto, KeepLock, OpenLoaded
<1>4. ASSUME NEW p \in Procs, OpenLoadFails(p) PROVE HeldIsListed'
  BY <1>4, ConstantsAssumption, UnusedHasNoHolder
     DEF ConstantsAssumption, Inv, TypeOK, CurInv, Opening,
         Constructing, Destructing, Finishing, HeldIsListed, lockVars,
         Goto, KeepLock, Free, OpenLoadFails
<1>5. ASSUME NEW p \in Procs, OpenShare(p) PROVE HeldIsListed'
  BY <1>5, ConstantsAssumption
     DEF ConstantsAssumption, Inv, TypeOK, CurInv, Opening,
         Constructing, Destructing, Finishing, HeldIsListed, lockVars,
         Goto, KeepLock, OpenShare
<1>6. ASSUME NEW p \in Procs, OpenFirst(p) PROVE HeldIsListed'
  BY <1>6, ConstantsAssumption
     DEF ConstantsAssumption, Inv, TypeOK, CurInv, Opening,
         Constructing, Destructing, Finishing, HeldIsListed, Goto,
         Unlock, OpenFirst
<1>7. ASSUME NEW p \in Procs, OpenClear(p) PROVE HeldIsListed'
  BY <1>7, ConstantsAssumption
     DEF ConstantsAssumption, Inv, TypeOK, CurInv, Opening,
         Constructing, Destructing, Finishing, HeldIsListed, lockVars,
         Goto, KeepLock, OpenClear
<1>8. ASSUME NEW p \in Procs, CloseShared(p) PROVE HeldIsListed'
  BY <1>8, ConstantsAssumption
     DEF ConstantsAssumption, Inv, TypeOK, CurInv, Opening,
         Constructing, Destructing, Finishing, HeldIsListed, lockVars,
         Goto, KeepLock, CloseShared
<1>9. ASSUME NEW p \in Procs, CloseLast(p) PROVE HeldIsListed'
  BY <1>9, ConstantsAssumption
     DEF ConstantsAssumption, Inv, TypeOK, CurInv, Opening,
         Constructing, Destructing, Finishing, HeldIsListed, Goto,
         Unlock, CloseLast
<1>10. ASSUME NEW p \in Procs, CloseUnload(p) PROVE HeldIsListed'
  BY <1>10, ConstantsAssumption, UnusedHasNoHolder
     DEF ConstantsAssumption, Inv, TypeOK, CurInv, Opening,
         Constructing, Destructing, Finishing, HeldIsListed, lockVars,
         Goto, KeepLock, Free, CloseUnload
<1>11. ASSUME NEW p \in Procs, CloseReopened(p) PROVE HeldIsListed'
  BY <1>11, ConstantsAssumption
     DEF ConstantsAssumption, Inv, TypeOK, CurInv, Opening,
         Constructing, Destructing, Finishing, HeldIsListed, lockVars,
         Goto, KeepLock, CloseReopened
<1>12. CASE UNCHANGED vars
  BY <1>12
     DEF Inv, HeldIsListed, vars
<1>. QED
  BY <1>1, <1>2, <1>3, <1>4, <1>5, <1>6, <1>7, <1>8, <1>9, <1>10, <1>11,
      <1>12
     DEF Next, Call, Step, Undefined, Quiet

\* Every reference taken or given up is counted, once.
LEMMA RefCountStep == ASSUME Inv, [Next]_vars PROVE RefCount'
<1>1. ASSUME NEW p \in Procs, Quiet(p) PROVE RefCount'
  BY <1>1, QuietLeaves
     DEF Inv, RefCount, Holders
<1>2. ASSUME NEW p \in Procs, NEW d \in Descs, OpenCreate(p, d) PROVE RefCount'
  <2>1. Holders(d)' = {} /\ chain' = chain \union {d} /\ users' = [users EXCEPT ![d] = 0]
    BY <1>2, ConstantsAssumption
       DEF ConstantsAssumption, Inv, TypeOK, HeldIsListed, Holders,
           OpenCreate
  <2>2. \A e \in chain : Holders(e)' = Holders(e) /\ e # d /\ e \in Descs
    BY <1>2 DEF Inv, TypeOK, Holders, OpenCreate
  <2>. QED
    BY <2>1, <2>2, FS_EmptySet DEF Inv, TypeOK, RefCount
<1>3. ASSUME NEW p \in Procs, OpenLoaded(p) PROVE RefCount'
  BY <1>3, ConstantsAssumption
     DEF ConstantsAssumption, Inv, TypeOK, CurInv, RefCount, Holders,
         lockVars, Goto, KeepLock, OpenLoaded
<1>4. ASSUME NEW p \in Procs, OpenLoadFails(p) PROVE RefCount'
  BY <1>4, ConstantsAssumption
     DEF ConstantsAssumption, Inv, TypeOK, CurInv, RefCount, Holders,
         lockVars, Goto, KeepLock, Free, OpenLoadFails
<1>5. ASSUME NEW p \in Procs, OpenShare(p) PROVE RefCount'
  <2>1. PICK d \in chain : d = cur[p] /\ d \in Descs
    BY <1>5 DEF Inv, TypeOK, CurInv, Opening, OpenShare
  <2>2. /\ Cardinality(Holders(d)') = Cardinality(Holders(d)) + 1
        /\ \A e \in Descs \ {d} : Holders(e)' = Holders(e)
    BY <1>5, <2>1, HoldersGain DEF Inv, CurInv, Opening, OpenShare
  <2>3. users' = [users EXCEPT ![d] = @ + 1] /\ chain' = chain /\ chain \subseteq Descs
    BY <1>5, <2>1 DEF Inv, TypeOK, OpenShare
  <2>. QED
    BY <1>5, <2>1, <2>2, <2>3 DEF Inv, TypeOK, RefCount, OpenShare
<1>6. ASSUME NEW p \in Procs, OpenFirst(p) PROVE RefCount'
  <2>1. PICK d \in chain : d = cur[p] /\ d \in Descs
    BY <1>6 DEF Inv, TypeOK, CurInv, Opening, OpenFirst
  <2>2. /\ Cardinality(Holders(d)') = Cardinality(Holders(d)) + 1
        /\ \A e \in Descs \ {d} : Holders(e)' = Holders(e)
    BY <1>6, <2>1, HoldersGain DEF Inv, CurInv, Opening, OpenFirst
  <2>3. users' = [users EXCEPT ![d] = 1] /\ chain' = chain /\ chain \subseteq Descs
    BY <1>6, <2>1 DEF Inv, TypeOK, OpenFirst
  <2>. QED
    BY <1>6, <2>1, <2>2, <2>3 DEF Inv, TypeOK, RefCount, OpenFirst
<1>7. ASSUME NEW p \in Procs, OpenClear(p) PROVE RefCount'
  BY <1>7, ConstantsAssumption
     DEF ConstantsAssumption, Inv, TypeOK, CurInv, RefCount, Holders,
         lockVars, Goto, KeepLock, OpenClear
<1>8. ASSUME NEW p \in Procs, CloseShared(p) PROVE RefCount'
  <2>1. PICK d \in chain : d = ref[p] /\ d \in Descs
    BY <1>8 DEF Inv, TypeOK, CloseShared
  <2>2. /\ Cardinality(Holders(d)') = Cardinality(Holders(d)) - 1
        /\ \A e \in Descs \ {d} : Holders(e)' = Holders(e)
    BY <1>8, <2>1, HoldersLose DEF Inv, CloseShared
  <2>3. users' = [users EXCEPT ![d] = @ - 1] /\ chain' = chain /\ chain \subseteq Descs
    BY <1>8, <2>1 DEF Inv, TypeOK, CloseShared
  <2>4. users[d] \in Nat \ {0} /\ d # NoDesc
    BY <2>1, CountFacts, ConstantsAssumption DEF ConstantsAssumption, Inv
  <2>. QED
    BY <1>8, <2>1, <2>2, <2>3, <2>4 DEF Inv, TypeOK, RefCount, CloseShared
<1>9. ASSUME NEW p \in Procs, CloseLast(p) PROVE RefCount'
  <2>1. PICK d \in chain : d = ref[p] /\ d \in Descs
    BY <1>9 DEF Inv, TypeOK, CloseLast
  <2>2. /\ Cardinality(Holders(d)') = Cardinality(Holders(d)) - 1
        /\ \A e \in Descs \ {d} : Holders(e)' = Holders(e)
    BY <1>9, <2>1, HoldersLose DEF Inv, CloseLast
  <2>3. users' = [users EXCEPT ![d] = 0] /\ chain' = chain /\ chain \subseteq Descs
    BY <1>9, <2>1 DEF Inv, TypeOK, CloseLast
  <2>4. users[d] \in Nat \ {0} /\ d # NoDesc
    BY <2>1, CountFacts, ConstantsAssumption DEF ConstantsAssumption, Inv
  <2>. QED
    BY <1>9, <2>1, <2>2, <2>3, <2>4 DEF Inv, TypeOK, RefCount, CloseLast
<1>10. ASSUME NEW p \in Procs, CloseUnload(p) PROVE RefCount'
  BY <1>10, ConstantsAssumption
     DEF ConstantsAssumption, Inv, TypeOK, CurInv, RefCount, Holders,
         lockVars, Goto, KeepLock, Free, CloseUnload
<1>11. ASSUME NEW p \in Procs, CloseReopened(p) PROVE RefCount'
  BY <1>11, ConstantsAssumption
     DEF ConstantsAssumption, Inv, TypeOK, CurInv, RefCount, Holders,
         lockVars, Goto, KeepLock, CloseReopened
<1>12. CASE UNCHANGED vars
  BY <1>12
     DEF Inv, RefCount, Holders, vars
<1>. QED
  BY <1>1, <1>2, <1>3, <1>4, <1>5, <1>6, <1>7, <1>8, <1>9, <1>10, <1>11,
      <1>12
     DEF Next, Call, Step, Undefined, Quiet

\* A symbol table goes when its object goes.
LEMMA SymsStep == ASSUME Inv, [Next]_vars PROVE SymsListed'
<1>1. ASSUME NEW p \in Procs, Quiet(p) PROVE SymsListed'
  BY <1>1, QuietLeaves
     DEF Inv, SymsListed
<1>2. ASSUME NEW p \in Procs, NEW d \in Descs, OpenCreate(p, d) PROVE SymsListed'
  BY <1>2
     DEF Inv, CurInv, Opening, SymsListed, lockVars, Goto, KeepLock,
         OpenCreate
<1>3. ASSUME NEW p \in Procs, OpenLoaded(p) PROVE SymsListed'
  BY <1>3
     DEF Inv, CurInv, Opening, SymsListed, lockVars, Goto, KeepLock,
         OpenLoaded
<1>4. ASSUME NEW p \in Procs, OpenLoadFails(p) PROVE SymsListed'
  BY <1>4
     DEF Inv, CurInv, Opening, SymsListed, lockVars, Goto, KeepLock,
         Free, OpenLoadFails
<1>5. ASSUME NEW p \in Procs, OpenShare(p) PROVE SymsListed'
  BY <1>5
     DEF Inv, CurInv, Opening, SymsListed, lockVars, Goto, KeepLock,
         OpenShare
<1>6. ASSUME NEW p \in Procs, OpenFirst(p) PROVE SymsListed'
  BY <1>6
     DEF Inv, CurInv, Opening, SymsListed, Goto, Unlock, OpenFirst
<1>7. ASSUME NEW p \in Procs, OpenClear(p) PROVE SymsListed'
  BY <1>7
     DEF Inv, CurInv, Opening, SymsListed, lockVars, Goto, KeepLock,
         OpenClear
<1>8. ASSUME NEW p \in Procs, CloseShared(p) PROVE SymsListed'
  BY <1>8
     DEF Inv, CurInv, Opening, SymsListed, lockVars, Goto, KeepLock,
         CloseShared
<1>9. ASSUME NEW p \in Procs, CloseLast(p) PROVE SymsListed'
  BY <1>9
     DEF Inv, CurInv, Opening, SymsListed, Goto, Unlock, CloseLast
<1>10. ASSUME NEW p \in Procs, CloseUnload(p) PROVE SymsListed'
  BY <1>10
     DEF Inv, CurInv, Opening, SymsListed, lockVars, Goto, KeepLock,
         Free, CloseUnload
<1>11. ASSUME NEW p \in Procs, CloseReopened(p) PROVE SymsListed'
  BY <1>11
     DEF Inv, CurInv, Opening, SymsListed, lockVars, Goto, KeepLock,
         CloseReopened
<1>12. CASE UNCHANGED vars
  BY <1>12
     DEF Inv, SymsListed, vars
<1>. QED
  BY <1>1, <1>2, <1>3, <1>4, <1>5, <1>6, <1>7, <1>8, <1>9, <1>10, <1>11,
      <1>12
     DEF Next, Call, Step, Undefined, Quiet

\* An object loses its last user only to a task that will unload it.
LEMMA AttendedStep == ASSUME Inv, [Next]_vars PROVE Attended'
<1>1. ASSUME NEW p \in Procs, NEW n \in Names \union {NoName}, OpenCall(p, n) PROVE Attended'
  BY <1>1, ConstantsAssumption
     DEF ConstantsAssumption, Inv, TypeOK, CurInv, Opening,
         Constructing, Destructing, Finishing, Attended, RunningDtors,
         lockVars, objVars, Goto, OpenCall
<1>2. ASSUME NEW p \in Procs, CloseCall(p) PROVE Attended'
  BY <1>2, ConstantsAssumption
     DEF ConstantsAssumption, Inv, TypeOK, CurInv, Opening,
         Constructing, Destructing, Finishing, Attended, RunningDtors,
         lockVars, objVars, Goto, CloseCall
<1>3. ASSUME NEW p \in Procs, SymCall(p) PROVE Attended'
  BY <1>3, ConstantsAssumption
     DEF ConstantsAssumption, Inv, TypeOK, CurInv, Opening,
         Constructing, Destructing, Finishing, Attended, RunningDtors,
         lockVars, objVars, Goto, SymCall
<1>4. ASSUME NEW p \in Procs, NEW a \in InfoArgs, InfoCall(p, a) PROVE Attended'
  BY <1>4, ConstantsAssumption
     DEF ConstantsAssumption, Inv, TypeOK, CurInv, Opening,
         Constructing, Destructing, Finishing, Attended, RunningDtors,
         lockVars, objVars, Goto, InfoCall
<1>5. ASSUME NEW p \in Procs, Lock(p) PROVE Attended'
  BY <1>5, ConstantsAssumption
     DEF ConstantsAssumption, Inv, TypeOK, CurInv, Opening,
         Constructing, Destructing, Finishing, Attended, RunningDtors,
         objVars, Goto, Lock, Waiting, AfterLock
<1>6. ASSUME NEW p \in Procs, OpenNull(p) PROVE Attended'
  BY <1>6, ConstantsAssumption
     DEF ConstantsAssumption, Inv, TypeOK, CurInv, Opening,
         Constructing, Destructing, Finishing, Attended, RunningDtors,
         lockVars, objVars, Goto, KeepLock, OpenNull
<1>7. ASSUME NEW p \in Procs, OpenNoFile(p) PROVE Attended'
  BY <1>7, ConstantsAssumption
     DEF ConstantsAssumption, Inv, TypeOK, CurInv, Opening,
         Constructing, Destructing, Finishing, Attended, RunningDtors,
         lockVars, objVars, Goto, KeepLock, OpenNoFile
<1>8. ASSUME NEW p \in Procs, NEW d \in Descs, OpenFound(p, d) PROVE Attended'
  BY <1>8, ConstantsAssumption
     DEF ConstantsAssumption, Inv, TypeOK, CurInv, Opening,
         Constructing, Destructing, Finishing, Attended, RunningDtors,
         lockVars, objVars, Goto, KeepLock, OpenFound
<1>9. ASSUME NEW p \in Procs, NEW d \in Descs, OpenCreate(p, d) PROVE Attended'
  BY <1>9, ConstantsAssumption
     DEF ConstantsAssumption, Inv, TypeOK, CurInv, Opening,
         Constructing, Destructing, Finishing, Attended, RunningDtors,
         lockVars, Goto, KeepLock, OpenCreate
<1>10. ASSUME NEW p \in Procs, OpenLoaded(p) PROVE Attended'
  BY <1>10, ConstantsAssumption
     DEF ConstantsAssumption, Inv, TypeOK, CurInv, Opening,
         Constructing, Destructing, Finishing, Attended, RunningDtors,
         lockVars, Goto, KeepLock, OpenLoaded
<1>11. ASSUME NEW p \in Procs, OpenLoadFails(p) PROVE Attended'
  BY <1>11, ConstantsAssumption
     DEF ConstantsAssumption, Inv, TypeOK, CurInv, Opening,
         Constructing, Destructing, Finishing, Attended, RunningDtors,
         lockVars, Goto, KeepLock, Free, OpenLoadFails
<1>12. ASSUME NEW p \in Procs, OpenShare(p) PROVE Attended'
  BY <1>12, ConstantsAssumption
     DEF ConstantsAssumption, Inv, TypeOK, CurInv, Opening,
         Constructing, Destructing, Finishing, Attended, RunningDtors,
         lockVars, Goto, KeepLock, OpenShare
<1>13. ASSUME NEW p \in Procs, OpenFirst(p) PROVE Attended'
  BY <1>13, ConstantsAssumption
     DEF ConstantsAssumption, Inv, TypeOK, CurInv, Opening,
         Constructing, Destructing, Finishing, Attended, RunningDtors,
         Goto, Unlock, OpenFirst
<1>14. ASSUME NEW p \in Procs, CtorsReturn(p) PROVE Attended'
  BY <1>14, ConstantsAssumption
     DEF ConstantsAssumption, Inv, TypeOK, CurInv, Opening,
         Constructing, Destructing, Finishing, Attended, RunningDtors,
         lockVars, objVars, Goto, KeepLock, CtorsReturn
<1>15. ASSUME NEW p \in Procs, OpenClear(p) PROVE Attended'
  BY <1>15, ConstantsAssumption
     DEF ConstantsAssumption, Inv, TypeOK, CurInv, Opening,
         Constructing, Destructing, Finishing, Attended, RunningDtors,
         lockVars, Goto, KeepLock, OpenClear
<1>16. ASSUME NEW p \in Procs, CallDone(p) PROVE Attended'
  BY <1>16, ConstantsAssumption
     DEF ConstantsAssumption, Inv, TypeOK, CurInv, Opening,
         Constructing, Destructing, Finishing, Attended, RunningDtors,
         objVars, Goto, Unlock, CallDone
<1>17. ASSUME NEW p \in Procs, CloseInvalid(p) PROVE Attended'
  BY <1>17, ConstantsAssumption
     DEF ConstantsAssumption, Inv, TypeOK, CurInv, Opening,
         Constructing, Destructing, Finishing, Attended, RunningDtors,
         objVars, Goto, Unlock, CloseInvalid
<1>18. ASSUME NEW p \in Procs, CloseLocked(p) PROVE Attended'
  BY <1>18, ConstantsAssumption
     DEF ConstantsAssumption, Inv, TypeOK, CurInv, Opening,
         Constructing, Destructing, Finishing, Attended, RunningDtors,
         lockVars, objVars, Goto, KeepLock, CloseLocked
<1>19. ASSUME NEW p \in Procs, CloseShared(p) PROVE Attended'
  BY <1>19, ConstantsAssumption, CountFacts
     DEF ConstantsAssumption, Inv, TypeOK, CurInv, Opening,
         Constructing, Destructing, Finishing, Attended, RunningDtors,
         lockVars, Goto, KeepLock, CloseShared
<1>20. ASSUME NEW p \in Procs, CloseLast(p) PROVE Attended'
  BY <1>20, ConstantsAssumption, CountFacts
     DEF ConstantsAssumption, Inv, TypeOK, CurInv, Opening,
         Constructing, Destructing, Finishing, Attended, RunningDtors,
         Goto, Unlock, CloseLast
<1>21. ASSUME NEW p \in Procs, DtorsReturn(p) PROVE Attended'
  BY <1>21, ConstantsAssumption
     DEF ConstantsAssumption, Inv, TypeOK, CurInv, Opening,
         Constructing, Destructing, Finishing, Attended, RunningDtors,
         lockVars, objVars, Goto, KeepLock, DtorsReturn
<1>22. ASSUME NEW p \in Procs, CloseUnload(p) PROVE Attended'
  BY <1>22, ConstantsAssumption
     DEF ConstantsAssumption, Inv, TypeOK, CurInv, Opening,
         Constructing, Destructing, Finishing, Attended, RunningDtors,
         lockVars, Goto, KeepLock, Free, CloseUnload
<1>23. ASSUME NEW p \in Procs, CloseReopened(p) PROVE Attended'
  BY <1>23, ConstantsAssumption
     DEF ConstantsAssumption, Inv, TypeOK, CurInv, Opening,
         Constructing, Destructing, Finishing, Attended, RunningDtors,
         lockVars, Goto, KeepLock, CloseReopened
<1>24. ASSUME NEW p \in Procs, CloseDangling(p) PROVE Attended'
  BY <1>24, ConstantsAssumption
     DEF ConstantsAssumption, Inv, TypeOK, CurInv, Opening,
         Constructing, Destructing, Finishing, Attended, RunningDtors,
         lockVars, objVars, CloseDangling
<1>25. ASSUME NEW p \in Procs, Query(p) PROVE Attended'
  BY <1>25, ConstantsAssumption
     DEF ConstantsAssumption, Inv, TypeOK, CurInv, Opening,
         Constructing, Destructing, Finishing, Attended, RunningDtors,
         objVars, Goto, Unlock, Query
<1>26. ASSUME NEW p \in Procs, InfoNull(p) PROVE Attended'
  BY <1>26, ConstantsAssumption
     DEF ConstantsAssumption, Inv, TypeOK, CurInv, Opening,
         Constructing, Destructing, Finishing, Attended, RunningDtors,
         lockVars, objVars, Goto, KeepLock, InfoNull
<1>27. CASE UNCHANGED vars
  BY <1>27, ConstantsAssumption
     DEF ConstantsAssumption, Inv, TypeOK, CurInv, Opening,
         Constructing, Destructing, Finishing, Attended, RunningDtors,
         lockVars, objVars, Goto, KeepLock, Unlock, Free, vars, objVars,
         lockVars
<1>. QED
  BY <1>1, <1>2, <1>3, <1>4, <1>5, <1>6, <1>7, <1>8, <1>9, <1>10, <1>11,
      <1>12, <1>13, <1>14, <1>15, <1>16, <1>17, <1>18, <1>19, <1>20, <1>21,
      <1>22, <1>23, <1>24, <1>25, <1>26, <1>27
     DEF Next, Call, Step, Undefined

LEMMA InvStep == Inv /\ [Next]_vars => Inv'
BY TypeStep, LockStep, CurStep, HeldStep, RefCountStep, SymsStep, AttendedStep
   DEF Inv

THEOREM Invariance == Spec => []Inv
BY InvInit, InvStep, PTL DEF Spec

-----------------------------------------------------------------------------
(* The safety properties, for every set of tasks, names and descriptors.   *)

\* Every variable keeps its type; in particular no path through the linker
\* unlocks the mutex more often than it locked it.
THEOREM TypeCorrect == Spec => []TypeOK
BY Invariance, PTL DEF Inv

\* A handle that was returned and not closed is the address of a listed object.
THEOREM HandleSafety == Spec => []HeldIsListed
BY Invariance, PTL DEF Inv

\* The user count of a listed object is the number of its handles.
THEOREM CountsHandles == Spec => []RefCount
BY Invariance, PTL DEF Inv

\* No symbol table outlives its object.
THEOREM SymbolsOfListed == Spec => []SymsListed
BY Invariance, PTL DEF Inv

\* While the linker is unlocked, every object has a user or is being removed.
THEOREM NothingLeftBehind == Spec => []NoOrphan
<1>1. Inv => NoOrphan
  BY ConstantsAssumption
     DEF ConstantsAssumption, Inv, LockInv, Attended, NoOrphan, Opening,
         Critical
<1>. QED
  BY <1>1, Invariance, PTL

-----------------------------------------------------------------------------
(* Two properties that hold under an assumption on the clients.            *)

\* Clients that pass dlinfo a place for its result never leave the mutex locked.
THEOREM LockSafety ==
  ASSUME "null" \notin InfoArgs
  PROVE  Spec => []LockDiscipline
<1>. DEFINE J == /\ LockDiscipline
                 /\ \A p \in Procs : pc[p] \notin {"null_lock", "null"}
<1>1. Init => J
  BY ConstantsAssumption DEF ConstantsAssumption, Init, LockDiscipline, Critical
<1>2. Inv /\ J /\ [Next]_vars => J'
  <2>. SUFFICES ASSUME Inv, J, [Next]_vars PROVE J'
    OBVIOUS
  <2>1. ASSUME NEW p \in Procs, NEW n \in Names \union {NoName}, OpenCall(p, n) PROVE J'
    BY <2>1, ConstantsAssumption, "null" \notin InfoArgs
       DEF ConstantsAssumption, Inv, TypeOK, LockDiscipline, Waiting,
           Critical, Unlocked, lockVars, objVars, Goto, OpenCall
  <2>2. ASSUME NEW p \in Procs, CloseCall(p) PROVE J'
    BY <2>2, ConstantsAssumption, "null" \notin InfoArgs
       DEF ConstantsAssumption, Inv, TypeOK, LockDiscipline, Waiting,
           Critical, Unlocked, lockVars, objVars, Goto, CloseCall
  <2>3. ASSUME NEW p \in Procs, SymCall(p) PROVE J'
    BY <2>3, ConstantsAssumption, "null" \notin InfoArgs
       DEF ConstantsAssumption, Inv, TypeOK, LockDiscipline, Waiting,
           Critical, Unlocked, lockVars, objVars, Goto, SymCall
  <2>4. ASSUME NEW p \in Procs, NEW a \in InfoArgs, InfoCall(p, a) PROVE J'
    BY <2>4, ConstantsAssumption, "null" \notin InfoArgs
       DEF ConstantsAssumption, Inv, TypeOK, LockDiscipline, Waiting,
           Critical, Unlocked, lockVars, objVars, Goto, InfoCall
  <2>5. ASSUME NEW p \in Procs, Lock(p) PROVE J'
    BY <2>5, ConstantsAssumption, "null" \notin InfoArgs
       DEF ConstantsAssumption, Inv, TypeOK, LockDiscipline, Waiting,
           Critical, Unlocked, AfterLock, objVars, Goto, Lock
  <2>6. ASSUME NEW p \in Procs, OpenNull(p) PROVE J'
    BY <2>6, ConstantsAssumption, "null" \notin InfoArgs
       DEF ConstantsAssumption, Inv, TypeOK, LockDiscipline, Waiting,
           Critical, Unlocked, lockVars, objVars, Goto, KeepLock,
           OpenNull
  <2>7. ASSUME NEW p \in Procs, OpenNoFile(p) PROVE J'
    BY <2>7, ConstantsAssumption, "null" \notin InfoArgs
       DEF ConstantsAssumption, Inv, TypeOK, LockDiscipline, Waiting,
           Critical, Unlocked, lockVars, objVars, Goto, KeepLock,
           OpenNoFile
  <2>8. ASSUME NEW p \in Procs, NEW d \in Descs, OpenFound(p, d) PROVE J'
    BY <2>8, ConstantsAssumption, "null" \notin InfoArgs
       DEF ConstantsAssumption, Inv, TypeOK, LockDiscipline, Waiting,
           Critical, Unlocked, lockVars, objVars, Goto, KeepLock,
           OpenFound
  <2>9. ASSUME NEW p \in Procs, NEW d \in Descs, OpenCreate(p, d) PROVE J'
    BY <2>9, ConstantsAssumption, "null" \notin InfoArgs
       DEF ConstantsAssumption, Inv, TypeOK, LockDiscipline, Waiting,
           Critical, Unlocked, lockVars, Goto, KeepLock, OpenCreate
  <2>10. ASSUME NEW p \in Procs, OpenLoaded(p) PROVE J'
    BY <2>10, ConstantsAssumption, "null" \notin InfoArgs
       DEF ConstantsAssumption, Inv, TypeOK, LockDiscipline, Waiting,
           Critical, Unlocked, lockVars, Goto, KeepLock, OpenLoaded
  <2>11. ASSUME NEW p \in Procs, OpenLoadFails(p) PROVE J'
    BY <2>11, ConstantsAssumption, "null" \notin InfoArgs
       DEF ConstantsAssumption, Inv, TypeOK, LockDiscipline, Waiting,
           Critical, Unlocked, lockVars, Goto, KeepLock, Free,
           OpenLoadFails
  <2>12. ASSUME NEW p \in Procs, OpenShare(p) PROVE J'
    BY <2>12, ConstantsAssumption, "null" \notin InfoArgs
       DEF ConstantsAssumption, Inv, TypeOK, LockDiscipline, Waiting,
           Critical, Unlocked, lockVars, Goto, KeepLock, OpenShare
  <2>13. ASSUME NEW p \in Procs, OpenFirst(p) PROVE J'
    BY <2>13, ConstantsAssumption, "null" \notin InfoArgs
       DEF ConstantsAssumption, Inv, TypeOK, LockDiscipline, Waiting,
           Critical, Unlocked, Goto, Unlock, OpenFirst
  <2>14. ASSUME NEW p \in Procs, CtorsReturn(p) PROVE J'
    BY <2>14, ConstantsAssumption, "null" \notin InfoArgs
       DEF ConstantsAssumption, Inv, TypeOK, LockDiscipline, Waiting,
           Critical, Unlocked, lockVars, objVars, Goto, KeepLock,
           CtorsReturn
  <2>15. ASSUME NEW p \in Procs, OpenClear(p) PROVE J'
    BY <2>15, ConstantsAssumption, "null" \notin InfoArgs
       DEF ConstantsAssumption, Inv, TypeOK, LockDiscipline, Waiting,
           Critical, Unlocked, lockVars, Goto, KeepLock, OpenClear
  <2>16. ASSUME NEW p \in Procs, CallDone(p) PROVE J'
    BY <2>16, ConstantsAssumption, "null" \notin InfoArgs
       DEF ConstantsAssumption, Inv, TypeOK, LockDiscipline, Waiting,
           Critical, Unlocked, objVars, Goto, Unlock, CallDone
  <2>17. ASSUME NEW p \in Procs, CloseInvalid(p) PROVE J'
    BY <2>17, ConstantsAssumption, "null" \notin InfoArgs
       DEF ConstantsAssumption, Inv, TypeOK, LockDiscipline, Waiting,
           Critical, Unlocked, objVars, Goto, Unlock, CloseInvalid
  <2>18. ASSUME NEW p \in Procs, CloseLocked(p) PROVE J'
    BY <2>18, ConstantsAssumption, "null" \notin InfoArgs
       DEF ConstantsAssumption, Inv, TypeOK, LockDiscipline, Waiting,
           Critical, Unlocked, lockVars, objVars, Goto, KeepLock,
           CloseLocked
  <2>19. ASSUME NEW p \in Procs, CloseShared(p) PROVE J'
    BY <2>19, ConstantsAssumption, "null" \notin InfoArgs
       DEF ConstantsAssumption, Inv, TypeOK, LockDiscipline, Waiting,
           Critical, Unlocked, lockVars, Goto, KeepLock, CloseShared
  <2>20. ASSUME NEW p \in Procs, CloseLast(p) PROVE J'
    BY <2>20, ConstantsAssumption, "null" \notin InfoArgs
       DEF ConstantsAssumption, Inv, TypeOK, LockDiscipline, Waiting,
           Critical, Unlocked, Goto, Unlock, CloseLast
  <2>21. ASSUME NEW p \in Procs, DtorsReturn(p) PROVE J'
    BY <2>21, ConstantsAssumption, "null" \notin InfoArgs
       DEF ConstantsAssumption, Inv, TypeOK, LockDiscipline, Waiting,
           Critical, Unlocked, lockVars, objVars, Goto, KeepLock,
           DtorsReturn
  <2>22. ASSUME NEW p \in Procs, CloseUnload(p) PROVE J'
    BY <2>22, ConstantsAssumption, "null" \notin InfoArgs
       DEF ConstantsAssumption, Inv, TypeOK, LockDiscipline, Waiting,
           Critical, Unlocked, lockVars, Goto, KeepLock, Free,
           CloseUnload
  <2>23. ASSUME NEW p \in Procs, CloseReopened(p) PROVE J'
    BY <2>23, ConstantsAssumption, "null" \notin InfoArgs
       DEF ConstantsAssumption, Inv, TypeOK, LockDiscipline, Waiting,
           Critical, Unlocked, lockVars, Goto, KeepLock, CloseReopened
  <2>24. ASSUME NEW p \in Procs, CloseDangling(p) PROVE J'
    BY <2>24, ConstantsAssumption, "null" \notin InfoArgs
       DEF ConstantsAssumption, Inv, TypeOK, LockDiscipline, Waiting,
           Critical, Unlocked, lockVars, objVars, CloseDangling
  <2>25. ASSUME NEW p \in Procs, Query(p) PROVE J'
    BY <2>25, ConstantsAssumption, "null" \notin InfoArgs
       DEF ConstantsAssumption, Inv, TypeOK, LockDiscipline, Waiting,
           Critical, Unlocked, objVars, Goto, Unlock, Query
  <2>26. ASSUME NEW p \in Procs, InfoNull(p) PROVE J'
    BY <2>26, ConstantsAssumption, "null" \notin InfoArgs
       DEF ConstantsAssumption, Inv, TypeOK, LockDiscipline, Waiting,
           Critical, Unlocked, lockVars, objVars, Goto, KeepLock,
           InfoNull
  <2>27. CASE UNCHANGED vars
    BY <2>27, ConstantsAssumption, "null" \notin InfoArgs
       DEF ConstantsAssumption, Inv, TypeOK, LockDiscipline, Waiting,
           Critical, Unlocked, lockVars, objVars, Goto, KeepLock,
           Unlock, Free, vars, objVars, lockVars
  <2>. QED
    BY <2>1, <2>2, <2>3, <2>4, <2>5, <2>6, <2>7, <2>8, <2>9, <2>10, <2>11,
        <2>12, <2>13, <2>14, <2>15, <2>16, <2>17, <2>18, <2>19, <2>20, <2>21,
        <2>22, <2>23, <2>24, <2>25, <2>26, <2>27
       DEF Next, Call, Step, Undefined
<1>3. J => LockDiscipline
  OBVIOUS
<1>. QED
  BY <1>1, <1>2, <1>3, Invariance, PTL DEF Spec

\* A listed object was loaded for a name.
LEMMA AlwaysNamed == Spec => []Named
<1>1. Init => Named
  BY ConstantsAssumption DEF ConstantsAssumption, Init, Named, AllNames
<1>2. Inv /\ Named /\ [Next]_vars => Named'
  <2>. SUFFICES ASSUME Inv, Named, [Next]_vars PROVE Named'
    OBVIOUS
  <2>1. ASSUME NEW p \in Procs, Quiet(p) PROVE Named'
    BY <2>1, QuietLeaves DEF Named
  <2>2. ASSUME NEW p \in Procs, NEW d \in Descs, OpenCreate(p, d) PROVE Named'
    BY <2>2 DEF Inv, TypeOK, Named, OpenCreate
  <2>3. ASSUME NEW p \in Procs, OpenLoadFails(p) \/ CloseUnload(p) PROVE Named'
    BY <2>3 DEF Inv, TypeOK, Named, OpenLoadFails, CloseUnload, Free
  <2>4. ASSUME NEW p \in Procs,
               \/ OpenLoaded(p) \/ OpenShare(p) \/ OpenFirst(p) \/ OpenClear(p)
               \/ CloseShared(p) \/ CloseLast(p) \/ CloseReopened(p)
        PROVE  Named'
    BY <2>4 DEF Named, OpenLoaded, OpenShare, OpenFirst, OpenClear, CloseShared, CloseLast,
                CloseReopened
  <2>5. CASE UNCHANGED vars
    BY <2>5 DEF Named, vars
  <2>. QED
    BY <2>1, <2>2, <2>3, <2>4, <2>5 DEF Next, Call, Step, Undefined, Quiet
<1>. QED
  BY <1>1, <1>2, Invariance, PTL DEF Spec

\* No two listed objects have one name that matches itself, whatever other names
\* are loaded besides.
THEOREM NamesAreUnique == Spec => []OneObjectPerName
<1>1. Init => OneObjectPerName
  BY DEF Init, OneObjectPerName
<1>2. Inv /\ OneObjectPerName /\ [Next]_vars => OneObjectPerName'
  <2>. SUFFICES ASSUME Inv, OneObjectPerName, [Next]_vars PROVE OneObjectPerName'
    OBVIOUS
  <2>1. ASSUME NEW p \in Procs, Quiet(p) PROVE OneObjectPerName'
    BY <2>1, QuietLeaves
       DEF OneObjectPerName
  <2>2. ASSUME NEW p \in Procs, NEW d \in Descs, OpenCreate(p, d) PROVE OneObjectPerName'
    BY <2>2, ConstantsAssumption
       DEF Inv, TypeOK, OneObjectPerName, lockVars, Goto, KeepLock,
           OpenCreate, Matches
  <2>3. ASSUME NEW p \in Procs, OpenLoaded(p) PROVE OneObjectPerName'
    BY <2>3, ConstantsAssumption
       DEF Inv, TypeOK, OneObjectPerName, lockVars, Goto, KeepLock,
           OpenLoaded
  <2>4. ASSUME NEW p \in Procs, OpenLoadFails(p) PROVE OneObjectPerName'
    BY <2>4, ConstantsAssumption
       DEF Inv, TypeOK, OneObjectPerName, lockVars, Goto, KeepLock,
           Free, OpenLoadFails
  <2>5. ASSUME NEW p \in Procs, OpenShare(p) PROVE OneObjectPerName'
    BY <2>5, ConstantsAssumption
       DEF Inv, TypeOK, OneObjectPerName, lockVars, Goto, KeepLock,
           OpenShare
  <2>6. ASSUME NEW p \in Procs, OpenFirst(p) PROVE OneObjectPerName'
    BY <2>6, ConstantsAssumption
       DEF Inv, TypeOK, OneObjectPerName, Goto, Unlock, OpenFirst
  <2>7. ASSUME NEW p \in Procs, OpenClear(p) PROVE OneObjectPerName'
    BY <2>7, ConstantsAssumption
       DEF Inv, TypeOK, OneObjectPerName, lockVars, Goto, KeepLock,
           OpenClear
  <2>8. ASSUME NEW p \in Procs, CloseShared(p) PROVE OneObjectPerName'
    BY <2>8, ConstantsAssumption
       DEF Inv, TypeOK, OneObjectPerName, lockVars, Goto, KeepLock,
           CloseShared
  <2>9. ASSUME NEW p \in Procs, CloseLast(p) PROVE OneObjectPerName'
    BY <2>9, ConstantsAssumption
       DEF Inv, TypeOK, OneObjectPerName, Goto, Unlock, CloseLast
  <2>10. ASSUME NEW p \in Procs, CloseUnload(p) PROVE OneObjectPerName'
    BY <2>10, ConstantsAssumption
       DEF Inv, TypeOK, OneObjectPerName, lockVars, Goto, KeepLock,
           Free, CloseUnload
  <2>11. ASSUME NEW p \in Procs, CloseReopened(p) PROVE OneObjectPerName'
    BY <2>11, ConstantsAssumption
       DEF Inv, TypeOK, OneObjectPerName, lockVars, Goto, KeepLock,
           CloseReopened
  <2>12. CASE UNCHANGED vars
    BY <2>12
       DEF OneObjectPerName, vars
  <2>. QED
    BY <2>1, <2>2, <2>3, <2>4, <2>5, <2>6, <2>7, <2>8, <2>9, <2>10, <2>11,
        <2>12
       DEF Next, Call, Step, Undefined, Quiet
<1>. QED
  BY <1>1, <1>2, Invariance, PTL DEF Spec

-----------------------------------------------------------------------------
(* Clients that coordinate. *)

\* Clients coordinate by name, so the linker must tell names apart as they do.
ClientsCoordinate ==
  Coordinated /\ \A m, n \in AllNames : ArgKey[m] = ObjKey[n] <=> m = n

InCall(p) == pc[p] \notin Queries \union {"idle"} /\ arg[p] # NoName

\* One call at a time for a name.
OneCallInv == \A p, q \in Procs : InCall(p) /\ InCall(q) /\ arg[p] = arg[q] => p = q

\* The name a task has passed is that of the object it holds or works on.
Working == Opening \union Constructing \union Destructing

NameInv ==
  /\ Named
  /\ \A p \in Procs :
       /\ arg[p] \in Names \union {NoName}
       /\ ref[p] # NoDesc => arg[p] # NoName /\ oname[ref[p]] = arg[p]
       /\ pc[p] \in Working =>
            arg[p] # NoName /\ cur[p] \in chain /\ oname[cur[p]] = arg[p]

\* An object is locked by a task that runs its constructors or destructors.
FlagInv ==
  \A d \in locked : \E p \in Procs : pc[p] \in Constructing \union Destructing /\ cur[p] = d

UnusedInv == \A p \in Procs : pc[p] \in Destructing => users[cur[p]] = 0
FlagSetInv == \A p \in Procs : pc[p] \in Constructing \union Destructing => cur[p] \in locked

\* Only an object that is being loaded has no symbols.
SymbolsInv == \A d \in chain : d \in syms \/ \E p \in Procs : pc[p] = "open_load" /\ cur[p] = d

CoordInv ==
  /\ LoadedOnce /\ OneCallInv /\ NameInv /\ FlagInv /\ FlagSetInv /\ UnusedInv /\ SymbolsInv
  /\ stale = {} /\ ~ub

-----------------------------------------------------------------------------
\* Only one task works on an object.
LEMMA OneWorker ==
  ASSUME CoordInv, NEW p \in Procs, NEW q \in Procs,
         pc[p] \in Working, pc[q] \in Working, cur[p] = cur[q]
  PROVE  p = q
BY DEF CoordInv, OneCallInv, NameInv, InCall, Queries, Working, Opening,
       Constructing, Destructing

\* A call for a name starts only when no other is under way.
LEMMA OneCallStep ==
  ASSUME ClientsCoordinate, Inv, CoordInv, [Next]_vars
  PROVE  OneCallInv'
<1>1. ASSUME NEW p \in Procs, NEW n \in Names \union {NoName}, OpenCall(p, n) PROVE OneCallInv'
  BY <1>1, ConstantsAssumption
     DEF ConstantsAssumption, ClientsCoordinate, Inv, TypeOK, CoordInv,
         OneCallInv, InCall, Queries, Waiting, Critical, Unlocked, lockVars,
         objVars, Goto, MayCall, InCallFor, OpenCall
<1>2. ASSUME NEW p \in Procs, CloseCall(p) PROVE OneCallInv'
  BY <1>2, ConstantsAssumption
     DEF ConstantsAssumption, ClientsCoordinate, Inv, TypeOK, CoordInv,
         OneCallInv, InCall, Queries, Waiting, Critical, Unlocked, lockVars,
         objVars, Goto, MayCall, InCallFor, CloseCall
<1>3. ASSUME NEW p \in Procs, SymCall(p) PROVE OneCallInv'
  BY <1>3, ConstantsAssumption
     DEF ConstantsAssumption, ClientsCoordinate, Inv, TypeOK, CoordInv,
         OneCallInv, InCall, Queries, Waiting, Critical, Unlocked, lockVars,
         objVars, Goto, SymCall
<1>4. ASSUME NEW p \in Procs, NEW a \in InfoArgs, InfoCall(p, a) PROVE OneCallInv'
  BY <1>4, ConstantsAssumption
     DEF ConstantsAssumption, ClientsCoordinate, Inv, TypeOK, CoordInv,
         OneCallInv, InCall, Queries, Waiting, Critical, Unlocked, lockVars,
         objVars, Goto, InfoCall
<1>5. ASSUME NEW p \in Procs, Lock(p) PROVE OneCallInv'
  BY <1>5, ConstantsAssumption
     DEF ConstantsAssumption, ClientsCoordinate, Inv, TypeOK, CoordInv,
         OneCallInv, InCall, Queries, Waiting, Critical, Unlocked,
         AfterLock, objVars, Goto, Lock
<1>6. ASSUME NEW p \in Procs, OpenNull(p) PROVE OneCallInv'
  BY <1>6, ConstantsAssumption
     DEF ConstantsAssumption, ClientsCoordinate, Inv, TypeOK, CoordInv,
         OneCallInv, InCall, Queries, Waiting, Critical, Unlocked, lockVars,
         objVars, Goto, KeepLock, OpenNull
<1>7. ASSUME NEW p \in Procs, OpenNoFile(p) PROVE OneCallInv'
  BY <1>7, ConstantsAssumption
     DEF ConstantsAssumption, ClientsCoordinate, Inv, TypeOK, CoordInv,
         OneCallInv, InCall, Queries, Waiting, Critical, Unlocked, lockVars,
         objVars, Goto, KeepLock, OpenNoFile
<1>8. ASSUME NEW p \in Procs, NEW d \in Descs, OpenFound(p, d) PROVE OneCallInv'
  BY <1>8, ConstantsAssumption
     DEF ConstantsAssumption, ClientsCoordinate, Inv, TypeOK, CoordInv,
         OneCallInv, InCall, Queries, Waiting, Critical, Unlocked, lockVars,
         objVars, Goto, KeepLock, Matches, OpenFound
<1>9. ASSUME NEW p \in Procs, NEW d \in Descs, OpenCreate(p, d) PROVE OneCallInv'
  BY <1>9, ConstantsAssumption
     DEF ConstantsAssumption, ClientsCoordinate, Inv, TypeOK, CoordInv,
         OneCallInv, InCall, Queries, Waiting, Critical, Unlocked, lockVars,
         Goto, KeepLock, Matches, OpenCreate
<1>10. ASSUME NEW p \in Procs, OpenLoaded(p) PROVE OneCallInv'
  BY <1>10, ConstantsAssumption
     DEF ConstantsAssumption, ClientsCoordinate, Inv, TypeOK, CoordInv,
         OneCallInv, InCall, Queries, Waiting, Critical, Unlocked, lockVars,
         Goto, KeepLock, OpenLoaded
<1>11. ASSUME NEW p \in Procs, OpenLoadFails(p) PROVE OneCallInv'
  BY <1>11, ConstantsAssumption
     DEF ConstantsAssumption, ClientsCoordinate, Inv, TypeOK, CoordInv,
         OneCallInv, InCall, Queries, Waiting, Critical, Unlocked, lockVars,
         Goto, KeepLock, Free, OpenLoadFails
<1>12. ASSUME NEW p \in Procs, OpenShare(p) PROVE OneCallInv'
  BY <1>12, ConstantsAssumption
     DEF ConstantsAssumption, ClientsCoordinate, Inv, TypeOK, CoordInv,
         OneCallInv, InCall, Queries, Waiting, Critical, Unlocked, lockVars,
         Goto, KeepLock, OpenShare
<1>13. ASSUME NEW p \in Procs, OpenFirst(p) PROVE OneCallInv'
  BY <1>13, ConstantsAssumption
     DEF ConstantsAssumption, ClientsCoordinate, Inv, TypeOK, CoordInv,
         OneCallInv, InCall, Queries, Waiting, Critical, Unlocked, Goto,
         Unlock, OpenFirst
<1>14. ASSUME NEW p \in Procs, CtorsReturn(p) PROVE OneCallInv'
  BY <1>14, ConstantsAssumption
     DEF ConstantsAssumption, ClientsCoordinate, Inv, TypeOK, CoordInv,
         OneCallInv, InCall, Queries, Waiting, Critical, Unlocked, lockVars,
         objVars, Goto, KeepLock, CtorsReturn
<1>15. ASSUME NEW p \in Procs, OpenClear(p) PROVE OneCallInv'
  BY <1>15, ConstantsAssumption
     DEF ConstantsAssumption, ClientsCoordinate, Inv, TypeOK, CoordInv,
         OneCallInv, InCall, Queries, Waiting, Critical, Unlocked, lockVars,
         Goto, KeepLock, OpenClear
<1>16. ASSUME NEW p \in Procs, CallDone(p) PROVE OneCallInv'
  BY <1>16, ConstantsAssumption
     DEF ConstantsAssumption, ClientsCoordinate, Inv, TypeOK, CoordInv,
         OneCallInv, InCall, Queries, Waiting, Critical, Unlocked, objVars,
         Goto, Unlock, CallDone
<1>17. ASSUME NEW p \in Procs, CloseInvalid(p) PROVE OneCallInv'
  BY <1>17, ConstantsAssumption
     DEF ConstantsAssumption, ClientsCoordinate, Inv, TypeOK, CoordInv,
         OneCallInv, InCall, Queries, Waiting, Critical, Unlocked, objVars,
         Goto, Unlock, CloseInvalid
<1>18. ASSUME NEW p \in Procs, CloseLocked(p) PROVE OneCallInv'
  BY <1>18, ConstantsAssumption
     DEF ConstantsAssumption, ClientsCoordinate, Inv, TypeOK, CoordInv,
         OneCallInv, InCall, Queries, Waiting, Critical, Unlocked, lockVars,
         objVars, Goto, KeepLock, CloseLocked
<1>19. ASSUME NEW p \in Procs, CloseShared(p) PROVE OneCallInv'
  BY <1>19, ConstantsAssumption
     DEF ConstantsAssumption, ClientsCoordinate, Inv, TypeOK, CoordInv,
         OneCallInv, InCall, Queries, Waiting, Critical, Unlocked, lockVars,
         Goto, KeepLock, CloseShared
<1>20. ASSUME NEW p \in Procs, CloseLast(p) PROVE OneCallInv'
  BY <1>20, ConstantsAssumption
     DEF ConstantsAssumption, ClientsCoordinate, Inv, TypeOK, CoordInv,
         OneCallInv, InCall, Queries, Waiting, Critical, Unlocked, Goto,
         Unlock, CloseLast
<1>21. ASSUME NEW p \in Procs, DtorsReturn(p) PROVE OneCallInv'
  BY <1>21, ConstantsAssumption
     DEF ConstantsAssumption, ClientsCoordinate, Inv, TypeOK, CoordInv,
         OneCallInv, InCall, Queries, Waiting, Critical, Unlocked, lockVars,
         objVars, Goto, KeepLock, DtorsReturn
<1>22. ASSUME NEW p \in Procs, CloseUnload(p) PROVE OneCallInv'
  BY <1>22, ConstantsAssumption
     DEF ConstantsAssumption, ClientsCoordinate, Inv, TypeOK, CoordInv,
         OneCallInv, InCall, Queries, Waiting, Critical, Unlocked, lockVars,
         Goto, KeepLock, Free, CloseUnload
<1>23. ASSUME NEW p \in Procs, CloseReopened(p) PROVE OneCallInv'
  BY <1>23, ConstantsAssumption
     DEF ConstantsAssumption, ClientsCoordinate, Inv, TypeOK, CoordInv,
         OneCallInv, InCall, Queries, Waiting, Critical, Unlocked, lockVars,
         Goto, KeepLock, CloseReopened
<1>24. ASSUME NEW p \in Procs, CloseDangling(p) PROVE OneCallInv'
  BY <1>24, ConstantsAssumption
     DEF ConstantsAssumption, ClientsCoordinate, Inv, TypeOK, CoordInv,
         OneCallInv, InCall, Queries, Waiting, Critical, Unlocked, lockVars,
         objVars, CloseDangling
<1>25. ASSUME NEW p \in Procs, Query(p) PROVE OneCallInv'
  BY <1>25, ConstantsAssumption
     DEF ConstantsAssumption, ClientsCoordinate, Inv, TypeOK, CoordInv,
         OneCallInv, InCall, Queries, Waiting, Critical, Unlocked, objVars,
         Goto, Unlock, Query
<1>26. ASSUME NEW p \in Procs, InfoNull(p) PROVE OneCallInv'
  BY <1>26, ConstantsAssumption
     DEF ConstantsAssumption, ClientsCoordinate, Inv, TypeOK, CoordInv,
         OneCallInv, InCall, Queries, Waiting, Critical, Unlocked, lockVars,
         objVars, Goto, KeepLock, InfoNull
<1>27. CASE UNCHANGED vars
  BY <1>27
     DEF ClientsCoordinate, Inv, TypeOK, CoordInv, OneCallInv, InCall,
         Queries, Waiting, Critical, Unlocked, vars
<1>. QED
  BY <1>1, <1>2, <1>3, <1>4, <1>5, <1>6, <1>7, <1>8, <1>9, <1>10, <1>11,
     <1>12, <1>13, <1>14, <1>15, <1>16, <1>17, <1>18, <1>19, <1>20, <1>21,
     <1>22, <1>23, <1>24, <1>25, <1>26, <1>27
     DEF Next, Call, Step, Undefined

\* The names in the calls and the names of the objects stay together.
LEMMA NameStep ==
  ASSUME ClientsCoordinate, Inv, CoordInv, [Next]_vars
  PROVE  NameInv'
<1>1. ASSUME NEW p \in Procs, NEW n \in Names \union {NoName}, OpenCall(p, n) PROVE NameInv'
  BY <1>1, ConstantsAssumption
     DEF ConstantsAssumption, ClientsCoordinate, Inv, TypeOK, CurInv,
         Opening, Constructing, Destructing, Finishing, CoordInv,
         OneCallInv, InCall, Queries, Waiting, Critical, Unlocked, NameInv,
         Working, HeldIsListed, Named, lockVars, objVars, Goto, MayCall,
         InCallFor, OpenCall
<1>2. ASSUME NEW p \in Procs, CloseCall(p) PROVE NameInv'
  BY <1>2, ConstantsAssumption
     DEF ConstantsAssumption, ClientsCoordinate, Inv, TypeOK, CurInv,
         Opening, Constructing, Destructing, Finishing, CoordInv,
         OneCallInv, InCall, Queries, Waiting, Critical, Unlocked, NameInv,
         Working, HeldIsListed, Named, lockVars, objVars, Goto, MayCall,
         InCallFor, CloseCall
<1>3. ASSUME NEW p \in Procs, SymCall(p) PROVE NameInv'
  BY <1>3, ConstantsAssumption
     DEF ConstantsAssumption, ClientsCoordinate, Inv, TypeOK, CurInv,
         Opening, Constructing, Destructing, Finishing, CoordInv,
         OneCallInv, InCall, Queries, Waiting, Critical, Unlocked, NameInv,
         Working, HeldIsListed, Named, lockVars, objVars, Goto, SymCall
<1>4. ASSUME NEW p \in Procs, NEW a \in InfoArgs, InfoCall(p, a) PROVE NameInv'
  BY <1>4, ConstantsAssumption
     DEF ConstantsAssumption, ClientsCoordinate, Inv, TypeOK, CurInv,
         Opening, Constructing, Destructing, Finishing, CoordInv,
         OneCallInv, InCall, Queries, Waiting, Critical, Unlocked, NameInv,
         Working, HeldIsListed, Named, lockVars, objVars, Goto, InfoCall
<1>5. ASSUME NEW p \in Procs, Lock(p) PROVE NameInv'
  BY <1>5, ConstantsAssumption
     DEF ConstantsAssumption, ClientsCoordinate, Inv, TypeOK, CurInv,
         Opening, Constructing, Destructing, Finishing, CoordInv,
         OneCallInv, InCall, Queries, Waiting, Critical, Unlocked, NameInv,
         Working, HeldIsListed, Named, AfterLock, objVars, Goto, Lock
<1>6. ASSUME NEW p \in Procs, OpenNull(p) PROVE NameInv'
  BY <1>6, ConstantsAssumption
     DEF ConstantsAssumption, ClientsCoordinate, Inv, TypeOK, CurInv,
         Opening, Constructing, Destructing, Finishing, CoordInv,
         OneCallInv, InCall, Queries, Waiting, Critical, Unlocked, NameInv,
         Working, HeldIsListed, Named, lockVars, objVars, Goto, KeepLock,
         OpenNull
<1>7. ASSUME NEW p \in Procs, OpenNoFile(p) PROVE NameInv'
  BY <1>7, ConstantsAssumption
     DEF ConstantsAssumption, ClientsCoordinate, Inv, TypeOK, CurInv,
         Opening, Constructing, Destructing, Finishing, CoordInv,
         OneCallInv, InCall, Queries, Waiting, Critical, Unlocked, NameInv,
         Working, HeldIsListed, Named, lockVars, objVars, Goto, KeepLock,
         OpenNoFile
<1>8. ASSUME NEW p \in Procs, NEW d \in Descs, OpenFound(p, d) PROVE NameInv'
  BY <1>8, ConstantsAssumption
     DEF ConstantsAssumption, ClientsCoordinate, Inv, TypeOK, CurInv,
         Opening, Constructing, Destructing, Finishing, CoordInv,
         OneCallInv, InCall, Queries, Waiting, Critical, Unlocked, NameInv,
         Working, HeldIsListed, Named, lockVars, objVars, Goto, KeepLock,
         Matches, OpenFound
<1>9. ASSUME NEW p \in Procs, NEW d \in Descs, OpenCreate(p, d) PROVE NameInv'
  BY <1>9, ConstantsAssumption
     DEF ConstantsAssumption, ClientsCoordinate, Inv, TypeOK, CurInv,
         Opening, Constructing, Destructing, Finishing, CoordInv,
         OneCallInv, InCall, Queries, Waiting, Critical, Unlocked, NameInv,
         Working, HeldIsListed, Named, lockVars, Goto, KeepLock, Matches,
         OpenCreate
<1>10. ASSUME NEW p \in Procs, OpenLoaded(p) PROVE NameInv'
  BY <1>10, ConstantsAssumption
     DEF ConstantsAssumption, ClientsCoordinate, Inv, TypeOK, CurInv,
         Opening, Constructing, Destructing, Finishing, CoordInv,
         OneCallInv, InCall, Queries, Waiting, Critical, Unlocked, NameInv,
         Working, HeldIsListed, Named, lockVars, Goto, KeepLock, OpenLoaded
<1>11. ASSUME NEW p \in Procs, OpenLoadFails(p) PROVE NameInv'
  BY <1>11, ConstantsAssumption, UnusedHasNoHolder, OneWorker
     DEF ConstantsAssumption, ClientsCoordinate, Inv, TypeOK, CurInv,
         Opening, Constructing, Destructing, Finishing, CoordInv,
         OneCallInv, InCall, Queries, Waiting, Critical, Unlocked, NameInv,
         Working, HeldIsListed, Named, lockVars, Goto, KeepLock, Free,
         OpenLoadFails
<1>12. ASSUME NEW p \in Procs, OpenShare(p) PROVE NameInv'
  BY <1>12, ConstantsAssumption
     DEF ConstantsAssumption, ClientsCoordinate, Inv, TypeOK, CurInv,
         Opening, Constructing, Destructing, Finishing, CoordInv,
         OneCallInv, InCall, Queries, Waiting, Critical, Unlocked, NameInv,
         Working, HeldIsListed, Named, lockVars, Goto, KeepLock, OpenShare
<1>13. ASSUME NEW p \in Procs, OpenFirst(p) PROVE NameInv'
  BY <1>13, ConstantsAssumption
     DEF ConstantsAssumption, ClientsCoordinate, Inv, TypeOK, CurInv,
         Opening, Constructing, Destructing, Finishing, CoordInv,
         OneCallInv, InCall, Queries, Waiting, Critical, Unlocked, NameInv,
         Working, HeldIsListed, Named, Goto, Unlock, OpenFirst
<1>14. ASSUME NEW p \in Procs, CtorsReturn(p) PROVE NameInv'
  BY <1>14, ConstantsAssumption
     DEF ConstantsAssumption, ClientsCoordinate, Inv, TypeOK, CurInv,
         Opening, Constructing, Destructing, Finishing, CoordInv,
         OneCallInv, InCall, Queries, Waiting, Critical, Unlocked, NameInv,
         Working, HeldIsListed, Named, lockVars, objVars, Goto, KeepLock,
         CtorsReturn
<1>15. ASSUME NEW p \in Procs, OpenClear(p) PROVE NameInv'
  BY <1>15, ConstantsAssumption
     DEF ConstantsAssumption, ClientsCoordinate, Inv, TypeOK, CurInv,
         Opening, Constructing, Destructing, Finishing, CoordInv,
         OneCallInv, InCall, Queries, Waiting, Critical, Unlocked, NameInv,
         Working, HeldIsListed, Named, lockVars, Goto, KeepLock, OpenClear
<1>16. ASSUME NEW p \in Procs, CallDone(p) PROVE NameInv'
  BY <1>16, ConstantsAssumption
     DEF ConstantsAssumption, ClientsCoordinate, Inv, TypeOK, CurInv,
         Opening, Constructing, Destructing, Finishing, CoordInv,
         OneCallInv, InCall, Queries, Waiting, Critical, Unlocked, NameInv,
         Working, HeldIsListed, Named, objVars, Goto, Unlock, CallDone
<1>17. ASSUME NEW p \in Procs, CloseInvalid(p) PROVE NameInv'
  BY <1>17, ConstantsAssumption
     DEF ConstantsAssumption, ClientsCoordinate, Inv, TypeOK, CurInv,
         Opening, Constructing, Destructing, Finishing, CoordInv,
         OneCallInv, InCall, Queries, Waiting, Critical, Unlocked, NameInv,
         Working, HeldIsListed, Named, objVars, Goto, Unlock, CloseInvalid
<1>18. ASSUME NEW p \in Procs, CloseLocked(p) PROVE NameInv'
  BY <1>18, ConstantsAssumption
     DEF ConstantsAssumption, ClientsCoordinate, Inv, TypeOK, CurInv,
         Opening, Constructing, Destructing, Finishing, CoordInv,
         OneCallInv, InCall, Queries, Waiting, Critical, Unlocked, NameInv,
         Working, HeldIsListed, Named, lockVars, objVars, Goto, KeepLock,
         CloseLocked
<1>19. ASSUME NEW p \in Procs, CloseShared(p) PROVE NameInv'
  BY <1>19, ConstantsAssumption
     DEF ConstantsAssumption, ClientsCoordinate, Inv, TypeOK, CurInv,
         Opening, Constructing, Destructing, Finishing, CoordInv,
         OneCallInv, InCall, Queries, Waiting, Critical, Unlocked, NameInv,
         Working, HeldIsListed, Named, lockVars, Goto, KeepLock, CloseShared
<1>20. ASSUME NEW p \in Procs, CloseLast(p) PROVE NameInv'
  BY <1>20, ConstantsAssumption
     DEF ConstantsAssumption, ClientsCoordinate, Inv, TypeOK, CurInv,
         Opening, Constructing, Destructing, Finishing, CoordInv,
         OneCallInv, InCall, Queries, Waiting, Critical, Unlocked, NameInv,
         Working, HeldIsListed, Named, Goto, Unlock, CloseLast
<1>21. ASSUME NEW p \in Procs, DtorsReturn(p) PROVE NameInv'
  BY <1>21, ConstantsAssumption
     DEF ConstantsAssumption, ClientsCoordinate, Inv, TypeOK, CurInv,
         Opening, Constructing, Destructing, Finishing, CoordInv,
         OneCallInv, InCall, Queries, Waiting, Critical, Unlocked, NameInv,
         Working, HeldIsListed, Named, lockVars, objVars, Goto, KeepLock,
         DtorsReturn
<1>22. ASSUME NEW p \in Procs, CloseUnload(p) PROVE NameInv'
  BY <1>22, ConstantsAssumption, UnusedHasNoHolder, OneWorker
     DEF ConstantsAssumption, ClientsCoordinate, Inv, TypeOK, CurInv,
         Opening, Constructing, Destructing, Finishing, CoordInv,
         OneCallInv, InCall, Queries, Waiting, Critical, Unlocked, NameInv,
         Working, HeldIsListed, Named, lockVars, Goto, KeepLock, Free,
         CloseUnload
<1>23. ASSUME NEW p \in Procs, CloseReopened(p) PROVE NameInv'
  BY <1>23, ConstantsAssumption
     DEF ConstantsAssumption, ClientsCoordinate, Inv, TypeOK, CurInv,
         Opening, Constructing, Destructing, Finishing, CoordInv,
         OneCallInv, InCall, Queries, Waiting, Critical, Unlocked, NameInv,
         Working, HeldIsListed, Named, lockVars, Goto, KeepLock,
         CloseReopened
<1>24. ASSUME NEW p \in Procs, CloseDangling(p) PROVE NameInv'
  BY <1>24, ConstantsAssumption
     DEF ConstantsAssumption, ClientsCoordinate, Inv, TypeOK, CurInv,
         Opening, Constructing, Destructing, Finishing, CoordInv,
         OneCallInv, InCall, Queries, Waiting, Critical, Unlocked, NameInv,
         Working, HeldIsListed, Named, lockVars, objVars, CloseDangling
<1>25. ASSUME NEW p \in Procs, Query(p) PROVE NameInv'
  BY <1>25, ConstantsAssumption
     DEF ConstantsAssumption, ClientsCoordinate, Inv, TypeOK, CurInv,
         Opening, Constructing, Destructing, Finishing, CoordInv,
         OneCallInv, InCall, Queries, Waiting, Critical, Unlocked, NameInv,
         Working, HeldIsListed, Named, objVars, Goto, Unlock, Query
<1>26. ASSUME NEW p \in Procs, InfoNull(p) PROVE NameInv'
  BY <1>26, ConstantsAssumption
     DEF ConstantsAssumption, ClientsCoordinate, Inv, TypeOK, CurInv,
         Opening, Constructing, Destructing, Finishing, CoordInv,
         OneCallInv, InCall, Queries, Waiting, Critical, Unlocked, NameInv,
         Working, HeldIsListed, Named, lockVars, objVars, Goto, KeepLock,
         InfoNull
<1>27. CASE UNCHANGED vars
  BY <1>27
     DEF ClientsCoordinate, Inv, TypeOK, CurInv, Opening, Constructing,
         Destructing, Finishing, CoordInv, OneCallInv, InCall, Queries,
         Waiting, Critical, Unlocked, NameInv, Working, HeldIsListed, Named,
         vars
<1>. QED
  BY <1>1, <1>2, <1>3, <1>4, <1>5, <1>6, <1>7, <1>8, <1>9, <1>10, <1>11,
     <1>12, <1>13, <1>14, <1>15, <1>16, <1>17, <1>18, <1>19, <1>20, <1>21,
     <1>22, <1>23, <1>24, <1>25, <1>26, <1>27
     DEF Next, Call, Step, Undefined

\* An object is locked exactly while its constructors or destructors run, and
\* the destructors run without users.
LEMMA FlagStep ==
  ASSUME ClientsCoordinate, Inv, CoordInv, [Next]_vars
  PROVE  FlagInv' /\ FlagSetInv' /\ UnusedInv'
<1>1. ASSUME NEW p \in Procs, NEW n \in Names \union {NoName}, OpenCall(p, n) PROVE FlagInv' /\ FlagSetInv' /\ UnusedInv'
  BY <1>1, ConstantsAssumption
     DEF ConstantsAssumption, ClientsCoordinate, Inv, TypeOK, CurInv,
         Opening, Constructing, Destructing, Finishing, CoordInv,
         OneCallInv, InCall, Queries, Waiting, Critical, Unlocked, NameInv,
         Working, HeldIsListed, Named, FlagInv, FlagSetInv, UnusedInv,
         lockVars, objVars, Goto, MayCall, InCallFor, OpenCall
<1>2. ASSUME NEW p \in Procs, CloseCall(p) PROVE FlagInv' /\ FlagSetInv' /\ UnusedInv'
  BY <1>2, ConstantsAssumption
     DEF ConstantsAssumption, ClientsCoordinate, Inv, TypeOK, CurInv,
         Opening, Constructing, Destructing, Finishing, CoordInv,
         OneCallInv, InCall, Queries, Waiting, Critical, Unlocked, NameInv,
         Working, HeldIsListed, Named, FlagInv, FlagSetInv, UnusedInv,
         lockVars, objVars, Goto, MayCall, InCallFor, CloseCall
<1>3. ASSUME NEW p \in Procs, SymCall(p) PROVE FlagInv' /\ FlagSetInv' /\ UnusedInv'
  BY <1>3, ConstantsAssumption
     DEF ConstantsAssumption, ClientsCoordinate, Inv, TypeOK, CurInv,
         Opening, Constructing, Destructing, Finishing, CoordInv,
         OneCallInv, InCall, Queries, Waiting, Critical, Unlocked, NameInv,
         Working, HeldIsListed, Named, FlagInv, FlagSetInv, UnusedInv,
         lockVars, objVars, Goto, SymCall
<1>4. ASSUME NEW p \in Procs, NEW a \in InfoArgs, InfoCall(p, a) PROVE FlagInv' /\ FlagSetInv' /\ UnusedInv'
  BY <1>4, ConstantsAssumption
     DEF ConstantsAssumption, ClientsCoordinate, Inv, TypeOK, CurInv,
         Opening, Constructing, Destructing, Finishing, CoordInv,
         OneCallInv, InCall, Queries, Waiting, Critical, Unlocked, NameInv,
         Working, HeldIsListed, Named, FlagInv, FlagSetInv, UnusedInv,
         lockVars, objVars, Goto, InfoCall
<1>5. ASSUME NEW p \in Procs, Lock(p) PROVE FlagInv' /\ FlagSetInv' /\ UnusedInv'
  BY <1>5, ConstantsAssumption
     DEF ConstantsAssumption, ClientsCoordinate, Inv, TypeOK, CurInv,
         Opening, Constructing, Destructing, Finishing, CoordInv,
         OneCallInv, InCall, Queries, Waiting, Critical, Unlocked, NameInv,
         Working, HeldIsListed, Named, FlagInv, FlagSetInv, UnusedInv,
         AfterLock, objVars, Goto, Lock
<1>6. ASSUME NEW p \in Procs, OpenNull(p) PROVE FlagInv' /\ FlagSetInv' /\ UnusedInv'
  BY <1>6, ConstantsAssumption
     DEF ConstantsAssumption, ClientsCoordinate, Inv, TypeOK, CurInv,
         Opening, Constructing, Destructing, Finishing, CoordInv,
         OneCallInv, InCall, Queries, Waiting, Critical, Unlocked, NameInv,
         Working, HeldIsListed, Named, FlagInv, FlagSetInv, UnusedInv,
         lockVars, objVars, Goto, KeepLock, OpenNull
<1>7. ASSUME NEW p \in Procs, OpenNoFile(p) PROVE FlagInv' /\ FlagSetInv' /\ UnusedInv'
  BY <1>7, ConstantsAssumption
     DEF ConstantsAssumption, ClientsCoordinate, Inv, TypeOK, CurInv,
         Opening, Constructing, Destructing, Finishing, CoordInv,
         OneCallInv, InCall, Queries, Waiting, Critical, Unlocked, NameInv,
         Working, HeldIsListed, Named, FlagInv, FlagSetInv, UnusedInv,
         lockVars, objVars, Goto, KeepLock, OpenNoFile
<1>8. ASSUME NEW p \in Procs, NEW d \in Descs, OpenFound(p, d) PROVE FlagInv' /\ FlagSetInv' /\ UnusedInv'
  BY <1>8, ConstantsAssumption
     DEF ConstantsAssumption, ClientsCoordinate, Inv, TypeOK, CurInv,
         Opening, Constructing, Destructing, Finishing, CoordInv,
         OneCallInv, InCall, Queries, Waiting, Critical, Unlocked, NameInv,
         Working, HeldIsListed, Named, FlagInv, FlagSetInv, UnusedInv,
         lockVars, objVars, Goto, KeepLock, Matches, OpenFound
<1>9. ASSUME NEW p \in Procs, NEW d \in Descs, OpenCreate(p, d) PROVE FlagInv' /\ FlagSetInv' /\ UnusedInv'
  BY <1>9, ConstantsAssumption
     DEF ConstantsAssumption, ClientsCoordinate, Inv, TypeOK, CurInv,
         Opening, Constructing, Destructing, Finishing, CoordInv,
         OneCallInv, InCall, Queries, Waiting, Critical, Unlocked, NameInv,
         Working, HeldIsListed, Named, FlagInv, FlagSetInv, UnusedInv,
         lockVars, Goto, KeepLock, Matches, OpenCreate
<1>10. ASSUME NEW p \in Procs, OpenLoaded(p) PROVE FlagInv' /\ FlagSetInv' /\ UnusedInv'
  BY <1>10, ConstantsAssumption
     DEF ConstantsAssumption, ClientsCoordinate, Inv, TypeOK, CurInv,
         Opening, Constructing, Destructing, Finishing, CoordInv,
         OneCallInv, InCall, Queries, Waiting, Critical, Unlocked, NameInv,
         Working, HeldIsListed, Named, FlagInv, FlagSetInv, UnusedInv,
         lockVars, Goto, KeepLock, OpenLoaded
<1>11. ASSUME NEW p \in Procs, OpenLoadFails(p) PROVE FlagInv' /\ FlagSetInv' /\ UnusedInv'
  BY <1>11, ConstantsAssumption
     DEF ConstantsAssumption, ClientsCoordinate, Inv, TypeOK, CurInv,
         Opening, Constructing, Destructing, Finishing, CoordInv,
         OneCallInv, InCall, Queries, Waiting, Critical, Unlocked, NameInv,
         Working, HeldIsListed, Named, FlagInv, FlagSetInv, UnusedInv,
         lockVars, Goto, KeepLock, Free, OpenLoadFails
<1>12. ASSUME NEW p \in Procs, OpenShare(p) PROVE FlagInv' /\ FlagSetInv' /\ UnusedInv'
  BY <1>12, ConstantsAssumption
     DEF ConstantsAssumption, ClientsCoordinate, Inv, TypeOK, CurInv,
         Opening, Constructing, Destructing, Finishing, CoordInv,
         OneCallInv, InCall, Queries, Waiting, Critical, Unlocked, NameInv,
         Working, HeldIsListed, Named, FlagInv, FlagSetInv, UnusedInv,
         lockVars, Goto, KeepLock, OpenShare
<1>13. ASSUME NEW p \in Procs, OpenFirst(p) PROVE FlagInv' /\ FlagSetInv' /\ UnusedInv'
  BY <1>13, ConstantsAssumption
     DEF ConstantsAssumption, ClientsCoordinate, Inv, TypeOK, CurInv,
         Opening, Constructing, Destructing, Finishing, CoordInv,
         OneCallInv, InCall, Queries, Waiting, Critical, Unlocked, NameInv,
         Working, HeldIsListed, Named, FlagInv, FlagSetInv, UnusedInv, Goto,
         Unlock, OpenFirst
<1>14. ASSUME NEW p \in Procs, CtorsReturn(p) PROVE FlagInv' /\ FlagSetInv' /\ UnusedInv'
  BY <1>14, ConstantsAssumption
     DEF ConstantsAssumption, ClientsCoordinate, Inv, TypeOK, CurInv,
         Opening, Constructing, Destructing, Finishing, CoordInv,
         OneCallInv, InCall, Queries, Waiting, Critical, Unlocked, NameInv,
         Working, HeldIsListed, Named, FlagInv, FlagSetInv, UnusedInv,
         lockVars, objVars, Goto, KeepLock, CtorsReturn
<1>15. ASSUME NEW p \in Procs, OpenClear(p) PROVE FlagInv' /\ FlagSetInv' /\ UnusedInv'
  BY <1>15, ConstantsAssumption
     DEF ConstantsAssumption, ClientsCoordinate, Inv, TypeOK, CurInv,
         Opening, Constructing, Destructing, Finishing, CoordInv,
         OneCallInv, InCall, Queries, Waiting, Critical, Unlocked, NameInv,
         Working, HeldIsListed, Named, FlagInv, FlagSetInv, UnusedInv,
         lockVars, Goto, KeepLock, OpenClear
<1>16. ASSUME NEW p \in Procs, CallDone(p) PROVE FlagInv' /\ FlagSetInv' /\ UnusedInv'
  BY <1>16, ConstantsAssumption
     DEF ConstantsAssumption, ClientsCoordinate, Inv, TypeOK, CurInv,
         Opening, Constructing, Destructing, Finishing, CoordInv,
         OneCallInv, InCall, Queries, Waiting, Critical, Unlocked, NameInv,
         Working, HeldIsListed, Named, FlagInv, FlagSetInv, UnusedInv,
         objVars, Goto, Unlock, CallDone
<1>17. ASSUME NEW p \in Procs, CloseInvalid(p) PROVE FlagInv' /\ FlagSetInv' /\ UnusedInv'
  BY <1>17, ConstantsAssumption
     DEF ConstantsAssumption, ClientsCoordinate, Inv, TypeOK, CurInv,
         Opening, Constructing, Destructing, Finishing, CoordInv,
         OneCallInv, InCall, Queries, Waiting, Critical, Unlocked, NameInv,
         Working, HeldIsListed, Named, FlagInv, FlagSetInv, UnusedInv,
         objVars, Goto, Unlock, CloseInvalid
<1>18. ASSUME NEW p \in Procs, CloseLocked(p) PROVE FlagInv' /\ FlagSetInv' /\ UnusedInv'
  BY <1>18, ConstantsAssumption
     DEF ConstantsAssumption, ClientsCoordinate, Inv, TypeOK, CurInv,
         Opening, Constructing, Destructing, Finishing, CoordInv,
         OneCallInv, InCall, Queries, Waiting, Critical, Unlocked, NameInv,
         Working, HeldIsListed, Named, FlagInv, FlagSetInv, UnusedInv,
         lockVars, objVars, Goto, KeepLock, CloseLocked
<1>19. ASSUME NEW p \in Procs, CloseShared(p) PROVE FlagInv' /\ FlagSetInv' /\ UnusedInv'
  BY <1>19, ConstantsAssumption
     DEF ConstantsAssumption, ClientsCoordinate, Inv, TypeOK, CurInv,
         Opening, Constructing, Destructing, Finishing, CoordInv,
         OneCallInv, InCall, Queries, Waiting, Critical, Unlocked, NameInv,
         Working, HeldIsListed, Named, FlagInv, FlagSetInv, UnusedInv,
         lockVars, Goto, KeepLock, CloseShared
<1>20. ASSUME NEW p \in Procs, CloseLast(p) PROVE FlagInv' /\ FlagSetInv' /\ UnusedInv'
  BY <1>20, ConstantsAssumption
     DEF ConstantsAssumption, ClientsCoordinate, Inv, TypeOK, CurInv,
         Opening, Constructing, Destructing, Finishing, CoordInv,
         OneCallInv, InCall, Queries, Waiting, Critical, Unlocked, NameInv,
         Working, HeldIsListed, Named, FlagInv, FlagSetInv, UnusedInv, Goto,
         Unlock, CloseLast
<1>21. ASSUME NEW p \in Procs, DtorsReturn(p) PROVE FlagInv' /\ FlagSetInv' /\ UnusedInv'
  BY <1>21, ConstantsAssumption
     DEF ConstantsAssumption, ClientsCoordinate, Inv, TypeOK, CurInv,
         Opening, Constructing, Destructing, Finishing, CoordInv,
         OneCallInv, InCall, Queries, Waiting, Critical, Unlocked, NameInv,
         Working, HeldIsListed, Named, FlagInv, FlagSetInv, UnusedInv,
         lockVars, objVars, Goto, KeepLock, DtorsReturn
<1>22. ASSUME NEW p \in Procs, CloseUnload(p) PROVE FlagInv' /\ FlagSetInv' /\ UnusedInv'
  BY <1>22, ConstantsAssumption
     DEF ConstantsAssumption, ClientsCoordinate, Inv, TypeOK, CurInv,
         Opening, Constructing, Destructing, Finishing, CoordInv,
         OneCallInv, InCall, Queries, Waiting, Critical, Unlocked, NameInv,
         Working, HeldIsListed, Named, FlagInv, FlagSetInv, UnusedInv,
         lockVars, Goto, KeepLock, Free, CloseUnload
<1>23. ASSUME NEW p \in Procs, CloseReopened(p) PROVE FlagInv' /\ FlagSetInv' /\ UnusedInv'
  BY <1>23, ConstantsAssumption
     DEF ConstantsAssumption, ClientsCoordinate, Inv, TypeOK, CurInv,
         Opening, Constructing, Destructing, Finishing, CoordInv,
         OneCallInv, InCall, Queries, Waiting, Critical, Unlocked, NameInv,
         Working, HeldIsListed, Named, FlagInv, FlagSetInv, UnusedInv,
         lockVars, Goto, KeepLock, CloseReopened
<1>24. ASSUME NEW p \in Procs, CloseDangling(p) PROVE FlagInv' /\ FlagSetInv' /\ UnusedInv'
  BY <1>24, ConstantsAssumption
     DEF ConstantsAssumption, ClientsCoordinate, Inv, TypeOK, CurInv,
         Opening, Constructing, Destructing, Finishing, CoordInv,
         OneCallInv, InCall, Queries, Waiting, Critical, Unlocked, NameInv,
         Working, HeldIsListed, Named, FlagInv, FlagSetInv, UnusedInv,
         lockVars, objVars, CloseDangling
<1>25. ASSUME NEW p \in Procs, Query(p) PROVE FlagInv' /\ FlagSetInv' /\ UnusedInv'
  BY <1>25, ConstantsAssumption
     DEF ConstantsAssumption, ClientsCoordinate, Inv, TypeOK, CurInv,
         Opening, Constructing, Destructing, Finishing, CoordInv,
         OneCallInv, InCall, Queries, Waiting, Critical, Unlocked, NameInv,
         Working, HeldIsListed, Named, FlagInv, FlagSetInv, UnusedInv,
         objVars, Goto, Unlock, Query
<1>26. ASSUME NEW p \in Procs, InfoNull(p) PROVE FlagInv' /\ FlagSetInv' /\ UnusedInv'
  BY <1>26, ConstantsAssumption
     DEF ConstantsAssumption, ClientsCoordinate, Inv, TypeOK, CurInv,
         Opening, Constructing, Destructing, Finishing, CoordInv,
         OneCallInv, InCall, Queries, Waiting, Critical, Unlocked, NameInv,
         Working, HeldIsListed, Named, FlagInv, FlagSetInv, UnusedInv,
         lockVars, objVars, Goto, KeepLock, InfoNull
<1>27. CASE UNCHANGED vars
  BY <1>27
     DEF ClientsCoordinate, Inv, TypeOK, CurInv, Opening, Constructing,
         Destructing, Finishing, CoordInv, OneCallInv, InCall, Queries,
         Waiting, Critical, Unlocked, NameInv, Working, HeldIsListed, Named,
         FlagInv, FlagSetInv, UnusedInv, vars
<1>. QED
  BY <1>1, <1>2, <1>3, <1>4, <1>5, <1>6, <1>7, <1>8, <1>9, <1>10, <1>11,
     <1>12, <1>13, <1>14, <1>15, <1>16, <1>17, <1>18, <1>19, <1>20, <1>21,
     <1>22, <1>23, <1>24, <1>25, <1>26, <1>27
     DEF Next, Call, Step, Undefined

\* An object that is not being loaded has its symbols.
LEMMA SymbolsStep ==
  ASSUME ClientsCoordinate, Inv, CoordInv, [Next]_vars
  PROVE  SymbolsInv'
<1>1. ASSUME NEW p \in Procs, NEW n \in Names \union {NoName}, OpenCall(p, n) PROVE SymbolsInv'
  BY <1>1, ConstantsAssumption
     DEF ConstantsAssumption, ClientsCoordinate, Inv, TypeOK, CurInv,
         Opening, Constructing, Destructing, Finishing, CoordInv,
         OneCallInv, InCall, Queries, Waiting, Critical, Unlocked, NameInv,
         Working, HeldIsListed, Named, SymbolsInv, lockVars, objVars, Goto,
         MayCall, InCallFor, OpenCall
<1>2. ASSUME NEW p \in Procs, CloseCall(p) PROVE SymbolsInv'
  BY <1>2, ConstantsAssumption
     DEF ConstantsAssumption, ClientsCoordinate, Inv, TypeOK, CurInv,
         Opening, Constructing, Destructing, Finishing, CoordInv,
         OneCallInv, InCall, Queries, Waiting, Critical, Unlocked, NameInv,
         Working, HeldIsListed, Named, SymbolsInv, lockVars, objVars, Goto,
         MayCall, InCallFor, CloseCall
<1>3. ASSUME NEW p \in Procs, SymCall(p) PROVE SymbolsInv'
  BY <1>3, ConstantsAssumption
     DEF ConstantsAssumption, ClientsCoordinate, Inv, TypeOK, CurInv,
         Opening, Constructing, Destructing, Finishing, CoordInv,
         OneCallInv, InCall, Queries, Waiting, Critical, Unlocked, NameInv,
         Working, HeldIsListed, Named, SymbolsInv, lockVars, objVars, Goto,
         SymCall
<1>4. ASSUME NEW p \in Procs, NEW a \in InfoArgs, InfoCall(p, a) PROVE SymbolsInv'
  BY <1>4, ConstantsAssumption
     DEF ConstantsAssumption, ClientsCoordinate, Inv, TypeOK, CurInv,
         Opening, Constructing, Destructing, Finishing, CoordInv,
         OneCallInv, InCall, Queries, Waiting, Critical, Unlocked, NameInv,
         Working, HeldIsListed, Named, SymbolsInv, lockVars, objVars, Goto,
         InfoCall
<1>5. ASSUME NEW p \in Procs, Lock(p) PROVE SymbolsInv'
  BY <1>5, ConstantsAssumption
     DEF ConstantsAssumption, ClientsCoordinate, Inv, TypeOK, CurInv,
         Opening, Constructing, Destructing, Finishing, CoordInv,
         OneCallInv, InCall, Queries, Waiting, Critical, Unlocked, NameInv,
         Working, HeldIsListed, Named, SymbolsInv, AfterLock, objVars, Goto,
         Lock
<1>6. ASSUME NEW p \in Procs, OpenNull(p) PROVE SymbolsInv'
  BY <1>6, ConstantsAssumption
     DEF ConstantsAssumption, ClientsCoordinate, Inv, TypeOK, CurInv,
         Opening, Constructing, Destructing, Finishing, CoordInv,
         OneCallInv, InCall, Queries, Waiting, Critical, Unlocked, NameInv,
         Working, HeldIsListed, Named, SymbolsInv, lockVars, objVars, Goto,
         KeepLock, OpenNull
<1>7. ASSUME NEW p \in Procs, OpenNoFile(p) PROVE SymbolsInv'
  BY <1>7, ConstantsAssumption
     DEF ConstantsAssumption, ClientsCoordinate, Inv, TypeOK, CurInv,
         Opening, Constructing, Destructing, Finishing, CoordInv,
         OneCallInv, InCall, Queries, Waiting, Critical, Unlocked, NameInv,
         Working, HeldIsListed, Named, SymbolsInv, lockVars, objVars, Goto,
         KeepLock, OpenNoFile
<1>8. ASSUME NEW p \in Procs, NEW d \in Descs, OpenFound(p, d) PROVE SymbolsInv'
  BY <1>8, ConstantsAssumption
     DEF ConstantsAssumption, ClientsCoordinate, Inv, TypeOK, CurInv,
         Opening, Constructing, Destructing, Finishing, CoordInv,
         OneCallInv, InCall, Queries, Waiting, Critical, Unlocked, NameInv,
         Working, HeldIsListed, Named, SymbolsInv, lockVars, objVars, Goto,
         KeepLock, Matches, OpenFound
<1>9. ASSUME NEW p \in Procs, NEW d \in Descs, OpenCreate(p, d) PROVE SymbolsInv'
  BY <1>9, ConstantsAssumption
     DEF ConstantsAssumption, ClientsCoordinate, Inv, TypeOK, CurInv,
         Opening, Constructing, Destructing, Finishing, CoordInv,
         OneCallInv, InCall, Queries, Waiting, Critical, Unlocked, NameInv,
         Working, HeldIsListed, Named, SymbolsInv, lockVars, Goto, KeepLock,
         Matches, OpenCreate
<1>10. ASSUME NEW p \in Procs, OpenLoaded(p) PROVE SymbolsInv'
  BY <1>10, ConstantsAssumption
     DEF ConstantsAssumption, ClientsCoordinate, Inv, TypeOK, CurInv,
         Opening, Constructing, Destructing, Finishing, CoordInv,
         OneCallInv, InCall, Queries, Waiting, Critical, Unlocked, NameInv,
         Working, HeldIsListed, Named, SymbolsInv, lockVars, Goto, KeepLock,
         OpenLoaded
<1>11. ASSUME NEW p \in Procs, OpenLoadFails(p) PROVE SymbolsInv'
  BY <1>11, ConstantsAssumption
     DEF ConstantsAssumption, ClientsCoordinate, Inv, TypeOK, CurInv,
         Opening, Constructing, Destructing, Finishing, CoordInv,
         OneCallInv, InCall, Queries, Waiting, Critical, Unlocked, NameInv,
         Working, HeldIsListed, Named, SymbolsInv, lockVars, Goto, KeepLock,
         Free, OpenLoadFails
<1>12. ASSUME NEW p \in Procs, OpenShare(p) PROVE SymbolsInv'
  BY <1>12, ConstantsAssumption
     DEF ConstantsAssumption, ClientsCoordinate, Inv, TypeOK, CurInv,
         Opening, Constructing, Destructing, Finishing, CoordInv,
         OneCallInv, InCall, Queries, Waiting, Critical, Unlocked, NameInv,
         Working, HeldIsListed, Named, SymbolsInv, lockVars, Goto, KeepLock,
         OpenShare
<1>13. ASSUME NEW p \in Procs, OpenFirst(p) PROVE SymbolsInv'
  BY <1>13, ConstantsAssumption
     DEF ConstantsAssumption, ClientsCoordinate, Inv, TypeOK, CurInv,
         Opening, Constructing, Destructing, Finishing, CoordInv,
         OneCallInv, InCall, Queries, Waiting, Critical, Unlocked, NameInv,
         Working, HeldIsListed, Named, SymbolsInv, Goto, Unlock, OpenFirst
<1>14. ASSUME NEW p \in Procs, CtorsReturn(p) PROVE SymbolsInv'
  BY <1>14, ConstantsAssumption
     DEF ConstantsAssumption, ClientsCoordinate, Inv, TypeOK, CurInv,
         Opening, Constructing, Destructing, Finishing, CoordInv,
         OneCallInv, InCall, Queries, Waiting, Critical, Unlocked, NameInv,
         Working, HeldIsListed, Named, SymbolsInv, lockVars, objVars, Goto,
         KeepLock, CtorsReturn
<1>15. ASSUME NEW p \in Procs, OpenClear(p) PROVE SymbolsInv'
  BY <1>15, ConstantsAssumption
     DEF ConstantsAssumption, ClientsCoordinate, Inv, TypeOK, CurInv,
         Opening, Constructing, Destructing, Finishing, CoordInv,
         OneCallInv, InCall, Queries, Waiting, Critical, Unlocked, NameInv,
         Working, HeldIsListed, Named, SymbolsInv, lockVars, Goto, KeepLock,
         OpenClear
<1>16. ASSUME NEW p \in Procs, CallDone(p) PROVE SymbolsInv'
  BY <1>16, ConstantsAssumption
     DEF ConstantsAssumption, ClientsCoordinate, Inv, TypeOK, CurInv,
         Opening, Constructing, Destructing, Finishing, CoordInv,
         OneCallInv, InCall, Queries, Waiting, Critical, Unlocked, NameInv,
         Working, HeldIsListed, Named, SymbolsInv, objVars, Goto, Unlock,
         CallDone
<1>17. ASSUME NEW p \in Procs, CloseInvalid(p) PROVE SymbolsInv'
  BY <1>17, ConstantsAssumption
     DEF ConstantsAssumption, ClientsCoordinate, Inv, TypeOK, CurInv,
         Opening, Constructing, Destructing, Finishing, CoordInv,
         OneCallInv, InCall, Queries, Waiting, Critical, Unlocked, NameInv,
         Working, HeldIsListed, Named, SymbolsInv, objVars, Goto, Unlock,
         CloseInvalid
<1>18. ASSUME NEW p \in Procs, CloseLocked(p) PROVE SymbolsInv'
  BY <1>18, ConstantsAssumption
     DEF ConstantsAssumption, ClientsCoordinate, Inv, TypeOK, CurInv,
         Opening, Constructing, Destructing, Finishing, CoordInv,
         OneCallInv, InCall, Queries, Waiting, Critical, Unlocked, NameInv,
         Working, HeldIsListed, Named, SymbolsInv, lockVars, objVars, Goto,
         KeepLock, CloseLocked
<1>19. ASSUME NEW p \in Procs, CloseShared(p) PROVE SymbolsInv'
  BY <1>19, ConstantsAssumption
     DEF ConstantsAssumption, ClientsCoordinate, Inv, TypeOK, CurInv,
         Opening, Constructing, Destructing, Finishing, CoordInv,
         OneCallInv, InCall, Queries, Waiting, Critical, Unlocked, NameInv,
         Working, HeldIsListed, Named, SymbolsInv, lockVars, Goto, KeepLock,
         CloseShared
<1>20. ASSUME NEW p \in Procs, CloseLast(p) PROVE SymbolsInv'
  BY <1>20, ConstantsAssumption
     DEF ConstantsAssumption, ClientsCoordinate, Inv, TypeOK, CurInv,
         Opening, Constructing, Destructing, Finishing, CoordInv,
         OneCallInv, InCall, Queries, Waiting, Critical, Unlocked, NameInv,
         Working, HeldIsListed, Named, SymbolsInv, Goto, Unlock, CloseLast
<1>21. ASSUME NEW p \in Procs, DtorsReturn(p) PROVE SymbolsInv'
  BY <1>21, ConstantsAssumption
     DEF ConstantsAssumption, ClientsCoordinate, Inv, TypeOK, CurInv,
         Opening, Constructing, Destructing, Finishing, CoordInv,
         OneCallInv, InCall, Queries, Waiting, Critical, Unlocked, NameInv,
         Working, HeldIsListed, Named, SymbolsInv, lockVars, objVars, Goto,
         KeepLock, DtorsReturn
<1>22. ASSUME NEW p \in Procs, CloseUnload(p) PROVE SymbolsInv'
  BY <1>22, ConstantsAssumption
     DEF ConstantsAssumption, ClientsCoordinate, Inv, TypeOK, CurInv,
         Opening, Constructing, Destructing, Finishing, CoordInv,
         OneCallInv, InCall, Queries, Waiting, Critical, Unlocked, NameInv,
         Working, HeldIsListed, Named, SymbolsInv, lockVars, Goto, KeepLock,
         Free, CloseUnload
<1>23. ASSUME NEW p \in Procs, CloseReopened(p) PROVE SymbolsInv'
  BY <1>23, ConstantsAssumption
     DEF ConstantsAssumption, ClientsCoordinate, Inv, TypeOK, CurInv,
         Opening, Constructing, Destructing, Finishing, CoordInv,
         OneCallInv, InCall, Queries, Waiting, Critical, Unlocked, NameInv,
         Working, HeldIsListed, Named, SymbolsInv, UnusedInv, lockVars,
         Goto, KeepLock, CloseReopened
<1>24. ASSUME NEW p \in Procs, CloseDangling(p) PROVE SymbolsInv'
  BY <1>24, ConstantsAssumption
     DEF ConstantsAssumption, ClientsCoordinate, Inv, TypeOK, CurInv,
         Opening, Constructing, Destructing, Finishing, CoordInv,
         OneCallInv, InCall, Queries, Waiting, Critical, Unlocked, NameInv,
         Working, HeldIsListed, Named, SymbolsInv, lockVars, objVars,
         CloseDangling
<1>25. ASSUME NEW p \in Procs, Query(p) PROVE SymbolsInv'
  BY <1>25, ConstantsAssumption
     DEF ConstantsAssumption, ClientsCoordinate, Inv, TypeOK, CurInv,
         Opening, Constructing, Destructing, Finishing, CoordInv,
         OneCallInv, InCall, Queries, Waiting, Critical, Unlocked, NameInv,
         Working, HeldIsListed, Named, SymbolsInv, objVars, Goto, Unlock,
         Query
<1>26. ASSUME NEW p \in Procs, InfoNull(p) PROVE SymbolsInv'
  BY <1>26, ConstantsAssumption
     DEF ConstantsAssumption, ClientsCoordinate, Inv, TypeOK, CurInv,
         Opening, Constructing, Destructing, Finishing, CoordInv,
         OneCallInv, InCall, Queries, Waiting, Critical, Unlocked, NameInv,
         Working, HeldIsListed, Named, SymbolsInv, lockVars, objVars, Goto,
         KeepLock, InfoNull
<1>27. CASE UNCHANGED vars
  BY <1>27
     DEF ClientsCoordinate, Inv, TypeOK, CurInv, Opening, Constructing,
         Destructing, Finishing, CoordInv, OneCallInv, InCall, Queries,
         Waiting, Critical, Unlocked, NameInv, Working, HeldIsListed, Named,
         SymbolsInv, vars
<1>. QED
  BY <1>1, <1>2, <1>3, <1>4, <1>5, <1>6, <1>7, <1>8, <1>9, <1>10, <1>11,
     <1>12, <1>13, <1>14, <1>15, <1>16, <1>17, <1>18, <1>19, <1>20, <1>21,
     <1>22, <1>23, <1>24, <1>25, <1>26, <1>27
     DEF Next, Call, Step, Undefined

\* Nothing a task has in hand is freed.
LEMMA StaleStep ==
  ASSUME ClientsCoordinate, Inv, CoordInv, [Next]_vars
  PROVE  stale' = {} /\ ~ub'
<1>1. ASSUME NEW p \in Procs, NEW n \in Names \union {NoName}, OpenCall(p, n) PROVE stale' = {} /\ ~ub'
  BY <1>1, ConstantsAssumption
     DEF ConstantsAssumption, ClientsCoordinate, Inv, TypeOK, CurInv,
         Opening, Constructing, Destructing, Finishing, CoordInv,
         OneCallInv, InCall, Queries, Waiting, Critical, Unlocked, NameInv,
         Working, HeldIsListed, Named, LockInv, lockVars, objVars, Goto,
         MayCall, InCallFor, OpenCall
<1>2. ASSUME NEW p \in Procs, CloseCall(p) PROVE stale' = {} /\ ~ub'
  BY <1>2, ConstantsAssumption
     DEF ConstantsAssumption, ClientsCoordinate, Inv, TypeOK, CurInv,
         Opening, Constructing, Destructing, Finishing, CoordInv,
         OneCallInv, InCall, Queries, Waiting, Critical, Unlocked, NameInv,
         Working, HeldIsListed, Named, LockInv, lockVars, objVars, Goto,
         MayCall, InCallFor, CloseCall
<1>3. ASSUME NEW p \in Procs, SymCall(p) PROVE stale' = {} /\ ~ub'
  BY <1>3, ConstantsAssumption
     DEF ConstantsAssumption, ClientsCoordinate, Inv, TypeOK, CurInv,
         Opening, Constructing, Destructing, Finishing, CoordInv,
         OneCallInv, InCall, Queries, Waiting, Critical, Unlocked, NameInv,
         Working, HeldIsListed, Named, LockInv, lockVars, objVars, Goto,
         SymCall
<1>4. ASSUME NEW p \in Procs, NEW a \in InfoArgs, InfoCall(p, a) PROVE stale' = {} /\ ~ub'
  BY <1>4, ConstantsAssumption
     DEF ConstantsAssumption, ClientsCoordinate, Inv, TypeOK, CurInv,
         Opening, Constructing, Destructing, Finishing, CoordInv,
         OneCallInv, InCall, Queries, Waiting, Critical, Unlocked, NameInv,
         Working, HeldIsListed, Named, LockInv, lockVars, objVars, Goto,
         InfoCall
<1>5. ASSUME NEW p \in Procs, Lock(p) PROVE stale' = {} /\ ~ub'
  BY <1>5, ConstantsAssumption
     DEF ConstantsAssumption, ClientsCoordinate, Inv, TypeOK, CurInv,
         Opening, Constructing, Destructing, Finishing, CoordInv,
         OneCallInv, InCall, Queries, Waiting, Critical, Unlocked, NameInv,
         Working, HeldIsListed, Named, LockInv, AfterLock, objVars, Goto,
         Lock
<1>6. ASSUME NEW p \in Procs, OpenNull(p) PROVE stale' = {} /\ ~ub'
  BY <1>6, ConstantsAssumption
     DEF ConstantsAssumption, ClientsCoordinate, Inv, TypeOK, CurInv,
         Opening, Constructing, Destructing, Finishing, CoordInv,
         OneCallInv, InCall, Queries, Waiting, Critical, Unlocked, NameInv,
         Working, HeldIsListed, Named, LockInv, lockVars, objVars, Goto,
         KeepLock, OpenNull
<1>7. ASSUME NEW p \in Procs, OpenNoFile(p) PROVE stale' = {} /\ ~ub'
  BY <1>7, ConstantsAssumption
     DEF ConstantsAssumption, ClientsCoordinate, Inv, TypeOK, CurInv,
         Opening, Constructing, Destructing, Finishing, CoordInv,
         OneCallInv, InCall, Queries, Waiting, Critical, Unlocked, NameInv,
         Working, HeldIsListed, Named, LockInv, lockVars, objVars, Goto,
         KeepLock, OpenNoFile
<1>8. ASSUME NEW p \in Procs, NEW d \in Descs, OpenFound(p, d) PROVE stale' = {} /\ ~ub'
  BY <1>8, ConstantsAssumption
     DEF ConstantsAssumption, ClientsCoordinate, Inv, TypeOK, CurInv,
         Opening, Constructing, Destructing, Finishing, CoordInv,
         OneCallInv, InCall, Queries, Waiting, Critical, Unlocked, NameInv,
         Working, HeldIsListed, Named, LockInv, lockVars, objVars, Goto,
         KeepLock, Matches, OpenFound
<1>9. ASSUME NEW p \in Procs, NEW d \in Descs, OpenCreate(p, d) PROVE stale' = {} /\ ~ub'
  BY <1>9, ConstantsAssumption
     DEF ConstantsAssumption, ClientsCoordinate, Inv, TypeOK, CurInv,
         Opening, Constructing, Destructing, Finishing, CoordInv,
         OneCallInv, InCall, Queries, Waiting, Critical, Unlocked, NameInv,
         Working, HeldIsListed, Named, LockInv, lockVars, Goto, KeepLock,
         Matches, OpenCreate
<1>10. ASSUME NEW p \in Procs, OpenLoaded(p) PROVE stale' = {} /\ ~ub'
  BY <1>10, ConstantsAssumption
     DEF ConstantsAssumption, ClientsCoordinate, Inv, TypeOK, CurInv,
         Opening, Constructing, Destructing, Finishing, CoordInv,
         OneCallInv, InCall, Queries, Waiting, Critical, Unlocked, NameInv,
         Working, HeldIsListed, Named, LockInv, lockVars, Goto, KeepLock,
         OpenLoaded
<1>11. ASSUME NEW p \in Procs, OpenLoadFails(p) PROVE stale' = {} /\ ~ub'
  BY <1>11, ConstantsAssumption
     DEF ConstantsAssumption, ClientsCoordinate, Inv, TypeOK, CurInv,
         Opening, Constructing, Destructing, Finishing, CoordInv,
         OneCallInv, InCall, Queries, Waiting, Critical, Unlocked, NameInv,
         Working, HeldIsListed, Named, LockInv, lockVars, Goto, KeepLock,
         Free, OpenLoadFails
<1>12. ASSUME NEW p \in Procs, OpenShare(p) PROVE stale' = {} /\ ~ub'
  BY <1>12, ConstantsAssumption
     DEF ConstantsAssumption, ClientsCoordinate, Inv, TypeOK, CurInv,
         Opening, Constructing, Destructing, Finishing, CoordInv,
         OneCallInv, InCall, Queries, Waiting, Critical, Unlocked, NameInv,
         Working, HeldIsListed, Named, LockInv, lockVars, Goto, KeepLock,
         OpenShare
<1>13. ASSUME NEW p \in Procs, OpenFirst(p) PROVE stale' = {} /\ ~ub'
  BY <1>13, ConstantsAssumption
     DEF ConstantsAssumption, ClientsCoordinate, Inv, TypeOK, CurInv,
         Opening, Constructing, Destructing, Finishing, CoordInv,
         OneCallInv, InCall, Queries, Waiting, Critical, Unlocked, NameInv,
         Working, HeldIsListed, Named, LockInv, Goto, Unlock, OpenFirst
<1>14. ASSUME NEW p \in Procs, CtorsReturn(p) PROVE stale' = {} /\ ~ub'
  BY <1>14, ConstantsAssumption
     DEF ConstantsAssumption, ClientsCoordinate, Inv, TypeOK, CurInv,
         Opening, Constructing, Destructing, Finishing, CoordInv,
         OneCallInv, InCall, Queries, Waiting, Critical, Unlocked, NameInv,
         Working, HeldIsListed, Named, LockInv, lockVars, objVars, Goto,
         KeepLock, CtorsReturn
<1>15. ASSUME NEW p \in Procs, OpenClear(p) PROVE stale' = {} /\ ~ub'
  BY <1>15, ConstantsAssumption
     DEF ConstantsAssumption, ClientsCoordinate, Inv, TypeOK, CurInv,
         Opening, Constructing, Destructing, Finishing, CoordInv,
         OneCallInv, InCall, Queries, Waiting, Critical, Unlocked, NameInv,
         Working, HeldIsListed, Named, LockInv, lockVars, Goto, KeepLock,
         OpenClear
<1>16. ASSUME NEW p \in Procs, CallDone(p) PROVE stale' = {} /\ ~ub'
  BY <1>16, ConstantsAssumption
     DEF ConstantsAssumption, ClientsCoordinate, Inv, TypeOK, CurInv,
         Opening, Constructing, Destructing, Finishing, CoordInv,
         OneCallInv, InCall, Queries, Waiting, Critical, Unlocked, NameInv,
         Working, HeldIsListed, Named, LockInv, objVars, Goto, Unlock,
         CallDone
<1>17. ASSUME NEW p \in Procs, CloseInvalid(p) PROVE stale' = {} /\ ~ub'
  BY <1>17, ConstantsAssumption
     DEF ConstantsAssumption, ClientsCoordinate, Inv, TypeOK, CurInv,
         Opening, Constructing, Destructing, Finishing, CoordInv,
         OneCallInv, InCall, Queries, Waiting, Critical, Unlocked, NameInv,
         Working, HeldIsListed, Named, LockInv, objVars, Goto, Unlock,
         CloseInvalid
<1>18. ASSUME NEW p \in Procs, CloseLocked(p) PROVE stale' = {} /\ ~ub'
  BY <1>18, ConstantsAssumption
     DEF ConstantsAssumption, ClientsCoordinate, Inv, TypeOK, CurInv,
         Opening, Constructing, Destructing, Finishing, CoordInv,
         OneCallInv, InCall, Queries, Waiting, Critical, Unlocked, NameInv,
         Working, HeldIsListed, Named, LockInv, lockVars, objVars, Goto,
         KeepLock, CloseLocked
<1>19. ASSUME NEW p \in Procs, CloseShared(p) PROVE stale' = {} /\ ~ub'
  BY <1>19, ConstantsAssumption
     DEF ConstantsAssumption, ClientsCoordinate, Inv, TypeOK, CurInv,
         Opening, Constructing, Destructing, Finishing, CoordInv,
         OneCallInv, InCall, Queries, Waiting, Critical, Unlocked, NameInv,
         Working, HeldIsListed, Named, LockInv, lockVars, Goto, KeepLock,
         CloseShared
<1>20. ASSUME NEW p \in Procs, CloseLast(p) PROVE stale' = {} /\ ~ub'
  BY <1>20, ConstantsAssumption
     DEF ConstantsAssumption, ClientsCoordinate, Inv, TypeOK, CurInv,
         Opening, Constructing, Destructing, Finishing, CoordInv,
         OneCallInv, InCall, Queries, Waiting, Critical, Unlocked, NameInv,
         Working, HeldIsListed, Named, LockInv, Goto, Unlock, CloseLast
<1>21. ASSUME NEW p \in Procs, DtorsReturn(p) PROVE stale' = {} /\ ~ub'
  BY <1>21, ConstantsAssumption
     DEF ConstantsAssumption, ClientsCoordinate, Inv, TypeOK, CurInv,
         Opening, Constructing, Destructing, Finishing, CoordInv,
         OneCallInv, InCall, Queries, Waiting, Critical, Unlocked, NameInv,
         Working, HeldIsListed, Named, LockInv, lockVars, objVars, Goto,
         KeepLock, DtorsReturn
<1>22. ASSUME NEW p \in Procs, CloseUnload(p) PROVE stale' = {} /\ ~ub'
  BY <1>22, ConstantsAssumption
     DEF ConstantsAssumption, ClientsCoordinate, Inv, TypeOK, CurInv,
         Opening, Constructing, Destructing, Finishing, CoordInv,
         OneCallInv, InCall, Queries, Waiting, Critical, Unlocked, NameInv,
         Working, HeldIsListed, Named, LockInv, lockVars, Goto, KeepLock,
         Free, CloseUnload
<1>23. ASSUME NEW p \in Procs, CloseReopened(p) PROVE stale' = {} /\ ~ub'
  BY <1>23, ConstantsAssumption
     DEF ConstantsAssumption, ClientsCoordinate, Inv, TypeOK, CurInv,
         Opening, Constructing, Destructing, Finishing, CoordInv,
         OneCallInv, InCall, Queries, Waiting, Critical, Unlocked, NameInv,
         Working, HeldIsListed, Named, LockInv, lockVars, Goto, KeepLock,
         CloseReopened
<1>24. ASSUME NEW p \in Procs, CloseDangling(p) PROVE stale' = {} /\ ~ub'
  BY <1>24, ConstantsAssumption
     DEF ConstantsAssumption, ClientsCoordinate, Inv, TypeOK, CurInv,
         Opening, Constructing, Destructing, Finishing, CoordInv,
         OneCallInv, InCall, Queries, Waiting, Critical, Unlocked, NameInv,
         Working, HeldIsListed, Named, LockInv, lockVars, objVars,
         CloseDangling
<1>25. ASSUME NEW p \in Procs, Query(p) PROVE stale' = {} /\ ~ub'
  BY <1>25, ConstantsAssumption
     DEF ConstantsAssumption, ClientsCoordinate, Inv, TypeOK, CurInv,
         Opening, Constructing, Destructing, Finishing, CoordInv,
         OneCallInv, InCall, Queries, Waiting, Critical, Unlocked, NameInv,
         Working, HeldIsListed, Named, LockInv, objVars, Goto, Unlock, Query
<1>26. ASSUME NEW p \in Procs, InfoNull(p) PROVE stale' = {} /\ ~ub'
  BY <1>26, ConstantsAssumption
     DEF ConstantsAssumption, ClientsCoordinate, Inv, TypeOK, CurInv,
         Opening, Constructing, Destructing, Finishing, CoordInv,
         OneCallInv, InCall, Queries, Waiting, Critical, Unlocked, NameInv,
         Working, HeldIsListed, Named, LockInv, lockVars, objVars, Goto,
         KeepLock, InfoNull
<1>27. CASE UNCHANGED vars
  BY <1>27
     DEF ClientsCoordinate, Inv, TypeOK, CurInv, Opening, Constructing,
         Destructing, Finishing, CoordInv, OneCallInv, InCall, Queries,
         Waiting, Critical, Unlocked, NameInv, Working, HeldIsListed, Named,
         LockInv, vars
<1>. QED
  BY <1>1, <1>2, <1>3, <1>4, <1>5, <1>6, <1>7, <1>8, <1>9, <1>10, <1>11,
     <1>12, <1>13, <1>14, <1>15, <1>16, <1>17, <1>18, <1>19, <1>20, <1>21,
     <1>22, <1>23, <1>24, <1>25, <1>26, <1>27
     DEF Next, Call, Step, Undefined

LEMMA CoordInit == Init => CoordInv
BY ConstantsAssumption
   DEF ConstantsAssumption, Init, CoordInv, LoadedOnce, OneCallInv, InCall, Queries,
       NameInv, Named, AllNames, Working, FlagInv, FlagSetInv, UnusedInv, SymbolsInv,
       Opening, Constructing, Destructing

LEMMA CoordStep ==
  ASSUME ClientsCoordinate, Inv, CoordInv, [Next]_vars, LoadedOnce'
  PROVE  CoordInv'
BY OneCallStep, NameStep, FlagStep, SymbolsStep, StaleStep DEF CoordInv

\* While clients coordinate, CoordInv holds beside Inv.
THEOREM CoordinatedInvariance ==
  ASSUME ClientsCoordinate PROVE Spec => [](Inv /\ CoordInv)
<1>1. Spec => []LoadedOnce
  <2>1. Named /\ OneObjectPerName => LoadedOnce
    BY ClientsCoordinate DEF ClientsCoordinate, Named, OneObjectPerName, LoadedOnce
  <2>. QED
    BY <2>1, NamesAreUnique, AlwaysNamed, PTL
<1>2. Inv /\ CoordInv /\ [Next]_vars /\ LoadedOnce' => CoordInv'
  BY ClientsCoordinate, CoordStep
<1>. QED
  BY <1>1, <1>2, CoordInit, Invariance, PTL DEF Spec

-----------------------------------------------------------------------------
(* What the clients get. *)

\* No task uses memory of an object that another one freed.
THEOREM MemorySafety == ASSUME ClientsCoordinate PROVE Spec => []NoUseAfterFree
<1>1. CoordInv => NoUseAfterFree
  BY DEF CoordInv, NoUseAfterFree
<1>. QED
  BY <1>1, CoordinatedInvariance, ClientsCoordinate, PTL

\* Under coordinated clients no object is freed while another task has it in hand, which
\* is what rtl.c promises of all clients.
THEOREM LockedStays == ASSUME ClientsCoordinate PROVE Spec => []LockedIsNotUnloaded
<1>1. CoordInv => LockedIsNotUnloaded
  BY DEF CoordInv, LockedIsNotUnloaded
<1>. QED
  BY <1>1, CoordinatedInvariance, ClientsCoordinate, PTL

\* A held handle always has its symbol table: an object that is being loaded
\* has no users, and the one whose symbols are erased has none either.
THEOREM HandlesHaveSymbols == ASSUME ClientsCoordinate PROVE Spec => []HeldHasSymbols
<1>1. Inv /\ CoordInv => HeldHasSymbols
  <2>. SUFFICES ASSUME Inv, CoordInv, NEW p \in Procs, ref[p] # NoDesc
                PROVE  ref[p] \in syms
    BY DEF HeldHasSymbols
  <2>1. ref[p] \in chain /\ users[ref[p]] # 0
    BY CountFacts DEF Inv
  <2>. QED
    BY <2>1 DEF Inv, CurInv, CoordInv, SymbolsInv
<1>. QED
  BY <1>1, CoordinatedInvariance, ClientsCoordinate, PTL

\* The task that has a held object locked would be in a call for its name.
LEMMA HeldIsUnlocked == Inv /\ CoordInv => CloseAccepted
<1>. SUFFICES ASSUME Inv, CoordInv,
                     NEW p \in Procs, pc[p] = "close_check", ref[p] # NoDesc
              PROVE  ref[p] \in chain \ locked
  BY DEF CloseAccepted
<1>1. ref[p] \in chain
  BY DEF Inv, HeldIsListed
<1>2. ASSUME ref[p] \in locked PROVE FALSE
  <2>1. PICK q \in Procs : pc[q] \in Constructing \union Destructing /\ cur[q] = ref[p]
    BY <1>2 DEF CoordInv, FlagInv
  <2>2. InCall(p) /\ InCall(q) /\ arg[p] = arg[q]
    BY <2>1 DEF CoordInv, NameInv, InCall, Queries, Working, Constructing, Destructing
  <2>. QED
    BY <2>1, <2>2 DEF CoordInv, OneCallInv, Constructing, Destructing
<1>. QED
  BY <1>1, <1>2

\* dlclose of a held handle is never refused.
THEOREM CloseNeverRefused == ASSUME ClientsCoordinate PROVE Spec => []CloseAccepted
BY HeldIsUnlocked, CoordinatedInvariance, ClientsCoordinate, PTL

-----------------------------------------------------------------------------
(* The refinement.  A name that is in use has one object; the life of the  *)
(* module can be read off that object.                                     *)

Stage(d) ==
  CASE users[d] = 0 /\ d \notin locked -> "absent"
    [] users[d] = 0 /\ d \in locked    -> "destructing"
    [] users[d] > 0 /\ d \in locked    -> "constructing"
    [] OTHER                           -> "ready"

LEMMA PhaseIs ==
  ASSUME LoadedOnce, NEW n, NEW d \in chain, oname[d] = n
  PROVE  Phase(n) = Stage(d)
<1>1. Listed(n) = {d}
  BY DEF LoadedOnce, Listed
<1>2. (CHOOSE e \in Listed(n) : TRUE) = d
  BY <1>1
<1>. QED
  BY <1>1, <1>2 DEF Phase, Stage

LEMMA PhaseBecomes ==
  ASSUME LoadedOnce', NEW n, NEW d \in chain', oname'[d] = n
  PROVE  Phase(n)' = Stage(d)'
<1>1. Listed(n)' = {d}
  BY DEF LoadedOnce, Listed
<1>2. (CHOOSE e \in Listed(n)' : TRUE) = d
  BY <1>1
<1>. QED
  BY <1>1, <1>2 DEF Phase, Stage

LEMMA PhaseAbsent ==
  ASSUME NEW n, \A d \in chain : oname[d] # n
  PROVE  Phase(n) = "absent"
BY DEF Phase, Listed

\* What the other objects look like to a step that concerns d only.
Elsewhere(d) ==
  \A e \in Descs \ {d} :
    /\ (e \in chain') = (e \in chain) /\ (e \in locked') = (e \in locked)
    /\ oname'[e] = oname[e] /\ users'[e] = users[e]

\* A step that concerns one object changes the phase of no other module.
LEMMA PhaseKept ==
  ASSUME Inv, Inv', LoadedOnce, LoadedOnce',
         NEW n \in Names, NEW d \in Descs,
         Elsewhere(d),
         d \in chain => oname[d] # n,
         d \in chain' => oname'[d] # n
  PROVE  Phase(n)' = Phase(n)
<1>1. chain \subseteq Descs /\ chain' \subseteq Descs
  BY DEF Inv, TypeOK
<1>2. Listed(n)' = Listed(n)
  BY <1>1 DEF Elsewhere, Listed
<1>3. CASE Listed(n) = {}
  BY <1>2, <1>3 DEF Phase
<1>4. ASSUME NEW e \in Listed(n) PROVE Phase(n)' = Phase(n)
  <2>1. e \in chain /\ e \in chain' /\ oname[e] = n /\ oname'[e] = n /\ e \in Descs \ {d}
    BY <1>1, <1>2, <1>4 DEF Elsewhere, Listed
  <2>2. Stage(e)' = Stage(e)
    BY <2>1 DEF Elsewhere, Stage
  <2>3. Phase(n) = Stage(e)
    BY <2>1, PhaseIs
  <2>4. Phase(n)' = Stage(e)'
    BY <2>1, PhaseBecomes
  <2>. QED
    BY <2>2, <2>3, <2>4
<1>. QED
  BY <1>3, <1>4

\* An object somebody is opening is not locked.
LEMMA OpeningUnlocked ==
  ASSUME Inv, CoordInv, NEW p \in Procs, pc[p] \in Opening
  PROVE  /\ cur[p] \in chain \ locked
         /\ arg[p] \in Names /\ oname[cur[p]] = arg[p] /\ ref[p] = NoDesc
<1>1. cur[p] \in chain /\ arg[p] \in Names /\ oname[cur[p]] = arg[p] /\ ref[p] = NoDesc
  BY DEF Inv, CurInv, CoordInv, NameInv, Working
<1>2. ASSUME cur[p] \in locked PROVE FALSE
  <2>1. PICK q \in Procs : pc[q] \in Constructing \union Destructing /\ cur[q] = cur[p]
    BY <1>2 DEF CoordInv, FlagInv
  <2>. QED
    BY <2>1, OneWorker DEF Working, Opening, Constructing, Destructing
<1>. QED
  BY <1>1, <1>2

\* Steps that give no handle, take none and change no phase.
LEMMA StutterStep ==
  ASSUME Inv, CoordInv, Inv', CoordInv', NEW p \in Procs,
         \/ Quiet(p) \/ \E d \in Descs : OpenCreate(p, d)
         \/ OpenLoaded(p) \/ OpenLoadFails(p)
  PROVE  UNCHANGED Registry!vars
<1>1. \A q \in Procs : Handle(q)' = Handle(q)
  <2>1. CASE Quiet(p)
    <3>. USE DEF Inv, TypeOK, Waiting, Critical, Unlocked, Goto
    <3>1. ASSUME NEW n \in Names \union {NoName}, OpenCall(p, n) PROVE \A q \in Procs : Handle(q)' = Handle(q)
      BY <3>1 DEF OpenCall, objVars, Handle
    <3>2. CASE CloseCall(p) \/ SymCall(p) \/ \E a \in InfoArgs : InfoCall(p, a)
      BY <3>2 DEF CloseCall, SymCall, InfoCall, objVars, Handle
    <3>3. CASE Lock(p)
      BY <3>3 DEF Lock, AfterLock, objVars, Handle
    <3>4. CASE OpenNull(p) \/ OpenNoFile(p) \/ \E d \in Descs : OpenFound(p, d)
      BY <3>4 DEF OpenNull, OpenNoFile, OpenFound, objVars, Handle
    <3>5. CASE CtorsReturn(p) \/ CallDone(p) \/ DtorsReturn(p)
      BY <3>5 DEF CtorsReturn, CallDone, DtorsReturn, objVars, Handle
    <3>6. CASE CloseInvalid(p) \/ CloseLocked(p) \/ CloseDangling(p) \/ Query(p) \/ InfoNull(p)
      BY <3>6 DEF CloseInvalid, CloseLocked, CloseDangling, Query, InfoNull, objVars, Handle
    <3>. QED
      BY <2>1, <3>1, <3>2, <3>3, <3>4, <3>5, <3>6 DEF Quiet
  <2>2. ASSUME NEW d \in Descs, OpenCreate(p, d) PROVE \A q \in Procs : Handle(q)' = Handle(q)
    BY <2>2 DEF Inv, TypeOK, HeldIsListed, OpenCreate, Goto, Handle
  <2>3. CASE OpenLoaded(p)
    BY <2>3 DEF Inv, TypeOK, OpenLoaded, Goto, Handle
  <2>4. CASE OpenLoadFails(p)
    <3>1. cur[p] \in Descs /\ users[cur[p]] = 0 /\ \A q \in Procs : ref[q] # cur[p]
      BY <2>4, UnusedHasNoHolder DEF Inv, TypeOK, CurInv, Opening, OpenLoadFails
    <3>. QED
      BY <2>4, <3>1 DEF Inv, TypeOK, OpenLoadFails, Free, Goto, Handle
  <2>. QED
    BY <2>1, <2>2, <2>3, <2>4
<1>2. \A n \in Names : Phase(n)' = Phase(n)
  <2>1. CASE Quiet(p)
    <3>1. UNCHANGED <<chain, oname, users, locked>>
      BY <2>1, QuietLeaves
    <3>. QED
      BY <3>1 DEF Phase, Listed
  <2>2. ASSUME NEW d \in Descs, OpenCreate(p, d), NEW n \in Names PROVE Phase(n)' = Phase(n)
    <3>1. /\ d \notin chain /\ d \in chain' /\ oname'[d] = arg[p] /\ users'[d] = 0
          /\ d \notin locked'
          /\ Elsewhere(d)
      BY <2>2 DEF Inv, TypeOK, OpenCreate, Elsewhere
    <3>2. CASE n # arg[p]
      BY <3>1, <3>2, PhaseKept DEF CoordInv
    <3>3. CASE n = arg[p]
      <4>1. \A e \in chain : oname[e] # n
        <5>1. ASSUME NEW e \in chain, oname[e] = n PROVE FALSE
          BY <3>1, <3>3, <5>1 DEF CoordInv, LoadedOnce, Elsewhere, Inv, TypeOK
        <5>. QED
          BY <5>1
      <4>2. Phase(n) = "absent"
        BY <4>1, PhaseAbsent
      <4>3. Phase(n)' = Stage(d)'
        BY <3>1, <3>3, PhaseBecomes DEF CoordInv
      <4>. QED
        BY <3>1, <4>2, <4>3 DEF Stage
    <3>. QED
      BY <3>2, <3>3
  <2>3. CASE OpenLoaded(p)
    BY <2>3 DEF OpenLoaded, Phase, Listed
  <2>4. ASSUME OpenLoadFails(p), NEW n \in Names PROVE Phase(n)' = Phase(n)
    <3>1. PICK d \in chain \ locked :
          /\ d = cur[p] /\ d \in Descs /\ users[d] = 0 /\ oname[d] = arg[p]
          /\ LoadedOnce
      BY <2>4, OpeningUnlocked DEF Inv, TypeOK, CurInv, CoordInv, Opening, OpenLoadFails
    <3>2. d \notin chain' /\ Elsewhere(d)
      BY <2>4, <3>1 DEF Inv, TypeOK, OpenLoadFails, Free, Elsewhere
    <3>3. CASE n # oname[d]
      BY <3>1, <3>2, <3>3, PhaseKept DEF CoordInv
    <3>4. CASE n = oname[d]
      <4>1. Phase(n) = "absent"
        BY <3>1, <3>4, PhaseIs DEF Stage
      <4>2. Listed(n) = {d}
        BY <3>1, <3>4 DEF Listed, LoadedOnce
      <4>3. Listed(n)' = {}
        BY <3>2, <4>2 DEF Listed, Elsewhere, Inv, TypeOK
      <4>. QED
        BY <4>1, <4>3 DEF Phase
    <3>. QED
      BY <3>3, <3>4
  <2>. QED
    BY <2>1, <2>2, <2>3, <2>4
<1>. QED
  BY <1>1, <1>2 DEF Registry!vars

\* A step that keeps d on the list moves d's module from one stage to another.
LEMMA PhaseMoves ==
  ASSUME Inv, CoordInv, Inv', CoordInv', NEW d \in chain, d \in chain',
         oname[d] \in Names, oname'[d] = oname[d], Elsewhere(d)
  PROVE  [n \in Names |-> Phase(n)]'
           = [[n \in Names |-> Phase(n)] EXCEPT ![oname[d]] = Stage(d)']
<1>1. ASSUME NEW n \in Names, n = oname[d] PROVE Phase(n)' = Stage(d)'
  BY <1>1, PhaseBecomes DEF CoordInv
<1>2. \A n \in Names \ {oname[d]} : Phase(n)' = Phase(n)
  BY PhaseKept DEF CoordInv, Inv, TypeOK
<1>3. \A n \in Names : Phase(n)' = IF n = oname[d] THEN Stage(d)' ELSE Phase(n)
  BY <1>1, <1>2
<1>4. ASSUME NEW f, f = [n \in Names |-> Phase(n)],
             NEW g, g = [n \in Names |-> Phase(n)']
      PROVE  g = [f EXCEPT ![oname[d]] = Stage(d)']
  BY <1>3, <1>4
<1>. QED
  BY <1>4

\* A task that closes a handle: the registry sees the module of the handle.
LEMMA ClosingHandle ==
  ASSUME Inv, CoordInv, NEW p \in Procs, pc[p] = "close_check", ref[p] # NoDesc
  PROVE  /\ ref[p] \in chain \ locked /\ ref[p] \in Descs
         /\ oname[ref[p]] = arg[p] /\ arg[p] \in Names
         /\ Handle(p) = arg[p]
         /\ \A q \in Procs : Handle(q) = arg[p] <=> q \in Holders(ref[p])
<1>1. /\ ref[p] \in chain \ locked /\ ref[p] \in Descs
      /\ oname[ref[p]] = arg[p] /\ arg[p] \in Names
  BY HeldIsUnlocked DEF Inv, TypeOK, CoordInv, NameInv, CloseAccepted
<1>2. ASSUME NEW q \in Procs, ref[q] = ref[p] PROVE Handle(q) = arg[p]
  <2>1. pc[q] \notin Constructing
    BY <1>1, <1>2 DEF Inv, CurInv, CoordInv, FlagSetInv
  <2>. QED
    BY <1>1, <1>2, <2>1 DEF Handle, Constructing
<1>3. ASSUME NEW q \in Procs, Handle(q) = arg[p] PROVE ref[q] = ref[p]
  <2>1. ref[q] # NoDesc /\ oname[ref[q]] = oname[ref[p]] /\ ref[q] \in chain
    BY <1>1, <1>3, ConstantsAssumption
       DEF ConstantsAssumption, Handle, AllNames, Inv, HeldIsListed
  <2>. QED
    BY <1>1, <2>1 DEF CoordInv, LoadedOnce
<1>. QED
  BY <1>1, <1>2, <1>3 DEF Holders

\* With coordinated clients every step of the linker is a step of the registry,
\* or none of its business.
LEMMA RegistryStep ==
  ASSUME ClientsCoordinate, Inv, CoordInv, Inv', CoordInv', [Next]_vars
  PROVE  [Registry!Next]_(Registry!vars)
<1>. USE DEF Inv, TypeOK, Goto
<1>1. ASSUME NEW p \in Procs, OpenFirst(p) PROVE Registry!Construct(arg[p])
  <2>1. PICK d \in chain \ locked :
        /\ d = cur[p] /\ d \in Descs /\ arg[p] \in Names /\ oname[d] = arg[p]
        /\ ref[p] = NoDesc /\ users[d] = 0
    BY <1>1, OpeningUnlocked DEF OpenFirst, Opening
  <2>2. /\ users' = [users EXCEPT ![d] = 1] /\ locked' = locked \union {d}
        /\ chain' = chain /\ oname' = oname
    BY <1>1, <2>1 DEF OpenFirst
  <2>3. Stage(d) = "absent" /\ Stage(d)' = "constructing" /\ Elsewhere(d)
    BY <2>1, <2>2 DEF Stage, Elsewhere
  <2>4. Phase(arg[p]) = "absent"
    BY <2>1, <2>3, PhaseIs DEF CoordInv
  <2>5. \A q \in Procs : Handle(q)' = Handle(q)
    BY <1>1, <2>1 DEF OpenFirst, Handle
  <2>. QED
    BY <2>1, <2>2, <2>3, <2>4, <2>5, PhaseMoves DEF Registry!Construct
<1>2. ASSUME NEW p \in Procs, OpenShare(p) PROVE Registry!Share(p, arg[p])
  <2>1. PICK d \in chain \ locked :
        /\ d = cur[p] /\ d \in Descs /\ arg[p] \in Names /\ oname[d] = arg[p]
        /\ ref[p] = NoDesc /\ users[d] > 0 /\ users[d] \in Nat /\ d # NoDesc
    BY <1>2, OpeningUnlocked, ConstantsAssumption
       DEF ConstantsAssumption, OpenShare, Opening
  <2>2. /\ users' = [users EXCEPT ![d] = @ + 1] /\ locked' = locked
        /\ chain' = chain /\ oname' = oname
    BY <1>2, <2>1 DEF OpenShare
  <2>3. Stage(d) = "ready" /\ Stage(d)' = "ready" /\ Elsewhere(d)
    BY <2>1, <2>2 DEF Stage, Elsewhere
  <2>4. Phase(arg[p]) = "ready"
    BY <2>1, <2>3, PhaseIs DEF CoordInv
  <2>5. \A n \in Names : Phase(n)' = Phase(n)
    BY <2>1, <2>2, <2>3, <2>4, PhaseBecomes, PhaseKept DEF CoordInv
  <2>6. Handle(p) = NoName
    BY <2>1 DEF Handle
  <2>7. \A q \in Procs : Handle(q)' = IF q = p THEN arg[p] ELSE Handle(q)
    BY <1>2, <2>1 DEF OpenShare, Handle
  <2>. QED
    BY <2>1, <2>4, <2>5, <2>6, <2>7 DEF Registry!Share
<1>3. ASSUME NEW p \in Procs, OpenClear(p) PROVE Registry!Constructed(p, arg[p])
  <2>1. PICK d \in chain :
        /\ d = cur[p] /\ d = ref[p] /\ d \in Descs /\ d # NoDesc
        /\ arg[p] \in Names /\ oname[d] = arg[p] /\ d \in locked
        /\ users[d] > 0
    BY <1>3, CountFacts
       DEF OpenClear, CurInv, Constructing, CoordInv, NameInv, Working, FlagSetInv
  <2>2. /\ users' = users /\ locked' = locked \ {d}
        /\ chain' = chain /\ oname' = oname
    BY <1>3, <2>1 DEF OpenClear
  <2>3. Stage(d) = "constructing" /\ Stage(d)' = "ready" /\ Elsewhere(d)
    BY <2>1, <2>2 DEF Stage, Elsewhere
  <2>4. Phase(arg[p]) = "constructing"
    BY <2>1, <2>3, PhaseIs DEF CoordInv
  <2>5. Handle(p) = NoName
    BY <1>3 DEF OpenClear, Handle
  <2>6. \A q \in Procs : Handle(q)' = IF q = p THEN arg[p] ELSE Handle(q)
    BY <1>3, <2>1 DEF OpenClear, Handle
  <2>. QED
    BY <2>1, <2>2, <2>3, <2>4, <2>5, <2>6, PhaseMoves DEF Registry!Constructed
<1>4. ASSUME NEW p \in Procs, CloseShared(p) PROVE Registry!Drop(p)
  <2>1. PICK d \in chain \ locked :
        /\ d = ref[p] /\ d \in Descs /\ d # NoDesc /\ oname[d] = arg[p] /\ arg[p] \in Names
        /\ users[d] > 1 /\ users[d] \in Nat /\ Handle(p) = arg[p]
        /\ \A q \in Procs : Handle(q) = arg[p] <=> q \in Holders(d)
    BY <1>4, ClosingHandle, ConstantsAssumption DEF ConstantsAssumption, CloseShared
  <2>2. \E q \in Procs \ {p} : Handle(q) = Handle(p)
    <3>1. Cardinality(Holders(d)) # 1
      BY <2>1 DEF RefCount
    <3>2. Holders(d) # {p}
      BY <3>1, FS_Singleton
    <3>. QED
      BY <2>1, <3>2 DEF Holders
  <2>3. /\ users' = [users EXCEPT ![d] = @ - 1] /\ locked' = locked
        /\ chain' = chain /\ oname' = oname
    BY <1>4, <2>1 DEF CloseShared
  <2>4. Stage(d) = "ready" /\ Stage(d)' = "ready" /\ Elsewhere(d)
    BY <2>1, <2>3 DEF Stage, Elsewhere
  <2>5. \A n \in Names : Phase(n)' = Phase(n)
    BY <2>1, <2>3, <2>4, PhaseIs, PhaseBecomes, PhaseKept DEF CoordInv
  <2>6. \A q \in Procs : Handle(q)' = IF q = p THEN NoName ELSE Handle(q)
    BY <1>4, <2>1 DEF CloseShared, Handle
  <2>7. Handle(p) # NoName
    BY <2>1, ConstantsAssumption DEF ConstantsAssumption, AllNames
  <2>. QED
    BY <2>2, <2>5, <2>6, <2>7 DEF Registry!Drop
<1>5. ASSUME NEW p \in Procs, CloseLast(p) PROVE Registry!Destruct(p)
  <2>1. PICK d \in chain \ locked :
        /\ d = ref[p] /\ d \in Descs /\ d # NoDesc /\ oname[d] = arg[p] /\ arg[p] \in Names
        /\ users[d] <= 1 /\ Handle(p) = arg[p]
        /\ \A q \in Procs : Handle(q) = arg[p] <=> q \in Holders(d)
    BY <1>5, ClosingHandle, ConstantsAssumption DEF ConstantsAssumption, CloseLast
  <2>2. users[d] = 1 /\ Holders(d) = {p}
    BY <2>1, CountFacts
  <2>3. \A q \in Procs \ {p} : Handle(q) # Handle(p)
    BY <2>1, <2>2
  <2>4. /\ users' = [users EXCEPT ![d] = 0] /\ locked' = locked \union {d}
        /\ chain' = chain /\ oname' = oname
    BY <1>5, <2>1 DEF CloseLast
  <2>5. Stage(d)' = "destructing" /\ Elsewhere(d)
    BY <2>1, <2>4 DEF Stage, Elsewhere
  <2>6. \A q \in Procs : Handle(q)' = IF q = p THEN NoName ELSE Handle(q)
    BY <1>5, <2>1 DEF CloseLast, Handle
  <2>7. Handle(p) # NoName
    BY <2>1, ConstantsAssumption DEF ConstantsAssumption, AllNames
  <2>. QED
    BY <2>1, <2>3, <2>4, <2>5, <2>6, <2>7, PhaseMoves DEF Registry!Destruct
<1>6. ASSUME NEW p \in Procs, CloseUnload(p) PROVE Registry!Removed(arg[p])
  <2>1. PICK d \in chain :
        /\ d = cur[p] /\ d \in Descs /\ arg[p] \in Names /\ oname[d] = arg[p]
        /\ d \in locked /\ users[d] = 0
    BY <1>6
       DEF CloseUnload, Destructing, CoordInv, NameInv, Working, FlagSetInv, UnusedInv
  <2>2. d \notin chain' /\ Elsewhere(d)
    BY <1>6, <2>1 DEF CloseUnload, Free, Elsewhere
  <2>3. Phase(arg[p]) = "destructing"
    BY <2>1, PhaseIs DEF CoordInv, Stage
  <2>4. \A e \in chain' : oname'[e] # arg[p]
    <3>1. ASSUME NEW e \in chain', oname'[e] = arg[p] PROVE FALSE
      BY <2>1, <2>2, <3>1 DEF CoordInv, LoadedOnce, Elsewhere
    <3>. QED
      BY <3>1
  <2>5. Phase(arg[p])' = "absent"
    BY <1>6, <2>4 DEF CloseUnload, Phase, Listed
  <2>6. \A n \in Names \ {arg[p]} : Phase(n)' = Phase(n)
    BY <2>1, <2>2, PhaseKept DEF CoordInv
  <2>7. \A q \in Procs : Handle(q)' = Handle(q)
    <3>1. \A q \in Procs : ref[q] # d
      BY <2>1, UnusedHasNoHolder
    <3>. QED
      BY <1>6, <2>1, <3>1 DEF CloseUnload, Free, Handle
  <2>. QED
    BY <1>6, <2>1, <2>3, <2>5, <2>6, <2>7 DEF Registry!Removed, CloseUnload
<1>7. ASSUME NEW p \in Procs, CloseReopened(p) PROVE FALSE
  BY <1>7 DEF CloseReopened, Destructing, CoordInv, UnusedInv
<1>8. ASSUME UNCHANGED vars PROVE UNCHANGED Registry!vars
  BY <1>8 DEF vars, Registry!vars, Handle, Phase, Listed
<1>9. ASSUME NEW p \in Procs,
             \/ Quiet(p) \/ \E d \in Descs : OpenCreate(p, d)
             \/ OpenLoaded(p) \/ OpenLoadFails(p)
      PROVE  UNCHANGED Registry!vars
  BY <1>9, StutterStep
<1>. QED
  <2>1. \A p \in Procs : pc[p] \in {"open_use", "open_clear", "close_unload"} => arg[p] \in Names
    BY DEF CoordInv, NameInv, Working, Opening, Constructing, Destructing
  <2>2. ASSUME NEW p \in Procs, Call(p) \/ Step(p) PROVE [Registry!Next]_(Registry!vars)
    <3>1. CASE OpenFirst(p) \/ OpenShare(p) \/ OpenClear(p) \/ CloseUnload(p)
      BY <1>1, <1>2, <1>3, <1>6, <2>1, <3>1
         DEF Registry!Next, OpenFirst, OpenShare, OpenClear, CloseUnload
    <3>2. CASE CloseShared(p) \/ CloseLast(p)
      BY <1>4, <1>5, <3>2 DEF Registry!Next
    <3>. QED
      BY <1>7, <1>9, <2>2, <3>1, <3>2 DEF Call, Step, Quiet
  <2>. QED
    BY <1>8, <2>2 DEF Next, Undefined

\* With coordinated clients the linker implements ModuleRegistry: constructors
\* run once before the first handle is out, destructors once after the last one
\* is closed, and no dlopen in between gets a module that is half way.  (That
\* constructors and destructors return is the fairness TLC checks.)
THEOREM Implementation ==
  ASSUME ClientsCoordinate PROVE Spec => Registry!Safety
<1>1. Inv /\ CoordInv /\ Init => Registry!Init
  <2>. SUFFICES ASSUME Inv, CoordInv, Init PROVE Registry!Init
    OBVIOUS
  <2>1. \A p \in Procs : Handle(p) = NoName
    BY DEF Init, Handle
  <2>2. ASSUME NEW n \in Names PROVE Phase(n) = "absent"
    <3>1. CASE n = BaseName
      <4>1. Base \in chain /\ oname[Base] = n /\ Stage(Base) = "absent"
        BY <3>1, ConstantsAssumption DEF ConstantsAssumption, Init, Stage
      <4>. QED
        BY <4>1, PhaseIs DEF CoordInv
    <3>2. CASE n # BaseName
      BY <3>2, PhaseAbsent, ConstantsAssumption DEF ConstantsAssumption, Init
    <3>. QED
      BY <3>1, <3>2
  <2>. QED
    BY <2>1, <2>2 DEF Registry!Init
<1>2. Inv /\ CoordInv /\ Inv' /\ CoordInv' /\ [Next]_vars => [Registry!Next]_(Registry!vars)
  BY ClientsCoordinate, RegistryStep
<1>. QED
  BY <1>1, <1>2, CoordinatedInvariance, ClientsCoordinate, PTL DEF Registry!Safety, Spec

-----------------------------------------------------------------------------
(* The start of the linker.                                                *)

Making   == {"malloc", "clear", "create", "open"}
Finish   == {"libiounlock", "path", "base", "release"}
Places   == {"idle", "obtain", "inside", "libio", "false"} \union Making \union Finish
Prefix(k) == {Order[i] : i \in 1 .. k}

StartTypeInv ==
  /\ rtl \in {"null", "raw", "live", "freed"}
  /\ id \in BOOLEAN /\ based \in {"untried", "none", "failed", "entered"}
  /\ holder \in Tasks \union {NoTask} /\ depth \in Nat
  /\ libio \in Tasks \union {NoTask} /\ stuck \in Tasks \union {NoTask}
  /\ place \in [Tasks -> Places]

\* The parts are opened in their order, one after the other.
OpenedInv == \E k \in 0 .. 7 : opened = Prefix(k)

\* The libio lock shuts out a second maker, also when a task keeps it for good.
LibioInv ==
  /\ stuck # NoTask => libio = stuck
  /\ \A t \in Tasks :
       place[t] \in Making \union {"libiounlock", "false"} => libio = t

\* How far the maker is shows in the data.
MakerInv ==
  \A t \in Tasks :
    /\ place[t] = "malloc" => rtl = "null"
    /\ place[t] = "clear"  => rtl = "raw"
    /\ place[t] = "create" => rtl = "live" /\ ~id
    /\ place[t] = "open"   => rtl = "live" /\ id /\ holder = t
    /\ place[t] = "inside" => rtl = "live" /\ holder = t

DataInv ==
  /\ rtl \in {"null", "raw"} => ~id
  /\ ~id => holder = NoTask /\ opened = {}
  /\ rtl = "freed" => opened = {}
  /\ based \in {"untried"} \union IF HasTable THEN {"entered", "failed"} ELSE {"none"}

\* The mutex is taken once, by the maker until it is through or by who is inside.
OwnerInv ==
  /\ IF holder = NoTask THEN depth = 0 ELSE depth = 1
  /\ holder # NoTask =>
       rtl = "freed" \/ place[holder] \in {"open", "inside"} \union Finish

\* What is still missing of the linker, the holder of the mutex is about to do.
MissingInv ==
  rtl = "live" /\ id =>
    /\ opened = Parts \/ (holder # NoTask /\ place[holder] = "open")
    /\ based # "untried"
         \/ (holder # NoTask /\ place[holder] \in {"open", "libiounlock", "path", "base"})

StartInv == StartTypeInv /\ OpenedInv /\ LibioInv /\ MakerInv /\ DataInv /\ OwnerInv /\ MissingInv

-----------------------------------------------------------------------------
LEMMA OrderFacts ==
  /\ Len(Order) = 7 /\ Parts = Prefix(7)
  /\ \A i, j \in 1 .. 7 : Order[i] = Order[j] => i = j
<1>1. Len(Order) = 7 /\ DOMAIN Order = 1 .. 7
  BY DEF Order
<1>2. Parts = Prefix(7)
  BY <1>1 DEF Parts, Prefix, Range
<1>3. /\ Order[1] = "globals" /\ Order[2] = "unresolved" /\ Order[3] = "symbols"
      /\ Order[4] = "strings" /\ Order[5] = "relocs" /\ Order[6] = "decomp"
      /\ Order[7] = "base"
  BY DEF Order
<1>4. \A i, j \in 1 .. 7 : Order[i] = Order[j] => i = j
  BY <1>3
<1>. QED
  BY <1>1, <1>2, <1>4

LEMMA PrefixCardinality ==
  \A k \in 0 .. 7 : IsFiniteSet(Prefix(k)) /\ Cardinality(Prefix(k)) = k
<1>1. IsFiniteSet(Prefix(0)) /\ Cardinality(Prefix(0)) = 0
  BY FS_EmptySet DEF Prefix
<1>2. ASSUME NEW k \in 0 .. 6, IsFiniteSet(Prefix(k)), Cardinality(Prefix(k)) = k
      PROVE  IsFiniteSet(Prefix(k + 1)) /\ Cardinality(Prefix(k + 1)) = k + 1
  <2>1. Prefix(k + 1) = Prefix(k) \union {Order[k + 1]}
    BY DEF Prefix
  <2>2. Order[k + 1] \notin Prefix(k)
    BY OrderFacts DEF Prefix
  <2>. QED
    BY <1>2, <2>1, <2>2, FS_AddElement
<1>. QED
  BY <1>1, <1>2

\* Opening a part goes on with the order, and a failure leaves nothing open.
LEMMA OpenStep ==
  ASSUME OpenedInv
  PROVE  /\ Closed = {} /\ {} = Prefix(0)
         /\ opened # Parts =>
              \E k \in 0 .. 7 : opened \union {NextPart} = Prefix(k)
<1>1. PICK k \in 0 .. 7 : opened = Prefix(k)
  BY DEF OpenedInv
<1>2. Cardinality(opened) = k
  BY <1>1, PrefixCardinality
<1>3. Closed = {} /\ {} = Prefix(0)
  <2>1. Closed = opened \ Prefix(k)
    BY <1>2 DEF Closed, Prefix
  <2>2. {} = Prefix(0)
    BY DEF Prefix
  <2>. QED
    BY <1>1, <2>1, <2>2
<1>4. ASSUME opened # Parts
      PROVE  opened \union {NextPart} = Prefix(k + 1) /\ k + 1 \in 0 .. 7
  <2>1. k # 7
    BY <1>1, <1>4, OrderFacts
  <2>2. NextPart = Order[k + 1]
    BY <1>2 DEF NextPart
  <2>3. Prefix(k + 1) = Prefix(k) \union {Order[k + 1]}
    BY DEF Prefix
  <2>. QED
    BY <1>1, <2>1, <2>2, <2>3
<1>. QED
  BY <1>3, <1>4

LEMMA StartInvInit == StartInit => StartInv
<1>. SUFFICES ASSUME StartInit PROVE StartInv
  OBVIOUS
<1>1. OpenedInv
  BY DEF StartInit, OpenedInv, Prefix
<1>. QED
  BY <1>1, RtlInitAssumption DEF StartInit, StartInv, StartTypeInv, LibioInv, MakerInv, DataInv,
     OwnerInv, MissingInv, RtlInitAssumption, Places, Making, Finish

LEMMA StartInvStep ==
  ASSUME StartInv, [StartNext]_startVars
  PROVE  StartInv'
<1>. USE RtlInitAssumption DEF RtlInitAssumption
<1>a. CASE UNCHANGED startVars
  BY <1>a DEF startVars, mutexVars, StartInv, StartTypeInv, OpenedInv, LibioInv, MakerInv, DataInv,
     OwnerInv, MissingInv
<1>b. ASSUME NEW t \in Tasks, StartStep(t) PROVE StartInv'
  <2>. USE DEF MovesTo, mutexVars, Making, Finish, Places, StartInv, StartTypeInv, LibioInv, MakerInv,
           DataInv, OwnerInv, MissingInv
  <2>1. CASE NoMutex(t)
    BY <2>1 DEF NoMutex, OpenedInv
  <2>2. CASE RawMutex(t)
    BY <2>2 DEF RawMutex, OpenedInv
  <2>3. CASE Enter(t)
    BY <2>3 DEF Enter, Obtain, OpenedInv
  <2>4. CASE Leave(t)
    BY <2>4 DEF Leave, Release, OpenedInv
  <2>5. CASE LibioLock(t)
    BY <2>5 DEF LibioLock, OpenedInv
  <2>6. CASE Malloc(t)
    BY <2>6 DEF Malloc, OpenedInv
  <2>7. CASE Clear(t)
    BY <2>7 DEF Clear, OpenedInv
  <2>8. CASE Create(t)
    <3>1. CASE id' = TRUE /\ Obtain(t) /\ place' = [place EXCEPT ![t] = "open"] /\ UNCHANGED rtl
      BY <2>8, <3>1 DEF Create, Obtain, OpenedInv
    <3>2. CASE rtl' = "freed" /\ place' = [place EXCEPT ![t] = "false"] /\ UNCHANGED mutexVars
      BY <2>8, <3>2 DEF Create, OpenedInv
    <3>. QED
      BY <2>8, <3>1, <3>2 DEF Create
  <2>9. CASE Open(t)
    BY <2>9, OpenStep DEF Open, OpenedInv
  <2>10. CASE OpenFails(t)
    BY <2>10, OpenStep DEF OpenFails, OpenedInv
  <2>11. CASE Fails(t)
    BY <2>11 DEF Fails, OpenedInv
  <2>12. CASE LibioUnlock(t)
    BY <2>12 DEF LibioUnlock, OpenedInv
  <2>13. CASE AppendDot(t)
    BY <2>13 DEF AppendDot, Bracket, OpenedInv
  <2>14. CASE AddBase(t)
    BY <2>14 DEF AddBase, Bracket, OpenedInv
  <2>15. CASE Started(t)
    BY <2>15 DEF Started, Release, OpenedInv
  <2>. QED
    BY <1>b, <2>1, <2>2, <2>3, <2>4, <2>5, <2>6, <2>7, <2>8, <2>9, <2>10, <2>11, <2>12, <2>13, <2>14, <2>15 DEF StartStep
<1>c. ASSUME NEW t \in Tasks, NEW o, FirstCall(t, o) PROVE StartInv'
  BY <1>c DEF FirstCall, MovesTo, mutexVars, Making, Finish, Places, StartInv, StartTypeInv, OpenedInv,
     LibioInv, MakerInv, DataInv, OwnerInv, MissingInv
<1>. QED
  BY <1>a, <1>b, <1>c DEF StartNext

LEMMA StartInvariance == StartSpec => []StartInv
BY StartInvInit, StartInvStep, PTL DEF StartSpec

\* Whoever gets the mutex finds the linker whole, nobody at work on it, and the base
\* image's symbols tried: entered, or refused by a call whose result is ignored.
THEOREM CompleteInside == StartSpec => []ReadyWhenEntered
<1>1. StartInv => ReadyWhenEntered
  BY RtlInitAssumption DEF RtlInitAssumption, StartInv, StartTypeInv, MakerInv, DataInv, MissingInv,
     ReadyWhenEntered
<1>. QED
  BY <1>1, StartInvariance, PTL

\* A step that fails leaves nothing open of what was opened before it.
THEOREM FailedIsClosed == StartSpec => []FailureCloses
<1>1. StartInv => FailureCloses
  BY DEF StartInv, DataInv, FailureCloses
<1>. QED
  BY <1>1, StartInvariance, PTL
=============================================================================
