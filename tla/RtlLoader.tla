------------------------------ MODULE RtlLoader ------------------------------
(***************************************************************************)
(* The life of an object module in the RTEMS run-time linker: dlopen,      *)
(* dlclose, dlsym and dlinfo called by several tasks.  All linker data are *)
(* protected by one recursive mutex, but the linker is unlocked while the  *)
(* constructors and destructors of a module run, and everything that can   *)
(* go wrong between two calls goes wrong there.                            *)
(*                                                                         *)
(* A task is a client of the linker and holds at most one handle.  A       *)
(* constructor or destructor that calls the linker itself is covered: it   *)
(* runs with the linker unlocked, so its calls are those of one more       *)
(* client that happens to run at that moment.                              *)
(***************************************************************************)
EXTENDS Naturals, FiniteSets

CONSTANTS
  Procs,        \* client tasks
  Names,        \* names the clients pass to dlopen
  ArgKey,       \* ArgKey[n]: the part of n rtems_rtl_match_name compares
  ObjKey,       \* ObjKey[n]: the same part of the oname that is parsed from n, which
                \* of a name 'archive:object' is the object's
  Descs,        \* addresses the heap can give to an object descriptor
  Base,         \* the descriptor of the base kernel image
  BaseName,     \* its oname, "rtems-kernel"
  NoProc, NoDesc, NoName,   \* nobody, NULL handle, NULL name
  InfoArgs,     \* what clients pass as the last argument of dlinfo
  MaxNest,      \* bound: deepest nesting of the mutex that is explored
  Coordinated   \* TRUE: clients serialise the calls that concern one module

AllNames == Names \union {BaseName}

\* The constants are finite sets of distinct values; a name has a key.
ASSUME ConstantsAssumption ==
  /\ IsFiniteSet(Procs) /\ NoProc \notin Procs
  /\ IsFiniteSet(Descs) /\ Base \in Descs /\ NoDesc \notin Descs
  /\ NoName \notin AllNames
  /\ DOMAIN ArgKey = AllNames /\ DOMAIN ObjKey = AllNames
  /\ InfoArgs \subseteq {"pointer", "null"}
  /\ MaxNest \in Nat \ {0}
  /\ Coordinated \in BOOLEAN

VARIABLES
  owner,    \* the task that owns the RTL mutex, or NoProc
  nest,     \* how often the owner has obtained it
  pc,       \* pc[p]: where task p is in its call, "idle" outside any
  arg,      \* arg[p]: the name p passed to dlopen, until its handle is closed
  cur,      \* cur[p]: the obj variable of the call p is in
  ref,      \* ref[p]: the handle whose reference p holds, or NoDesc
  chain,    \* rtl->objects: the descriptors on the list (all allocated ones)
  oname,    \* oname[d]: the name a listed object was loaded for
  users,    \* users[d]: the user count of a listed object
  locked,   \* the objects whose RTEMS_RTL_OBJ_LOCKED flag is set
  syms,     \* the objects that have their symbol table
  rstate,   \* _rtld_debug.r_state
  stale,    \* tasks whose cur was freed while they ran its destructors
  ub        \* TRUE once freed memory has been used: nothing is known after

lockVars == <<owner, nest>>
objVars  == <<chain, oname, users, locked, syms>>
vars == <<owner, nest, pc, arg, cur, ref, chain, oname, users, locked, syms,
          rstate, stale, ub>>

-----------------------------------------------------------------------------
(* Program points. *)

Waiting  == {"open_lock", "open_relock", "close_lock", "close_relock",
             "sym_lock", "info_lock", "null_lock"}
Critical == {"open_find", "open_load", "open_use", "open_clear", "open_done",
             "close_check", "close_unload", "close_done", "sym", "info", "null"}
Unlocked == {"idle", "ctors", "dtors"}

\* Where a task continues once rtems_rtl_lock has returned.
AfterLock == [open_lock |-> "open_find",   open_relock  |-> "open_clear",
              close_lock |-> "close_check", close_relock |-> "close_unload",
              sym_lock |-> "sym", info_lock |-> "info", null_lock |-> "null"]

TypeOK ==
  /\ owner \in Procs \union {NoProc}
  /\ nest \in Nat
  /\ pc \in [Procs -> Waiting \union Critical \union Unlocked]
  /\ arg \in [Procs -> AllNames \union {NoName}]
  /\ cur \in [Procs -> Descs \union {NoDesc}]
  /\ ref \in [Procs -> Descs \union {NoDesc}]
  /\ chain \subseteq Descs
  /\ oname \in [Descs -> AllNames \union {NoName}]
  /\ users \in [Descs -> Nat]
  /\ locked \subseteq Descs
  /\ syms \subseteq Descs
  /\ rstate \in {"RT_CONSISTENT", "RT_ADD", "RT_DELETE"}
  /\ stale \subseteq Procs
  /\ ub \in BOOLEAN

\* The state rtems_rtl_data_init leaves: only the base image is on the list.
Init ==
  /\ owner = NoProc /\ nest = 0
  /\ pc = [p \in Procs |-> "idle"]
  /\ arg = [p \in Procs |-> NoName]
  /\ cur = [p \in Procs |-> NoDesc]
  /\ ref = [p \in Procs |-> NoDesc]
  /\ chain = {Base}
  /\ oname = [d \in Descs |-> IF d = Base THEN BaseName ELSE NoName]
  /\ users = [d \in Descs |-> 0]
  /\ locked = {}
  /\ syms = {Base}
  /\ rstate = "RT_CONSISTENT"
  /\ stale = {}
  /\ ub = FALSE

Holders(d) == {p \in Procs : ref[p] = d}
RunningDtors(d) == {p \in Procs : /\ pc[p] \in {"dtors", "close_relock", "close_unload"}
                                  /\ cur[p] = d /\ p \notin stale}

-----------------------------------------------------------------------------
(* The RTL lock: a recursive mutex.  Nested lock/unlock pairs inside one   *)
(* critical section (rtems_rtl_set_error, rtems_rtl_obj_find_file) have no *)
(* effect and are not modelled.                                            *)

Goto(p, to) == pc' = [pc EXCEPT ![p] = to]

\* The critical section goes on.
KeepLock == UNCHANGED lockVars

Unlock ==
  /\ nest' = nest - 1
  /\ owner' = IF nest = 1 THEN NoProc ELSE owner

\* rtems_rtl_lock returns: the mutex was free, or the task owns it already.
Lock(p) ==
  /\ pc[p] \in Waiting
  /\ owner \in {NoProc, p}
  /\ owner' = p
  /\ nest' = nest + 1
  /\ Goto(p, AfterLock[pc[p]])
  /\ UNCHANGED <<arg, cur, ref, objVars, rstate, stale, ub>>

-----------------------------------------------------------------------------
(* The client side of a call, up to the wait for the lock.  A coordinated  *)
(* client starts no dlopen of a name, and no dlclose of a handle it opened *)
(* by that name, while another client is inside such a call.  The name is  *)
(* all that clients can coordinate by.                                     *)

Queries == {"sym_lock", "sym", "info_lock", "info", "null_lock", "null"}

InCallFor(q, n) == arg[q] = n /\ pc[q] \notin Queries \union {"idle"}

MayCall(n) == Coordinated /\ n # NoName => \A q \in Procs : ~InCallFor(q, n)

\* dlopen(name): name is NULL (NoName) or a module's.
OpenCall(p, n) ==
  /\ pc[p] = "idle" /\ ref[p] = NoDesc /\ MayCall(n)
  /\ Goto(p, "open_lock")
  /\ arg' = [arg EXCEPT ![p] = n]
  /\ UNCHANGED <<lockVars, cur, ref, objVars, rstate, stale, ub>>

\* dlclose(handle): the handle the client holds, NULL when it holds none.
CloseCall(p) ==
  /\ pc[p] = "idle" /\ MayCall(arg[p])
  /\ Goto(p, "close_lock")
  /\ UNCHANGED <<lockVars, arg, cur, ref, objVars, rstate, stale, ub>>

\* dlsym(handle, symbol), RTLD_DEFAULT when the client holds no handle.
SymCall(p) ==
  /\ pc[p] = "idle"
  /\ Goto(p, "sym_lock")
  /\ UNCHANGED <<lockVars, arg, cur, ref, objVars, rstate, stale, ub>>

\* dlinfo(handle, RTLD_DI_UNRESOLVED, a): a is a pointer to an int or NULL.
InfoCall(p, a) ==
  /\ pc[p] = "idle" /\ nest < MaxNest
  /\ Goto(p, IF a = "null" THEN "null_lock" ELSE "info_lock")
  /\ UNCHANGED <<lockVars, arg, cur, ref, objVars, rstate, stale, ub>>

-----------------------------------------------------------------------------
(* dlopen and rtems_rtl_load_object. *)

\* Mutants of Matches, used to test the properties below.
MatchesPrefix(n) == chain \ {Base}

MatchesUnlocked(n) == {d \in chain \ locked : ObjKey[oname[d]] = ArgKey[n]}

\* rtems_rtl_match_name for a listed object.
Matches(n) == {d \in chain : ObjKey[oname[d]] = ArgKey[n]}

\* dlopen(NULL): rtems_rtl_baseimage returns NULL.
OpenNull(p) ==
  /\ pc[p] = "open_find" /\ arg[p] = NoName
  /\ rstate' = "RT_ADD"
  /\ Goto(p, "open_done")
  /\ KeepLock /\ UNCHANGED <<arg, cur, ref, objVars, stale, ub>>

\* rtems_rtl_find_obj finds a listed object.  The order of the list is not
\* modelled: when several match, any of them may be the first.
OpenFound(p, d) ==
  /\ pc[p] = "open_find" /\ arg[p] # NoName
  /\ d \in Matches(arg[p])
  /\ rstate' = "RT_ADD"
  /\ cur' = [cur EXCEPT ![p] = d]
  /\ Goto(p, "open_use")
  /\ KeepLock /\ UNCHANGED <<arg, ref, objVars, stale, ub>>

\* No object matches and there is no memory for a descriptor, or no file: the
\* descriptor never gets on the list and dlopen returns NULL.
OpenNoFile(p) ==
  /\ pc[p] = "open_find" /\ arg[p] # NoName
  /\ Matches(arg[p]) = {}
  /\ rstate' = "RT_ADD"
  /\ Goto(p, "open_done")
  /\ KeepLock /\ UNCHANGED <<arg, cur, ref, objVars, stale, ub>>

\* A zeroed descriptor is allocated, the file found and the object appended.
OpenCreate(p, d) ==
  /\ pc[p] = "open_find" /\ arg[p] # NoName
  /\ Matches(arg[p]) = {}
  /\ d \in Descs \ chain
  /\ chain' = chain \union {d}
  /\ oname' = [oname EXCEPT ![d] = arg[p]]
  /\ users' = [users EXCEPT ![d] = 0]
  /\ locked' = locked \ {d}
  /\ rstate' = "RT_ADD"
  /\ cur' = [cur EXCEPT ![p] = d]
  /\ Goto(p, "open_load")
  /\ KeepLock /\ UNCHANGED <<arg, ref, syms, stale, ub>>

\* Mutant of OpenLoaded, used to test the properties below.
OpenLoadedBare(p) ==
  /\ pc[p] = "open_load"
  /\ Goto(p, "open_use")
  /\ KeepLock /\ UNCHANGED <<arg, cur, ref, objVars, rstate, stale, ub>>

\* rtems_rtl_obj_load succeeds: the object has its symbols.
OpenLoaded(p) ==
  /\ pc[p] = "open_load"
  /\ syms' = syms \union {cur[p]}
  /\ Goto(p, "open_use")
  /\ KeepLock
  /\ UNCHANGED <<arg, cur, ref, chain, oname, users, locked, rstate, stale, ub>>

\* Removing d from the list and giving its memory back.  Tasks still inside
\* a call for d with the linker unlocked are left with a dangling pointer.
Free(d, p) ==
  /\ chain' = chain \ {d}
  /\ oname' = [oname EXCEPT ![d] = NoName]
  /\ stale' = stale \union {q \in Procs \ {p} : cur[q] = d}

\* Mutant of OpenLoadFails, used to test the properties below.
OpenLoadFailsLeaves(p) ==
  /\ pc[p] = "open_load"
  /\ cur' = [cur EXCEPT ![p] = NoDesc]
  /\ Goto(p, "open_done")
  /\ KeepLock /\ UNCHANGED <<arg, ref, objVars, rstate, stale, ub>>

\* rtems_rtl_obj_load fails, whatever it did so far is undone.
OpenLoadFails(p) ==
  /\ pc[p] = "open_load"
  /\ Free(cur[p], p)
  /\ cur' = [cur EXCEPT ![p] = NoDesc]
  /\ syms' = syms \ {cur[p]}
  /\ Goto(p, "open_done")
  /\ KeepLock /\ UNCHANGED <<arg, ref, users, locked, rstate, ub>>

\* Mutant of OpenShare, used to test the properties below.
OpenShareUncounted(p) ==
  /\ pc[p] = "open_use" /\ users[cur[p]] # 0
  /\ ref' = [ref EXCEPT ![p] = cur[p]]
  /\ Goto(p, "open_done")
  /\ KeepLock
  /\ UNCHANGED <<arg, cur, chain, oname, users, locked, syms, rstate, stale, ub>>

\* ++obj->users, and not the first user: the handle is returned.
OpenShare(p) ==
  /\ pc[p] = "open_use" /\ users[cur[p]] # 0
  /\ users' = [users EXCEPT ![cur[p]] = @ + 1]
  /\ ref' = [ref EXCEPT ![p] = cur[p]]
  /\ Goto(p, "open_done")
  /\ KeepLock
  /\ UNCHANGED <<arg, cur, chain, oname, locked, syms, rstate, stale, ub>>

\* ++obj->users makes it 1: lock the object, unlock the linker, run the ctors.
OpenFirst(p) ==
  /\ pc[p] = "open_use" /\ users[cur[p]] = 0
  /\ users' = [users EXCEPT ![cur[p]] = 1]
  /\ ref' = [ref EXCEPT ![p] = cur[p]]
  /\ locked' = locked \union {cur[p]}
  /\ Goto(p, "ctors")
  /\ Unlock
  /\ UNCHANGED <<arg, cur, chain, oname, syms, rstate, stale, ub>>

CtorsReturn(p) ==
  /\ pc[p] = "ctors"
  /\ Goto(p, "open_relock")
  /\ KeepLock /\ UNCHANGED <<arg, cur, ref, objVars, rstate, stale, ub>>

\* Mutant of OpenClear, used to test the properties below.
OpenClearForgotten(p) ==
  /\ pc[p] = "open_clear"
  /\ Goto(p, "open_done")
  /\ KeepLock /\ UNCHANGED <<arg, cur, ref, objVars, rstate, stale, ub>>

\* Relocked after the constructors: obj->flags &= ~RTEMS_RTL_OBJ_LOCKED.
OpenClear(p) ==
  /\ pc[p] = "open_clear"
  /\ locked' = locked \ {cur[p]}
  /\ Goto(p, "open_done")
  /\ KeepLock
  /\ UNCHANGED <<arg, cur, ref, chain, oname, users, syms, rstate, stale, ub>>

\* The common end of dlopen and dlclose.
CallDone(p) ==
  /\ pc[p] \in {"open_done", "close_done"}
  /\ rstate' = "RT_CONSISTENT"
  /\ Goto(p, "idle")
  /\ arg' = [arg EXCEPT ![p] = IF ref[p] = NoDesc THEN NoName ELSE @]
  /\ cur' = [cur EXCEPT ![p] = NoDesc]
  /\ Unlock
  /\ UNCHANGED <<ref, objVars, stale, ub>>

-----------------------------------------------------------------------------
(* dlclose, rtems_rtl_unload_object and rtems_rtl_obj_unload. *)

\* Mutant of CloseInvalid, used to test the properties below.
CloseInvalidLocked(p) ==
  /\ pc[p] = "close_check" /\ ref[p] \notin chain
  /\ Goto(p, "idle")
  /\ KeepLock /\ UNCHANGED <<arg, cur, ref, objVars, rstate, stale, ub>>

\* rtems_rtl_check_handle does not find the handle: dlclose returns -1.
CloseInvalid(p) ==
  /\ pc[p] = "close_check" /\ ref[p] \notin chain
  /\ Goto(p, "idle")
  /\ Unlock
  /\ UNCHANGED <<arg, cur, ref, objVars, rstate, stale, ub>>

\* The object is locked: dlclose returns -1 and the reference is kept.
CloseLocked(p) ==
  /\ pc[p] = "close_check" /\ ref[p] \in chain /\ ref[p] \in locked
  /\ rstate' = "RT_DELETE"
  /\ Goto(p, "close_done")
  /\ KeepLock /\ UNCHANGED <<arg, cur, ref, objVars, stale, ub>>

\* --obj->users and others remain.
CloseShared(p) ==
  /\ pc[p] = "close_check" /\ ref[p] \in chain \ locked
  /\ users[ref[p]] > 1
  /\ users' = [users EXCEPT ![ref[p]] = @ - 1]
  /\ ref' = [ref EXCEPT ![p] = NoDesc]
  /\ rstate' = "RT_DELETE"
  /\ Goto(p, "close_done")
  /\ KeepLock
  /\ UNCHANGED <<arg, cur, chain, oname, locked, syms, stale, ub>>

\* Mutant of CloseLast, used to test the properties below.
CloseLastEarly(p) ==
  /\ pc[p] = "close_check" /\ ref[p] \in chain \ locked
  /\ users' = [users EXCEPT ![ref[p]] = @ - 1]
  /\ cur' = [cur EXCEPT ![p] = ref[p]]
  /\ ref' = [ref EXCEPT ![p] = NoDesc]
  /\ locked' = locked \union {ref[p]}
  /\ rstate' = "RT_DELETE"
  /\ Goto(p, "dtors")
  /\ Unlock /\ UNCHANGED <<arg, chain, oname, syms, stale, ub>>

\* The last user: lock the object, unlock the linker, run the destructors.
CloseLast(p) ==
  /\ pc[p] = "close_check" /\ ref[p] \in chain \ locked
  /\ users[ref[p]] <= 1
  /\ users' = [users EXCEPT ![ref[p]] = 0]    \* if (users > 0) --users
  /\ cur' = [cur EXCEPT ![p] = ref[p]]
  /\ ref' = [ref EXCEPT ![p] = NoDesc]
  /\ locked' = locked \union {ref[p]}
  /\ rstate' = "RT_DELETE"
  /\ Goto(p, "dtors")
  /\ Unlock
  /\ UNCHANGED <<arg, chain, oname, syms, stale, ub>>

DtorsReturn(p) ==
  /\ pc[p] = "dtors"
  /\ Goto(p, "close_relock")
  /\ KeepLock /\ UNCHANGED <<arg, cur, ref, objVars, rstate, stale, ub>>

\* Mutants of CloseUnload, used to test the properties below.
CloseUnloadUsed(p) ==        \* obj_free without its check of the users
  /\ pc[p] = "close_unload" /\ p \notin stale
  /\ locked' = locked \ {cur[p]}
  /\ syms' = syms \ {cur[p]}
  /\ Free(cur[p], p)
  /\ Goto(p, "close_done")
  /\ KeepLock /\ UNCHANGED <<arg, cur, ref, users, rstate, ub>>

CloseUnloadKeepsSymbols(p) ==
  /\ pc[p] = "close_unload" /\ p \notin stale
  /\ users[cur[p]] = 0
  /\ locked' = locked \ {cur[p]}
  /\ Free(cur[p], p)
  /\ Goto(p, "close_done")
  /\ KeepLock /\ UNCHANGED <<arg, cur, ref, users, syms, rstate, ub>>

CloseUnloadStillLocked(p) ==  \* LOCKED cleared after obj_unload, not before
  /\ pc[p] = "close_unload" /\ p \notin stale
  /\ users[cur[p]] = 0
  /\ locked' = locked \ {cur[p]}
  /\ syms' = syms \ {cur[p]}
  /\ Goto(p, "close_done")
  /\ KeepLock
  /\ UNCHANGED <<arg, cur, ref, chain, oname, users, rstate, stale, ub>>

\* Relocked: unlock the object, erase its symbols, then free it.
CloseUnload(p) ==
  /\ pc[p] = "close_unload" /\ p \notin stale
  /\ users[cur[p]] = 0
  /\ locked' = locked \ {cur[p]}
  /\ syms' = syms \ {cur[p]}
  /\ Free(cur[p], p)
  /\ Goto(p, "close_done")
  /\ KeepLock /\ UNCHANGED <<arg, cur, ref, users, rstate, ub>>

\* The same, but somebody opened the object meanwhile: its symbols are erased
\* all the same, then rtems_rtl_obj_free refuses and dlclose returns -1.
CloseReopened(p) ==
  /\ pc[p] = "close_unload" /\ p \notin stale
  /\ users[cur[p]] # 0
  /\ locked' = locked \ {cur[p]}
  /\ syms' = syms \ {cur[p]}
  /\ Goto(p, "close_done")
  /\ KeepLock /\ UNCHANGED <<arg, cur, ref, chain, oname, users, rstate, stale, ub>>

\* The descriptor was freed by somebody else: the writes go to freed memory.
CloseDangling(p) ==
  /\ pc[p] = "close_unload" /\ p \in stale
  /\ ub' = TRUE
  /\ UNCHANGED <<lockVars, pc, arg, cur, ref, objVars, rstate, stale>>

-----------------------------------------------------------------------------
(* dlsym and dlinfo. *)

\* Mutant of Query, used to test the properties below.
QueryKeepsLock(p) ==
  /\ pc[p] \in {"sym", "info"}
  /\ Goto(p, "idle")
  /\ KeepLock /\ UNCHANGED <<arg, cur, ref, objVars, rstate, stale, ub>>

\* dlsym, and dlinfo with a pointer: look up, unlock, return.
Query(p) ==
  /\ pc[p] \in {"sym", "info"}
  /\ Goto(p, "idle")
  /\ Unlock
  /\ UNCHANGED <<arg, cur, ref, objVars, rstate, stale, ub>>

\* dlinfo with NULL returns -1 after rtems_rtl_lock, without unlocking.
InfoNull(p) ==
  /\ pc[p] = "null"
  /\ Goto(p, "idle")
  /\ KeepLock /\ UNCHANGED <<arg, cur, ref, objVars, rstate, stale, ub>>

-----------------------------------------------------------------------------

\* A client starts a call.
Call(p) ==
  /\ ~ub
  /\ \/ \E n \in Names \union {NoName} : OpenCall(p, n)
     \/ CloseCall(p)
     \/ SymCall(p)
     \/ \E a \in InfoArgs : InfoCall(p, a)

\* A call goes on.
Step(p) ==
  /\ ~ub
  /\ \/ Lock(p)
     \/ OpenNull(p) \/ OpenNoFile(p)
     \/ \E d \in Descs : OpenFound(p, d) \/ OpenCreate(p, d)
     \/ OpenLoaded(p) \/ OpenLoadFails(p)
     \/ OpenShare(p) \/ OpenFirst(p) \/ CtorsReturn(p) \/ OpenClear(p)
     \/ CallDone(p)
     \/ CloseInvalid(p) \/ CloseLocked(p) \/ CloseShared(p) \/ CloseLast(p)
     \/ DtorsReturn(p)
     \/ CloseUnload(p) \/ CloseReopened(p) \/ CloseDangling(p)
     \/ Query(p) \/ InfoNull(p)

\* After a use of freed memory nothing is said about the program any more.
Undefined == ub /\ UNCHANGED vars

Next == Undefined \/ \E p \in Procs : Call(p) \/ Step(p)

Spec == Init /\ [][Next]_vars

-----------------------------------------------------------------------------
(* Safety.  The first six hold whatever the clients do, as long as freed   *)
(* memory has not been used.                                               *)

\* A task owns the mutex, once, exactly while it is in a critical section:
\* every path through dlopen, dlclose, dlsym and dlinfo unlocks what it has
\* locked, and constructors, destructors and clients run with it unlocked.
LockDiscipline ==
  /\ nest = IF owner = NoProc THEN 0 ELSE 1
  /\ \A p \in Procs : owner = p <=> pc[p] \in Critical

\* A handle that was returned and not closed is the address of a listed
\* object: no interleaving of other dlopen and dlclose calls frees it.
HeldIsListed == \A p \in Procs : ref[p] # NoDesc => ref[p] \in chain

\* The user count of a listed object counts its handles exactly, also when
\* the object is reopened while its destructors run.
RefCount == \A d \in chain : users[d] = Cardinality(Holders(d))

\* Symbol tables belong to listed objects: the global table, which is made of
\* them, never points into an object that was freed.
SymsListed == syms \subseteq chain

\* The linker never lists two objects for one name that matches itself: a second
\* dlopen finds the first object in whatever phase of its life it is.  The name of a
\* file does, that of an object in an archive does not (LoadedOnce).
OneObjectPerName ==
  \A d, e \in chain :
    oname[d] = oname[e] /\ ArgKey[oname[d]] = ObjKey[oname[d]] => d = e

\* Whenever the linker is unlocked, a listed object has a user or a task that
\* will remove it once the destructors have returned: nothing is left behind
\* when the last dlclose races a dlopen, or after a failed load.
NoOrphan ==
  owner = NoProc =>
    \A d \in chain \ {Base} : users[d] > 0 \/ RunningDtors(d) # {}

-----------------------------------------------------------------------------
(* What holds in addition when the clients serialise the calls for a module. *)

\* Freed memory is not used.
NoUseAfterFree == ~ub

\* dlsym on a held handle finds the symbols of the module.
HeldHasSymbols == \A p \in Procs : ref[p] # NoDesc => ref[p] \in syms

\* dlclose of a held handle is never refused.
CloseAccepted ==
  \A p \in Procs : pc[p] = "close_check" /\ ref[p] # NoDesc
                     => ref[p] \in chain \ locked

-----------------------------------------------------------------------------
(* What the comments of the code promise, and the code does not keep.      *)

\* rtl.c: "If the object is locked it cannot be unloaded and the unload
\* fails": an object is not freed while a task runs its destructors.
LockedIsNotUnloaded == stale = {}

\* rtl.c: "See if the object module has already been loaded", whatever form its name
\* has.  rtems_rtl_match_name compares all of 'archive:object' with the oname, which
\* is the object's name alone.
LoadedOnce == \A d, e \in chain : oname[d] = oname[e] => d = e

-----------------------------------------------------------------------------
(* Liveness.  A task inside a call goes on when it can; clients need not   *)
(* start calls.                                                            *)

Fairness == \A p \in Procs : WF_vars(Step(p))

\* Every call returns: nobody waits for the linker for ever.
CallsReturn ==
  \A p \in Procs : pc[p] # "idle" ~> (pc[p] = "idle" \/ ub)

\* An object nobody uses is unloaded or gets a user again.
UnusedIsUnloaded ==
  \A d \in Descs \ {Base} :
    (d \in chain /\ users[d] = 0) ~> (d \notin chain \/ users[d] > 0 \/ ub)

-----------------------------------------------------------------------------
(* The linker as a registry of reference-counted modules.                  *)

Listed(n) == {d \in chain : oname[d] = n}

Phase(n) ==
  IF Listed(n) = {} THEN "absent"
  ELSE LET d == CHOOSE e \in Listed(n) : TRUE
       IN  CASE users[d] = 0 /\ d \notin locked -> "absent"
             [] users[d] = 0 /\ d \in locked    -> "destructing"
             [] users[d] > 0 /\ d \in locked    -> "constructing"
             [] OTHER                           -> "ready"

Handle(p) ==
  IF ref[p] = NoDesc \/ pc[p] \in {"ctors", "open_relock", "open_clear"}
    THEN NoName ELSE oname[ref[p]]

Registry == INSTANCE ModuleRegistry WITH
              None  <- NoName,
              held  <- [p \in Procs |-> Handle(p)],
              phase <- [n \in Names |-> Phase(n)]

\* With coordinated clients the linker implements the registry: a module is
\* constructed before its first handle is returned, shared while it has one,
\* destructed after the last is closed, and then removed.
ImplementsRegistry == Registry!Spec
=============================================================================
