----------------------------- MODULE RapLoader ------------------------------
(***************************************************************************)
(* The application loader: a list of applications over dlopen, behind one  *)
(* mutex that its owner can take again.  It is made on the first call.     *)
(*                                                                         *)
(* An entry point and an iterator's callback run with the mutex held and   *)
(* may call the loader again, so every task has a stack of calls.  What    *)
(* the program is asked not to do: unload an application one of whose      *)
(* functions, or an iterator that stands on it, is further up its stack.   *)
(*                                                                         *)
(* rtems_rap_load does not release the mutex when it returns true.         *)
(***************************************************************************)
EXTENDS Integers, SequencesExt

CONSTANTS
  Tasks,
  NoTask,
  Files,      \* application files, all with absolute names
  NoFile,
  Requests,   \* the files programs name, each with TRUE if by its absolute name
  StartsWith, \* StartsWith[f]: the files whose names start with f's name
  Lead,       \* Lead[f]: the first component of f's name
  HasEntry,   \* the files that export "rtems"
  AppIds,     \* descriptors
  NoApp,
  MaxDepth,   \* bound: calls on a stack
  MaxCalls,   \* bound: calls an entry point or a callback makes
  MaxLoads,   \* bound: the loads of a task that return true
  MaxRefused  \* bound: the refused calls of dlclose for an object

ASSUME RapAssumption ==
  /\ IsFiniteSet(Tasks) /\ NoTask \notin Tasks
  /\ NoFile \notin Files /\ Requests \subseteq Files \X BOOLEAN
  /\ NoApp \notin AppIds
  /\ StartsWith \in [Files -> SUBSET Files]
  /\ \A f \in Files : f \in StartsWith[f]
  /\ HasEntry \subseteq Files
  /\ MaxDepth \in Nat /\ MaxCalls \in Nat /\ MaxLoads \in Nat /\ MaxRefused \in Nat

VARIABLES
  made,   \* rap_.lock is set
  ready,  \* rap_.apps has been initialised
  owner,  \* the owner of the mutex, or NoTask
  nest,   \* how often the owner holds it
  libio,  \* the owner of the libio lock, or NoTask
  stuck,  \* the task that left an initialisation without releasing it
  apps,   \* rap_.apps: sequence of [id, file, handle]
  users,  \* users[f]: the loader's share of dlopen's count for the object of file f
  refused, \* refused[f]: the calls of dlclose for it that were refused
  stack,  \* stack[t]: the calls of task t, the innermost last
  kept,   \* kept[t]: the loads of t that returned true
  lost    \* TRUE once a call went on without the mutex or the memory it asked for

vars == <<made, ready, owner, nest, libio, stuck, apps, users, refused, stack, kept, lost>>

-----------------------------------------------------------------------------
(* Applications and their objects. *)

\* rtems_rap_match_name: only a prefix of the whole name ever matches, so a
\* relative name finds nothing.
Matches(app, f, absolute) == absolute /\ app.file \in StartsWith[f]

\* rtems_rap_find: the first that matches.
FindIndex(f, absolute) ==
  SelectInSeq(apps, LAMBDA app : Matches(app, f, absolute))

AppIndex(id) == SelectInSeq(apps, LAMBDA app : app.id = id)
AppOf(id)    == apps[AppIndex(id)]
SetHandle(id, h) ==
  [i \in DOMAIN apps |-> IF apps[i].id = id THEN [apps[i] EXCEPT !.handle = h]
                                            ELSE apps[i]]

\* What dlopen of an absolute name returns: names are compared up to the first
\* delimiter behind the lead only.
Opened(f) ==
  LET same == {g \in Files : users[g] > 0 /\ Lead[g] = Lead[f]}
  IN  IF same = {} THEN f ELSE CHOOSE g \in same : TRUE

\* Mutant of AppFree: the object stays open.
AppFreeStaysOpen(id) ==
  /\ apps' = RemoveAt(apps, AppIndex(id))
  /\ UNCHANGED <<users, refused>>

\* rtems_rap_app_free: the descriptor and its name are never given back.  While
\* constructors that another dlopen of the object started still run, dlclose
\* refuses; nobody looks at what it returns.
AppFree(id) ==
  LET h == AppOf(id).handle
  IN  /\ apps' = RemoveAt(apps, AppIndex(id))
      /\ \/ /\ users' = IF h = NoFile THEN users ELSE [users EXCEPT ![h] = @ - 1]
            /\ UNCHANGED refused
         \/ /\ h # NoFile /\ refused[h] < MaxRefused
            /\ refused' = [refused EXCEPT ![h] = @ + 1]
            /\ UNCHANGED users

-----------------------------------------------------------------------------
(* Calls. *)

Init ==
  /\ made = FALSE /\ ready = FALSE
  /\ owner = NoTask /\ nest = 0 /\ libio = NoTask
  /\ stuck = NoTask
  /\ apps = <<>>
  /\ users = [f \in Files |-> 0] /\ refused = [f \in Files |-> 0]
  /\ stack = [t \in Tasks |-> <<>>]
  /\ kept = [t \in Tasks |-> 0]
  /\ lost = FALSE

Top(t)    == Last(stack[t])
IsAt(t, pc) == stack[t] # <<>> /\ Top(t).pc = pc
Goto(t, pc)       == stack' = [stack EXCEPT ![t][Len(stack[t])].pc = pc]
GotoApp(t, pc, a) == stack' = [stack EXCEPT ![t][Len(stack[t])].pc = pc,
                                            ![t][Len(stack[t])].app = a]
Return(t) == stack' = [stack EXCEPT ![t] = Front(@)]

Obtained == {"find", "locate", "dlopen", "dlsym", "entry", "fini", "walk", "callback"}

Lock(t)   == owner \in {NoTask, t} /\ owner' = t /\ nest' = nest + 1
Unlock(t) == /\ nest' = nest - 1
             /\ owner' = IF nest = 1 THEN NoTask ELSE owner

\* The program is running: outside of any call, in an entry point or in a
\* callback.
InProgram(t) ==
  stack[t] # <<>> => Top(t).pc \in {"entry", "fini", "callback"}

\* Applications that may not be unloaded by t.
Busy(t) == {stack[t][i].app : i \in DOMAIN stack[t]}

Frame(op, f, absolute) ==
  [op |-> op, file |-> f, absolute |-> absolute, app |-> NoApp, calls |-> 0,
   pc |-> IF made THEN "obtain" ELSE "libio"]

Call(t, op, f, absolute) ==
  /\ InProgram(t) /\ ~lost
  /\ Len(stack[t]) < MaxDepth
  /\ op = "load" => kept[t] < MaxLoads
  /\ op = "unload" =>
       \A i \in DOMAIN apps : i = FindIndex(f, absolute) => apps[i].id \notin Busy(t)
  /\ stack[t] # <<>> => Top(t).calls < MaxCalls
  /\ LET caller == IF stack[t] = <<>> THEN <<>>
                   ELSE Append(Front(stack[t]), [Top(t) EXCEPT !.calls = @ + 1])
     IN  stack' = [stack EXCEPT ![t] = Append(caller, Frame(op, f, absolute))]
  /\ UNCHANGED <<made, ready, owner, nest, libio, stuck, apps, users, refused, kept, lost>>

\* rtems_rap_data_init.
LibioLock(t) ==
  /\ IsAt(t, "libio")
  /\ libio \in {NoTask, t} /\ libio' = t
  /\ Goto(t, "test")
  /\ UNCHANGED <<made, ready, owner, nest, stuck, apps, users, refused, kept, lost>>

\* Somebody was faster.  The release of the mutex is refused: it is not ours.
InitDone(t) ==
  /\ IsAt(t, "test") /\ made
  /\ libio' = stuck
  /\ Goto(t, "obtain")
  /\ UNCHANGED <<made, ready, owner, nest, stuck, apps, users, refused, kept, lost>>

\* Mutant of InitMake: the mutex is published before it is obtained.
InitMakeFree(t) ==
  /\ IsAt(t, "test") /\ ~made
  /\ made' = TRUE /\ Goto(t, "chain")
  /\ UNCHANGED <<ready, owner, nest, libio, stuck, apps, users, refused, kept, lost>>

\* The mutex is made, obtained and then published.
InitMake(t) ==
  /\ IsAt(t, "test") /\ ~made
  /\ Lock(t)
  /\ made' = TRUE /\ Goto(t, "chain")
  /\ UNCHANGED <<ready, libio, stuck, apps, users, refused, kept, lost>>

\* It cannot be made: the libio lock is kept.  rtems_rap_load returns false,
\* the others do not look at the result.
InitFails(t) ==
  /\ IsAt(t, "test") /\ ~made
  /\ Return(t)
  /\ stuck' = t
  /\ lost' = (Top(t).op # "load")
  /\ UNCHANGED <<made, ready, owner, nest, libio, apps, users, refused, kept>>

InitChain(t) ==
  /\ IsAt(t, "chain")
  /\ ready' = TRUE /\ apps' = <<>>
  /\ libio' = stuck
  /\ Unlock(t)
  /\ Goto(t, "obtain")
  /\ UNCHANGED <<made, stuck, users, refused, kept, lost>>

\* rtems_rap_lock.
Obtain(t) ==
  /\ IsAt(t, "obtain")
  /\ Lock(t)
  /\ IF Top(t).op = "iterate" THEN Goto(t, "walk") ELSE Goto(t, "find")
  /\ UNCHANGED <<made, ready, libio, stuck, apps, users, refused, kept, lost>>

\* Unlock and return.
Leave(t) == Unlock(t) /\ Return(t)

-----------------------------------------------------------------------------
(* rtems_rap_load. *)

\* Found, whether the file or one whose name is longer: true, with the mutex.
LoadFound(t) ==
  /\ IsAt(t, "find") /\ Top(t).op = "load"
  /\ FindIndex(Top(t).file, Top(t).absolute) # 0
  /\ kept' = [kept EXCEPT ![t] = @ + 1]
  /\ Return(t)
  /\ UNCHANGED <<made, ready, owner, nest, libio, stuck, apps, users, refused, lost>>

\* A new descriptor, and the file is looked for.  That there is no memory for
\* the descriptor is not looked at before it is cleared.
Locate(t) ==
  /\ IsAt(t, "find") /\ Top(t).op = "load"
  /\ FindIndex(Top(t).file, Top(t).absolute) = 0
  /\ \/ /\ \E id \in AppIds \ {apps[i].id : i \in DOMAIN apps} :
             \/ /\ apps' = Append(apps, [id |-> id, file |-> Top(t).file, handle |-> NoFile])
                /\ GotoApp(t, "dlopen", id)
                /\ UNCHANGED <<owner, nest>>
             \/ UNCHANGED apps /\ Leave(t)
        /\ UNCHANGED lost
     \/ lost' = TRUE /\ UNCHANGED <<owner, nest, apps, stack>>
  /\ UNCHANGED <<made, ready, libio, stuck, users, refused, kept>>

\* What is loaded already cannot fail.
DlOpen(t) ==
  /\ IsAt(t, "dlopen")
  /\ LET g == Opened(Top(t).file)
     IN  \/ /\ users' = [users EXCEPT ![g] = @ + 1]
            /\ apps' = SetHandle(Top(t).app, g)
            /\ Goto(t, "dlsym")
            /\ UNCHANGED <<owner, nest, refused>>
         \/ /\ users[g] = 0
            /\ AppFree(Top(t).app) /\ Leave(t)
  /\ UNCHANGED <<made, ready, libio, stuck, kept, lost>>

\* Mutant of DlSym: the error path returns with the mutex.
DlSymKeepsLock(t) ==
  /\ IsAt(t, "dlsym")
  /\ IF AppOf(Top(t).app).handle \in HasEntry
       THEN Goto(t, "entry") /\ UNCHANGED <<owner, nest, apps, users, refused>>
       ELSE AppFree(Top(t).app) /\ Return(t) /\ UNCHANGED <<owner, nest>>
  /\ UNCHANGED <<made, ready, libio, stuck, kept, lost>>

DlSym(t) ==
  /\ IsAt(t, "dlsym")
  /\ IF AppOf(Top(t).app).handle \in HasEntry
       THEN Goto(t, "entry") /\ UNCHANGED <<owner, nest, apps, users, refused>>
       ELSE AppFree(Top(t).app) /\ Leave(t)
  /\ UNCHANGED <<made, ready, libio, stuck, kept, lost>>

EntryReturns(t) ==
  /\ IsAt(t, "entry")
  /\ \/ /\ kept[t] < MaxLoads
        /\ kept' = [kept EXCEPT ![t] = @ + 1]
        /\ Return(t) /\ UNCHANGED <<owner, nest, apps, users, refused>>
     \/ AppFree(Top(t).app) /\ Leave(t) /\ UNCHANGED kept
  /\ UNCHANGED <<made, ready, libio, stuck, lost>>

-----------------------------------------------------------------------------
(* rtems_rap_unload, rtems_rap_find, rtems_rap_iterate. *)

UnloadFind(t) ==
  /\ IsAt(t, "find") /\ Top(t).op = "unload"
  /\ LET i == FindIndex(Top(t).file, Top(t).absolute)
     IN  IF i # 0 /\ apps[i].handle \in HasEntry
           THEN GotoApp(t, "fini", apps[i].id) /\ UNCHANGED <<owner, nest>>
           ELSE Leave(t)
  /\ UNCHANGED <<made, ready, libio, stuck, apps, users, refused, kept, lost>>

FiniReturns(t) ==
  /\ IsAt(t, "fini")
  /\ AppFree(Top(t).app) \/ UNCHANGED <<apps, users, refused>>
  /\ Leave(t)
  /\ UNCHANGED <<made, ready, libio, stuck, kept, lost>>

Find(t) ==
  /\ IsAt(t, "find") /\ Top(t).op = "find"
  /\ Leave(t)
  /\ UNCHANGED <<made, ready, libio, stuck, apps, users, refused, kept, lost>>

\* Mutant of NextApp: the walk begins again.
NextAppFirst(t) == 1

\* The application behind the last one the iterator was at.
NextApp(t) ==
  IF Top(t).app = NoApp THEN 1
  ELSE 1 + AppIndex(Top(t).app)

Walk(t) ==
  /\ IsAt(t, "walk")
  /\ IF NextApp(t) <= Len(apps)
       THEN GotoApp(t, "callback", apps[NextApp(t)].id) /\ UNCHANGED <<owner, nest>>
       ELSE Leave(t)
  /\ UNCHANGED <<made, ready, libio, stuck, apps, users, refused, kept, lost>>

CallbackReturns(t) ==
  /\ IsAt(t, "callback")
  /\ \/ Goto(t, "walk") /\ UNCHANGED <<owner, nest>>
     \/ Leave(t)
  /\ UNCHANGED <<made, ready, libio, stuck, apps, users, refused, kept, lost>>

\* A step of a call that has been made.
Step(t) ==
  /\ ~lost
  /\ \/ LibioLock(t) \/ InitDone(t) \/ InitMake(t) \/ InitFails(t) \/ InitChain(t)
     \/ Obtain(t)
     \/ LoadFound(t) \/ Locate(t) \/ DlOpen(t) \/ DlSym(t) \/ EntryReturns(t)
     \/ UnloadFind(t) \/ FiniReturns(t) \/ Find(t) \/ Walk(t) \/ CallbackReturns(t)

Next ==
  \E t \in Tasks :
    \/ Step(t)
    \/ Call(t, "iterate", NoFile, FALSE)
    \/ \E op \in {"load", "unload", "find"}, r \in Requests : Call(t, op, r[1], r[2])

\* A task that can go on does: entry points and callbacks come to an end.
Spec == Init /\ [][Next]_vars /\ \A t \in Tasks : WF_vars(Step(t))

-----------------------------------------------------------------------------
Inside(t) == {i \in DOMAIN stack[t] : stack[t][i].pc \in Obtained}

\* HoldsAreCalls: however calls are nested in entry points and callbacks and
\* whichever of their exits they take, a task holds the mutex once for each of
\* its calls that is inside and once for each load that returned true, and
\* nobody else holds it (rtems_rap_load has seven exits, six of them unlock).
HoldsAreCalls ==
  \A t \in Tasks :
    LET holds == Cardinality(Inside(t)) + kept[t] + (IF IsAt(t, "chain") THEN 1 ELSE 0)
    IN  IF owner = t THEN nest = holds ELSE holds = 0

\* RefsMatch: an object is open exactly once for each application that refers to
\* it and once for each dlclose that was refused and that nobody repeats, also
\* when dlopen returned the object of another file, and what runs is code of an
\* application that is on the list.
RefsMatch ==
  /\ \A f \in Files :
       users[f] = Cardinality({i \in DOMAIN apps : apps[i].handle = f}) + refused[f]
  /\ \A t \in Tasks : \A i \in DOMAIN stack[t] :
       stack[t][i].pc \in {"entry", "fini"} =>
         \E k \in DOMAIN apps : /\ apps[k].id = stack[t][i].app
                                /\ apps[k].handle \in HasEntry

\* ListIsReady: nobody looks at the list of applications before the task that
\* makes the mutex has initialised it, nor is it initialised twice
\* (rtems_rap_data_init publishes the mutex while it holds it).
ListIsReady ==
  /\ (\E t \in Tasks : Inside(t) # {}) => ready
  /\ \A t \in Tasks : IsAt(t, "chain") => apps = <<>> /\ ~ready

\* LockIsGivenUp: a task that has the mutex and has not loaded an application
\* gives it up, or loads one, unless a descriptor without memory was written to.
LockIsGivenUp ==
  \A t \in Tasks : owner = t /\ kept[t] = 0 ~> owner # t \/ kept[t] > 0 \/ lost
=============================================================================
