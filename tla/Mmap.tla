-------------------------------- MODULE Mmap ---------------------------------
(***************************************************************************)
(* mmap and munmap of the RTL's own implementation: a list of mappings and *)
(* a lock that the first call makes.  The list is emptied by every call    *)
(* that finds no lock, before it has any; and a call that cannot make one  *)
(* goes on without.                                                        *)
(*                                                                         *)
(* Emptying a list that is not empty breaks the chain, and so do two calls *)
(* that extract the same mapping: a behaviour ends there.                  *)
(***************************************************************************)
EXTENDS Integers, SequencesExt

CONSTANTS
  Tasks,
  NoTask,
  Memory,  \* the memory malloc can return for a mapping
  Null,    \* the address 0, which a fixed mapping gets
  MaxMaps  \* bound: no more mappings at a time

ASSUME MmapAssumption ==
  NoTask \notin Tasks /\ Null \notin Memory /\ MaxMaps \in Nat

VARIABLES
  id,      \* TRUE when mmap_mappings_lock is set
  owner,   \* who holds that lock, or NoTask
  list,    \* mmap_mappings: sequence of [addr, fixed]
  heap,    \* the blocks that are allocated
  pc,      \* pc[t]: where task t is
  call,    \* call[t]: what it calls, [op, addr, fixed]
  block,   \* block[t]: the memory it has allocated, or Null
  broken   \* TRUE once the chain was broken

mmapVars == <<id, owner, list, heap, pc, call, block, broken>>

Goto(t, p) == pc' = [pc EXCEPT ![t] = p]

MmapInit ==
  /\ id = FALSE /\ owner = NoTask
  /\ list = <<>> /\ heap = {}
  /\ pc = [t \in Tasks |-> "idle"]
  /\ call = [t \in Tasks |-> [op |-> "munmap", addr |-> Null, fixed |-> FALSE]]
  /\ block = [t \in Tasks |-> Null]
  /\ broken = FALSE

Addresses == Memory \union {Null}

Call(t, op, a, fixed) ==
  /\ pc[t] = "idle"
  /\ call' = [call EXCEPT ![t] = [op |-> op, addr |-> a, fixed |-> fixed]]
  /\ Goto(t, "args")
  /\ UNCHANGED <<id, owner, list, heap, block, broken>>

\* The file, the length or the protection is not accepted: no lock is touched.
Reject(t) ==
  /\ pc[t] = "args"
  /\ Goto(t, "idle")
  /\ UNCHANGED <<id, owner, list, heap, call, block, broken>>

-----------------------------------------------------------------------------
(* The lock. *)

Test(t) ==
  /\ pc[t] = "args"
  /\ Goto(t, IF id THEN "obtain" ELSE "empty")
  /\ UNCHANGED <<id, owner, list, heap, call, block, broken>>

\* rtems_chain_initialize_empty, without any lock.
Empty(t) ==
  /\ pc[t] = "empty"
  /\ list' = <<>>
  /\ broken' = (broken \/ list # <<>>)
  /\ Goto(t, "create")
  /\ UNCHANGED <<id, owner, heap, call, block>>

\* Behind the libio lock the first one makes the mutex.
Create(t) ==
  /\ pc[t] = "create"
  /\ id' = TRUE
  /\ Goto(t, "obtain")
  /\ UNCHANGED <<owner, list, heap, call, block, broken>>

\* mmap_mappings_lock_obtain is TRUE all the same.
CreateFails(t) ==
  /\ pc[t] = "create" /\ ~id
  /\ Goto(t, "inside")
  /\ UNCHANGED <<id, owner, list, heap, call, block, broken>>

Obtain(t) ==
  /\ pc[t] = "obtain" /\ owner = NoTask
  /\ owner' = t
  /\ Goto(t, "inside")
  /\ UNCHANGED <<id, list, heap, call, block, broken>>

\* A binary semaphore is released whoever holds it; before it is there, nothing
\* is.  The call returns.
Release(t) == owner' = NoTask /\ Goto(t, "idle")

-----------------------------------------------------------------------------
(* mmap. *)

Maps(t) == pc[t] = "inside" /\ call[t].op = "mmap"

\* Is the address in this mapping?
Covers(mapping, a) == mapping.addr = a

\* Mutant of FixedTaken: the lock is kept.
FixedTakenLocked(t) ==
  /\ Maps(t) /\ call[t].fixed
  /\ \E i \in DOMAIN list : Covers(list[i], call[t].addr)
  /\ Goto(t, "idle") /\ UNCHANGED owner
  /\ UNCHANGED <<id, list, heap, call, block, broken>>

FixedTaken(t) ==
  /\ Maps(t) /\ call[t].fixed
  /\ \E i \in DOMAIN list : Covers(list[i], call[t].addr)
  /\ Release(t)
  /\ UNCHANGED <<id, list, heap, call, block, broken>>

Free(t) == ~(call[t].fixed /\ \E i \in DOMAIN list : Covers(list[i], call[t].addr))

\* There is no memory for the mapping, none for its contents, or no seek.
NoMemory(t) ==
  /\ Maps(t) /\ Free(t)
  /\ Release(t)
  /\ UNCHANGED <<id, list, heap, call, block, broken>>

\* A fixed mapping gets none: its address stays 0, and the file is read there.
Allocate(t) ==
  /\ Maps(t) /\ Free(t) /\ Len(list) < MaxMaps
  /\ IF call[t].fixed
       THEN UNCHANGED <<heap, block>>
       ELSE \E b \in Memory \ heap :
              heap' = heap \union {b} /\ block' = [block EXCEPT ![t] = b]
  /\ Goto(t, "read")
  /\ UNCHANGED <<id, owner, list, call, broken>>

\* Mutant of ReadFails: only the mapping is freed.
ReadFailsLeaks(t) ==
  /\ pc[t] = "read"
  /\ block' = [block EXCEPT ![t] = Null]
  /\ Release(t)
  /\ UNCHANGED <<id, list, heap, call, broken>>

\* The file is shorter than stat says.
ReadFails(t) ==
  /\ pc[t] = "read"
  /\ heap' = heap \ {block[t]}
  /\ block' = [block EXCEPT ![t] = Null]
  /\ Release(t)
  /\ UNCHANGED <<id, list, call, broken>>

Map(t) ==
  /\ pc[t] = "read"
  /\ list' = Append(list, [addr |-> block[t], fixed |-> call[t].fixed])
  /\ block' = [block EXCEPT ![t] = Null]
  /\ Release(t)
  /\ UNCHANGED <<id, heap, call, broken>>

-----------------------------------------------------------------------------
(* munmap. *)

Unmaps(t) == pc[t] = "inside" /\ call[t].op = "munmap"
Hits(t)   == {i \in DOMAIN list : Covers(list[i], call[t].addr)}

NotMapped(t) ==
  /\ Unmaps(t) /\ Hits(t) = {}
  /\ Release(t)
  /\ UNCHANGED <<id, list, heap, call, block, broken>>

\* The first mapping with the address.
FindMapping(t) ==
  /\ Unmaps(t) /\ Hits(t) # {}
  /\ Goto(t, "extract")
  /\ UNCHANGED <<id, owner, list, heap, call, block, broken>>

First(t) == CHOOSE i \in Hits(t) : \A j \in Hits(t) : i <= j

\* Its memory is freed, that of a fixed one is not and neither is its record.
\* Without a lock another call may have found it as well.
Extract(t) ==
  /\ pc[t] = "extract"
  /\ list' = RemoveAt(list, First(t))
  /\ heap' = heap \ {list[First(t)].addr}
  /\ broken' = \E u \in Tasks \ {t} : pc[u] = "extract" /\ First(u) = First(t)
  /\ Release(t)
  /\ UNCHANGED <<id, call, block>>

-----------------------------------------------------------------------------
Step(t) ==
  \/ Reject(t) \/ Test(t) \/ Empty(t) \/ Create(t) \/ CreateFails(t) \/ Obtain(t)
  \/ FixedTaken(t) \/ NoMemory(t) \/ Allocate(t) \/ ReadFails(t) \/ Map(t)
  \/ NotMapped(t) \/ FindMapping(t) \/ Extract(t)

MmapNext ==
  /\ ~broken
  /\ \E t \in Tasks :
       \/ Step(t)
       \/ Call(t, "mmap", Null, FALSE)
       \/ \E a \in Addresses : Call(t, "mmap", a, TRUE) \/ Call(t, "munmap", a, FALSE)

\* A task goes on, and gets the lock in its turn.
MmapSpec == /\ MmapInit /\ [][MmapNext]_mmapVars
        /\ \A t \in Tasks : WF_mmapVars(~broken /\ Step(t)) /\ SF_mmapVars(~broken /\ Obtain(t))

-----------------------------------------------------------------------------
Inside(t) == pc[t] \in {"inside", "read", "extract"}

\* MemoryIsListed: as long as the chain is intact the memory in use is that of the
\* mappings, each listed once, and what a call is reading into: no error path
\* leaks it, none frees it twice, and a fixed mapping never owns any
\* (mmap, munmap).
MemoryIsListed ==
  ~broken =>
    LET own  == {i \in DOMAIN list : ~list[i].fixed}
        used == {list[i].addr : i \in own}
        hand == {block[t] : t \in {u \in Tasks : pc[u] = "read"}} \ {Null}
    IN  /\ heap = used \union hand /\ used \intersect hand = {}
        /\ \A i, j \in own : list[i].addr = list[j].addr => i = j
        /\ Null \notin used

\* CallsReturn: every call returns: each of the error paths gives the lock back,
\* which the task itself could not take again (mmap, munmap).
CallsReturn == \A t \in Tasks : pc[t] # "idle" ~> pc[t] = "idle" \/ broken
=============================================================================
