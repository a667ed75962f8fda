-------------------------------- MODULE Heap --------------------------------
(***************************************************************************)
(* The garbage-collected heap (compiler/gc/GC.cpp) and the virtual machine *)
(* that mutates it: generational mark and sweep, started at an allocation  *)
(* once the budget is used up, from the roots VM.cpp hands to it.          *)
(*                                                                         *)
(* An object is an identity with a set of references (kids); sizes, keys   *)
(* and values that are not references are left out.  Worklist kinds        *)
(* (array, object, set, closure; strings behave like one without           *)
(* references) age and are promoted; Direct kinds (iterator, bound method, *)
(* error, enum, channel, coroutine) are traced on the spot and do not age. *)
(***************************************************************************)
EXTENDS Naturals, FiniteSets

CONSTANTS
  Obj,             \* object identities
  Direct,          \* those of a kind that markReference traces recursively
  Kept,            \* unfinished coroutines and running threads: never swept
  Context,         \* executions that take turns on the one VM
  Main,            \* the main script, parked in main_script_fiber_
  NoContext,
  Place,           \* where a value can live outside a stack (see Scanned)
  MainRegistered,  \* main_script_fiber_ is in the scheduler (ExecutionEngine's
                   \* pump) or not (HavelEngine's pump)
  NestedParks,     \* a nested closure call may suspend
  NestedFull,      \* a callback of a host function may call gc_collect_full()
  AllocBudget,     \* allocation_budget_
  AgeLimit,        \* promotion_age_threshold_
  FullInterval,    \* full_collection_interval_
  MaxSuspend,      \* bound on gc_suspend_counter_
  MaxKids,         \* bound on the references of one object
  MaxStack         \* bound on the references on one stack and in C++ locals

ASSUME HeapAssumption ==
  /\ Direct \subseteq Obj /\ Kept \subseteq Direct
  /\ Main \in Context /\ NoContext \notin Context
  /\ {MainRegistered, NestedParks, NestedFull} \subseteq BOOLEAN
  /\ AllocBudget \in Nat \ {0} /\ AgeLimit \in Nat \ {0} /\ FullInterval \in Nat
  /\ MaxSuspend \in Nat /\ MaxKids \in Nat /\ MaxStack \in Nat

VARIABLES
  heap,      \* the objects in the containers
  kids,      \* their references
  age,       \* the *_ages_ maps
  allocs,    \* allocations_since_last_, capped at the budget
  running,   \* whose state the VM holds
  stack,     \* operand stack and locals: the VM's for running, else the fiber's
  frame,     \* closures of the call frames, likewise
  place,     \* values held elsewhere
  host,      \* who is inside a host function
  held,      \* references in that function's C++ locals
  suspend,   \* gc_suspend_counter_
  phase,     \* gc_state_
  marked,    \* the marked_* sets
  worklist,  \* mark_worklist_
  full,      \* current_collection_full_
  minors     \* minor_collections_since_full_

mutVars == <<running, stack, frame, place, host, held, suspend>>
gcVars == <<phase, marked, worklist, full, minors>>
vars == <<heap, kids, age, allocs, mutVars, gcVars>>

Young == Obj \ Direct

(***************************************************************************)
(* References and roots.                                                   *)
(***************************************************************************)
\* The least set with S that is closed under the references r of its members
\* in D.
Closure(S, D, r) ==
  {o \in Obj : \A T \in SUBSET Obj :
     (S \subseteq T /\ \A x \in T \cap D : r[x] \subseteq T) => o \in T}

\* What markStep() finds behind an object.
MutantOldNotTraced(o) == IF o \in heap /\ age[o] # AgeLimit THEN kids[o] ELSE {}
Refs(o) == IF o \in heap THEN kids[o] ELSE {}

\* markReference() on each of S: follows Direct objects at once.
Trace(S) == Closure(S, Direct \cap heap, kids)
Reachable(S) == Closure(S, heap, kids)

\* Scheduler::getGCRoots() sees the fibers of registered goroutines.
Registered == IF MainRegistered THEN Context ELSE Context \ {Main}

\* What stackValuesForRoots(), the locals, activeClosureIdsForRoots() and the
\* scheduler contribute.  The stale copy a running fiber keeps is left out.
MutantRunningOnly == stack[running] \cup frame[running]
VMRoots ==
  (UNION {stack[c] : c \in Registered \cup {running}}) \cup frame[running]

\* Scanned places: globals, pinned external roots, closures of timers.  The
\* buffers of channels and the resume value of an unparked goroutine are not.
Scanned == {"globals", "pin", "timer"}
PlaceRoots == UNION {place[p] : p \in Place \cap Scanned}

GCRoots == VMRoots \cup PlaceRoots

\* What the program itself can still get hold of.
ProgramRoots ==
  (UNION {stack[c] \cup frame[c] : c \in Context})
    \cup (UNION {place[p] : p \in Place}) \cup held

Old == {o \in heap \cap Young : age[o] = AgeLimit}

Fresh == {o \in Obj \ heap : o \notin ProgramRoots
                          /\ \A x \in heap : o \notin kids[x]}

(***************************************************************************)
(* The collector.                                                          *)
(***************************************************************************)
\* markRoots(): every root, and in a minor collection everything old.
MutantOldAlways == Trace(GCRoots \cup Old)
RootMarks == Trace(GCRoots \cup (IF full THEN {} ELSE Old))

\* collectGarbage(): startIncrementalCollection() here, then the steps below
\* until the collector is idle again; the program waits.
StartCollection(f) ==
  /\ full' = f
  /\ marked' = RootMarks'
  /\ worklist' = RootMarks' \ Direct
  /\ phase' = "Mark"
  /\ UNCHANGED minors

\* VM::maybeCollectGarbage(), last thing in the operations that call it.
MaybeCollect ==
  IF suspend' > 0 \/ allocs' < AllocBudget
  THEN UNCHANGED gcVars ELSE StartCollection(minors >= FullInterval)

\* markStep(): one object off the worklist.
Mark(o) ==
  LET found == Trace(Refs(o)) IN
  /\ phase = "Mark" /\ o \in worklist
  /\ marked' = marked \cup found
  /\ worklist' = (worklist \ {o}) \cup (found \ (marked \cup Direct))
  /\ UNCHANGED <<heap, kids, age, allocs, mutVars,
                 phase, full, minors>>

\* markStep() with nothing left: the roots once more, then to the sweep.
EndMark ==
  LET more == RootMarks \ (marked \cup Direct) IN
  /\ phase = "Mark" /\ worklist = {}
  /\ marked' = marked \cup RootMarks
  /\ worklist' = more
  /\ phase' = IF more = {} THEN "Sweep" ELSE phase
  /\ UNCHANGED <<heap, kids, age, allocs, mutVars, full, minors>>

Collectable(o) ==
  /\ o \notin marked
  /\ IF o \in Direct THEN o \notin Kept ELSE full \/ o \notin Old

\* ageOrPromoteArray() and its like.
MutantAgesOn(o) == IF o \in Direct THEN age[o] ELSE age[o] + 1
Older(o) == IF o \in Direct \cup Old THEN age[o] ELSE age[o] + 1

\* sweepStep() over every kind, then completeCollection(): the unmarked go, the
\* worklist kinds that survive age.
Sweep ==
  /\ phase = "Sweep" /\ phase' = "Idle"
  /\ heap' = {o \in heap : ~Collectable(o)}
  /\ age' = [o \in Obj |-> IF o \in heap' THEN Older(o) ELSE 0]
  /\ marked' = {} /\ worklist' = {} /\ allocs' = 0
  /\ minors' = IF full THEN 0 ELSE minors + 1
  /\ full' = FALSE
  /\ UNCHANGED <<kids, mutVars>>

Collector ==
  \/ \E o \in Obj : Mark(o)
  \/ EndMark \/ Sweep

(***************************************************************************)
(* The program.  It runs when the collector does not.                      *)
(***************************************************************************)
Grow(o) ==
  /\ heap' = heap \cup {o}
  /\ kids' = [kids EXCEPT ![o] = {}]
  /\ age' = [age EXCEPT ![o] = 0]
  /\ allocs' = IF allocs < AllocBudget THEN allocs + 1 ELSE allocs

Push(S) ==
  /\ Cardinality(stack[running] \cup S) + Cardinality(held \ S) <= MaxStack
  /\ stack' = [stack EXCEPT ![running] = @ \cup S]

\* ARRAY_NEW, OBJECT_NEW, CLOSURE, ...: allocate, push, maybe collect.
Alloc(o) ==
  /\ phase = "Idle" /\ o \in Fresh
  /\ Grow(o)
  /\ Push({o})
  /\ UNCHANGED <<running, frame, place, host, held, suspend>>
  /\ MaybeCollect

\* ARRAY_SET and the other stores.  No object refers to itself: markReference()
\* does not come back from a Direct object that does.
Store(a, b) ==
  /\ phase = "Idle" /\ a # b /\ {a, b} \subseteq stack[running] /\ a \in heap
  /\ b \notin kids[a] /\ Cardinality(kids[a]) < MaxKids
  /\ kids' = [kids EXCEPT ![a] = @ \cup {b}]
  /\ UNCHANGED <<heap, age, allocs, mutVars, gcVars>>

Erase(a, b) ==
  /\ phase = "Idle" /\ a \in stack[running] \cap heap /\ b \in kids[a]
  /\ kids' = [kids EXCEPT ![a] = @ \ {b}]
  /\ UNCHANGED <<heap, age, allocs, mutVars, gcVars>>

\* A read through a container on the stack, or of an upvalue of the closure
\* that runs.
Load(a, b) ==
  /\ phase = "Idle" /\ a \in (stack[running] \cup frame[running]) \cap heap
  /\ b \in kids[a] \ stack[running]
  /\ Push({b})
  /\ UNCHANGED <<heap, kids, age, allocs, running, frame, place, host, held,
                 suspend, gcVars>>

Drop(o) ==
  /\ phase = "Idle" /\ o \in stack[running]
  /\ stack' = [stack EXCEPT ![running] = @ \ {o}]
  /\ UNCHANGED <<heap, kids, age, allocs, running, frame, place, host, held,
                 suspend, gcVars>>

\* STORE_GLOBAL, registerCallback(), channel send, unpark with a value: a place
\* has room for one value.
Put(p, o) ==
  /\ phase = "Idle" /\ o \in stack[running] \ place[p]
  /\ place' = [place EXCEPT ![p] = {o}]
  /\ UNCHANGED <<heap, kids, age, allocs, running, stack, frame, host, held,
                 suspend, gcVars>>

\* LOAD_GLOBAL, invokeCallback(), channel receive, the resumed goroutine; the
\* value leaves its place, or stays.
Fetch(p, o) ==
  /\ phase = "Idle" /\ o \in place[p]
  /\ Push({o})
  /\ place' \in {place, [place EXCEPT ![p] = {}]}
  /\ UNCHANGED <<heap, kids, age, allocs, running, frame, host, held,
                 suspend, gcVars>>

\* CALL of a closure that was on the stack only, and RETURN from it.
Call(o) ==
  /\ phase = "Idle" /\ o \in stack[running] \ Direct
  /\ frame' = [frame EXCEPT ![running] = @ \cup {o}]
  /\ stack' = [stack EXCEPT ![running] = @ \ {o}]
  /\ UNCHANGED <<heap, kids, age, allocs, running, place, host, held,
                 suspend, gcVars>>

Return(o) ==
  /\ phase = "Idle" /\ o \in frame[running]
  /\ frame' = [frame EXCEPT ![running] = @ \ {o}]
  /\ UNCHANGED <<heap, kids, age, allocs, running, stack, place, host, held,
                 suspend, gcVars>>

\* saveFiberState() of one execution, loadFiberState() of another.
Switch(c) ==
  /\ phase = "Idle" /\ host = NoContext /\ c # running /\ (NestedParks \/ frame[running] = {})
  /\ running' = c
  /\ UNCHANGED <<heap, kids, age, allocs, stack, frame, place, host, held,
                 suspend, gcVars>>

\* doCall() of a host function, not from within another: the arguments leave
\* the operand stack and collections are suspended while it runs.
HostEnter(args) ==
  /\ phase = "Idle" /\ host = NoContext /\ suspend < MaxSuspend /\ Cardinality(args) < 2
  /\ host' = running /\ held' = args /\ suspend' = suspend + 1
  /\ stack' = [stack EXCEPT ![running] = @ \ args]
  /\ UNCHANGED <<heap, kids, age, allocs, running, frame, place, gcVars>>

HostAlloc(o) ==
  /\ phase = "Idle" /\ host # NoContext /\ o \in Fresh
  /\ Grow(o) /\ held' = held \cup {o}
  /\ Cardinality(stack[running]) + Cardinality(held) < MaxStack
  /\ UNCHANGED <<running, stack, frame, place, host, suspend, gcVars>>

HostReturn(result) ==
  /\ phase = "Idle" /\ host # NoContext /\ result \subseteq held /\ Cardinality(result) < 2
  /\ host' = NoContext /\ held' = {} /\ suspend' = suspend - 1
  /\ Push(result)
  /\ UNCHANGED <<heap, kids, age, allocs, running, frame, place>>
  /\ MaybeCollect

\* An exception leaves doCall() between the ++ and the --.
HostThrow ==
  /\ phase = "Idle" /\ host # NoContext
  /\ host' = NoContext /\ held' = {}
  /\ UNCHANGED <<heap, kids, age, allocs, running, stack, frame, place, suspend,
                 gcVars>>

\* The dispatch loop, every few thousand instructions.
SafePoint ==
  /\ phase = "Idle"
  /\ UNCHANGED <<heap, kids, age, allocs, mutVars>>
  /\ MaybeCollect

\* gc_collect_full() goes to the heap directly, past gc_suspend_counter_.
GcCollectFull ==
  /\ phase = "Idle" /\ (NestedFull \/ host = NoContext)
  /\ UNCHANGED <<heap, kids, age, allocs, mutVars>>
  /\ StartCollection(TRUE)

Program ==
  \/ \E o \in Obj : Alloc(o) \/ Drop(o) \/ Call(o) \/ Return(o) \/ HostAlloc(o)
  \/ \E a, b \in Obj : Store(a, b) \/ Erase(a, b) \/ Load(a, b)
  \/ \E p \in Place, o \in Obj : Put(p, o) \/ Fetch(p, o)
  \/ \E c \in Context : Switch(c)
  \/ \E args \in SUBSET stack[running] : HostEnter(args)
  \/ \E result \in SUBSET held : HostReturn(result)
  \/ HostThrow \/ SafePoint \/ GcCollectFull

Init ==
  /\ heap = {} /\ kids = [o \in Obj |-> {}] /\ age = [o \in Obj |-> 0]
  /\ allocs = 0
  /\ running = Main
  /\ stack = [c \in Context |-> {}] /\ frame = [c \in Context |-> {}]
  /\ place = [p \in Place |-> {}]
  /\ host = NoContext /\ held = {} /\ suspend = 0
  /\ phase = "Idle" /\ marked = {} /\ worklist = {}
  /\ full = FALSE /\ minors = 0

Next == Collector \/ Program

Spec == Init /\ [][Next]_vars

\* Collector: it runs to its end in the call that started it.
\* SafePoint: the dispatch loop passes one again and again.  HostReturn and
\* HostThrow: a host function comes back, one way or the other.
FairSpec ==
  /\ Spec
  /\ WF_vars(Collector)
  /\ WF_vars(SafePoint)
  /\ WF_vars(HostThrow \/ \E result \in SUBSET held : HostReturn(result))

(***************************************************************************)
(* Properties.                                                             *)
(***************************************************************************)
HeapTypeOK ==
  /\ heap \subseteq Obj
  /\ kids \in [Obj -> SUBSET Obj]
  /\ age \in [Obj -> 0..AgeLimit]
  /\ allocs \in 0..AllocBudget
  /\ running \in Context
  /\ stack \in [Context -> SUBSET Obj]
  /\ frame \in [Context -> SUBSET Obj]
  /\ place \in [Place -> SUBSET Obj]
  /\ host \in Context \cup {NoContext}
  /\ held \subseteq Obj
  /\ suspend \in 0..MaxSuspend
  /\ phase \in {"Idle", "Mark", "Sweep"}
  /\ marked \subseteq Obj /\ worklist \subseteq Young
  /\ full \in BOOLEAN /\ minors \in 0..FullInterval

\* What no root of a collection stands for: the main script's stack while it is
\* not registered, the closures below a parked call, the values in places that
\* are not scanned, and those a host function holds that collects by itself.
Missed ==
  (IF MainRegistered \/ running = Main THEN {} ELSE stack[Main])
    \cup (IF NestedParks THEN UNION {frame[c] : c \in Context \ {running}} ELSE {})
    \cup (UNION {place[p] : p \in Place \ Scanned})
    \cup (IF NestedFull THEN held ELSE {})

\* Nothing the program can get hold of has been freed.  As long as nothing is
\* missed: the roots VM.cpp collects cover what a script can reach.
NoDangling == Reachable(ProgramRoots) \subseteq heap

\* A sweep frees an object only if no root of this collection leads to it: the
\* marking that precedes it has found everything, also behind the objects it
\* traces on the spot and behind old ones in a minor collection.
FreesOnlyGarbage ==
  [][\A o \in heap \ heap' : o \notin Reachable(GCRoots)]_vars

\* A full collection leaves nothing behind that no root leads to, but for
\* unfinished coroutines and running threads.
FullLeavesNoGarbage ==
  [][(full /\ phase = "Sweep")
       => heap' \subseteq Reachable(GCRoots) \cup Kept]_vars

\* Once the allocation budget is used up, a collection completes.
DueIsCollected == (allocs = AllocBudget) ~> (allocs = 0)
=============================================================================
