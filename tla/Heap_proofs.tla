---------------------------- MODULE Heap_proofs ----------------------------
(***************************************************************************)
(* Theorems about Heap, for any set of objects, any object graph and any   *)
(* number of executions: types, a sweep frees nothing a root leads to, a   *)
(* full one all the rest, and only a sweep that frees something behind a   *)
(* root the code misses can leave a reference dangling.                    *)
(***************************************************************************)
EXTENDS Heap, TLAPS

-----------------------------------------------------------------------------
(* Closures.                                                                *)

\* A closure holds what it starts from and what its members in D refer to, and
\* lies in every set that does.
LEMMA ClosureFacts ==
    ASSUME NEW S, NEW D, NEW r
    PROVE  /\ Closure(S, D, r) \subseteq Obj
           /\ S \cap Obj \subseteq Closure(S, D, r)
           /\ \A x \in Closure(S, D, r) \cap D : r[x] \cap Obj \subseteq Closure(S, D, r)
           /\ \A T \in SUBSET Obj :
                (S \subseteq T /\ \A x \in T \cap D : r[x] \subseteq T)
                  => Closure(S, D, r) \subseteq T
<1>1. \A x \in Closure(S, D, r) \cap D : r[x] \cap Obj \subseteq Closure(S, D, r)
  <2> SUFFICES ASSUME NEW x \in Closure(S, D, r) \cap D, NEW o \in r[x] \cap Obj,
                      NEW T \in SUBSET Obj,
                      S \subseteq T, \A y \in T \cap D : r[y] \subseteq T
               PROVE  o \in T
    BY DEF Closure
  <2>1. x \in T
    BY DEF Closure
  <2> QED BY <2>1
<1> QED BY <1>1 DEF Closure

-----------------------------------------------------------------------------
(* Types.                                                                   *)

\* The types, the collections counted so far, and that a host function that
\* runs has suspended the collector.
TypeInv ==
  /\ HeapTypeOK
  /\ phase # "Idle" => full \/ minors < FullInterval
  /\ host # NoContext => suspend > 0

\* A collection that starts is well typed.
LEMMA StartTyped ==
    ASSUME NEW f \in BOOLEAN, f \/ minors < FullInterval,
           minors \in 0 .. FullInterval, StartCollection(f)
    PROVE  /\ marked' \subseteq Obj /\ worklist' \subseteq Young
           /\ phase' = "Mark" /\ full' = f /\ minors' = minors
  BY ClosureFacts DEF StartCollection, RootMarks, Trace, Young

\* So is one that may start.
LEMMA MaybeTyped ==
    ASSUME HeapAssumption, TypeInv, phase = "Idle", MaybeCollect
    PROVE  /\ marked' \subseteq Obj /\ worklist' \subseteq Young
           /\ phase' \in {"Idle", "Mark"} /\ full' \in BOOLEAN /\ minors' = minors
           /\ phase' # "Idle" => full' \/ minors' < FullInterval
<1>1. CASE UNCHANGED gcVars
  BY <1>1 DEF gcVars, TypeInv, HeapTypeOK
<1>2. CASE StartCollection(minors >= FullInterval)
  <2>1. (minors >= FullInterval) \in BOOLEAN /\ minors \in 0 .. FullInterval
        /\ ((minors >= FullInterval) \/ minors < FullInterval)
    BY DEF TypeInv, HeapTypeOK, HeapAssumption
  <2> QED BY <1>2, <2>1, StartTyped
<1> QED BY <1>1, <1>2 DEF MaybeCollect

\* The types hold at first and every step keeps them.
THEOREM TypeInductive == TypeInv /\ [Next]_vars => TypeInv'
<1> SUFFICES ASSUME TypeInv, [Next]_vars
             PROVE  TypeInv'
  OBVIOUS
<1> USE HeapAssumption DEF TypeInv, HeapTypeOK
<1>1. ASSUME NEW o \in Obj, Mark(o)
      PROVE  TypeInv'
  BY <1>1, ClosureFacts DEF Mark, Trace, Young, mutVars
<1>2. CASE EndMark
  BY <1>2, ClosureFacts DEF EndMark, RootMarks, Trace, Young, mutVars
<1>3. CASE Sweep
  <2>1. heap' \subseteq heap
    BY <1>3 DEF Sweep
  <2>2. ASSUME NEW o \in heap'
        PROVE  Older(o) \in 0 .. AgeLimit
    BY <2>1, <2>2 DEF Older, Old, Young, HeapAssumption
  <2>3. age' \in [Obj -> 0 .. AgeLimit]
    BY <1>3, <2>2 DEF Sweep, HeapAssumption
  <2>4. minors' \in 0 .. FullInterval /\ allocs' \in 0 .. AllocBudget
    BY <1>3 DEF Sweep, HeapAssumption
  <2> QED BY <1>3, <2>1, <2>3, <2>4 DEF Sweep, mutVars
<1>4. ASSUME NEW o \in Obj, Alloc(o)
      PROVE  TypeInv'
  <2>1. heap' \subseteq Obj /\ kids' \in [Obj -> SUBSET Obj]
        /\ age' \in [Obj -> 0 .. AgeLimit] /\ allocs' \in 0 .. AllocBudget
        /\ stack' \in [Context -> SUBSET Obj]
    BY <1>4 DEF Alloc, Grow, Push, HeapAssumption
  <2> QED BY <1>4, <2>1, MaybeTyped DEF Alloc
<1>5. ASSUME NEW o \in Obj, HostAlloc(o)
      PROVE  TypeInv'
  BY <1>5 DEF HostAlloc, Grow, gcVars, HeapAssumption
<1>6. ASSUME NEW o \in Obj, Drop(o) \/ Call(o) \/ Return(o)
      PROVE  TypeInv'
  BY <1>6 DEF Drop, Call, Return, gcVars
<1>7. ASSUME NEW a \in Obj, NEW b \in Obj, Store(a, b) \/ Erase(a, b)
      PROVE  TypeInv'
  BY <1>7 DEF Store, Erase, mutVars, gcVars
<1>8. ASSUME NEW a \in Obj, NEW b \in Obj, Load(a, b)
      PROVE  TypeInv'
  BY <1>8 DEF Load, Push, gcVars
<1>9. ASSUME NEW p \in Place, NEW o \in Obj, Put(p, o) \/ Fetch(p, o)
      PROVE  TypeInv'
  BY <1>9 DEF Put, Fetch, Push, gcVars
<1>10. ASSUME NEW c \in Context, Switch(c)
       PROVE  TypeInv'
  BY <1>10 DEF Switch, gcVars
<1>11. ASSUME NEW args \in SUBSET stack[running], HostEnter(args)
       PROVE  TypeInv'
  BY <1>11 DEF HostEnter, gcVars, HeapAssumption
<1>12. ASSUME NEW result \in SUBSET held, HostReturn(result)
       PROVE  TypeInv'
  <2>1. stack' \in [Context -> SUBSET Obj] /\ suspend' \in 0 .. MaxSuspend
    BY <1>12 DEF HostReturn, Push, HeapAssumption
  <2> QED BY <1>12, <2>1, MaybeTyped DEF HostReturn
<1>13. CASE HostThrow
  BY <1>13 DEF HostThrow, gcVars
<1>14. CASE SafePoint
  BY <1>14, MaybeTyped DEF SafePoint, mutVars
<1>15. CASE GcCollectFull
  BY <1>15, StartTyped DEF GcCollectFull, mutVars
<1>16. CASE UNCHANGED vars
  BY <1>16 DEF vars, mutVars, gcVars
<1> HIDE DEF TypeInv, HeapTypeOK
<1>17. CASE Collector
  BY <1>1, <1>2, <1>3, <1>17 DEF Collector
<1>18. CASE Program
  <2>1. CASE \E o \in Obj : Alloc(o) \/ Drop(o) \/ Call(o) \/ Return(o) \/ HostAlloc(o)
    BY <1>4, <1>5, <1>6, <2>1
  <2>2. CASE \E a, b \in Obj : Store(a, b) \/ Erase(a, b) \/ Load(a, b)
    BY <1>7, <1>8, <2>2
  <2>3. CASE \E p \in Place, o \in Obj : Put(p, o) \/ Fetch(p, o)
    BY <1>9, <2>3
  <2>4. CASE \/ \E args \in SUBSET stack[running] : HostEnter(args)
             \/ \E result \in SUBSET held : HostReturn(result)
    BY <1>11, <1>12, <2>4
  <2> QED BY <1>10, <1>13, <1>14, <1>15, <1>18, <2>1, <2>2, <2>3, <2>4 DEF Program
<1> QED BY <1>16, <1>17, <1>18 DEF Next

\* The types hold at first.
LEMMA TypeInit == Init => TypeInv
<1> SUFFICES ASSUME Init PROVE TypeInv
  OBVIOUS
<1>1. 0 \in 0 .. AgeLimit /\ 0 \in 0 .. AllocBudget /\ 0 \in 0 .. MaxSuspend
      /\ 0 \in 0 .. FullInterval /\ Main \in Context
  BY HeapAssumption DEF HeapAssumption
<1>2. /\ kids \in [Obj -> SUBSET Obj] /\ age \in [Obj -> 0 .. AgeLimit]
      /\ stack \in [Context -> SUBSET Obj] /\ frame \in [Context -> SUBSET Obj]
      /\ place \in [Place -> SUBSET Obj]
  BY <1>1 DEF Init
<1> QED BY <1>1, <1>2 DEF Init, TypeInv, HeapTypeOK, Young

\* The state keeps its types, ages and counters their limits.
THEOREM TypeCorrect == Spec => []HeapTypeOK
<1>1. Spec => []TypeInv
  BY TypeInit, TypeInductive, PTL DEF Spec
<1>2. TypeInv => HeapTypeOK
  BY DEF TypeInv
<1> QED BY <1>1, <1>2, PTL

-----------------------------------------------------------------------------
(* What a collection frees.                                                 *)

\* While a collection runs every root is marked, and a marked object that is
\* not on the worklist has only marked references.
MarkInv ==
  phase # "Idle" =>
    /\ GCRoots \subseteq marked
    /\ \A x \in (marked \cap heap) \ worklist : kids[x] \subseteq marked
    /\ phase = "Sweep" => worklist = {}

\* Some values of a function into sets of objects.
LEMMA UnionTyped ==
    ASSUME NEW C, NEW f \in [C -> SUBSET Obj], NEW D \in SUBSET C
    PROVE  UNION {f[c] : c \in D} \subseteq Obj
  OBVIOUS

\* The executions whose state is scanned, and the places, exist.
LEMMA Scans ==
    ASSUME NEW c \in Context
    PROVE  Registered \cup {c} \in SUBSET Context /\ Place \cap Scanned \in SUBSET Place
  BY HeapAssumption DEF Registered, HeapAssumption

\* The roots are objects.
LEMMA RootsTyped == TypeInv => GCRoots \subseteq Obj
<1> SUFFICES ASSUME TypeInv PROVE GCRoots \subseteq Obj
  OBVIOUS
<1>0. /\ stack \in [Context -> SUBSET Obj] /\ place \in [Place -> SUBSET Obj]
      /\ Registered \cup {running} \in SUBSET Context /\ Place \cap Scanned \in SUBSET Place
  BY Scans DEF TypeInv, HeapTypeOK
<1>1. UNION {stack[c] : c \in Registered \cup {running}} \subseteq Obj
  BY <1>0, UnionTyped
<1>2. UNION {place[p] : p \in Place \cap Scanned} \subseteq Obj
  BY <1>0, UnionTyped
<1>3. frame[running] \subseteq Obj
  BY DEF TypeInv, HeapTypeOK
<1> QED BY <1>1, <1>2, <1>3 DEF GCRoots, VMRoots, PlaceRoots

\* What markRoots() marks.
LEMMA RootMarksFacts ==
    ASSUME TypeInv
    PROVE  /\ RootMarks \subseteq Obj
           /\ GCRoots \subseteq RootMarks
           /\ \A x \in RootMarks \cap heap \cap Direct : kids[x] \subseteq RootMarks
<1>1. GCRoots \subseteq Obj /\ \A x \in heap : kids[x] \subseteq Obj
  BY RootsTyped DEF TypeInv, HeapTypeOK
<1> QED BY <1>1, ClosureFacts DEF RootMarks, Trace

\* A collection that starts has marked the roots.
LEMMA StartMarks ==
    ASSUME NEW f, StartCollection(f), TypeInv'
    PROVE  MarkInv'
<1>1. GCRoots' \subseteq Obj /\ \A x \in heap' : kids'[x] \subseteq Obj
  <2>1. GCRoots' \subseteq Obj
    <3>0. /\ stack' \in [Context -> SUBSET Obj] /\ place' \in [Place -> SUBSET Obj]
          /\ Registered \cup {running'} \in SUBSET Context
          /\ Place \cap Scanned \in SUBSET Place
      BY Scans DEF TypeInv, HeapTypeOK
    <3>1. UNION {stack'[c] : c \in Registered \cup {running'}} \subseteq Obj
      BY <3>0, UnionTyped
    <3>2. UNION {place'[p] : p \in Place \cap Scanned} \subseteq Obj
      BY <3>0, UnionTyped
    <3>3. frame'[running'] \subseteq Obj
      BY DEF TypeInv, HeapTypeOK
    <3> QED BY <3>1, <3>2, <3>3 DEF GCRoots, VMRoots, PlaceRoots
  <2> QED BY <2>1 DEF TypeInv, HeapTypeOK
<1>2. /\ GCRoots' \subseteq RootMarks'
      /\ \A x \in RootMarks' \cap heap' \cap Direct : kids'[x] \subseteq RootMarks'
  BY <1>1, ClosureFacts DEF RootMarks, Trace
<1> QED BY <1>2 DEF StartCollection, MarkInv

LEMMA MaybeMarks ==
    ASSUME phase = "Idle", MaybeCollect, TypeInv'
    PROVE  MarkInv'
  BY StartMarks DEF MaybeCollect, MarkInv, gcVars

\* The program runs when the collector is idle, and at most starts it.
LEMMA OnlyStarts ==
    ASSUME Program
    PROVE  phase = "Idle" /\ (MaybeCollect \/ UNCHANGED phase \/ StartCollection(TRUE))
<1>1. CASE \E o \in Obj : Alloc(o) \/ Drop(o) \/ Call(o) \/ Return(o) \/ HostAlloc(o)
  BY <1>1 DEF Alloc, Drop, Call, Return, HostAlloc, gcVars
<1>2. CASE \E a, b \in Obj : Store(a, b) \/ Erase(a, b) \/ Load(a, b)
  BY <1>2 DEF Store, Erase, Load, gcVars
<1>3. CASE \E p \in Place, o \in Obj : Put(p, o) \/ Fetch(p, o)
  BY <1>3 DEF Put, Fetch, gcVars
<1>4. CASE \E c \in Context : Switch(c)
  BY <1>4 DEF Switch, gcVars
<1>5. CASE \/ \E args \in SUBSET stack[running] : HostEnter(args)
           \/ \E result \in SUBSET held : HostReturn(result)
  BY <1>5 DEF HostEnter, HostReturn, gcVars
<1>6. CASE HostThrow \/ SafePoint \/ GcCollectFull
  BY <1>6 DEF HostThrow, SafePoint, GcCollectFull, gcVars
<1> QED BY <1>1, <1>2, <1>3, <1>4, <1>5, <1>6 DEF Program

\* The program only runs when no collection does; every step keeps the
\* marking complete up to the worklist.
THEOREM MarkInductive == TypeInv /\ MarkInv /\ [Next]_vars => MarkInv'
<1> SUFFICES ASSUME TypeInv, MarkInv, [Next]_vars
             PROVE  MarkInv'
  OBVIOUS
<1>0. TypeInv'
  BY TypeInductive
<1>1. ASSUME NEW o \in Obj, Mark(o)
      PROVE  MarkInv'
  <2>1. GCRoots' = GCRoots
    BY <1>1 DEF Mark, mutVars, GCRoots, VMRoots, PlaceRoots
  <2>2. /\ Refs(o) \subseteq Obj /\ Refs(o) \subseteq Trace(Refs(o))
        /\ \A x \in Trace(Refs(o)) \cap heap \cap Direct : kids[x] \subseteq Trace(Refs(o))
    BY ClosureFacts DEF Trace, Refs, TypeInv, HeapTypeOK
  <2>3. ASSUME NEW x \in (marked' \cap heap') \ worklist'
        PROVE  kids'[x] \subseteq marked'
    <3>1. CASE x = o
      BY <1>1, <2>2, <2>3, <3>1 DEF Mark, Refs
    <3>2. CASE x # o /\ x \in marked
      BY <1>1, <2>3, <3>2 DEF Mark, MarkInv
    <3>3. CASE x \notin marked
      BY <1>1, <2>2, <2>3, <3>3 DEF Mark
    <3> QED BY <3>1, <3>2, <3>3
  <2> QED BY <1>1, <2>1, <2>3 DEF Mark, MarkInv
<1>2. CASE EndMark
  <2>1. GCRoots' = GCRoots
    BY <1>2 DEF EndMark, mutVars, GCRoots, VMRoots, PlaceRoots
  <2>2. ASSUME NEW x \in (marked' \cap heap') \ worklist'
        PROVE  kids'[x] \subseteq marked'
    BY <1>2, <2>2, RootMarksFacts DEF EndMark, MarkInv
  <2> QED BY <1>2, <2>1, <2>2 DEF EndMark, MarkInv
<1>3. CASE Sweep
  BY <1>3 DEF Sweep, MarkInv
<1>4. CASE phase = "Idle" /\ UNCHANGED <<phase>>
  BY <1>4 DEF MarkInv
<1>5. CASE phase = "Idle" /\ (MaybeCollect \/ \E f \in BOOLEAN : StartCollection(f))
  BY <1>0, <1>5, MaybeMarks, StartMarks
<1>6. CASE Program
  <2>1. phase = "Idle" /\ (MaybeCollect \/ UNCHANGED phase \/ StartCollection(TRUE))
    BY <1>6, OnlyStarts
  <2> QED BY <1>4, <1>5, <2>1
<1>7. CASE UNCHANGED vars
  BY <1>7 DEF vars, mutVars, gcVars, MarkInv, GCRoots, VMRoots, PlaceRoots
<1> QED BY <1>1, <1>2, <1>3, <1>6, <1>7 DEF Next, Collector

\* Behind the roots there are only marked objects when the sweep starts.
LEMMA ReachableMarked ==
    ASSUME TypeInv, MarkInv, phase = "Sweep"
    PROVE  Reachable(GCRoots) \subseteq marked
<1>1. marked \in SUBSET Obj /\ GCRoots \subseteq marked
      /\ \A x \in marked \cap heap : kids[x] \subseteq marked
  BY DEF TypeInv, HeapTypeOK, MarkInv
<1> QED BY <1>1, ClosureFacts DEF Reachable

\* Only Sweep() takes objects away.
LEMMA OnlySweepFrees ==
    ASSUME [Next]_vars, ~Sweep
    PROVE  heap \subseteq heap'
<1>1. CASE Collector
  BY <1>1 DEF Collector, Mark, EndMark
<1>2. CASE Program
  BY <1>2 DEF Program, Alloc, Drop, Call, Return, HostAlloc, Grow, Store, Erase,
              Load, Put, Fetch, Switch, HostEnter, HostReturn, HostThrow,
              SafePoint, GcCollectFull
<1>3. CASE UNCHANGED vars
  BY <1>3 DEF vars
<1> QED BY <1>1, <1>2, <1>3 DEF Next

\* Both invariants hold throughout.
LEMMA Marking == Spec => [](TypeInv /\ MarkInv)
<1>1. Init => TypeInv /\ MarkInv
  BY TypeInit DEF Init, MarkInv
<1>2. TypeInv /\ MarkInv /\ [Next]_vars => (TypeInv /\ MarkInv)'
  BY TypeInductive, MarkInductive
<1> QED BY <1>1, <1>2, PTL DEF Spec

\* A sweep frees nothing that a root of its collection leads to.
THEOREM SweepIsSafe == Spec => FreesOnlyGarbage
<1>1. ASSUME TypeInv, MarkInv, [Next]_vars
      PROVE  [\A o \in heap \ heap' : o \notin Reachable(GCRoots)]_vars
  <2>1. CASE Sweep
    <3>1. \A o \in heap \ heap' : o \notin marked
      BY <2>1 DEF Sweep, Collectable
    <3> QED BY <1>1, <2>1, <3>1, ReachableMarked DEF Sweep
  <2>2. CASE ~Sweep
    BY <1>1, <2>2, OnlySweepFrees
  <2> QED BY <2>1, <2>2
<1> QED BY <1>1, Marking, PTL DEF Spec, FreesOnlyGarbage

-----------------------------------------------------------------------------
(* What a full collection marks.                                            *)

\* Tracing on the spot goes no further than tracing everything.
LEMMA ClosureWithin ==
    ASSUME NEW S, NEW R, NEW D, NEW H, NEW r, D \subseteq H,
           S \subseteq Closure(R, H, r), \A x \in H : r[x] \subseteq Obj
    PROVE  Closure(S, D, r) \subseteq Closure(R, H, r)
<1>1. /\ Closure(R, H, r) \in SUBSET Obj
      /\ \A x \in Closure(R, H, r) \cap D : r[x] \subseteq Closure(R, H, r)
  <2>1. \A x \in Closure(R, H, r) \cap H : r[x] \cap Obj \subseteq Closure(R, H, r)
    BY ClosureFacts
  <2>2. Closure(R, H, r) \subseteq Obj
    BY ClosureFacts
  <2> QED BY <2>1, <2>2
<1> QED BY <1>1, ClosureFacts

\* While a full collection runs, it has marked nothing but what the roots lead
\* to: what is old is no root of it.
FullInv ==
  phase # "Idle" /\ full =>
    marked \subseteq Reachable(GCRoots) /\ worklist \subseteq marked

\* The roots of a full collection, in a state and in the one after a step.
LEMMA FullRootMarks == TypeInv => (full => RootMarks \subseteq Reachable(GCRoots))
<1> SUFFICES ASSUME TypeInv PROVE full => RootMarks \subseteq Reachable(GCRoots)
  OBVIOUS
<1>1. GCRoots \subseteq Reachable(GCRoots)
  BY RootsTyped, ClosureFacts DEF Reachable
<1>2. \A x \in heap : kids[x] \subseteq Obj
  BY DEF TypeInv, HeapTypeOK
<1> QED BY <1>1, <1>2, ClosureWithin DEF RootMarks, Trace, Reachable

LEMMA FullRootMarksNext ==
    (TypeInv => (full => RootMarks \subseteq Reachable(GCRoots)))'
  BY FullRootMarks, PTL

\* A full collection starts from its roots alone.
LEMMA StartIsExact ==
    ASSUME NEW f, StartCollection(f), TypeInv'
    PROVE  FullInv'
<1>1. full' => RootMarks' \subseteq Reachable(GCRoots)'
  BY FullRootMarksNext
<1> QED BY <1>1 DEF StartCollection, FullInv

\* The program only starts a collection; the collector only follows references.
THEOREM FullInductive ==
    ASSUME TypeInv, FullInv, [Next]_vars
    PROVE  FullInv'
<1>0. TypeInv'
  BY TypeInductive
<1>1. ASSUME UNCHANGED <<heap, kids, mutVars>>
      PROVE  Reachable(GCRoots)' = Reachable(GCRoots)
  BY <1>1 DEF mutVars, Reachable, GCRoots, VMRoots, PlaceRoots
<1>2. ASSUME NEW o \in Obj, Mark(o)
      PROVE  FullInv'
  <2>1. CASE full
    <3>1. o \in Reachable(GCRoots)
      BY <1>2, <2>1 DEF Mark, FullInv
    <3>2. Refs(o) \subseteq Reachable(GCRoots)
      BY <3>1, ClosureFacts DEF Refs, Reachable, TypeInv, HeapTypeOK
    <3>3. Trace(Refs(o)) \subseteq Reachable(GCRoots)
      BY <3>2, ClosureWithin DEF Trace, Reachable, TypeInv, HeapTypeOK
    <3> QED BY <1>1, <1>2, <2>1, <3>3 DEF Mark, FullInv
  <2>2. CASE ~full
    BY <1>2, <2>2 DEF Mark, FullInv
  <2> QED BY <2>1, <2>2
<1>3. CASE EndMark
  BY <1>1, <1>3, FullRootMarks DEF EndMark, FullInv
<1>4. CASE Sweep
  BY <1>4 DEF Sweep, FullInv
<1>5. CASE Program
  <2>1. phase = "Idle" /\ (MaybeCollect \/ UNCHANGED phase \/ StartCollection(TRUE))
    BY <1>5, OnlyStarts
  <2>2. CASE MaybeCollect
    BY <1>0, <2>1, <2>2, StartIsExact DEF MaybeCollect, FullInv, gcVars
  <2> QED BY <1>0, <2>1, <2>2, StartIsExact DEF FullInv
<1>6. CASE UNCHANGED vars
  BY <1>1, <1>6 DEF vars, gcVars, FullInv
<1> QED BY <1>2, <1>3, <1>4, <1>5, <1>6 DEF Next, Collector

\* A full collection frees all that its roots do not lead to, but for what is
\* never swept.
THEOREM FullFreesAll == Spec => FullLeavesNoGarbage
<1>1. Init => FullInv
  BY DEF Init, FullInv
<1>2. ASSUME TypeInv, FullInv, [Next]_vars
      PROVE  [(full /\ phase = "Sweep")
                => heap' \subseteq Reachable(GCRoots) \cup Kept]_vars
  <2>1. CASE Sweep
    BY <1>2, <2>1 DEF Sweep, Collectable, FullInv, TypeInv, HeapTypeOK
  <2>2. CASE phase # "Sweep" \/ UNCHANGED vars
    BY <2>2
  <2>3. CASE Program
    BY <2>2, <2>3, OnlyStarts
  <2> QED BY <1>2, <2>1, <2>2, <2>3 DEF Next, Collector, Mark, EndMark
<1>3. TypeInv /\ FullInv /\ [Next]_vars => FullInv'
  BY FullInductive
<1> QED BY <1>1, <1>2, <1>3, Marking, PTL DEF Spec, FullLeavesNoGarbage

-----------------------------------------------------------------------------
(* What the program holds.                                                  *)

\* T holds all that the program holds, and what lies behind it.
Covers(T) ==
  /\ \A c \in Context : stack[c] \cup frame[c] \subseteq T
  /\ \A p \in Place : place[p] \subseteq T
  /\ held \subseteq T
  /\ \A x \in T : kids[x] \subseteq T

\* The roots of the program are objects, too.
LEMMA ProgramRootsTyped == TypeInv => ProgramRoots \subseteq Obj
<1> SUFFICES ASSUME TypeInv PROVE ProgramRoots \subseteq Obj
  OBVIOUS
<1>1. stack \in [Context -> SUBSET Obj] /\ frame \in [Context -> SUBSET Obj]
      /\ place \in [Place -> SUBSET Obj] /\ held \subseteq Obj
  BY DEF TypeInv, HeapTypeOK
<1> QED BY <1>1 DEF ProgramRoots

\* Where nothing dangles, a set of objects in the heap covers the program.
LEMMA SomethingCovers ==
    ASSUME TypeInv, NoDangling
    PROVE  \E T \in SUBSET heap : Covers(T)
<1>1. PICK T : T = Reachable(ProgramRoots)
  OBVIOUS
<1>2. ProgramRoots \subseteq T /\ \A x \in T \cap heap : kids[x] \cap Obj \subseteq T
  BY <1>1, ProgramRootsTyped, ClosureFacts DEF Reachable
<1>3. T \in SUBSET heap /\ \A x \in T : kids[x] \subseteq T
  BY <1>1, <1>2 DEF NoDangling, TypeInv, HeapTypeOK
<1>4. \A c \in Context : stack[c] \cup frame[c] \subseteq ProgramRoots
  BY DEF ProgramRoots
<1>5. \A p \in Place : place[p] \subseteq ProgramRoots
  BY DEF ProgramRoots
<1>6. held \subseteq ProgramRoots
  BY DEF ProgramRoots
<1> QED BY <1>2, <1>3, <1>4, <1>5, <1>6 DEF Covers

\* And the other way round.
LEMMA CoveredIsSafe ==
    ASSUME TypeInv, NEW T \in SUBSET heap, Covers(T)
    PROVE  NoDangling
<1>1. ProgramRoots \subseteq T
  BY DEF Covers, ProgramRoots
<1>2. T \in SUBSET Obj
  BY DEF TypeInv, HeapTypeOK
<1> QED BY <1>1, <1>2, ClosureFacts DEF Covers, NoDangling, Reachable

LEMMA CoveredIsSafeNext ==
    ASSUME TypeInv', NEW T \in SUBSET heap', Covers(T)'
    PROVE  NoDangling'
<1>1. ProgramRoots' \subseteq T
  BY DEF Covers, ProgramRoots
<1>2. T \in SUBSET Obj
  BY DEF TypeInv, HeapTypeOK
<1> QED BY <1>1, <1>2, ClosureFacts DEF Covers, NoDangling, Reachable

\* A set that covers what the program holds before a step, with what it
\* allocates, still does after it.
LEMMA ProgramCovered ==
    ASSUME TypeInv, NEW T \in SUBSET heap, Covers(T), Program
    PROVE  \E U \in SUBSET heap' : Covers(U)'
<1> USE DEF Covers
<1>1. ASSUME NEW o \in Obj, Alloc(o) \/ HostAlloc(o)
      PROVE  \E U \in SUBSET heap' : Covers(U)'
  <2>1. T \cup {o} \in SUBSET heap'
    BY <1>1 DEF Alloc, HostAlloc, Grow
  <2>2. \A x \in T \cup {o} : kids'[x] \subseteq T \cup {o}
    BY <1>1 DEF Alloc, HostAlloc, Grow, TypeInv, HeapTypeOK
  <2>3. \A c \in Context : stack'[c] \cup frame'[c] \subseteq T \cup {o}
    BY <1>1 DEF Alloc, HostAlloc, Push, TypeInv, HeapTypeOK
  <2>4. Covers(T \cup {o})'
    BY <1>1, <2>2, <2>3 DEF Alloc, HostAlloc
  <2> QED BY <2>1, <2>4
<1>2. ASSUME heap' = heap, Covers(T)'
      PROVE  \E U \in SUBSET heap' : Covers(U)'
  BY <1>2
<1>3. ASSUME NEW o \in Obj, Drop(o) \/ Call(o) \/ Return(o)
      PROVE  heap' = heap /\ Covers(T)'
  BY <1>3 DEF Drop, Call, Return, TypeInv, HeapTypeOK
<1>4. ASSUME NEW a \in Obj, NEW b \in Obj, Store(a, b) \/ Erase(a, b)
      PROVE  heap' = heap /\ Covers(T)'
  BY <1>4 DEF Store, Erase, mutVars, TypeInv, HeapTypeOK
<1>5. ASSUME NEW a \in Obj, NEW b \in Obj, Load(a, b)
      PROVE  heap' = heap /\ Covers(T)'
  <2>1. a \in T /\ b \in T
    BY <1>5 DEF Load, TypeInv, HeapTypeOK
  <2> QED BY <1>5, <2>1 DEF Load, Push, TypeInv, HeapTypeOK
<1>6. ASSUME NEW p \in Place, NEW o \in Obj, Put(p, o) \/ Fetch(p, o)
      PROVE  heap' = heap /\ Covers(T)'
  <2>1. o \in T /\ heap' = heap /\ kids' = kids /\ held' = held /\ frame' = frame
    BY <1>6 DEF Put, Fetch, TypeInv, HeapTypeOK
  <2>2. \A c \in Context : stack'[c] \subseteq T
    BY <1>6, <2>1 DEF Put, Fetch, Push, TypeInv, HeapTypeOK
  <2>3. \A q \in Place : place'[q] \subseteq T
    BY <1>6, <2>1 DEF Put, Fetch, TypeInv, HeapTypeOK
  <2> QED BY <2>1, <2>2, <2>3
<1>7. ASSUME NEW c \in Context, Switch(c)
      PROVE  heap' = heap /\ Covers(T)'
  BY <1>7 DEF Switch
<1>8. ASSUME NEW args \in SUBSET stack[running], HostEnter(args)
      PROVE  heap' = heap /\ Covers(T)'
  BY <1>8 DEF HostEnter, TypeInv, HeapTypeOK
<1>9. ASSUME NEW result \in SUBSET held, HostReturn(result)
      PROVE  heap' = heap /\ Covers(T)'
  BY <1>9 DEF HostReturn, Push, TypeInv, HeapTypeOK
<1>10. ASSUME HostThrow \/ SafePoint \/ GcCollectFull
       PROVE  heap' = heap /\ Covers(T)'
  BY <1>10 DEF HostThrow, SafePoint, GcCollectFull, mutVars
<1> HIDE DEF Covers
<1>11. CASE \E o \in Obj : Alloc(o) \/ Drop(o) \/ Call(o) \/ Return(o) \/ HostAlloc(o)
  BY <1>1, <1>2, <1>3, <1>11
<1>12. CASE \E a, b \in Obj : Store(a, b) \/ Erase(a, b) \/ Load(a, b)
  BY <1>2, <1>4, <1>5, <1>12
<1>13. CASE \E p \in Place, o \in Obj : Put(p, o) \/ Fetch(p, o)
  BY <1>2, <1>6, <1>13
<1>14. CASE \/ \E args \in SUBSET stack[running] : HostEnter(args)
            \/ \E result \in SUBSET held : HostReturn(result)
  BY <1>2, <1>8, <1>9, <1>14
<1> QED BY <1>2, <1>7, <1>10, <1>11, <1>12, <1>13, <1>14 DEF Program

\* Only the execution that runs is in a closure's frame, unless a call below it
\* may park, and no host function holds anything while a collection runs that it
\* did not ask for.
HeldInv ==
  /\ ~NestedParks => \A c \in Context \ {running} : frame[c] = {}
  /\ host = NoContext => held = {}
  /\ phase # "Idle" /\ ~NestedFull => held = {}

THEOREM HeldInductive ==
    ASSUME TypeInv, HeldInv, [Next]_vars
    PROVE  HeldInv'
<1>1. CASE Collector \/ UNCHANGED vars
  BY <1>1 DEF HeldInv, Collector, Mark, EndMark, Sweep, vars, mutVars, gcVars
<1>2. CASE Program
  <2>1. phase = "Idle"
    BY <1>2, OnlyStarts
  <2>2. ASSUME MaybeCollect, suspend' = suspend, host' = host, held' = held
        PROVE  phase' # "Idle" => held' = {}
    BY <2>1, <2>2 DEF MaybeCollect, gcVars, TypeInv, HeapTypeOK, HeldInv
  <2>3. ASSUME NEW o \in Obj, Alloc(o)
        PROVE  phase' # "Idle" => held' = {}
    BY <2>2, <2>3 DEF Alloc
  <2>4. ASSUME NEW result \in SUBSET held, HostReturn(result)
        PROVE  phase' # "Idle" => held' = {}
    BY <2>4 DEF HostReturn
  <2>5. ASSUME SafePoint
        PROVE  phase' # "Idle" => held' = {}
    BY <2>2, <2>5 DEF SafePoint, mutVars
  <2>6. ASSUME GcCollectFull, ~NestedFull
        PROVE  held' = {}
    BY <2>6 DEF GcCollectFull, mutVars, HeldInv
  <2>7. phase' # "Idle" /\ ~NestedFull => held' = {}
    BY <1>2, <2>1, <2>3, <2>4, <2>5, <2>6
       DEF Program, gcVars, Drop, Call, Return, HostAlloc, Store, Erase, Load, Put,
           Fetch, Switch, HostEnter, HostThrow
  <2>8. host' = NoContext => held' = {}
    BY <1>2, HeapAssumption
       DEF HeapAssumption, HeldInv, TypeInv, HeapTypeOK, mutVars,
           Program, Alloc, Drop, Call, Return, HostAlloc, Store, Erase, Load, Put,
           Fetch, Switch, HostEnter, HostReturn, HostThrow, SafePoint, GcCollectFull
  <2>9. ASSUME ~NestedParks
        PROVE  \A c \in Context \ {running'} : frame'[c] = {}
    BY <1>2, <2>9 DEF HeldInv, TypeInv, HeapTypeOK, mutVars,
           Program, Alloc, Drop, Call, Return, HostAlloc, Store, Erase, Load, Put,
           Fetch, Switch, HostEnter, HostReturn, HostThrow, SafePoint, GcCollectFull
  <2> QED BY <2>7, <2>8, <2>9 DEF HeldInv
<1> QED BY <1>1, <1>2 DEF Next

\* While a collection runs, what the program holds is a root of it or missed.
LEMMA RootsAreKnown ==
    ASSUME HeldInv, phase # "Idle"
    PROVE  ProgramRoots \subseteq GCRoots \cup Missed
<1>1. ASSUME NEW c \in Context
      PROVE  stack[c] \subseteq GCRoots \cup Missed
  BY DEF GCRoots, VMRoots, Registered, Missed
<1>2. ASSUME NEW c \in Context
      PROVE  frame[c] \subseteq GCRoots \cup Missed
  BY DEF HeldInv, GCRoots, VMRoots, Missed
<1>3. ASSUME NEW p \in Place
      PROVE  place[p] \subseteq GCRoots \cup Missed
  BY DEF GCRoots, PlaceRoots, Missed
<1>4. held \subseteq GCRoots \cup Missed
  BY DEF HeldInv, Missed
<1> QED BY <1>1, <1>2, <1>3, <1>4 DEF ProgramRoots

\* What lies behind two sets lies behind one of them.
LEMMA BehindBoth ==
    ASSUME NEW R, NEW S, NEW P, R \subseteq Obj, S \subseteq Obj, P \subseteq R \cup S,
           \A x \in heap : kids[x] \subseteq Obj
    PROVE  Reachable(P) \subseteq Reachable(R) \cup Reachable(S)
<1>1. PICK U : U = Reachable(R) \cup Reachable(S)
  OBVIOUS
<1>2. /\ Reachable(R) \subseteq Obj /\ Reachable(S) \subseteq Obj
      /\ R \subseteq Reachable(R) /\ S \subseteq Reachable(S)
  BY ClosureFacts DEF Reachable
<1>3. \A x \in Reachable(R) \cap heap : kids[x] \subseteq Reachable(R)
  BY ClosureFacts DEF Reachable
<1>4. \A x \in Reachable(S) \cap heap : kids[x] \subseteq Reachable(S)
  BY ClosureFacts DEF Reachable
<1>5. U \in SUBSET Obj /\ P \subseteq U /\ \A x \in U \cap heap : kids[x] \subseteq U
  BY <1>1, <1>2, <1>3, <1>4
<1> QED BY <1>1, <1>5, ClosureFacts DEF Reachable

\* The sweep that lets a reference dangle frees something behind a missed root.
LEMMA SweepMisses ==
    ASSUME TypeInv, MarkInv, HeldInv, NoDangling, Sweep, TypeInv'
    PROVE  NoDangling' \/ \E o \in heap \ heap' : o \in Reachable(Missed) \ Reachable(GCRoots)
<1> SUFFICES ASSUME \A o \in heap \ heap' : o \notin Reachable(Missed) \ Reachable(GCRoots)
             PROVE  NoDangling'
  OBVIOUS
<1>1. /\ heap' \subseteq heap /\ kids' = kids /\ phase = "Sweep"
      /\ ProgramRoots' = ProgramRoots
  BY DEF Sweep, mutVars, ProgramRoots
<1>2. \A o \in heap \ heap' : o \notin Reachable(GCRoots)
  BY <1>1, ReachableMarked DEF Sweep, Collectable
<1>3. Reachable(ProgramRoots) \subseteq Reachable(GCRoots) \cup Reachable(Missed \cap Obj)
  <2>1. ProgramRoots \subseteq GCRoots \cup (Missed \cap Obj)
    BY <1>1, RootsAreKnown, ProgramRootsTyped
  <2> QED BY <2>1, BehindBoth, RootsTyped DEF TypeInv, HeapTypeOK
<1>4. Reachable(Missed \cap Obj) \subseteq Reachable(Missed)
  BY DEF Reachable, Closure
<1>5. Reachable(ProgramRoots) \subseteq heap'
  BY <1>2, <1>3, <1>4 DEF NoDangling
<1>6. PICK T : T = Reachable(ProgramRoots)
  OBVIOUS
<1>7. ProgramRoots \subseteq T /\ \A x \in T \cap heap : kids[x] \cap Obj \subseteq T
  BY <1>6, ProgramRootsTyped, ClosureFacts DEF Reachable
<1>8. T \in SUBSET Obj /\ ProgramRoots' \subseteq T /\ \A x \in T \cap heap' : kids'[x] \subseteq T
  BY <1>1, <1>5, <1>6, <1>7 DEF TypeInv, HeapTypeOK
<1> QED BY <1>5, <1>6, <1>8, ClosureFacts DEF NoDangling, Reachable

\* The first reference that dangles was made to by a sweep, which freed something
\* that only a root the code misses led to: no other step, and no root that VM.cpp
\* collects, has a part in it.  Where Missed is empty nothing ever dangles.
THEOREM DanglesOnlyBehindMissed ==
  Spec => /\ NoDangling
          /\ [][NoDangling /\ ~NoDangling'
                  => /\ phase = "Sweep"
                     /\ \E o \in heap \ heap' :
                           o \in Reachable(Missed) \ Reachable(GCRoots)]_vars
<1>1. Init => HeldInv /\ NoDangling
  <2> SUFFICES ASSUME Init PROVE HeldInv /\ NoDangling
    OBVIOUS
  <2>1. Covers({}) /\ {} \in SUBSET heap
    BY DEF Init, Covers
  <2> QED BY <2>1, TypeInit, CoveredIsSafe DEF Init, HeldInv
<1>2. TypeInv /\ HeldInv /\ [Next]_vars => HeldInv'
  BY HeldInductive
<1>3. ASSUME TypeInv, MarkInv, HeldInv, [Next]_vars
      PROVE  [NoDangling /\ ~NoDangling'
                => /\ phase = "Sweep"
                   /\ \E o \in heap \ heap' : o \in Reachable(Missed) \ Reachable(GCRoots)]_vars
  <2> SUFFICES ASSUME NoDangling, ~NoDangling', Next
               PROVE  /\ phase = "Sweep"
                      /\ \E o \in heap \ heap' : o \in Reachable(Missed) \ Reachable(GCRoots)
    BY <1>3
  <2>0. TypeInv'
    BY <1>3, TypeInductive
  <2>1. CASE (\E o \in Obj : Mark(o)) \/ EndMark
    <3>1. UNCHANGED <<heap, kids, mutVars>>
      BY <2>1 DEF Mark, EndMark
    <3>2. NoDangling' = NoDangling
      BY <3>1 DEF mutVars, NoDangling, Reachable, ProgramRoots
    <3> QED BY <3>2
  <2>2. CASE Sweep
    BY <1>3, <2>0, <2>2, SweepMisses DEF Sweep
  <2>3. CASE Program
    <3>1. PICK T \in SUBSET heap : Covers(T)
      BY <1>3, SomethingCovers
    <3>2. PICK U \in SUBSET heap' : Covers(U)'
      BY <1>3, <2>3, <3>1, ProgramCovered
    <3> QED BY <2>0, <3>2, CoveredIsSafeNext
  <2> QED BY <2>1, <2>2, <2>3 DEF Next, Collector
<1> QED BY <1>1, <1>2, <1>3, Marking, PTL DEF Spec
=============================================================================
