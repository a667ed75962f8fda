------------------------- MODULE ModuleLoader_proofs -------------------------
(***************************************************************************)
(* Theorems about ModuleLoader, for any modules, any programs that import  *)
(* them and any number of edits and restarts.                              *)
(***************************************************************************)
EXTENDS ModuleLoader, FiniteSetTheorems, TLAPS

-----------------------------------------------------------------------------
(* The helpers the actions are built from.                                 *)

\* A canonical key is the reference itself or a file that answers it.
LEMMA KeyFacts ==
    ASSUME ModuleAssumption, NEW r \in Ref
    PROVE  /\ CanonicalKey(r) \in Key
           /\ CanonicalKey(r).kind \in {"src", "hvc"} => CanonicalKey(r) \in FileKey
<1>1. Resolved(r) \subseteq FileKey
  BY DEF Resolved, FileKey, ByName, Named, Local, Flat, Ref, Src, Hvc, Rel, Bare, ModuleAssumption
<1>2. FileKey \subseteq Key
  BY DEF FileKey, Key, Ref
<1>3. CASE Resolved(r) = {}
  <2>1. CanonicalKey(r) = r
    BY <1>3 DEF CanonicalKey
  <2>2. r \in Key
    BY DEF Key
  <2>3. r.kind \in {"src", "hvc"} => r \in FileKey
    BY DEF Ref, Src, Hvc, Rel, Bare, FileKey
  <2> QED BY <2>1, <2>2, <2>3
<1>4. CASE Resolved(r) # {}
  BY <1>1, <1>2, <1>4 DEF CanonicalKey
<1> QED BY <1>3, <1>4

\* The import that misses is the running unit's own, and its key is new.
LEMMA MissFacts ==
    ASSUME ModuleAssumption, ModuleLoaderTypeOK, NEW r \in Ref, NEW k \in Key, Misses(r, k)
    PROVE  /\ k.kind \in {"src", "hvc"} => /\ k \in FileKey
                                           /\ k.of \in Module
           /\ Top.phase = "running" /\ Top.todo # <<>>
           /\ globals[r] = 0
<1>1. k = CanonicalKey(r) /\ Top.phase = "running" /\ Top.todo # <<>> /\ globals[r] = 0
  BY DEF Misses, Imported
<1>2. k.kind \in {"src", "hvc"} => k \in FileKey
  BY <1>1, KeyFacts
<1>3. \A x \in FileKey : x.of \in Module
  BY DEF FileKey, Src, Hvc
<1> QED BY <1>1, <1>2, <1>3

\* The imports of a unit go by without touching the rest of the frames.
LEMMA AdvancedFacts ==
    ASSUME ModuleLoaderTypeOK, Top.todo # <<>>
    PROVE  /\ Advanced \in Seq(Frame) /\ Len(Advanced) = Depth
           /\ \A i \in 1 .. Depth :
                 /\ Advanced[i].unit = stack[i].unit /\ Advanced[i].key = stack[i].key
                 /\ Advanced[i].ref = stack[i].ref /\ Advanced[i].phase = stack[i].phase
                 /\ Advanced[i].inst = stack[i].inst /\ Advanced[i].saved = stack[i].saved
                 /\ Advanced[i].ver = stack[i].ver
                 /\ Advanced[i].savedDir = stack[i].savedDir
<1> DEFINE f == [stack[Depth] EXCEPT !.todo = Tail(@)]
<1>1. stack \in Seq(Frame) /\ Depth \in 1 .. Depth /\ Top = stack[Depth] /\ Top \in Frame
  BY DEF ModuleLoaderTypeOK, NestTypeOK, Depth, Top
<1>2. Top.todo \in Seq(Ref) /\ Tail(Top.todo) \in Seq(Ref)
  BY <1>1 DEF Frame
<1>3. f \in Frame /\ f.unit = Top.unit /\ f.key = Top.key /\ f.ref = Top.ref /\ f.phase = Top.phase
      /\ f.inst = Top.inst /\ f.saved = Top.saved /\ f.savedDir = Top.savedDir /\ f.ver = Top.ver
  BY <1>1, <1>2 DEF Frame
<1>4. Advanced = [stack EXCEPT ![Depth] = f]
  BY DEF Advanced
<1> HIDE DEF f
<1>5. Advanced \in Seq(Frame) /\ Len(Advanced) = Depth
      /\ \A i \in 1 .. Depth : Advanced[i] = IF i = Depth THEN f ELSE stack[i]
  BY <1>1, <1>3, <1>4 DEF Depth
<1> QED BY <1>1, <1>3, <1>5

\* What the nest looks like when a load begins.
LEMMA PushedFacts ==
    ASSUME ModuleAssumption, ModuleLoaderTypeOK, NEW r \in Ref, NEW k \in FileKey,
           NEW phase \in Phase, NEW ver \in Version, NEW inst \in Nat,
           k.of \in Module, Top.todo # <<>>
    PROVE  LET s == Pushed(r, k, phase, ver, inst)
           IN  /\ s \in Seq(Frame) /\ Len(s) = Depth + 1
               /\ s[Depth + 1].unit = k.of /\ s[Depth + 1].key = k /\ s[Depth + 1].ref = r
               /\ s[Depth + 1].phase = phase /\ s[Depth + 1].inst = inst
               /\ s[Depth + 1].saved = globals /\ s[Depth + 1].savedDir = dir
               /\ s[Depth + 1].ver = ver
               /\ \A i \in 1 .. Depth :
                     /\ s[i].unit = stack[i].unit /\ s[i].key = stack[i].key
                     /\ s[i].ref = stack[i].ref /\ s[i].phase = stack[i].phase
                     /\ s[i].inst = stack[i].inst /\ s[i].saved = stack[i].saved
                     /\ s[i].savedDir = stack[i].savedDir /\ s[i].ver = stack[i].ver
<1> DEFINE f == [unit |-> k.of, key |-> k, ref |-> r, phase |-> phase, ver |-> ver,
                 inst |-> inst, todo |-> Imports[k.of], saved |-> globals, savedDir |-> dir]
<1>1. Imports[k.of] \in Seq(Ref) /\ k.of \in Unit
  BY DEF ModuleAssumption, Unit
<1>2. globals \in [Ref -> Nat] /\ dir \in Dir
  BY DEF ModuleLoaderTypeOK, NestTypeOK
<1>3. f \in Frame /\ f.unit = k.of /\ f.key = k /\ f.ref = r /\ f.phase = phase /\ f.inst = inst
      /\ f.saved = globals /\ f.savedDir = dir /\ f.ver = ver
  BY <1>1, <1>2 DEF Frame
<1>4. Pushed(r, k, phase, ver, inst) = Append(Advanced, f)
  BY DEF Pushed
<1>5. Depth \in Nat
  BY DEF Depth, ModuleLoaderTypeOK, NestTypeOK
<1> HIDE DEF f
<1>6. /\ Append(Advanced, f) \in Seq(Frame) /\ Len(Append(Advanced, f)) = Depth + 1
      /\ Append(Advanced, f)[Depth + 1] = f
      /\ \A i \in 1 .. Depth : Append(Advanced, f)[i] = Advanced[i]
  BY <1>3, <1>5, AdvancedFacts
<1> QED BY <1>3, <1>4, <1>6, AdvancedFacts

\* The nest after a load ended, with the importer on top.
LEMMA CallersFacts ==
    ASSUME ModuleLoaderTypeOK, Depth > 1
    PROVE  /\ Depth \in Nat /\ Depth \in Loaded
           /\ Callers \in Seq(Frame) /\ Len(Callers) = Depth - 1
           /\ \A i \in 1 .. Depth - 1 : Callers[i] = stack[i]
           /\ Top = stack[Depth] /\ Top \in Frame /\ LoadTypeOK(Top)
<1>1. stack \in Seq(Frame) /\ Depth = Len(stack) /\ Depth \in Nat
  BY DEF ModuleLoaderTypeOK, NestTypeOK, Depth
<1>2. Depth \in Loaded /\ Top = stack[Depth] /\ Top \in Frame
  BY <1>1 DEF Loaded, Top
<1>3. LoadTypeOK(Top)
  BY <1>2 DEF ModuleLoaderTypeOK, NestTypeOK
<1>4. Callers = SubSeq(stack, 1, Depth - 1)
  BY <1>1 DEF Callers
<1>5. Callers \in Seq(Frame) /\ Len(Callers) = Depth - 1 /\ \A i \in 1 .. Depth - 1 : Callers[i] = stack[i]
  BY <1>1, <1>4
<1> QED BY <1>1, <1>2, <1>3, <1>5

\* Nobody but the loads in progress is still writing a file.
LEMMA TopLoads ==
    ASSUME ModuleLoaderTypeOK, Top.phase # "running"
    PROVE  Depth > 1
BY DEF ModuleLoaderTypeOK, NestTypeOK, Top, Depth

-----------------------------------------------------------------------------
(* Types.                                                                  *)

\* An entry of the memory cache comes from a file.
LEMMA SweptType ==
    ASSUME ModuleLoaderTypeOK, NEW r \in Ref
    PROVE  /\ Swept(r) \in [Key -> Entry \union {None}]
           /\ \A k \in Key : Swept(r)[k] # None => Swept(r)[k] = cache[k]
BY DEF ModuleLoaderTypeOK, NestTypeOK, Swept, Put

\* A touched entry keeps its instance.
LEMMA TouchedType ==
    ASSUME NEW c \in [Key -> Entry \union {None}], NEW k
    PROVE  /\ Touched(c, k) \in [Key -> Entry \union {None}]
           /\ \A x \in Key : /\ Touched(c, k)[x] # None => c[x] # None
                             /\ c[x] # None => Touched(c, k)[x].inst = c[x].inst
BY DEF Touched, Entry

\* One more instance in the log leaves the older ones where they are.
LEMMA StartedFacts ==
    ASSUME ModuleLoaderTypeOK, NEW m \in Module, NEW ver \in Version
    PROVE  /\ Started(m, ver) \in Seq(Run)
           /\ DOMAIN Started(m, ver) = DOMAIN log \union {Len(log) + 1}
           /\ Len(log) + 1 \in Nat
           /\ \A n \in DOMAIN log : Started(m, ver)[n] = log[n]
<1> DEFINE x == [of |-> m, ver |-> ver, done |-> FALSE]
<1>1. log \in Seq(Run) /\ x \in Run
  BY DEF ModuleLoaderTypeOK, Run
<1>2. Started(m, ver) = Append(log, x)
  BY DEF Started
<1> HIDE DEF x
<1>3. Append(log, x) \in Seq(Run) /\ DOMAIN Append(log, x) = DOMAIN log \union {Len(log) + 1}
      /\ Len(log) + 1 \in Nat /\ \A n \in DOMAIN log : Append(log, x)[n] = log[n]
  BY <1>1
<1> QED BY <1>2, <1>3

\* The frames keep their types when a load is pushed on them.
LEMMA PushedType ==
    ASSUME ModuleAssumption, ModuleLoaderTypeOK, NEW r \in Ref, NEW k \in FileKey,
           NEW phase \in Phase, NEW ver \in Version, NEW inst \in Nat,
           k.of \in Module, Top.todo # <<>>, stack' = Pushed(r, k, phase, ver, inst),
           DOMAIN log \subseteq DOMAIN log',
           inst \in IF phase = "running" THEN DOMAIN log' ELSE {0}
    PROVE  NestTypeOK'
<1>1. Depth \in Nat /\ Depth >= 1
  BY DEF ModuleLoaderTypeOK, NestTypeOK, Depth
<1>2. stack' \in Seq(Frame) /\ Depth' = Depth + 1
  BY PushedFacts DEF Depth
<1>3. stack'[1].unit = stack[1].unit /\ stack'[1].phase = stack[1].phase
  <2>1. 1 \in 1 .. Depth
    BY <1>1
  <2> QED BY <2>1, PushedFacts
<1>4. ASSUME NEW i \in Loaded' PROVE LoadTypeOK(stack[i])'
  <2>1. CASE i = Depth + 1
    BY <2>1, PushedFacts DEF LoadTypeOK
  <2>2. CASE i # Depth + 1
    <3>1. i \in Loaded /\ i \in 1 .. Depth
      BY <1>1, <1>2, <2>2 DEF Loaded
    <3>2. LoadTypeOK(stack[i])
      BY <3>1 DEF ModuleLoaderTypeOK, NestTypeOK
    <3> QED BY <3>1, <3>2, PushedFacts DEF LoadTypeOK
  <2> QED BY <2>1, <2>2
<1> QED BY <1>1, <1>2, <1>3, <1>4 DEF ModuleLoaderTypeOK, NestTypeOK

\* The nest keeps its types when an import goes by,
LEMMA AdvancedType ==
    ASSUME ModuleLoaderTypeOK, Top.todo # <<>>, stack' = Advanced, UNCHANGED log
    PROVE  NestTypeOK'
<1>1. Depth \in Nat /\ Depth >= 1 /\ Depth' = Depth /\ stack' \in Seq(Frame)
  BY AdvancedFacts DEF ModuleLoaderTypeOK, NestTypeOK, Depth
<1>2. stack'[1].unit = Script /\ stack'[1].phase = "running"
  BY <1>1, AdvancedFacts DEF ModuleLoaderTypeOK, NestTypeOK
<1>3. ASSUME NEW i \in Loaded' PROVE LoadTypeOK(stack[i])'
  <2>1. i \in Loaded /\ i \in 1 .. Depth
    BY <1>1 DEF Loaded
  <2>2. LoadTypeOK(stack[i])
    BY <2>1 DEF ModuleLoaderTypeOK, NestTypeOK
  <2> QED BY <2>1, <2>2, AdvancedFacts DEF LoadTypeOK
<1> QED BY <1>1, <1>2, <1>3 DEF NestTypeOK

\* when a load ends,
LEMMA CallersType ==
    ASSUME ModuleLoaderTypeOK, Depth > 1, stack' = Callers, DOMAIN log \subseteq DOMAIN log'
    PROVE  NestTypeOK'
<1>1. Depth \in Nat /\ Depth' = Depth - 1 /\ stack' \in Seq(Frame) /\ stack'[1] = stack[1]
  BY CallersFacts DEF Depth
<1>2. ASSUME NEW i \in Loaded' PROVE LoadTypeOK(stack[i])'
  <2>1. i \in Loaded /\ stack'[i] = stack[i]
    BY <1>1, CallersFacts DEF Loaded
  <2>2. LoadTypeOK(stack[i])
    BY <2>1 DEF ModuleLoaderTypeOK, NestTypeOK
  <2> QED BY <2>1, <2>2 DEF LoadTypeOK
<1> QED BY <1>1, <1>2 DEF ModuleLoaderTypeOK, NestTypeOK

\* The log after the instance n finished.
LEMMA FinishedType ==
    ASSUME ModuleLoaderTypeOK, NEW n \in DOMAIN log
    PROVE  /\ [log EXCEPT ![n].done = TRUE] \in Seq(Run)
           /\ DOMAIN [log EXCEPT ![n].done = TRUE] = DOMAIN log
           /\ [log EXCEPT ![n].done = TRUE][n].done
           /\ \A x \in DOMAIN log : log[x].done => [log EXCEPT ![n].done = TRUE][x].done
<1> DEFINE e == [log[n] EXCEPT !.done = TRUE]
<1>1. log \in Seq(Run) /\ log[n] \in Run
  BY DEF ModuleLoaderTypeOK
<1>2. e \in Run /\ e.done
  BY <1>1 DEF Run
<1>3. [log EXCEPT ![n].done = TRUE] = [log EXCEPT ![n] = e]
  OBVIOUS
<1> HIDE DEF e
<1>4. [log EXCEPT ![n] = e] \in Seq(Run) /\ DOMAIN [log EXCEPT ![n] = e] = DOMAIN log
      /\ [log EXCEPT ![n] = e][n] = e
      /\ \A x \in DOMAIN log : x # n => [log EXCEPT ![n] = e][x] = log[x]
  BY <1>1, <1>2
<1> QED BY <1>2, <1>3, <1>4

\* A process that begins, whatever files it finds.
InitialRun ==
    /\ cache = [k \in Key |-> None] /\ loading = {} /\ stack = <<ScriptFrame>>
    /\ dir = ScriptDir /\ globals = NoObjects /\ raised = FALSE /\ log = << >>

\* The frame of the main script.
LEMMA InitialType ==
    ASSUME ModuleAssumption
    PROVE  /\ <<ScriptFrame>> \in Seq(Frame) /\ Len(<<ScriptFrame>>) = 1
           /\ <<ScriptFrame>>[1] = ScriptFrame
           /\ ScriptFrame.unit = Script /\ ScriptFrame.phase = "running"
           /\ NoObjects \in [Ref -> Nat] /\ ScriptDir \in Dir
           /\ << >> \in Seq(Run)
<1>0. NoObjects \in [Ref -> Nat]
  BY DEF NoObjects
<1>1. ScriptFrame \in Frame
  BY <1>0 DEF ScriptFrame, Frame, Unit, Phase, Version, Dir, ModuleAssumption
<1> QED BY <1>0, <1>1 DEF ScriptFrame, Dir

\* A process begins with a well-typed state.
LEMMA InitialTyped ==
    ASSUME ModuleAssumption
    PROVE  /\ InitialRun /\ file \in [Module -> File] /\ restarts \in 0 .. MaxRestarts
                => ModuleLoaderTypeOK
           /\ InitialRun' /\ (file \in [Module -> File])' /\ (restarts \in 0 .. MaxRestarts)'
                => ModuleLoaderTypeOK'
<1>1. ASSUME InitialRun PROVE NestTypeOK
  BY <1>1, InitialType DEF InitialRun, NestTypeOK, Loaded, Depth
<1>2. ASSUME InitialRun' PROVE NestTypeOK'
  BY <1>2, InitialType DEF InitialRun, NestTypeOK, Loaded, Depth
<1> QED BY <1>1, <1>2, InitialType DEF InitialRun, ModuleLoaderTypeOK

\* The record of one module is replaced.
LEMMA FileType ==
    ASSUME ModuleLoaderTypeOK, NEW m \in Module, NEW f \in File
    PROVE  [file EXCEPT ![m] = f] \in [Module -> File]
BY DEF ModuleLoaderTypeOK

\* Every file lies in a directory.
LEMMA DirTyped == \A k \in FileKey : DirOf(k) \in Dir
BY DEF DirOf, FileKey, Src, Hvc, Dir

\* resolve() answers with bytecode only where there is a file.
LEMMA BytecodeExists ==
    ASSUME ModuleAssumption, ModuleLoaderTypeOK, NEW r \in Ref, NEW k \in Key, Misses(r, k),
           k.kind = "hvc", file[k.of].hvc # Torn
    PROVE  file[k.of].hvc \in Version
<1>1. k = CanonicalKey(r)
  BY DEF Misses
<1>2. r.kind # "hvc"
  BY DEF Ref, Src, Rel, Bare
<1>3. k \in Resolved(r)
  BY <1>1, <1>2 DEF CanonicalKey
<1>4. ASSUME NEW x \in Resolved(r), x.kind = "hvc" PROVE x.of \in Module /\ Trusted(x.of)
  BY <1>4 DEF Resolved, ByName, Named, Local, Flat, Src, Hvc, Ref, Rel, Bare, ModuleAssumption
<1> QED BY <1>3, <1>4 DEF Trusted, ModuleLoaderTypeOK, NestTypeOK, File

\* The unit on top goes on to another phase of its load.
LEMMA PhaseType ==
    ASSUME ModuleLoaderTypeOK, Depth > 1, NEW phase \in Phase, NEW inst \in Nat,
           stack' = [stack EXCEPT ![Depth] = [Top EXCEPT !.phase = phase, !.inst = inst]],
           DOMAIN log \subseteq DOMAIN log',
           inst \in IF phase = "running" THEN DOMAIN log' ELSE {0}
    PROVE  NestTypeOK'
<1> DEFINE f == [Top EXCEPT !.phase = phase, !.inst = inst]
<1>1. stack \in Seq(Frame) /\ Depth = Len(stack) /\ Top \in Frame /\ LoadTypeOK(Top)
  BY CallersFacts DEF ModuleLoaderTypeOK, NestTypeOK, Depth
<1>2. f \in Frame /\ f.phase = phase /\ f.inst = inst /\ f.unit = Top.unit /\ f.key = Top.key
      /\ f.ref = Top.ref
  BY <1>1 DEF Frame
<1>3. f.unit \in Module /\ f.ref \in Ref /\ f.key \in FileKey /\ f.key.of = f.unit
  BY <1>1, <1>2 DEF LoadTypeOK
<1>6. stack' = [stack EXCEPT ![Depth] = f]
  OBVIOUS
<1> HIDE DEF f
<1>4. stack' \in Seq(Frame) /\ Depth' = Depth /\ stack'[1] = stack[1]
      /\ \A i \in Loaded : stack'[i] = IF i = Depth THEN f ELSE stack[i]
  BY <1>1, <1>2, <1>6 DEF Depth, Loaded
<1>5. ASSUME NEW i \in Loaded' PROVE LoadTypeOK(stack[i])'
  <2>1. i \in Loaded /\ LoadTypeOK(stack[i])
    BY <1>4 DEF Loaded, ModuleLoaderTypeOK, NestTypeOK
  <2>2. CASE i = Depth
    BY <1>2, <1>3, <1>4, <2>1, <2>2 DEF LoadTypeOK
  <2>3. CASE i # Depth
    BY <1>4, <2>1, <2>3 DEF LoadTypeOK
  <2> QED BY <2>2, <2>3
<1> QED BY <1>4, <1>5 DEF ModuleLoaderTypeOK, NestTypeOK

\* and when no load is concerned.
LEMMA NestUnchanged ==
    ASSUME ModuleLoaderTypeOK, UNCHANGED <<stack, log>>
    PROVE  NestTypeOK'
BY DEF ModuleLoaderTypeOK, NestTypeOK, LoadTypeOK, Loaded, Depth

\* The types are inductive.
LEMMA Step ==
    ASSUME ModuleAssumption, ModuleLoaderTypeOK, [Next]_vars
    PROVE  ModuleLoaderTypeOK'
<1>1. CASE UNCHANGED vars
  BY <1>1, NestUnchanged DEF vars, ModuleLoaderTypeOK
<1>2. ASSUME NEW r \in Ref, UseGlobal(r) PROVE ModuleLoaderTypeOK'
  BY <1>2, AdvancedType DEF UseGlobal, Imported, ModuleLoaderTypeOK
<1>3. ASSUME NEW r \in Ref, UseCached(r) PROVE ModuleLoaderTypeOK'
  BY <1>3, AdvancedType, SweptType DEF UseCached, Imported, ModuleLoaderTypeOK
<1>4. ASSUME NEW r \in Ref, ImportFails(r) PROVE ModuleLoaderTypeOK'
  <2>1. Top.todo # <<>>
    BY <1>4 DEF ImportFails, Misses, Imported
  <2>2. cache' \in [Key -> Entry \union {None}]
    BY <1>4, SweptType DEF ImportFails
  <2> QED BY <1>4, <2>1, <2>2, AdvancedType DEF ImportFails, ModuleLoaderTypeOK
<1>5. ASSUME NEW r \in Ref, LoadBytecode(r) PROVE ModuleLoaderTypeOK'
  <2>1. PICK k \in Key : /\ Misses(r, k) /\ k \notin loading
                         /\ k.kind = "hvc" /\ file[k.of].hvc # Torn
                         /\ loading' = loading \union {k} /\ cache' = Swept(r)
                         /\ stack' = Pushed(r, k, "running", file[k.of].hvc, Len(log) + 1)
                         /\ log' = Started(k.of, file[k.of].hvc) /\ dir' = DirOf(k)
                         /\ UNCHANGED <<file, globals, raised, restarts>>
    BY <1>5 DEF LoadBytecode
  <2>2. k \in FileKey /\ k.of \in Module /\ Top.todo # <<>>
    BY <2>1, MissFacts
  <2>3. file[k.of].hvc \in Version
    BY <2>1, <2>2, BytecodeExists
  <2>4. Len(log) + 1 \in DOMAIN log' /\ DOMAIN log \subseteq DOMAIN log' /\ Len(log) + 1 \in Nat
        /\ log' \in Seq(Run)
    BY <2>1, <2>2, <2>3, StartedFacts
  <2>5. NestTypeOK'
    BY <2>1, <2>2, <2>3, <2>4, PushedType DEF Phase
  <2> QED BY <2>1, <2>2, <2>4, <2>5, SweptType, DirTyped DEF ModuleLoaderTypeOK
<1>6. ASSUME NEW r \in Ref, CompileSource(r) PROVE ModuleLoaderTypeOK'
  <2>1. PICK k \in Key : /\ Misses(r, k) /\ k \notin loading /\ k.kind = "src"
                         /\ loading' = loading \union {k}
                         /\ cache' = Touched(Swept(r), Hvc(k.of))
                         /\ stack' = Pushed(r, k, "caching", file[k.of].src, 0)
                         /\ file' = [file EXCEPT ![k.of].hvc = Torn, ![k.of].age = "newer"]
                         /\ dir' = DirOf(k)
                         /\ UNCHANGED <<globals, raised, log, restarts>>
    BY <1>6 DEF CompileSource
  <2>2. k \in FileKey /\ k.of \in Module /\ Top.todo # <<>>
    BY <2>1, MissFacts
  <2>6. file[k.of] \in File
    BY <2>2 DEF ModuleLoaderTypeOK
  <2>7. [file[k.of] EXCEPT !.hvc = Torn, !.age = "newer"] \in File
    BY <2>6 DEF File
  <2>8. file' = [file EXCEPT ![k.of] = [file[k.of] EXCEPT !.hvc = Torn, !.age = "newer"]]
    BY <2>1, <2>2, <2>6 DEF ModuleLoaderTypeOK
  <2>3. file[k.of].src \in Version /\ (file \in [Module -> File])'
    BY <2>2, <2>6, <2>7, <2>8, FileType DEF File
  <2>4. NestTypeOK'
    BY <2>1, <2>2, <2>3, PushedType DEF Phase
  <2>5. (cache \in [Key -> Entry \union {None}])'
    BY <2>1, SweptType, TouchedType
  <2> QED BY <2>1, <2>2, <2>3, <2>4, <2>5, DirTyped DEF ModuleLoaderTypeOK
<1>7. CASE WriteBytecode
  <2>1. Depth > 1
    BY <1>7, TopLoads DEF WriteBytecode
  <2>2. Top.unit \in Module /\ Top.ver \in Version
    BY <2>1, CallersFacts DEF LoadTypeOK, Frame
  <2>3. (file \in [Module -> File])'
    <3>1. file[Top.unit] \in File
      BY <2>2 DEF ModuleLoaderTypeOK
    <3>2. [file[Top.unit] EXCEPT !.hvc = Top.ver] \in File
      BY <2>2, <3>1 DEF File
    <3>3. file' = [file EXCEPT ![Top.unit] = [file[Top.unit] EXCEPT !.hvc = Top.ver]]
      BY <1>7 DEF WriteBytecode
    <3> QED BY <2>2, <3>2, <3>3, FileType
  <2>4. Top.inst = 0 /\ Top \in Frame
    BY <1>7, <2>1, CallersFacts DEF WriteBytecode, LoadTypeOK
  <2>5. [Top EXCEPT !.phase = "copying"] = [Top EXCEPT !.phase = "copying", !.inst = 0]
    BY <2>4 DEF Frame
  <2>6. stack' = [stack EXCEPT ![Depth] = [Top EXCEPT !.phase = "copying", !.inst = 0]]
    BY <1>7, <2>5 DEF WriteBytecode, Top, Depth
  <2>7. NestTypeOK'
    BY <1>7, <2>1, <2>6, PhaseType DEF WriteBytecode, Phase
  <2> QED BY <1>7, <2>3, <2>7 DEF WriteBytecode, ModuleLoaderTypeOK
<1>8. CASE CopySource
  <2>1. Depth > 1
    BY <1>8, TopLoads DEF CopySource
  <2>2. Top.unit \in Module /\ Top.ver \in Version
    BY <2>1, CallersFacts DEF LoadTypeOK, Frame
  <2>3. (file \in [Module -> File])'
    <3>1. file[Top.unit] \in File
      BY <2>2 DEF ModuleLoaderTypeOK
    <3>2. PICK age \in {"older", "same"} :
             file' = [file EXCEPT ![Top.unit].copy = file[Top.unit].src, ![Top.unit].age = age]
      BY <1>8 DEF CopySource
    <3> DEFINE f == [file[Top.unit] EXCEPT !.copy = file[Top.unit].src, !.age = age]
    <3>3. f \in File
      BY <3>1 DEF File
    <3>4. file' = [file EXCEPT ![Top.unit] = f]
      BY <2>2, <3>2 DEF ModuleLoaderTypeOK
    <3> HIDE DEF f
    <3> QED BY <2>2, <3>3, <3>4, FileType
  <2>4. Len(log) + 1 \in DOMAIN log' /\ DOMAIN log \subseteq DOMAIN log' /\ Len(log) + 1 \in Nat
        /\ log' \in Seq(Run)
    BY <1>8, <2>2, StartedFacts DEF CopySource
  <2>5. stack' = [stack EXCEPT ![Depth] = [Top EXCEPT !.phase = "running", !.inst = Len(log) + 1]]
    BY <1>8 DEF CopySource, Top, Depth
  <2>6. NestTypeOK'
    BY <2>1, <2>4, <2>5, PhaseType DEF Phase
  <2> QED BY <1>8, <2>3, <2>4, <2>6 DEF CopySource, ModuleLoaderTypeOK
<1>9. CASE Finish
  <2>1. Depth > 1 /\ LoadTypeOK(Top) /\ Top \in Frame /\ Top.inst \in DOMAIN log
    BY <1>9, CallersFacts DEF Finish, LoadTypeOK
  <2>2. Top.unit \in Module /\ Top.ref \in Ref /\ Top.key \in FileKey /\ Top.key.of = Top.unit
        /\ Top.inst \in Nat /\ Top.saved \in [Ref -> Nat] /\ Top.savedDir \in Dir
    BY <2>1 DEF LoadTypeOK, Frame
  <2>3. HashOf(Top) \in Version \union {None} /\ CacheEntry \in Entry
    BY <2>2 DEF HashOf, CacheEntry, Entry, ModuleLoaderTypeOK, File
  <2>4. (file \in [Module -> File])'
    <3>1. file[Top.unit] \in File
      BY <2>2 DEF ModuleLoaderTypeOK
    <3>2. [file[Top.unit] EXCEPT !.index = HashOf(Top)] \in File
      BY <2>3, <3>1 DEF File
    <3>3. file' = [file EXCEPT ![Top.unit] = [file[Top.unit] EXCEPT !.index = HashOf(Top)]]
      BY <1>9 DEF Finish
    <3> QED BY <2>2, <3>2, <3>3, FileType
  <2>5. (cache \in [Key -> Entry \union {None}])'
    BY <1>9, <2>3 DEF Finish, ModuleLoaderTypeOK, Put
  <2>6. DOMAIN log' = DOMAIN log /\ (log \in Seq(Run))'
    BY <1>9, <2>1, FinishedType DEF Finish
  <2>7. (globals \in [Ref -> Nat])'
    BY <1>9, <2>2 DEF Finish, Put
  <2>8. NestTypeOK'
    BY <1>9, <2>1, <2>6, CallersType DEF Finish, Leave
  <2> QED BY <1>9, <2>2, <2>4, <2>5, <2>6, <2>7, <2>8 DEF Finish, Leave, ModuleLoaderTypeOK
<1>10. CASE Abort
  BY <1>10, CallersType, CallersFacts DEF Abort, Leave, ModuleLoaderTypeOK, Frame
<1>11. CASE Catch
  BY <1>11, NestUnchanged DEF Catch, ModuleLoaderTypeOK
<1>12. CASE Restart
  <2>1. InitialRun' /\ (file \in [Module -> File])' /\ (restarts \in 0 .. MaxRestarts)'
    BY <1>12 DEF Restart, NewProcess, InitialRun, ModuleLoaderTypeOK, ModuleAssumption
  <2> QED BY <2>1, InitialTyped
<1>13. CASE Exit
  <2>1. (file \in [Module -> File])'
    <3>1. PICK hash \in [Module -> Version \union {None}] :
             file' = [m \in Module |-> [file[m] EXCEPT !.index = hash[m]]]
      BY <1>13 DEF Exit
    <3>2. \A m \in Module : [file[m] EXCEPT !.index = hash[m]] \in File
      <4> SUFFICES ASSUME NEW m \in Module, NEW f, f = file[m]
                   PROVE  [f EXCEPT !.index = hash[m]] \in File
        OBVIOUS
      <4>1. f \in File /\ hash[m] \in Version \union {None}
        BY DEF ModuleLoaderTypeOK
      <4> QED BY <4>1 DEF File
    <3> QED BY <3>1, <3>2
  <2>2. InitialRun' /\ (restarts \in 0 .. MaxRestarts)'
    BY <1>13 DEF Exit, NewProcess, InitialRun, ModuleLoaderTypeOK, ModuleAssumption
  <2> QED BY <2>1, <2>2, InitialTyped
<1>14. ASSUME NEW m \in Module, Edit(m) PROVE ModuleLoaderTypeOK'
  <2>1. (file \in [Module -> File])'
    <3>1. file[m] \in File
      BY DEF ModuleLoaderTypeOK
    <3>4. file[m].src \in Version
      BY <3>1 DEF File
    <3>5. file[m].src + 1 \in Version
      BY <1>14, <3>4 DEF Edit, Version, ModuleAssumption
    <3>2. [file[m] EXCEPT !.src = @ + 1] \in File
      BY <3>1, <3>5 DEF File
    <3>3. file' = [file EXCEPT ![m] = [file[m] EXCEPT !.src = @ + 1]]
      BY <1>14 DEF Edit
    <3> QED BY <3>2, <3>3, FileType
  <2>2. (cache \in [Key -> Entry \union {None}])'
    BY <1>14, TouchedType DEF Edit, ModuleLoaderTypeOK
  <2> QED BY <1>14, <2>1, <2>2, NestUnchanged DEF Edit, ModuleLoaderTypeOK
<1> QED BY <1>1, <1>2, <1>3, <1>4, <1>5, <1>6, <1>7, <1>8, <1>9, <1>10, <1>11, <1>12, <1>13,
           <1>14
        DEF Next, Program

\* Whatever fails, is edited or is killed, the loader's state keeps its types.
THEOREM TypeCorrect == Spec => []ModuleLoaderTypeOK
<1>1. ASSUME Init PROVE ModuleLoaderTypeOK
  <2>1. file \in [Module -> File]
    BY <1>1, ModuleAssumption DEF Init, File, Version
  <2>2. InitialRun /\ restarts \in 0 .. MaxRestarts
    BY <1>1, ModuleAssumption DEF Init, InitialRun
  <2> QED BY <2>1, <2>2, InitialTyped, ModuleAssumption
<1>2. ASSUME ModuleLoaderTypeOK, [Next]_vars PROVE ModuleLoaderTypeOK'
  BY <1>2, Step, ModuleAssumption
<1> QED BY <1>1, <1>2, PTL DEF Spec

-----------------------------------------------------------------------------
(* What a step does to the nest of loads.                                  *)

SameFrame(i, j) ==
    /\ stack'[i].key = stack[j].key /\ stack'[i].ref = stack[j].ref
    /\ stack'[i].saved = stack[j].saved /\ stack'[i].savedDir = stack[j].savedDir

\* Nothing that is kept in memory is about an instance that is not done.
DoneKept == \A n : Done(n) => Done(n)'
CacheKept == \A k \in Key : cache'[k] # None =>
                \/ cache[k] # None /\ cache'[k].inst = cache[k].inst
                \/ Done(cache[k].inst)'

NestStays ==
    /\ Depth' = Depth /\ \A i \in 1 .. Depth : SameFrame(i, i)
    /\ UNCHANGED <<loading, dir, globals>>

NestGrows ==
    \E r \in Ref, k \in FileKey \ loading :
       /\ globals[r] = 0
       /\ Depth' = Depth + 1 /\ \A i \in 1 .. Depth : SameFrame(i, i)
       /\ stack'[Depth + 1].key = k /\ stack'[Depth + 1].ref = r
       /\ stack'[Depth + 1].saved = globals /\ stack'[Depth + 1].savedDir = dir
       /\ loading' = loading \union {k} /\ dir' = DirOf(k) /\ globals' = globals

NestShrinks ==
    /\ Depth > 1
    /\ Depth' = Depth - 1 /\ \A i \in 1 .. Depth - 1 : SameFrame(i, i)
    /\ loading' = loading \ {Top.key} /\ dir' = Top.savedDir
    /\ \A r \in Ref : \/ globals'[r] = Top.saved[r]
                      \/ r = Top.ref /\ Done(globals[r])'

\* Every step of a process keeps, pushes or pops a load.
LEMMA NestSteps ==
    ASSUME ModuleAssumption, ModuleLoaderTypeOK, [Next]_vars
    PROVE  \/ DoneKept /\ CacheKept /\ (NestStays \/ NestGrows \/ NestShrinks)
           \/ InitialRun'
<1>1. CASE UNCHANGED vars
  <2>1. NestStays
    BY <1>1 DEF vars, NestStays, SameFrame, Depth
  <2> QED BY <1>1, <2>1 DEF vars, DoneKept, CacheKept, Done
<1>2. ASSUME stack' = Advanced, Top.todo # <<>>, UNCHANGED <<loading, dir, globals>>
      PROVE  NestStays
  BY <1>2, AdvancedFacts DEF NestStays, SameFrame, Depth
<1>3. ASSUME NEW r \in Ref, cache' = Swept(r), UNCHANGED log PROVE DoneKept /\ CacheKept
  BY <1>3, SweptType DEF DoneKept, CacheKept, Done
<1>4. ASSUME NEW r \in Ref, UseGlobal(r) PROVE DoneKept /\ CacheKept /\ NestStays
  BY <1>4, <1>2 DEF UseGlobal, Imported, DoneKept, CacheKept, Done
<1>5. ASSUME NEW r \in Ref, UseCached(r) PROVE DoneKept /\ CacheKept /\ NestStays
  BY <1>5, <1>2, <1>3 DEF UseCached, Imported
<1>6. ASSUME NEW r \in Ref, ImportFails(r) PROVE DoneKept /\ CacheKept /\ NestStays
  BY <1>6, <1>2, <1>3 DEF ImportFails, Misses, Imported
<1>7. ASSUME NEW r \in Ref, LoadBytecode(r) PROVE DoneKept /\ CacheKept /\ NestGrows
  <2>1. PICK k \in Key : /\ Misses(r, k) /\ k \notin loading
                         /\ k.kind = "hvc" /\ file[k.of].hvc # Torn
                         /\ loading' = loading \union {k} /\ cache' = Swept(r)
                         /\ stack' = Pushed(r, k, "running", file[k.of].hvc, Len(log) + 1)
                         /\ log' = Started(k.of, file[k.of].hvc) /\ dir' = DirOf(k)
                         /\ UNCHANGED <<file, globals, raised, restarts>>
    BY <1>7 DEF LoadBytecode
  <2>2. k \in FileKey \ loading /\ k.of \in Module /\ Top.todo # <<>> /\ globals[r] = 0
    BY <2>1, MissFacts
  <2>3. file[k.of].hvc \in Version
    BY <2>1, <2>2, BytecodeExists
  <2>4. Len(log) + 1 \in Nat /\ DOMAIN log \subseteq DOMAIN log'
        /\ \A n \in DOMAIN log : log'[n] = log[n]
    BY <2>1, <2>2, <2>3, StartedFacts
  <2>5. DoneKept /\ CacheKept
    BY <2>1, <2>4, SweptType DEF DoneKept, CacheKept, Done
  <2>6. NestGrows
    <3>1. /\ Depth' = Depth + 1 /\ \A i \in 1 .. Depth : SameFrame(i, i)
          /\ stack'[Depth + 1].key = k /\ stack'[Depth + 1].ref = r
          /\ stack'[Depth + 1].saved = globals /\ stack'[Depth + 1].savedDir = dir
      BY <2>1, <2>2, <2>3, <2>4, PushedFacts DEF SameFrame, Phase, Depth
    <3> QED BY <2>1, <2>2, <3>1 DEF NestGrows
  <2> QED BY <2>5, <2>6
<1>8. ASSUME NEW r \in Ref, CompileSource(r) PROVE DoneKept /\ CacheKept /\ NestGrows
  <2>1. PICK k \in Key : /\ Misses(r, k) /\ k \notin loading /\ k.kind = "src"
                         /\ loading' = loading \union {k}
                         /\ cache' = Touched(Swept(r), Hvc(k.of))
                         /\ stack' = Pushed(r, k, "caching", file[k.of].src, 0)
                         /\ dir' = DirOf(k)
                         /\ UNCHANGED <<globals, raised, log, restarts>>
    BY <1>8 DEF CompileSource
  <2>2. k \in FileKey \ loading /\ k.of \in Module /\ Top.todo # <<>> /\ globals[r] = 0
    BY <2>1, MissFacts
  <2>3. file[k.of].src \in Version
    BY <2>2 DEF ModuleLoaderTypeOK, File
  <2>4. DoneKept /\ CacheKept
    BY <2>1, SweptType, TouchedType DEF DoneKept, CacheKept, Done
  <2>5. NestGrows
    <3>1. /\ Depth' = Depth + 1 /\ \A i \in 1 .. Depth : SameFrame(i, i)
          /\ stack'[Depth + 1].key = k /\ stack'[Depth + 1].ref = r
          /\ stack'[Depth + 1].saved = globals /\ stack'[Depth + 1].savedDir = dir
      <4>1. "caching" \in Phase /\ 0 \in Nat
        BY DEF Phase
      <4>2. stack' = Pushed(r, k, "caching", file[k.of].src, 0)
        BY <2>1
      <4>3. k \in FileKey /\ k.of \in Module /\ Top.todo # <<>>
        BY <2>2
      <4>4. /\ Len(stack') = Depth + 1
            /\ stack'[Depth + 1].key = k /\ stack'[Depth + 1].ref = r
            /\ stack'[Depth + 1].saved = globals /\ stack'[Depth + 1].savedDir = dir
            /\ \A i \in 1 .. Depth :
                  /\ stack'[i].key = stack[i].key /\ stack'[i].ref = stack[i].ref
                  /\ stack'[i].saved = stack[i].saved /\ stack'[i].savedDir = stack[i].savedDir
        BY <2>3, <4>1, <4>2, <4>3, PushedFacts
      <4> QED BY <4>4 DEF SameFrame, Depth
    <3> QED BY <2>1, <2>2, <3>1 DEF NestGrows
  <2> QED BY <2>4, <2>5
<1>9. ASSUME WriteBytecode \/ CopySource PROVE DoneKept /\ CacheKept /\ NestStays
  <2>1. Depth > 1
    BY <1>9, TopLoads DEF WriteBytecode, CopySource
  <2>2. stack \in Seq(Frame) /\ Depth = Len(stack) /\ Top \in Frame /\ Top = stack[Depth]
    BY <2>1, CallersFacts DEF ModuleLoaderTypeOK, NestTypeOK, Depth
  <2>3. Top.unit \in Module /\ Top.ver \in Version
    BY <2>1, CallersFacts DEF LoadTypeOK, Frame
  <2>4. PICK f : /\ stack' = [stack EXCEPT ![Depth] = f]
                 /\ f.key = Top.key /\ f.ref = Top.ref /\ f.saved = Top.saved
                 /\ f.savedDir = Top.savedDir
    <3>1. CASE WriteBytecode
      <4> DEFINE g == [Top EXCEPT !.phase = "copying"]
      <4>1. stack' = [stack EXCEPT ![Depth] = g]
        BY <2>2, <3>1 DEF WriteBytecode
      <4>2. g.key = Top.key /\ g.ref = Top.ref /\ g.saved = Top.saved /\ g.savedDir = Top.savedDir
        BY <2>2 DEF Frame
      <4> QED BY <4>1, <4>2
    <3>2. CASE CopySource
      <4> DEFINE g == [Top EXCEPT !.phase = "running", !.inst = Len(log) + 1]
      <4>1. stack' = [stack EXCEPT ![Depth] = g]
        BY <2>2, <3>2 DEF CopySource
      <4>2. g.key = Top.key /\ g.ref = Top.ref /\ g.saved = Top.saved /\ g.savedDir = Top.savedDir
        BY <2>2 DEF Frame
      <4> QED BY <4>1, <4>2
    <3> QED BY <1>9, <3>1, <3>2
  <2>5. NestStays
    BY <1>9, <2>2, <2>4 DEF NestStays, SameFrame, Depth, WriteBytecode, CopySource
  <2>6. DoneKept
    BY <1>9, <2>3, StartedFacts DEF DoneKept, Done, WriteBytecode, CopySource
  <2>7. CacheKept
    BY <1>9 DEF CacheKept, WriteBytecode, CopySource
  <2> QED BY <2>5, <2>6, <2>7
<1>10. CASE Finish
  <2>1. Depth > 1 /\ LoadTypeOK(Top) /\ Top \in Frame /\ Top.inst \in DOMAIN log
    BY <1>10, CallersFacts DEF Finish, LoadTypeOK
  <2>2. Top.saved \in [Ref -> Nat]
    BY <2>1 DEF Frame
  <2>3. PICK n \in DOMAIN log : n = Top.inst
    BY <2>1
  <2>4. DoneKept /\ Done(n)'
    BY <1>10, <2>3, FinishedType DEF Finish, DoneKept, Done
  <2>5. CacheKept
    <3>1. \A k \in Key : cache'[k] = cache[k] \/ cache'[k] = CacheEntry
      BY <1>10 DEF Finish, Put, ModuleLoaderTypeOK
    <3>2. CacheEntry.inst = n
      BY <2>3 DEF CacheEntry
    <3> QED BY <2>4, <3>1, <3>2 DEF CacheKept, Done
  <2>6. \A r \in Ref : globals'[r] = IF r = Top.ref THEN n ELSE Top.saved[r]
    BY <1>10, <2>2, <2>3 DEF Finish, Put
  <2>7. Depth' = Depth - 1 /\ \A i \in 1 .. Depth - 1 : SameFrame(i, i)
    BY <1>10, <2>1, CallersFacts DEF Finish, Leave, SameFrame, Depth
  <2>8. \A r \in Ref : globals'[r] = Top.saved[r] \/ (r = Top.ref /\ Done(globals[r])')
    <3>1. \A x : x = n => (x \in DOMAIN log /\ log[x].done)'
      BY <2>4 DEF Done
    <3>2. ASSUME NEW r \in Ref, globals'[r] = n PROVE Done(globals[r])'
      BY <3>1, <3>2 DEF Done
    <3> QED BY <2>6, <3>2 DEF Done
  <2>9. NestShrinks
    BY <1>10, <2>1, <2>7, <2>8 DEF Finish, Leave, NestShrinks
  <2> QED BY <2>4, <2>5, <2>9
<1>11. CASE Abort
  <2>1. Depth > 1
    BY <1>11 DEF Abort
  <2>2. NestShrinks
    BY <1>11, <2>1, CallersFacts DEF Abort, Leave, NestShrinks, SameFrame, Depth
  <2> QED BY <1>11, <2>2 DEF Abort, DoneKept, CacheKept, Done
<1>12. CASE Catch
  <2>1. NestStays
    BY <1>12 DEF Catch, NestStays, SameFrame, Depth
  <2> QED BY <1>12, <2>1 DEF Catch, DoneKept, CacheKept, Done
<1>13. CASE Restart \/ Exit
  BY <1>13 DEF Restart, Exit, NewProcess, InitialRun
<1>14. ASSUME NEW m \in Module, Edit(m) PROVE DoneKept /\ CacheKept /\ NestStays
  <2>1. NestStays
    BY <1>14 DEF Edit, NestStays, SameFrame, Depth
  <2>2. CacheKept
    BY <1>14, TouchedType DEF Edit, CacheKept, ModuleLoaderTypeOK
  <2> QED BY <1>14, <2>1, <2>2 DEF Edit, DoneKept, Done
<1> QED BY <1>1, <1>4, <1>5, <1>6, <1>7, <1>8, <1>9, <1>10, <1>11, <1>12, <1>13, <1>14
        DEF Next, Program

-----------------------------------------------------------------------------
(* Loads in progress.                                                      *)

\* The nest without its bound on the depth.
NestInv ==
    /\ loading = {stack[i].key : i \in Loaded}
    /\ \A i, j \in Loaded : i # j => stack[i].key # stack[j].key

\* There are two files for a module, so two keys.
LEMMA KeysBounded ==
    ASSUME ModuleAssumption
    PROVE  IsFiniteSet(FileKey) /\ Cardinality(FileKey) <= 2 * Cardinality(Module)
<1> DEFINE S == {Src(m) : m \in Module}
           H == {Hvc(m) : m \in Module}
<1>1. IsFiniteSet(Module)
  BY DEF ModuleAssumption
<1>2. IsFiniteSet(S) /\ Cardinality(S) <= Cardinality(Module)
  <2> DEFINE f == [m \in Module |-> Src(m)]
  <2>1. f \in Surjection(Module, S)
    BY DEF Surjection
  <2> QED BY <1>1, <2>1, FS_Surjection
<1>3. IsFiniteSet(H) /\ Cardinality(H) <= Cardinality(Module)
  <2> DEFINE f == [m \in Module |-> Hvc(m)]
  <2>1. f \in Surjection(Module, H)
    BY DEF Surjection
  <2> QED BY <1>1, <2>1, FS_Surjection
<1>4. IsFiniteSet(S \union H) /\ IsFiniteSet(S \cap H)
      /\ Cardinality(S \union H) = Cardinality(S) + Cardinality(H) - Cardinality(S \cap H)
  BY <1>2, <1>3, FS_Union, FS_Intersection
<1>5. /\ Cardinality(S) \in Nat /\ Cardinality(H) \in Nat /\ Cardinality(S \cap H) \in Nat
      /\ Cardinality(Module) \in Nat
  BY <1>1, <1>2, <1>3, <1>4, FS_CardinalityType
<1>6. FileKey = S \union H
  BY DEF FileKey
<1> HIDE DEF S, H
<1> QED BY <1>2, <1>3, <1>4, <1>5, <1>6

\* Different keys on every level leave no room for more levels than files.
LEMMA DepthBounded ==
    ASSUME ModuleAssumption, ModuleLoaderTypeOK, NestInv
    PROVE  Depth <= 1 + 2 * Cardinality(Module)
<1> DEFINE f == [i \in Loaded |-> stack[i].key]
<1>1. Depth \in Nat /\ Depth >= 1
  BY DEF ModuleLoaderTypeOK, NestTypeOK, Depth
<1>2. f \in Injection(Loaded, FileKey)
  <2>1. \A i \in Loaded : stack[i].key \in FileKey
    BY DEF ModuleLoaderTypeOK, NestTypeOK, LoadTypeOK
  <2> QED BY <2>1 DEF NestInv, Injection, IsInjective
<1>3. IsFiniteSet(FileKey) /\ Cardinality(FileKey) <= 2 * Cardinality(Module)
  BY KeysBounded
<1>4. Cardinality(Loaded) <= Cardinality(FileKey) /\ IsFiniteSet(Loaded)
  BY <1>2, <1>3, FS_Injection
<1>5. Cardinality(Loaded) = Depth - 1
  <2>1. 2 \in Int /\ Depth \in Int
    BY <1>1
  <2>2. Cardinality(2 .. Depth) = IF 2 > Depth THEN 0 ELSE Depth - 2 + 1
    BY ONLY <2>1, FS_Interval
  <2> QED BY <1>1, <2>2 DEF Loaded
<1>6. Cardinality(FileKey) \in Nat /\ Cardinality(Module) \in Nat
  BY <1>3, FS_CardinalityType DEF ModuleAssumption
<1> QED BY <1>1, <1>3, <1>4, <1>5, <1>6

\* Keys come and go with their loads.
LEMMA NestInductive ==
    ASSUME ModuleAssumption, ModuleLoaderTypeOK, NestInv, [Next]_vars
    PROVE  NestInv'
<1>1. Depth \in Nat /\ Depth >= 1
  BY DEF ModuleLoaderTypeOK, NestTypeOK, Depth
<1>2. CASE NestStays
  <2>1. Loaded' = Loaded /\ \A i \in Loaded : stack'[i].key = stack[i].key
    BY <1>1, <1>2 DEF NestStays, SameFrame, Loaded
  <2> QED BY <1>2, <2>1 DEF NestStays, NestInv
<1>3. CASE NestGrows
  <2>1. PICK k \in FileKey \ loading :
           /\ Depth' = Depth + 1 /\ \A i \in 1 .. Depth : stack'[i].key = stack[i].key
           /\ stack'[Depth + 1].key = k /\ loading' = loading \union {k}
    BY <1>3 DEF NestGrows, SameFrame
  <2>2. Loaded' = Loaded \union {Depth + 1} /\ Loaded \subseteq 1 .. Depth
    BY <1>1, <2>1 DEF Loaded
  <2>3. Depth + 1 \notin Loaded
    BY <1>1 DEF Loaded
  <2> QED BY <2>1, <2>2, <2>3 DEF NestInv
<1>4. CASE NestShrinks
  <2>1. /\ Depth > 1 /\ Depth' = Depth - 1 /\ loading' = loading \ {stack[Depth].key}
        /\ \A i \in 1 .. Depth - 1 : stack'[i].key = stack[i].key
    BY <1>4, CallersFacts DEF NestShrinks, SameFrame
  <2>2. Loaded = Loaded' \union {Depth} /\ Loaded' \subseteq 1 .. Depth - 1 /\ Depth \notin Loaded'
    BY <1>1, <2>1 DEF Loaded
  <2>3. \A i \in Loaded' : i \in Loaded /\ i # Depth /\ stack'[i].key = stack[i].key
    BY <2>1, <2>2
  <2>4. \A i \in Loaded : i = Depth \/ i \in Loaded'
    BY <2>2
  <2>5. loading' = {stack[i].key : i \in Loaded'}
    <3>1. ASSUME NEW x \in loading' PROVE \E i \in Loaded' : x = stack[i].key
      BY <2>1, <2>4, <3>1 DEF NestInv
    <3>2. ASSUME NEW i \in Loaded' PROVE stack[i].key \in loading'
      <4>1. i \in Loaded /\ Depth \in Loaded /\ i # Depth
        BY <2>2, <2>3
      <4> QED BY <2>1, <4>1 DEF NestInv
    <3> QED BY <3>1, <3>2
  <2>6. \A i, j \in Loaded' : i # j => stack'[i].key # stack'[j].key
    BY <2>3 DEF NestInv
  <2> QED BY <2>3, <2>5, <2>6 DEF NestInv
<1>5. CASE InitialRun'
  BY <1>5, InitialType DEF InitialRun, NestInv, Loaded, Depth
<1> QED BY <1>2, <1>3, <1>4, <1>5, NestSteps

\* The keys in modules_loading_ are those of the nest, whatever failed before:
\* nothing stays locked out, and imports nest no deeper than there are files.
THEOREM LoadingFollowsNest == Spec => []LoadingIsStack
<1>1. Init => NestInv
  BY InitialType, ModuleAssumption DEF Init, NestInv, Loaded, Depth
<1>2. ModuleLoaderTypeOK /\ NestInv /\ [Next]_vars => NestInv'
  BY NestInductive, ModuleAssumption
<1>3. ModuleLoaderTypeOK /\ NestInv => LoadingIsStack
  BY DepthBounded, ModuleAssumption DEF NestInv, LoadingIsStack
<1> QED BY <1>1, <1>2, <1>3, TypeCorrect, PTL DEF Spec

-----------------------------------------------------------------------------
(* What the importer gets back.                                            *)

Home(i) == IF i = 1 THEN ScriptDir ELSE DirOf(stack[i].key)

\* Every frame has kept its importer's directory and objects, and each of them
\* kept all that the frames below it had.
ContextInv ==
    /\ dir = Home(Depth)
    /\ \A i \in Loaded : /\ stack[i].savedDir = Home(i - 1)
                         /\ stack[i].saved[stack[i].ref] = 0
    /\ \A i \in Loaded : \A r \in Ref :
          stack[i].saved[r] # 0 => globals[r] = stack[i].saved[r]
    /\ \A i, j \in Loaded : i < j => \A r \in Ref :
          stack[i].saved[r] # 0 => stack[j].saved[r] = stack[i].saved[r]

\* What a frame has kept is what its importers have.
LEMMA ContextInductive ==
    ASSUME ModuleAssumption, ModuleLoaderTypeOK, ContextInv, [Next]_vars
    PROVE  ContextInv'
<1>1. Depth \in Nat /\ Depth >= 1 /\ \A i \in Loaded : stack[i].ref \in Ref
  BY DEF ModuleLoaderTypeOK, NestTypeOK, LoadTypeOK, Depth
<1>2. CASE NestStays
  <2>1. /\ Loaded' = Loaded /\ Loaded \subseteq 1 .. Depth /\ Depth' = Depth
        /\ \A i \in 1 .. Depth : SameFrame(i, i) /\ Home(i)' = Home(i)
        /\ \A i \in Loaded : i - 1 \in 1 .. Depth
    BY <1>1, <1>2 DEF NestStays, SameFrame, Loaded, Home
  <2>2. UNCHANGED <<dir, globals>>
    BY <1>2 DEF NestStays
  <2>3. \A i \in Loaded : /\ i \in 1 .. Depth /\ i - 1 \in 1 .. Depth
                          /\ stack'[i].ref = stack[i].ref /\ stack'[i].saved = stack[i].saved
                          /\ stack'[i].savedDir = stack[i].savedDir
    BY <2>1 DEF SameFrame
  <2>4. (dir = Home(Depth))'
    BY <1>1, <2>1, <2>2 DEF ContextInv
  <2>5. \A i \in Loaded' : (stack[i].savedDir = Home(i - 1) /\ stack[i].saved[stack[i].ref] = 0)'
    BY <2>1, <2>3 DEF ContextInv
  <2> QED BY <2>1, <2>2, <2>3, <2>4, <2>5 DEF ContextInv
<1>3. CASE NestGrows
  <2>1. PICK r \in Ref, k \in FileKey :
           /\ globals[r] = 0
           /\ Depth' = Depth + 1 /\ \A i \in 1 .. Depth : SameFrame(i, i)
           /\ stack'[Depth + 1].key = k /\ stack'[Depth + 1].ref = r
           /\ stack'[Depth + 1].saved = globals /\ stack'[Depth + 1].savedDir = dir
           /\ dir' = DirOf(k) /\ globals' = globals
    BY <1>3 DEF NestGrows
  <2>2. Loaded' = Loaded \union {Depth + 1} /\ Loaded \subseteq 1 .. Depth
        /\ \A i \in Loaded : i - 1 \in 1 .. Depth
    BY <1>1, <2>1 DEF Loaded
  <2>3. \A i \in 1 .. Depth : Home(i)' = Home(i)
    BY <1>1, <2>1 DEF SameFrame, Home
  <2>8. \A i \in Loaded : /\ i - 1 \in 1 .. Depth
                          /\ stack'[i].ref = stack[i].ref /\ stack'[i].saved = stack[i].saved
                          /\ stack'[i].savedDir = stack[i].savedDir
    BY <2>1, <2>2 DEF SameFrame
  <2>4. (dir = Home(Depth))'
    BY <1>1, <2>1 DEF Home
  <2>5. ASSUME NEW i \in Loaded'
        PROVE  (stack[i].savedDir = Home(i - 1) /\ stack[i].saved[stack[i].ref] = 0)'
    <3>1. CASE i = Depth + 1
      BY <1>1, <2>1, <2>3, <3>1 DEF ContextInv
    <3>2. CASE i \in Loaded
      <4>1. Home(i - 1)' = Home(i - 1)
        BY <2>3, <2>8, <3>2
      <4> QED BY <2>8, <3>2, <4>1 DEF ContextInv
    <3> QED BY <2>2, <3>1, <3>2
  <2>6. ASSUME NEW i \in Loaded', NEW x \in Ref, stack'[i].saved[x] # 0
        PROVE  globals'[x] = stack'[i].saved[x]
    BY <2>1, <2>2, <2>6, <2>8 DEF ContextInv
  <2>7. ASSUME NEW i \in Loaded', NEW j \in Loaded', i < j, NEW x \in Ref, stack'[i].saved[x] # 0
        PROVE  stack'[j].saved[x] = stack'[i].saved[x]
    <3>1. i \in Loaded
      BY <1>1, <2>2, <2>7 DEF Loaded
    <3>2. CASE j = Depth + 1
      BY <2>1, <2>6, <2>7, <3>2
    <3>3. CASE j \in Loaded
      BY <2>7, <2>8, <3>1, <3>3 DEF ContextInv
    <3> QED BY <2>2, <3>2, <3>3
  <2> QED BY <2>4, <2>5, <2>6, <2>7 DEF ContextInv
<1>4. CASE NestShrinks
  <2>1. /\ Depth > 1 /\ Depth' = Depth - 1 /\ \A i \in 1 .. Depth - 1 : SameFrame(i, i)
        /\ dir' = stack[Depth].savedDir
        /\ \A r \in Ref : globals'[r] = stack[Depth].saved[r] \/ r = stack[Depth].ref
    BY <1>4, CallersFacts DEF NestShrinks
  <2>2. Loaded = Loaded' \union {Depth} /\ Loaded' \subseteq 1 .. Depth - 1
        /\ \A i \in Loaded' : i - 1 \in 1 .. Depth - 1 /\ i < Depth
    BY <1>1, <2>1 DEF Loaded
  <2>3. \A i \in 1 .. Depth - 1 : Home(i)' = Home(i)
    BY <1>1, <2>1 DEF SameFrame, Home
  <2>8. \A i \in Loaded' : /\ i \in Loaded /\ Depth \in Loaded /\ i < Depth
                           /\ stack'[i].ref = stack[i].ref /\ stack'[i].saved = stack[i].saved
                           /\ stack'[i].savedDir = stack[i].savedDir
    BY <2>1, <2>2 DEF SameFrame
  <2>4. (dir = Home(Depth))'
    BY <1>1, <2>1, <2>2, <2>3 DEF ContextInv
  <2>5. \A i \in Loaded' : (stack[i].savedDir = Home(i - 1) /\ stack[i].saved[stack[i].ref] = 0)'
    BY <2>1, <2>2, <2>3 DEF ContextInv, SameFrame
  <2>6. ASSUME NEW i \in Loaded', NEW x \in Ref, stack'[i].saved[x] # 0
        PROVE  globals'[x] = stack'[i].saved[x]
    <3>1. stack[i].saved[x] # 0 /\ stack[Depth].saved[x] = stack[i].saved[x]
      BY <2>6, <2>8 DEF ContextInv
    <3>2. x # stack[Depth].ref
      BY <2>8, <3>1 DEF ContextInv
    <3> QED BY <2>1, <2>8, <3>1, <3>2
  <2>7. \A i, j \in Loaded' : i < j => \A r \in Ref :
           stack'[i].saved[r] # 0 => stack'[j].saved[r] = stack'[i].saved[r]
    BY <2>8 DEF ContextInv
  <2> QED BY <2>4, <2>5, <2>6, <2>7 DEF ContextInv
<1>5. CASE InitialRun'
  BY <1>5, InitialType DEF InitialRun, ContextInv, Home, Loaded, Depth
<1> QED BY <1>2, <1>3, <1>4, <1>5, NestSteps

\* However a nested load ends, the importer goes on with the directory and
\* with every module object it had.
THEOREM ContextComesBack == Spec => []ContextFollowsStack
<1>1. Init => ContextInv
  BY InitialType, ModuleAssumption DEF Init, ContextInv, Home, Loaded, Depth
<1>2. ModuleLoaderTypeOK /\ ContextInv /\ [Next]_vars => ContextInv'
  BY ContextInductive, ModuleAssumption
<1>3. ModuleLoaderTypeOK /\ ContextInv => ContextFollowsStack
  BY DEF ContextInv, ContextFollowsStack, Home, Top, Depth
<1> QED BY <1>1, <1>2, <1>3, TypeCorrect, PTL DEF Spec

-----------------------------------------------------------------------------
(* What an import can be given.                                            *)

\* The objects of the importers are done as well.
DoneInv ==
    /\ CachedAreDone
    /\ \A i \in Loaded : \A r \in Ref : stack[i].saved[r] # 0 => Done(stack[i].saved[r])

\* A load hands out its instance only when its __main__ is through.
LEMMA DoneInductive ==
    ASSUME ModuleAssumption, ModuleLoaderTypeOK, DoneInv, [Next]_vars
    PROVE  DoneInv'
<1>1. Depth \in Nat /\ Depth >= 1
  BY DEF ModuleLoaderTypeOK, NestTypeOK, Depth
<1>2. ASSUME DoneKept, CacheKept, NEW k \in Key, cache'[k] # None PROVE Done(cache[k].inst)'
  BY <1>2 DEF CacheKept, DoneKept, DoneInv, CachedAreDone
<1>3. CASE DoneKept /\ CacheKept /\ NestStays
  <2>1. \A i \in Loaded' : stack'[i].saved = stack[i].saved /\ i \in Loaded
    BY <1>1, <1>3 DEF NestStays, SameFrame, Loaded
  <2> QED BY <1>2, <1>3, <2>1 DEF NestStays, DoneKept, DoneInv, CachedAreDone
<1>4. CASE DoneKept /\ CacheKept /\ NestGrows
  <2>1. /\ \A i \in Loaded' : \/ i \in Loaded /\ stack'[i].saved = stack[i].saved
                              \/ stack'[i].saved = globals
        /\ globals' = globals
    BY <1>1, <1>4 DEF NestGrows, SameFrame, Loaded
  <2> QED BY <1>2, <1>4, <2>1 DEF DoneKept, DoneInv, CachedAreDone
<1>5. CASE DoneKept /\ CacheKept /\ NestShrinks
  <2>1. /\ \A i \in Loaded' : i \in Loaded /\ stack'[i].saved = stack[i].saved
        /\ Depth \in Loaded
        /\ \A r \in Ref : globals'[r] = stack[Depth].saved[r] \/ Done(globals[r])'
    BY <1>1, <1>5, CallersFacts DEF NestShrinks, SameFrame, Loaded
  <2> QED BY <1>2, <1>5, <2>1 DEF DoneKept, DoneInv, CachedAreDone
<1>6. CASE InitialRun'
  BY <1>6, InitialType DEF InitialRun, DoneInv, CachedAreDone, NoObjects, Loaded, Depth
<1> QED BY <1>3, <1>4, <1>5, <1>6, NestSteps

\* No import is ever answered from a module that failed or has not finished.
THEOREM OnlyDoneModules == Spec => []CachedAreDone
<1>1. Init => DoneInv
  BY InitialType, ModuleAssumption DEF Init, DoneInv, CachedAreDone, NoObjects, Loaded, Depth
<1>2. ModuleLoaderTypeOK /\ DoneInv /\ [Next]_vars => DoneInv'
  BY DoneInductive, ModuleAssumption
<1>3. DoneInv => CachedAreDone
  BY DEF DoneInv
<1> QED BY <1>1, <1>2, <1>3, TypeCorrect, PTL DEF Spec

-----------------------------------------------------------------------------
(* One version of a module.                                                *)

\* The modules whose source will not be loaded: its exports are in memory, or its
\* bytecode is used.
Kept == {m \in Module : cache[Src(m)] # None \/ Trusted(m)}

\* A unit that runs is of the version that is in its bytecode file, ...
Running(i) ==
    /\ log[stack[i].inst].of = stack[i].unit
    /\ log[stack[i].inst].ver = stack[i].ver
    /\ stack[i].ver = file[stack[i].unit].hvc
    /\ stack[i].key = Hvc(stack[i].unit) => stack[i].unit \in Kept

\* ... a unit whose bytecode is being written is the innermost load, and the
\* first of its module in this process that could still come to an end.
Writing(i) ==
    /\ i = Depth /\ stack[i].key = Src(stack[i].unit)
    /\ \A j \in Loaded : j # i => stack[j].unit # stack[i].unit
    /\ \A n \in DOMAIN log : log[n].done => log[n].of # stack[i].unit
    /\ stack[i].phase = "copying" => stack[i].ver = file[stack[i].unit].hvc

VersionInv ==
    /\ \A i \in Loaded : IF stack[i].phase = "running" THEN Running(i) ELSE Writing(i)
    /\ \A n \in DOMAIN log :
          log[n].done => log[n].ver = file[log[n].of].hvc /\ log[n].of \in Kept

\* resolve() answers with bytecode only if it is trusted, with a source only if
\* its bytecode is not.
LEMMA AnswerTrusted ==
    ASSUME ModuleAssumption, ModuleLoaderTypeOK, NEW r \in Ref, NEW k \in Key, Misses(r, k),
           k.kind \in {"src", "hvc"}
    PROVE  /\ k = IF k.kind = "hvc" THEN Hvc(k.of) ELSE Src(k.of)
           /\ Trusted(k.of) <=> k.kind = "hvc"
           /\ cache[k] = None
<1>1. k = CanonicalKey(r) /\ Swept(r)[k] = None
  BY DEF Misses
<1>2. \A x \in Resolved(r) :
        /\ x.kind = "hvc" => x = Hvc(x.of) /\ Trusted(x.of)
        /\ x.kind = "src" => x = Src(x.of) /\ ~Trusted(x.of)
  BY DEF Resolved, ByName, Named, Local, Flat, Src, Hvc, Ref, Rel, Bare, ModuleAssumption
<1>3. k \in Resolved(r)
  <2>1. Resolved(r) = {} => r.kind # "src"
    BY DEF Resolved, Flat
  <2>2. r.kind # "hvc"
    BY DEF Ref, Src, Rel, Bare
  <2> QED BY <1>1, <2>1, <2>2 DEF CanonicalKey
<1>4. cache[k] = None
  <2>1. r.kind = "bare" => k # r
    OBVIOUS
  <2> QED BY <1>1, <2>1 DEF Swept, Put, ModuleLoaderTypeOK
<1> QED BY <1>2, <1>3, <1>4 DEF Src, Hvc

\* resolve() forgets names only.
LEMMA SweptSource ==
    ASSUME ModuleLoaderTypeOK, NEW r \in Ref, NEW m \in Module
    PROVE  Swept(r)[Src(m)] = cache[Src(m)]
<1>1. Src(m) \in Key /\ (r.kind = "bare" => r # Src(m))
  BY DEF Src, Key, Ref
<1> QED BY <1>1 DEF Swept, Put, ModuleLoaderTypeOK

\* An entry of the memory cache is not the absence of one, fresh or not.
LEMMA EntryIsSome ==
    ASSUME ModuleAssumption, NEW e \in Entry
    PROVE  e # None /\ [e EXCEPT !.fresh = FALSE] # None
BY DEF Entry, FileKey, Key, Ref, ModuleAssumption

\* An entry whose file was touched is still there.
LEMMA TouchedKept ==
    ASSUME ModuleAssumption, NEW c \in [Key -> Entry \union {None}], NEW k, NEW m \in Module,
           c[Src(m)] # None
    PROVE  Touched(c, k)[Src(m)] # None
<1>1. Src(m) \in Key
  BY DEF Src, Key, Ref
<1>2. \A e \in Entry : e # None /\ [e EXCEPT !.fresh = FALSE] # None
  BY EntryIsSome
<1> QED BY <1>1, <1>2 DEF Touched

\* A load's key is one of its unit's two.
LEMMA UnitKeys ==
    ASSUME ModuleLoaderTypeOK, NEW i \in Loaded
    PROVE  /\ stack[i].unit \in Module /\ stack[i] \in Frame
           /\ stack[i].key \in {Src(stack[i].unit), Hvc(stack[i].unit)}
           /\ stack[i].phase = "running" => stack[i].inst \in DOMAIN log
<1>1. LoadTypeOK(stack[i])
  BY DEF ModuleLoaderTypeOK, NestTypeOK
<1>2. stack[i].key = Src(stack[i].key.of) \/ stack[i].key = Hvc(stack[i].key.of)
  BY <1>1 DEF LoadTypeOK, FileKey, Src, Hvc
<1>3. stack[i] \in Frame
  BY DEF ModuleLoaderTypeOK, NestTypeOK, Loaded, Depth
<1> QED BY <1>1, <1>2, <1>3 DEF LoadTypeOK

SameLoad(i) ==
    /\ stack'[i].unit = stack[i].unit /\ stack'[i].key = stack[i].key
    /\ stack'[i].phase = stack[i].phase /\ stack'[i].ver = stack[i].ver
    /\ stack'[i].inst = stack[i].inst

\* A step that writes no bytecode and pushes no load: it may end the innermost.
LEMMA VersionsStay ==
    ASSUME ModuleLoaderTypeOK, VersionInv,
           Depth' = Depth \/ (Depth' = Depth - 1 /\ Depth > 1 /\ Top.phase = "running"),
           \A i \in 1 .. Depth' : SameLoad(i),
           \A m \in Module : file'[m].hvc = file[m].hvc,
           Kept \subseteq Kept',
           DOMAIN log' = DOMAIN log,
           \A n \in DOMAIN log :
              /\ log'[n].of = log[n].of /\ log'[n].ver = log[n].ver
              /\ log'[n].done => \/ log[n].done
                                 \/ Depth' = Depth - 1 /\ n = Top.inst /\ Top.unit \in Kept'
    PROVE  VersionInv'
<1>1. Depth \in Nat /\ Depth >= 1 /\ Loaded' \subseteq Loaded /\ Loaded' \subseteq 1 .. Depth'
      /\ Top = stack[Depth] /\ (Depth > 1 => Depth \in Loaded)
  BY DEF ModuleLoaderTypeOK, NestTypeOK, Depth, Loaded, Top
<1>2. \A n \in DOMAIN log : log[n].of \in Module
  <2>1. log \in Seq(Run)
    BY DEF ModuleLoaderTypeOK
  <2>2. \A n \in DOMAIN log : log[n] \in Run
    BY <2>1
  <2> QED BY <2>2 DEF Run
<1>3. ASSUME NEW i \in Loaded', stack'[i].phase = "running" PROVE Running(i)'
  <2>1. i \in Loaded /\ SameLoad(i) /\ stack[i].phase = "running"
    BY <1>1, <1>3 DEF SameLoad
  <2>2. stack[i].unit \in Module /\ stack[i].inst \in DOMAIN log /\ Running(i)
    BY <2>1, UnitKeys DEF VersionInv
  <2> QED BY <2>1, <2>2 DEF Running, SameLoad
<1>4. ASSUME NEW i \in Loaded', stack'[i].phase # "running" PROVE Writing(i)'
  <2>1. i \in Loaded /\ SameLoad(i) /\ stack[i].phase # "running"
    BY <1>1, <1>4 DEF SameLoad
  <2>2. stack[i].unit \in Module /\ Writing(i)
    BY <2>1, UnitKeys DEF VersionInv
  <2>3. Depth' = Depth
    BY <1>1, <2>1, <2>2 DEF Writing
  <2>4. \A j \in Loaded' : j \in Loaded /\ SameLoad(j)
    BY <1>1
  <2>5. ASSUME NEW n \in DOMAIN log', log'[n].done PROVE log'[n].of # stack'[i].unit
    BY <1>1, <2>1, <2>2, <2>3, <2>5 DEF Writing, SameLoad
  <2> QED BY <2>1, <2>2, <2>3, <2>4, <2>5 DEF Writing, SameLoad
<1>5. ASSUME NEW n \in DOMAIN log', log'[n].done
      PROVE  log'[n].ver = file'[log'[n].of].hvc /\ log'[n].of \in Kept'
  <2>1. CASE log[n].done
    BY <1>2, <1>5, <2>1 DEF VersionInv
  <2>2. CASE Depth' = Depth - 1 /\ n = Top.inst /\ Top.unit \in Kept'
    <3>1. Depth \in Loaded /\ stack[Depth].phase = "running"
      BY <1>1, <2>2
    <3>2. Running(Depth) /\ stack[Depth].unit \in Module
      BY <3>1, UnitKeys DEF VersionInv
    <3> QED BY <1>1, <1>2, <1>5, <2>2, <3>2 DEF Running
  <2> QED BY <1>5, <2>1, <2>2
<1> QED BY <1>3, <1>4, <1>5 DEF VersionInv

\* A load that begins on the bytecode begins on the version that is there, and
\* makes sure of it.
LEMMA BytecodeVersion ==
    ASSUME ModuleAssumption, ModuleLoaderTypeOK, VersionInv, NEW r \in Ref, LoadBytecode(r)
    PROVE  VersionInv'
<1>1. PICK k \in Key : /\ Misses(r, k)
                       /\ k.kind = "hvc" /\ file[k.of].hvc # Torn
                       /\ cache' = Swept(r)
                       /\ stack' = Pushed(r, k, "running", file[k.of].hvc, Len(log) + 1)
                       /\ log' = Started(k.of, file[k.of].hvc)
                       /\ UNCHANGED file
  BY DEF LoadBytecode
<1>2. k \in FileKey /\ k.of \in Module /\ Top.todo # <<>> /\ Top.phase = "running"
  BY <1>1, MissFacts
<1>3. file[k.of].hvc \in Version
  BY <1>1, <1>2, BytecodeExists
<1>4. k = Hvc(k.of) /\ Trusted(k.of)
  BY <1>1, AnswerTrusted
<1>5. /\ Depth \in Nat /\ Depth >= 1 /\ Top = stack[Depth] /\ Depth' = Depth + 1
      /\ \A i \in 1 .. Depth : SameLoad(i)
      /\ stack'[Depth + 1].unit = k.of /\ stack'[Depth + 1].key = k
      /\ stack'[Depth + 1].phase = "running" /\ stack'[Depth + 1].ver = file[k.of].hvc
      /\ stack'[Depth + 1].inst = Len(log) + 1
  <2>1. Len(log) + 1 \in Nat
    BY <1>2, <1>3, StartedFacts
  <2>2. Depth \in Nat /\ Depth >= 1 /\ Top = stack[Depth]
    BY DEF ModuleLoaderTypeOK, NestTypeOK, Depth, Top
  <2> QED BY <1>1, <1>2, <1>3, <2>1, <2>2, PushedFacts DEF SameLoad, Phase, Depth
<1>6. /\ DOMAIN log' = DOMAIN log \union {Len(log) + 1}
      /\ \A n \in DOMAIN log : log'[n] = log[n]
      /\ log'[Len(log) + 1] = [of |-> k.of, ver |-> file[k.of].hvc, done |-> FALSE]
  <2>1. log \in Seq(Run)
    BY DEF ModuleLoaderTypeOK
  <2> QED BY <1>1, <1>2, <1>3, <2>1, StartedFacts DEF Started
<1>7. Kept \subseteq Kept'
  <2>1. \A m \in Module : cache'[Src(m)] = cache[Src(m)]
    BY <1>1, SweptSource
  <2> QED BY <1>1, <2>1 DEF Kept, Trusted
<1>8. \A n \in DOMAIN log : log[n].of \in Module
  <2>1. log \in Seq(Run)
    BY DEF ModuleLoaderTypeOK
  <2>2. \A n \in DOMAIN log : log[n] \in Run
    BY <2>1
  <2> QED BY <2>2 DEF Run
<1>9. ASSUME NEW i \in Loaded' PROVE stack'[i].phase = "running" /\ Running(i)'
  <2>1. CASE i = Depth + 1
    <3>1. k.of \in Kept
      BY <1>2, <1>4 DEF Kept
    <3> QED BY <1>1, <1>5, <1>6, <1>7, <2>1, <3>1 DEF Running
  <2>2. CASE i # Depth + 1
    <3>1. i \in Loaded /\ i \in 1 .. Depth
      BY <1>5, <2>2 DEF Loaded
    <3>2. stack[i].phase = "running"
      BY <1>2, <1>5, <3>1 DEF VersionInv, Writing
    <3>3. Running(i) /\ stack[i].unit \in Module /\ stack[i].inst \in DOMAIN log
      BY <3>1, <3>2, UnitKeys DEF VersionInv
    <3>4. log'[stack[i].inst] = log[stack[i].inst] /\ UNCHANGED file
      BY <1>1, <1>6, <3>3
    <3> QED BY <1>5, <1>7, <3>1, <3>2, <3>3, <3>4 DEF Running, SameLoad
  <2> QED BY <2>1, <2>2
<1>10. ASSUME NEW n \in DOMAIN log', log'[n].done
       PROVE  log'[n].ver = file'[log'[n].of].hvc /\ log'[n].of \in Kept'
  <2>1. n \in DOMAIN log /\ log'[n] = log[n]
    BY <1>6, <1>10
  <2> QED BY <1>1, <1>7, <1>8, <1>10, <2>1 DEF VersionInv
<1> QED BY <1>9, <1>10 DEF VersionInv

\* A source is compiled only when nothing of its module is done or under way.
LEMMA SourceVersion ==
    ASSUME ModuleAssumption, ModuleLoaderTypeOK, NestInv, VersionInv,
           NEW r \in Ref, CompileSource(r)
    PROVE  VersionInv'
<1>1. PICK k \in Key : /\ Misses(r, k) /\ k \notin loading
                       /\ k.kind = "src"
                       /\ cache' = Touched(Swept(r), Hvc(k.of))
                       /\ stack' = Pushed(r, k, "caching", file[k.of].src, 0)
                       /\ file' = [file EXCEPT ![k.of].hvc = Torn, ![k.of].age = "newer"]
                       /\ UNCHANGED log
  BY DEF CompileSource
<1>2. k \in FileKey /\ k.of \in Module /\ Top.todo # <<>> /\ Top.phase = "running"
  BY <1>1, MissFacts
<1>3. file[k.of].src \in Version
  BY <1>2 DEF ModuleLoaderTypeOK, File
<1>4. k = Src(k.of) /\ k.of \notin Kept
  BY <1>1, AnswerTrusted DEF Kept
<1>5. /\ Depth \in Nat /\ Depth >= 1 /\ Top = stack[Depth] /\ Depth' = Depth + 1
      /\ \A i \in 1 .. Depth : SameLoad(i)
      /\ stack'[Depth + 1].unit = k.of /\ stack'[Depth + 1].key = k
      /\ stack'[Depth + 1].phase = "caching"
  <2>1. Depth \in Nat /\ Depth >= 1 /\ Top = stack[Depth]
    BY DEF ModuleLoaderTypeOK, NestTypeOK, Depth, Top
  <2>2. "caching" \in Phase /\ 0 \in Nat
    BY DEF Phase
  <2>3. stack' = Pushed(r, k, "caching", file[k.of].src, 0)
    BY <1>1
  <2> QED BY <1>2, <1>3, <2>1, <2>2, <2>3, PushedFacts DEF SameLoad, Depth
<1>6. \A i \in Loaded : stack[i].phase = "running" /\ Running(i)
  BY <1>2, <1>5 DEF VersionInv, Writing
<1>7. \A i \in Loaded : stack[i].unit # k.of
  BY <1>1, <1>4, <1>6, UnitKeys DEF NestInv, Running
<1>8. \A n \in DOMAIN log : log[n].done => log[n].of # k.of
  BY <1>4 DEF VersionInv
<1>9. \A m \in Module : m # k.of => file'[m] = file[m] /\ (m \in Kept => m \in Kept')
  <2>1. \A m \in Module : cache[Src(m)] # None => cache'[Src(m)] # None
    BY <1>1, SweptSource, SweptType, TouchedKept
  <2>2. \A m \in Module : m # k.of => file'[m] = file[m]
    BY <1>1, <1>2 DEF ModuleLoaderTypeOK
  <2> QED BY <2>1, <2>2 DEF Kept, Trusted
<1>10. ASSUME NEW i \in Loaded', i # Depth + 1
       PROVE  i \in Loaded /\ stack'[i].unit # k.of /\ stack'[i].phase = "running" /\ Running(i)'
  <2>1. i \in Loaded /\ i \in 1 .. Depth
    BY <1>5, <1>10 DEF Loaded
  <2>2. stack[i].unit \in Module /\ stack[i].unit # k.of /\ Running(i) /\ SameLoad(i)
        /\ stack[i].phase = "running"
    BY <1>5, <1>6, <1>7, <2>1, UnitKeys
  <2>3. UNCHANGED log
    BY <1>1
  <2>4. Running(i)'
    BY <1>9, <2>2, <2>3 DEF Running, SameLoad
  <2> QED BY <2>1, <2>2, <2>4 DEF SameLoad
<1>11. ASSUME NEW i \in Loaded', i = Depth + 1 PROVE stack'[i].phase = "caching" /\ Writing(i)'
  <2>1. UNCHANGED log
    BY <1>1
  <2> QED BY <1>4, <1>5, <1>8, <1>10, <1>11, <2>1 DEF Writing
<1>12. ASSUME NEW n \in DOMAIN log', log'[n].done
       PROVE  log'[n].ver = file'[log'[n].of].hvc /\ log'[n].of \in Kept'
  <2>1. log \in Seq(Run)
    BY DEF ModuleLoaderTypeOK
  <2>3. log[n] \in Run
    BY <1>1, <1>12, <2>1
  <2>2. log[n].of \in Module
    BY <2>3 DEF Run
  <2> QED BY <1>1, <1>8, <1>9, <1>12, <2>2 DEF VersionInv
<1>13. ASSUME NEW i \in Loaded'
       PROVE  IF stack'[i].phase = "running" THEN Running(i)' ELSE Writing(i)'
  BY <1>10, <1>11
<1> QED BY <1>12, <1>13 DEF VersionInv

\* The bytecode that the innermost load writes is of the version it compiled.
LEMMA WrittenVersion ==
    ASSUME ModuleAssumption, ModuleLoaderTypeOK, VersionInv, WriteBytecode \/ CopySource
    PROVE  VersionInv'
<1> DEFINE m == Top.unit
<1>1. Depth > 1 /\ Depth \in Loaded /\ Top = stack[Depth] /\ Top \in Frame /\ Depth = Len(stack)
      /\ stack \in Seq(Frame) /\ Depth \in Nat
  BY TopLoads, CallersFacts DEF WriteBytecode, CopySource, ModuleLoaderTypeOK, NestTypeOK, Depth
<1>2. Top.phase # "running" /\ Writing(Depth) /\ m \in Module /\ Top.ver \in Version
      /\ Top.key = Src(m)
  BY <1>1, UnitKeys DEF WriteBytecode, CopySource, VersionInv, Writing, Frame
<1>3. PICK f \in Frame, x \in File :
         /\ stack' = [stack EXCEPT ![Depth] = f] /\ file' = [file EXCEPT ![m] = x]
         /\ f.unit = m /\ f.key = Top.key /\ f.ver = Top.ver /\ x.hvc = Top.ver
         /\ \/ f.phase = "copying" /\ UNCHANGED log
            \/ /\ f.phase = "running" /\ f.inst = Len(log) + 1
               /\ log' = Started(m, Top.ver)
  <2>1. file[m] \in File /\ file \in [Module -> File] /\ log \in Seq(Run)
    BY <1>2 DEF ModuleLoaderTypeOK
  <2>2. CASE WriteBytecode
    <3> DEFINE g == [Top EXCEPT !.phase = "copying"]
               y == [file[m] EXCEPT !.hvc = Top.ver]
    <3>1. g \in Frame /\ g.unit = m /\ g.key = Top.key /\ g.ver = Top.ver /\ g.phase = "copying"
      BY <1>1 DEF Frame, Phase
    <3>2. y \in File /\ y.hvc = Top.ver
      BY <1>2, <2>1 DEF File
    <3>3. stack' = [stack EXCEPT ![Depth] = g] /\ file' = [file EXCEPT ![m] = y] /\ UNCHANGED log
      BY <1>1, <1>2, <2>1, <2>2 DEF WriteBytecode
    <3> HIDE DEF g, y
    <3> QED BY <3>1, <3>2, <3>3
  <2>3. CASE CopySource
    <3>1. PICK age \in {"older", "same"} :
             file' = [file EXCEPT ![m].copy = file[m].src, ![m].age = age]
      BY <2>3 DEF CopySource
    <3> DEFINE g == [Top EXCEPT !.phase = "running", !.inst = Len(log) + 1]
               y == [file[m] EXCEPT !.copy = file[m].src, !.age = age]
    <3>2. g \in Frame /\ g.unit = m /\ g.key = Top.key /\ g.ver = Top.ver /\ g.phase = "running"
          /\ g.inst = Len(log) + 1
      <4>1. Len(log) + 1 \in Nat /\ "running" \in Phase
        BY <2>1 DEF Phase
      <4> QED BY <1>1, <4>1 DEF Frame
    <3>3. file[m].hvc = Top.ver
      BY <1>1, <1>2, <2>3 DEF CopySource, Writing
    <3>4. y \in File /\ y.hvc = Top.ver
      BY <2>1, <3>3 DEF File
    <3>5. stack' = [stack EXCEPT ![Depth] = g] /\ file' = [file EXCEPT ![m] = y]
          /\ log' = Started(m, Top.ver)
      <4>1. stack' = [stack EXCEPT ![Depth] = g] /\ log' = Started(m, Top.ver)
        BY <2>3 DEF CopySource, Top, Depth
      <4> QED BY <1>2, <2>1, <3>1, <4>1
    <3> HIDE DEF g, y
    <3> QED BY <3>2, <3>4, <3>5
  <2> QED BY <2>2, <2>3
<1>4. /\ Depth' = Depth /\ Loaded' = Loaded /\ stack'[Depth] = f
      /\ \A i \in Loaded : i # Depth => stack'[i] = stack[i]
  BY <1>1, <1>3 DEF Depth, Loaded
<1>5. file'[m] = x /\ \A y \in Module : y # m => file'[y] = file[y] /\ (y \in Kept => y \in Kept')
  <2>1. file'[m] = x /\ \A y \in Module : y # m => file'[y] = file[y]
    BY <1>2, <1>3 DEF ModuleLoaderTypeOK
  <2>2. UNCHANGED cache
    BY DEF WriteBytecode, CopySource
  <2> QED BY <2>1, <2>2 DEF Kept, Trusted
<1>6. \A i \in Loaded : i # Depth =>
         stack[i].phase = "running" /\ stack[i].unit \in Module /\ stack[i].unit # m /\ Running(i)
         /\ stack[i].inst \in DOMAIN log
  BY <1>1, <1>2, UnitKeys DEF VersionInv, Writing
<1>7. \A n \in DOMAIN log : log[n].of \in Module /\ (log[n].done => log[n].of # m)
  <2>1. log \in Seq(Run)
    BY DEF ModuleLoaderTypeOK
  <2>2. \A n \in DOMAIN log : log[n] \in Run
    BY <2>1
  <2> QED BY <1>1, <1>2, <2>2 DEF Run, Writing
<1>8. /\ \A n \in DOMAIN log : n \in DOMAIN log' /\ log'[n] = log[n]
      /\ \A n \in DOMAIN log' : log'[n].done => n \in DOMAIN log
      /\ f.phase = "running" => /\ log'[Len(log) + 1].of = m
                                /\ log'[Len(log) + 1].ver = Top.ver
  <2>1. log \in Seq(Run)
    BY DEF ModuleLoaderTypeOK
  <2> HIDE DEF m
  <2>2. ASSUME log' = Started(m, Top.ver)
        PROVE  /\ DOMAIN log' = DOMAIN log \union {Len(log) + 1}
               /\ \A n \in DOMAIN log : log'[n] = log[n]
               /\ log'[Len(log) + 1] = [of |-> m, ver |-> Top.ver, done |-> FALSE]
    BY <1>2, <2>1, <2>2, StartedFacts DEF Started
  <2> QED BY <1>3, <2>2
<1>9. ASSUME NEW i \in Loaded', i # Depth PROVE stack'[i].phase = "running" /\ Running(i)'
  <2>1. i \in Loaded /\ stack'[i] = stack[i] /\ stack[i].inst \in DOMAIN log /\ Running(i)
        /\ stack[i].unit \in Module /\ stack[i].unit # m /\ stack[i].phase = "running"
    BY <1>4, <1>6, <1>9
  <2> QED BY <1>5, <1>8, <2>1 DEF Running
<1>10. ASSUME NEW i \in Loaded', i = Depth
       PROVE  IF stack'[i].phase = "running" THEN Running(i)' ELSE Writing(i)'
  <2>1. stack'[i] = f /\ f.unit = m /\ f.key = Src(m) /\ f.ver = Top.ver /\ Src(m) # Hvc(m)
        /\ file'[m].hvc = Top.ver
    BY <1>2, <1>3, <1>4, <1>5, <1>10 DEF Src, Hvc
  <2>2. CASE f.phase = "running"
    BY <1>3, <1>8, <2>1, <2>2 DEF Running
  <2>3. CASE f.phase # "running"
    <3>1. \A j \in Loaded' : j # i => stack'[j].unit # m
      BY <1>4, <1>6, <1>10
    <3>2. \A n \in DOMAIN log' : log'[n].done => log'[n].of # m
      BY <1>7, <1>8
    <3> QED BY <1>4, <1>10, <2>1, <2>3, <3>1, <3>2 DEF Writing
  <2> QED BY <2>1, <2>2, <2>3
<1>11. ASSUME NEW n \in DOMAIN log', log'[n].done
       PROVE  log'[n].ver = file'[log'[n].of].hvc /\ log'[n].of \in Kept'
  BY <1>5, <1>7, <1>8, <1>11 DEF VersionInv
<1> QED BY <1>9, <1>10, <1>11 DEF VersionInv

\* Every step keeps the versions apart.
LEMMA VersionInductive ==
    ASSUME ModuleAssumption, ModuleLoaderTypeOK, NestInv, VersionInv, [Next]_vars
    PROVE  VersionInv'
<1>1. Depth \in Nat /\ Depth >= 1
  BY DEF ModuleLoaderTypeOK, NestTypeOK, Depth
<1>2. ASSUME stack' = Advanced \/ UNCHANGED stack, Top.todo # <<>> \/ UNCHANGED stack,
             UNCHANGED log,
             \A m \in Module : cache[Src(m)] # None => cache'[Src(m)] # None,
             \A m \in Module : /\ file'[m].hvc = file[m].hvc /\ file'[m].copy = file[m].copy
                               /\ file'[m].index = file[m].index /\ file'[m].age = file[m].age
      PROVE  VersionInv'
  <2>1. Depth' = Depth /\ \A i \in 1 .. Depth : SameLoad(i)
    BY <1>2, AdvancedFacts DEF SameLoad, Depth
  <2>2. Kept \subseteq Kept'
    BY <1>2 DEF Kept, Trusted
  <2> QED BY <1>2, <2>1, <2>2, VersionsStay
<1>3. CASE UNCHANGED vars
  BY <1>2, <1>3 DEF vars
<1>4. ASSUME NEW r \in Ref, UseGlobal(r) PROVE VersionInv'
  BY <1>2, <1>4 DEF UseGlobal, Imported
<1>5. ASSUME NEW r \in Ref, UseCached(r) PROVE VersionInv'
  BY <1>2, <1>5, SweptSource DEF UseCached, Imported
<1>6. ASSUME NEW r \in Ref, ImportFails(r) PROVE VersionInv'
  BY <1>2, <1>6, SweptSource DEF ImportFails, Misses, Imported
<1>7. CASE Finish
  <2> DEFINE m == Top.unit
  <2>1. Depth > 1 /\ Depth \in Loaded /\ Top = stack[Depth] /\ LoadTypeOK(Top)
        /\ Top.phase = "running"
    BY <1>7, CallersFacts DEF Finish
  <2>2. /\ m \in Module /\ Top.inst \in DOMAIN log /\ Top.key \in {Src(m), Hvc(m)}
        /\ Running(Depth) /\ Top.ver \in Version
    BY <2>1, UnitKeys DEF VersionInv, Frame
  <2>3. Depth' = Depth - 1 /\ \A i \in 1 .. Depth' : SameLoad(i)
    BY <1>1, <1>7, <2>1, CallersFacts DEF Finish, Leave, SameLoad, Depth
  <2>4. \A x \in Module : /\ file'[x].hvc = file[x].hvc /\ file'[x].copy = file[x].copy
                          /\ file'[x].age = file[x].age
                          /\ file'[x].index = IF x = m THEN HashOf(Top) ELSE file[x].index
    <3>1. file' = [file EXCEPT ![m].index = HashOf(Top)]
      BY <1>7 DEF Finish
    <3>2. \A x \in Module : file'[x] = IF x = m THEN [file[m] EXCEPT !.index = HashOf(Top)]
                                                 ELSE file[x]
      BY <2>2, <3>1 DEF ModuleLoaderTypeOK
    <3>3. \A x \in Module : file[x] \in File
      BY DEF ModuleLoaderTypeOK
    <3> QED BY <2>2, <3>2, <3>3 DEF File
  <2>10. CacheEntry # None
    <3>1. Top.key \in FileKey /\ Top.inst \in Nat /\ file[m] \in File
      BY <2>1, <2>2, CallersFacts DEF LoadTypeOK, Frame, ModuleLoaderTypeOK
    <3>2. CacheEntry \in Entry
      BY <3>1 DEF CacheEntry, Entry
    <3> QED BY <3>2, EntryIsSome
  <2>5. \A x \in Module : cache[Src(x)] # None => cache'[Src(x)] # None
    <3>1. CacheEntry # None
      BY <2>10
    <3> QED BY <1>7, <3>1 DEF Finish, Put, ModuleLoaderTypeOK, Src, Key, Ref
  <2>6. m \in Kept'
    <3>1. CASE Top.key = Src(m)
      <4>1. CacheEntry # None /\ Src(m) \in Key
        BY <2>2, <2>10 DEF Src, Key, Ref
      <4>2. cache'[Src(m)] = CacheEntry
        BY <1>7, <3>1, <4>1 DEF Finish, Put, ModuleLoaderTypeOK
      <4> QED BY <2>2, <4>1, <4>2 DEF Kept
    <3>2. CASE Top.key = Hvc(m)
      <4>1. file'[m].index = file'[m].copy
        BY <2>2, <2>4, <3>2 DEF HashOf, Hvc
      <4>2. file'[m].hvc # None
        BY <2>2, <2>4, <2>1 DEF Running, ModuleAssumption
      <4> QED BY <2>2, <4>1, <4>2 DEF Kept, Trusted
    <3> QED BY <2>2, <3>1, <3>2
  <2>7. Kept \subseteq Kept'
    <3>1. ASSUME NEW x \in Kept, x # m PROVE x \in Kept'
      BY <2>4, <2>5, <3>1 DEF Kept, Trusted
    <3> QED BY <2>6, <3>1
  <2>8. /\ DOMAIN log' = DOMAIN log
        /\ \A n \in DOMAIN log : /\ log'[n].of = log[n].of /\ log'[n].ver = log[n].ver
                                 /\ log'[n].done => log[n].done \/ n = Top.inst
    <3>1. log \in Seq(Run) /\ log' = [log EXCEPT ![Top.inst].done = TRUE]
      BY <1>7 DEF Finish, ModuleLoaderTypeOK
    <3>2. \A n \in DOMAIN log : log[n] \in Run
      BY <3>1
    <3>3. DOMAIN log' = DOMAIN log
      BY <3>1
    <3>4. \A n \in DOMAIN log : log'[n] = IF n = Top.inst THEN [log[n] EXCEPT !.done = TRUE]
                                                          ELSE log[n]
      BY <3>1
    <3> QED BY <3>2, <3>3, <3>4 DEF Run
  <2>9. \A n \in DOMAIN log : log'[n].done => \/ log[n].done
                                              \/ Depth' = Depth - 1 /\ n = Top.inst
                                                 /\ Top.unit \in Kept'
    BY <2>3, <2>6, <2>8
  <2> QED BY <2>1, <2>3, <2>4, <2>7, <2>8, <2>9, VersionsStay
<1>8. CASE Abort
  <2>1. Depth > 1 /\ Top.phase = "running" /\ UNCHANGED <<file, cache, log>>
    BY <1>8 DEF Abort
  <2>2. Depth' = Depth - 1 /\ \A i \in 1 .. Depth' : SameLoad(i)
    BY <1>1, <1>8, <2>1, CallersFacts DEF Abort, Leave, SameLoad, Depth
  <2>3. Kept \subseteq Kept'
    BY <2>1 DEF Kept, Trusted
  <2> QED BY <2>1, <2>2, <2>3, VersionsStay
<1>9. CASE Catch
  BY <1>2, <1>9 DEF Catch
<1>10. CASE InitialRun'
  BY <1>10, InitialType DEF InitialRun, VersionInv, Loaded, Depth
<1>11. ASSUME NEW m \in Module, Edit(m) PROVE VersionInv'
  <2>1. \A x \in Module : /\ file'[x].hvc = file[x].hvc /\ file'[x].copy = file[x].copy
                          /\ file'[x].index = file[x].index /\ file'[x].age = file[x].age
    <3>1. \A x \in Module : file[x] \in File
      BY DEF ModuleLoaderTypeOK
    <3>2. \A x \in Module : file'[x] = IF x = m THEN [file[m] EXCEPT !.src = @ + 1] ELSE file[x]
      BY <1>11 DEF Edit, ModuleLoaderTypeOK
    <3> QED BY <3>1, <3>2 DEF File
  <2>2. \A x \in Module : cache[Src(x)] # None => cache'[Src(x)] # None
    BY <1>11, TouchedKept DEF Edit, ModuleLoaderTypeOK
  <2> QED BY <1>2, <1>11, <2>1, <2>2 DEF Edit
<1> QED BY <1>3, <1>4, <1>5, <1>6, <1>7, <1>8, <1>9, <1>10, <1>11, BytecodeVersion,
           SourceVersion, WrittenVersion
        DEF Next, Program, Restart, Exit, NewProcess, InitialRun

\* The invalidation of cached modules never takes effect: whatever is edited and
\* whatever fails, all the completed instances of a module in one process are of one
\* version of its source.  EditedIsReloaded is what the loader's comments say instead.
THEOREM EditsAreNeverSeen == Spec => []OneVersionPerProcess
<1>1. Init => NestInv
  BY InitialType, ModuleAssumption DEF Init, NestInv, Loaded, Depth
<1>2. Init => VersionInv
  BY InitialType, ModuleAssumption DEF Init, VersionInv, Loaded, Depth
<1>3. ModuleLoaderTypeOK /\ NestInv /\ [Next]_vars => NestInv'
  BY NestInductive, ModuleAssumption
<1>4. ModuleLoaderTypeOK /\ NestInv /\ VersionInv /\ [Next]_vars => VersionInv'
  BY VersionInductive, ModuleAssumption
<1>5. VersionInv => OneVersionPerProcess
  BY DEF VersionInv, OneVersionPerProcess
<1> QED BY <1>1, <1>2, <1>3, <1>4, <1>5, TypeCorrect, PTL DEF Spec

=============================================================================
