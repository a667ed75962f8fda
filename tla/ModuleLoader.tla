---------------------------- MODULE ModuleLoader ----------------------------
(***************************************************************************)
(* `use` of Havel modules: VM::loadModule, ModuleLoader::resolve and the   *)
(* bytecode cache in ~/.cache/havel that outlives the process.             *)
(*                                                                         *)
(* A script imports modules, a module imports further ones while its own   *)
(* __main__ runs, and any of them may fail and be caught.  Beside them a   *)
(* user edits the sources and the process ends, or dies, at any moment.    *)
(* What a cached file is worth is decided by resolve() from a hash index   *)
(* and from file times, never from the source itself.                      *)
(***************************************************************************)
EXTENDS Naturals, Sequences, FiniteSets

CONSTANTS
    Module,       \* source files of modules (X.hv)
    Library,      \* the ones under modules/std, found by bare name anywhere
    Name,         \* what scripts call them
    NameOf,       \* [Module -> Name], the stem of the file
    HomeOf,       \* [Module -> directory]
    Script,       \* the main script
    ScriptDir,    \* its directory
    CacheDir,     \* ~/.cache/havel: holds X.hvc and a copy of X.hv, flat
    Imports,      \* [Module \union {Script} -> Seq(Ref)], in program order
    None,         \* no file, no module
    MaxVersion,   \* bound: a source has versions 1 .. MaxVersion
    MaxRestarts   \* bound: restarts of the process

\* What a `use` names; a canonical path is also the key of its own source.
Src(m)  == [kind |-> "src",  of |-> m]     \* "/abs/path/m.hv"
Hvc(m)  == [kind |-> "hvc",  of |-> m]     \* ~/.cache/havel/m.hvc
Rel(n)  == [kind |-> "rel",  of |-> n]     \* "./n.hv"
Bare(n) == [kind |-> "bare", of |-> n]     \* n
Ref     == {Src(m) : m \in Module} \union {Rel(n) : n \in Name} \union {Bare(n) : n \in Name}
Key     == Ref \union {Hvc(m) : m \in Module}

Version == 1 .. MaxVersion
Unit    == Module \union {Script}
Dir     == {HomeOf[m] : m \in Module} \union {ScriptDir, CacheDir}
Torn    == 0       \* a bytecode file opened for writing and not yet complete

ASSUME ModuleAssumption ==
    /\ IsFiniteSet(Module) /\ Library \subseteq Module
    /\ NameOf \in [Module -> Name]
    /\ DOMAIN HomeOf = Module
    /\ Script \notin Module
    /\ Imports \in [Unit -> Seq(Ref)]
    /\ None \notin Version \union {Torn} /\ None \notin Key
    /\ None \notin [inst : Nat, origin : Key, fresh : BOOLEAN]
    /\ MaxVersion \in Nat \ {0} /\ MaxRestarts \in Nat

VARIABLES
    file,       \* per module: source, bytecode, copy of the source, hash index, age
    cache,      \* cache_ and freshness_: key -> [inst, origin, fresh] or None
    loading,    \* modules_loading_
    stack,      \* the nested loadModule calls, the script at the bottom
    dir,        \* current_script_dir_
    globals,    \* per path, the module object in the VM's globals, or 0
    raised,     \* an exception is on its way up
    log,        \* the modules this process started, in order
    restarts

vars == <<file, cache, loading, stack, dir, globals, raised, log, restarts>>

File  == [src : Version, hvc : Version \union {Torn, None}, copy : Version \union {None},
          index : Version \union {None}, age : {"older", "same", "newer"}]
Phase == {"caching", "copying", "running"}

Top        == stack[Len(stack)]
Callers    == SubSeq(stack, 1, Len(stack) - 1)
Depth      == Len(stack)
\* The map f after the value v was stored under the keys of S.
Put(f, S, v) == [x \in DOMAIN f |-> IF x \in S THEN v ELSE f[x]]
\* The directory the imports of a unit are relative to, once its code is loaded.
DirOf(key) == IF key.kind = "hvc" THEN CacheDir ELSE HomeOf[key.of]

-----------------------------------------------------------------------------
(* resolve(): which file answers an import.                                *)

\* checkBcCache(): the bytecode is used when the index knows the hash of the
\* COPY of the source beside it, or when it is not older than that copy.
Trusted(m) == /\ file[m].hvc # None
              /\ \/ file[m].copy = None
                 \/ file[m].index = file[m].copy
                 \/ file[m].age # "older"

\* flatCacheFor()
Flat(m) == IF Trusted(m) THEN Hvc(m) ELSE Src(m)

Named(S, n)  == {m \in S : NameOf[m] = n}
Local(n)     == {m \in Module \ Library : NameOf[m] = n /\ HomeOf[m] = dir}
\* isFreshLocked(): a name whose source or bytecode was touched is forgotten.
Remembered(r) == r.kind = "bare" /\ cache[r] # None /\ cache[r].fresh

ByName(n) == IF \E m \in Named(Library, n) : Trusted(m)
             THEN {Hvc(m) : m \in {l \in Named(Library, n) : Trusted(l)}}
             ELSE IF Local(n) # {} THEN {Flat(m) : m \in Local(n)}
             ELSE {Flat(m) : m \in Named(Library, n)}

\* The canonical path, or nothing for a name already in memory or not found.
Resolved(r) == CASE r.kind = "src"  -> {Flat(r.of)}
                 [] r.kind = "rel"  -> {Flat(m) : m \in Local(r.of)}
                 [] r.kind = "bare" -> IF Remembered(r) THEN {} ELSE ByName(r.of)

\* canonicalizePath(), with the import's own text where there is no path.
CanonicalKey(r) == IF Resolved(r) = {} THEN r ELSE CHOOSE k \in Resolved(r) : TRUE

\* resolve() drops a stale name from the memory cache as it passes.
Swept(r) == IF r.kind = "bare" /\ ~Remembered(r) THEN Put(cache, {r}, None) ELSE cache

-----------------------------------------------------------------------------
(* One loadModule call.                                                    *)

NoObjects == [r \in Ref |-> 0]

ScriptFrame == [unit |-> Script, key |-> None, ref |-> None, phase |-> "running", ver |-> 1,
                inst |-> 0, todo |-> Imports[Script], saved |-> NoObjects, savedDir |-> ScriptDir]

Imported(r)  == ~raised /\ Top.phase = "running" /\ Top.todo # <<>> /\ r = Head(Top.todo)
Advanced  == [stack EXCEPT ![Depth].todo = Tail(@)]
\* The entries made from a file that was written since.
Touched(c, k) == [x \in Key |-> IF c[x] # None /\ c[x].origin = k
                                 THEN [c[x] EXCEPT !.fresh = FALSE] ELSE c[x]]

\* IMPORT finds the object of this path in the importer's own globals.
UseGlobal(r) ==
    /\ Imported(r)
    /\ globals[r] # 0
    /\ stack' = Advanced
    /\ UNCHANGED <<file, cache, loading, dir, globals, raised, log, restarts>>

\* The import reaches loadModule, and the canonical key k is not loaded yet.
Misses(r, k) == /\ Imported(r)
                /\ globals[r] = 0
                /\ k = CanonicalKey(r)
                /\ Swept(r)[k] = None

\* loadModule returns the exports cached under the canonical key.
UseCached(r) ==
    /\ Imported(r)
    /\ globals[r] = 0
    /\ Swept(r)[CanonicalKey(r)] # None
    /\ cache' = Swept(r)
    /\ stack' = Advanced
    /\ UNCHANGED <<file, loading, dir, globals, raised, log, restarts>>

\* Mutant: an import that failed is tried again after the catch.
MutantImportFails(r) ==
    /\ \E k \in Key : /\ Misses(r, k)
                      /\ \/ Resolved(r) = {}
                         \/ k \in loading
                         \/ k.kind = "hvc" /\ file[k.of].hvc = Torn
                         \/ k.kind = "src"
    /\ cache' = Swept(r)
    /\ raised' = TRUE
    /\ UNCHANGED <<file, loading, stack, dir, globals, log, restarts>>

\* Not found, circular, unreadable bytecode, or a source that does not compile.
ImportFails(r) ==
    /\ \E k \in Key : /\ Misses(r, k)
                      /\ \/ Resolved(r) = {}
                         \/ k \in loading
                         \/ k.kind = "hvc" /\ file[k.of].hvc = Torn
                         \/ k.kind = "src"
    /\ cache' = Swept(r)
    /\ stack' = Advanced
    /\ raised' = TRUE
    /\ UNCHANGED <<file, loading, dir, globals, log, restarts>>

Pushed(r, k, phase, ver, inst) ==
    Append(Advanced, [unit |-> k.of, key |-> k, ref |-> r, phase |-> phase, ver |-> ver,
                      inst |-> inst, todo |-> Imports[k.of], saved |-> globals,
                      savedDir |-> dir])

Started(m, ver) == Append(log, [of |-> m, ver |-> ver, done |-> FALSE])

\* Mutant: exports are cached when the module starts, so that cycles see them.
MutantLoadBytecode(r) ==
    \E k \in Key :
       /\ Misses(r, k)
       /\ k \notin loading
       /\ k.kind = "hvc" /\ file[k.of].hvc # Torn
       /\ loading' = loading \union {k}
       /\ cache' = Put(Swept(r), {k}, [inst |-> Len(log) + 1, origin |-> k, fresh |-> TRUE])
       /\ stack' = Pushed(r, k, "running", file[k.of].hvc, Len(log) + 1)
       /\ log' = Started(k.of, file[k.of].hvc)
       /\ dir' = DirOf(k)
       /\ UNCHANGED <<file, globals, raised, restarts>>

\* The bytecode is read and __main__ begins, with the directory of the .hvc.
LoadBytecode(r) ==
    \E k \in Key :
       /\ Misses(r, k)
       /\ k \notin loading
       /\ k.kind = "hvc" /\ file[k.of].hvc # Torn
       /\ loading' = loading \union {k}
       /\ cache' = Swept(r)
       /\ stack' = Pushed(r, k, "running", file[k.of].hvc, Len(log) + 1)
       /\ log' = Started(k.of, file[k.of].hvc)
       /\ dir' = DirOf(k)
       /\ UNCHANGED <<file, globals, raised, restarts>>

\* The source is read and compiled; autoCacheBytecodeChunk opens the .hvc,
\* which truncates it.
CompileSource(r) ==
    \E k \in Key :
       /\ Misses(r, k)
       /\ k \notin loading
       /\ k.kind = "src"
       /\ loading' = loading \union {k}
       /\ cache' = Touched(Swept(r), Hvc(k.of))
       /\ stack' = Pushed(r, k, "caching", file[k.of].src, 0)
       /\ file' = [file EXCEPT ![k.of].hvc = Torn, ![k.of].age = "newer"]
       /\ dir' = DirOf(k)
       /\ UNCHANGED <<globals, raised, log, restarts>>

WriteBytecode ==
    /\ Top.phase = "caching"
    /\ file' = [file EXCEPT ![Top.unit].hvc = Top.ver]
    /\ stack' = [stack EXCEPT ![Depth].phase = "copying"]
    /\ UNCHANGED <<cache, loading, dir, globals, raised, log, restarts>>

\* The source as it is NOW is copied beside the bytecode, a clock tick later
\* or within the same one; then __main__ begins.
CopySource ==
    /\ Top.phase = "copying"
    /\ \E age \in {"older", "same"} :
          file' = [file EXCEPT ![Top.unit].copy = file[Top.unit].src, ![Top.unit].age = age]
    /\ stack' = [stack EXCEPT ![Depth].phase = "running", ![Depth].inst = Len(log) + 1]
    /\ log' = Started(Top.unit, Top.ver)
    /\ UNCHANGED <<cache, loading, dir, globals, raised, restarts>>

-----------------------------------------------------------------------------
(* How a load ends.                                                        *)

\* Mutant: modules_loading_ keeps the key.
MutantLeave == /\ loading' = loading
               /\ dir' = Top.savedDir
               /\ stack' = Callers

\* Both ends give the importer its directory back and leave modules_loading_.
Leave == /\ loading' = loading \ {Top.key}
         /\ dir' = Top.savedDir
         /\ stack' = Callers

\* Entries are checked against the later of two file times, so one made from
\* bytecode and a copy of different age is never fresh.
CacheEntry == [inst |-> Top.inst, origin |-> Top.key,
               fresh |-> \/ Top.key.kind = "src"
                         \/ file[Top.unit].copy = None
                         \/ file[Top.unit].age = "same"]

\* The hash the index gets: of the source, or of its copy for bytecode.
HashOf(f) == IF f.key.kind = "src" THEN file[f.unit].src ELSE file[f.unit].copy

\* __main__ returned: exports are cached under the path and under the key.
Finish ==
    /\ ~raised /\ Depth > 1 /\ Top.phase = "running" /\ Top.todo = <<>>
    /\ cache' = Put(cache, {Top.ref, Top.key}, CacheEntry)
    /\ file' = [file EXCEPT ![Top.unit].index = HashOf(Top)]
    /\ log' = [log EXCEPT ![Top.inst].done = TRUE]
    /\ globals' = Put(Top.saved, {Top.ref}, Top.inst)
    /\ Leave
    /\ UNCHANGED <<raised, restarts>>

\* Mutant: the handler leaves the script directory to its caller.
MutantAbortDir ==
    /\ Depth > 1 /\ Top.phase = "running"
    /\ raised' = TRUE
    /\ globals' = Top.saved
    /\ loading' = loading \ {Top.key}
    /\ stack' = Callers
    /\ UNCHANGED <<file, cache, dir, log, restarts>>

\* Mutant: it unwinds the script's own frame as well.
MutantAbortScript ==
    /\ Top.phase = "running"
    /\ raised' = TRUE
    /\ globals' = Top.saved
    /\ Leave
    /\ UNCHANGED <<file, cache, log, restarts>>

\* __main__ throws, or does not catch what an import of its own threw.
Abort ==
    /\ Depth > 1 /\ Top.phase = "running"
    /\ raised' = TRUE
    /\ globals' = Top.saved
    /\ Leave
    /\ UNCHANGED <<file, cache, log, restarts>>

\* try/catch around a `use` that failed.
Catch ==
    /\ raised
    /\ raised' = FALSE
    /\ UNCHANGED <<file, cache, loading, stack, dir, globals, log, restarts>>

-----------------------------------------------------------------------------
(* What happens beside the script.                                         *)

Edit(m) ==
    /\ file[m].src < MaxVersion
    /\ file' = [file EXCEPT ![m].src = @ + 1]
    /\ cache' = Touched(cache, Src(m))
    /\ UNCHANGED <<loading, stack, dir, globals, raised, log, restarts>>

\* A process begins; all that is left of the one before is on the disk.
NewProcess ==
    /\ restarts < MaxRestarts
    /\ restarts' = restarts + 1
    /\ cache' = [k \in Key |-> None]
    /\ loading' = {}
    /\ stack' = <<ScriptFrame>>
    /\ dir' = ScriptDir
    /\ globals' = NoObjects
    /\ raised' = FALSE
    /\ log' = << >>

\* The process ends or is killed, and the script is started again.
Restart == NewProcess /\ UNCHANGED file

\* No load of the same module encloses it.
Outermost(i) == \A j \in 2 .. i - 1 : stack[j].unit # stack[i].unit

\* exit() in a module breaks the loop of every load it is in: from the innermost to
\* the outermost they still record their hashes, and the process ends.
Exit ==
    /\ ~raised /\ Depth > 1 /\ Top.phase = "running"
    /\ \E hash \in [Module -> Version \union {None}] :
          /\ \A m \in Module : (\A i \in 2 .. Depth : stack[i].unit # m) => hash[m] = file[m].index
          /\ \A i \in 2 .. Depth : Outermost(i) => hash[stack[i].unit] = HashOf(stack[i])
          /\ file' = [m \in Module |-> [file[m] EXCEPT !.index = hash[m]]]
    /\ NewProcess

Init ==
    /\ file = [m \in Module |-> [src |-> 1, hvc |-> None, copy |-> None, index |-> None,
                                 age |-> "newer"]]
    /\ cache = [k \in Key |-> None]
    /\ loading = {}
    /\ stack = <<ScriptFrame>>
    /\ dir = ScriptDir
    /\ globals = NoObjects
    /\ raised = FALSE
    /\ log = << >>
    /\ restarts = 0

Program == \/ \E r \in Ref : UseGlobal(r) \/ UseCached(r) \/ ImportFails(r)
                               \/ LoadBytecode(r) \/ CompileSource(r)
           \/ WriteBytecode \/ CopySource \/ Finish \/ Abort \/ Catch

Next == Program \/ Restart \/ Exit \/ \E m \in Module : Edit(m)

\* The interpreter keeps running; nobody has to edit or to restart.
Spec == Init /\ [][Next]_vars /\ WF_vars(Program)

-----------------------------------------------------------------------------
(* Properties.                                                             *)

FileKey == {Src(m) : m \in Module} \union {Hvc(m) : m \in Module}
Loaded  == 2 .. Depth          \* the nested loadModule calls

Frame   == [unit : Unit, key : FileKey \union {None}, ref : Ref \union {None}, phase : Phase,
            ver : Version, inst : Nat, todo : Seq(Ref), saved : [Ref -> Nat], savedDir : Dir]
Entry   == [inst : Nat, origin : FileKey, fresh : BOOLEAN]
Run     == [of : Module, ver : Version, done : BOOLEAN]

\* A load in progress: what it loads, and whether its __main__ has begun.
LoadTypeOK(f) ==
    /\ f.unit \in Module /\ f.ref \in Ref
    /\ f.key \in FileKey /\ f.key.of = f.unit
    /\ f.inst \in IF f.phase = "running" THEN DOMAIN log ELSE {0}

\* The script at the bottom, loads above it.
NestTypeOK ==
    /\ stack \in Seq(Frame)
    /\ Depth >= 1 /\ stack[1].unit = Script /\ stack[1].phase = "running"
    /\ \A i \in Loaded : LoadTypeOK(stack[i])

\* Type invariant.
ModuleLoaderTypeOK ==
    /\ file \in [Module -> File]
    /\ cache \in [Key -> Entry \union {None}]
    /\ loading \subseteq FileKey
    /\ NestTypeOK
    /\ dir \in Dir
    /\ globals \in [Ref -> Nat]
    /\ raised \in BOOLEAN
    /\ log \in Seq(Run)
    /\ restarts \in 0 .. MaxRestarts

\* modules_loading_ holds exactly the keys of the loads in progress, each of
\* them once: whatever failed before can be imported again, and a nest of
\* imports is never deeper than the files there are.
LoadingIsStack ==
    /\ loading = {stack[i].key : i \in Loaded}
    /\ \A i, j \in Loaded : i # j => stack[i].key # stack[j].key
    /\ Depth <= 1 + 2 * Cardinality(Module)

\* After every way out of a nested load the importer goes on with its own
\* directory and with every module object it had, and no nested unit sees
\* another object under a path than its importers do.
ContextFollowsStack ==
    /\ dir = IF Depth = 1 THEN ScriptDir ELSE DirOf(Top.key)
    /\ \A i \in Loaded : \A r \in Ref :
          stack[i].saved[r] # 0 => globals[r] = stack[i].saved[r]

Done(n) == n \in DOMAIN log /\ log[n].done

\* What an import can be given without running it has run to its end: no
\* half-made exports of a failed or an unfinished module are ever cached.
CachedAreDone ==
    /\ \A k \in Key : cache[k] # None => Done(cache[k].inst)
    /\ \A r \in Ref : globals[r] # 0 => Done(globals[r])

\* Every import ends: cycles are cut and failures come back to the script.
ImportsEnd == (Depth > 1) ~> (Depth = 1)

(* Expectations the code does not meet, with cfgs of their own.            *)

\* A name that is forgotten because its source was touched since it was cached is
\* answered with the source as it is now.
EditedIsReloaded ==
    [][\A n \in Name :
          LET was == cache[Bare(n)] IN
          was # None /\ was.origin.kind = "src" /\ ~was.fresh /\ LoadBytecode(Bare(n))
             => file[was.origin.of].hvc = file[was.origin.of].src]_vars

\* What the hash index vouches for is the bytecode of the source it was taken of.
HashVouches ==
    \A m \in Module : file[m].hvc \in Version /\ file[m].copy # None
                          /\ file[m].index = file[m].copy => file[m].hvc = file[m].copy

\* What happens in place of the first: the invalidation of cached modules has no
\* effect, and all instances that a process completes are of one version.
OneVersionPerProcess ==
    \A i, j \in DOMAIN log :
       log[i].of = log[j].of /\ log[i].done /\ log[j].done => log[i].ver = log[j].ver

\* The first module that a process runs from bytecode was compiled from its
\* source as it is.
BytecodeIsCurrent ==
    [][\A r \in Ref : LoadBytecode(r) /\ log = << >>
          => LET m == stack'[Len(stack')].unit IN file[m].hvc = file[m].src]_vars

\* A module that is being loaded is not loaded again inside itself.
NoNestedInstance == \A i, j \in Loaded : stack[i].unit = stack[j].unit => i = j

\* An incomplete bytecode file is not used, unless its writer is at work.
NeverTornTrusted ==
    \A m \in Module : file[m].hvc = Torn /\ Trusted(m) =>
                         \E i \in Loaded : stack[i].unit = m /\ stack[i].phase = "caching"

Asked      == Top.phase = "running" /\ Top.todo # <<>> /\ Head(Top.todo).kind \in {"rel", "bare"}
\* The modules that lie beside the unit that imports.
Siblings(n) == {m \in Module \ Library :
                  NameOf[m] = n /\ HomeOf[m] = IF Depth = 1 THEN ScriptDir ELSE HomeOf[Top.unit]}

\* A module finds those in its own directory, compiled just now or not.
SiblingsFound == Asked /\ Siblings(Head(Top.todo).of) # {} /\ cache[Head(Top.todo)] = None
                    => Resolved(Head(Top.todo)) # {}
=============================================================================
