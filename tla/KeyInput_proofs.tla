--------------------------- MODULE KeyInput_proofs ---------------------------
(***************************************************************************)
(* The properties of KeyInput for every set of keys, mappings, messages    *)
(* and hotkeys.                                                            *)
(***************************************************************************)
EXTENDS KeyInput, TLAPS

LEMMA RemapType ==
  ASSUME KeyInputTypeOK, NEW k \in Key, NEW d \in BOOLEAN
  PROVE  RemapKey(k, d) \in Key /\ Stands(k) \in Key
  BY KeyInputAssumption DEF KeyInputTypeOK, RemapKey, Stands, Or

LEMMA InitType == Init => KeyInputTypeOK
  <1> SUFFICES ASSUME Init PROVE KeyInputTypeOK
    OBVIOUS
  <1>1. held \subseteq Key
    BY KeyInputAssumption DEF Init
  <1>2. activeRemaps \in [Key -> Key \cup {None}]
    BY DEF Init
  <1>3. enabled \in [Hotkey -> BOOLEAN] /\ grab \in [Hotkey -> BOOLEAN]
    BY KeyInputAssumption DEF Init
  <1> QED
    BY <1>1, <1>2, <1>3 DEF Init, KeyInputTypeOK

\* What an event on its way through the program leaves of the types.
LEMMA ProcessType ==
  ASSUME KeyInputTypeOK, NEW k \in Key, NEW d \in BOOLEAN, NEW r \in BOOLEAN,
         NEW vetoed \in SUBSET Hotkey, held' \subseteq Key, Process(k, d, r, vetoed)
  PROVE  KeyInputTypeOK'
  <1> DEFINE mapped == RemapKey(k, d)
  <1>1. mapped \in Key /\ Stands(k) \in Key
    BY RemapType
  <1> HIDE DEF mapped
  <1>2. /\ activeRemaps' = [activeRemaps EXCEPT ![k] = IF d THEN mapped ELSE None]
        /\ modifierState' = ListenerModifiers(mapped, d)
        /\ hkModifiers' = ManagerModifiers(mapped, d)
        /\ activeInputs' = Inputs(k, mapped, d)
        /\ physicalKeyStates' = Pressed(physicalKeyStates, k, d)
        /\ UNCHANGED <<blockInput, keyRemaps, enabled, grab>>
        /\ fired' = {h \in Hotkey \ vetoed : Matches(h, k, d, r)'}
        /\ Forward(mapped, d, r, \E h \in fired' : grab[h])
        /\ orphans' = IF ~d THEN orphans \ ({mapped} \ physicalKeyStates')
                      ELSE IF r /\ Stands(k) # mapped THEN orphans \cup {Stands(k)}
                      ELSE orphans
    BY DEF Process, mapped
  <1>3. activeRemaps' \in [Key -> Key \cup {None}]
    BY <1>1, <1>2 DEF KeyInputTypeOK
  <1>4. modifierState' \subseteq Modifier /\ hkModifiers' \subseteq Modifier
    BY <1>1, <1>2 DEF KeyInputTypeOK, ListenerModifiers, ManagerModifiers, Pressed
  <1>5. activeInputs' \in [Key -> (Key \X Key) \cup {None}]
    BY <1>1, <1>2 DEF KeyInputTypeOK, Inputs
  <1>6. physicalKeyStates' \subseteq Key
    BY <1>2 DEF KeyInputTypeOK, Pressed
  <1>7. fired' \subseteq {h \in Hotkey : enabled[h]}'
    BY <1>2 DEF Matches
  <1>8. /\ down' \subseteq Key /\ pressedVirtualKeys' \subseteq Key
        /\ sent' \subseteq down'
    BY <1>1, <1>2 DEF KeyInputTypeOK, Forward, Emit, Pressed, Tracked
  <1>9. orphans' \subseteq Key
    BY <1>1, <1>2 DEF KeyInputTypeOK
  <1> QED
    BY <1>2, <1>3, <1>4, <1>5, <1>6, <1>7, <1>8, <1>9 DEF KeyInputTypeOK

LEMMA SwallowType ==
  ASSUME KeyInputTypeOK, NEW k \in Key, NEW d \in BOOLEAN, held' \subseteq Key,
         Swallow(k, d)
  PROVE  KeyInputTypeOK'
  BY RemapType DEF KeyInputTypeOK, Swallow

LEMMA SendType ==
  ASSUME KeyInputTypeOK, NEW s \in Message, Send(s)
  PROVE  KeyInputTypeOK'
  BY KeyInputAssumption DEF KeyInputTypeOK, Send, AfterSend

LEMMA StepType == KeyInputTypeOK /\ [Next]_vars => KeyInputTypeOK'
  <1> SUFFICES ASSUME KeyInputTypeOK, [Next]_vars PROVE KeyInputTypeOK'
    OBVIOUS
  <1> USE KeyInputAssumption
  <1>1. CASE UNCHANGED vars
    BY <1>1 DEF vars, KeyInputTypeOK
  <1>2. ASSUME NEW k \in Keyboard, NEW vetoed \in SUBSET Vetoable,
               Press(k, vetoed) \/ Repeat(k, vetoed) \/ Release(k, vetoed)
        PROVE  KeyInputTypeOK'
    <2>1. held' \subseteq Key /\ k \in Key /\ vetoed \in SUBSET Hotkey
      BY <1>2 DEF KeyInputTypeOK, Press, Repeat, Release
    <2> QED
      BY <1>2, <2>1, ProcessType, SwallowType DEF Press, Repeat, Release
  <1>3. ASSUME NEW block \in BOOLEAN, SetBlockInput(block) PROVE KeyInputTypeOK'
    BY <1>3 DEF SetBlockInput, KeyInputTypeOK
  <1>4. ASSUME NEW p \in Pairs, Map(p[1], p[2]) PROVE KeyInputTypeOK'
    BY <1>4 DEF Map, KeyInputTypeOK
  <1>10. ASSUME NEW p \in Swaps, Remap(p[1], p[2]) PROVE KeyInputTypeOK'
    BY <1>10 DEF Remap, KeyInputTypeOK
  <1>5. ASSUME NEW k \in Key, Unmap(k) PROVE KeyInputTypeOK'
    BY <1>5, RemapType DEF Unmap, KeyInputTypeOK
  <1>6. ASSUME NEW s \in Message, Send(s) PROVE KeyInputTypeOK'
    BY <1>6, SendType
  <1>7. CASE ReleaseAllVirtualKeys
    BY <1>7 DEF ReleaseAllVirtualKeys, KeyInputTypeOK
  <1>8. CASE EmergencyReleaseAllKeys
    BY <1>8 DEF EmergencyReleaseAllKeys, KeyInputTypeOK
  <1>9. ASSUME NEW h \in Switched, NEW b \in BOOLEAN, SetHotkeyGrab(h, b) \/ SetEnabled(h, b)
        PROVE  KeyInputTypeOK'
    BY <1>9 DEF SetHotkeyGrab, SetEnabled, KeyInputTypeOK
  <1> QED
    BY <1>1, <1>2, <1>3, <1>4, <1>5, <1>6, <1>7, <1>8, <1>9, <1>10 DEF Next

\* The type invariant; a hotkey that is disabled never runs.
THEOREM TypeCorrect == Spec => []KeyInputTypeOK
  BY InitType, StepType, PTL DEF Spec

(***************************************************************************)
(* NothingUntracked.                                                       *)
(***************************************************************************)
LEMMA StepTracked ==
  KeyInputTypeOK /\ NothingUntracked /\ [Next]_vars => NothingUntracked'
  <1> SUFFICES ASSUME NothingUntracked, [Next]_vars PROVE NothingUntracked'
    OBVIOUS
  <1> USE DEF NothingUntracked
  <1>1. CASE UNCHANGED vars
    BY <1>1 DEF vars
  <1>2. ASSUME NEW k \in Keyboard, NEW vetoed \in SUBSET Vetoable,
               Press(k, vetoed) \/ Repeat(k, vetoed) \/ Release(k, vetoed)
        PROVE  NothingUntracked'
    <2>1. ASSUME NEW d \in BOOLEAN, Swallow(k, d) PROVE NothingUntracked'
      BY <2>1 DEF Swallow
    <2>2. ASSUME NEW d \in BOOLEAN, NEW r \in BOOLEAN, Process(k, d, r, vetoed)
          PROVE  NothingUntracked'
      <3>1. PICK code, blocked : Forward(code, d, r, blocked)
        BY <2>2 DEF Process
      <3> QED
        BY <3>1 DEF Forward, Emit, Pressed, Tracked
    <2> QED
      BY <1>2, <2>1, <2>2 DEF Press, Repeat, Release
  <1>3. ASSUME NEW s \in Message, Send(s) PROVE NothingUntracked'
    BY <1>3 DEF Send, AfterSend
  <1>4. CASE ReleaseAllVirtualKeys \/ EmergencyReleaseAllKeys
    BY <1>4 DEF ReleaseAllVirtualKeys, EmergencyReleaseAllKeys
  <1> QED
    BY <1>1, <1>2, <1>3, <1>4
    DEF Next, SetBlockInput, Map, Remap, Unmap, SetHotkeyGrab, SetEnabled

\* The release of all keys when the program ends misses none.
THEOREM AllTracked == Spec => []NothingUntracked
  <1>1. Init => NothingUntracked
    BY DEF Init, NothingUntracked
  <1> QED
    BY <1>1, StepTracked, TypeCorrect, PTL DEF Spec

(***************************************************************************)
(* NoStuckKey and FiredIsPressed, by the way Meant changes.                *)
(***************************************************************************)
Known == NoStuckKey /\ ManagerKnows

\* A key that goes down, or repeats, adds what it is mapped to.
LEMMA MeantGrows ==
  ASSUME KeyInputTypeOK, NEW k \in Key, NEW r \in BOOLEAN, r = (k \in held),
         NEW vetoed \in SUBSET Hotkey, held' = held \cup {k}, Process(k, TRUE, r, vetoed)
  PROVE  Meant \cup {RemapKey(k, TRUE)} \subseteq Meant'
  <1>1. /\ activeRemaps' = [activeRemaps EXCEPT ![k] = RemapKey(k, TRUE)]
        /\ orphans' = IF r /\ Stands(k) # RemapKey(k, TRUE)
                      THEN orphans \cup {Stands(k)} ELSE orphans
    BY DEF Process
  <1>2. RemapKey(k, TRUE) \in Key
    BY RemapType
  <1>3. Stands(k)' = RemapKey(k, TRUE)
    BY <1>1, <1>2, KeyInputAssumption DEF Stands, Or, KeyInputTypeOK
  <1>4. \A j \in held \ {k} : Stands(j)' = Stands(j)
    BY <1>1 DEF Stands, KeyInputTypeOK
  <1>5. RemapKey(k, TRUE) \in Meant'
    BY <1>3 DEF Meant
  <1>6. \A v \in Meant : v \in Meant'
    <2> SUFFICES ASSUME NEW v \in Meant PROVE v \in Meant'
      OBVIOUS
    <2>1. CASE v \in orphans
      BY <1>1, <2>1 DEF Meant
    <2>2. CASE \E j \in held \ {k} : v = Stands(j)
      BY <1>4, <2>2 DEF Meant
    <2>3. CASE k \in held /\ v = Stands(k)
      BY <1>1, <1>5, <2>3 DEF Meant
    <2> QED
      BY <2>1, <2>2, <2>3 DEF Meant
  <1> QED
    BY <1>5, <1>6

\* A key that goes up takes away no more than what it stands for.
LEMMA MeantShrinks ==
  ASSUME KeyInputTypeOK, NEW k \in Key, NEW vetoed \in SUBSET Hotkey,
         held' = held \ {k}, Process(k, FALSE, FALSE, vetoed)
  PROVE  Meant \subseteq Meant' \cup {Stands(k)}
  <1>1. /\ activeRemaps' = [activeRemaps EXCEPT ![k] = None]
        /\ orphans' = orphans \ ({Stands(k)} \ physicalKeyStates')
    BY DEF Process, RemapKey
  <1>2. \A j \in held \ {k} : Stands(j)' = Stands(j)
    BY <1>1 DEF Stands, KeyInputTypeOK
  <1> SUFFICES ASSUME NEW v \in Meant, v # Stands(k) PROVE v \in Meant'
    OBVIOUS
  <1>3. CASE v \in orphans
    BY <1>1, <1>3 DEF Meant
  <1>4. CASE \E j \in held \ {k} : v = Stands(j)
    BY <1>2, <1>4 DEF Meant
  <1> QED
    BY <1>3, <1>4 DEF Meant

LEMMA DownKnown ==
  ASSUME KeyInputTypeOK, Known, NEW k \in Key, NEW r \in BOOLEAN, r = (k \in held),
         NEW vetoed \in SUBSET Hotkey, held' = held \cup {k}, Process(k, TRUE, r, vetoed)
  PROVE  Known'
  <1> DEFINE mapped == RemapKey(k, TRUE)
  <1>1. Meant \cup {mapped} \subseteq Meant' /\ mapped \in Key
    BY MeantGrows, RemapType
  <1>2. /\ hkModifiers' = ManagerModifiers(mapped, TRUE)
        /\ activeInputs' = Inputs(k, mapped, TRUE)
        /\ physicalKeyStates' = physicalKeyStates \cup {k}
        /\ orphans \subseteq orphans'
        /\ \E b : Forward(mapped, TRUE, r, b)
    BY DEF Process, Pressed
  <1> HIDE DEF mapped
  <1>3. down' \subseteq down \cup {mapped} /\ sent \cap down' \subseteq sent'
    BY <1>2 DEF Forward, Emit, Pressed
  <1>4. NoStuckKey'
    BY <1>1, <1>3 DEF Known, NoStuckKey
  <1>5. hkModifiers' \subseteq Meant'
    BY <1>1, <1>2 DEF ManagerModifiers, Pressed, Known, ManagerKnows
  <1>6. \A c \in Key : activeInputs'[c] # None => c \in held' \cup Meant'
    BY <1>1, <1>2 DEF Inputs, Known, ManagerKnows
  <1>7. physicalKeyStates' \subseteq held' \cup orphans'
    BY <1>2 DEF Known, ManagerKnows
  <1> QED
    BY <1>4, <1>5, <1>6, <1>7 DEF Known, ManagerKnows

LEMMA UpKnown ==
  ASSUME KeyInputTypeOK, Known, NEW k \in Key, NEW vetoed \in SUBSET Hotkey,
         held' = held \ {k}, Process(k, FALSE, FALSE, vetoed)
  PROVE  Known'
  <1> DEFINE mapped == Stands(k)
  <1>1. Meant \subseteq Meant' \cup {mapped} /\ mapped \in Key
    BY MeantShrinks, RemapType
  <1>2. /\ hkModifiers' = ManagerModifiers(mapped, FALSE)
        /\ activeInputs' = Inputs(k, mapped, FALSE)
        /\ physicalKeyStates' = physicalKeyStates \ {k}
        /\ orphans' = orphans \ ({mapped} \ physicalKeyStates')
        /\ \E b : Forward(mapped, FALSE, FALSE, b)
    BY DEF Process, Pressed, RemapKey
  <1> HIDE DEF mapped
  <1>3. down' = down \ {mapped} /\ sent' = sent \cap down'
    BY <1>2 DEF Forward, Emit, Pressed
  <1>4. NoStuckKey'
    BY <1>1, <1>3 DEF Known, NoStuckKey
  <1>5. hkModifiers' \subseteq Meant'
    BY <1>1, <1>2 DEF ManagerModifiers, Pressed, Known, ManagerKnows, KeyInputTypeOK
  <1>6. \A c \in Key : activeInputs'[c] # None => c \in held' \cup Meant'
    BY <1>1, <1>2 DEF Inputs, Known, ManagerKnows
  <1>7. physicalKeyStates' \subseteq held' \cup orphans'
    BY <1>2 DEF Known, ManagerKnows
  <1> QED
    BY <1>4, <1>5, <1>6, <1>7 DEF Known, ManagerKnows

LEMMA SwallowKnown ==
  ASSUME KeyInputTypeOK, Known, NEW k \in Key, NEW d \in BOOLEAN,
         held' = (IF d THEN held \cup {k} ELSE held \ {k}), Swallow(k, d)
  PROVE  Known'
  <1>1. /\ UNCHANGED <<activeRemaps, hkModifiers, activeInputs, physicalKeyStates, down, sent>>
        /\ orphans' = IF d THEN orphans ELSE orphans \cup {k, Stands(k)}
    BY DEF Swallow
  <1>2. \A j \in Key : Stands(j)' = Stands(j)
    BY <1>1 DEF Stands
  <1>3. Meant \subseteq Meant'
    BY <1>1, <1>2 DEF Meant, KeyInputTypeOK
  <1>4. held \subseteq held' \cup orphans' /\ orphans \subseteq orphans'
    BY <1>1
  <1>5. orphans' \subseteq Meant'
    BY DEF Meant
  <1> QED
    BY <1>1, <1>3, <1>4, <1>5 DEF Known, NoStuckKey, ManagerKnows

\* A step that leaves the keyboard alone and only takes keys of the device.
LEMMA QuietKnown ==
  ASSUME Known, Meant \subseteq Meant', orphans \subseteq orphans',
         UNCHANGED <<held, hkModifiers, activeInputs, physicalKeyStates>>,
         down' \subseteq down \cup sent', sent \cap down' \subseteq sent'
  PROVE  Known'
  BY DEF Known, NoStuckKey, ManagerKnows

LEMMA StepKnown == KeyInputTypeOK /\ Known /\ [Next]_vars => Known'
  <1> SUFFICES ASSUME KeyInputTypeOK, Known, [Next]_vars PROVE Known'
    OBVIOUS
  <1> USE KeyInputAssumption
  <1>1. ASSUME NEW k \in Keyboard, NEW vetoed \in SUBSET Vetoable,
               Press(k, vetoed) \/ Repeat(k, vetoed) \/ Release(k, vetoed)
        PROVE  Known'
    <2> k \in Key /\ vetoed \in SUBSET Hotkey
      OBVIOUS
    <2>1. CASE Press(k, vetoed)
      <3>1. k \notin held /\ held' = held \cup {k} /\ FALSE = (k \in held)
        BY <2>1 DEF Press
      <3>2. CASE Process(k, TRUE, FALSE, vetoed)
        BY <3>1, <3>2, DownKnown
      <3>3. CASE Swallow(k, TRUE)
        BY <3>1, <3>3, SwallowKnown
      <3> QED
        BY <2>1, <3>2, <3>3 DEF Press
    <2>2. CASE Repeat(k, vetoed)
      <3>1. held' = held \cup {k}
        BY <2>2 DEF Repeat
      <3> QED
        BY <2>2, <3>1, DownKnown, SwallowKnown DEF Repeat
    <2>3. CASE Release(k, vetoed)
      BY <2>3, UpKnown, SwallowKnown DEF Release
    <2> QED
      BY <1>1, <2>1, <2>2, <2>3
  <1>2. CASE UNCHANGED <<held, activeRemaps, orphans>>
    <2>1. Meant' = Meant
      BY <1>2 DEF Meant, Stands
    <2>2. CASE UNCHANGED <<hkModifiers, activeInputs, physicalKeyStates, down, sent>>
      BY <1>2, <2>1, <2>2, QuietKnown
    <2>3. ASSUME NEW s \in Message, Send(s) PROVE Known'
      BY <1>2, <2>1, <2>3, QuietKnown DEF Send, AfterSend
    <2>4. CASE ReleaseAllVirtualKeys
      BY <1>2, <2>1, <2>4, QuietKnown DEF ReleaseAllVirtualKeys
    <2>5. CASE EmergencyReleaseAllKeys
      BY <1>2, <2>1, <2>5, QuietKnown DEF EmergencyReleaseAllKeys
    <2> QED
      BY <1>1, <2>2, <2>3, <2>4, <2>5
      DEF Next, vars, SetBlockInput, Map, Remap, Unmap, SetHotkeyGrab, SetEnabled
  <1>3. ASSUME NEW k \in Key, Unmap(k) PROVE Known'
    <2>1. Stands(k)' = k /\ \A j \in Key \ {k} : Stands(j)' = Stands(j)
      BY <1>3 DEF Unmap, Stands, Or, KeyInputTypeOK
    <2>2. Meant \subseteq Meant' /\ orphans \subseteq orphans'
      BY <1>3, <2>1 DEF Unmap, Meant, KeyInputTypeOK
    <2> QED
      BY <1>3, <2>2, QuietKnown DEF Unmap
  <1> QED
    BY <1>1, <1>2, <1>3
    DEF Next, vars, SetBlockInput, Map, Remap, Send, ReleaseAllVirtualKeys,
        EmergencyReleaseAllKeys, SetHotkeyGrab, SetEnabled

LEMMA AlwaysKnown == Spec => []Known
  <1>1. Init => Known
    BY DEF Init, Known, NoStuckKey, ManagerKnows
  <1> QED
    BY <1>1, StepKnown, TypeCorrect, PTL DEF Spec

\* Whatever is pressed, mapped, sent, blocked and grabbed in between, a key
\* that is down on the virtual device will be released by the key that is
\* held for it, unless a script holds it or its release was lost.
THEOREM NothingStuck == Spec => []NoStuckKey
  <1>1. Known => NoStuckKey
    BY DEF Known
  <1> QED
    BY <1>1, AlwaysKnown, PTL

LEMMA MatchIsPressed ==
  ASSUME KeyInputTypeOK', ManagerKnows', NEW h \in Hotkey, NEW k, NEW d, NEW r,
         Matches(h, k, d, r)'
  PROVE  IF Definition[h].combo THEN Definition[h].keys \subseteq (held \cup Meant)'
         ELSE \A g \in Definition[h].mods : \E m \in (Meant \cap Modifier)' : GroupOf[m] = g
  <1>1. CASE Definition[h].combo
    <2>1. /\ \A c \in Definition[h].keys \ Modifier : activeInputs'[c] # None
          /\ Definition[h].keys \cap Modifier \subseteq physicalKeyStates'
      BY <1>1 DEF Matches, ComboMatches
    <2>2. Definition[h].keys \subseteq Key
      BY KeyInputAssumption
    <2> QED
      BY <1>1, <2>1, <2>2 DEF ManagerKnows, Meant
  <1>2. CASE ~Definition[h].combo
    <2>1. Definition[h].mods # {} => Definition[h].mods \subseteq Groups'
      BY <1>2 DEF Matches, PlainMatches
    <2>2. \A g \in Groups' : \E m \in hkModifiers' : GroupOf[m] = g
      BY DEF Groups
    <2>3. hkModifiers' \subseteq (Meant \cap Modifier)'
      BY DEF ManagerKnows, KeyInputTypeOK
    <2> QED
      BY <1>2, <2>1, <2>2, <2>3
  <1> QED
    BY <1>1, <1>2

LEMMA StepFired ==
  KeyInputTypeOK' /\ Known' /\ FiredIsPressed /\ [Next]_vars => FiredIsPressed'
  <1> SUFFICES ASSUME KeyInputTypeOK', Known', FiredIsPressed, [Next]_vars
               PROVE  FiredIsPressed'
    OBVIOUS
  <1>1. CASE UNCHANGED vars
    BY <1>1 DEF vars, FiredIsPressed, Meant, Stands
  <1>2. CASE fired' = {}
    BY <1>2 DEF FiredIsPressed
  <1>3. ASSUME NEW k, NEW d, NEW r, NEW vetoed, Process(k, d, r, vetoed)
        PROVE  FiredIsPressed'
    <2>1. ASSUME NEW h \in fired' PROVE h \in Hotkey /\ Matches(h, k, d, r)'
      BY <1>3, <2>1 DEF Process
    <2>2. \A h \in fired' :
            IF Definition[h].combo THEN Definition[h].keys \subseteq (held \cup Meant)'
            ELSE \A g \in Definition[h].mods : \E m \in (Meant \cap Modifier)' : GroupOf[m] = g
      BY <2>1, MatchIsPressed DEF Known
    <2> QED
      BY <2>2 DEF FiredIsPressed
  <1> QED
    BY <1>1, <1>2, <1>3
    DEF Next, Press, Repeat, Release, Swallow, SetBlockInput, Map, Remap, Unmap, Send,
        ReleaseAllVirtualKeys, EmergencyReleaseAllKeys, SetHotkeyGrab, SetEnabled

\* No hotkey runs for keys or modifiers that are up.
THEOREM FiredArePressed == Spec => []FiredIsPressed
  <1>1. Init => FiredIsPressed
    BY DEF Init, FiredIsPressed
  <1> QED
    BY <1>1, StepFired, AlwaysKnown, TypeCorrect, PTL DEF Spec
=============================================================================
