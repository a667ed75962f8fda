------------------------------ MODULE KeyInput ------------------------------
(***************************************************************************)
(* The way of a key from a grabbed keyboard to the virtual device          *)
(* (EventListener.cpp, HotkeyManager.cpp, EvdevAdapter.cpp), and the calls *)
(* of a script that change it on the way (IO.cpp): mappings, blocking,     *)
(* sends, releases, and grabs of hotkeys.                                  *)
(*                                                                         *)
(* With the keyboards grabbed the rest of the system sees only the virtual *)
(* device, so a key that the program presses there stays pressed until the *)
(* program releases it: the physical key's own release is of no help.      *)
(*                                                                         *)
(* A handler is one step; the batches of a send and the threads it may     *)
(* race with are left out, as are the state nothing here reads             *)
(* (evdevKeyState, the listener's activeInputs, the adapter's copies), the *)
(* key that shuts the listener down and the calls of hotkeys' functions,   *)
(* of which fired is the record.  sent and orphans are history variables:  *)
(* the keys a script has asked to be held, and the codes some part still   *)
(* counts as pressed although the release that would have told it          *)
(* otherwise was swallowed, or was or will be mapped to another code.      *)
(***************************************************************************)
EXTENDS Integers, FiniteSets

CONSTANTS
  Key,
  Keyboard,    \* keys that can be pressed; a script sends and maps to others
  Modifier,
  GroupOf,     \* the group of a modifier: ctrl, shift, alt, meta
  Hotkey,
  Definition,  \* of a hotkey: combo or not, its keys, groups, edges, flags
  Vetoable,    \* hotkeys with a context, a time window or a repeat interval
  Switched,    \* hotkeys whose grab and enabled a script changes
  Pairs,       \* the mappings a script may make
  Swaps,       \* those it may make both ways
  Message,     \* what a script may send
  Blocks,      \* a script may block the input
  None

ASSUME KeyInputAssumption ==
  /\ Keyboard \subseteq Key /\ Modifier \subseteq Key /\ None \notin Key
  /\ Pairs \subseteq Key \X Key /\ Swaps \subseteq Key \X Key /\ Blocks \in BOOLEAN
  /\ \A h \in Hotkey : Definition[h].keys \subseteq Key /\ Definition[h].grab \in BOOLEAN
  /\ Vetoable \subseteq Hotkey /\ Switched \subseteq Hotkey
  /\ \A s \in Message : s.mods \subseteq Modifier /\ s.key \in Key

VARIABLES
  held,               \* the physical keys that are down
  blockInput,
  keyRemaps,          \* what a key is mapped to, None if it is not
  activeRemaps,       \* what a key was mapped to when it went down
  modifierState,      \* the listener's
  hkModifiers,        \* the hotkey manager's modifierState
  activeInputs,       \* the press that set a code in the manager, or None
  physicalKeyStates,  \* the manager's
  enabled, grab,      \* flags of the registered hotkeys
  down,               \* keys down on the virtual device
  pressedVirtualKeys, \* keys the adapter knows to be down there
  fired,              \* hotkeys the last step ran
  sent, orphans       \* history

vars == <<held, blockInput, keyRemaps, activeRemaps, modifierState, hkModifiers,
          activeInputs, physicalKeyStates, enabled, grab, down,
          pressedVirtualKeys, fired, sent, orphans>>

Or(code, otherwise) == IF code = None THEN otherwise ELSE code

\* The code a release of k would be given now.
Stands(k) == Or(activeRemaps[k], k)

Pressed(S, code, isDown) == IF isDown THEN S \cup {code} ELSE S \ {code}

\* Mutant: a key that was released is looked up again.
MutantRemapKey(k, isDown) == Or(keyRemaps[k], k)

\* What RemapKey() returns.
RemapKey(k, isDown) == IF isDown THEN Or(keyRemaps[k], k) ELSE Stands(k)

(***************************************************************************)
(* The listener's and the hotkey manager's states.                         *)
(***************************************************************************)
\* UpdateModifierState() maps the code that RemapKey() has mapped.
ListenerModifiers(mapped, isDown) ==
  LET code == Or(keyRemaps[mapped], mapped) IN
  IF code \in Modifier THEN Pressed(modifierState, code, isDown) ELSE modifierState

\* updateModifierState() of the manager does not.
ManagerModifiers(mapped, isDown) ==
  IF mapped \in Modifier THEN Pressed(hkModifiers, mapped, isDown) ELSE hkModifiers

\* Mutant: a release only clears the code of the physical key.
MutantInputs(k, mapped, isDown) ==
  [c \in Key |-> IF c \in {k, mapped} /\ isDown THEN <<k, mapped>>
                 ELSE IF c = k THEN None ELSE activeInputs[c]]

\* Both codes of a key get the time of its press or repeat, or are erased.
Inputs(k, mapped, isDown) ==
  [c \in Key |-> IF c \notin {k, mapped} THEN activeInputs[c]
                 ELSE IF isDown THEN <<k, mapped>> ELSE None]

(***************************************************************************)
(* Which hotkeys an event of key k runs.  Contexts, time windows and       *)
(* repeat intervals are the business of whoever chooses the event.         *)
(***************************************************************************)
Groups == {GroupOf[m] : m \in hkModifiers}

\* evaluateCombo(): it looks at the state, whatever the event.
ComboMatches(d) ==
  LET keys == d.keys \ Modifier
      mods == {GroupOf[m] : m \in d.keys \cap Modifier}
  IN /\ \A c \in keys : activeInputs[c] # None
     /\ d.keys \cap Modifier \subseteq physicalKeyStates
     /\ mods \subseteq Groups
     /\ ~d.wildcard =>
          /\ mods # {} => Groups = mods
          /\ \A c \in Key \ (Modifier \cup keys) :
               activeInputs[c] # None => \E r \in keys : activeInputs[r] = activeInputs[c]

PlainMatches(d, k, isDown, repeat) ==
  /\ d.keys = {k}
  /\ repeat => d.repeat
  /\ (IF isDown THEN "down" ELSE "up") \in d.on
  /\ d.mods # {} => d.mods \subseteq Groups /\ (d.wildcard \/ d.mods = Groups)

\* Mutant: a hotkey that is disabled still matches.
MutantMatches(h, k, isDown, repeat) ==
  IF Definition[h].combo THEN ComboMatches(Definition[h])
  ELSE PlainMatches(Definition[h], k, isDown, repeat)

Matches(h, k, isDown, repeat) ==
  /\ enabled[h]
  /\ IF Definition[h].combo THEN ComboMatches(Definition[h])
     ELSE PlainMatches(Definition[h], k, isDown, repeat)

(***************************************************************************)
(* The virtual device.                                                     *)
(***************************************************************************)
\* Mutant: the adapter forgets to note a key it presses.
MutantTracked(S, code, isDown) == S \ {code}

\* SendKeyEvent(): what the adapter notes of an event it passes on.
Tracked(S, code, isDown) == Pressed(S, code, isDown)

Emit(code, isDown) ==
  /\ down' = Pressed(down, code, isDown)
  /\ pressedVirtualKeys' = Tracked(pressedVirtualKeys, code, isDown)
  /\ sent' = sent \cap down'

(***************************************************************************)
(* An event of a keyboard.                                                 *)
(***************************************************************************)
\* OnBackendKeyEvent() returns at once.  The states keep the codes of a key
\* that is released now.
Swallow(k, isDown) ==
  /\ blockInput
  /\ fired' = {}
  /\ orphans' = IF isDown THEN orphans ELSE orphans \cup {k, Stands(k)}
  /\ UNCHANGED <<blockInput, keyRemaps, activeRemaps, modifierState, hkModifiers,
                 activeInputs, physicalKeyStates, enabled, grab, down,
                 pressedVirtualKeys, sent>>

\* The end of ProcessKeyboardEvent(): a release passes even if it is blocked,
\* a repeat never does.
Forward(code, isDown, repeat, blocked) ==
  IF (blocked /\ isDown) \/ repeat THEN UNCHANGED <<down, pressedVirtualKeys, sent>>
  ELSE Emit(code, isDown)

\* ProcessKeyboardEvent() and, on its way, HandleInputEvent().
Process(k, isDown, repeat, vetoed) ==
  LET mapped == RemapKey(k, isDown) IN
  /\ ~blockInput
  /\ activeRemaps' = [activeRemaps EXCEPT ![k] = IF isDown THEN mapped ELSE None]
  /\ modifierState' = ListenerModifiers(mapped, isDown)
  /\ hkModifiers' = ManagerModifiers(mapped, isDown)
  /\ activeInputs' = Inputs(k, mapped, isDown)
  /\ physicalKeyStates' = Pressed(physicalKeyStates, k, isDown)
  /\ UNCHANGED <<blockInput, keyRemaps, enabled, grab>>
  /\ fired' = {h \in Hotkey \ vetoed : Matches(h, k, isDown, repeat)'}
  /\ Forward(mapped, isDown, repeat, \E h \in fired' : grab[h])
  /\ orphans' = IF ~isDown THEN orphans \ ({mapped} \ physicalKeyStates')
                ELSE IF repeat /\ Stands(k) # mapped THEN orphans \cup {Stands(k)}
                ELSE orphans

Press(k, vetoed) ==
  /\ k \notin held
  /\ held' = held \cup {k}
  /\ Swallow(k, TRUE) \/ Process(k, TRUE, FALSE, vetoed)

Repeat(k, vetoed) ==
  /\ k \in held
  /\ UNCHANGED held
  /\ Swallow(k, TRUE) \/ Process(k, TRUE, TRUE, vetoed)

Release(k, vetoed) ==
  /\ k \in held
  /\ held' = held \ {k}
  /\ Swallow(k, FALSE) \/ Process(k, FALSE, FALSE, vetoed)

(***************************************************************************)
(* The calls of a script.                                                  *)
(***************************************************************************)
SetBlockInput(block) ==
  /\ Blocks
  /\ blockInput' = block
  /\ fired' = {}
  /\ UNCHANGED <<held, keyRemaps, activeRemaps, modifierState, hkModifiers,
                 activeInputs, physicalKeyStates, enabled, grab, down,
                 pressedVirtualKeys, sent, orphans>>

\* IO::Map()
Map(from, to) ==
  /\ keyRemaps' = [keyRemaps EXCEPT ![from] = to]
  /\ fired' = {}
  /\ UNCHANGED <<held, blockInput, activeRemaps, modifierState, hkModifiers,
                 activeInputs, physicalKeyStates, enabled, grab, down,
                 pressedVirtualKeys, sent, orphans>>

\* IO::Remap()
Remap(code1, code2) ==
  /\ keyRemaps' = [keyRemaps EXCEPT ![code1] = code2, ![code2] = code1]
  /\ fired' = {}
  /\ UNCHANGED <<held, blockInput, activeRemaps, modifierState, hkModifiers,
                 activeInputs, physicalKeyStates, enabled, grab, down,
                 pressedVirtualKeys, sent, orphans>>

\* IO::Unmap() also drops what a key that is held was mapped to.
Unmap(from) ==
  /\ keyRemaps' = [keyRemaps EXCEPT ![from] = None]
  /\ activeRemaps' = [activeRemaps EXCEPT ![from] = None]
  /\ fired' = {}
  /\ orphans' = IF from \in held /\ Stands(from) # from
                THEN orphans \cup {Stands(from)} ELSE orphans
  /\ UNCHANGED <<held, blockInput, modifierState, hkModifiers, activeInputs,
                 physicalKeyStates, enabled, grab, down, pressedVirtualKeys, sent>>

\* The keys of S that are down after IO::Send(): it lifts the modifiers the
\* listener knows of, presses and lifts its own ("{ctrl down}" is one of
\* those), and taps, presses or lifts the key.
AfterSend(S, s) ==
  LET lifted == S \ (modifierState \cup s.mods) IN
  IF s.how = "down" THEN lifted \cup ({s.key} \ s.mods) ELSE lifted \ {s.key}

Send(s) ==
  /\ down' = AfterSend(down, s)
  /\ pressedVirtualKeys' = AfterSend(pressedVirtualKeys, s)
  /\ sent' = (IF s.how = "down" THEN sent \cup {s.key} ELSE sent) \cap down'
  /\ fired' = {}
  /\ UNCHANGED <<held, blockInput, keyRemaps, activeRemaps, modifierState,
                 hkModifiers, activeInputs, physicalKeyStates, enabled, grab, orphans>>

\* ReleaseAllVirtualKeys() releases what the adapter knows to be down.
ReleaseAllVirtualKeys ==
  /\ down' = down \ pressedVirtualKeys
  /\ pressedVirtualKeys' = {}
  /\ sent' = sent \cap down'
  /\ fired' = {}
  /\ UNCHANGED <<held, blockInput, keyRemaps, activeRemaps, modifierState,
                 hkModifiers, activeInputs, physicalKeyStates, enabled, grab, orphans>>

\* EmergencyReleaseAllKeys() releases what the device itself knows.
EmergencyReleaseAllKeys ==
  /\ down' = {}
  /\ pressedVirtualKeys' = {}
  /\ sent' = {}
  /\ fired' = {}
  /\ UNCHANGED <<held, blockInput, keyRemaps, activeRemaps, modifierState,
                 hkModifiers, activeInputs, physicalKeyStates, enabled, grab, orphans>>

\* SetHotkeyGrab(): enabled follows grab.
SetHotkeyGrab(h, g) ==
  /\ grab' = [grab EXCEPT ![h] = g]
  /\ enabled' = [enabled EXCEPT ![h] = g]
  /\ fired' = {}
  /\ UNCHANGED <<held, blockInput, keyRemaps, activeRemaps, modifierState,
                 hkModifiers, activeInputs, physicalKeyStates, down,
                 pressedVirtualKeys, sent, orphans>>

\* EnableHotkey() and DisableHotkey(), of hotkeys the listener serves.
SetEnabled(h, on) ==
  /\ enabled' = [enabled EXCEPT ![h] = on]
  /\ fired' = {}
  /\ UNCHANGED <<held, blockInput, keyRemaps, activeRemaps, modifierState,
                 hkModifiers, activeInputs, physicalKeyStates, grab, down,
                 pressedVirtualKeys, sent, orphans>>

\* Start(): GrabDevice() has released, for the others, whatever was held; the
\* listener learns of the keys that are, the manager and the virtual device
\* do not.
Init ==
  /\ held \in SUBSET Keyboard /\ blockInput = FALSE
  /\ keyRemaps = [k \in Key |-> None]
  /\ activeRemaps = [k \in Key |-> IF k \in held THEN k ELSE None]
  /\ modifierState = held \cap Modifier /\ hkModifiers = {} /\ physicalKeyStates = {}
  /\ activeInputs = [c \in Key |-> None]
  /\ grab = [h \in Hotkey |-> Definition[h].grab] /\ enabled = [h \in Hotkey |-> TRUE]
  /\ down = {} /\ pressedVirtualKeys = {}
  /\ fired = {} /\ sent = {} /\ orphans = {}

Next ==
  \/ \E k \in Keyboard, vetoed \in SUBSET Vetoable :
       Press(k, vetoed) \/ Repeat(k, vetoed) \/ Release(k, vetoed)
  \/ \E block \in BOOLEAN : SetBlockInput(block)
  \/ \E p \in Pairs : Map(p[1], p[2])
  \/ \E p \in Swaps : Remap(p[1], p[2])
  \/ \E k \in Key : Unmap(k)
  \/ \E s \in Message : Send(s)
  \/ ReleaseAllVirtualKeys
  \/ EmergencyReleaseAllKeys
  \/ \E h \in Switched, b \in BOOLEAN : SetHotkeyGrab(h, b) \/ SetEnabled(h, b)

Spec == Init /\ [][Next]_vars

(***************************************************************************)
(* Properties.                                                             *)
(***************************************************************************)
\* The type of every variable; only hotkeys that are enabled are run.
KeyInputTypeOK ==
  /\ held \subseteq Key /\ blockInput \in BOOLEAN
  /\ keyRemaps \in [Key -> Key \cup {None}] /\ activeRemaps \in [Key -> Key \cup {None}]
  /\ modifierState \subseteq Modifier /\ hkModifiers \subseteq Modifier
  /\ activeInputs \in [Key -> (Key \X Key) \cup {None}]
  /\ physicalKeyStates \subseteq Key
  /\ enabled \in [Hotkey -> BOOLEAN] /\ grab \in [Hotkey -> BOOLEAN]
  /\ down \subseteq Key /\ pressedVirtualKeys \subseteq Key
  /\ fired \subseteq {h \in Hotkey : enabled[h]}
  /\ sent \subseteq down /\ orphans \subseteq Key

\* The codes that physical keys stand for, and those whose release was lost.
Meant == {Stands(k) : k \in held} \cup orphans

\* ReleaseAllVirtualKeys(), which runs when the program ends, leaves no key
\* down on the virtual device: the adapter knows every key that is.
NothingUntracked == down \subseteq pressedVirtualKeys

\* A key that is down on the virtual device is one a script asked to hold,
\* one whose release was lost, or the one some key that is held now will
\* release, whatever mappings, sends and hotkeys came in between.
NoStuckKey == down \subseteq sent \cup Meant

\* NoStuckKey if no release is blocked: "On release: use the same mapping we
\* stored on press".
ReleaseFindsPress == down \subseteq sent \cup {Stands(k) : k \in held}

\* What the manager counts as pressed is.
ManagerKnows ==
  /\ hkModifiers \subseteq Meant
  /\ \A c \in Key : activeInputs[c] # None => c \in held \cup Meant
  /\ physicalKeyStates \subseteq held \cup orphans

\* A hotkey only runs while the keys and modifiers it asks for are pressed,
\* physically or as what a pressed key is mapped to, or their release was
\* lost; the key of a plain hotkey itself may be just released.
FiredIsPressed ==
  \A h \in fired :
    LET d == Definition[h] IN
    IF d.combo THEN d.keys \subseteq held \cup Meant
    ELSE \A g \in d.mods : \E m \in Meant \cap Modifier : GroupOf[m] = g

=============================================================================
