----------------------------- MODULE MCKeyInput -----------------------------
(***************************************************************************)
(* Small instances of KeyInput: a keyboard with a modifier and a key that  *)
(* may become that modifier or a letter; a plain hotkey on the key with    *)
(* the modifier, and a combo of the modifier and the letter.               *)
(***************************************************************************)
EXTENDS KeyInput

CONSTANTS caps, ctrl, a, plain, both

MCGroupOf == [m \in {ctrl} |-> "ctrl"]
MCDefinition ==
  [h \in {plain, both} |->
     IF h = plain
     THEN [combo |-> FALSE, keys |-> {caps}, mods |-> {"ctrl"}, wildcard |-> FALSE,
           on |-> {"down"}, repeat |-> FALSE, grab |-> TRUE]
     ELSE [combo |-> TRUE, keys |-> {ctrl, a}, mods |-> {}, wildcard |-> FALSE,
           on |-> {"down"}, repeat |-> TRUE, grab |-> TRUE]]
MCPairs == {<<caps, ctrl>>, <<caps, a>>}
MCSwaps == {<<caps, a>>}
MCMessage ==
  {[mods |-> {ctrl}, key |-> a, how |-> "tap"],
   [mods |-> {}, key |-> a, how |-> "down"],
   [mods |-> {ctrl}, key |-> ctrl, how |-> "down"],
   [mods |-> {}, key |-> a, how |-> "up"]}
=============================================================================
