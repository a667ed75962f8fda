---------------------------- MODULE MCModuleLoader ----------------------------
(***************************************************************************)
(* Small instances of ModuleLoader: two modules, and what the script and   *)
(* the two import in program order.                                        *)
(***************************************************************************)
EXTENDS ModuleLoader, TLC

CONSTANTS a, u, script

OwnNames == a :> "a" @@ u :> "u"

\* a lies beside the script, u is in modules/std; they import each other.
LibraryHome  == a :> "src" @@ u :> "std"
CycleImports == script :> <<Src(a), Bare("u")>>
                @@ a :> <<Bare("u")>> @@ u :> <<Src(a)>>

\* u lies beside a, which imports it as "./u.hv".
SiblingHome    == a :> "src" @@ u :> "src"
SiblingImports == script :> <<Src(a)>> @@ a :> <<Rel("u")>> @@ u :> << >>
===============================================================================
