------------------------------- MODULE Config -------------------------------
(***************************************************************************)
(* hc::Config: the core's options and the regions of memory that scripts   *)
(* make.  Lua calls are not interrupted: while a region is being made or   *)
(* looked up nothing else happens.                                         *)
(***************************************************************************)
EXTENDS CoreOptions, CoreMemory

VARIABLE selector  \* Desktop::_views has the MemorySelector

vars == <<optionsVars, memoryVars, selector>>

Init == OptionsInit /\ MemoryInit /\ selector = TRUE

(* The regions go when the game goes, as long as the selector hears of it. *)
GameEnds ==
  /\ OnGameUnloaded
  /\ \/ selector /\ RemoveMemory
     \/ ~selector /\ UNCHANGED memoryVars
  /\ UNCHANGED selector

CloseSelector ==
  /\ UserActs
  /\ selector
  /\ selector' = FALSE
  /\ UNCHANGED <<optionsVars, memoryVars>>

Undisturbed == phase \in {"none", "region"}

Next ==
  \/ Undisturbed /\ (GameEnds \/ CloseSelector)
  \/ /\ Undisturbed
     /\ UNCHANGED <<memoryVars, selector>>
     /\ \/ \E a \in Announcement : SetCoreOptions(a)
        \/ \E key \in Key, visible \in BOOLEAN : SetCoreOptionsDisplay(key, visible)
        \/ \E key \in Key : GetVariable(key)
        \/ GetVariableUpdate
        \/ LoadCore \/ OnCoreLoaded \/ LoadGame \/ LoadGameFails \/ OnGameLoaded
        \/ OnCoreUnloaded \/ CloseView
        \/ \E i \in DOMAIN coreOptions :
             \E selected \in DOMAIN coreOptions[i].values : ChooseValue(i, selected)
        \/ \E key \in Key, chosen \in Value \union 0..MaxIndex : LuaSetCoreOption(key, chosen)
  \/ /\ UserActs
     /\ UNCHANGED <<optionsVars, selector>>
     /\ MemoryNext

Spec == Init /\ [][Next]_vars

TypeOK == OptionsTypeOK /\ MemoryTypeOK /\ selector \in BOOLEAN
=============================================================================
