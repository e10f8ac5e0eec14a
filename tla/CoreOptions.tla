---------------------------- MODULE CoreOptions ----------------------------
(***************************************************************************)
(* The core's options in hc::Config.  The core announces them, the user    *)
(* changes them in combos, scripts change them with hc.config:             *)
(* setCoreOption(), and the core reads them when it loads a game and,      *)
(* later on, when its question whether one changed is answered with true.  *)
(*                                                                         *)
(* An option is found by its key, through a map of keys to indices.        *)
(* Indices count from one here.                                            *)
(*                                                                         *)
(* Config's window can be closed like any other, for good: Desktop then    *)
(* drops the view, which hears of no game and no core any more, while the  *)
(* core and the scripts go on calling it.                                  *)
(***************************************************************************)
EXTENDS Integers, SequencesExt

CONSTANTS
  Key,           \* the options' keys
  Value,         \* the strings an option can have
  Unread,        \* not a string: an option the core has not read
  Announcement,  \* bound: what setCoreOptions() is called with
  MaxOptions,    \* bound: the length of the options for which it still is
  MaxIndex       \* bound: the indices that scripts pass

Definition == [key : Key, values : Seq(Value) \ {<<>>}, default : Value]

(* The default's index: the last one that is equal, or else the first.     *)
IsDefault(d, i) ==
  \/ d.values[i] = d.default /\ \A j \in (i + 1)..Len(d.values) : d.values[j] # d.default
  \/ i = 1 /\ \A j \in DOMAIN d.values : d.values[j] # d.default

Default(d) == CHOOSE i \in DOMAIN d.values : IsDefault(d, i)

IsFirst(a, key, i) == a[i].key = key /\ \A j \in 1..(i - 1) : a[j].key # key
First(a, key) == CHOOSE i \in DOMAIN a : IsFirst(a, key, i)
Keys(a) == {a[i].key : i \in DOMAIN a}

ASSUME OptionsAssumption ==
  /\ Announcement \subseteq Seq(Definition)
  /\ Unread \notin Value
  /\ MaxOptions \in Nat

VARIABLES
  core,            \* none, in frontend.load(), loaded, in loadGame(), in a game
  coreOptions,     \* _coreOptions
  coreMap,         \* _coreMap
  optionsUpdated,  \* _optionsUpdated
  known,           \* external: the value the core last read of every key
  quiet,           \* history: keys that scripts have set since
  managed,         \* Desktop::_views has Config
  announced,       \* history: the definitions that this core announced
  missed           \* history: a core went after the window was closed

tableVars == <<coreOptions, coreMap, announced>>
viewVars == <<managed, missed>>
optionsVars == <<core, tableVars, optionsUpdated, known, quiet, viewVars>>

Option == [key : Key, values : Seq(Value) \ {<<>>}, selected : Nat, visible : BOOLEAN]

Current(key) ==
  LET option == coreOptions[coreMap[key]] IN option.values[option.selected]

AllRead == [key \in Key |-> IF key \in DOMAIN coreMap THEN Current(key) ELSE Unread]
NoneRead == [key \in Key |-> Unread]

OptionsInit ==
  /\ core = "none"
  /\ coreOptions = <<>>
  /\ coreMap = [key \in {} |-> 0]
  /\ optionsUpdated = FALSE
  /\ known = NoneRead
  /\ quiet = {}
  /\ managed = TRUE
  /\ announced = <<>>
  /\ missed = FALSE

(* Whose code is running: the core's, or the front-end's and the scripts'. *)
CoreRuns == core \in {"loading", "starting", "game"}
UserActs == core \in {"none", "core", "game"}

-----------------------------------------------------------------------------
(* What the core calls.                                                    *)
NewOption(d) ==
  [key |-> d.key, values |-> d.values, selected |-> Default(d), visible |-> TRUE]

(* Mutant: the map's entry of a key that is announced again is replaced.   *)
SetCoreOptionsReplacing(a) ==
  /\ CoreRuns
  /\ Len(coreOptions) + Len(a) <= MaxOptions
  /\ coreOptions' = coreOptions \o [i \in DOMAIN a |-> NewOption(a[i])]
  /\ coreMap' = [key \in DOMAIN coreMap \union Keys(a) |->
                   IF key \in Keys(a) THEN Len(coreOptions) + First(a, key)
                   ELSE coreMap[key]]
  /\ announced' = announced \o a
  /\ UNCHANGED <<core, optionsUpdated, known, quiet, viewVars>>

(* setCoreOptions(): emplace() leaves a key that is in the map alone.      *)
SetCoreOptions(a) ==
  /\ CoreRuns
  /\ Len(coreOptions) + Len(a) <= MaxOptions
  /\ coreOptions' = coreOptions \o [i \in DOMAIN a |-> NewOption(a[i])]
  /\ coreMap' = [key \in DOMAIN coreMap \union Keys(a) |->
                   IF key \in DOMAIN coreMap THEN coreMap[key]
                   ELSE Len(coreOptions) + First(a, key)]
  /\ announced' = announced \o a
  /\ UNCHANGED <<core, optionsUpdated, known, quiet, viewVars>>

SetCoreOptionsDisplay(key, visible) ==
  /\ CoreRuns
  /\ key \in DOMAIN coreMap
  /\ coreOptions' = [coreOptions EXCEPT ![coreMap[key]].visible = visible]
  /\ UNCHANGED <<core, coreMap, announced, optionsUpdated, known, quiet, viewVars>>

GetVariable(key) ==
  /\ CoreRuns
  /\ key \in DOMAIN coreMap
  /\ known' = [known EXCEPT ![key] = Current(key)]
  /\ quiet' = quiet \ {key}
  /\ UNCHANGED <<core, tableVars, optionsUpdated, viewVars>>

(* Told that something changed, a core reads everything again.             *)
GetVariableUpdate ==
  /\ core \in {"starting", "game"}
  /\ optionsUpdated' = FALSE
  /\ IF optionsUpdated
     THEN known' = AllRead /\ quiet' = {}
     ELSE UNCHANGED <<known, quiet>>
  /\ UNCHANGED <<core, tableVars, viewVars>>

-----------------------------------------------------------------------------
(* The life cycle.                                                         *)
LoadCore ==
  /\ core = "none"
  /\ core' = "loading"
  /\ UNCHANGED <<tableVars, optionsUpdated, known, quiet, viewVars>>

OnCoreLoaded ==
  /\ core = "loading"
  /\ core' = "core"
  /\ UNCHANGED <<tableVars, optionsUpdated, known, quiet, viewVars>>

(* A core reads its options at the beginning of retro_load_game().         *)
LoadGame ==
  /\ core = "core"
  /\ core' = "starting"
  /\ known' = AllRead
  /\ quiet' = {}
  /\ UNCHANGED <<tableVars, optionsUpdated, viewVars>>

LoadGameFails ==
  /\ core = "starting"
  /\ core' = "core"
  /\ UNCHANGED <<tableVars, optionsUpdated, known, quiet, viewVars>>

OnGameLoaded ==
  /\ core = "starting"
  /\ core' = "game"
  /\ \/ managed /\ optionsUpdated' = FALSE
     \/ ~managed /\ UNCHANGED optionsUpdated
  /\ UNCHANGED <<tableVars, known, quiet, viewVars>>

OnGameUnloaded ==
  /\ core = "game"
  /\ core' = "core"
  /\ UNCHANGED <<tableVars, optionsUpdated, known, quiet, viewVars>>

(* The core is gone, whoever hears of it.                                  *)
CoreGoes ==
  /\ core = "core"
  /\ core' = "none"
  /\ known' = NoneRead
  /\ quiet' = {}
  /\ announced' = <<>>
  /\ missed' = (missed \/ ~managed)
  /\ UNCHANGED managed

(* Mutant: the map is not cleared.                                         *)
OnCoreUnloadedKeepsMap ==
  /\ CoreGoes
  /\ \/ managed /\ coreOptions' = <<>> /\ optionsUpdated' = FALSE
     \/ ~managed /\ UNCHANGED <<coreOptions, optionsUpdated>>
  /\ UNCHANGED coreMap

OnCoreUnloaded ==
  /\ CoreGoes
  /\ \/ /\ managed
        /\ coreOptions' = <<>>
        /\ coreMap' = [key \in {} |-> 0]
        /\ optionsUpdated' = FALSE
     \/ ~managed /\ UNCHANGED <<coreOptions, coreMap, optionsUpdated>>

(* Desktop::onDraw() drops the views whose windows were closed.            *)
CloseView ==
  /\ UserActs
  /\ managed
  /\ managed' = FALSE
  /\ UNCHANGED <<core, tableVars, optionsUpdated, known, quiet, missed>>

-----------------------------------------------------------------------------
(* onDraw(): the user chooses another value.                               *)
ChooseValue(i, selected) ==
  /\ UserActs
  /\ managed
  /\ i \in DOMAIN coreOptions
  /\ coreOptions[i].visible
  /\ selected \in DOMAIN coreOptions[i].values \ {coreOptions[i].selected}
  /\ coreOptions' = [coreOptions EXCEPT ![i].selected = selected]
  /\ optionsUpdated' = TRUE
  /\ UNCHANGED <<core, coreMap, announced, known, quiet, viewVars>>

(* Mutant: an index one too large is let through.                          *)
SelectsUpTo(option, chosen, i) ==
  i = chosen /\ i \in 1..(Len(option.values) + 1)

(* A value of l_setCoreOption() by its index, or the first of a string.    *)
Selects(option, chosen, i) ==
  /\ i \in DOMAIN option.values
  /\ \/ i = chosen
     \/ option.values[i] = chosen /\ \A j \in 1..(i - 1) : option.values[j] # chosen

(* l_setCoreOption(): nobody tells the core.                               *)
LuaSetCoreOption(key, chosen) ==
  /\ UserActs
  /\ key \in DOMAIN coreMap
  /\ \E i \in 1..(Len(coreOptions[coreMap[key]].values) + 1) :
       /\ Selects(coreOptions[coreMap[key]], chosen, i)
       /\ coreOptions' = [coreOptions EXCEPT ![coreMap[key]].selected = i]
  /\ quiet' = quiet \union {key}
  /\ UNCHANGED <<core, coreMap, announced, optionsUpdated, known, viewVars>>

-----------------------------------------------------------------------------
OptionsTypeOK ==
  /\ core \in {"none", "loading", "core", "starting", "game"}
  /\ coreOptions \in Seq(Option)
  /\ \A i \in DOMAIN coreOptions : coreOptions[i].selected \in DOMAIN coreOptions[i].values
  /\ DOMAIN coreMap \subseteq Key
  /\ optionsUpdated \in BOOLEAN
  /\ known \in [Key -> Value \union {Unread}]
  /\ quiet \subseteq Key
  /\ announced \in Seq(Definition)
  /\ managed \in BOOLEAN /\ missed \in BOOLEAN

(* A key is found exactly when the current core announced it, and leads to *)
(* the first of its definitions, through announcements that repeat keys    *)
(* and cores that come and go.  Only a core that went while the window was *)
(* closed leaves its options to the next one; even then a key leads to an  *)
(* option that has it, never past the list.                                *)
KeysFindOptions ==
  /\ DOMAIN coreMap = Keys(coreOptions)
  /\ \A key \in DOMAIN coreMap :
       coreMap[key] \in DOMAIN coreOptions /\ IsFirst(coreOptions, key, coreMap[key])
  /\ ~missed =>
       /\ DOMAIN coreMap = Keys(announced)
       /\ \A key \in DOMAIN coreMap : LET i == coreMap[key] IN
            /\ IsFirst(announced, key, i)
            /\ coreOptions[i].values = announced[i].values

(* A game is played with the values the front-end has, or the core is      *)
(* about to be told of a change.  Only values that scripts set are         *)
(* excepted: nobody tells the core of them.                                *)
Informed ==
  core = "game" /\ ~optionsUpdated =>
    \A key \in DOMAIN coreMap \ quiet :
      known[key] # Unread => known[key] = Current(key)
=============================================================================
