------------------------------- MODULE Gauges -------------------------------
(***************************************************************************)
(* hc::Perf and hc::Led: what the core and the scripts show of themselves. *)
(* A performance counter is known by its name.  Those of a core are in the *)
(* core's own memory, those of a script are allocated by Perf, and the one *)
(* that times retro_run() is a member of Application.                      *)
(***************************************************************************)
EXTENDS Naturals, Sequences

CONSTANTS
  Ident,   \* the names of the counters of cores and scripts
  MaxLeds  \* bound: the highest LED that is set

ASSUME GaugesAssumption ==
  /\ "hc::retro_run" \notin Ident
  /\ MaxLeds \in Nat

VARIABLES
  counters,  \* Perf::_counters: the owner of each name that is registered
  leds,      \* Led::_states
  scripted   \* history: was a LED set by a script since they were cleared?

gaugesVars == <<counters, leds, scripted>>

Owner == {"app", "core", "script"}

RunCounter == "hc::retro_run"

NoCounter == [x \in {} |-> "app"]

GaugesInit ==
  /\ counters = NoCounter
  /\ leds = <<>>
  /\ scripted = FALSE

-----------------------------------------------------------------------------
(* Nothing happens when the name is taken.                                 *)
With(registered, owner, x) ==
  IF x \in DOMAIN registered THEN registered
  ELSE [y \in DOMAIN registered \union {x} |->
          IF y = x THEN owner ELSE registered[y]]

(* Perf::register_() by the core and, in onCoreLoaded(), by Application.   *)
RegisterAtLoad(x) ==
  /\ counters' = With(With(counters, "core", x), "app", RunCounter)
  /\ UNCHANGED <<leds, scripted>>

RegisterRun ==
  /\ counters' = With(counters, "app", RunCounter)
  /\ UNCHANGED <<leds, scripted>>

(* l_register().                                                           *)
RegisterScript(x) ==
  /\ x \notin DOMAIN counters
  /\ counters' = With(counters, "script", x)
  /\ UNCHANGED <<leds, scripted>>

(* Mutant: only the counters of scripts, which are freed, are dropped.     *)
DropScriptCounters ==
  /\ counters' = [x \in {y \in DOMAIN counters : counters[y] # "script"} |-> counters[x]]
  /\ UNCHANGED <<leds, scripted>>

(* Perf::onCoreUnloaded().                                                 *)
DropCounters ==
  /\ counters' = NoCounter
  /\ UNCHANGED <<leds, scripted>>

(* Led::setState(): the vector is resized to end with the LED that is set. *)
SetLed(n, on, byScript) ==
  /\ leds' = [i \in 1..(n + 1) |->
                IF i = n + 1 THEN on ELSE IF i \in DOMAIN leds THEN leds[i] ELSE FALSE]
  /\ scripted' = (scripted \/ byScript)
  /\ UNCHANGED counters

(* Led::onGameReset().                                                     *)
LedsOff ==
  /\ leds' = [i \in DOMAIN leds |-> FALSE]
  /\ UNCHANGED <<counters, scripted>>

(* Led::onGameUnloaded().                                                  *)
ClearLeds ==
  /\ leds' = <<>>
  /\ scripted' = FALSE
  /\ UNCHANGED counters

-----------------------------------------------------------------------------
GaugesTypeOK ==
  /\ DOMAIN counters \subseteq Ident \union {RunCounter}
  /\ \A x \in DOMAIN counters : counters[x] \in Owner
  /\ leds \in Seq(BOOLEAN)
  /\ scripted \in BOOLEAN
=============================================================================
