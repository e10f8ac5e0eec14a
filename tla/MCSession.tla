------------------------------ MODULE MCSession ------------------------------
(* Constants for the model-checking runs of Session. *)
EXTENDS MCApplication, Session

(* One end of an axis, its centre, and a value between two thresholds.     *)
Levels == {-32768, 0, 20000}

(* The scripts and the core of the run are such as the theorems speak of.  *)
ASSUME ScriptsAssumption == ConsiderateScripts /\ CoreUnloads
=============================================================================
