--------------------------- MODULE MCApplication ---------------------------
(* Constants for the model-checking runs of Application. *)
EXTENDS Application

AllMethods == LC!Method
LuaMethods == LC!Method \ {"startGame"}
LuaNoQuit  == LuaMethods \ {"quit"}
NoCalls    == {}

(* Every front-end call the handlers make may be refused, except unload(). *)
Refusable == {"loadCore", "loadGame", "step", "resetGame", "unloadGame"}

(* The calls a callback may make without upsetting the method it runs in:  *)
(* those that return to the state they were called in, while a game is     *)
(* there, and pauseGame at the end of a frame.                             *)
SafeScriptCalls ==
  ((Event \ {"onGameUnloaded"}) \X {"resetGame", "step"})
    \union {<<"onFrame", "pauseGame">>}

(* A callback that ejects the game it has just seen start.                 *)
EjectOnStart == {<<"onGameStarted", "unloadGame">>}
=============================================================================
