------------------------------- MODULE Session -------------------------------
(***************************************************************************)
(* Application together with the views whose state its broadcasts, its     *)
(* main loop and the core's calls change: the game controllers and the     *)
(* keyboard, the console list, and the audio, video, perf and led views.   *)
(*                                                                         *)
(* Every step of a session is a step of Application, with what the views   *)
(* do in it: input is processed when the loop polls, the core samples,     *)
(* draws and polls while retro_run() runs, a view hears an event when the  *)
(* handler that broadcasts it ends, and widgets change in a draw.  No      *)
(* callback reads what a view changes on an event, so that the moment in   *)
(* the broadcast does not matter.                                          *)
(***************************************************************************)
EXTENDS Application, Pads, Keyboard, Consoles, AudioView, Video, Gauges

CONSTANT
  Parts  \* bound: what the user and the core exercise, one in a behaviour

VARIABLES
  part,   \* the one of this behaviour; the parts share no state
  closed  \* views the user closed: the desktop has erased them

ASSUME SessionAssumption ==
  Parts \subseteq {"pad", "keyboard", "consoles", "audio", "video", "gauges"}

partsVars == <<padsVars, keyboardVars, consolesVars, audioViewVars, videoVars,
               gaugesVars, closed>>

sessionVars == <<vars, partsVars, part>>

Quiet == UNCHANGED partsVars

PadsOnly(A) ==
  A /\ UNCHANGED <<keyboardVars, consolesVars, audioViewVars, videoVars, gaugesVars, closed>>
KeyboardOnly(A) ==
  A /\ UNCHANGED <<padsVars, consolesVars, audioViewVars, videoVars, gaugesVars, closed>>
ConsolesOnly(A) ==
  A /\ UNCHANGED <<padsVars, keyboardVars, audioViewVars, videoVars, gaugesVars, closed>>
AudioOnly(A) ==
  A /\ UNCHANGED <<padsVars, keyboardVars, consolesVars, videoVars, gaugesVars, closed>>
VideoOnly(A) ==
  A /\ UNCHANGED <<padsVars, keyboardVars, consolesVars, audioViewVars, gaugesVars, closed>>
GaugesOnly(A) ==
  A /\ UNCHANGED <<padsVars, keyboardVars, consolesVars, audioViewVars, videoVars, closed>>

SessionInit ==
  /\ Init
  /\ PadsInit /\ KeyboardInit /\ ConsolesInit
  /\ AudioViewInit /\ VideoInit /\ GaugesInit
  /\ part \in Parts
  /\ virtual => part = "pad"
  /\ callback = "wild" => part = "keyboard"
  /\ closed = {}

-----------------------------------------------------------------------------
(* The poll of run(), which hands an SDL event to Devices::process().      *)
PollInput ==
  /\ EndPoll
  /\ \/ Quiet
     \/ part = "pad" /\ PadsOnly(PadEvent)
     \/ part = "keyboard" /\ KeyboardOnly(KeyboardEvent)

(* What a core does in retro_run(); it polls the input in each.            *)
CoreRuns ==
  \/ part = "keyboard" /\ KeyboardOnly(Poll)
  \/ part \in {"pad", "consoles"} /\ Quiet
  \/ part = "video" /\ \/ Quiet
                       \/ \E w, h \in Size :
                            \/ VideoOnly(SetGeometry([w |-> w, h |-> h]))
                            \/ VideoOnly(Refresh([w |-> w, h |-> h]))
  \/ part = "gauges" /\ \/ Quiet
                        \/ \E n \in 0..MaxLeds, on \in BOOLEAN :
                             GaugesOnly(SetLed(n, on, FALSE))

(* frontend.run() and _audio.flush() in the loop ...                       *)
LoopFrame ==
  /\ RunFrame
  /\ \/ CoreRuns
     \/ part = "audio" /\ AudioOnly(SampleAndFlush)

(* ... and in step().                                                      *)
StepFrame ==
  /\ CoreAccepts
  /\ Top.m = "step"
  /\ \/ CoreRuns
     \/ part = "audio" /\ AudioOnly(SampleOnly)

(* A core that is loaded may give its keyboard callback and register a     *)
(* counter; setSystemInfo() and the registration of the run counter.       *)
LoadsCore ==
  /\ CoreAccepts
  /\ Top.m = "loadCore"
  /\ AppendExtensions
  /\ \/ RegisterRun
     \/ part = "gauges" /\ \E x \in Ident : RegisterAtLoad(x)
  /\ \/ UNCHANGED keyboardVars
     \/ part = "keyboard" /\ SetKeyboardCallback
  /\ UNCHANGED <<padsVars, audioViewVars, videoVars, closed>>

LoadsGame ==
  /\ CoreAccepts
  /\ Top.m = "loadGame"
  /\ \/ part # "video" /\ Quiet
     \/ part = "keyboard" /\ KeyboardOnly(SetKeyboardCallback)
     \/ part = "video" /\ \E f \in {format, "RGB565"}, w, h \in Size :
          VideoOnly(SetAvInfo(f, [w |-> w, h |-> h]))

Unloads ==
  /\ CoreAccepts
  /\ \/ Top.m = "unloadCore" /\ KeyboardOnly(CallbackOutlives)
     \/ Top.m = "unloadGame" /\ Quiet

-----------------------------------------------------------------------------
(* The broadcasts, view by view.                                           *)
AudioHears(e, paused) ==
  IF "audio" \in closed THEN UNCHANGED audioViewVars
  ELSE CASE e = "onGameLoaded" /\ part = "audio" -> CreateResampler
         [] e = "onGamePaused"   -> MuteForPause
         [] e = "onGameResumed"  -> Unmute
         [] e = "onGameReset"    -> ClearSamples
         [] e = "onGameUnloaded" -> DestroyResampler(paused)
         [] OTHER                -> UNCHANGED audioViewVars

VideoHears(e) ==
  IF "video" \in closed THEN UNCHANGED videoVars
  ELSE CASE e = "onGameUnloaded" -> DeleteTexture
         [] e = "onCoreUnloaded" -> ForgetFormat
         [] OTHER                -> UNCHANGED videoVars

GaugesHear(e) ==
  CASE e = "onGameReset" /\ "led" \notin closed     -> LedsOff
    [] e = "onGameUnloaded" /\ "led" \notin closed  -> ClearLeds
    [] e = "onCoreUnloaded" /\ "perf" \notin closed -> DropCounters
    [] OTHER                                        -> UNCHANGED gaugesVars

ControlHears(e) ==
  IF e = "onCoreUnloaded" /\ "control" \notin closed
  THEN CloseConsole ELSE UNCHANGED consolesVars

HandlerEnds ==
  /\ Finish \/ ResetRefused
  /\ IF Broadcast
     THEN /\ AudioHears(EventOf(Top.m), Top.from = "GamePaused")
          /\ VideoHears(EventOf(Top.m))
          /\ GaugesHear(EventOf(Top.m))
          /\ ControlHears(EventOf(Top.m))
          /\ UNCHANGED <<padsVars, keyboardVars, closed>>
     ELSE Quiet

-----------------------------------------------------------------------------
(* A click that calls a LifeCycle method, or a statement typed in the      *)
(* prompt, which is all that is left without Control's buttons.  The core  *)
(* of a console is loaded by its onConsoleLoaded callback.  A pad's state  *)
(* does not depend on what the application does: a behaviour about one is  *)
(* the empty loop.                                                         *)
Clicks ==
  /\ part # "pad"
  /\ \/ \E m \in LC!Method :
          ("control" \in closed => m \in ReplMethods) /\ UserCall(m) /\ Quiet
     \/ /\ part = "consoles"
        /\ "control" \notin closed
        /\ state = "Start" /\ UserCall("loadCore")
        /\ \E c \in Console : ConsolesOnly(OpenConsole(c))

(* The desktop erases the view at the end of the draw: it is not drawn any *)
(* more and hears no event, though the core and Lua still find it.         *)
Close(view) ==
  /\ closed' = closed \union {view}
  /\ UNCHANGED <<padsVars, keyboardVars, consolesVars, audioViewVars, videoVars, gaugesVars>>

(* Another widget of a view, or a statement typed in the prompt.           *)
Widget ==
  \/ part = "pad" /\ PadsOnly(PadWidget)
  \/ part = "keyboard" /\ KeyboardOnly(KeyboardWidget)
  \/ part = "consoles" /\ \E c \in Console : ConsolesOnly(AddConsole(c))
  \/ part = "consoles" /\ "control" \notin closed /\
       \/ \E c \in Console :
            \/ ConsolesOnly(ChooseConsole(c))
            \/ state = "Start" /\ ConsolesOnly(OpenConsole(c))
       \/ Close("control")
  \/ part = "audio" /\ "audio" \notin closed /\
       (AudioOnly(ClickMute(state = "GamePaused")) \/ Close("audio"))
  \/ part = "video" /\ Close("video")
  \/ part = "gauges" /\
       \/ \E n \in 1..MaxLeds, on \in BOOLEAN : GaugesOnly(SetLed(n, on, TRUE))
       \/ \E x \in Ident : GaugesOnly(RegisterScript(x))
       \/ \E view \in {"perf", "led"} : Close(view)

Draws ==
  \/ Clicks
  \/ EndDraw /\ Quiet
  \/ EndDraw /\ phase = "draw" /\ state # "Quit" /\ Widget

(* Nothing of the views changes in these.  The console's callbacks are     *)
(* Control's, when it hears the event.                                     *)
Others ==
  /\ \/ CoreRefuses
     \/ "control" \notin closed /\ \E m \in LC!Method : ScriptCall(m)
     \/ QuitUnloads \/ QuitAgain \/ QuitReturns
     \/ part # "pad" /\ PollQuit
     \/ QuitPolled \/ FrameRun \/ NoFrame \/ Exited
  /\ Quiet

SessionNext ==
  /\ \/ PollInput \/ LoopFrame \/ StepFrame
     \/ LoadsCore \/ LoadsGame \/ Unloads \/ HandlerEnds
     \/ Draws \/ Others
  /\ UNCHANGED part

SessionSpec == SessionInit /\ [][SessionNext]_sessionVars /\ WF_sessionVars(SessionNext)

-----------------------------------------------------------------------------
SessionTypeOK ==
  /\ TypeOK
  /\ PadsTypeOK /\ KeyboardTypeOK /\ ConsolesTypeOK
  /\ AudioViewTypeOK /\ VideoTypeOK /\ GaugesTypeOK
  /\ part \in Parts
  /\ closed \subseteq {"audio", "video", "perf", "led", "control"}

(* A core that gave a callback has been told, after each of its frames, of *)
(* exactly the keys that are down; only those that went down before it     *)
(* came, and were reported to the core before it, are lost on it.  A key   *)
(* it was told of is one that asking shows as well.                        *)
KeysHeard ==
  [][ (phase = "frame" /\ phase' = "running" /\ part = "keyboard" /\ callback = "live")
      => /\ heard' = keyState' \ carried'
         /\ \A k \in heard' : KeyboardState(k) # 0 ]_sessionVars

(* Every callback goes to the console the user loaded, unless the core was *)
(* loaded from the prompt without one, or a console has been registered    *)
(* since that sorts before it.  A Control that was closed calls nobody.    *)
ConsoleCalled ==
  (At("event") /\ Top.m # "run" /\ ~prompted /\ ~shifted /\ "control" \notin closed)
    => Indexed(wanted)

(* A game plays muted when the user wants it: the box that a pause borrows *)
(* comes back as it was, whatever is clicked meanwhile, unless the game    *)
(* was ejected while it was paused.                                        *)
MuteIsUsers ==
  (state = "GameRunning" /\ stack = <<>> /\ ~ejected /\ "audio" \notin closed)
    => mute = wants

(* A frame of the core never reaches beyond the texture, and the part of   *)
(* the texture that is drawn is within it, until it is replaced.           *)
FrameFits ==
  /\ (core = "game" /\ part = "video") => Fits(geometry, texture)
  /\ ~replaced => Fits(image, texture)

GameLeft ==
  /\ "audio" \in closed \/ (~resampler /\ pile = 0)
  /\ "video" \in closed \/ (texture = Nil /\ image = Nil)
  /\ "led" \in closed \/ scripted \/ leds = <<>>

CoreLeft ==
  /\ "perf" \in closed \/ \A x \in DOMAIN counters : counters[x] = "script"
  /\ "video" \in closed \/ format = "UNKNOWN"
  /\ "control" \in closed \/ extensions = 0

(* A game, and a core, leave nothing behind in the views that were told of *)
(* their end: no resampler, sample, texture or LED of the game, no counter *)
(* in the memory of the core, and not its pixel format or its extensions.  *)
NothingLeft ==
  stack = <<>> =>
    /\ core # "game" => GameLeft
    /\ core = "none" => CoreLeft
=============================================================================
