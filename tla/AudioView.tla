------------------------------ MODULE AudioView ------------------------------
(***************************************************************************)
(* hc::Audio as a view: the Mute box, which pausing a game borrows, the    *)
(* resampler, which lives as long as a game, and the samples that wait for *)
(* the next flush().  What a flush writes is the subject of AudioPath.     *)
(***************************************************************************)
EXTENDS Naturals

CONSTANT MaxPile  \* bound: batches of samples that wait

ASSUME AudioViewAssumption == MaxPile \in Nat \ {0}

VARIABLES
  mute,       \* _mute
  wasMuted,   \* _wasMuted
  resampler,  \* _resampler # nullptr
  pile,       \* _samples: how many frames' batches it holds
  wants,      \* history: the box as the user last left it outside a pause
  ejected     \* history: was a game ejected while paused since?

audioViewVars == <<mute, wasMuted, resampler, pile, wants, ejected>>

(* Audio::Audio().                                                         *)
AudioViewInit ==
  /\ mute = FALSE
  /\ wasMuted = FALSE
  /\ resampler = FALSE
  /\ pile = 0
  /\ wants = FALSE
  /\ ejected = FALSE

-----------------------------------------------------------------------------
(* onGameLoaded(): speex_resampler_init() may fail.                        *)
CreateResampler ==
  /\ resampler' \in BOOLEAN
  /\ UNCHANGED <<mute, wasMuted, pile, wants, ejected>>

(* Mutant: the box is not saved.                                           *)
MuteForPauseUnsaved ==
  /\ mute' = TRUE
  /\ UNCHANGED <<wasMuted, resampler, pile, wants, ejected>>

(* onGamePaused().                                                         *)
MuteForPause ==
  /\ wasMuted' = mute
  /\ mute' = TRUE
  /\ UNCHANGED <<resampler, pile, wants, ejected>>

(* onGameResumed().                                                        *)
Unmute ==
  /\ mute' = wasMuted
  /\ UNCHANGED <<wasMuted, resampler, pile, wants, ejected>>

(* onGameReset().                                                          *)
ClearSamples ==
  /\ pile' = 0
  /\ UNCHANGED <<mute, wasMuted, resampler, wants, ejected>>

(* onGameUnloaded(), with the game paused or not.  _mute stays as it is.   *)
DestroyResampler(paused) ==
  /\ resampler' = FALSE
  /\ pile' = 0
  /\ ejected' = (ejected \/ paused)
  /\ UNCHANGED <<mute, wasMuted, wants>>

(* sampleBatch(), once in a frame, or not at all.                          *)
Batches == IF pile < MaxPile THEN {pile, pile + 1} ELSE {pile}

(* A frame of run(): the core's samples, then flush(), which returns at    *)
(* once when there is no resampler.                                        *)
SampleAndFlush ==
  /\ \E p \in Batches : pile' = IF resampler THEN 0 ELSE p
  /\ UNCHANGED <<mute, wasMuted, resampler, wants, ejected>>

(* A frame of step(), which does not flush.                                *)
SampleOnly ==
  /\ pile' \in Batches
  /\ UNCHANGED <<mute, wasMuted, resampler, wants, ejected>>

(* onDraw(): the box.  While a game is paused a click lasts until it is    *)
(* resumed.                                                                *)
ClickMute(paused) ==
  /\ mute' = ~mute
  /\ IF paused THEN UNCHANGED <<wants, ejected>>
     ELSE wants' = mute' /\ ejected' = FALSE
  /\ UNCHANGED <<wasMuted, resampler, pile>>

-----------------------------------------------------------------------------
AudioViewTypeOK ==
  /\ mute \in BOOLEAN
  /\ wasMuted \in BOOLEAN
  /\ resampler \in BOOLEAN
  /\ pile \in 0..MaxPile
  /\ wants \in BOOLEAN
  /\ ejected \in BOOLEAN
=============================================================================
