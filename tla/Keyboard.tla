------------------------------ MODULE Keyboard ------------------------------
(***************************************************************************)
(* hc::Keyboard and the keyboard side of hc::Input: a core learns of the   *)
(* keys in two ways, by asking Input::state() and by the callback it gave, *)
(* which Input::poll() calls for every key that changed since the last     *)
(* poll that had a callback to call.                                       *)
(*                                                                         *)
(* Neither the callback nor _keyboardState is touched when a core goes.    *)
(***************************************************************************)
EXTENDS Integers

CONSTANTS
  Key,        \* RETROK_xxx; the keys SDL reports that have none are ignored
  Lockable,   \* those that getKey() looks for in the two lock menus
  Locks       \* what the lock menus offer: keys, and "None"

ASSUME KeyboardAssumption ==
  /\ Lockable \subseteq Key
  /\ "None" \in Locks

VARIABLES
  keyState,   \* Keyboard::_keyState
  clicked,    \* keys whose _virtualState is less than 100 ms old
  lock,       \* _lock1 and _lock2
  known,      \* Input::_keyboardState
  callback,   \* Input::_keyboardCallback: whose it is
  heard,      \* external: the keys the loaded core takes for held
  carried     \* history: keys already in _keyboardState when it gave its callback

keyboardVars == <<keyState, clicked, lock, known, callback, heard, carried>>

(* No callback, the loaded core's, one of a core that is gone, or what the *)
(* constructor left in memory.                                             *)
Callback == {"null", "live", "stale", "wild"}

(* Keyboard::Keyboard() and Input::Input().                                *)
KeyboardInit ==
  /\ keyState = {}
  /\ clicked = {}
  /\ lock = [i \in 1..2 |-> "None"]
  /\ known = {}
  /\ callback \in {"null", "wild"}
  /\ heard = {}
  /\ carried = {}

-----------------------------------------------------------------------------
(* Keyboard::process(): a press or a release that is not a repeat.         *)
KeyEvent(k) ==
  /\ keyState' = IF k \in keyState THEN keyState \ {k} ELSE keyState \union {k}
  /\ UNCHANGED <<clicked, lock, known, callback, heard, carried>>

(* draw(): the on-screen keys and the lock menus.                          *)
ClickKey(k) ==
  /\ clicked' = clicked \union {k}
  /\ UNCHANGED <<keyState, lock, known, callback, heard, carried>>

SetLock(i, k) ==
  /\ lock' = [lock EXCEPT ![i] = k]
  /\ UNCHANGED <<keyState, clicked, known, callback, heard, carried>>

(* DurationKeepPressedUs have passed.                                      *)
ClickEnds(k) ==
  /\ k \in clicked
  /\ clicked' = clicked \ {k}
  /\ UNCHANGED <<keyState, lock, known, callback, heard, carried>>

GetKey(k) ==
  \/ k \in keyState
  \/ k \in clicked
  \/ k \in Lockable /\ \E i \in 1..2 : lock[i] = k

(* Input::state() of the keyboard.                                         *)
KeyboardState(k) == IF GetKey(k) THEN 32767 ELSE 0

-----------------------------------------------------------------------------
(* Input::setKeyboardCallback().                                           *)
SetKeyboardCallback ==
  /\ callback' = "live"
  /\ heard' = {}
  /\ carried' = known
  /\ UNCHANGED <<keyState, clicked, lock, known>>

(* The core is unloaded, and what it had given is not.                     *)
CallbackOutlives ==
  /\ callback' = IF callback = "live" THEN "stale" ELSE callback
  /\ heard' = {}
  /\ carried' = {}
  /\ UNCHANGED <<keyState, clicked, lock, known>>

Changed == (keyState \ known) \union (known \ keyState)

(* Mutant: a key that was reported is not noted.                           *)
PollForgets ==
  /\ heard' = IF callback = "live"
              THEN (heard \ Changed) \union (Changed \intersect keyState) ELSE heard
  /\ carried' = carried \ Changed
  /\ UNCHANGED <<keyState, clicked, lock, callback, known>>

(* Input::poll().  Whatever a stale callback does, it is not heard.        *)
Poll ==
  /\ IF callback = "null" THEN UNCHANGED <<known, heard, carried>>
     ELSE /\ known' = keyState
          /\ heard' = IF callback = "live"
                      THEN (heard \ Changed) \union (Changed \intersect keyState)
                      ELSE heard
          /\ carried' = carried \ Changed
  /\ UNCHANGED <<keyState, clicked, lock, callback>>

KeyboardEvent  == \E k \in Key : KeyEvent(k) \/ ClickEnds(k)
KeyboardWidget == \/ \E k \in Key : ClickKey(k)
                  \/ \E i \in 1..2, k \in Locks : SetLock(i, k)

-----------------------------------------------------------------------------
KeyboardTypeOK ==
  /\ keyState \subseteq Key
  /\ clicked \subseteq Key
  /\ lock \in [1..2 -> Locks]
  /\ known \subseteq Key
  /\ callback \in Callback
  /\ heard \subseteq Key
  /\ carried \subseteq Key

(* What a core that gave a callback was told is what _keyboardState holds, *)
(* but for the keys that were in it before the core gave its callback.     *)
HeardKnown == callback = "live" => heard = known \ carried
=============================================================================
