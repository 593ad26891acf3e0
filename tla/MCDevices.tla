------------------------------ MODULE MCDevices ------------------------------
(* A program with a keyboard or with a mouse: each has its decoder, and the   *)
(* two share the frames of the program.                                       *)
(*                                                                            *)
(* Keyboard: a letter, a shift key and caps lock; payloads that are also a    *)
(* key code, a prefix or 0.  The queue has two places, a prefix waits one     *)
(* frame.  Mouse: a button, a device that is fast enough to turn its counter  *)
(* in two frames, a screen of eight places.                                   *)
EXTENDS Keyboard, MouseState

CONSTANTS letter, shift, left

VARIABLE used

M == INSTANCE Mouse

LetterKeys   == {letter}
SomeKeys     == {letter, shift, Caps}
ShiftKeys    == {shift}
SomePayloads == {letter, High, Nul}

SomeSpeeds == {-2, 0, 3}
SomeScales == {2}
SomePlaces == {0}
SomeRests  == {7}

mouseOnly    == <<mouse, present, position, pushed, replugs, unread, visible, due, turned>>
keyboardOnly == <<kbd, answer, device, user>>

DeviceInit ==
  /\ used \in {"keyboard", "mouse"}
  /\ Init /\ M!Init
  /\ (used = "keyboard" => ~present /\ side # 1)   \* 1 and 2 alternate: one stands for both
  /\ (used = "mouse" => side = 0 /\ ~plugged)

DeviceNext ==
  /\ UNCHANGED used
  /\ \/ used = "keyboard" /\ Next /\ UNCHANGED mouseOnly
     \/ used = "mouse" /\ M!Next /\ UNCHANGED keyboardOnly

DeviceSpec == DeviceInit /\ [][DeviceNext]_<<used, vars, mouseOnly>>
=============================================================================
