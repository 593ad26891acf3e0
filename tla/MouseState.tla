----------------------------- MODULE MouseState -----------------------------
(***************************************************************************)
(* How the mouse shows its counters, and how the decoder reads steps from  *)
(* two readings of one (src/src/runtime/v32mouse.s); the state of the      *)
(* decoder, of the device and of what happened to it; and what the calls   *)
(* of a program promise of these.                                          *)
(***************************************************************************)
EXTENDS Integers, Sequences, DeviceFrames

CONSTANTS
  Buttons,       \* the buttons
  Speeds,        \* steps the device may make between two frames
  Scales,        \* units per step a program may ask for, the first smallest
  Places,        \* places it may move the pointer or its bounds to
  Rests,         \* positions a counter may be at when it is plugged in
  DefMax,        \* V32MOUSE_DEF_MAXX
  LastFrame, Replugs   \* bounds of a run

ASSUME MouseAssumption ==
  /\ Speeds \subseteq Int /\ Places \subseteq Int /\ Scales \subseteq Int
  /\ Rests \subseteq 0..11
  /\ {DefMax, LastFrame, Replugs} \subseteq Nat

VARIABLES
  mouse,         \* the decoder
  present,       \* a device is plugged in
  position,      \* of its counter, 0 to 11
  pushed,        \* buttons the user holds down
  unread,        \* what happened since the last read
  visible,       \* what belongs to this frame
  due,           \* where the pointer should be
  turned,        \* the device was too fast for its counter between two reads
  replugs        \* times it was plugged in

\* The four controls of a counter at each of its positions: Left and Right in
\* the bits 1 and 2, the low and the high bit of the Gray code in 4 and 8.
Controls == <<1, 0, 2, 6, 4, 5, 13, 12, 14, 10, 8, 9>>

\* __v32mouse_positions
Positions == <<1, 0, 2, -1, 4, 5, 3, -1, 10, 11, 9, -1, 7, 6, 8, -1>>

Counter(controls) == Positions[controls + 1]

StepsForward(before, after) ==   \* mutant: never a step back
  IF before < 0 \/ after < 0 THEN 0 ELSE (after - before + 12) % 12

\* __v32mouse_steps
Steps(before, after) ==
  LET around == (after - before + 12) % 12
  IN CASE before < 0 \/ after < 0 \/ around = 6 -> 0
       [] around > 6 -> around - 12
       [] OTHER      -> around

-----------------------------------------------------------------------------
\* __v32mouse_edge, what pressed() and released() answer
Edge(when) == {b \in Buttons : when[b] = frame}

\* What delta() answers.
Delta == IF mouse.dframe = frame THEN mouse.dx ELSE 0

\* The pointer moves by every step of the device, each counted once and in its
\* direction, whichever read finds it, and delta() tells each frame what came
\* with it, however the program spreads its calls over the frames.  Lost are
\* the steps of more than two frames without a read and those around a device
\* that comes or goes; a counter that more than five steps turned can be read
\* as a move the other way.
MotionHeard ==
  ~turned =>
    /\ mouse.x = due
    /\ (phase = "program" /\ mouse.polled = frame) =>
         Delta = visible.steps

\* "pressed / released are true only on the frame the button changed"
\* (doc/API.md): each change of a button is answered in one frame, that of the
\* read which found it or, when the frame was ending, the next.
ButtonSeen ==
  (phase = "program" /\ mouse.polled = frame) =>
    /\ Edge(mouse.pressf) = visible.down
    /\ Edge(mouse.relf) = visible.up
=============================================================================
