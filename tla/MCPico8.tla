------------------------------ MODULE MCPico8 ------------------------------
(* Two voices and two channels of effects.  A song of a pattern with one voice *)
(* and a pattern that repeats, a loop under a longer sound; and a single       *)
(* pattern that ends the music.                                                *)
EXTENDS Pico8Frames

SomeSounds ==
  1 :> [ticks |-> 3, loops |-> FALSE, from |-> 0] @@
  2 :> [ticks |-> 3, loops |-> TRUE,  from |-> 1] @@
  3 :> [ticks |-> 4, loops |-> FALSE, from |-> 0]

Pattern(a, b, flags) ==
  [voice |-> 0 :> a @@ 1 :> b, start |-> "start" \in flags, back |-> "back" \in flags, stop |-> "stop" \in flags]

SomeSong ==
  0 :> Pattern(1, Off, {}) @@
  1 :> Pattern(2, 3, {"start", "back"}) @@
  2 :> Pattern(Off, 1, {"stop"})

\* A loop in a voice that plays another sound in the next pattern.
LoopThenOther ==
  0 :> Pattern(1, 2, {}) @@
  1 :> Pattern(3, 3, {"stop"})

SomeTunes  == {0, 2}
SomeNoises == {2, -2}
=============================================================================
