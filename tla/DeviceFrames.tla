---------------------------- MODULE DeviceFrames ----------------------------
(***************************************************************************)
(* The frames of a program that uses devices: each is read by the first    *)
(* call that looks, and again before the WAIT that ends the frame.         *)
(***************************************************************************)
VARIABLES
  frame,         \* TIM_FrameCounter
  phase          \* "program", or "ended" when the frame's last read is done
=============================================================================
