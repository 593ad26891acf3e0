-------------------------------- MODULE Mouse --------------------------------
(***************************************************************************)
(* The mouse decoder (src/src/runtime/v32mouse.s).  The mouse is a gamepad *)
(* that shows two counters going around 12 positions and its buttons.  As  *)
(* the keyboard, it is read by the first call of a frame and before the    *)
(* frame ends, and what it shows changes only between two frames.  One     *)
(* axis stands for both, whose code is the same.                           *)
(***************************************************************************)
EXTENDS MouseState

world   == <<present, position, pushed, replugs>>
history == <<unread, visible, due, turned>>
vars    == <<mouse, frame, phase, world, history>>

Within(x, lo, hi) ==
  LET raised == IF x < lo THEN lo ELSE x IN IF raised > hi THEN hi ELSE raised

Nothing == [steps |-> 0, down |-> {}, up |-> {}]

-----------------------------------------------------------------------------
(***************************************************************************)
(* What the port of the mouse shows.                                       *)
(***************************************************************************)
Shown == IF present THEN Controls[position + 1] ELSE 0

ShownButtons == IF present THEN pushed ELSE {}

\* __v32mouse_poll: what it reads is visible in the frame given.
Poll(when) ==
  LET measured == present /\ mouse.conn /\ frame - mouse.polled <= 2
      counter  == Counter(Shown)
      move     == IF measured THEN mouse.scale * Steps(mouse.count, counter) ELSE 0
  IN [mouse EXCEPT
       !.polled = frame, !.conn = present, !.count = counter,
       !.buttons = ShownButtons,
       !.pressf = [b \in Buttons |-> IF b \in ShownButtons \ mouse.buttons THEN when ELSE @[b]],
       !.relf   = [b \in Buttons |-> IF b \in mouse.buttons \ ShownButtons THEN when ELSE @[b]],
       !.dframe = when,
       !.dx = move + (IF mouse.dframe = when THEN @ ELSE 0),
       !.x  = Within(@ + move, mouse.min, mouse.max)]

\* __v32mouse_reset
Reset ==
  [mouse EXCEPT !.pressf = [b \in Buttons |-> -1], !.relf = [b \in Buttons |-> -1],
                !.dframe = -1, !.polled = frame, !.conn = present,
                !.buttons = ShownButtons, !.count = Counter(Shown)]

-----------------------------------------------------------------------------
(***************************************************************************)
(* What a read should find: the steps made since the last one, if the      *)
(* device stayed and two frames at most went by, and the buttons that are  *)
(* not as they were then.                                                  *)
(***************************************************************************)
Owed ==
  IF unread.steady /\ frame - unread.since <= 2 THEN mouse.scale * unread.steps ELSE 0

News == [steps |-> Owed, down |-> unread.down, up |-> unread.up]

Together(v, w) ==
  [steps |-> v.steps + w.steps, down |-> v.down \cup w.down, up |-> v.up \cup w.up]

\* Everything up to now is read.
Read == unread' = [steps |-> 0, down |-> {}, up |-> {}, since |-> frame, steady |-> present]

Moved ==
  /\ due' = Within(due + Owed, mouse.min, mouse.max)
  /\ turned' = (turned \/ (Owed # 0 /\ unread.steps \notin -5..5))

-----------------------------------------------------------------------------
(***************************************************************************)
(* Calls of the program.                                                   *)
(***************************************************************************)
\* __v32mouse_update, which mouse(), pressed(), released(), buttons(), delta(),
\* stat() and the top of a frame of the drivers begin with; the calls of a
\* frame that was read find it so.
Look ==
  /\ phase = "program" /\ mouse.polled # frame
  /\ mouse' = Poll(frame)
  /\ visible' = Together(visible, News)
  /\ Moved /\ Read
  /\ UNCHANGED <<frame, phase, world>>

FrameEndNow ==   \* mutant: what the last read finds is visible in the frame that ends
  /\ phase = "program"
  /\ frame < LastFrame
  /\ mouse' = Poll(frame)
  /\ visible' = News
  /\ phase' = "ended"
  /\ Moved /\ Read
  /\ UNCHANGED <<frame, world>>

\* __v32mouse_frame_end, before the WAIT of the frame
FrameEnd ==
  /\ phase = "program"
  /\ frame < LastFrame
  /\ mouse' = Poll(frame + 1)
  /\ visible' = News
  /\ phase' = "ended"
  /\ Moved /\ Read
  /\ UNCHANGED <<frame, world>>

Unmoved == UNCHANGED <<frame, phase, world, unread, visible, turned>>

\* mouse.position(x), once the frame is read
Place(x) ==
  /\ phase = "program" /\ mouse.polled = frame
  /\ mouse' = [mouse EXCEPT !.x = Within(x, mouse.min, mouse.max)]
  /\ due' = mouse'.x
  /\ Unmoved

\* mouse.bounds(x1, y1, x2, y2), which does not read the mouse; nil keeps an edge
Bounds(lo, hi) ==
  /\ phase = "program"
  /\ mouse' = [mouse EXCEPT !.min = lo, !.max = hi, !.x = Within(@, lo, hi)]
  /\ due' = Within(due, lo, hi)
  /\ Unmoved

\* mouse.scale(n), which does not either
Scale(n) ==
  /\ phase = "program"
  /\ n >= 1
  /\ mouse' = [mouse EXCEPT !.scale = n]
  /\ due' = due
  /\ Unmoved

\* mouse.port(n), of the port the device is in
Port ==
  /\ phase = "program"
  /\ mouse' = Reset
  /\ visible' = Nothing
  /\ Read
  /\ UNCHANGED <<frame, phase, world, due, turned>>

-----------------------------------------------------------------------------
(***************************************************************************)
(* The device, between two frames: after the WAIT of the program, or while *)
(* it computes on.                                                         *)
(***************************************************************************)
NextFrame ==
  /\ frame < LastFrame
  /\ frame' = frame + 1
  /\ phase' = "program"
  /\ visible' = IF phase = "ended" THEN visible ELSE Nothing
  /\ UNCHANGED <<mouse, due, turned>>

\* A change of the buttons that nobody saw, and its undoing, are no change.
Changed(steps, steady, now) ==
  unread' = [unread EXCEPT
    !.steps  = @ + steps,
    !.steady = @ /\ steady,
    !.down   = (@ \cup (now \ (ShownButtons \cup unread.up))) \ (ShownButtons \ now),
    !.up     = (@ \cup (ShownButtons \ (now \cup unread.down))) \ (now \ ShownButtons)]

Use(steps, now) ==
  /\ NextFrame /\ present
  /\ position' = (position + steps) % 12
  /\ pushed' = now
  /\ Changed(steps, TRUE, now)
  /\ UNCHANGED <<present, replugs>>

Unplug ==
  /\ NextFrame /\ present
  /\ present' = FALSE
  /\ pushed' = {}
  /\ Changed(0, FALSE, {})
  /\ UNCHANGED <<position, replugs>>

\* A device comes back with its counter anywhere, once its absence was read.
PlugIn(p) ==
  /\ NextFrame /\ ~present /\ ~mouse.conn /\ replugs < Replugs
  /\ present' = TRUE
  /\ position' = p
  /\ replugs' = replugs + 1
  /\ Changed(0, FALSE, {})
  /\ UNCHANGED pushed

Absent == NextFrame /\ ~present /\ UNCHANGED <<world, unread>>

\* __v32mouse_init, after a BIOS that ran for a while
Init ==
  /\ frame = 0 /\ phase = "program"
  /\ present \in BOOLEAN /\ position = 1 /\ pushed = {} /\ replugs = 0
  /\ mouse = [polled |-> 0, conn |-> present, count |-> 1, buttons |-> {},
              pressf |-> [b \in Buttons |-> -1], relf |-> [b \in Buttons |-> -1],
              dframe |-> -1, dx |-> 0, scale |-> 1,
              x |-> (DefMax + 1) \div 2, min |-> 0, max |-> DefMax]
  /\ unread = [steps |-> 0, down |-> {}, up |-> {}, since |-> 0, steady |-> present]
  /\ visible = Nothing /\ due = mouse.x /\ turned = FALSE

Next ==
  \/ Look \/ FrameEnd \/ Port
  \/ \E x \in Places : Place(x)
  \/ \E lo \in Places \cup {mouse.min}, hi \in Places \cup {mouse.max} :
       lo <= hi /\ Bounds(lo, hi)
  \/ \E n \in Scales : Scale(n)
  \/ \E s \in Speeds, now \in SUBSET Buttons : Use(s, now)
  \/ Unplug \/ Absent
  \/ \E p \in Rests : PlugIn(p)

Spec == Init /\ [][Next]_vars
=============================================================================
