---------------------------- MODULE Pico8_proofs ----------------------------
(***************************************************************************)
(* What a cart's frames keep, for any song and sounds, any number of       *)
(* voices, any gamepads, and any frames and calls: Start, the selected     *)
(* gamepad, and where the music is.                                        *)
(***************************************************************************)
EXTENDS Pico8Frames, TLAPS, WellFoundedInduction

-----------------------------------------------------------------------------
(***************************************************************************)
(* Types.                                                                  *)
(***************************************************************************)
Sound   == DOMAIN Sounds \cup {Off}
Channel == {k \in [state : {"stopped", "playing", "paused"}, sound : Sound, at : Nat, loop : BOOLEAN] :
              k.state # "stopped" => k.sound # Off}
Unit    == [ch : [Channels -> Channel], pattern : DOMAIN Song \cup {Off}, end : Int,
            next : 0..(Voices - 1)]

PlayerTypes ==
  /\ pc \in {"top", "update", "late", "draw", "pace", "flip"} \cup Paused
  /\ caller \in Cart
  /\ prev \in BOOLEAN /\ start \in BOOLEAN /\ paused \in BOOLEAN
  /\ press \in {"idle", "fresh", "used", "lost", "unseen"}
  /\ began.then \in {"update", "flip"}

SongTypes ==
  /\ frame \in Nat /\ began.frame \in Nat
  /\ sound \in Unit
  /\ song \in [heard : Nat, due : Nat, late : Nat, menu : BOOLEAN]

TypeOK == PlayerTypes /\ SongTypes

-----------------------------------------------------------------------------
(***************************************************************************)
(* The inductive invariant, in its parts.                                  *)
(***************************************************************************)
\* The words of the edge know what a press is to the game.
PressSeen ==
  /\ prev <=> press \notin {"idle", "fresh"}
  /\ press \in IF start THEN {"fresh", "used", "lost"} ELSE {"idle", "unseen"}
  /\ paused <=> pc \in Paused

\* In a pause the cart's gamepad is in PICO8_PAUSE_PAD.
PortHeld ==
  /\ port = [pad |-> port.memory, memory |-> port.memory]
  /\ chosen = IF pc \in Paused THEN began.pad ELSE port.pad

\* A song has patterns to be heard, and its end is where they put it.
Now == IF pc \in Paused THEN began.frame ELSE frame

InTime ==
  sound.pattern # Off =>
    /\ song.due > 0
    /\ ~song.menu => sound.end - Now = song.due - song.heard

\* In a pause no voice plays, unless a callback of the menu started a song; out
\* of one no channel is paused.
Halted ==
  IF pc \in Paused
  THEN sound.pattern # Off /\ ~song.menu => \A v \in Music : sound.ch[v].state # "playing"
  ELSE \A c \in Channels : sound.ch[c].state # "paused"

PressInv == PlayerTypes /\ PressSeen
PortInv  == PressInv /\ PortHeld
SongInv  == PressInv /\ SongTypes /\ InTime /\ OnTime /\ Halted /\ VoicesInTime

-----------------------------------------------------------------------------
(***************************************************************************)
(* Start: the presses, and the pause they leave.                           *)
(***************************************************************************)
\* A frame with the player at Start: the press is new, over, or what it was.
LEMMA PressedIs ==
  ASSUME PressInv, start' \in BOOLEAN
  PROVE  LET p == Pressed(press, start, start')
         IN /\ p \in IF start' THEN {"fresh", "used", "lost"} ELSE {"idle", "unseen"}
            /\ prev <=> p \notin {"idle", "fresh"}
  BY DEF PressInv, PlayerTypes, PressSeen, Pressed

\* A check with p the press at that moment: it finds an edge where the press is
\* fresh, and goes into the pause or out of it then.
LEMMA CheckIs ==
  ASSUME PressInv, NEW now \in BOOLEAN, NEW p, Check(now, p),
         p \in IF now THEN {"fresh", "used", "lost"} ELSE {"idle", "unseen"},
         prev <=> p \notin {"idle", "fresh"}
  PROVE  /\ prev' \in BOOLEAN /\ paused' \in BOOLEAN
         /\ press' \in IF now THEN {"fresh", "used", "lost"} ELSE {"idle", "unseen"}
         /\ prev' <=> press' \notin {"idle", "fresh"}
         /\ StartEdge(now) => (paused' <=> ~paused)
         /\ ~StartEdge(now) => (paused' <=> paused)
<1>1. prev' = now /\ press' = Checked(p, now) /\ paused' = (paused # (now /\ p = "fresh"))
  BY DEF Check
<1>2. StartEdge(now) <=> (now /\ p = "fresh")
  BY DEF StartEdge
<1>3. prev' \in BOOLEAN /\ paused' \in BOOLEAN
  BY <1>1
<1>4. (now /\ p = "fresh") \in BOOLEAN /\ paused \in BOOLEAN
  BY DEF PressInv, PlayerTypes
<1>5. /\ StartEdge(now) => (paused' <=> ~paused)
      /\ ~StartEdge(now) => (paused' <=> paused)
  BY <1>1, <1>2, <1>4, Zenon
<1>6. /\ press' \in IF now THEN {"fresh", "used", "lost"} ELSE {"idle", "unseen"}
      /\ now <=> press' \notin {"idle", "fresh"}
  BY <1>1 DEF Checked
<1>7. prev' <=> now
  BY <1>1, Zenon
<1> QED
  BY <1>3, <1>5, <1>6, <1>7

\* A frame with no check: the pause is what it was.
LEMMA FramePasses ==
  ASSUME PressInv, Passes, press' = Pressed(press, start, start'), UNCHANGED <<prev, paused>>
  PROVE  /\ start' \in BOOLEAN /\ prev' \in BOOLEAN /\ paused' \in BOOLEAN
         /\ press' \in IF start' THEN {"fresh", "used", "lost"} ELSE {"idle", "unseen"}
         /\ prev' <=> press' \notin {"idle", "fresh"}
         /\ paused' <=> paused
<1>1. start' \in BOOLEAN
  BY DEF Passes
<1>2. prev' = prev /\ paused' = paused /\ prev \in BOOLEAN /\ paused \in BOOLEAN
  BY DEF PressInv, PlayerTypes
<1>3. /\ press' \in IF start' THEN {"fresh", "used", "lost"} ELSE {"idle", "unseen"}
      /\ prev <=> press' \notin {"idle", "fresh"}
  BY <1>1, PressedIs
<1>4. prev' <=> prev
  BY <1>2
<1>5. paused' <=> paused
  BY <1>2
<1> QED
  BY <1>1, <1>2, <1>3, <1>4, <1>5

\* A check in the loop or in flip() goes into the pause at an edge.
LEMMA CheckNow ==
  ASSUME PressInv, pc \notin Paused, Check(start, press), UNCHANGED start,
         StartEdge(start) => pc' \in Paused, ~StartEdge(start) => pc' \notin Paused
  PROVE  PressSeen' /\ prev' \in BOOLEAN /\ start' \in BOOLEAN /\ paused' \in BOOLEAN
<1>1. start \in BOOLEAN /\ start' = start
  BY DEF PressInv, PlayerTypes
<1>2. ~paused
  BY DEF PressInv, PressSeen
<1>3. /\ prev' \in BOOLEAN /\ paused' \in BOOLEAN
      /\ press' \in IF start THEN {"fresh", "used", "lost"} ELSE {"idle", "unseen"}
      /\ prev' <=> press' \notin {"idle", "fresh"}
      /\ StartEdge(start) => (paused' <=> ~paused)
      /\ ~StartEdge(start) => (paused' <=> paused)
  BY <1>1, CheckIs DEF PressInv, PressSeen
<1>4. press' \in IF start' THEN {"fresh", "used", "lost"} ELSE {"idle", "unseen"}
  BY <1>1, <1>3
<1>5. paused' <=> pc' \in Paused
  BY <1>2, <1>3
<1> QED
  BY <1>1, <1>3, <1>4, <1>5 DEF PressSeen

\* A check in the pause or its menu goes on with the game at an edge.
LEMMA CheckInPause ==
  ASSUME PressInv, pc \in Paused, start' \in BOOLEAN,
         Check(start', Pressed(press, start, start')),
         StartEdge(start') => pc' \notin Paused, ~StartEdge(start') => pc' \in Paused
  PROVE  PressSeen' /\ prev' \in BOOLEAN /\ paused' \in BOOLEAN
<1>1. paused
  BY DEF PressInv, PressSeen
<1>2. LET p == Pressed(press, start, start')
      IN /\ p \in IF start' THEN {"fresh", "used", "lost"} ELSE {"idle", "unseen"}
         /\ prev <=> p \notin {"idle", "fresh"}
  BY PressedIs
<1>3. /\ prev' \in BOOLEAN /\ paused' \in BOOLEAN
      /\ press' \in IF start' THEN {"fresh", "used", "lost"} ELSE {"idle", "unseen"}
      /\ prev' <=> press' \notin {"idle", "fresh"}
      /\ StartEdge(start') => (paused' <=> ~paused)
      /\ ~StartEdge(start') => (paused' <=> paused)
  BY <1>2, CheckIs
<1>4. paused' <=> pc' \in Paused
  BY <1>1, <1>3
<1> QED
  BY <1>3, <1>4 DEF PressSeen

\* The words of the player and the loop, where nothing but the place changes.
LEMMA PlayerSame ==
  ASSUME PressInv, UNCHANGED <<prev, began, player>>,
         pc' \in {"top", "update", "late", "draw", "pace", "flip"} \cup Paused, caller' \in Cart,
         (pc' \in Paused) <=> (pc \in Paused)
  PROVE  PressInv'
<1>1. /\ prev' = prev /\ start' = start /\ press' = press /\ paused' = paused /\ began' = began
  BY DEF player
<1>2. PlayerTypes'
  BY <1>1 DEF PressInv, PlayerTypes
<1>3. (prev' <=> prev) /\ (start' <=> start) /\ (paused' <=> paused)
  BY <1>1
<1>4. PressSeen'
  BY <1>1, <1>3 DEF PressInv, PressSeen
<1> QED
  BY <1>2, <1>4 DEF PressInv

\* A frame of the loop, of flip() or of the cart.
LEMMA FrameKeeps ==
  ASSUME PressInv, pc \notin Paused, Passes, press' = Pressed(press, start, start'),
         UNCHANGED <<prev, paused, began, caller>>,
         pc' \in {"top", "update", "late", "draw", "pace", "flip"}
  PROVE  PressInv'
<1>1. /\ start' \in BOOLEAN /\ prev' \in BOOLEAN /\ paused' \in BOOLEAN
      /\ press' \in IF start' THEN {"fresh", "used", "lost"} ELSE {"idle", "unseen"}
      /\ prev' <=> press' \notin {"idle", "fresh"}
      /\ paused' <=> paused
  BY FramePasses
<1>2. pc' \notin Paused /\ ~paused
  BY DEF Paused, PressInv, PressSeen
<1>3. press' \in {"idle", "fresh", "used", "lost", "unseen"}
  BY <1>1
<1> QED
  BY <1>1, <1>2, <1>3 DEF PressInv, PlayerTypes, PressSeen

\* The loop's check, and flip()'s.
LEMMA CheckKeeps ==
  ASSUME PressInv, pc \notin Paused, Check(start, press), UNCHANGED start, caller' \in Cart,
         NEW then \in {"update", "flip"}, pc' \in {"update", "flip"} \cup Paused,
         IF StartEdge(start) THEN pc' \in Paused /\ began'.then = then
         ELSE pc' \notin Paused /\ UNCHANGED began
  PROVE  PressInv'
<1>1. PressSeen' /\ prev' \in BOOLEAN /\ start' \in BOOLEAN /\ paused' \in BOOLEAN
  BY CheckNow
<1>2. press' \in {"idle", "fresh", "used", "lost", "unseen"}
  BY <1>1 DEF PressSeen
<1>3. began'.then \in {"update", "flip"}
  BY DEF PressInv, PlayerTypes
<1> QED
  BY <1>1, <1>2, <1>3 DEF PressInv, PlayerTypes

\* A frame of the pause or its menu, with the check in it.
LEMMA PausedKeeps ==
  ASSUME PressInv, pc \in Paused, start' \in BOOLEAN, caller' = caller,
         Check(start', Pressed(press, start, start')),
         IF StartEdge(start') THEN pc' = began.then /\ began' = NoPause
         ELSE UNCHANGED <<pc, began>>
  PROVE  PressInv'
<1>1. StartEdge(start') => pc' \notin Paused
  BY DEF PressInv, PlayerTypes, Paused
<1>2. PressSeen' /\ prev' \in BOOLEAN /\ paused' \in BOOLEAN
  BY <1>1, CheckInPause
<1>3. press' \in {"idle", "fresh", "used", "lost", "unseen"}
  BY <1>2 DEF PressSeen
<1>4. pc' \in {"update", "flip"} \cup Paused /\ began'.then \in {"update", "flip"}
  BY DEF PressInv, PlayerTypes, NoPause
<1> QED
  BY <1>2, <1>3, <1>4 DEF PressInv, PlayerTypes

\* An entry of the menu is chosen: the next press is told from the one that was
\* held, and the game goes on.
LEMMA MenuCloseKeeps ==
  ASSUME PressInv, pc = "menu", start' \in BOOLEAN, caller' = caller, MenuClose
  PROVE  PressInv'
<1>1. LET p == Pressed(press, start, start')
      IN /\ p \in IF start' THEN {"fresh", "used", "lost"} ELSE {"idle", "unseen"}
         /\ prev <=> p \notin {"idle", "fresh"}
  BY PressedIs
<1>2. /\ prev' = TRUE /\ paused' = FALSE
      /\ press' = IF start' THEN Checked(Pressed(press, start, start'), TRUE) ELSE "unseen"
      /\ pc' = began.then /\ began' = NoPause
  BY DEF MenuClose, Resume
<1>3. press' \in IF start' THEN {"used", "lost"} ELSE {"unseen"}
  BY <1>1, <1>2 DEF Checked
<1>4. pc' \in {"update", "flip"} /\ pc' \notin Paused /\ began'.then \in {"update", "flip"}
  BY <1>2 DEF PressInv, PlayerTypes, Paused, NoPause
<1>5. PressSeen'
  BY <1>2, <1>3, <1>4 DEF PressSeen
<1> QED
  BY <1>2, <1>3, <1>4, <1>5 DEF PressInv, PlayerTypes

\* Every step keeps the game in what the presses left it in.
LEMMA PressKeeps == PressInv /\ [Next]_vars => PressInv'
<1> SUFFICES ASSUME PressInv, [Next]_vars PROVE PressInv'
  OBVIOUS
<1> USE DEF Paused, Cart
<1>1. caller \in Cart
  BY DEF PressInv, PlayerTypes
<1>2. CASE Top
  <2>1. /\ pc = "top" /\ Check(start, press) /\ UNCHANGED <<start, caller>>
        /\ IF StartEdge(start) THEN pc' \in Paused /\ began'.then = "update"
           ELSE pc' = "update" /\ UNCHANGED began
    BY <1>2 DEF Top, EnterPause
  <2> QED
    BY <1>1, <2>1, CheckKeeps
<1>3. CASE EndUpdate
  BY <1>1, <1>3, PlayerSame DEF EndUpdate
<1>4. CASE LateDraw
  BY <1>4, FrameKeeps DEF LateDraw, WaitTick
<1>5. CASE EndDraw
  BY <1>1, <1>5, PlayerSame DEF EndDraw
<1>6. CASE Pace
  BY <1>6, FrameKeeps DEF Pace, WaitTick
<1>7. CASE Flip
  <2>1. /\ pc \in Cart /\ Check(start, press) /\ UNCHANGED start /\ caller' \in Cart
        /\ IF StartEdge(start) THEN pc' \in Paused /\ began'.then = "flip"
           ELSE pc' = "flip" /\ UNCHANGED began
    BY <1>7 DEF Flip, EnterPause
  <2> QED
    BY <2>1, CheckKeeps
<1>8. CASE FlipWait
  <2>1. pc' \in {"flip", "update", "draw"}
    BY <1>1, <1>8 DEF FlipWait
  <2> QED
    BY <1>8, <2>1, FrameKeeps DEF FlipWait, WaitTick
<1>9. CASE PauseFrame
  <2>1. /\ pc \in Paused /\ start' \in BOOLEAN /\ caller' = caller
        /\ Check(start', Pressed(press, start, start'))
        /\ IF StartEdge(start') THEN pc' = began.then /\ began' = NoPause
           ELSE UNCHANGED <<pc, began>>
    BY <1>9 DEF PauseFrame, Passes, Resume
  <2> QED
    BY <2>1, PausedKeeps
<1>10. CASE MenuFrame
  <2>1. /\ pc = "menu" /\ start' \in BOOLEAN /\ caller' = caller
    BY <1>10 DEF MenuFrame, Passes
  <2>2. CASE MenuClose
    BY <2>1, <2>2, MenuCloseKeeps
  <2>3. CASE ~MenuClose
    <3>1. /\ Check(start', Pressed(press, start, start'))
          /\ IF StartEdge(start') THEN pc' = began.then /\ began' = NoPause
             ELSE UNCHANGED <<pc, began>>
      BY <1>10, <2>3 DEF MenuFrame, Resume
    <3> QED
      BY <2>1, <3>1, PausedKeeps
  <2> QED
    BY <2>2, <2>3
<1>11. CASE Overrun
  <2>1. pc' = pc /\ pc \in Cart
    BY <1>11 DEF Overrun
  <2> QED
    BY <1>11, <2>1, FrameKeeps DEF Overrun
<1>12. CASE \E n \in Tunes : CallMusic(n)
  BY <1>1, <1>12, PlayerSame DEF CallMusic, Quiet, PressInv, PlayerTypes
<1>13. CASE \E n \in Noises, c \in Effects \cup {Off} : CallSfx(n, c)
  BY <1>1, <1>13, PlayerSame DEF CallSfx, Quiet, PressInv, PlayerTypes
<1>14. CASE \E pad \in Pads : SelectPad(pad)
  BY <1>1, <1>14, PlayerSame DEF SelectPad, Quiet, PressInv, PlayerTypes
<1>15. CASE SetMenu
  BY <1>1, <1>15, PlayerSame DEF SetMenu, PressInv, PlayerTypes
<1>16. CASE UNCHANGED vars
  BY <1>1, <1>16, PlayerSame DEF vars, PressInv, PlayerTypes
<1> QED
  BY <1>2, <1>3, <1>4, <1>5, <1>6, <1>7, <1>8, <1>9, <1>10, <1>11, <1>12, <1>13, <1>14, <1>15,
     <1>16 DEF Next

-----------------------------------------------------------------------------
(***************************************************************************)
(* The selected gamepad.                                                   *)
(***************************************************************************)
\* Every step keeps the cart's gamepad, in the port or in PICO8_PAUSE_PAD.
LEMMA PortKeeps == PortInv /\ [Next]_vars => PortInv'
<1> SUFFICES ASSUME PortInv, [Next]_vars PROVE PortInv'
  OBVIOUS
<1>1. PressInv' /\ PressInv
  BY PressKeeps DEF PortInv
<1> SUFFICES PortHeld'
  BY <1>1 DEF PortInv
<1>2. /\ port = [pad |-> port.memory, memory |-> port.memory]
      /\ chosen = IF pc \in Paused THEN began.pad ELSE port.memory
  <2>1. port.pad = port.memory
    BY DEF PortInv, PortHeld
  <2> QED
    BY <2>1 DEF PortInv, PortHeld
<1> USE DEF Paused, Cart
\* A step out of the pause that leaves the selection, or reads the devices.
<1>3. ASSUME pc \notin Paused, pc' \notin Paused, chosen' = chosen,
             PollDevices \/ Select(port.memory) \/ UNCHANGED port
      PROVE  PortHeld'
  <2>1. port' = [pad |-> port.memory, memory |-> port.memory]
    <3>1. CASE PollDevices
      <4>1. port' = [port EXCEPT !.pad = port.memory]
        <5>1. port = [pad |-> port.memory, memory |-> port.memory]
          BY <1>2
        <5>2. CASE port' = port
          BY <5>1, <5>2
        <5>3. ASSUME NEW device \in Pads, port' = ReadDevice(device)
              PROVE  port' = [port EXCEPT !.pad = port.memory]
          BY <5>1, <5>3 DEF ReadDevice
        <5> QED
          BY <3>1, <5>2, <5>3 DEF PollDevices
      <4> DEFINE kept == port.memory
      <4>2. port = [pad |-> kept, memory |-> kept] /\ port' = [port EXCEPT !.pad = kept]
        BY <1>2, <4>1
      <4> HIDE DEF kept
      <4>3. port' = [pad |-> kept, memory |-> kept]
        BY <4>2
      <4> QED
        BY <4>3 DEF kept
    <3>2. CASE Select(port.memory)
      BY <3>2 DEF Select
    <3>3. CASE UNCHANGED port
      BY <1>2, <3>3
    <3> QED
      BY <1>3, <3>1, <3>2, <3>3
  <2>2. port'.memory = port.memory /\ port'.pad = port.memory
    BY <2>1
  <2>3. port' = [pad |-> port'.memory, memory |-> port'.memory]
    BY <2>1, <2>2
  <2> QED
    BY <1>2, <1>3, <2>2, <2>3 DEF PortHeld
\* The loop's check, and flip()'s.
<1>4. ASSUME pc \notin Paused, NEW then \in {"update", "flip"}, chosen' = chosen,
             IF StartEdge(start) THEN EnterPause(then)
             ELSE pc' = then /\ Select(port.memory)
      PROVE  PortHeld'
  <2>1. CASE StartEdge(start)
    <3>1. /\ pc' \in Paused /\ began' = [frame |-> frame, pad |-> port.memory, then |-> then]
          /\ port' = [pad |-> 0, memory |-> 0]
      BY <1>4, <2>1 DEF EnterPause, Select
    <3>2. began'.pad = port.memory /\ port'.memory = 0
      BY <3>1
    <3> QED
      BY <1>2, <1>4, <3>1, <3>2 DEF PortHeld
  <2>2. CASE ~StartEdge(start)
    BY <1>3, <1>4, <2>2
  <2> QED
    BY <2>1, <2>2
\* A frame of the pause or its menu.
<1>5. ASSUME pc \in Paused, chosen' = chosen,
             \/ Resume
             \/ Select(0) /\ UNCHANGED <<pc, began>>
      PROVE  PortHeld'
  <2>1. CASE Resume
    <3>1. pc' \notin Paused /\ port' = [pad |-> began.pad, memory |-> began.pad]
      BY <1>1, <2>1 DEF Resume, Select, PressInv, PlayerTypes
    <3> QED
      BY <1>2, <1>5, <3>1 DEF PortHeld
  <2>2. CASE Select(0) /\ UNCHANGED <<pc, began>>
    <3>1. port' = [pad |-> 0, memory |-> 0] /\ pc' = pc /\ began' = began
      BY <2>2 DEF Select
    <3> QED
      BY <1>2, <1>5, <3>1 DEF PortHeld
  <2> QED
    BY <1>5, <2>1, <2>2
<1>6. ASSUME UNCHANGED <<pc, port, began, chosen>> PROVE PortHeld'
  BY <1>2, <1>6 DEF PortHeld
<1>7. CASE Top
  BY <1>4, <1>7 DEF Top, cart
<1>8. CASE EndUpdate
  BY <1>3, <1>8 DEF EndUpdate, cart
<1>9. CASE LateDraw
  BY <1>3, <1>9 DEF LateDraw, cart
<1>10. CASE EndDraw
  BY <1>3, <1>10 DEF EndDraw, cart
<1>11. CASE Pace
  BY <1>3, <1>11 DEF Pace, cart
<1>12. CASE Flip
  BY <1>4, <1>12 DEF Flip, cart
<1>13. CASE FlipWait
  <2>1. pc \notin Paused /\ pc' \notin Paused /\ UNCHANGED <<port, chosen>>
    BY <1>1, <1>13 DEF FlipWait, cart, PressInv, PlayerTypes
  <2> QED
    BY <1>3, <2>1
<1>14. CASE PauseFrame
  BY <1>5, <1>14 DEF PauseFrame, cart
<1>15. CASE MenuFrame
  BY <1>5, <1>15 DEF MenuFrame, MenuClose, cart
<1>16. CASE Overrun
  BY <1>6, <1>16 DEF Overrun, cart
<1>17. CASE \E n \in Tunes : CallMusic(n)
  BY <1>6, <1>17 DEF CallMusic, Quiet
<1>18. CASE \E n \in Noises, c \in Effects \cup {Off} : CallSfx(n, c)
  BY <1>6, <1>18 DEF CallSfx, Quiet
<1>19. CASE \E pad \in Pads : SelectPad(pad)
  <2>1. PICK pad \in Pads : /\ pc \in Cart /\ port' = [pad |-> pad, memory |-> pad]
                            /\ chosen' = pad /\ pc' = pc
    BY <1>19 DEF SelectPad, Select, Quiet
  <2> QED
    BY <2>1 DEF PortHeld
<1>20. CASE SetMenu
  BY <1>6, <1>20 DEF SetMenu
<1>21. CASE UNCHANGED vars
  BY <1>6, <1>21 DEF vars, cart
<1> QED
  BY <1>7, <1>8, <1>9, <1>10, <1>11, <1>12, <1>13, <1>14, <1>15, <1>16, <1>17, <1>18, <1>19,
     <1>20, <1>21 DEF Next

-----------------------------------------------------------------------------
(***************************************************************************)
(* Numbers.                                                                *)
(***************************************************************************)
\* A set of naturals has a least element.
LEMMA MinIn ==
  ASSUME NEW T \in SUBSET Nat, T # {}
  PROVE  Min(T) \in T
<1>1. PICK x \in T : \A y \in T : ~(<<y, x>> \in OpToRel(<, Nat))
  BY WFMin, NatLessThanWellFounded, Zenon
<1>2. \A y \in T : ~(y < x)
  BY <1>1 DEF OpToRel
<1>3. \A y \in T : y \in Nat
  OBVIOUS
<1>4. \A y \in T : x <= y
  BY <1>2, <1>3
<1> QED
  BY <1>4 DEF Min

\* The smaller of two numbers.
LEMMA MinOfTwo ==
  ASSUME NEW a \in Nat, NEW b \in Nat
  PROVE  Min({a, b}) = IF a < b THEN a ELSE b
<1>1. Min({a, b}) \in {a, b} /\ Min({a, b}) <= a /\ Min({a, b}) <= b
  <2>1. \E x \in {a, b} : \A y \in {a, b} : x <= y
    <3>1. CASE a < b
      BY <3>1
    <3>2. CASE ~(a < b)
      BY <3>2
    <3> QED
      BY <3>1, <3>2
  <2>2. Min({a, b}) \in {a, b} /\ \A y \in {a, b} : Min({a, b}) <= y
    BY <2>1, Zenon DEF Min
  <2> QED
    BY <2>2
<1> QED
  BY <1>1

\* Remainders: what is added can be added to the remainder.
LEMMA Remainder ==
  ASSUME NEW a \in Nat, NEW m \in Nat \ {0}
  PROVE  a % m \in 0..(m - 1) /\ a \div m \in Nat /\ a = m * (a \div m) + (a % m)
<1>1. a % m \in 0..(m - 1) /\ a = m * (a \div m) + (a % m) /\ a \div m \in Int
  OBVIOUS
<1> DEFINE q == a \div m
           r == a % m
           less == m * q
<1>2. r \in 0..(m - 1) /\ a = less + r /\ q \in Int
  BY <1>1
<1>3. q < 0 => less <= -m
  <2> HIDE DEF q
  <2> QED
    BY <1>2
<1> HIDE DEF less
<1>4. less \in Int
  BY <1>2 DEF less
<1> HIDE DEF q, r
<1>5. q >= 0
  BY <1>2, <1>3, <1>4
<1> QED
  BY <1>1, <1>2, <1>5 DEF q

\* A remainder is what is left over a multiple.
LEMMA RemainderIs ==
  ASSUME NEW m \in Nat \ {0}, NEW q \in Int, NEW r \in 0..(m - 1)
  PROVE  (m * q + r) % m = r
  OBVIOUS

\* A remainder may be taken before an addition or after it.
LEMMA RemainderStep ==
  ASSUME NEW a \in Nat, NEW m \in Nat \ {0}, NEW d \in Nat
  PROVE  ((a % m) + d) % m = (a + d) % m
<1> DEFINE q  == a \div m
           r  == a % m
           q2 == (r + d) \div m
           r2 == (r + d) % m
<1>1. r \in 0..(m - 1) /\ q \in Nat /\ a = m * q + r
  BY Remainder
<1>2. r2 \in 0..(m - 1) /\ q2 \in Nat /\ r + d = m * q2 + r2
  <2>1. r + d \in Nat
    BY <1>1
  <2> HIDE DEF r
  <2> QED
    BY <2>1, Remainder
<1> HIDE DEF q, r, q2, r2
<1>3. q + q2 \in Int /\ m * (q + q2) = m * q + m * q2
  BY <1>1, <1>2
<1>4. a + d = m * (q + q2) + r2
  <2> DEFINE x == m * q
             y == m * q2
             z == m * (q + q2)
  <2>1. a = x + r /\ r + d = y + r2 /\ z = x + y /\ x \in Int /\ y \in Int
    BY <1>1, <1>2, <1>3
  <2> HIDE DEF x, y, z
  <2>2. a + d = z + r2
    BY <1>1, <1>2, <2>1
  <2> QED
    BY <2>2 DEF z
<1>5. (a + d) % m = r2
  BY <1>2, <1>3, <1>4, RemainderIs
<1> QED
  BY <1>5 DEF r, r2

-----------------------------------------------------------------------------
(***************************************************************************)
(* Sounds, patterns and channels.                                          *)
(***************************************************************************)
\* A loop that is heard on from where it is comes to where it would have come.
LEMMA WrappedIs ==
  ASSUME NEW s \in DOMAIN Sounds, NEW t \in Int
  PROVE  /\ t \in Nat => Wrapped(s, t) \in Nat
         /\ t < Sounds[s].ticks => Wrapped(s, t) = t
         /\ Wrapped(s, Wrapped(s, t) + 2) = Wrapped(s, t + 2)
<1> DEFINE from  == Sounds[s].from
           ticks == Sounds[s].ticks
           m     == ticks - from
           W(x)  == IF x < ticks THEN x ELSE from + ((x - from) % m)
<1>1. ticks \in Nat \ {0} /\ from \in 0..(ticks - 1)
  BY SoundAssumption
<1>2. \A x : Wrapped(s, x) = W(x)
  BY DEF Wrapped
<1> HIDE DEF from, ticks
<1>3. m \in Nat \ {0}
  BY <1>1
<1>4. t < ticks => W(t) = t
  OBVIOUS
<1>5. (t \in Nat => W(t) \in Nat) /\ W(W(t) + 2) = W(t + 2)
  <2>1. CASE t < ticks
    BY <2>1
  <2>2. CASE ~(t < ticks)
    <3> DEFINE a == t - from
               r == a % m
    <3>1. a \in Nat /\ W(t) = from + r /\ a + 2 = (t + 2) - from
      BY <1>1, <2>2
    <3>2. r \in 0..(m - 1)
      <4> HIDE DEF m, a
      <4> QED
        BY <1>3, <3>1, Remainder
    <3>3. (r + 2) % m = (a + 2) % m
      <4> HIDE DEF m, a
      <4> QED
        BY <1>3, <3>1, RemainderStep
    <3>4. W(t + 2) = from + ((a + 2) % m)
      BY <1>1, <2>2, <3>1
    <3>5. \A x \in 0..(m - 1) : x % m = x
      <4> HIDE DEF m
      <4> QED
        BY <1>3
    <3>6. W(from + r + 2) = from + ((r + 2) % m)
      <4>1. CASE from + r + 2 < ticks
        <5>1. r + 2 \in 0..(m - 1)
          <6> HIDE DEF r
          <6> QED
            BY <1>1, <3>2, <4>1
        <5>2. (r + 2) % m = r + 2
          <6> HIDE DEF r, m
          <6> QED
            BY <3>5, <5>1
        <5> HIDE DEF r
        <5> QED
          BY <1>1, <3>2, <4>1, <5>2
      <4>2. CASE ~(from + r + 2 < ticks)
        <5>1. (from + r + 2) - from = r + 2
          <6> HIDE DEF r
          <6> QED
            BY <1>1, <3>2
        <5> HIDE DEF r
        <5> QED
          BY <4>2, <5>1
      <4> QED
        BY <4>1, <4>2
    <3>7. from + r \in Nat
      <4> HIDE DEF r
      <4> QED
        BY <1>1, <1>3, <3>2
    <3> HIDE DEF W, r, m
    <3> QED
      BY <3>1, <3>3, <3>4, <3>6, <3>7
  <2> QED
    BY <2>1, <2>2
<1> HIDE DEF W
<1> QED
  BY <1>2, <1>4, <1>5 DEF ticks

\* A pattern without a length is none.
LEMMA FramesOf ==
  ASSUME NEW p
  PROVE  /\ p8a_pattern_frames(p) \in Nat
         /\ p8a_pattern_frames(p) # 0 => p \in DOMAIN Song
<1> DEFINE played == {v \in Used(p) : ~Sounds[Song[p].voice[v]].loops}
           these  == IF played # {} THEN played ELSE Used(p)
<1>1. CASE ~Present(p)
  BY <1>1 DEF p8a_pattern_frames
<1>2. CASE Present(p)
  <2>1. p \in DOMAIN Song /\ Used(p) # {} /\ these # {} /\ these \subseteq Used(p)
    BY <1>2 DEF Present, Used
  <2>2. Used(p) \subseteq Music /\ Music \subseteq Nat
    BY SoundAssumption DEF Used, Music
  <2>3. Min(these) \in Used(p)
    <3> HIDE DEF these
    <3> QED
      BY <2>1, <2>2, MinIn
  <2>4. Song[p].voice[Min(these)] \in DOMAIN Sounds
    BY <2>1, <2>2, <2>3, SoundAssumption DEF Used, Off, Music
  <2>5. Sounds[Song[p].voice[Min(these)]].ticks \in Nat
    BY <2>4, SoundAssumption
  <2>6. p8a_pattern_frames(p) = Ceil2(Sounds[Song[p].voice[Min(these)]].ticks)
    BY <1>2 DEF p8a_pattern_frames
  <2>7. \A n \in Nat : Ceil2(n) \in Nat
    BY DEF Ceil2
  <2> HIDE DEF these
  <2> QED
    BY <2>1, <2>5, <2>6, <2>7
<1> QED
  BY <1>1, <1>2

\* A channel is its fields.
LEMMA Fields ==
  ASSUME NEW k \in Channel
  PROVE  /\ k = [state |-> k.state, sound |-> k.sound, at |-> k.at, loop |-> k.loop]
         /\ k.state \in {"stopped", "playing", "paused"} /\ k.sound \in Sound /\ k.at \in Nat
         /\ k.loop \in BOOLEAN
         /\ k.state # "stopped" => k.sound # Off
  BY DEF Channel

\* What makes a channel.
LEMMA MakeChannel ==
  ASSUME NEW state \in {"stopped", "playing", "paused"}, NEW s \in Sound, NEW at \in Nat,
         NEW loop \in BOOLEAN, state # "stopped" => s # Off
  PROVE  [state |-> state, sound |-> s, at |-> at, loop |-> loop] \in Channel
  BY DEF Channel

\* A sound stopped, paused and resumed.
LEMMA Switched ==
  ASSUME NEW k \in Channel
  PROVE  /\ StopSound(k) \in Channel /\ StopSound(k).state = "stopped"
         /\ PauseSound(k) \in Channel /\ PauseSound(k).state # "playing"
         /\ (PauseSound(k).state = "stopped") = (k.state = "stopped")
         /\ PauseSound(k).sound = k.sound /\ PauseSound(k).at = k.at
         /\ ResumeSound(k) \in Channel /\ ResumeSound(k).state # "paused"
         /\ (ResumeSound(k).state = "stopped") = (k.state = "stopped")
         /\ ResumeSound(k).sound = k.sound /\ ResumeSound(k).at = k.at
<1> DEFINE With(state, at) == [state |-> state, sound |-> k.sound, at |-> at, loop |-> k.loop]
<1>1. /\ k = With(k.state, k.at)
      /\ k.state \in {"stopped", "playing", "paused"} /\ k.sound \in Sound /\ k.at \in Nat
      /\ k.loop \in BOOLEAN
      /\ k.state # "stopped" => k.sound # Off
  BY Fields
<1>2. \A state, at : /\ With(state, at).state = state /\ With(state, at).sound = k.sound
                     /\ With(state, at).at = at
  OBVIOUS
<1>3. /\ With("stopped", 0) \in Channel
      /\ k.state # "stopped" => With("paused", k.at) \in Channel /\ With("playing", k.at) \in Channel
  BY <1>1, MakeChannel
<1>4. \A x : [k EXCEPT !.state = x] = With(x, k.at)
  BY <1>1
<1>5. StopSound(k) = With("stopped", 0)
  <2>1. StopSound(k) = [[k EXCEPT !.state = "stopped"] EXCEPT !.at = 0]
    BY <1>1 DEF StopSound
  <2>2. StopSound(k) = [With("stopped", k.at) EXCEPT !.at = 0]
    BY <1>4, <2>1
  <2> QED
    BY <2>2
<1>6. PauseSound(k) = IF k.state = "playing" THEN With("paused", k.at) ELSE k
  BY <1>4 DEF PauseSound
<1>7. ResumeSound(k) = IF k.state = "paused" THEN With("playing", k.at) ELSE k
  BY <1>4 DEF ResumeSound
<1> HIDE DEF With
<1>8. StopSound(k) \in Channel /\ StopSound(k).state = "stopped"
  BY <1>2, <1>3, <1>5
<1>9. /\ PauseSound(k) \in Channel /\ PauseSound(k).state # "playing"
      /\ (PauseSound(k).state = "stopped") = (k.state = "stopped")
      /\ PauseSound(k).sound = k.sound /\ PauseSound(k).at = k.at
  <2>1. CASE k.state = "playing"
    BY <1>2, <1>3, <1>6, <2>1
  <2>2. CASE k.state # "playing"
    BY <1>6, <2>2
  <2> QED
    BY <2>1, <2>2
<1>10. /\ ResumeSound(k) \in Channel /\ ResumeSound(k).state # "paused"
       /\ (ResumeSound(k).state = "stopped") = (k.state = "stopped")
       /\ ResumeSound(k).sound = k.sound /\ ResumeSound(k).at = k.at
  <2>1. CASE k.state = "paused"
    BY <1>2, <1>3, <1>7, <2>1
  <2>2. CASE k.state # "paused"
    BY <1>7, <2>2
  <2> QED
    BY <2>1, <2>2
<1> QED
  BY <1>8, <1>9, <1>10

\* A frame of a sound is two of its ticks, unless it ends there.
LEMMA MixIs ==
  ASSUME NEW k \in Channel
  PROVE  /\ Mix(k) \in Channel
         /\ k.state # "playing" => Mix(k) = k
         /\ k.state = "playing" =>
              \/ Mix(k).state = "stopped"
              \/ /\ Mix(k).state = "playing" /\ Mix(k).sound = k.sound
                 /\ Mix(k).at = Wrapped(k.sound, k.at + 2)
<1>1. CASE k.state # "playing"
  BY <1>1 DEF Mix
<1>2. CASE k.state = "playing" /\ ~(k.at + 2 < Sounds[k.sound].ticks \/ k.loop)
  <2>1. Mix(k) = StopSound(k)
    BY <1>2 DEF Mix
  <2> QED
    BY <1>2, <2>1, Switched
<1>3. CASE k.state = "playing" /\ (k.at + 2 < Sounds[k.sound].ticks \/ k.loop)
  <2> DEFINE at == Wrapped(k.sound, k.at + 2)
             mixed == [state |-> k.state, sound |-> k.sound, at |-> at, loop |-> k.loop]
  <2>1. /\ k = [state |-> k.state, sound |-> k.sound, at |-> k.at, loop |-> k.loop]
        /\ k.sound \in Sound /\ k.at \in Nat /\ k.loop \in BOOLEAN
        /\ k.sound # Off
    BY <1>3, Fields
  <2>2. k.sound \in DOMAIN Sounds /\ k.at + 2 \in Nat
    BY <2>1 DEF Sound
  <2>3. at \in Nat
    BY <2>2, WrappedIs
  <2>4. Mix(k) = [k EXCEPT !.at = at]
    BY <1>3 DEF Mix
  <2> HIDE DEF at
  <2>5. Mix(k) = mixed
    BY <2>1, <2>4
  <2>6. mixed \in Channel
    BY <1>3, <2>1, <2>3, MakeChannel
  <2>7. mixed.state = k.state /\ mixed.sound = k.sound /\ mixed.at = at
    OBVIOUS
  <2> HIDE DEF mixed
  <2> QED
    BY <1>3, <2>5, <2>6, <2>7 DEF at
<1> QED
  BY <1>1, <1>2, <1>3

\* A sound is played on a channel: from tick t, if the channel is not paused, and
\* it is this sound if the channel was stopped.
LEMMA PlayIs ==
  ASSUME NEW k \in Channel, NEW s \in Sound, NEW t \in Nat
  PROVE  LET played == PlayChannel(k, s, t)
         IN /\ played \in Channel /\ played.state # "paused"
            /\ s = Off => played.state = "stopped"
            /\ s # Off => played.state = "playing"
            /\ s # Off /\ k.state # "paused" /\ played.sound = s /\ t < Sounds[s].ticks => played.at = t
            /\ s # Off /\ k.state = "stopped" /\ t = 0 =>
                 played = [state |-> "playing", sound |-> s, at |-> 0, loop |-> Sounds[s].loops]
<1> DEFINE K(state, sn, at, loop) == [state |-> state, sound |-> sn, at |-> at, loop |-> loop]
<1>0. (s < 0) <=> (s = Off)
  BY SoundAssumption DEF Sound, Off
<1>1. CASE s = Off
  <2>1. PlayChannel(k, s, t) = StopSound(k)
    BY <1>0, <1>1 DEF PlayChannel
  <2> QED
    BY <1>1, <2>1, Switched
<1>2. CASE s # Off
  <2> DEFINE h == IF k.state = "stopped" THEN s ELSE k.sound
             from == IF k.state = "paused" THEN k.at ELSE 0
             loop == IF k.state = "paused" THEN k.loop ELSE Sounds[h].loops
             at == IF t = 0 THEN from ELSE Min({t, Sounds[h].ticks - 1})
  <2>1. /\ k = K(k.state, k.sound, k.at, k.loop)
        /\ k.state \in {"stopped", "playing", "paused"} /\ k.sound \in Sound /\ k.at \in Nat
        /\ k.loop \in BOOLEAN
        /\ k.state # "stopped" => k.sound # Off
    BY Fields
  <2>2. h \in DOMAIN Sounds /\ s \in DOMAIN Sounds
    BY <1>2, <2>1 DEF Sound
  <2>3. Sounds[h].ticks \in Nat \ {0} /\ Sounds[h].loops \in BOOLEAN
    BY <2>2, SoundAssumption
  <2> HIDE DEF h
  <2>4. Assign(k, s) = K(k.state, h, k.at, k.loop)
    <3>1. CASE k.state = "stopped"
      <4>1. Assign(k, s) = [K(k.state, k.sound, k.at, k.loop) EXCEPT !.sound = s]
        BY <2>1, <3>1 DEF Assign
      <4>2. h = s
        BY <3>1 DEF h
      <4> QED
        BY <4>1, <4>2
    <3>2. CASE k.state # "stopped"
      <4>1. Assign(k, s) = k /\ h = k.sound
        BY <3>2 DEF Assign, h
      <4> QED
        BY <2>1, <4>1
    <3> QED
      BY <3>1, <3>2
  <2>5. Start(Assign(k, s)) = K("playing", h, from, loop)
    <3> DEFINE j == K(k.state, h, k.at, k.loop)
    <3>1. j.state = k.state /\ j.sound = h
      OBVIOUS
    <3>2. CASE k.state = "paused"
      <4>1. Start(j) = [j EXCEPT !.state = "playing"]
        BY <3>1, <3>2 DEF Start
      <4>2. Start(j) = K("playing", h, k.at, k.loop)
        BY <4>1
      <4> QED
        BY <2>4, <3>2, <4>2
    <3>3. CASE k.state # "paused"
      <4>1. Start(j) = [[[j EXCEPT !.state = "playing"] EXCEPT !.at = 0] EXCEPT !.loop = Sounds[h].loops]
        BY <3>1, <3>3 DEF Start
      <4>2. Start(j) = K("playing", h, 0, Sounds[h].loops)
        BY <4>1
      <4> QED
        BY <2>4, <3>3, <4>2
    <3> QED
      BY <3>2, <3>3
  <2>6. from \in Nat /\ loop \in BOOLEAN
    BY <2>1, <2>3
  <2>7. t # 0 => Min({t, Sounds[h].ticks - 1}) = IF t < Sounds[h].ticks - 1 THEN t ELSE Sounds[h].ticks - 1
    <3>1. Sounds[h].ticks - 1 \in Nat
      BY <2>3
    <3> QED
      BY <3>1, MinOfTwo
  <2>8. at \in Nat
    BY <2>3, <2>6, <2>7
  <2> HIDE DEF from, loop
  <2>9. PlayChannel(k, s, t) = K("playing", h, at, loop)
    <3> DEFINE j == K("playing", h, from, loop)
    <3>1. PlayChannel(k, s, t) = IF t = 0 THEN j ELSE Seek(j, t)
      BY <1>0, <1>2, <2>5 DEF PlayChannel
    <3>2. Seek(j, t) = K("playing", h, Min({t, Sounds[h].ticks - 1}), loop)
      BY DEF Seek
    <3> QED
      BY <3>1, <3>2
  <2> HIDE DEF at
  <2>10. K("playing", h, at, loop) \in Channel
    <3>1. h # Off /\ h \in Sound
      BY <2>2, SoundAssumption DEF Sound, Off
    <3> QED
      BY <2>6, <2>8, <3>1, MakeChannel
  <2>11. K("playing", h, at, loop).state = "playing" /\ K("playing", h, at, loop).sound = h
         /\ K("playing", h, at, loop).at = at
    OBVIOUS
  <2>12. k.state # "paused" /\ h = s /\ t < Sounds[s].ticks => at = t
    <3>1. k.state # "paused" => from = 0
      BY DEF from
    <3>2. at = IF t = 0 THEN from ELSE Min({t, Sounds[h].ticks - 1})
      BY DEF at
    <3> QED
      BY <2>3, <2>7, <3>1, <3>2
  <2>13. k.state = "stopped" /\ t = 0 => h = s /\ at = 0 /\ loop = Sounds[s].loops
    BY DEF h, at, from, loop
  <2> DEFINE played == K("playing", h, at, loop)
  <2>14. k.state = "stopped" /\ t = 0 => played = K("playing", s, 0, Sounds[s].loops)
    BY <2>13
  <2> HIDE DEF played
  <2>15. PlayChannel(k, s, t) = played
    BY <2>9 DEF played
  <2>16. played \in Channel /\ played.state = "playing" /\ played.sound = h /\ played.at = at
    BY <2>10, <2>11 DEF played
  <2> QED
    BY <1>2, <2>12, <2>14, <2>15, <2>16
<1> QED
  BY <1>1, <1>2

-----------------------------------------------------------------------------
(***************************************************************************)
(* The words of the music and the effects.                                 *)
(***************************************************************************)
U(ch, pattern, end, next) == [ch |-> ch, pattern |-> pattern, end |-> end, next |-> next]

\* The words of a sound unit.
LEMMA Words ==
  ASSUME NEW s \in Unit
  PROVE  /\ s = U(s.ch, s.pattern, s.end, s.next)
         /\ s.ch \in [Channels -> Channel] /\ s.pattern \in DOMAIN Song \cup {Off} /\ s.end \in Int
         /\ s.next \in 0..(Voices - 1)
  BY DEF Unit, U

\* What makes a sound unit.
LEMMA MakeUnit ==
  ASSUME NEW ch \in [Channels -> Channel], NEW pattern \in DOMAIN Song \cup {Off}, NEW end \in Int,
         NEW next \in 0..(Voices - 1)
  PROVE  U(ch, pattern, end, next) \in Unit
  BY DEF U, Unit

\* The words of a sound unit that is made of them.
LEMMA WordsOf ==
  ASSUME NEW ch, NEW pattern, NEW end, NEW next
  PROVE  /\ U(ch, pattern, end, next).ch = ch /\ U(ch, pattern, end, next).pattern = pattern
         /\ U(ch, pattern, end, next).end = end /\ U(ch, pattern, end, next).next = next
  BY DEF U

\* New channels with the old words.
LEMMA WithChannels ==
  ASSUME NEW s \in Unit, NEW g \in [Channels -> Channel]
  PROVE  LET x == [s EXCEPT !.ch = g]
         IN /\ x \in Unit /\ x.ch = g /\ x.pattern = s.pattern /\ x.end = s.end /\ x.next = s.next
            /\ x = U(g, s.pattern, s.end, s.next)
<1>1. /\ s = U(s.ch, s.pattern, s.end, s.next)
      /\ s.pattern \in DOMAIN Song \cup {Off} /\ s.end \in Int /\ s.next \in 0..(Voices - 1)
  BY Words
<1>2. [s EXCEPT !.ch = g] = U(g, s.pattern, s.end, s.next)
  BY <1>1 DEF U
<1> QED
  BY <1>1, <1>2, WordsOf, MakeUnit

\* The voices are among the channels, and no effect is a voice.
LEMMA Apart ==
  /\ Music \subseteq Channels /\ Effects \subseteq Channels /\ Music \cap Effects = {}
  /\ Off \notin Effects /\ Effects \subseteq Nat
  /\ \A n \in 0..(Voices - 1) : Voices + n \in Effects
  BY SoundAssumption DEF Music, Effects, Channels, Off

\* A pattern has a sound for each voice.
LEMMA VoiceOf ==
  ASSUME NEW p \in DOMAIN Song, NEW v \in Music
  PROVE  Song[p].voice[v] \in Sound
  BY SoundAssumption DEF Music, Sound, Off

\* A pattern starts on every voice, as far in as it is late, and nowhere else.
LEMMA StartIs ==
  ASSUME NEW s \in Unit, NEW p \in DOMAIN Song, NEW late \in Nat, NEW e \in Int
  PROVE  LET x == [MusicStart(s, p, late) EXCEPT !.end = e]
         IN /\ x \in Unit /\ x.pattern = p /\ x.end = e
            /\ \A v \in Music : x.ch[v] = PlayChannel(s.ch[v], Song[p].voice[v], 2 * late)
            /\ \A c \in Channels \ Music : x.ch[c] = s.ch[c]
<1> DEFINE g == [c \in Channels |-> IF c \in Music THEN PlayChannel(s.ch[c], Song[p].voice[c], 2 * late)
                                    ELSE s.ch[c]]
<1>1. /\ s = U(s.ch, s.pattern, s.end, s.next) /\ s.ch \in [Channels -> Channel]
      /\ s.next \in 0..(Voices - 1)
  BY Words
<1>2. \A c \in Music : PlayChannel(s.ch[c], Song[p].voice[c], 2 * late) \in Channel
  <2> SUFFICES ASSUME NEW c \in Music
               PROVE  PlayChannel(s.ch[c], Song[p].voice[c], 2 * late) \in Channel
    OBVIOUS
  <2>1. s.ch[c] \in Channel /\ 2 * late \in Nat
    BY <1>1, Apart
  <2> QED
    BY <2>1, VoiceOf, PlayIs
<1>3. g \in [Channels -> Channel]
  BY <1>1, <1>2
<1>4. MusicStart(s, p, late) = [[s EXCEPT !.pattern = p] EXCEPT !.ch = g]
  BY <1>1 DEF MusicStart
<1>5. /\ \A v \in Music : g[v] = PlayChannel(s.ch[v], Song[p].voice[v], 2 * late)
      /\ \A c \in Channels \ Music : g[c] = s.ch[c]
  BY Apart
<1> HIDE DEF g
<1>6. MusicStart(s, p, late) = U(g, p, s.end, s.next)
  <2>1. [s EXCEPT !.pattern = p] = U(s.ch, p, s.end, s.next)
    BY <1>1 DEF U
  <2> QED
    BY <1>4, <2>1 DEF U
<1>7. [MusicStart(s, p, late) EXCEPT !.end = e] = U(g, p, e, s.next)
  BY <1>6 DEF U
<1>8. /\ U(g, p, e, s.next) \in Unit /\ U(g, p, e, s.next).ch = g
      /\ U(g, p, e, s.next).pattern = p /\ U(g, p, e, s.next).end = e
  BY <1>1, <1>3, WordsOf, MakeUnit
<1> QED
  BY <1>5, <1>7, <1>8

\* The music stops on every voice, and nowhere else.
LEMMA StopIs ==
  ASSUME NEW s \in Unit
  PROVE  /\ MusicStop(s) \in Unit /\ MusicStop(s).pattern = Off
         /\ \A v \in Music : MusicStop(s).ch[v].state = "stopped"
         /\ \A c \in Channels \ Music : MusicStop(s).ch[c] = s.ch[c]
<1> DEFINE g == [c \in Channels |-> IF c \in Music THEN StopSound(s.ch[c]) ELSE s.ch[c]]
<1>1. /\ s = U(s.ch, s.pattern, s.end, s.next) /\ s.ch \in [Channels -> Channel]
      /\ s.end \in Int /\ s.next \in 0..(Voices - 1)
  BY Words
<1>2. \A c \in Channels : StopSound(s.ch[c]) \in Channel /\ StopSound(s.ch[c]).state = "stopped"
  BY <1>1, Switched
<1>3. g \in [Channels -> Channel]
  BY <1>1, <1>2
<1>4. MusicStop(s) = [[s EXCEPT !.pattern = Off] EXCEPT !.ch = g]
  BY <1>1 DEF MusicStop
<1>5. /\ \A v \in Music : g[v].state = "stopped"
      /\ \A c \in Channels \ Music : g[c] = s.ch[c]
  BY <1>2, Apart
<1> HIDE DEF g
<1>6. MusicStop(s) = U(g, Off, s.end, s.next)
  <2>1. [s EXCEPT !.pattern = Off] = U(s.ch, Off, s.end, s.next)
    BY <1>1 DEF U
  <2> QED
    BY <1>4, <2>1 DEF U
<1>7. /\ U(g, Off, s.end, s.next) \in Unit /\ U(g, Off, s.end, s.next).ch = g
      /\ U(g, Off, s.end, s.next).pattern = Off
  BY <1>1, <1>3, WordsOf, MakeUnit
<1> QED
  BY <1>5, <1>6, <1>7

-----------------------------------------------------------------------------
(***************************************************************************)
(* What a call leaves of the words s: the music stopped, pattern p started *)
(* so many frames late, or only effects changed.                           *)
(***************************************************************************)
OthersKept(s, x) == \A c \in Channels \ Music : x.ch[c] = s.ch[c]

Stopped(s, x) ==
  /\ x \in Unit /\ x.pattern = Off /\ OthersKept(s, x)
  /\ \A v \in Music : x.ch[v].state = "stopped"

Started(s, x, p, late, e) ==
  /\ p \in DOMAIN Song /\ p8a_pattern_frames(p) > 0
  /\ x \in Unit /\ x.pattern = p /\ x.end = e /\ OthersKept(s, x)
  /\ \A v \in Music : x.ch[v] = PlayChannel(s.ch[v], Song[p].voice[v], 2 * late)

MusicKept(s, x) ==
  /\ x \in Unit /\ x.pattern = s.pattern /\ x.end = s.end
  /\ \A v \in Music : x.ch[v] = s.ch[v]
  /\ \A c \in Channels : s.ch[c].state # "paused" => x.ch[c].state # "paused"

\* The tick leaves the words, stops the music, or starts the pattern that follows
\* as many frames late as the tick comes after the last one's end.
LEMMA TickIs ==
  ASSUME NEW s \in Unit, NEW now \in Int
  PROVE  LET x == MusicTick(s, now)
         IN IF ~MusicDue(s, now) THEN x = s
            ELSE \/ Stopped(s, x)
                 \/ \E p \in DOMAIN Song : Started(s, x, p, now - s.end, s.end + p8a_pattern_frames(p))
<1>1. CASE ~MusicDue(s, now)
  BY <1>1 DEF MusicTick
<1>2. CASE MusicDue(s, now)
  <2> DEFINE n == p8a_next_pattern(s.pattern)
             x == MusicTick(s, now)
  <2>1. CASE n = Off \/ p8a_pattern_frames(n) = 0
    <3>1. x = MusicStop(s)
      BY <1>2, <2>1 DEF MusicTick
    <3>2. Stopped(s, x)
      BY <3>1, StopIs DEF Stopped, OthersKept
    <3> QED
      BY <1>2, <3>2
  <2>2. CASE ~(n = Off \/ p8a_pattern_frames(n) = 0)
    <3> DEFINE late == now - s.end
               e == s.end + p8a_pattern_frames(n)
    <3>1. x = [MusicStart(s, n, late) EXCEPT !.end = e]
      BY <1>2, <2>2 DEF MusicTick
    <3> HIDE DEF n
    <3>2. n \in DOMAIN Song /\ p8a_pattern_frames(n) \in Nat
      BY <2>2, FramesOf
    <3>3. s.end \in Int
      BY Words
    <3>4. late \in Nat /\ e \in Int /\ p8a_pattern_frames(n) > 0
      BY <1>2, <2>2, <3>2, <3>3 DEF MusicDue
    <3> HIDE DEF late, e
    <3>5. Started(s, x, n, late, e)
      BY <3>1, <3>2, <3>4, StartIs DEF Started, OthersKept
    <3> QED
      BY <1>2, <3>2, <3>5 DEF late, e
  <2> QED
    BY <2>1, <2>2
<1> QED
  BY <1>1, <1>2

\* music(n) stops the music or starts pattern n.
LEMMA PlayMusicIs ==
  ASSUME NEW s \in Unit, NEW n, NEW now \in Int
  PROVE  LET x == PlayMusic(s, n, now)
         IN Stopped(s, x) \/ Started(s, x, n, 0, now + p8a_pattern_frames(n))
<1>1. CASE n \notin DOMAIN Song \/ p8a_pattern_frames(n) = 0
  <2>1. PlayMusic(s, n, now) = MusicStop(s)
    BY <1>1 DEF PlayMusic
  <2> QED
    BY <2>1, StopIs DEF Stopped, OthersKept
<1>2. CASE ~(n \notin DOMAIN Song \/ p8a_pattern_frames(n) = 0)
  <2> DEFINE e == now + p8a_pattern_frames(n)
  <2>1. PlayMusic(s, n, now) = [MusicStart(s, n, 0) EXCEPT !.end = e]
    BY <1>2 DEF PlayMusic
  <2>2. p8a_pattern_frames(n) > 0 /\ e \in Int
    BY <1>2, FramesOf
  <2> HIDE DEF e
  <2>3. Started(s, PlayMusic(s, n, now), n, 0, e)
    BY <1>2, <2>1, <2>2, StartIs DEF Started, OthersKept
  <2> QED
    BY <2>3 DEF e
<1> QED
  BY <1>1, <1>2

\* A sound on some of the effects' channels.
LEMMA OnIs ==
  ASSUME NEW s \in Unit, NEW chs \in SUBSET Effects, NEW n \in Sound
  PROVE  LET x == On(s, chs, n)
         IN /\ x \in Unit /\ MusicKept(s, x) /\ x.next = s.next
            /\ \A c \in chs : x.ch[c] = PlayChannel(s.ch[c], n, 0)
            /\ \A c \in Channels \ chs : x.ch[c] = s.ch[c]
<1> DEFINE g == [c \in Channels |-> IF c \in chs THEN PlayChannel(s.ch[c], n, 0) ELSE s.ch[c]]
<1>1. s.ch \in [Channels -> Channel]
  BY Words
<1>2. \A c \in Channels : PlayChannel(s.ch[c], n, 0) \in Channel /\ PlayChannel(s.ch[c], n, 0).state # "paused"
  BY <1>1, PlayIs
<1>3. g \in [Channels -> Channel]
  BY <1>1, <1>2
<1>4. On(s, chs, n) = [s EXCEPT !.ch = g]
  BY DEF On
<1>5. /\ \A c \in chs : g[c] = PlayChannel(s.ch[c], n, 0)
      /\ \A c \in Channels \ chs : g[c] = s.ch[c]
      /\ \A v \in Music : g[v] = s.ch[v]
      /\ \A c \in Channels : s.ch[c].state # "paused" => g[c].state # "paused"
  BY <1>2, Apart
<1> HIDE DEF g
<1>6. LET x == On(s, chs, n)
      IN x \in Unit /\ x.ch = g /\ x.pattern = s.pattern /\ x.end = s.end /\ x.next = s.next
  BY <1>3, <1>4, WithChannels
<1> QED
  BY <1>5, <1>6 DEF MusicKept

\* sfx() leaves the music, and pauses nothing.
LEMMA EffectIs ==
  ASSUME NEW s \in Unit, NEW n, NEW c \in Effects \cup {Off}
  PROVE  MusicKept(s, PlayEffect(s, n, c))
<1> DEFINE chosenOnes == IF c = Off THEN Effects ELSE {c}
           idle == {e \in Effects : s.ch[e].state # "playing"}
<1>1. MusicKept(s, s)
  BY DEF MusicKept
<1>2. c # Off => c \in Effects
  OBVIOUS
<1>3. chosenOnes \in SUBSET Effects /\ Off \in Sound
  BY DEF Sound
<1>4. CASE n = -1
  <2>1. n # -2 /\ n \notin DOMAIN Sounds
    BY <1>4, SoundAssumption
  <2>2. PlayEffect(s, n, c) = On(s, chosenOnes, Off)
    BY <1>4, <2>1 DEF PlayEffect
  <2> HIDE DEF chosenOnes
  <2> QED
    BY <1>3, <2>2, OnIs
<1>5. CASE n = -2
  <2>0. n # -1 /\ n \notin DOMAIN Sounds
    BY <1>5, SoundAssumption
  <2>1. CASE c = Off
    <3>1. PlayEffect(s, n, c) = s
      BY <1>5, <2>0, <2>1 DEF PlayEffect
    <3> QED
      BY <1>1, <3>1
  <2>2. CASE c # Off
    <3> DEFINE k == s.ch[c]
               kept == [state |-> k.state, sound |-> k.sound, at |-> k.at, loop |-> FALSE]
               g == [s.ch EXCEPT ![c] = kept]
    <3>1. s.ch \in [Channels -> Channel] /\ c \in Channels /\ c \notin Music
      BY <1>2, <2>2, Words, Apart
    <3>2. k \in Channel
      BY <3>1
    <3> HIDE DEF k
    <3>3. [k EXCEPT !.loop = FALSE] = kept
      <4>1. k = [state |-> k.state, sound |-> k.sound, at |-> k.at, loop |-> k.loop]
        BY <3>2, Fields
      <4>2. \A x : [k EXCEPT !.loop = x]
                     = [state |-> k.state, sound |-> k.sound, at |-> k.at, loop |-> x]
        BY <4>1
      <4> QED
        BY <4>2, Zenon
    <3>4. kept \in Channel /\ kept.state = k.state
      BY <3>2, Fields, MakeChannel
    <3> HIDE DEF kept
    <3>5. PlayEffect(s, n, c) = [s EXCEPT !.ch[c].loop = FALSE]
      BY <1>5, <2>0, <2>2 DEF PlayEffect
    <3>6. [s EXCEPT !.ch[c].loop = FALSE] = [s EXCEPT !.ch = [s.ch EXCEPT ![c] = [s.ch[c] EXCEPT !.loop = FALSE]]]
      BY Words DEF U
    <3>7. [s EXCEPT !.ch = [s.ch EXCEPT ![c] = [s.ch[c] EXCEPT !.loop = FALSE]]] = [s EXCEPT !.ch = g]
      BY <3>3 DEF k
    <3>8. g \in [Channels -> Channel]
      BY <3>1, <3>4
    <3>9. g[c] = kept /\ \A d \in Channels : d # c => g[d] = s.ch[d]
      BY <3>1
    <3> HIDE DEF g
    <3>10. PlayEffect(s, n, c) = [s EXCEPT !.ch = g]
      BY <3>5, <3>6, <3>7
    <3>11. LET x == PlayEffect(s, n, c)
           IN x \in Unit /\ x.ch = g /\ x.pattern = s.pattern /\ x.end = s.end
      BY <3>8, <3>10, WithChannels
    <3>12. \A d \in Channels : s.ch[d].state # "paused" => g[d].state # "paused"
      BY <3>4, <3>9 DEF k
    <3>13. \A v \in Music : g[v] = s.ch[v]
      BY <3>1, <3>9, Apart
    <3> QED
      BY <3>11, <3>12, <3>13 DEF MusicKept
  <2> QED
    BY <2>1, <2>2
<1>6. CASE n \in DOMAIN Sounds
  <2>1. n # -1 /\ n # -2 /\ n \in Sound
    BY <1>6, SoundAssumption DEF Sound
  <2>2. CASE c # Off
    <3>1. PlayEffect(s, n, c) = On(s, chosenOnes, n)
      BY <1>6, <2>1, <2>2 DEF PlayEffect
    <3> HIDE DEF chosenOnes
    <3> QED
      BY <1>3, <2>1, <3>1, OnIs
  <2>3. CASE c = Off /\ idle # {}
    <3>1. PlayEffect(s, n, c) = On(s, {Min(idle)}, n)
      BY <1>6, <2>1, <2>3 DEF PlayEffect
    <3>2. idle \in SUBSET Effects /\ idle \in SUBSET Nat
      BY Apart
    <3> HIDE DEF idle
    <3>3. {Min(idle)} \in SUBSET Effects
      BY <2>3, <3>2, MinIn
    <3> QED
      BY <2>1, <3>1, <3>3, OnIs
  <2>4. CASE c = Off /\ idle = {}
    <3> DEFINE x == On(s, {Voices + s.next}, n)
               w == (s.next + 1) % Voices
    <3>1. PlayEffect(s, n, c) = [x EXCEPT !.next = w]
      BY <1>6, <2>1, <2>4 DEF PlayEffect
    <3>2. s.next \in 0..(Voices - 1) /\ {Voices + s.next} \in SUBSET Effects
      BY Words, Apart
    <3>3. w \in 0..(Voices - 1)
      <4>1. s.next + 1 \in Nat /\ Voices \in Nat \ {0}
        BY <3>2, SoundAssumption
      <4> QED
        BY <4>1, Remainder
    <3>4. x \in Unit /\ MusicKept(s, x)
      BY <2>1, <3>2, OnIs
    <3> HIDE DEF x, w
    <3>5. /\ x = U(x.ch, x.pattern, x.end, x.next)
          /\ x.ch \in [Channels -> Channel] /\ x.pattern \in DOMAIN Song \cup {Off} /\ x.end \in Int
      BY <3>4, Words
    <3>6. [x EXCEPT !.next = w] = U(x.ch, x.pattern, x.end, w)
      BY <3>5 DEF U
    <3>7. U(x.ch, x.pattern, x.end, w) \in Unit
      BY <3>3, <3>5, MakeUnit
    <3>8. LET y == U(x.ch, x.pattern, x.end, w)
          IN y.ch = x.ch /\ y.pattern = x.pattern /\ y.end = x.end
      BY WordsOf
    <3> QED
      BY <3>1, <3>4, <3>6, <3>7, <3>8 DEF MusicKept
  <2> QED
    BY <2>2, <2>3, <2>4
<1>7. CASE n # -1 /\ n # -2 /\ n \notin DOMAIN Sounds
  <2>1. PlayEffect(s, n, c) = s
    BY <1>7 DEF PlayEffect
  <2> QED
    BY <1>1, <2>1
<1> QED
  BY <1>4, <1>5, <1>6, <1>7

\* All channels at once: a frame is mixed, the sound is paused, and goes on.
MixAll(s) == [s EXCEPT !.ch = [c \in Channels |-> Mix(s.ch[c])]]

\* A frame, a pause and its end go through all channels.
LEMMA AllIs ==
  ASSUME NEW s \in Unit
  PROVE  /\ LET x == MixAll(s)
            IN /\ x \in Unit /\ x.pattern = s.pattern /\ x.end = s.end
               /\ \A c \in Channels : x.ch[c] = Mix(s.ch[c])
         /\ LET x == PauseAll(s)
            IN /\ x \in Unit /\ x.pattern = s.pattern /\ x.end = s.end
               /\ \A c \in Channels : x.ch[c] = PauseSound(s.ch[c])
         /\ ResumeAll(s).end = s.end
         /\ \A e \in Int :
              LET x == [ResumeAll(s) EXCEPT !.end = e]
              IN /\ x \in Unit /\ x.pattern = s.pattern /\ x.end = e
                 /\ \A c \in Channels : x.ch[c] = ResumeSound(s.ch[c])
<1> DEFINE m == [c \in Channels |-> Mix(s.ch[c])]
           p == [c \in Channels |-> PauseSound(s.ch[c])]
           r == [c \in Channels |-> ResumeSound(s.ch[c])]
<1>1. \A c \in Channels : s.ch[c] \in Channel
  BY Words
<1>2. /\ m \in [Channels -> Channel] /\ p \in [Channels -> Channel] /\ r \in [Channels -> Channel]
  BY <1>1, MixIs, Switched
<1>3. MixAll(s) = [s EXCEPT !.ch = m] /\ PauseAll(s) = [s EXCEPT !.ch = p] /\ ResumeAll(s) = [s EXCEPT !.ch = r]
  BY DEF MixAll, PauseAll, ResumeAll
<1>4. /\ \A c \in Channels : m[c] = Mix(s.ch[c])
      /\ \A c \in Channels : p[c] = PauseSound(s.ch[c])
      /\ \A c \in Channels : r[c] = ResumeSound(s.ch[c])
  OBVIOUS
<1> HIDE DEF m, p, r
<1>5. LET x == MixAll(s)
      IN x \in Unit /\ x.pattern = s.pattern /\ x.end = s.end /\ x.ch = m
  BY <1>2, <1>3, WithChannels
<1>6. LET x == PauseAll(s)
      IN x \in Unit /\ x.pattern = s.pattern /\ x.end = s.end /\ x.ch = p
  BY <1>2, <1>3, WithChannels
<1>7. ASSUME NEW e \in Int
      PROVE  LET x == [ResumeAll(s) EXCEPT !.end = e]
             IN x \in Unit /\ x.pattern = s.pattern /\ x.end = e /\ x.ch = r
  <2>1. ResumeAll(s) = U(r, s.pattern, s.end, s.next)
    BY <1>2, <1>3, WithChannels
  <2>2. [ResumeAll(s) EXCEPT !.end = e] = U(r, s.pattern, e, s.next)
    BY <2>1 DEF U
  <2>3. s.pattern \in DOMAIN Song \cup {Off} /\ s.next \in 0..(Voices - 1)
    BY Words
  <2>4. U(r, s.pattern, e, s.next) \in Unit
    BY <1>2, <2>3, MakeUnit
  <2> DEFINE y == U(r, s.pattern, e, s.next)
  <2>5. y.ch = r /\ y.pattern = s.pattern /\ y.end = e
    BY WordsOf
  <2> HIDE DEF y
  <2>6. [ResumeAll(s) EXCEPT !.end = e] = y /\ y \in Unit
    BY <2>2, <2>4 DEF y
  <2> QED
    BY <2>5, <2>6
<1>8. ResumeAll(s).end = s.end
  BY <1>2, <1>3, WithChannels
<1> QED
  BY <1>4, <1>5, <1>6, <1>7, <1>8

-----------------------------------------------------------------------------
(***************************************************************************)
(* The song: words u, heard as g says, at frame now.                       *)
(***************************************************************************)
SongRecord == [heard : Nat, due : Nat, late : Nat, menu : BOOLEAN]

VoicesAt(u, g) ==
  \A v \in Music :
    LET k == u.ch[v]  s == Song[u.pattern].voice[v]
        since == g.heard - (g.due - p8a_pattern_frames(u.pattern))
    IN k.state # "stopped" /\ k.sound = s /\ 2 * g.late < Sounds[s].ticks => k.at = Wrapped(s, 2 * since)

Heard(u, g, now) ==
  /\ u \in Unit /\ g \in SongRecord
  /\ u.pattern # Off =>
       /\ g.due > 0
       /\ ~g.menu => u.end - now = g.due - g.heard /\ VoicesAt(u, g)

Free(u) == \A c \in Channels : u.ch[c].state # "paused"

\* Heard is the song's part of the invariant.
LEMMA HeardIs == SongTypes /\ InTime /\ VoicesInTime <=>
                 frame \in Nat /\ began.frame \in Nat /\ Heard(sound, song, Now)
  BY DEF SongTypes, InTime, VoicesInTime, Heard, SongRecord, VoicesAt

\* The record of the song, n frames later.
Later(g, n) == [g EXCEPT !.heard = @ + n]

\* Frames heard are added to the song.
LEMMA MoreHeard ==
  ASSUME NEW g \in SongRecord, NEW n \in Nat
  PROVE  LET h == Later(g, n)
         IN /\ h \in SongRecord /\ h.heard = g.heard + n /\ h.due = g.due /\ h.late = g.late
            /\ h.menu = g.menu
<1>1. /\ g = [heard |-> g.heard, due |-> g.due, late |-> g.late, menu |-> g.menu]
      /\ g.heard \in Nat /\ g.due \in Nat /\ g.late \in Nat /\ g.menu \in BOOLEAN
  BY DEF SongRecord
<1> DEFINE more == g.heard + n
<1>2. [g EXCEPT !.heard = more] = [heard |-> more, due |-> g.due, late |-> g.late, menu |-> g.menu]
  BY <1>1
<1>3. more \in Nat
  BY <1>1
<1> HIDE DEF more
<1>4. [heard |-> more, due |-> g.due, late |-> g.late, menu |-> g.menu] \in SongRecord
  BY <1>1, <1>3 DEF SongRecord
<1> QED
  BY <1>2, <1>4 DEF more, Later

\* A frame out of the pause: each voice that still plays has gone on by two ticks.
LEMMA FrameHeard ==
  ASSUME NEW u, NEW g, NEW now \in Int, Heard(u, g, now), Free(u)
  PROVE  Heard(MixAll(u), Later(g, 1), now + 1) /\ Free(MixAll(u))
<1> DEFINE x == MixAll(u)
           h == Later(g, 1)
<1>1. u \in Unit /\ g \in SongRecord
  BY DEF Heard
<1>2. /\ x \in Unit /\ x.pattern = u.pattern /\ x.end = u.end
      /\ \A c \in Channels : x.ch[c] = Mix(u.ch[c])
  BY <1>1, AllIs
<1>3. /\ h \in SongRecord /\ h.heard = g.heard + 1 /\ h.due = g.due /\ h.late = g.late
      /\ h.menu = g.menu
  BY <1>1, MoreHeard
<1> HIDE DEF x, h
<1>4. g.heard \in Nat /\ g.due \in Nat /\ g.late \in Nat /\ u.end \in Int
  BY <1>1, Words DEF SongRecord
<1>5. \A c \in Channels : u.ch[c] \in Channel
  BY <1>1, Words
<1>6. Free(x)
  BY <1>2, <1>5, MixIs DEF Free
<1>7. ASSUME u.pattern # Off, VoicesAt(u, g) PROVE VoicesAt(x, h)
  <2> SUFFICES ASSUME NEW v \in Music,
                      x.ch[v].state # "stopped", x.ch[v].sound = Song[x.pattern].voice[v],
                      2 * h.late < Sounds[Song[x.pattern].voice[v]].ticks
               PROVE  x.ch[v].at = Wrapped(Song[x.pattern].voice[v],
                                           2 * (h.heard - (h.due - p8a_pattern_frames(x.pattern))))
    BY DEF VoicesAt
  <2> DEFINE s == Song[u.pattern].voice[v]
             since == g.heard - (g.due - p8a_pattern_frames(u.pattern))
             k == u.ch[v]
  <2>1. v \in Channels /\ k \in Channel /\ x.ch[v] = Mix(k)
    BY <1>2, <1>5, Apart
  <2>2. since \in Int
    BY <1>4, FramesOf
  <2>3. h.heard - (h.due - p8a_pattern_frames(x.pattern)) = since + 1
    BY <1>2, <1>3, <1>4, FramesOf
  <2>4. k.state # "paused"
    BY <2>1 DEF Free
  <2>5. k.state = "playing" /\ Mix(k).sound = k.sound /\ Mix(k).at = Wrapped(k.sound, k.at + 2)
    BY <2>1, <2>4, MixIs, Fields
  <2>6. k.sound = s
    BY <1>2, <2>1, <2>5
  <2>7. s \in DOMAIN Sounds
    BY <2>1, <2>5, <2>6, Fields DEF Sound
  <2>8. k.at = Wrapped(s, 2 * since)
    BY <1>2, <1>3, <1>7, <2>5, <2>6 DEF VoicesAt
  <2>9. Wrapped(s, Wrapped(s, 2 * since) + 2) = Wrapped(s, 2 * since + 2)
    <3> DEFINE t == 2 * since
    <3>1. t \in Int
      BY <2>2
    <3> HIDE DEF t
    <3> QED
      BY <2>7, <3>1, WrappedIs DEF t
  <2>10. 2 * (since + 1) = 2 * since + 2
    BY <2>2
  <2> HIDE DEF s, since, k
  <2>11. x.ch[v].at = Wrapped(s, 2 * (since + 1))
    BY <2>1, <2>5, <2>6, <2>8, <2>9, <2>10
  <2>12. Song[x.pattern].voice[v] = s
    BY <1>2 DEF s
  <2> QED
    BY <2>3, <2>11, <2>12
<1>8. x.pattern # Off /\ ~h.menu => x.end - (now + 1) = h.due - h.heard /\ VoicesAt(x, h)
  BY <1>2, <1>3, <1>4, <1>7 DEF Heard
<1>9. x.pattern # Off => h.due > 0
  BY <1>2, <1>3 DEF Heard
<1> QED
  BY <1>2, <1>3, <1>6, <1>8, <1>9 DEF Heard, x, h

\* The music stopped: there is no song.
LEMMA StopHeard ==
  ASSUME NEW s \in Unit, NEW x, Stopped(s, x), NEW now
  PROVE  /\ Heard(x, NoSong, now) /\ x.pattern = Off
         /\ Free(s) => Free(x)
<1>1. NoSong \in SongRecord
  BY DEF NoSong, SongRecord
<1>2. Free(s) => Free(x)
  BY DEF Stopped, OthersKept, Free
<1> QED
  BY <1>1, <1>2 DEF Stopped, Heard

\* A pattern started: its voices are as far in it as it is late.
LEMMA StartHeard ==
  ASSUME NEW s \in Unit, NEW x, NEW p, NEW late \in Nat, NEW e \in Int, Started(s, x, p, late, e),
         NEW h \in SongRecord, h.late = late, h.due > 0, NEW now \in Int,
         ~h.menu => /\ Free(s) /\ e - now = h.due - h.heard
                    /\ h.heard - (h.due - p8a_pattern_frames(p)) = late
  PROVE  /\ Heard(x, h, now)
         /\ Free(s) => Free(x)
<1>1. /\ p \in DOMAIN Song /\ x \in Unit /\ x.pattern = p /\ x.end = e
      /\ \A c \in Channels \ Music : x.ch[c] = s.ch[c]
      /\ \A v \in Music : x.ch[v] = PlayChannel(s.ch[v], Song[p].voice[v], 2 * late)
  BY DEF Started, OthersKept
<1>2. ASSUME NEW v \in Music
      PROVE  /\ x.ch[v].state # "paused"
             /\ Song[p].voice[v] = Off => x.ch[v].state = "stopped"
             /\ /\ Song[p].voice[v] # Off /\ s.ch[v].state # "paused"
                /\ x.ch[v].sound = Song[p].voice[v] /\ 2 * late < Sounds[Song[p].voice[v]].ticks
                => x.ch[v].at = 2 * late
  <2> DEFINE k == s.ch[v]
             n == Song[p].voice[v]
             at == 2 * late
  <2>1. k \in Channel /\ n \in Sound /\ at \in Nat /\ x.ch[v] = PlayChannel(k, n, at)
    BY <1>1, Words, Apart, VoiceOf
  <2> HIDE DEF k, n, at
  <2>2. /\ x.ch[v].state # "paused"
        /\ n = Off => x.ch[v].state = "stopped"
        /\ n # Off /\ k.state # "paused" /\ x.ch[v].sound = n /\ at < Sounds[n].ticks => x.ch[v].at = at
    BY <2>1, PlayIs
  <2> QED
    BY <2>2 DEF k, n, at
<1>3. Free(s) => Free(x)
  BY <1>1, <1>2 DEF Free
<1>4. ASSUME ~h.menu PROVE VoicesAt(x, h)
  <2> SUFFICES ASSUME NEW v \in Music,
                      x.ch[v].state # "stopped", x.ch[v].sound = Song[x.pattern].voice[v],
                      2 * h.late < Sounds[Song[x.pattern].voice[v]].ticks
               PROVE  x.ch[v].at = Wrapped(Song[x.pattern].voice[v],
                                           2 * (h.heard - (h.due - p8a_pattern_frames(x.pattern))))
    BY DEF VoicesAt
  <2> DEFINE n == Song[p].voice[v]
             at == 2 * late
  <2>1. Song[x.pattern].voice[v] = n /\ h.heard - (h.due - p8a_pattern_frames(x.pattern)) = late
    BY <1>1, <1>4
  <2>2. n # Off
    BY <1>2, <2>1
  <2>3. n \in DOMAIN Sounds
    BY <1>1, <2>2, VoiceOf DEF Sound
  <2>4. at < Sounds[n].ticks /\ at \in Nat
    BY <2>1
  <2>5. s.ch[v].state # "paused"
    BY <1>4, Apart DEF Free
  <2>6. x.ch[v].at = at
    BY <1>2, <2>1, <2>2, <2>4, <2>5
  <2> HIDE DEF n, at
  <2>7. Wrapped(n, at) = at
    BY <2>3, <2>4, WrappedIs
  <2> QED
    BY <2>1, <2>6, <2>7 DEF at
<1>5. x.pattern # Off /\ ~h.menu => x.end - now = h.due - h.heard /\ VoicesAt(x, h)
  BY <1>1, <1>4
<1> QED
  BY <1>1, <1>3, <1>5 DEF Heard

\* The music tick: the song goes on as it was heard, and if a pattern is due after
\* it, the pattern before was as late as this one is long.
LEMMA TickKeeps ==
  ASSUME NEW s, NEW now \in Int, NEW more \in Nat, song \in SongRecord,
         Heard(s, Later(song, more), now), Free(s), Tick(s, now, more)
  PROVE  /\ Heard(sound', song', now) /\ Free(sound')
         /\ MusicDue(sound', now) => song'.late >= p8a_pattern_frames(sound'.pattern)
<1> DEFINE h == Later(song, more)
<1>1. /\ h \in SongRecord /\ h.heard = song.heard + more /\ h.due = song.due /\ h.late = song.late
      /\ h.menu = song.menu
  BY MoreHeard
<1>2. s \in Unit
  BY DEF Heard
<1>3. /\ sound' = MusicTick(s, now)
      /\ song' = IF sound'.pattern = Off THEN NoSong
                 ELSE IF MusicDue(s, now)
                 THEN [song EXCEPT !.heard = @ + more, !.due = @ + p8a_pattern_frames(sound'.pattern),
                                   !.late = now - s.end]
                 ELSE h
  BY DEF Tick, Later
<1>4. CASE ~MusicDue(s, now)
  <2>1. sound' = s
    BY <1>2, <1>3, <1>4, TickIs
  <2>2. song' = IF s.pattern = Off THEN NoSong ELSE h
    BY <1>3, <1>4, <2>1
  <2>3. Heard(s, h, now)
    OBVIOUS
  <2> HIDE DEF h
  <2>4. CASE s.pattern = Off
    <3>1. Heard(s, NoSong, now)
      BY <1>2, <2>4 DEF Heard, NoSong, SongRecord
    <3> QED
      BY <1>4, <2>1, <2>2, <2>4, <3>1
  <2>5. CASE s.pattern # Off
    BY <1>4, <2>1, <2>2, <2>3, <2>5
  <2> QED
    BY <2>4, <2>5
<1>5. CASE MusicDue(s, now)
  <2>1. CASE Stopped(s, sound')
    <3>1. sound'.pattern = Off /\ Heard(sound', NoSong, now) /\ Free(sound')
      BY <1>2, <2>1, StopHeard
    <3> QED
      BY <1>3, <3>1 DEF MusicDue
  <2>2. CASE ~Stopped(s, sound')
    <3> DEFINE late == now - s.end
    <3>1. PICK p \in DOMAIN Song : Started(s, sound', p, late, s.end + p8a_pattern_frames(p))
      BY <1>2, <1>3, <1>5, <2>2, TickIs
    <3> DEFINE f == p8a_pattern_frames(p)
               e == s.end + f
    <3>2. sound'.pattern = p /\ sound'.end = e /\ p # Off /\ f \in Nat /\ f > 0
      BY <3>1, FramesOf, SoundAssumption DEF Started, Off
    <3>3. s.end \in Int /\ late \in Nat /\ e \in Int
      BY <1>2, <1>5, <3>2, Words DEF MusicDue
    <3>4. /\ song = [heard |-> song.heard, due |-> song.due, late |-> song.late, menu |-> song.menu]
          /\ song.heard \in Nat /\ song.due \in Nat /\ song.menu \in BOOLEAN
      BY DEF SongRecord
    <3> DEFINE heard == song.heard + more
               due == song.due + f
               r == [heard |-> heard, due |-> due, late |-> late, menu |-> song.menu]
    <3>5. song' = [song EXCEPT !.heard = heard, !.due = due, !.late = late]
      BY <1>3, <1>5, <3>2
    <3>6. heard \in Nat /\ due \in Nat /\ due > 0
      BY <3>2, <3>4
    <3> HIDE DEF heard, due, late
    <3>7. song' = r
      BY <3>4, <3>5
    <3>8. r \in SongRecord /\ r.heard = heard /\ r.due = due /\ r.late = late
      BY <3>3, <3>4, <3>6 DEF SongRecord
    <3>9. r.menu = song.menu
      BY Zenon
    <3>10. ~song.menu => s.end - now = song.due - (song.heard + more)
      BY <1>1, <1>5 DEF Heard, MusicDue
    <3> HIDE DEF r, e
    <3>11. ~r.menu => Free(s) /\ e - now = r.due - r.heard /\ r.heard - (r.due - f) = late
      BY <3>2, <3>3, <3>4, <3>8, <3>9, <3>10 DEF heard, due, late, e
    <3>12. Started(s, sound', p, late, e)
      BY <3>1 DEF e, late
    <3> HIDE DEF f
    <3>13. /\ Heard(sound', r, now)
           /\ Free(s) => Free(sound')
      BY <1>2, <3>3, <3>6, <3>8, <3>11, <3>12, StartHeard DEF f
    <3>14. MusicDue(sound', now) => late >= f
      BY <3>2, <3>3 DEF MusicDue, e, late
    <3> QED
      BY <3>2, <3>7, <3>8, <3>13, <3>14 DEF f
  <2> QED
    BY <2>1, <2>2
<1> QED
  BY <1>4, <1>5

\* In a pause: no voice plays, unless a callback of the menu called music().
Quieted(u, g) == u.pattern # Off /\ ~g.menu => \A v \in Music : u.ch[v].state # "playing"

\* Voices that are where they were.
LEMMA SameHeard ==
  ASSUME NEW u, NEW g, NEW now, NEW then, NEW x \in Unit, Heard(u, g, now), x.pattern = u.pattern,
         x.pattern # Off /\ ~g.menu => /\ x.end - then = u.end - now
                                       /\ \A v \in Music : /\ x.ch[v].state # "stopped" => u.ch[v].state # "stopped"
                                                           /\ x.ch[v].sound = u.ch[v].sound
                                                           /\ x.ch[v].at = u.ch[v].at
  PROVE  Heard(x, g, then)
  BY DEF Heard, VoicesAt

\* The pause begins: the channels are paused where they are.
LEMMA EnterHeard ==
  ASSUME NEW u, NEW g, NEW now, Heard(u, g, now)
  PROVE  Heard(PauseAll(u), g, now) /\ Quieted(PauseAll(u), g)
<1> DEFINE x == PauseAll(u)
<1>1. /\ x \in Unit /\ x.pattern = u.pattern /\ x.end = u.end
      /\ \A c \in Channels : x.ch[c] = PauseSound(u.ch[c])
  BY AllIs DEF Heard
<1>2. \A c \in Channels : u.ch[c] \in Channel
  BY Words DEF Heard
<1> HIDE DEF x
<1>3. \A v \in Music : /\ x.ch[v].state # "playing"
                       /\ x.ch[v].state # "stopped" => u.ch[v].state # "stopped"
                       /\ x.ch[v].sound = u.ch[v].sound /\ x.ch[v].at = u.ch[v].at
  BY <1>1, <1>2, Switched, Apart
<1>4. Heard(x, g, now)
  BY <1>1, <1>3, SameHeard
<1> QED
  BY <1>3, <1>4 DEF Quieted, x

\* A frame of the pause: the voices stay where they are.
LEMMA PauseHeard ==
  ASSUME NEW u, NEW g, NEW now, Heard(u, g, now), Quieted(u, g)
  PROVE  Heard(MixAll(u), g, now) /\ Quieted(MixAll(u), g)
<1> DEFINE x == MixAll(u)
<1>1. /\ x \in Unit /\ x.pattern = u.pattern /\ x.end = u.end
      /\ \A c \in Channels : x.ch[c] = Mix(u.ch[c])
  BY AllIs DEF Heard
<1>2. \A c \in Channels : u.ch[c] \in Channel
  BY Words DEF Heard
<1> HIDE DEF x
<1>3. x.pattern # Off /\ ~g.menu => \A v \in Music : x.ch[v] = u.ch[v]
  BY <1>1, <1>2, MixIs, Apart DEF Quieted
<1>4. Heard(x, g, now)
  BY <1>1, <1>3, SameHeard
<1> QED
  BY <1>1, <1>3, <1>4 DEF Quieted, x

\* The pause ends: the sound goes on, and the end is as far from now as it was.
LEMMA ResumedHeard ==
  ASSUME NEW u, NEW g, Heard(u, g, began.frame), began.frame \in Int, NEW now \in Int
  PROVE  Heard(Resumed(u, now), g, now) /\ Free(Resumed(u, now))
<1> DEFINE e == u.end + (now - began.frame)
           x == [ResumeAll(u) EXCEPT !.end = e]
<1>1. u \in Unit
  BY DEF Heard
<1>2. u.end \in Int /\ \A c \in Channels : u.ch[c] \in Channel
  BY <1>1, Words
<1>3. e \in Int /\ e - now = u.end - began.frame
  BY <1>2
<1>4. Resumed(u, now) = x
  BY <1>1, AllIs DEF Resumed
<1> HIDE DEF e
<1>5. /\ x \in Unit /\ x.pattern = u.pattern /\ x.end = e
      /\ \A c \in Channels : x.ch[c] = ResumeSound(u.ch[c])
  BY <1>1, <1>3, AllIs
<1> HIDE DEF x
<1>6. \A c \in Channels : /\ x.ch[c].state # "paused"
                          /\ x.ch[c].state # "stopped" => u.ch[c].state # "stopped"
                          /\ x.ch[c].sound = u.ch[c].sound /\ x.ch[c].at = u.ch[c].at
  BY <1>2, <1>5, Switched
<1>7. Heard(x, g, now)
  BY <1>3, <1>5, <1>6, SameHeard, Apart
<1> QED
  BY <1>4, <1>6, <1>7 DEF Free

\* An effect leaves the song where it is.
LEMMA EffectLeaves ==
  ASSUME NEW u, NEW g, NEW now, NEW x, Heard(u, g, now), MusicKept(u, x)
  PROVE  /\ Heard(x, g, now)
         /\ Free(u) => Free(x)
         /\ Quieted(u, g) => Quieted(x, g)
<1>1. Heard(x, g, now)
  BY SameHeard DEF MusicKept
<1> QED
  BY <1>1 DEF MusicKept, Free, Quieted

\* Every step keeps the song in time, its voices with it, and its patterns on time.
LEMMA SongKeeps == SongInv /\ [Next]_vars => SongInv'
<1> SUFFICES ASSUME SongInv, [Next]_vars PROVE SongInv'
  OBVIOUS
<1>1. PressInv' /\ PressInv
  BY PressKeeps DEF SongInv
<1>2. /\ frame \in Nat /\ began.frame \in Nat /\ sound \in Unit /\ song \in SongRecord
      /\ Heard(sound, song, Now)
  BY HeardIs DEF SongInv, Heard
<1>3. /\ pc \notin Paused => Heard(sound, song, frame) /\ Free(sound)
      /\ pc \in Paused => Heard(sound, song, began.frame) /\ Quieted(sound, song)
  BY <1>2 DEF Now, SongInv, Halted, Free, Quieted
<1> SUFFICES /\ frame' \in Nat /\ began'.frame \in Nat
             /\ Heard(sound', song', Now') /\ OnTime'
             /\ IF pc' \in Paused THEN Quieted(sound', song') ELSE Free(sound')
  BY <1>1 DEF SongInv, SongTypes, InTime, VoicesInTime, Heard, SongRecord, VoicesAt, Halted, Quieted, Free
<1> USE DEF Paused, Cart
<1> DEFINE Done == /\ frame' \in Nat /\ began'.frame \in Nat
                   /\ Heard(sound', song', Now') /\ OnTime'
                   /\ IF pc' \in Paused THEN Quieted(sound', song') ELSE Free(sound')
\* A step out of the pause.
<1>4. ASSUME pc' \notin Paused, began' = began, frame' \in Nat, Heard(sound', song', frame'), Free(sound'),
             pc' \in {"late", "pace"} /\ MusicDue(sound', frame')
               => song'.late >= p8a_pattern_frames(sound'.pattern)
      PROVE  Done
  BY <1>2, <1>4 DEF Now, OnTime
<1>5. ASSUME pc \notin Paused, pc' \notin Paused, began' = began, WaitTick
      PROVE  Done
  <2>1. frame' = frame + 1 /\ frame' \in Nat /\ Tick(MixAll(sound), frame', 1)
    BY <1>2, <1>5 DEF WaitTick, Passes, Mixed, MixAll
  <2>2. Heard(MixAll(sound), Later(song, 1), frame') /\ Free(MixAll(sound))
    BY <1>2, <1>3, <1>5, <2>1, FrameHeard
  <2>3. /\ Heard(sound', song', frame') /\ Free(sound')
        /\ MusicDue(sound', frame') => song'.late >= p8a_pattern_frames(sound'.pattern)
    BY <1>2, <2>1, <2>2, TickKeeps
  <2> QED
    BY <1>4, <1>5, <2>1, <2>3
<1>6. ASSUME pc \notin Paused, pc' \notin Paused, UNCHANGED <<began, frame>>, Tick(sound, frame, 0)
      PROVE  Done
  <2>1. Later(song, 0) = song
    BY <1>2 DEF SongRecord, Later
  <2>2. Heard(sound, Later(song, 0), frame) /\ Free(sound)
    BY <1>3, <1>6, <2>1
  <2>3. /\ Heard(sound', song', frame) /\ Free(sound')
        /\ MusicDue(sound', frame) => song'.late >= p8a_pattern_frames(sound'.pattern)
    BY <1>2, <1>6, <2>2, TickKeeps
  <2> QED
    BY <1>2, <1>4, <1>6, <2>3
\* The loop's check, and flip()'s.
<1>7. ASSUME pc \notin Paused, NEW then \in {"update", "flip"}, UNCHANGED <<frame, song>>,
             IF StartEdge(start) THEN EnterPause(then)
             ELSE pc' = then /\ UNCHANGED <<began, sound>>
      PROVE  Done
  <2>1. CASE StartEdge(start)
    <3>1. /\ pc' \in Paused /\ began' = [frame |-> frame, pad |-> port.memory, then |-> then]
          /\ sound' = PauseAll(sound)
      BY <1>7, <2>1 DEF EnterPause
    <3>2. began'.frame = frame
      BY <3>1
    <3>3. Heard(sound', song', began'.frame) /\ Quieted(sound', song')
      BY <1>3, <1>7, <3>1, <3>2, EnterHeard
    <3>4. pc' \notin {"late", "pace"}
      BY <3>1
    <3> QED
      BY <1>2, <1>7, <3>1, <3>2, <3>3, <3>4 DEF Now, OnTime
  <2>2. CASE ~StartEdge(start)
    BY <1>2, <1>3, <1>4, <1>7, <2>2
  <2> QED
    BY <2>1, <2>2
\* A frame of the pause or its menu.
<1>8. ASSUME pc \in Paused, Passes, song' = song,
             \/ Resume
             \/ sound' = Mixed /\ UNCHANGED <<pc, began>>
      PROVE  Done
  <2>1. Mixed = MixAll(sound) /\ frame' \in Nat
    BY <1>2, <1>8 DEF Mixed, MixAll, Passes
  <2>2. Heard(MixAll(sound), song, began.frame) /\ Quieted(MixAll(sound), song)
    BY <1>3, <1>8, PauseHeard
  <2>3. CASE Resume
    <3>1. pc' \notin Paused /\ pc' \notin {"late", "pace"}
      BY <1>1, <2>3 DEF Resume, PressInv, PlayerTypes
    <3>2. sound' = Resumed(MixAll(sound), frame') /\ began' = NoPause
      BY <2>1, <2>3 DEF Resume
    <3>3. Heard(sound', song', frame') /\ Free(sound')
      BY <1>2, <1>8, <2>1, <2>2, <3>2, ResumedHeard
    <3>4. began'.frame \in Nat
      BY <3>2 DEF NoPause
    <3> QED
      BY <2>1, <3>1, <3>3, <3>4 DEF Now, OnTime
  <2>4. CASE sound' = Mixed /\ UNCHANGED <<pc, began>>
    <3>1. pc' \notin {"late", "pace"}
      BY <1>8, <2>4
    <3> QED
      BY <1>2, <1>8, <2>1, <2>2, <2>4, <3>1 DEF Now, OnTime
  <2> QED
    BY <1>8, <2>3, <2>4
<1>9. ASSUME UNCHANGED <<pc, frame, began, sound, song>> PROVE Done
  <2>1. pc' = pc /\ frame' = frame /\ began' = began /\ sound' = sound /\ song' = song
    BY <1>9
  <2>2. Now' = Now
    BY <2>1 DEF Now
  <2>3. OnTime'
    BY <2>1 DEF OnTime, SongInv
  <2> QED
    BY <1>2, <1>3, <2>1, <2>2, <2>3
<1> HIDE DEF Done
<1> SUFFICES Done
  BY DEF Done
<1>10. CASE Top
  BY <1>7, <1>10 DEF Top
<1>11. CASE EndUpdate
  BY <1>6, <1>11 DEF EndUpdate
<1>12. CASE LateDraw
  BY <1>5, <1>12 DEF LateDraw
<1>13. CASE EndDraw
  BY <1>6, <1>13 DEF EndDraw
<1>14. CASE Pace
  BY <1>5, <1>14 DEF Pace
<1>15. CASE Flip
  BY <1>7, <1>15 DEF Flip
<1>16. CASE FlipWait
  <2>1. pc \notin Paused /\ pc' \notin Paused
    BY <1>1, <1>16 DEF FlipWait, PressInv, PlayerTypes
  <2> QED
    BY <1>5, <1>16, <2>1 DEF FlipWait
<1>17. CASE PauseFrame
  BY <1>8, <1>17 DEF PauseFrame
<1>18. CASE MenuFrame
  BY <1>8, <1>18 DEF MenuFrame, MenuClose
<1>19. CASE Overrun
  <2>1. /\ pc \in Cart /\ pc' = pc /\ began' = began /\ frame' = frame + 1 /\ frame' \in Nat
        /\ sound' = MixAll(sound)
        /\ song' = IF song = NoSong THEN NoSong ELSE Later(song, 1)
    BY <1>2, <1>19 DEF Overrun, Passes, Mixed, MixAll, Later
  <2>2. Heard(sound', Later(song, 1), frame') /\ Free(sound')
    BY <1>2, <1>3, <2>1, FrameHeard
  <2>3. song = NoSong => Heard(sound', NoSong, frame')
    <3>1. NoSong \in SongRecord /\ NoSong.due = 0
      BY DEF NoSong, SongRecord
    <3>2. song = NoSong => sound.pattern = Off
      BY <1>3, <2>1, <3>1 DEF Heard
    <3>3. sound'.pattern = sound.pattern /\ sound' \in Unit
      BY <1>2, <2>1, AllIs
    <3> QED
      BY <3>1, <3>2, <3>3 DEF Heard
  <2> QED
    BY <1>4, <2>1, <2>2, <2>3
<1>20. CASE \E n \in Tunes : CallMusic(n)
  <2>1. PICK n \in Tunes : CallMusic(n)
    BY <1>20
  <2> DEFINE f == p8a_pattern_frames(n)
             h == [heard |-> 0, due |-> f, late |-> 0, menu |-> pc = "menu"]
  <2>2. /\ pc \in Cart \cup {"menu"} /\ pc' = pc /\ frame' = frame /\ began' = began
        /\ sound' = PlayMusic(sound, n, frame)
        /\ song' = IF sound'.pattern = Off THEN NoSong ELSE h
    BY <2>1 DEF CallMusic, Quiet
  <2>3. Now' = IF pc \in Paused THEN began.frame ELSE frame
    BY <2>2 DEF Now
  <2>4. Now' \in Int /\ pc' \notin {"late", "pace"}
    BY <1>2, <2>2, <2>3
  <2>5. CASE Stopped(sound, sound')
    <3>1. sound'.pattern = Off /\ Heard(sound', NoSong, Now') /\ (Free(sound) => Free(sound'))
      BY <1>2, <2>5, StopHeard
    <3> QED
      BY <1>2, <1>3, <2>2, <2>4, <3>1 DEF Done, OnTime, Quieted
  <2>6. CASE ~Stopped(sound, sound')
    <3>1. Started(sound, sound', n, 0, frame + f)
      BY <1>2, <2>2, <2>6, PlayMusicIs
    <3>2. sound'.pattern = n /\ n # Off /\ f > 0 /\ f \in Nat
      BY <3>1, FramesOf, SoundAssumption DEF Started, Off
    <3>3. song' = h
      BY <2>2, <3>2
    <3> HIDE DEF f
    <3>4. h \in SongRecord /\ h.late = 0 /\ h.due = f /\ h.heard = 0
      BY <3>2 DEF SongRecord
    <3>5. h.menu <=> pc = "menu"
      OBVIOUS
    <3> HIDE DEF h
    <3> DEFINE e == frame + f
    <3>6. e \in Int
      BY <1>2, <3>2
    <3>7. ~h.menu => /\ Free(sound) /\ e - Now' = h.due - h.heard
                     /\ h.heard - (h.due - p8a_pattern_frames(n)) = 0
      BY <1>2, <1>3, <2>2, <2>3, <3>2, <3>4, <3>5 DEF f
    <3>8. Started(sound, sound', n, 0, e)
      BY <3>1
    <3> HIDE DEF e
    <3>9. /\ Heard(sound', h, Now')
          /\ Free(sound) => Free(sound')
      BY <1>2, <2>4, <3>2, <3>4, <3>6, <3>7, <3>8, StartHeard
    <3>10. pc' \in Paused => Quieted(sound', h)
      BY <2>2, <3>5 DEF Quieted
    <3> QED
      BY <1>2, <1>3, <2>2, <2>4, <3>3, <3>9, <3>10 DEF Done, OnTime
  <2> QED
    BY <2>5, <2>6
<1>21. CASE \E n \in Noises, c \in Effects \cup {Off} : CallSfx(n, c)
  <2>1. PICK n \in Noises, c \in Effects \cup {Off} : CallSfx(n, c)
    BY <1>21
  <2>2. /\ pc \in Cart \cup {"menu"} /\ pc' = pc /\ frame' = frame /\ began' = began /\ song' = song
        /\ sound' = PlayEffect(sound, n, c)
    BY <2>1 DEF CallSfx, Quiet
  <2>3. MusicKept(sound, sound')
    BY <1>2, <2>2, EffectIs
  <2>4. /\ Heard(sound', song, Now)
        /\ Free(sound) => Free(sound')
        /\ Quieted(sound, song) => Quieted(sound', song)
    BY <1>2, <2>3, EffectLeaves
  <2>5. Now' = Now /\ pc' \notin {"late", "pace"}
    BY <2>2 DEF Now
  <2> QED
    BY <1>2, <1>3, <2>2, <2>4, <2>5 DEF Done, OnTime
<1>22. CASE \E pad \in Pads : SelectPad(pad)
  BY <1>9, <1>22 DEF SelectPad, Quiet
<1>23. CASE SetMenu
  BY <1>9, <1>23 DEF SetMenu
<1>24. CASE UNCHANGED vars
  BY <1>9, <1>24 DEF vars
<1> QED
  BY <1>10, <1>11, <1>12, <1>13, <1>14, <1>15, <1>16, <1>17, <1>18, <1>19, <1>20, <1>21, <1>22,
     <1>23, <1>24 DEF Next

-----------------------------------------------------------------------------
(***************************************************************************)
(* The theorems.                                                           *)
(***************************************************************************)
\* At the start the game runs, Start counts as held, and nothing is played.
LEMMA Initial == Init => PortInv /\ SongInv
<1> SUFFICES ASSUME Init PROVE PortInv /\ SongInv
  OBVIOUS
<1>1. /\ pc = "top" /\ caller = "update" /\ frame = 0 /\ start \in BOOLEAN /\ prev = TRUE
      /\ press = (IF start THEN "lost" ELSE "unseen") /\ paused = FALSE
      /\ began = [frame |-> 0, pad |-> 0, then |-> "update"] /\ chosen = 0
      /\ port = [pad |-> 0, memory |-> 0]
      /\ sound = U([c \in Channels |-> Silent], Off, 0, 0) /\ song = NoSong
  BY DEF Init, NoPause, InitSound, U
<1>2. began.frame = 0 /\ began.then = "update" /\ port.memory = 0 /\ port.pad = 0
  BY <1>1
<1>3. PressInv
  <2>1. PlayerTypes
    BY <1>1, <1>2 DEF PlayerTypes, Cart
  <2>2. PressSeen
    BY <1>1 DEF PressSeen, Paused
  <2> QED
    BY <2>1, <2>2 DEF PressInv
<1>4. PortHeld
  BY <1>1, <1>2 DEF PortHeld, Paused
<1>5. Silent \in Channel /\ Silent.state = "stopped"
  BY DEF Silent, Channel, Sound
<1> DEFINE ch == [c \in Channels |-> Silent]
<1>6. ch \in [Channels -> Channel] /\ \A c \in Channels : ch[c] = Silent
  BY <1>5
<1> HIDE DEF ch
<1>7. sound = U(ch, Off, 0, 0)
  BY <1>1 DEF ch
<1>8. 0 \in 0..(Voices - 1)
  BY SoundAssumption
<1>9. U(ch, Off, 0, 0) \in Unit /\ U(ch, Off, 0, 0).pattern = Off /\ U(ch, Off, 0, 0).ch = ch
  BY <1>6, <1>8, WordsOf, MakeUnit
<1>10. NoSong \in SongRecord
  BY DEF NoSong, SongRecord
<1>11. SongTypes /\ InTime /\ VoicesInTime
  <2>1. Heard(sound, song, Now)
    BY <1>1, <1>7, <1>9, <1>10 DEF Heard
  <2> QED
    BY <1>1, <1>2, <2>1, HeardIs
<1>12. OnTime /\ Halted
  BY <1>1, <1>5, <1>6, <1>7, <1>9 DEF OnTime, Halted, Paused
<1> QED
  BY <1>3, <1>4, <1>11, <1>12 DEF PortInv, SongInv

\* The invariant of every behaviour.
LEMMA Invariance == Spec => [](PortInv /\ SongInv)
<1>1. PortInv /\ SongInv /\ [Next]_vars => (PortInv /\ SongInv)'
  BY PortKeeps, SongKeeps
<1> QED
  BY <1>1, Initial, PTL DEF Spec

\* The words of the loop, the player, the channels and the song have their types.
THEOREM TypeCorrect == Spec => []TypeOK
<1>1. PortInv /\ SongInv => TypeOK
  BY DEF TypeOK, SongInv, PressInv
<1> QED
  BY <1>1, Invariance, PTL

\* The game is in a pause exactly when the presses of Start left it paused.
THEOREM PressCorrect == Spec => []PressOnce
<1>1. PortInv /\ SongInv => PressOnce
  BY DEF PressOnce, SongInv, PressInv, PressSeen, PlayerTypes
<1> QED
  BY <1>1, Invariance, PTL

\* The cart's code runs with the gamepad it selected.
THEOREM PortCorrect == Spec => []PortKept
<1>1. PortInv /\ SongInv => PortKept
  <2> SUFFICES ASSUME PortInv PROVE PortKept
    OBVIOUS
  <2>1. port.pad = port.memory
    BY DEF PortInv, PortHeld
  <2> QED
    BY <2>1 DEF PortKept, PortInv, PortHeld
<1> QED
  BY <1>1, Invariance, PTL

\* A pattern ends when the frames heard make up the patterns of the song.
THEOREM SongCorrect == Spec => []SongInTime
<1>1. PortInv /\ SongInv => SongInTime
  BY DEF SongInTime, SongInv, InTime, Now
<1> QED
  BY <1>1, Invariance, PTL

\* No pattern is due when the loop gives a frame up, unless the last was as late
\* as this one is long.
THEOREM OnTimeCorrect == Spec => []OnTime
<1>1. PortInv /\ SongInv => OnTime
  BY DEF SongInv
<1> QED
  BY <1>1, Invariance, PTL

\* The voices of a pattern are where the song is.
THEOREM VoicesCorrect == Spec => []VoicesInTime
<1>1. PortInv /\ SongInv => VoicesInTime
  BY DEF SongInv
<1> QED
  BY <1>1, Invariance, PTL

\* The step of EffectHeard.
EffectStep ==
  \A n \in Noises \cap DOMAIN Sounds, c \in Effects \cup {Off} :
    LET free == {e \in (IF c = Off THEN Effects ELSE {c}) : sound.ch[e].state = "stopped"}
    IN pc \in Cart /\ CallSfx(n, c) /\ free # {} =>
         \E e \in free : /\ sound'.ch[e] = [state |-> "playing", sound |-> n, at |-> 0, loop |-> Sounds[n].loops]
                         /\ \A other \in Channels \ {e} : sound'.ch[other] = sound.ch[other]

\* Out of a pause no channel is paused: one that does not play is free, and the
\* first of them is where the effect goes.
LEMMA EffectHearing ==
  ASSUME SongInv
  PROVE  EffectStep
<1> SUFFICES ASSUME NEW n \in Noises \cap DOMAIN Sounds, NEW c \in Effects \cup {Off},
                    pc \in Cart, CallSfx(n, c),
                    {e \in (IF c = Off THEN Effects ELSE {c}) : sound.ch[e].state = "stopped"} # {}
             PROVE  \E e \in {d \in (IF c = Off THEN Effects ELSE {c}) : sound.ch[d].state = "stopped"} :
                      /\ sound'.ch[e] = [state |-> "playing", sound |-> n, at |-> 0, loop |-> Sounds[n].loops]
                      /\ \A other \in Channels \ {e} : sound'.ch[other] = sound.ch[other]
  BY DEF EffectStep
<1> DEFINE may == IF c = Off THEN Effects ELSE {c}
           free == {e \in may : sound.ch[e].state = "stopped"}
           idle == {e \in Effects : sound.ch[e].state # "playing"}
<1>1. sound \in Unit /\ sound.ch \in [Channels -> Channel]
  BY Words DEF SongInv, SongTypes
<1>2. n \in Sound /\ n # Off /\ n # -1 /\ n # -2 /\ n \in DOMAIN Sounds
  BY SoundAssumption DEF Sound, Off
<1>3. sound' = PlayEffect(sound, n, c)
  BY DEF CallSfx
<1>4. may \subseteq Effects
  OBVIOUS
<1>5. \A e \in Effects : sound.ch[e].state # "paused" /\ sound.ch[e] \in Channel
  BY <1>1, Apart DEF SongInv, Halted, Cart, Paused
<1>6. \A e \in Effects : sound.ch[e].state = "stopped" <=> sound.ch[e].state # "playing"
  BY <1>5, Fields
<1>7. PICK e \in free : sound' = On(sound, {e}, n)
  <2>1. CASE c = Off
    <3>1. idle = free /\ idle # {} /\ idle \in SUBSET Nat
      BY <1>6, <2>1, Apart
    <3> HIDE DEF free
    <3>2. PlayEffect(sound, n, c) = On(sound, {Min(idle)}, n)
      BY <1>2, <2>1, <3>1 DEF PlayEffect
    <3> HIDE DEF idle
    <3>3. Min(idle) \in free
      BY <3>1, MinIn
    <3> QED
      BY <1>3, <3>2, <3>3
  <2>2. CASE c # Off
    <3>1. c \in free
      BY <2>2
    <3>2. PlayEffect(sound, n, c) = On(sound, {c}, n)
      BY <1>2, <2>2 DEF PlayEffect
    <3> QED
      BY <1>3, <3>1, <3>2
  <2> QED
    BY <2>1, <2>2
<1>8. e \in Effects /\ sound.ch[e].state = "stopped" /\ {e} \in SUBSET Effects
  BY <1>4, <1>7
<1>9. /\ sound'.ch[e] = PlayChannel(sound.ch[e], n, 0)
      /\ \A d \in Channels \ {e} : sound'.ch[d] = sound.ch[d]
  BY <1>1, <1>2, <1>7, <1>8, OnIs
<1>10. PlayChannel(sound.ch[e], n, 0) = [state |-> "playing", sound |-> n, at |-> 0, loop |-> Sounds[n].loops]
  BY <1>2, <1>5, <1>8, PlayIs
<1> QED
  BY <1>7, <1>9, <1>10

\* An effect takes a free channel when there is one, and all others go on.
THEOREM EffectCorrect == Spec => EffectHeard
<1>1. PortInv /\ SongInv => EffectStep
  BY EffectHearing
<1>2. EffectHeard <=> [][EffectStep]_vars
  BY DEF EffectHeard, EffectStep
<1> QED
  BY <1>1, <1>2, Invariance, PTL
=============================================================================
