----------------------------- MODULE Pico8Frames -----------------------------
(***************************************************************************)
(* The frame loop of a PICO-8 cart (generate_asm in generator.c), flip(),  *)
(* the pause on gamepad 1's Start and its menu (runtime/pico8.s), with the *)
(* sound of Pico8Sound played along.                                       *)
(*                                                                         *)
(* The cart is the environment: in _update and _draw it may take a frame   *)
(* too long, call flip(), music(), sfx() or menuitem(), or select another  *)
(* gamepad.  A step that passes a frame mixes its sound and lets the       *)
(* player press or release Start.                                          *)
(***************************************************************************)
EXTENDS Pico8Sound

CONSTANTS
  Step,                \* PICO8_FRAME_STEP: 2, or 1 for _update60
  Pads,                \* gamepads; 0 has the Start button that pauses
  Tunes, Noises,       \* what the cart calls music() and sfx() with
  MaxFrame, MaxCalls   \* bounds of a run: frames, and calls of music and sfx

ASSUME FrameAssumption == Step \in {1, 2} /\ 0 \in Pads /\ {MaxFrame, MaxCalls} \subseteq Nat

VARIABLES
  pc,          \* "top" of the loop, "update", "late", "draw", "pace", "flip", "pause", "menu"
  caller,      \* where flip() returns to
  frame,       \* TIM_FrameCounter
  tickFrame,   \* PICO8_TICK_FRAME
  left,        \* frames flip() has left to wait
  prev,        \* PICO8_START_PREV
  began,       \* of a pause: the frame it began, the selected gamepad, what goes on after it
  hook,        \* PICO8_MENU_HOOK is set
  port,        \* the selected gamepad, as the port and as V32IO_GAMEPAD have it
  sound,       \* the channels, and the words of the music and the effects
  start,       \* Start is held down
  press,       \* what that press is to the game: see Pressed
  paused,      \* whether the presses so far leave the game paused
  chosen,      \* the gamepad the cart selected last
  song,        \* frames heard since music(), and those its patterns take so far
  calls

player == <<start, press, paused>>
cart   == <<hook, chosen, calls>>
vars   == <<pc, caller, frame, tickFrame, left, prev, began, port, sound, song, player, cart>>

Cart   == {"update", "draw"}
Paused == {"pause", "menu"}
NoPause == [frame |-> 0, pad |-> 0, then |-> "update"]
NoSong  == [heard |-> 0, due |-> 0, late |-> 0, menu |-> FALSE]

Init ==
  /\ pc = "top" /\ caller = "update" /\ frame = 0 /\ tickFrame = 0 /\ left = 0
  /\ start \in BOOLEAN /\ prev = TRUE
  /\ press = (IF start THEN "lost" ELSE "unseen") /\ paused = FALSE
  /\ began = NoPause
  /\ hook = FALSE /\ chosen = 0 /\ calls = 0
  /\ port = [pad |-> 0, memory |-> 0]
  /\ sound = InitSound /\ song = NoSong

-----------------------------------------------------------------------------
(***************************************************************************)
(* The player.  A press is "fresh" when the last check found Start up; the *)
(* check that finds it down makes it "used".  It is "lost" when there was  *)
(* no check since the press before it.  Start up is "idle", or "unseen"    *)
(* until a check finds it so.                                              *)
(***************************************************************************)
Pressed(p, before, now) ==
  CASE now /\ ~before -> IF p = "idle" THEN "fresh" ELSE "lost"
    [] before /\ ~now -> IF p = "fresh" THEN "idle" ELSE "unseen"
    [] OTHER -> p

Checked(p, now) == IF ~now THEN "idle" ELSE IF p = "fresh" THEN "used" ELSE p

\* A frame ends, and the player may press or release Start.
Passes ==
  /\ frame < MaxFrame /\ frame' = frame + 1
  /\ start' \in BOOLEAN

Mixed == [sound EXCEPT !.ch = [c \in Channels |-> Mix(sound.ch[c])]]

\* The music tick, on the sound s, heard for some frames more.
Tick(s, now, more) ==
  /\ sound' = MusicTick(s, now)
  /\ song' = IF sound'.pattern = Off THEN NoSong
             ELSE IF MusicDue(s, now)
             THEN [song EXCEPT !.heard = @ + more, !.due = @ + p8a_pattern_frames(sound'.pattern), !.late = now - s.end]
             ELSE [song EXCEPT !.heard = @ + more]

\* A WAIT, and the tick after it.
WaitTick ==
  /\ Passes
  /\ Tick(Mixed, frame', 1)
  /\ press' = Pressed(press, start, start')
  /\ UNCHANGED paused

-----------------------------------------------------------------------------
(***************************************************************************)
(* Start and the selected gamepad.                                         *)
(***************************************************************************)
SelectPort(pad) == port' = [port EXCEPT !.pad = pad]   \* mutant: not remembered

\* __v32io_select
Select(pad) == port' = [pad |-> pad, memory |-> pad]

ReadDeviceOnly(device) == [port EXCEPT !.pad = device]   \* mutant: left selected

\* __v32io_read and __v32io_connected: the device's gamepad is selected, its controls
\* are read, and the gamepad remembered is selected again.
ReadDevice(device) == [[port EXCEPT !.pad = device] EXCEPT !.pad = port.memory]

\* v32io_emit_frame_end_hooks: before a WAIT the devices that the cart uses are read.
\* (Elsewhere a check of Start follows, which selects anew.)
PollDevices == port' = port \/ \E device \in Pads : port' = ReadDevice(device)

StartHeld(now) == now   \* mutant: not an edge

\* __pico8_start_edge: Start is down, and was not at the last check.
StartEdge(now) == now /\ ~prev

Check(now, p) ==
  /\ prev' = now
  /\ press' = Checked(p, now)
  /\ paused' = (paused # (now /\ p = "fresh"))

PauseAll(s)  == [s EXCEPT !.ch = [c \in Channels |-> PauseSound(s.ch[c])]]
ResumeAll(s) == [s EXCEPT !.ch = [c \in Channels |-> ResumeSound(s.ch[c])]]

\* __builtin_pico8_pause_check finds Start pressed; after the pause goes on with "then".
EnterPause(then) ==
  /\ pc' = IF hook THEN "menu" ELSE "pause"
  /\ began' = [frame |-> frame, pad |-> port.memory, then |-> then]
  /\ sound' = PauseAll(sound)
  /\ Select(0)

ResumedAsWas(s, now) == ResumeAll(s)   \* mutant: the music's end is not moved on

\* The sound goes on, and the pattern ends as much later as the pause took.
Resumed(s, now) == [ResumeAll(s) EXCEPT !.end = @ + (now - began.frame)]

-----------------------------------------------------------------------------
(***************************************************************************)
(* The main loop.                                                          *)
(***************************************************************************)
Top ==
  /\ pc = "top"
  /\ Check(start, press)
  /\ IF StartEdge(start)
     THEN EnterPause("update") /\ UNCHANGED tickFrame
     ELSE /\ pc' = "update" /\ tickFrame' = frame
          /\ Select(port.memory)
          /\ UNCHANGED <<began, sound>>
  /\ UNCHANGED <<caller, frame, left, song, start, cart>>

EndUpdateUntimed ==   \* mutant: no music tick after _update
  /\ pc = "update"
  /\ pc' \in {"late", "draw"}
  /\ UNCHANGED <<caller, frame, tickFrame, left, prev, began, port, sound, song, player, cart>>

\* _update returns.  _draw starts at once, or late when it would not fit the frame.
EndUpdate ==
  /\ pc = "update"
  /\ Tick(sound, frame, 0)
  /\ pc' \in {"late", "draw"}
  /\ UNCHANGED <<caller, frame, tickFrame, left, prev, began, port, player, cart>>

LateDraw ==
  /\ pc = "late"
  /\ PollDevices /\ WaitTick
  /\ pc' = "draw"
  /\ UNCHANGED <<caller, tickFrame, left, prev, began, cart>>

EndDraw ==
  /\ pc = "draw"
  /\ Tick(sound, frame, 0)
  /\ pc' = "pace"
  /\ UNCHANGED <<caller, frame, tickFrame, left, prev, began, port, player, cart>>

Pace ==
  /\ pc = "pace"
  /\ PollDevices /\ WaitTick
  /\ pc' = IF frame' - tickFrame < Step THEN "pace" ELSE "top"
  /\ UNCHANGED <<caller, tickFrame, left, prev, began, cart>>

-----------------------------------------------------------------------------
(***************************************************************************)
(* flip(), the pause and its menu.                                         *)
(***************************************************************************)
Flip ==
  /\ pc \in Cart
  /\ caller' = pc
  /\ Check(start, press)
  /\ IF StartEdge(start)
     THEN EnterPause("flip") /\ UNCHANGED left
     ELSE /\ pc' = "flip" /\ left' = Step
          /\ Select(port.memory)
          /\ UNCHANGED <<began, sound>>
  /\ UNCHANGED <<frame, tickFrame, song, start, cart>>

FlipWait ==
  /\ pc = "flip"
  /\ WaitTick
  /\ left' = left - 1
  /\ pc' = IF left' > 0 THEN "flip" ELSE caller
  /\ UNCHANGED <<caller, tickFrame, prev, began, port, cart>>

\* The pause is over: the tick begins, or flip() waits.
Resume ==
  /\ pc' = began.then
  /\ sound' = Resumed(Mixed, frame')
  /\ Select(began.pad) /\ began' = NoPause
  /\ IF began.then = "flip" THEN left' = Step /\ UNCHANGED tickFrame
     ELSE tickFrame' = frame' /\ UNCHANGED left

PauseFrame ==
  /\ pc = "pause"
  /\ Passes
  /\ Check(start', Pressed(press, start, start'))
  /\ IF StartEdge(start') THEN Resume
     ELSE Select(0) /\ sound' = Mixed /\ UNCHANGED <<pc, left, tickFrame, began>>
  /\ UNCHANGED <<caller, song, cart>>

\* O or X on an entry: from here on Start counts as held.
MenuClose ==
  /\ ~StartEdge(start')
  /\ prev' = TRUE
  /\ press' = (IF start' THEN Checked(Pressed(press, start, start'), TRUE) ELSE "unseen")
  /\ paused' = FALSE
  /\ Resume

MenuFrame ==
  /\ pc = "menu"
  /\ Passes
  /\ \/ /\ Check(start', Pressed(press, start, start'))
        /\ IF StartEdge(start') THEN Resume
           ELSE Select(0) /\ sound' = Mixed /\ UNCHANGED <<pc, left, tickFrame, began>>
     \/ MenuClose
  /\ UNCHANGED <<caller, song, cart>>

-----------------------------------------------------------------------------
(***************************************************************************)
(* The cart, in _update and _draw, and in a menu entry's callback.         *)
(***************************************************************************)
\* A frame ends while the cart computes.
Overrun ==
  /\ pc \in Cart
  /\ Passes
  /\ sound' = Mixed
  /\ song' = IF song = NoSong THEN NoSong ELSE [song EXCEPT !.heard = @ + 1]
  /\ press' = Pressed(press, start, start')
  /\ UNCHANGED <<pc, caller, tickFrame, left, prev, began, port, paused, cart>>

Quiet == UNCHANGED <<pc, caller, frame, tickFrame, left, prev, began, player, hook>>

CallMusic(n) ==
  /\ pc \in Cart \cup {"menu"} /\ calls < MaxCalls /\ calls' = calls + 1
  /\ sound' = PlayMusic(sound, n, frame)
  /\ song' = IF sound'.pattern = Off THEN NoSong
             ELSE [heard |-> 0, due |-> p8a_pattern_frames(n), late |-> 0, menu |-> pc = "menu"]
  /\ Quiet /\ UNCHANGED <<port, chosen>>

CallSfx(n, c) ==
  /\ pc \in Cart \cup {"menu"} /\ calls < MaxCalls /\ calls' = calls + 1
  /\ sound' = PlayEffect(sound, n, c)
  /\ Quiet /\ UNCHANGED <<port, chosen, song>>

SelectPad(pad) ==
  /\ pc \in Cart
  /\ Select(pad) /\ chosen' = pad
  /\ Quiet /\ UNCHANGED <<sound, song, calls>>

\* menuitem()
SetMenu ==
  /\ pc \in Cart
  /\ hook' = TRUE
  /\ UNCHANGED <<pc, caller, frame, tickFrame, left, prev, began, port, sound, song, player, chosen, calls>>

Next ==
  \/ Top \/ EndUpdate \/ LateDraw \/ EndDraw \/ Pace
  \/ Flip \/ FlipWait \/ PauseFrame \/ MenuFrame \/ Overrun
  \/ \E n \in Tunes : CallMusic(n)
  \/ \E n \in Noises, c \in Effects \cup {Off} : CallSfx(n, c)
  \/ \E pad \in Pads : SelectPad(pad)
  \/ SetMenu
  \/ frame = MaxFrame /\ UNCHANGED vars   \* the end of a run

Spec == Init /\ [][Next]_vars

-----------------------------------------------------------------------------
\* A song never drifts: its pattern ends, by the frame counter, when the frames heard
\* since music() make up the length of its patterns, however late the ticks
\* came, whatever flip() waited and however often the game was paused.
SongInTime ==
  LET now == IF pc \in Paused THEN began.frame ELSE frame
  IN sound.pattern # Off /\ ~song.menu => sound.end - now = song.due - song.heard

\* A pattern changes on time: when the main loop gives a frame up, no pattern
\* is due that the tick before it could have started.
OnTime ==
  pc \in {"late", "pace"} /\ MusicDue(sound, frame) => song.late >= p8a_pattern_frames(sound.pattern)

\* The voices of a pattern are together: each that plays its sound is where
\* the song is, though the pattern was started late.
VoicesInTime ==
  sound.pattern # Off /\ ~song.menu =>
    \A v \in Music :
      LET k == sound.ch[v]  s == Song[sound.pattern].voice[v]
          since == song.heard - (song.due - p8a_pattern_frames(sound.pattern))
      IN k.state # "stopped" /\ k.sound = s /\ 2 * song.late < Sounds[s].ticks
           => k.at = Wrapped(s, 2 * since)

\* An effect replaces another only when it must: with a free channel among those
\* sfx(n) may use, it is heard there from its start and all others go on.
EffectHeard ==
  [][\A n \in Noises \cap DOMAIN Sounds, c \in Effects \cup {Off} :
       LET free == {e \in (IF c = Off THEN Effects ELSE {c}) : sound.ch[e].state = "stopped"}
       IN pc \in Cart /\ CallSfx(n, c) /\ free # {} =>
            \E e \in free : /\ sound'.ch[e] = [state |-> "playing", sound |-> n, at |-> 0, loop |-> Sounds[n].loops]
                            /\ \A other \in Channels \ {e} : sound'.ch[other] = sound.ch[other]]_vars

\* A press of Start pauses or resumes once: the checks of the loop, of flip(),
\* of the pause and of its menu share one edge, and what the presses left the
\* game in is what it is in.
PressOnce == (pc \in Paused) = paused

\* The gamepad the cart selected is selected whenever its code runs, after any
\* check, pause or device read, and the memory of it is never stale.
PortKept ==
  /\ port.pad = port.memory
  /\ pc \notin Paused => port.pad = chosen

\* The voices that play, play the sounds of the music's pattern.
VoicesRight ==
  sound.pattern # Off =>
    \A v \in Music : sound.ch[v].state = "playing" => sound.ch[v].sound = Song[sound.pattern].voice[v]
=============================================================================
