----------------------------- MODULE Pico8Sound -----------------------------
(***************************************************************************)
(* Sound of a PICO-8 cart: music, its patterns, and effects, on the        *)
(* channels of the console's sound unit (runtime/pico8.s, pico8_audio.c).  *)
(* Channels 0..Voices-1 play music and the next Voices effects.            *)
(*                                                                         *)
(* Time inside a sound is in PICO-8 ticks, two to a frame.  The console is *)
(* modelled as doc/API.md and runtime/vircon32.s describe it: a sound is   *)
(* assigned to a stopped channel only, playing rewinds unless the channel  *)
(* is paused, and a channel stops when its sound ends.                     *)
(***************************************************************************)
EXTENDS Integers, FiniteSetsExt, TLC

CONSTANTS
  Voices,   \* music channels, and as many for effects: 4
  Sounds,   \* of the cart: [sound -> [ticks, loops, from]], a loop goes from..ticks
  Song      \* the patterns, by number: [voice, start, back, stop]; -1 is no sound

ASSUME SoundAssumption ==
  /\ Voices \in Nat \ {0}
  /\ DOMAIN Sounds \subseteq Nat /\ DOMAIN Song \subseteq Nat
  /\ \A s \in DOMAIN Sounds : /\ Sounds[s].ticks \in Nat \ {0} /\ Sounds[s].loops \in BOOLEAN
                              /\ Sounds[s].from \in 0..(Sounds[s].ticks - 1)
  /\ \A p \in DOMAIN Song : \A v \in 0..(Voices-1) : Song[p].voice[v] \in DOMAIN Sounds \cup {-1}

Music    == 0..(Voices - 1)
Effects  == Voices..(2 * Voices - 1)
Channels == Music \cup Effects
Off == -1   \* no pattern, no sound, any channel

-----------------------------------------------------------------------------
(***************************************************************************)
(* The sound unit: one channel is [state, sound, at, loop].                *)
(***************************************************************************)
Silent == [state |-> "stopped", sound |-> Off, at |-> 0, loop |-> FALSE]

Assign(k, s) == IF k.state = "stopped" THEN [k EXCEPT !.sound = s] ELSE k
Start(k)     == IF k.state = "paused" THEN [k EXCEPT !.state = "playing"]
                ELSE [k EXCEPT !.state = "playing", !.at = 0, !.loop = Sounds[k.sound].loops]
StopSound(k) == [k EXCEPT !.state = "stopped", !.at = 0]
Seek(k, t)   == [k EXCEPT !.at = Min({t, Sounds[k.sound].ticks - 1})]
PauseSound(k)  == IF k.state = "playing" THEN [k EXCEPT !.state = "paused"] ELSE k
ResumeSound(k) == IF k.state = "paused" THEN [k EXCEPT !.state = "playing"] ELSE k

\* Where a sound is t ticks after its start, if it is still to be heard.
Wrapped(s, t) ==
  LET from == Sounds[s].from IN IF t < Sounds[s].ticks THEN t ELSE from + ((t - from) % (Sounds[s].ticks - from))

\* A frame's sound is mixed.
Mix(k) ==
  IF k.state # "playing" THEN k
  ELSE IF k.at + 2 < Sounds[k.sound].ticks \/ k.loop THEN [k EXCEPT !.at = Wrapped(k.sound, k.at + 2)]
  ELSE StopSound(k)

-----------------------------------------------------------------------------
(***************************************************************************)
(* The cart's patterns, as the compiler writes them into __pico8_patterns. *)
(***************************************************************************)
Present(p) == p \in DOMAIN Song /\ \E v \in Music : Song[p].voice[v] # Off
Used(p)    == {v \in Music : Song[p].voice[v] # Off}
Ceil2(t)   == (t + 1) \div 2

\* The leftmost voice that does not loop decides, or else the leftmost.
p8a_pattern_frames(p) ==
  LET played == {v \in Used(p) : ~Sounds[Song[p].voice[v]].loops}
  IN IF ~Present(p) THEN 0
     ELSE Ceil2(Sounds[Song[p].voice[Min(IF played # {} THEN played ELSE Used(p))]].ticks)

p8a_next_pattern(p) ==
  LET starts == {q \in DOMAIN Song : q <= p /\ Present(q) /\ Song[q].start}
  IN IF Song[p].back THEN IF starts = {} THEN 0 ELSE Max(starts)
     ELSE IF Song[p].stop \/ ~Present(p + 1) THEN Off ELSE p + 1

-----------------------------------------------------------------------------
(***************************************************************************)
(* The runtime: s is [ch, pattern, end, next] (the channels and the words  *)
(* PICO8_MUSIC_PATTERN, PICO8_MUSIC_END and PICO8_SFX_NEXT).               *)
(***************************************************************************)
\* __pico8_play_channel
PlayChannel(k, s, t) ==
  IF s < 0 THEN StopSound(k)
  ELSE LET playing == Start(Assign(k, s)) IN IF t = 0 THEN playing ELSE Seek(playing, t)

\* __pico8_music_start: pattern p, a number of frames late
MusicStart(s, p, late) ==
  [s EXCEPT !.pattern = p,
            !.ch = [c \in Channels |-> IF c \in Music THEN PlayChannel(s.ch[c], Song[p].voice[c], 2 * late) ELSE s.ch[c]]]

MusicStop(s) ==
  [s EXCEPT !.pattern = Off, !.ch = [c \in Channels |-> IF c \in Music THEN StopSound(s.ch[c]) ELSE s.ch[c]]]

\* music(n), called at frame now
PlayMusic(s, n, now) ==
  IF n \notin DOMAIN Song \/ p8a_pattern_frames(n) = 0 THEN MusicStop(s)
  ELSE [MusicStart(s, n, 0) EXCEPT !.end = now + p8a_pattern_frames(n)]

MusicDue(s, now) == s.pattern # Off /\ now >= s.end

MusicTickFromStart(s, now) ==   \* mutant: a late pattern is played from its start
  IF ~MusicDue(s, now) THEN s
  ELSE LET n == p8a_next_pattern(s.pattern)
       IN IF n = Off \/ p8a_pattern_frames(n) = 0 THEN MusicStop(s)
          ELSE [MusicStart(s, n, 0) EXCEPT !.end = s.end + p8a_pattern_frames(n)]

\* __builtin_pico8_music_tick
MusicTick(s, now) ==
  IF ~MusicDue(s, now) THEN s
  ELSE LET n == p8a_next_pattern(s.pattern)
       IN IF n = Off \/ p8a_pattern_frames(n) = 0 THEN MusicStop(s)
          ELSE [MusicStart(s, n, now - s.end) EXCEPT !.end = s.end + p8a_pattern_frames(n)]

On(s, chs, n) == [s EXCEPT !.ch = [c \in Channels |-> IF c \in chs THEN PlayChannel(s.ch[c], n, 0) ELSE s.ch[c]]]

\* sfx(n, c), c counted as a channel of the console: n may be -1 (stop) or -2
\* (let a loop finish), c may be Off (any).
PlayEffectInTurn(s, n, c) ==   \* mutant: idle channels are not looked for
  IF n < 0 THEN s
  ELSE IF c # Off THEN On(s, {c}, n)
  ELSE [On(s, {Voices + s.next}, n) EXCEPT !.next = (s.next + 1) % Voices]

PlayEffect(s, n, c) ==
  LET chosen == IF c = Off THEN Effects ELSE {c}
      idle   == {e \in Effects : s.ch[e].state # "playing"}
  IN CASE n = -1 -> On(s, chosen, Off)
       [] n = -2 -> IF c = Off THEN s ELSE [s EXCEPT !.ch[c].loop = FALSE]
       [] n \in DOMAIN Sounds /\ c # Off              -> On(s, chosen, n)
       [] n \in DOMAIN Sounds /\ c = Off /\ idle # {} -> On(s, {Min(idle)}, n)
       [] n \in DOMAIN Sounds /\ c = Off /\ idle = {} -> [On(s, {Voices + s.next}, n) EXCEPT !.next = (s.next + 1) % Voices]
       [] OTHER -> s

InitSound == [ch |-> [c \in Channels |-> Silent], pattern |-> Off, end |-> 0, next |-> 0]
=============================================================================
