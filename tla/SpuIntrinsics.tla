--------------------------- MODULE SpuIntrinsics ---------------------------
(***************************************************************************)
(* The sound functions (src/intrinsics/spu.c).  A call whose arguments are *)
(* all known writes the ports itself; any other pushes its arguments, the  *)
(* last first, for a runtime routine (src/runtime/vircon32.s).  Both must  *)
(* leave the channel the same.                                             *)
(*                                                                         *)
(* The ports are those of the selected channel.  The device takes a sound  *)
(* only when the channel is stopped, and its play command sets loop and    *)
(* position itself.  owner is the namespace that has claimed the channel.  *)
(***************************************************************************)
EXTENDS EmittedCode

Select(x, uses) ==
  Out("channel", x, uses)
  \o Flat([i \in 1..6 |->
       Out(<<"state", "sound", "volume", "speed", "loop", "position">>[i], "as it was", {})])

StopSelected      == Out("state", "stopped", {})
AssignSound(uses) == Out("sound", "x1", uses \cup {<<"state", "stopped">>})

\* SPUCommand_PlaySelectedChannel
PlaySelected ==
  Out("loop", "the sound's", {}) \o Out("position", "0", {}) \o Out("state", "playing", {})

Command(x, uses) == Out("SPU_Command", x, uses)

\* ioports.spu.cmd(mode), on whatever channel the program has selected
emit_spu_cmd_intrinsic(c) ==
  (IF Arity(c) = 0 \/ Is(c, 1, {"nil", "string", "number"}) THEN Command("mode", {})
   ELSE Alloc("mode") \o Pin("mode") \o Eval(1, "mode")
        \o Alloc("scratch") \o Pin("scratch") \o Move("scratch", "mode", "x1")
        \o Command("mode", {<<"mode", "x1">>, <<"scratch", "x1">>}))
  \o ResultNil(c)
  \o (IF Arity(c) = 0 \/ Is(c, 1, {"nil", "string", "number"}) THEN <<>>
      ELSE Unpin("mode") \o Unpin("scratch") \o Unlock("scratch") \o Unlock("mode"))

spu_push_optional_arg(c, i) ==
  IF Has(c, i) THEN Alloc("opt") \o Eval(i, "opt") \o Push("opt", Arg(i)) \o Unlock("opt")
  ELSE Load("R0", "nil") \o Push("R0", "nil")

\* What the routine finds for an argument.
Word(c, i) == IF Has(c, i) THEN Arg(i) ELSE "nil"

emit_vircon32_claim_channel_static(owner) ==
  Alloc("mask") \o Load("mask", "own") \o Out("owner", owner, {<<"mask", "own">>})
  \o Load("mask", "other") \o Out("released", owner, {<<"mask", "other">>}) \o Unlock("mask")

\* spu_static_number, of an argument that may be missing
Known(c, i) == ~Has(c, i) \/ Is(c, i, {"number"})

\* spu_static_truth
Truth(c, i) == ~Has(c, i) \/ Is(c, i, {"number", "string", "nil"})

\* How the sound is playing once the call is over.
Playing(c, channel, volume, loop, owner) ==
  Check({<<"state", "playing">>, <<"sound", "x1">>, <<"channel", channel>>, <<"volume", volume>>,
         <<"loop", loop>>, <<"owner", owner>>})

PlayChannel(c)  == Or(c, 2, "0")
PlayLoop(c)     == Or(c, 3, "off")
PlayVolume(c)   == Or(c, 4, "1.0")
PlayPosition(c) == Or(c, 5, "0")
MusicPlays(c) ==
  Playing(c, PlayChannel(c), PlayVolume(c), PlayLoop(c), "music") \o Check({<<"position", PlayPosition(c)>>})

StaticSettingsFirst(c) ==   \* mutant: the loop and the position are set before the device plays
  Out("loop", PlayLoop(c), {}) \o (IF Has(c, 5) THEN Out("position", "x5", {}) ELSE <<>>) \o PlaySelected

\* Playing sets the loop and the position: they are written after it.
StaticSettings(c) ==
  PlaySelected \o Out("loop", PlayLoop(c), {}) \o (IF Has(c, 5) THEN Out("position", "x5", {}) ELSE <<>>)

builtin_vircon32_play(c) ==
  Runtime("channel", Words([i \in 1..5 |-> Word(c, i)]))
  \o Select(PlayChannel(c), {})
  \o (IF Is(c, 1, {"nil"}) THEN <<>>
      ELSE StopSelected \o AssignSound({}) \o Out("owner", "music", {})
           \o Out("volume", PlayVolume(c), {}) \o PlaySelected \o Out("loop", PlayLoop(c), {})
           \o (IF Or(c, 5, "") = "" THEN <<>> ELSE Out("position", "x5", {}))
           \o MusicPlays(c))

\* music.play (sound, channel, loop, volume, start)
emit_vircon32_play_intrinsic(c) ==
  IF Arity(c) = 0 THEN Refuse
  ELSE IF Is(c, 1, {"number"}) /\ Known(c, 2) /\ Truth(c, 3) /\ Known(c, 4) /\ Known(c, 5)
  THEN Select(PlayChannel(c), {}) \o StopSelected \o AssignSound({})
       \o Alloc("vol") \o Load("vol", PlayVolume(c))
       \o Out("volume", PlayVolume(c), {<<"vol", PlayVolume(c)>>}) \o Unlock("vol")
       \o StaticSettings(c) \o emit_vircon32_claim_channel_static("music")
       \o MusicPlays(c) \o ResultOf(c, "channel")
  ELSE Flat([i \in 1..4 |-> spu_push_optional_arg(c, 6 - i)])
       \o Alloc("snd") \o Eval(1, "snd") \o Push("snd", "x1") \o Unlock("snd")
       \o builtin_vircon32_play(c) \o Drop(5) \o Result(c, "R0", "channel")

\* resume acts on a paused channel only: it reads the state first.
spu_emit_selected_channel_cmd(c, channel) ==
  IF c.name # "music.resume" THEN Command(c.name, {<<"channel", channel>>})
  ELSE Alloc("reg") \o Load("reg", "paused?") \o Command(c.name, {<<"reg", "paused?">>, <<"channel", channel>>})
       \o Unlock("reg")

\* music.stop, pause and resume (channel): all channels without one
emit_vircon32_channel_cmd_intrinsic(c) ==
  (CASE Arity(c) = 0 \/ Is(c, 1, {"nil"}) -> Command("all", {})
     [] Is(c, 1, {"number"}) -> Select("x1", {}) \o spu_emit_selected_channel_cmd(c, "x1")
     [] OTHER ->
          Alloc("chan") \o Eval(1, "chan") \o Push("chan", "x1") \o Unlock("chan")
          \o Runtime("selected?", Words(<<"x1">>)) \o Select("x1", {}) \o Drop(1)
          \o Command("all, if nil", {<<"R0", "selected?">>}) \o spu_emit_selected_channel_cmd(c, "x1"))
  \o ResultNil(c)

SfxChannel(c) == Or(c, 2, "next")   \* the next of 1..15, round robin
SfxVolume(c)  == Or(c, 3, "1.0")
SfxSpeed(c)   == Or(c, 4, "1.0")
SfxPlays(c) ==
  Playing(c, SfxChannel(c), SfxVolume(c), "off", "sfx") \o Check({<<"speed", SfxSpeed(c)>>})

builtin_vircon32_sfx_play(c) ==
  Runtime("channel", Words(<<Word(c, 1), Or(c, 2, "nil"), Word(c, 3), Word(c, 4)>>))
  \o Select(SfxChannel(c), {})
  \o (IF Is(c, 1, {"nil"}) THEN <<>>
      ELSE StopSelected \o AssignSound({}) \o Out("owner", "sfx", {})
           \o Out("volume", SfxVolume(c), {}) \o Out("speed", SfxSpeed(c), {})
           \o PlaySelected \o Out("loop", "off", {}) \o SfxPlays(c))

\* sfx.play (sound, channel, volume, speed)
emit_vircon32_sfx_play_intrinsic(c) ==
  IF Arity(c) = 0 THEN Refuse
  ELSE IF Is(c, 1, {"number"}) /\ Is(c, 2, {"number"}) /\ Known(c, 3) /\ Known(c, 4)
  THEN Select("x2", {}) \o StopSelected \o AssignSound({})
       \o Alloc("reg") \o Load("reg", SfxVolume(c)) \o Out("volume", SfxVolume(c), {<<"reg", SfxVolume(c)>>})
       \o Load("reg", SfxSpeed(c)) \o Out("speed", SfxSpeed(c), {<<"reg", SfxSpeed(c)>>}) \o Unlock("reg")
       \o PlaySelected \o Out("loop", "off", {}) \o emit_vircon32_claim_channel_static("sfx")
       \o SfxPlays(c) \o ResultOf(c, "channel")
  ELSE spu_push_optional_arg(c, 4) \o spu_push_optional_arg(c, 3)
       \o (IF Has(c, 2) /\ ~Is(c, 2, {"nil"}) THEN spu_push_optional_arg(c, 2)
           ELSE Load("R0", "nil") \o Push("R0", "nil"))
       \o Alloc("snd") \o Eval(1, "snd") \o Push("snd", "x1") \o Unlock("snd")
       \o builtin_vircon32_sfx_play(c) \o Drop(4) \o Result(c, "R0", "channel")

\* sfx.stop (channel): without one, channels 1 to 15, and the music goes on
emit_vircon32_sfx_stop_intrinsic(c) ==
  IF Has(c, 1) /\ ~Is(c, 1, {"nil"}) THEN emit_vircon32_channel_cmd_intrinsic(c)
  ELSE Runtime("nil", {}) \o Select("15", {}) \o StopSelected \o ResultNil(c)

\* music.playing (channel): the state of the channel it selects
emit_vircon32_music_playing_intrinsic(c) ==
  (CASE Arity(c) = 0 \/ Is(c, 1, {"nil"}) -> Select("0", {})
     [] Is(c, 1, {"number"}) -> Select("x1", {})
     [] OTHER -> Alloc("reg") \o Eval(1, "reg") \o Select("x1", {<<"reg", "x1">>}) \o Unlock("reg"))
  \o (IF c.dest = 0 THEN <<>>
      ELSE Apply("dest", "playing?", {<<"channel", Or(c, 1, "0")>>}) \o Result(c, "dest", "playing?"))

\* music.volume and sfx.volume (volume, channel): without a channel, all those
\* the namespace owns.
emit_vircon32_volume_intrinsic(c) ==
  IF Arity(c) = 0 THEN Refuse
  ELSE IF Arity(c) = 1 \/ Is(c, 2, {"nil"})
  THEN Load("R0", "mask") \o Push("R0", "mask")
       \o Alloc("vol") \o Eval(1, "vol") \o Push("vol", "x1") \o Unlock("vol")
       \o Runtime("nil", Words(<<"x1", "mask">>)) \o Drop(2) \o ResultNil(c)
  ELSE IF Is(c, 1, {"number"}) /\ Is(c, 2, {"number"})
  THEN Alloc("reg") \o Load("reg", "x1") \o Select("x2", {}) \o Out("volume", "x1", {<<"reg", "x1">>})
       \o Unlock("reg") \o Check({<<"channel", "x2">>, <<"volume", "x1">>}) \o ResultNil(c)
  ELSE Alloc("chan") \o Eval(2, "chan") \o Push("chan", "x2") \o Unlock("chan")
       \o Alloc("vol") \o Eval(1, "vol") \o Push("vol", "x1") \o Unlock("vol")
       \o Runtime("nil", Words(<<"x1", "x2">>)) \o Select("x2", {}) \o Out("volume", Or(c, 1, "1.0"), {})
       \o Check({<<"channel", "x2">>, <<"volume", Or(c, 1, "1.0")>>}) \o Drop(2) \o ResultNil(c)

SpuNames == {"spu.cmd", "music.play", "music.stop", "music.pause", "music.resume", "music.playing",
             "music.volume", "sfx.play", "sfx.stop", "sfx.volume"}

\* try_emit_sound_namespace_intrinsic
SpuCode(c) ==
  CASE c.name = "spu.cmd" -> emit_spu_cmd_intrinsic(c)
    [] c.name = "music.play" -> emit_vircon32_play_intrinsic(c)
    [] c.name \in {"music.stop", "music.pause", "music.resume"} -> emit_vircon32_channel_cmd_intrinsic(c)
    [] c.name = "music.playing" -> emit_vircon32_music_playing_intrinsic(c)
    [] c.name \in {"music.volume", "sfx.volume"} -> emit_vircon32_volume_intrinsic(c)
    [] c.name = "sfx.play" -> emit_vircon32_sfx_play_intrinsic(c)
    [] OTHER -> emit_vircon32_sfx_stop_intrinsic(c)
=============================================================================
