--------------------------- MODULE TicIntrinsics ---------------------------
(***************************************************************************)
(* The functions of the TIC-80 layer (src/intrinsics/tic80.c).             *)
(***************************************************************************)
EXTENDS SpuIntrinsics, RoutineCalls

\* n arguments, none of them to be left out
AllOf(c, n, f, PushIt(_, _)) ==
  AtLeast(c, n,
    LastFirst(PushIt, [i \in 1..n |-> Arg(i)]) \o CallDrop(f, [i \in 1..n |-> Arg(i)]) \o Result(c, "R0", f))

\* Arguments with defaults
Optional(c, f, d) == LastFirst(PushPinned, Vals(c, d)) \o CallDrop(f, Vals(c, d))

emit_tic80_spr_intrinsic(c) == Optional(c, "nil", <<"nil", "nil", "nil", "16.0", "1.0", "0.0", "0.0", "1.0", "1.0">>)
emit_tic80_btn_intrinsic(c)  == Optional(c, "pressed", <<"nil">>) \o Result(c, "R0", "pressed")
emit_tic80_btnp_intrinsic(c) == Optional(c, "pressed", <<"nil", "-1.0", "-1.0">>) \o Result(c, "R0", "pressed")
emit_tic80_map_intrinsic(c)  == Optional(c, "nil", <<"0.0", "0.0", "30.0", "17.0", "0.0", "0.0", "16.0", "1.0">>)

emit_tic80_mget_intrinsic(c)  == AllOf(c, 2, "tile", PushVal)
emit_tic80_mset_intrinsic(c)  == AllOf(c, 3, "nil", PushVal)
emit_tic80_fget_intrinsic(c)  == AllOf(c, 2, "flag", PushVal)
emit_tic80_fset_intrinsic(c)  == AllOf(c, 3, "nil", PushVal)
emit_tic80_pix_intrinsic(c)   == IF Arity(c) = 3 THEN AllOf(c, 3, "nil", PushPinned) ELSE Refuse
emit_tic80_line_intrinsic(c)  == IF Arity(c) = 5 THEN AllOf(c, 5, "nil", PushPinned) ELSE Refuse
emit_tic80_rect_intrinsic(c)  == IF Arity(c) = 5 THEN AllOf(c, 5, "nil", PushPinned) ELSE Refuse
emit_tic80_rectb_intrinsic(c) == IF Arity(c) = 5 THEN AllOf(c, 5, "nil", PushPinned) ELSE Refuse
emit_tic80_circ_intrinsic(c)  == IF Arity(c) = 4 THEN AllOf(c, 4, "nil", PushPinned) ELSE Refuse
emit_tic80_circb_intrinsic(c) == IF Arity(c) = 4 THEN AllOf(c, 4, "nil", PushPinned) ELSE Refuse

\* A colour known to the compiler goes to the port, any other to the routine.
emit_tic80_cls_intrinsic(c) ==
  IF Arity(c) = 0 \/ Is(c, 1, {"number", "string"})
  THEN Load("R1", "color") \o Out("clearcolor", "color", {<<"R1", "color">>})
       \o Out("GPU_Command", "clear", {<<"clearcolor", "color">>})
  ELSE PushPinned(1, "x1") \o CallDrop("nil", <<"x1">>)

\* print: the first argument deepest
emit_tic80_print_intrinsic(c) ==
  LET x == ValsOr(c, <<"nil", "0.0", "0.0", "15.0">>) IN
  AtLeast(c, 1,
    Flat([i \in 1..4 |-> PushVal(i, x[i])]) \o CallDrop("width", <<x[4], x[3], x[2], x[1]>>)
    \o Result(c, "R0", "width"))

\* play sets the ports one by one, all through R1, each before the next argument.
emit_tic80_play_intrinsic(c) ==
  LET through(i, p) == IF Has(c, i) THEN Eval(i, "R1") \o Out(p, Arg(i), {<<"R1", Arg(i)>>}) ELSE <<>> IN
  through(1, "SPU_SelectedSound")
  \o (IF Has(c, 2) THEN through(2, "channel") ELSE Load("R1", "0") \o Out("channel", "0", {<<"R1", "0">>}))
  \o through(3, "volume") \o through(4, "speed") \o Out("state", "playing", {}) \o ResultNil(c)

\* Arguments of the sound routines; a note given as a string is a number by then.
tic80_push_sound_args(c, n, note) ==
  Flat([k \in 1..n |->
    LET i == n + 1 - k IN
    IF i = note /\ Is(c, i, {"string"}) THEN ConstantR0("note") ELSE PushR0(i, ValOr(c, Nils(n), i))])

SoundWords(c, n, note) ==
  [i \in 1..n |-> IF i = note /\ Is(c, i, {"string"}) THEN "note" ELSE ValOr(c, Nils(n), i)]

\* A call with the arguments x, written by the emitter of another function.
Delegated(c, args) == [c EXCEPT !.args = args]

\* What Code refers to as argument i is argument new[i] here.
Renamed(Code, new) ==
  LET name(x) == IF \E i \in DOMAIN new : x = Arg(i) THEN Arg(new[CHOOSE i \in DOMAIN new : x = Arg(i)]) ELSE x
  IN [k \in DOMAIN Code |->
       [Code[k] EXCEPT !.is = name(@), !.uses = {<<u[1], name(u[2])>> : u \in @}]]

\* sfx (id, note, duration, channel, volume, speed); without the cart's own
\* sounds a tone is played on the channel.  Of the name, "-" is a negative id.
emit_tic80_sfx_intrinsic(c) ==
  LET channel == IF Has(c, 4) /\ ~Is(c, 4, {"nil"}) THEN <<c.args[4]>> ELSE <<>>
      x       == <<"x1", IF channel = <<>> THEN "nil" ELSE "x4", "base", "mask">>
  IN CASE Arity(c) = 0 -> Refuse
       [] c.name = "tic.sfx" ->
            tic80_push_sound_args(c, 5, 2) \o CallDrop("nil", SoundWords(c, 5, 2)) \o ResultNil(c)
       [] c.name = "tic.tone-" /\ Is(c, 1, {"number"}) ->
            Renamed(emit_vircon32_sfx_stop_intrinsic(Delegated(c, channel)), <<4>>)
       [] c.name = "tic.tone" /\ Is(c, 1, {"number"}) ->
            Renamed(emit_vircon32_sfx_play_intrinsic(Delegated(c, <<"number">> \o channel)), <<1, 4>>)
            \o Check({<<"volume", "1.0">>, <<"speed", "1.0">>})
       [] OTHER ->
            ConstantR0("mask") \o ConstantR0("base")
            \o (IF channel = <<>> THEN ConstantR0("nil") ELSE PushVal(4, "x4"))
            \o PushVal(1, "x1") \o CallDrop("nil", x) \o ResultNil(c)

\* music (track, frame, row, loop); without the cart's own music a tone loops
\* on channel 0.
emit_tic80_music_intrinsic(c) ==
  CASE c.name = "tic.music" ->
         tic80_push_sound_args(c, 4, 0) \o CallDrop("nil", SoundWords(c, 4, 0)) \o ResultNil(c)
    [] Arity(c) = 0 -> emit_vircon32_channel_cmd_intrinsic(Delegated(c, <<"number">>))
    [] Is(c, 1, {"number"}) -> emit_vircon32_play_intrinsic(Delegated(c, <<"number", "number", "string">>))
    [] OTHER -> Refuse

emit_tic80_pmem_intrinsic(c) ==
  AtLeast(c, 1,
    (IF Has(c, 2) THEN PushPinned(2, "x2") ELSE ConstantR0("nil")) \o PushPinned(1, "x1")
    \o CallDrop("word", Vals(c, Nils(2))) \o Result(c, "R0", "word"))

ForEffectFirst(c) ==   \* mutant: only the first argument is evaluated
  IF Has(c, 1) THEN Alloc("reg") \o Eval(1, "reg") \o Unlock("reg") ELSE <<>>

\* Arguments evaluated for what they do
ForEffect(c) == Flat([i \in 1..Arity(c) |-> Alloc("reg") \o Eval(i, "reg") \o Unlock("reg")])

emit_tic80_sync_intrinsic(c) == ForEffect(c) \o ResultNil(c)
emit_tic80_time_intrinsic(c) ==
  ForEffect(c) \o (IF c.dest = 0 THEN Load("R0", "ms") ELSE Load("dest", "ms") \o Result(c, "dest", "ms"))
emit_tic80_exit_intrinsic(c) ==
  ForEffect(c) \o Alloc("flag") \o Load("flag", "1") \o Out("exit", "1", {<<"flag", "1">>}) \o Unlock("flag")
  \o ResultNil(c)

\* trace, key, keyp: an argument that is a literal or a name has nothing to do.
emit_tic80_stub_intrinsic(c) ==
  Flat([i \in 1..Arity(c) |->
         IF Is(c, i, {"number", "string", "plain"}) THEN <<>> ELSE Alloc("reg") \o Eval(i, "reg") \o Unlock("reg")])
  \o ResultOf(c, "nothing")

push_mem_args(c, n) == LastFirst(PushPinned, Vals(c, Nils(n)))

\* peek and poke take the width as an argument, peek1 .. poke4 push it first.
emit_tic80_memory_intrinsic(c) ==
  CASE c.name = "tic.peek" ->
         AtLeast(c, 1, push_mem_args(c, 2) \o CallDrop("word", Vals(c, Nils(2))) \o Result(c, "R0", "word"))
    [] c.name = "tic.peek4" ->
         AtLeast(c, 1, Constant("bits") \o push_mem_args(c, 1) \o CallDrop("word", <<"x1", "bits">>)
                       \o Result(c, "R0", "word"))
    [] c.name = "tic.poke4" ->
         AtLeast(c, 2, Constant("bits") \o push_mem_args(c, 2) \o CallDrop("nil", <<"x1", "x2", "bits">>)
                       \o Result(c, "R0", "nil"))
    [] OTHER ->
         AtLeast(c, IF c.name = "tic.poke" THEN 2 ELSE 3,
                 push_mem_args(c, 3) \o CallDrop("nil", Vals(c, Nils(3))) \o Result(c, "R0", "nil"))

TicNames ==
  {"tic.spr", "tic.btn", "tic.btnp", "tic.map", "tic.mget", "tic.mset", "tic.fget", "tic.fset", "tic.pix",
   "tic.line", "tic.rect", "tic.rectb", "tic.circ", "tic.circb", "tic.cls", "tic.print", "tic.play",
   "tic.sfx", "tic.tone", "tic.tone-", "tic.music", "tic.tune", "tic.pmem", "tic.sync", "tic.time",
   "tic.exit", "tic.trace", "tic.peek", "tic.peek4", "tic.poke", "tic.poke4", "tic.memcpy"}

\* try_emit_call_tic80_intrinsic
TicCode(c) ==
  CASE c.name = "tic.spr" -> emit_tic80_spr_intrinsic(c)
    [] c.name = "tic.btn" -> emit_tic80_btn_intrinsic(c)
    [] c.name = "tic.btnp" -> emit_tic80_btnp_intrinsic(c)
    [] c.name = "tic.map" -> emit_tic80_map_intrinsic(c)
    [] c.name = "tic.mget" -> emit_tic80_mget_intrinsic(c)
    [] c.name = "tic.mset" -> emit_tic80_mset_intrinsic(c)
    [] c.name = "tic.fget" -> emit_tic80_fget_intrinsic(c)
    [] c.name = "tic.fset" -> emit_tic80_fset_intrinsic(c)
    [] c.name = "tic.pix" -> emit_tic80_pix_intrinsic(c)
    [] c.name = "tic.line" -> emit_tic80_line_intrinsic(c)
    [] c.name = "tic.rect" -> emit_tic80_rect_intrinsic(c)
    [] c.name = "tic.rectb" -> emit_tic80_rectb_intrinsic(c)
    [] c.name = "tic.circ" -> emit_tic80_circ_intrinsic(c)
    [] c.name = "tic.circb" -> emit_tic80_circb_intrinsic(c)
    [] c.name = "tic.cls" -> emit_tic80_cls_intrinsic(c)
    [] c.name = "tic.print" -> emit_tic80_print_intrinsic(c)
    [] c.name = "tic.play" -> emit_tic80_play_intrinsic(c)
    [] c.name \in {"tic.sfx", "tic.tone", "tic.tone-"} -> emit_tic80_sfx_intrinsic(c)
    [] c.name \in {"tic.music", "tic.tune"} -> emit_tic80_music_intrinsic(c)
    [] c.name = "tic.pmem" -> emit_tic80_pmem_intrinsic(c)
    [] c.name = "tic.sync" -> emit_tic80_sync_intrinsic(c)
    [] c.name = "tic.time" -> emit_tic80_time_intrinsic(c)
    [] c.name = "tic.exit" -> emit_tic80_exit_intrinsic(c)
    [] c.name = "tic.trace" -> emit_tic80_stub_intrinsic(c)
    [] OTHER -> emit_tic80_memory_intrinsic(c)
=============================================================================
