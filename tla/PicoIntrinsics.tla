--------------------------- MODULE PicoIntrinsics ---------------------------
(***************************************************************************)
(* The functions of the PICO-8 layer (src/intrinsics: pico8.c, pico8mem.c).*)
(***************************************************************************)
EXTENDS TicIntrinsics, MathIntrinsics

\* pico8_push_args: every parameter has a word, nil when left out.
pico8_push_args(c, n) == LastFirst(PushPinned, Vals(c, Nils(n)))

pico8_call(c, f, n) == pico8_push_args(c, n) \o CallDrop(f, Vals(c, Nils(n))) \o Result(c, "R0", f)

\* The arguments are counted when their code is already written.
pico8_simple_call(c, n, min, f) == IF Arity(c) < min THEN pico8_push_args(c, n) \o Refuse ELSE pico8_call(c, f, n)

pico8_emit_button(c)               == pico8_call(c, "pressed", 2)
emit_pico8_btn_intrinsic(c)        == pico8_emit_button(c)
emit_pico8_btnp_intrinsic(c)       == pico8_emit_button(c)
emit_pico8_map_intrinsic(c)        == pico8_call(c, "nil", 7)
emit_pico8_rectfill_intrinsic(c)   == pico8_simple_call(c, 5, 4, "nil")
emit_pico8_rect_intrinsic(c)       == pico8_simple_call(c, 5, 4, "nil")
emit_pico8_circfill_intrinsic(c)   == pico8_simple_call(c, 4, 3, "nil")
emit_pico8_circ_intrinsic(c)       == pico8_simple_call(c, 4, 2, "nil")
emit_pico8_print_intrinsic(c)      == pico8_simple_call(c, 4, 1, "end")
emit_pico8_menu_hook_intrinsic(c)  == pico8_simple_call(c, 1, 1, "nil")
emit_pico8_start_pressed_intrinsic(c) == pico8_simple_call(c, 0, 0, "pressed")
emit_pico8_cursor_get_intrinsic(c) == pico8_simple_call(c, 1, 1, "number")
emit_pico8_cursor_set_intrinsic(c) == pico8_simple_call(c, 3, 0, "nil")
emit_pico8_split1_intrinsic(c)     == pico8_simple_call(c, 3, 2, "table")
emit_pico8_atan2_intrinsic(c)      == pico8_simple_call(c, 2, 0, "number")
emit_pico8_pset_intrinsic(c)       == pico8_simple_call(c, 3, 2, "nil")
emit_pico8_color_intrinsic(c)      == pico8_simple_call(c, 1, 0, "number")
emit_pico8_fget_intrinsic(c)       == pico8_simple_call(c, 2, 1, "flag")
emit_pico8_fset_intrinsic(c)       == pico8_simple_call(c, 3, 2, "nil")
emit_pico8_sspr_intrinsic(c)       == pico8_simple_call(c, 10, 6, "nil")

\* line: none, two or four numbers, and a colour
emit_pico8_line_intrinsic(c) ==
  IF Arity(c) = 1 THEN pico8_push_args(c, 5) \o Refuse ELSE pico8_call(c, "nil", 5)

emit_pico8_spr_intrinsic(c) ==
  LET x == Vals(c, <<"nil", "nil", "nil", "1.0", "1.0", "false", "false">>) IN
  LastFirst(PushPinned, x) \o CallDrop("nil", x) \o Result(c, "R0", "nil")

emit_pico8_mget_intrinsic(c) == AllOf(c, 2, "tile", PushVal)
emit_pico8_mset_intrinsic(c) == AllOf(c, 3, "nil", PushVal)
emit_pico8_camera_intrinsic(c) ==
  LastFirst(PushR0, Vals(c, Nils(2))) \o CallDrop("nil", Vals(c, Nils(2))) \o Result(c, "R0", "nil")
emit_pico8_cls_intrinsic(c) ==
  PushVal(1, Val(c, <<"0.0">>, 1)) \o CallDrop("nil", Vals(c, <<"0.0">>)) \o Result(c, "R0", "nil")
emit_pico8_count_intrinsic(c) ==
  IF Arity(c) # 1 THEN Refuse ELSE PushVal(1, "x1") \o CallDrop("count", <<"x1">>) \o Result(c, "R0", "count")

-----------------------------------------------------------------------------
(***************************************************************************)
(* Lists: the table waits on the stack for the operands after it.          *)
(***************************************************************************)
emit_pico8_add_intrinsic(c) ==
  LET pos == Val(c, Nils(3), 3) IN
  AtLeast(c, 2,
    Alloc("t") \o Eval(1, "t") \o Push("t", "x1")
    \o Alloc("pos") \o (IF Has(c, 3) THEN Eval(3, "pos") ELSE Load("pos", "nil")) \o Push("pos", pos)
    \o Alloc("val") \o Eval(2, "val") \o Pop("pos", pos) \o Pop("t", "x1")
    \o Push("t", "x1") \o Push("pos", pos) \o Push("val", "x2") \o CallDrop("x2", <<"x2", pos, "x1">>)
    \o Result(c, "R0", "x2") \o Unlock("t") \o Unlock("pos") \o Unlock("val"))

TableAnd(c, f, result) ==
  IF Arity(c) # 2 THEN Refuse
  ELSE Alloc("t") \o Eval(1, "t") \o Push("t", "x1") \o Alloc("v") \o Eval(2, "v") \o Pop("t", "x1")
       \o Push("t", "x1") \o Push("v", "x2") \o CallDrop(f, <<"x2", "x1">>) \o result
       \o Unlock("t") \o Unlock("v")

emit_pico8_del_intrinsic(c)     == TableAnd(c, "removed", Result(c, "R0", "removed"))
emit_pico8_foreach_intrinsic(c) == TableAnd(c, "nil", ResultNil(c))

-----------------------------------------------------------------------------
(***************************************************************************)
(* Numbers, computed in place.                                             *)
(***************************************************************************)
emit_pico8_rnd_intrinsic(c) ==
  CASE Arity(c) = 0 -> emit_math_random_intrinsic(c)
    [] Arity(c) = 1 ->
         Alloc("x") \o Pin("x") \o Eval(1, "x") \o Push("x", "x1") \o Unpin("x")
         \o ConstantR0("nil") \o Push("R0", "nil") \o CallDrop("sample", <<"nil", "nil">>)
         \o (IF c.dest = 0 THEN Alloc("result") ELSE <<>>)
         \o Pop("x", "x1")
         \o (IF c.dest = 0
             THEN Move("result", "R0", "sample") \o Apply("result", "random", {<<"result", "sample">>, <<"x", "x1">>})
             ELSE Move("dest", "R0", "sample") \o Apply("dest", "random", {<<"dest", "sample">>, <<"x", "x1">>})
                  \o Result(c, "dest", "random"))
         \o Unlock("x") \o (IF c.dest = 0 THEN Unlock("result") ELSE <<>>)
    [] OTHER -> Refuse

emit_pico8_sgn_intrinsic(c) ==
  IF Arity(c) # 1 THEN Refuse
  ELSE Alloc("arg") \o Eval(1, "arg") \o Alloc("flag") \o Move("flag", "arg", "x1")
       \o Apply("flag", "negative", {<<"flag", "x1">>})
       \o (IF c.dest = 0 THEN Alloc("result") \o Apply("result", "sign", {<<"flag", "negative">>})
           ELSE Apply("dest", "1.0", {}) \o Apply("dest", "sign", {<<"flag", "negative">>}) \o Result(c, "dest", "sign"))
       \o Unlock("arg") \o Unlock("flag") \o (IF c.dest = 0 THEN Unlock("result") ELSE <<>>)

emit_pico8_mid_intrinsic(c) ==
  IF Arity(c) # 3 THEN Refuse
  ELSE Alloc("a") \o Alloc("b") \o Alloc("c") \o Eval(1, "a") \o Push("a", "x1") \o Eval(2, "b") \o Push("b", "x2")
       \o Eval(3, "c") \o Pop("b", "x2") \o Pop("a", "x1") \o Alloc("min") \o Alloc("max")
       \o Apply("min", "min", {<<"a", "x1">>, <<"b", "x2">>}) \o Apply("max", "max", {<<"a", "x1">>, <<"b", "x2">>})
       \o Apply("max", "low", {<<"max", "max">>, <<"c", "x3">>})
       \o Apply("min", "mid", {<<"min", "min">>, <<"max", "low">>}) \o Result(c, "min", "mid")
       \o Unlock("a") \o Unlock("b") \o Unlock("c") \o Unlock("min") \o Unlock("max")

InTurns(c, body) ==
  IF Arity(c) # 1 THEN Refuse
  ELSE Alloc("arg") \o Eval(1, "arg") \o Alloc("tmp") \o Load("tmp", "2pi")
       \o Apply("arg", "radians", {<<"arg", "x1">>, <<"tmp", "2pi">>}) \o body \o Unlock("tmp") \o Unlock("arg")

emit_pico8_sin_intrinsic(c) ==
  InTurns(c, Apply("arg", "sin", {<<"arg", "radians">>}) \o Load("tmp", "0")
             \o Apply("tmp", "-sin", {<<"tmp", "0">>, <<"arg", "sin">>}) \o Result(c, "tmp", "-sin"))
emit_pico8_cos_intrinsic(c) ==
  InTurns(c, Apply("arg", "cos", {<<"arg", "radians">>}) \o Result(c, "arg", "cos"))
emit_pico8_tan_intrinsic(c) ==
  InTurns(c, Push("arg", "radians") \o CallDrop("tan", <<"radians">>) \o Load("tmp", "0")
             \o Apply("tmp", "-tan", {<<"tmp", "0">>, <<"R0", "tan">>}) \o Result(c, "tmp", "-tan"))

\* sqrt works in the destination itself.
emit_pico8_sqrt_intrinsic(c) ==
  LET x == IF c.dest = 0 THEN "x" ELSE "dest" IN
  IF Arity(c) # 1 THEN Refuse
  ELSE (IF c.dest = 0 THEN Alloc(x) ELSE <<>>) \o Eval(1, x) \o Alloc("t") \o Load("t", "0.0")
       \o Apply(x, "max", {<<x, "x1">>, <<"t", "0.0">>}) \o Load("t", "0.5")
       \o Apply(x, "sqrt", {<<x, "max">>, <<"t", "0.5">>}) \o Unlock("t")
       \o (IF c.dest = 0 THEN Unlock(x) ELSE Result(c, x, "sqrt"))

-----------------------------------------------------------------------------
(***************************************************************************)
(* Sound: the cart's own, or a tone of the bank.                           *)
(***************************************************************************)
\* The tone's call keeps every argument after the first.
emit_pico8_sfx_intrinsic(c) ==
  LET tone == Delegated(c, <<"number">> \o Tail(c.args))
      x    == <<"x1", Val(c, Nils(2), 2)>>
  IN CASE Arity(c) = 0 -> Refuse
       [] c.name = "pico.sfx" -> LastFirst(PushR0, x) \o CallDrop("nil", x) \o ResultNil(c)
       [] c.name = "pico.tone-" /\ Is(c, 1, {"number"}) ->
            Renamed(emit_vircon32_sfx_stop_intrinsic(Delegated(c, Tail(c.args))), <<2, 3, 4>>)
       [] c.name = "pico.tone" /\ Is(c, 1, {"number"}) ->
            emit_vircon32_sfx_play_intrinsic(tone) \o Check({<<"volume", "1.0">>, <<"speed", "1.0">>})
       [] OTHER ->
            ConstantR0("mask") \o ConstantR0("base") \o LastFirst(PushR0, x)
            \o CallDrop("channel", x \o <<"base", "mask">>) \o Result(c, "R0", "channel")

emit_pico8_music_intrinsic(c) ==
  CASE Arity(c) = 0 -> Refuse
    [] c.name = "pico.music" -> PushVal(1, "x1") \o CallDrop("nil", <<"x1">>) \o ResultNil(c)
    [] ~Is(c, 1, {"number"}) -> Refuse
    [] c.name = "pico.tune-" -> emit_vircon32_channel_cmd_intrinsic(Delegated(c, <<"number">>))
    [] OTHER -> emit_vircon32_play_intrinsic(Delegated(c, <<"number", "number", "string">>))

\* pal, palt, clip, fillp: nothing but their arguments' effects
emit_pico8_pal_intrinsic(c) ==
  Flat([i \in 1..Arity(c) |->
         IF Is(c, i, {"number", "nil", "string", "plain"}) THEN <<>>
         ELSE Alloc("reg") \o Eval(i, "reg") \o Unlock("reg")])
  \o ResultNil(c)

emit_pico8_flip_intrinsic(c) == Runtime("frame", {}) \o ResultNil(c)

-----------------------------------------------------------------------------
(***************************************************************************)
(* Memory and cart data.                                                   *)
(***************************************************************************)
push_args(c, d) == LastFirst(PushPinned, Vals(c, d))
push_int(x)     == Constant(x)
discard_args(c) == emit_tic80_stub_intrinsic([c EXCEPT !.dest = 0])
finish_call(c, f, words) == CallDrop(f, words) \o Result(c, "R0", f)

\* poke writes its values one after the other, and 0 without one.
Poke(c) ==
  LET n == IF Arity(c) > 1 THEN Arity(c) ELSE 2
      x == [i \in 1..n |-> Val(c, [j \in 1..n |-> "0.0"], i)]
  IN LastFirst(PushPinned, x) \o push_int("count") \o push_int("width")
     \o finish_call(c, "nil", <<"width", "count">> \o x)

emit_pico8_memory_intrinsic(c) ==
  CASE c.name = "peek"  -> push_args(c, Nils(1)) \o push_int("width")
                           \o finish_call(c, "word", <<"width", Val(c, Nils(1), 1)>>)
    [] c.name = "poke"  -> Poke(c)
    [] c.name = "memset" -> AtLeast(c, 3, push_args(c, Nils(3)) \o finish_call(c, "nil", Vals(c, Nils(3))))
    [] c.name = "sget"  -> push_args(c, Nils(2)) \o finish_call(c, "pixel", Vals(c, Nils(2)))
    [] c.name = "dget"  -> push_args(c, Nils(1)) \o finish_call(c, "word", Vals(c, Nils(1)))
    [] c.name = "dset"  -> push_args(c, Nils(2)) \o finish_call(c, "nil", Vals(c, Nils(2)))
    [] c.name = "cstore" -> discard_args(c) \o ResultNil(c)
    [] c.name = "reload" ->
         (CASE Arity(c) = 0 -> finish_call(c, "nil", <<>>)
            [] Arity(c) >= 4 -> discard_args(c) \o ResultNil(c)
            [] OTHER -> push_args(c, <<"0.0", "0.0", "size">>) \o finish_call(c, "nil", Vals(c, <<"0.0", "0.0", "size">>)))
    [] OTHER ->   \* cartdata
         (IF Is(c, 1, {"string"}) THEN <<>> ELSE discard_args(c))
         \o push_int("hash") \o finish_call(c, "known?", <<"hash">>)

emit_pico8_time_intrinsic(c) ==
  discard_args(c) \o (IF c.dest = 0 THEN <<>> ELSE Load("dest", "seconds") \o Result(c, "dest", "seconds"))

PicoDraw ==
  {"pico.btn", "pico.btnp", "pico.map", "pico.rect", "pico.rectfill", "pico.circfill", "pico.circ", "pico.print",
   "pico.menu", "pico.cursor", "pico.cursor?", "pico.start", "pico.pset", "pico.fget", "pico.fset", "pico.atan2",
   "pico.split1", "pico.sspr", "pico.line", "pico.spr", "pico.mget", "pico.mset", "pico.camera",
   "pico.cls", "pico.count", "pico.color"}
PicoRest ==
  {"add", "del", "foreach", "rnd", "sgn", "mid", "pico.sin", "pico.cos", "pico.tan", "pico.sqrt", "pico.sfx",
   "pico.tone", "pico.tone-", "pico.music", "pico.tune", "pico.tune-", "pal", "flip", "peek", "poke", "memset",
   "sget", "dget", "dset", "cstore", "reload", "cartdata", "pico.time"}

\* try_emit_call_pico8_intrinsic, one function for each form
PicoDrawCode(c) ==
  CASE c.name = "pico.btn" -> emit_pico8_btn_intrinsic(c)
    [] c.name = "pico.map" -> emit_pico8_map_intrinsic(c)
    [] c.name = "pico.rect" -> emit_pico8_rect_intrinsic(c)
    [] c.name = "pico.circfill" -> emit_pico8_circfill_intrinsic(c)
    [] c.name = "pico.circ" -> emit_pico8_circ_intrinsic(c)
    [] c.name = "pico.print" -> emit_pico8_print_intrinsic(c)
    [] c.name = "pico.cursor" -> emit_pico8_cursor_set_intrinsic(c)
    [] c.name = "pico.btnp" -> emit_pico8_btnp_intrinsic(c)
    [] c.name = "pico.rectfill" -> emit_pico8_rectfill_intrinsic(c)
    [] c.name = "pico.menu" -> emit_pico8_menu_hook_intrinsic(c)
    [] c.name = "pico.cursor?" -> emit_pico8_cursor_get_intrinsic(c)
    [] c.name = "pico.pset" -> emit_pico8_pset_intrinsic(c)
    [] c.name = "pico.fget" -> emit_pico8_fget_intrinsic(c)
    [] c.name = "pico.fset" -> emit_pico8_fset_intrinsic(c)
    [] c.name = "pico.start" -> emit_pico8_start_pressed_intrinsic(c)
    [] c.name = "pico.atan2" -> emit_pico8_atan2_intrinsic(c)
    [] c.name = "pico.split1" -> emit_pico8_split1_intrinsic(c)
    [] c.name = "pico.sspr" -> emit_pico8_sspr_intrinsic(c)
    [] c.name = "pico.line" -> emit_pico8_line_intrinsic(c)
    [] c.name = "pico.spr" -> emit_pico8_spr_intrinsic(c)
    [] c.name = "pico.mget" -> emit_pico8_mget_intrinsic(c)
    [] c.name = "pico.mset" -> emit_pico8_mset_intrinsic(c)
    [] c.name = "pico.camera" -> emit_pico8_camera_intrinsic(c)
    [] c.name = "pico.cls" -> emit_pico8_cls_intrinsic(c)
    [] c.name = "pico.count" -> emit_pico8_count_intrinsic(c)
    [] OTHER -> emit_pico8_color_intrinsic(c)

PicoCode(c) ==
  CASE c.name \in PicoDraw -> PicoDrawCode(c)
    [] c.name = "add" -> emit_pico8_add_intrinsic(c)
    [] c.name = "del" -> emit_pico8_del_intrinsic(c)
    [] c.name = "foreach" -> emit_pico8_foreach_intrinsic(c)
    [] c.name = "rnd" -> emit_pico8_rnd_intrinsic(c)
    [] c.name = "sgn" -> emit_pico8_sgn_intrinsic(c)
    [] c.name = "mid" -> emit_pico8_mid_intrinsic(c)
    [] c.name = "pico.sin" -> emit_pico8_sin_intrinsic(c)
    [] c.name = "pico.cos" -> emit_pico8_cos_intrinsic(c)
    [] c.name = "pico.tan" -> emit_pico8_tan_intrinsic(c)
    [] c.name = "pico.sqrt" -> emit_pico8_sqrt_intrinsic(c)
    [] c.name \in {"pico.sfx", "pico.tone", "pico.tone-"} -> emit_pico8_sfx_intrinsic(c)
    [] c.name \in {"pico.music", "pico.tune", "pico.tune-"} -> emit_pico8_music_intrinsic(c)
    [] c.name = "pal" -> emit_pico8_pal_intrinsic(c)
    [] c.name = "flip" -> emit_pico8_flip_intrinsic(c)
    [] c.name = "pico.time" -> emit_pico8_time_intrinsic(c)
    [] OTHER -> emit_pico8_memory_intrinsic(c)
=============================================================================
