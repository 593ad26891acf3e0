-------------------------- MODULE VirconIntrinsics --------------------------
(***************************************************************************)
(* The Vircon32 drawing, button and memory card functions                  *)
(* (src/intrinsics: vircon32.c, memcard.c), and those of the devices.      *)
(***************************************************************************)
EXTENDS GpuIntrinsics, RoutineCalls

\* The colour operand: white, a literal's word, or the argument converted.
ColorOperand(c, i) == IF Or(c, i, "white") = "white" THEN "white" ELSE ColorWord(c, i)

PushColor(c, i, held) ==
  LET x == ColorOperand(c, i) IN
  IF x = "white" \/ Is(c, i, {"number"}) THEN ConstantR0(x)
  ELSE Alloc("reg") \o (IF held THEN Pin("reg") ELSE <<>>) \o emit_color_word_arg(c, i, "reg")
       \o Push("reg", x) \o (IF held THEN Unpin("reg") ELSE <<>>) \o Unlock("reg")

SprDefaults == <<"", "", "", "1.0", "1.0", "0.0", "white", "alpha">>

emit_vircon32_spr_intrinsic(c) ==
  LET blend == IF Is(c, 8, {"string"}) THEN "blend" ELSE ValOr(c, SprDefaults, 8)
      x     == [i \in 1..8 |-> CASE i < 4 -> Arg(i) [] i = 7 -> ColorOperand(c, 7) [] i = 8 -> blend
                                  [] OTHER -> ValOr(c, SprDefaults, i)]
  IN AtLeast(c, 3,
       PushR0(8, blend) \o PushColor(c, 7, FALSE) \o LastFirst(PushR0, SubSeq(x, 1, 6))
       \o CallDrop("nil", x) \o ResultNil(c))

\* A literal button without a player is read where it is wanted.
emit_vircon32_btn_intrinsic(c) ==
  AtLeast(c, 1,
    IF Arity(c) = 1 /\ Is(c, 1, {"number"})
    THEN (IF c.dest = 0 THEN Load("R0", "pressed")
          ELSE Load("dest", "pressed") \o Result(c, "dest", "pressed"))
    ELSE LastFirst(PushR0, Vals(c, <<"x1", "nil">>)) \o CallDrop("pressed", Vals(c, <<"x1", "nil">>))
         \o Result(c, "R0", "pressed"))

emit_vircon32_btnp_intrinsic(c) ==
  AtLeast(c, 1,
    LastFirst(PushR0, Vals(c, <<"x1", "nil">>)) \o CallDrop("pressed", Vals(c, <<"x1", "nil">>))
    \o Result(c, "R0", "pressed"))

\* tilemap.render: the arguments after the name of the map
emit_vircon32_tilemap_render_intrinsic(c) ==
  LET x == ValsOr(c, [i \in 1..9 |-> IF i = 9 THEN "nil" ELSE Arg(i)]) IN
  AtLeast(c, 8,
    PushR0(9, x[9]) \o LastFirst(PushVal, [i \in 1..8 |-> Arg(i)])
    \o Constant("height") \o Constant("width") \o Constant("ram") \o Constant("rom")
    \o CallDrop("nil", <<"rom", "ram", "width", "height">> \o [i \in 1..8 |-> Arg(i)] \o <<x[9]>>)
    \o ResultNil(c))

\* rect and rectfill
emit_vircon32_rect_intrinsic(c) ==
  AtLeast(c, 4,
    ConstantR0("filled") \o PushColor(c, 5, TRUE) \o LastFirst(PushPinned, [i \in 1..4 |-> Arg(i)])
    \o CallDrop("nil", [i \in 1..4 |-> Arg(i)] \o <<ColorOperand(c, 5), "filled">>) \o ResultNil(c))

-----------------------------------------------------------------------------
(***************************************************************************)
(* The memory card.                                                        *)
(***************************************************************************)
emit_vircon32_memcard_clamp_addr(v) ==
  Alloc("scratch") \o Apply(v, "address", {<<v, "position">>}) \o Unlock("scratch")

ToAddress(v, i) ==
  Apply(v, "position", {<<v, Arg(i)>>}) \o emit_vircon32_memcard_clamp_addr(v)

\* The value waits in a register while the position is evaluated.
emit_vircon32_memcard_write(c) ==
  CASE Arity(c) = 1 ->
         PushVal(1, "x1") \o CallDrop("x1", <<"x1">>) \o Result(c, "R0", "x1")
    [] Is(c, 2, {"number"}) ->
         AllocPinned("val") \o Eval(1, "val") \o Alloc("addr") \o Load("addr", "address")
         \o Out("card", "x1", {<<"addr", "address">>, <<"val", "x1">>}) \o Unlock("addr")
         \o Result(c, "val", "x1") \o UnlockPinned("val")
    [] OTHER ->
         AllocPinned("val") \o Eval(1, "val") \o AllocPinned("addr") \o Eval(2, "addr")
         \o ToAddress("addr", 2)
         \o Out("card", "x1", {<<"addr", "address">>, <<"val", "x1">>}) \o UnlockPinned("addr")
         \o Result(c, "val", "x1") \o UnlockPinned("val")

emit_vircon32_memcard_save_intrinsic(c) == AtLeast(c, 1, emit_vircon32_memcard_write(c))

\* A load whose result nobody wants is not made, nor is its position evaluated.
emit_vircon32_memcard_read(c) ==
  IF c.dest = 0 THEN <<>>
  ELSE Alloc("addr")
       \o (IF Arity(c) = 0 \/ Is(c, 1, {"number"}) THEN Load("addr", "address")
           ELSE Eval(1, "addr") \o ToAddress("addr", 1))
       \o Apply("dest", "loaded", {<<"addr", "address">>}) \o Unlock("addr") \o Result(c, "dest", "loaded")

emit_vircon32_memcard_load_intrinsic(c) == emit_vircon32_memcard_read(c)

emit_vircon32_memcard_load_table_intrinsic(c) ==
  AtLeast(c, 1, PushVal(1, "x1") \o CallDrop("loaded", <<"x1">>) \o Result(c, "R0", "loaded"))

emit_vircon32_memcard_title_intrinsic(c) ==
  IF Arity(c) = 1 THEN PushVal(1, "x1") \o CallDrop("nil", <<"x1">>) \o ResultNil(c)
  ELSE IF c.dest = 0 THEN <<>>
  ELSE Runtime("title", {}) \o Result(c, "R0", "title")

VirconNames ==
  {"spr", "btn", "btnp", "tilemap.render", "rect", "memcard.save", "memcard.load",
   "memcard.load_table", "memcard.title"}

\* try_emit_memcard_namespace_intrinsic for the memory card.
VirconCode(c) ==
  CASE c.name = "spr" -> emit_vircon32_spr_intrinsic(c)
    [] c.name = "btn" -> emit_vircon32_btn_intrinsic(c)
    [] c.name = "btnp" -> emit_vircon32_btnp_intrinsic(c)
    [] c.name = "tilemap.render" -> emit_vircon32_tilemap_render_intrinsic(c)
    [] c.name = "rect" -> emit_vircon32_rect_intrinsic(c)
    [] c.name = "memcard.save" -> emit_vircon32_memcard_save_intrinsic(c)
    [] c.name = "memcard.load" -> emit_vircon32_memcard_load_intrinsic(c)
    [] c.name = "memcard.load_table" -> emit_vircon32_memcard_load_table_intrinsic(c)
    [] OTHER -> emit_vircon32_memcard_title_intrinsic(c)

-----------------------------------------------------------------------------
(***************************************************************************)
(* The calls of the keyboard, the mouse and the tile maps                  *)
(* (src/v32kbd.c, src/v32mouse.c, src/tilemap.c).                          *)
(***************************************************************************)
\* An operand in a pinned register, or a constant in R0.
PushPinnedR0(i, x) == IF x = Arg(i) THEN PushPinned(i, x) ELSE ConstantR0(x)

\* A key named by a string is a number by then; without one, any key.
KeySpec(c) == IF Or(c, 1, "nil") = "nil" THEN "nil" ELSE IF Is(c, 1, {"string"}) THEN "key" ELSE "x1"
v32kbd_push_spec(c) == PushPinnedR0(1, KeySpec(c))

\* key (k) and keyp (k, hold, period), and the set of the codes pushed before
emit_v32kbd_key_intrinsic(c) ==
  LET repeat == IF c.name = "keyp" THEN <<Or(c, 2, "-1.0"), Or(c, 3, "-1.0")>> ELSE <<>>
      f      == IF c.name = "keyp" THEN "pressed" ELSE "held"
  IN ConstantR0("codes")
     \o (IF repeat = <<>> THEN <<>> ELSE PushPinnedR0(3, repeat[2]) \o PushPinnedR0(2, repeat[1]))
     \o v32kbd_push_spec(c) \o CallDrop(f, <<KeySpec(c)>> \o repeat \o <<"codes">>) \o Result(c, "R0", f)

NoArguments(c, body) == IF Arity(c) = 0 THEN body ELSE Refuse

try_emit_kbd_namespace_intrinsic(c) ==
  CASE c.name = "kbd.read" -> NoArguments(c, ConstantR0("which") \o CallDrop("event", <<"which">>) \o Result(c, "R0", "event"))
    [] c.name = "kbd.glyph" ->
         IF Arity(c) # 1 THEN Refuse ELSE PushPinned(1, "x1") \o CallDrop("glyph", <<"x1">>) \o Result(c, "R0", "glyph")
    [] c.name = "kbd.port" ->
         PushPinnedR0(1, Or(c, 1, "nil")) \o CallDrop("port", <<Or(c, 1, "nil")>>) \o Result(c, "R0", "port")
    [] c.name = "kbd.capslock" -> NoArguments(c, Runtime("caps", {}) \o Result(c, "R0", "caps"))
    [] OTHER -> NoArguments(c, Runtime("", {}) \o ResultNil(c))   \* kbd.clear

mouse_call(c, n, f) ==
  LET x == Vals(c, Nils(n)) IN LastFirst(PushPinnedR0, x) \o CallDrop(f, x) \o Result(c, "R0", f)

emit_v32mouse_intrinsic(c) == mouse_call(c, 0, "x")

try_emit_mouse_namespace_intrinsic(c) ==
  CASE c.name \in {"mouse.pressed", "mouse.scale", "mouse.port"} -> mouse_call(c, 1, c.name)
    [] c.name \in {"mouse.buttons", "mouse.delta", "mouse.connected"} -> mouse_call(c, 0, c.name)
    [] c.name = "mouse.position" -> mouse_call(c, 2, c.name)
    [] OTHER -> mouse_call(c, 4, c.name)

\* stat without the mouse has nothing to report.
emit_pico8_stat_intrinsic(c) ==
  IF c.name = "stat+mouse" THEN mouse_call(c, 1, "stat")
  ELSE Flat([i \in 1..Arity(c) |-> Alloc("r") \o Eval(i, "r") \o Unlock("r")])
       \o (IF c.dest = 0 THEN <<>> ELSE Load("dest", "0.0") \o Result(c, "dest", "0.0"))

\* The arguments after the name of the map
TilemapAccess(c, n, f) ==
  AtLeast(c, n,
    LastFirst(PushVal, [i \in 1..n |-> Arg(i)])
    \o Constant("height") \o Constant("width") \o Constant("ram") \o Constant("rom")
    \o CallDrop(f, <<"rom", "ram", "width", "height">> \o [i \in 1..n |-> Arg(i)]) \o Result(c, "R0", f))
emit_vircon32_tilemap_get_intrinsic(c) == TilemapAccess(c, 2, "tile")
emit_vircon32_tilemap_set_intrinsic(c) == TilemapAccess(c, 3, "old")

KeyboardNames == {"kbd.read", "kbd.glyph", "kbd.port", "kbd.capslock", "kbd.clear"}
MouseNames ==
  {"mouse.pressed", "mouse.scale", "mouse.port", "mouse.buttons", "mouse.delta", "mouse.connected",
   "mouse.position", "mouse.bounds"}
DeviceNames ==
  {"key", "keyp", "mouse", "stat", "stat+mouse", "tilemap.get", "tilemap.set"} \cup KeyboardNames \cup MouseNames

DeviceCode(c) ==
  CASE c.name \in {"key", "keyp"} -> emit_v32kbd_key_intrinsic(c)
    [] c.name \in KeyboardNames -> try_emit_kbd_namespace_intrinsic(c)
    [] c.name = "mouse" -> emit_v32mouse_intrinsic(c)
    [] c.name \in MouseNames -> try_emit_mouse_namespace_intrinsic(c)
    [] c.name = "tilemap.get" -> emit_vircon32_tilemap_get_intrinsic(c)
    [] c.name = "tilemap.set" -> emit_vircon32_tilemap_set_intrinsic(c)
    [] OTHER -> emit_pico8_stat_intrinsic(c)
=============================================================================
