--------------------------- MODULE GpuIntrinsics ---------------------------
(***************************************************************************)
(* ioports.gpu.draw, blending and clear, rgba() and color()                *)
(* (src/intrinsics/gpu.c).  A number argument is one that spu_static_number *)
(* finds at compile time, folded into a constant; every other argument is  *)
(* evaluated.                                                              *)
(***************************************************************************)
EXTENDS EmittedCode

emit_gpu_draw_intrinsic(c) ==
  IF Arity(c) = 0 \/ Is(c, 1, {"string", "number"})
  THEN Out("GPU_Command", "draw", {}) \o ResultNil(c)
  ELSE Alloc("mode") \o Pin("mode") \o Eval(1, "mode")
       \o Alloc("scratch") \o Pin("scratch") \o Move("scratch", "mode", "x1")
       \o Apply("mode", "mode or 0", {<<"mode", "x1">>, <<"scratch", "x1">>})
       \o Out("GPU_Command", "draw", {<<"mode", "mode or 0">>}) \o ResultNil(c)
       \o Unpin("mode") \o Unpin("scratch") \o Unlock("scratch") \o Unlock("mode")

emit_gpu_blending_intrinsic(c) ==
  (IF Is(c, 1, {"string"}) THEN Out("GPU_ActiveBlending", "blend", {}) ELSE Refuse) \o ResultNil(c)

\* A colour component, clamped to 0..255, on the stack.
rgba_push_component(c, i) ==
  Alloc("reg") \o Pin("reg")
  \o (IF Is(c, i, {"number"}) THEN Load("reg", Arg(i))
      ELSE Alloc("bound") \o Pin("bound") \o Eval(i, "reg") \o Load("bound", "255.0")
           \o Apply("reg", Arg(i), {<<"reg", Arg(i)>>, <<"bound", "255.0">>})
           \o Unpin("bound") \o Unlock("bound"))
  \o Push("reg", Arg(i)) \o Unpin("reg") \o Unlock("reg")

HasAlpha(c) == Arity(c) = 4 /\ ~Is(c, 4, {"nil"})
Folded(c)   == (\A i \in 1..3 : Is(c, i, {"number"})) /\ (HasAlpha(c) => Is(c, 4, {"number"}))

\* rgba_static_word: the word is known at compile time.
rgba_static_word(c) == Arity(c) \in {3, 4} /\ Folded(c)

emit_pack_rgba(c) ==
  LET alpha == IF HasAlpha(c) THEN "x4" ELSE "255" IN
  IF (\E i \in 1..3 : Is(c, i, {"string", "nil"})) \/ Is(c, 4, {"string"}) THEN Refuse
  ELSE IF Folded(c) THEN Alloc("acc") \o Load("acc", "rgba")
  ELSE Flat([i \in 1..3 |-> rgba_push_component(c, i)])
       \o (IF HasAlpha(c) THEN rgba_push_component(c, 4) ELSE Load("R0", "255") \o Push("R0", "255"))
       \o Alloc("acc") \o Pin("acc") \o Alloc("tmp") \o Pin("tmp")
       \o Pop("acc", alpha)
       \o Pop("tmp", "x3") \o Apply("acc", "ab", {<<"acc", alpha>>, <<"tmp", "x3">>})
       \o Pop("tmp", "x2") \o Apply("acc", "abg", {<<"acc", "ab">>, <<"tmp", "x2">>})
       \o Pop("tmp", "x1") \o Apply("acc", "rgba", {<<"acc", "abg">>, <<"tmp", "x1">>})
       \o Unpin("tmp") \o Unlock("tmp") \o Unpin("acc")

emit_rgba_intrinsic(c) ==
  IF Arity(c) \notin {3, 4} THEN Refuse
  ELSE emit_pack_rgba(c) \o Result(c, "acc", "rgba") \o Unlock("acc")

\* The conversion routine __bit_in uses R1, R2, R3 and R7, saved around it.
emit_number_to_color_word(v, x) ==
  Save("R1") \o Save("R2") \o Save("R3") \o Save("R7")
  \o Move("R1", v, x) \o Load("R7", "0")
  \o RuntimeIn("R1", "word", {<<"R1", x>>, <<"R7", "0">>}, {1, 2, 3})
  \o Move("R0", "R1", "word")
  \o Restore("R7") \o Restore("R3") \o Restore("R2") \o Restore("R1")
  \o Move(v, "R0", "word")

\* A colour that is known to be a number is converted, other words are passed
\* on: v has ColorWord(c, i).
emit_color_word_arg(c, i, v) ==
  Eval(i, v)
  \o (IF Is(c, i, {"number", "numeric"}) THEN emit_number_to_color_word(v, Arg(i)) ELSE <<>>)

ColorWord(c, i) == IF Is(c, i, {"number", "numeric"}) THEN "word" ELSE Arg(i)

emit_color_intrinsic(c) ==
  IF Arity(c) # 1 \/ Is(c, 1, {"string", "nil"}) THEN Refuse
  ELSE IF Is(c, 1, {"number"}) THEN ResultOf(c, "word")
  ELSE Alloc("r") \o Eval(1, "r") \o emit_number_to_color_word("r", "x1")
       \o Result(c, "r", "word") \o Unlock("r")

\* clear(), clear(color) and clear(r, g, b [, a])
emit_gpu_clear_intrinsic(c) ==
  LET clear == Out("GPU_Command", "clear", IF Arity(c) = 0 THEN {} ELSE {<<"clearcolor", "color">>})
  IN CASE Arity(c) = 0 -> clear \o ResultNil(c)
       [] Arity(c) \in {3, 4} ->
            emit_pack_rgba(c) \o Out("clearcolor", "color", {<<"acc", "rgba">>}) \o Unlock("acc")
            \o clear \o ResultNil(c)
       [] Arity(c) = 1 ->
            Alloc("color") \o Pin("color")
            \o (IF Is(c, 1, {"string", "number"}) THEN Load("color", ColorWord(c, 1))
                ELSE emit_color_word_arg(c, 1, "color"))
            \o Out("clearcolor", "color", {<<"color", ColorWord(c, 1)>>}) \o Unpin("color") \o Unlock("color")
            \o clear \o ResultNil(c)
       [] OTHER -> Refuse

GpuNames == {"draw", "blending", "rgba", "colorword", "clear"}

GpuCode(c) ==
  CASE c.name = "draw"      -> emit_gpu_draw_intrinsic(c)
    [] c.name = "blending"  -> emit_gpu_blending_intrinsic(c)
    [] c.name = "rgba"      -> emit_rgba_intrinsic(c)
    [] c.name = "colorword" -> emit_color_intrinsic(c)
    [] OTHER                -> emit_gpu_clear_intrinsic(c)
=============================================================================
