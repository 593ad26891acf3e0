--------------------------- MODULE MathIntrinsics ---------------------------
(***************************************************************************)
(* The math library (src/intrinsics/math.c): the code emitted for a call   *)
(* of each function.  Clamps and other arithmetic on one register are part *)
(* of the instruction they prepare.                                        *)
(***************************************************************************)
EXTENDS EmittedCode

\* Exactly n arguments, or the program is refused.
Exactly(c, n, body) == IF Arity(c) = n THEN body ELSE Refuse

\* One argument, computed in its register.
Unary(c, f) ==
  Exactly(c, 1,
    Alloc("arg") \o Eval(1, "arg") \o Apply("arg", f, {<<"arg", "x1">>})
    \o Result(c, "arg", f) \o Unlock("arg"))

emit_math_floor_intrinsic(c) == Unary(c, "floor")
emit_math_sin_intrinsic(c)   == Unary(c, "sin")
emit_math_abs_intrinsic(c)   == Unary(c, "abs")
emit_math_ceil_intrinsic(c)  == Unary(c, "ceil")

emit_math_sqrt_intrinsic(c) ==
  Exactly(c, 1,
    Alloc("arg") \o Alloc("tmp") \o Eval(1, "arg") \o Load("tmp", "0.5")
    \o Apply("arg", "sqrt", {<<"arg", "x1">>, <<"tmp", "0.5">>})
    \o Result(c, "arg", "sqrt") \o Unlock("tmp") \o Unlock("arg"))

\* acos and log look at the operand in a second register first.
Guarded(c, f) ==
  Exactly(c, 1,
    Alloc("arg") \o Eval(1, "arg")
    \o Alloc("t") \o Move("t", "arg", "x1")
    \o Apply("arg", f, {<<"arg", "x1">>, <<"t", "x1">>}) \o Unlock("t")
    \o Result(c, "arg", f) \o Unlock("arg"))

emit_math_acos_intrinsic(c) == Guarded(c, "acos")
emit_math_log_intrinsic(c)  == Guarded(c, "log")

\* Two operands: the first is held on the stack while the second is evaluated.
EvalTwo(x, y) ==
  Alloc(x) \o Eval(1, x) \o Push(x, "x1") \o Alloc(y) \o Eval(2, y) \o Pop(x, "x1")

Binary(c, f) ==
  Exactly(c, 2,
    EvalTwo("x", "y") \o Apply("x", f, {<<"x", "x1">>, <<"y", "x2">>})
    \o Result(c, "x", f) \o Unlock("x") \o Unlock("y"))

emit_math_pow_intrinsic(c) == Binary(c, "pow")
emit_math_max_intrinsic(c) == Binary(c, "max")
emit_math_min_intrinsic(c) == Binary(c, "min")

emit_math_fmod_intrinsic(c) ==
  Exactly(c, 2,
    EvalTwo("x", "y")
    \o Alloc("t") \o Apply("t", "zero?", {<<"y", "x2">>})
    \o Apply("x", "fmod", {<<"x", "x1">>, <<"y", "x2">>, <<"t", "zero?">>}) \o Unlock("t")
    \o Result(c, "x", "fmod") \o Unlock("x") \o Unlock("y"))

emit_math_atan2_intrinsic(c) ==
  Exactly(c, 2,
    Alloc("y") \o Pin("y") \o Eval(1, "y") \o Push("y", "x1")
    \o Alloc("x") \o Pin("x") \o Eval(2, "x") \o Pop("y", "x1")
    \o Alloc("t") \o Alloc("u")
    \o Apply("t", "y = 0", {<<"y", "x1">>}) \o Apply("u", "x = 0", {<<"x", "x2">>})
    \o Apply("y", "atan2", {<<"y", "x1">>, <<"x", "x2">>, <<"t", "y = 0">>, <<"u", "x = 0">>})
    \o Result(c, "y", "atan2")
    \o Unlock("t") \o Unlock("u") \o Unpin("y") \o Unpin("x") \o Unlock("y") \o Unlock("x"))

emit_math_atan_intrinsic(c) ==
  Exactly(c, 1,
    AllocPinned("x") \o AllocPinned("one") \o Eval(1, "x") \o Load("one", "1.0")
    \o Apply("x", "atan", {<<"x", "x1">>, <<"one", "1.0">>})
    \o Result(c, "x", "atan") \o UnlockPinned("x") \o UnlockPinned("one"))

\* One argument on the stack for a runtime routine.
Routine(c, f, Take(_), Give(_)) ==
  Exactly(c, 1,
    Take("arg") \o Eval(1, "arg") \o Push("arg", "x1")
    \o Runtime(f, Words(<<"x1">>)) \o Drop(1)
    \o Result(c, "R0", f) \o Give("arg"))

emit_math_randomseed_intrinsic(c) == Routine(c, "nil", AllocPinned, UnlockPinned)
emit_math_cos_intrinsic(c)   == Routine(c, "cos", AllocPinned, UnlockPinned)
emit_math_exp_intrinsic(c)   == Routine(c, "exp", AllocPinned, UnlockPinned)
emit_math_log10_intrinsic(c) == Routine(c, "log10", AllocPinned, UnlockPinned)
emit_math_asin_intrinsic(c)  == Routine(c, "asin", Alloc, Unlock)
emit_math_tan_intrinsic(c)   == Routine(c, "tan", Alloc, Unlock)
emit_math_deg_intrinsic(c)   == Routine(c, "deg", Alloc, Unlock)
emit_math_rad_intrinsic(c)   == Routine(c, "rad", Alloc, Unlock)
emit_math_cosh_intrinsic(c)  == Routine(c, "cosh", Alloc, Unlock)
emit_math_sinh_intrinsic(c)  == Routine(c, "sinh", Alloc, Unlock)
emit_math_tanh_intrinsic(c)  == Routine(c, "tanh", Alloc, Unlock)
emit_math_modf_intrinsic(c)  == Routine(c, "modf", Alloc, Unlock)
emit_math_frexp_intrinsic(c) == Routine(c, "frexp", Alloc, Unlock)

emit_math_ldexp_intrinsic(c) ==
  Exactly(c, 2,
    Alloc("m") \o Eval(1, "m") \o Push("m", "x1") \o Alloc("e") \o Eval(2, "e") \o Push("e", "x2")
    \o Runtime("ldexp", Words(<<"x2", "x1">>)) \o Drop(2)
    \o Result(c, "R0", "ldexp") \o Unlock("m") \o Unlock("e"))

\* Two words always: a missing argument is pushed as nil.
emit_math_random_intrinsic(c) ==
  CASE Arity(c) = 0 ->
         Load("R0", "nil") \o Push("R0", "nil") \o Push("R0", "nil")
         \o Runtime("random", Words(<<"nil", "nil">>)) \o Drop(2) \o Result(c, "R0", "random")
    [] Arity(c) = 1 ->
         AllocPinned("r1") \o Eval(1, "r1") \o Push("r1", "x1") \o Pop("r1", "x1")
         \o Load("R0", "nil") \o Push("R0", "nil") \o Push("r1", "x1") \o UnlockPinned("r1")
         \o Runtime("random", Words(<<"x1", "nil">>)) \o Drop(2) \o Result(c, "R0", "random")
    [] Arity(c) = 2 ->
         AllocPinned("r1") \o Eval(1, "r1") \o Push("r1", "x1")
         \o AllocPinned("r2") \o Eval(2, "r2") \o Pop("r1", "x1") \o Push("r2", "x2")
         \o UnlockPinned("r2") \o Push("r1", "x1") \o UnlockPinned("r1")
         \o Runtime("random", Words(<<"x1", "x2">>)) \o Drop(2) \o Result(c, "R0", "random")
    [] OTHER -> Refuse

MathNames ==
  {"floor", "sin", "abs", "ceil", "sqrt", "acos", "log", "pow", "max", "min", "fmod", "atan2",
   "atan", "randomseed", "cos", "exp", "log10", "asin", "tan", "deg", "rad", "cosh", "sinh",
   "tanh", "modf", "frexp", "ldexp", "random"}

MathCode(c) ==
  CASE c.name = "floor" -> emit_math_floor_intrinsic(c)
    [] c.name = "sin" -> emit_math_sin_intrinsic(c)
    [] c.name = "abs" -> emit_math_abs_intrinsic(c)
    [] c.name = "ceil" -> emit_math_ceil_intrinsic(c)
    [] c.name = "sqrt" -> emit_math_sqrt_intrinsic(c)
    [] c.name = "acos" -> emit_math_acos_intrinsic(c)
    [] c.name = "log" -> emit_math_log_intrinsic(c)
    [] c.name = "pow" -> emit_math_pow_intrinsic(c)
    [] c.name = "max" -> emit_math_max_intrinsic(c)
    [] c.name = "min" -> emit_math_min_intrinsic(c)
    [] c.name = "fmod" -> emit_math_fmod_intrinsic(c)
    [] c.name = "atan2" -> emit_math_atan2_intrinsic(c)
    [] c.name = "atan" -> emit_math_atan_intrinsic(c)
    [] c.name = "randomseed" -> emit_math_randomseed_intrinsic(c)
    [] c.name = "cos" -> emit_math_cos_intrinsic(c)
    [] c.name = "exp" -> emit_math_exp_intrinsic(c)
    [] c.name = "log10" -> emit_math_log10_intrinsic(c)
    [] c.name = "asin" -> emit_math_asin_intrinsic(c)
    [] c.name = "tan" -> emit_math_tan_intrinsic(c)
    [] c.name = "deg" -> emit_math_deg_intrinsic(c)
    [] c.name = "rad" -> emit_math_rad_intrinsic(c)
    [] c.name = "cosh" -> emit_math_cosh_intrinsic(c)
    [] c.name = "sinh" -> emit_math_sinh_intrinsic(c)
    [] c.name = "tanh" -> emit_math_tanh_intrinsic(c)
    [] c.name = "modf" -> emit_math_modf_intrinsic(c)
    [] c.name = "frexp" -> emit_math_frexp_intrinsic(c)
    [] c.name = "ldexp" -> emit_math_ldexp_intrinsic(c)
    [] OTHER -> emit_math_random_intrinsic(c)
=============================================================================
