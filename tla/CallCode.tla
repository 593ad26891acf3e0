------------------------------ MODULE CallCode ------------------------------
(***************************************************************************)
(* The code of a call of a Lua function, of the lists of values that a     *)
(* call, ... or table.unpack stand for at the end of a list, and of return *)
(* (src/node/function.c, multivalue.c, control.c).                         *)
(*                                                                         *)
(* Values 1 to 3 of a function come in R0, R2 and R3, the others in MV_BUF *)
(* from MV_BUF3 on, their number in RET_COUNT.  A list is in MV_BUF.       *)
(***************************************************************************)
EXTENDS ExpressionCode, LibraryIntrinsics, RoutineCalls

Parameters == 3   \* of the callee, or the most a function of the program has
Slots == <<"MV_BUF", "MV_BUF1", "MV_BUF2", "MV_BUF3", "MV_BUF4">>
Returned == <<"R0", "R2", "R3", "MV_BUF3", "MV_BUF4">>

force_spill_register(v, slot, x) == Out(slot, x, {<<v, x>>}) \o Unlock(v)
ensure_in_register(v, slot, x) == Move(v, slot, x) \o Lock(v)

-----------------------------------------------------------------------------
(***************************************************************************)
(* Lists.  i is the argument the list comes from, 0 for "...".             *)
(***************************************************************************)
Tail1(c) == IF c.name \in {"f(...)", "return ...", "a,b,c=..."} THEN 0 ELSE Arity(c)
Unpacks(c) == c.name \in {"f(unpack())", "f(unpack index)", "return unpack()"}

\* The expression turns out to be a library function with one value.
Single(c, i) == i # 0 /\ ~Unpacks(c) /\ ~Is(c, i, {"call"})

Source(c, i)    == IF i = 0 THEN "rest" ELSE IF Unpacks(c) THEN "element" ELSE Arg(i)
Value1(c, i, j) == Nth(Source(c, i), j)
CountOf(c, i)   == IF Single(c, i) THEN "one" ELSE Count(Source(c, i))

\* The rest of the code, for a list of no, one or two values
PerLength(c, i, Rest(_)) == IF Single(c, i) THEN Rest(1) ELSE Either(Rest(0), Either(Rest(1), Rest(2)))

Filled(c, i) ==
  Flat([j \in 1..4 |-> Out(Slots[j], Value1(c, i, j), {})]) \o Out("RET_COUNT", CountOf(c, i), {})

\* __mv_unpack: the number is stored before the elements are read; one that is
\* not in the array is looked for, which may call a function.
UnpackIntoBuf(c, i) ==
  AllocPinned("r") \o Eval(i, "r") \o Push("r", Arg(i)) \o Load("r", "nil") \o Push("r", "nil")
  \o Push("r", "nil") \o UnlockPinned("r") \o RuntimeIn("R0", "", Words(<<"nil", "nil", Arg(i)>>), {0})
  \o Filled(c, i) \o (IF c.name = "f(unpack index)" THEN Out("RET_COUNT", "one", {}) ELSE <<>>) \o Drop(3)

alloc_not_r2r3(v) == Avoiding(Alloc(v), {2, 3})

\* The list's values into MV_BUF, their number into RET_COUNT
emit_mv_to_buf(c, i) ==
  CASE i = 0 ->
         Load("R2", "count") \o Load("R1", "first")
         \o RuntimeIn("R0", "", {<<"R1", "first">>, <<"R2", "count">>}, 0..3) \o Filled(c, i)
    [] Unpacks(c) -> UnpackIntoBuf(c, i)
    [] OTHER ->
         alloc_not_r2r3("r") \o Eval(i, "r")
         \o (IF Single(c, i)
             THEN Out("MV_BUF", Arg(i), {<<"r", Arg(i)>>}) \o Load("r", "one") \o Out("RET_COUNT", "one", {<<"r", "one">>})
             ELSE Flat([j \in 1..3 |-> Out(Slots[j], Value1(c, i, j), {<<Returned[j], Value1(c, i, j)>>})]))
         \o Unlock("r")

\* For each of n targets the value of a list of length len, or nil
emit_mv_push_values(c, i, n, len) ==
  Alloc("r")
  \o Flat([j \in 1..n |->
       Move("r", "RET_COUNT", CountOf(c, i))
       \o (IF j <= len THEN Move("r", Slots[j], Value1(c, i, j)) \o Push("r", Value1(c, i, j))
           ELSE Load("r", "nil") \o Push("r", "nil"))])
  \o Unlock("r")

\* {..., f()}: the list goes into the table, which waits on the stack.
emit_mv_table_tail(c, i) ==
  Push("dest", "table") \o emit_mv_to_buf(c, i) \o Pop("dest", "table") \o Push("dest", "table")
  \o Load("R0", "base") \o Push("R0", "base")
  \o RuntimeIn("R0", "", Words(<<"base", "table">>) \cup {<<"RET_COUNT", CountOf(c, i)>>, <<"MV_BUF", Value1(c, i, 1)>>}, {0})
  \o Drop(1) \o Pop("dest", "table")

-----------------------------------------------------------------------------
(***************************************************************************)
(* Calls.  Argument 1 is the function, or a method's table; the others are *)
(* pushed from the last to the first, after nils for those left out.       *)
(***************************************************************************)
PushNils(n) ==
  IF n <= 0 THEN <<>>
  ELSE Alloc("pad") \o Load("pad", "nil") \o Flat([k \in 1..n |-> Push("pad", "nil")]) \o Unlock("pad")

PushArguments(last) ==
  Flat([k \in 1..last - 1 |->
    LET i == last + 1 - k IN Alloc("arg") \o Eval(i, "arg") \o Push("arg", Arg(i)) \o Unlock("arg")])

Self(c) == IF c.name = "a:f()" THEN <<"x1">> ELSE <<>>
Callee(c) == IF c.name = "a:f()" THEN "element" ELSE "x1"

CalleeValue(c) ==
  AllocPinned("target")
  \o (IF c.name = "a:f()"
      THEN AllocPinned("table") \o Alloc("method") \o Eval(1, "table") \o Load("method", "name")
           \o emit_getk_lookup("table", "x1", "method", "name", "target") \o Unlock("method")
           \o force_spill_register("table", "l.self", "x1")
      ELSE Eval(1, "target"))
  \o force_spill_register("target", "l.target", Callee(c))

PushSelf(c) ==
  IF Self(c) = <<>> THEN <<>>
  ELSE ensure_in_register("table", "l.self", "x1") \o Push("table", "x1") \o UnlockPinned("table")

CalleeReady(c) == ensure_in_register("target", "l.target", Callee(c)) \o Move("R0", "target", Callee(c)) \o UnlockPinned("target")

\* The words the callee finds: its parameters, in order
ParametersOf(c, last) == Self(c) \o [k \in 1..last - 1 |-> Arg(k + 1)]

CallFixed(c) ==
  LET n == Arity(c)
      missing == Parameters - Len(ParametersOf(c, n))
  IN CalleeValue(c) \o PushNils(missing) \o PushArguments(n) \o PushSelf(c) \o CalleeReady(c) \o Load("R13", "count")
     \o Runtime("value", {<<"R0", Callee(c)>>, <<"R13", "count">>} \cup Words(ParametersOf(c, n) \o Nils(missing)))
     \o Drop(Len(ParametersOf(c, n)) + IF missing > 0 THEN missing ELSE 0) \o Result(c, "R0", "value")

\* The last argument is a list: how many words it takes is not known, so the
\* stack is put back from a copy of SP.  Nil is pushed for a parameter the list
\* does not reach, if there is more than one parameter left for it.
CallList(c) ==
  LET i     == Tail1(c)
      last  == IF i = 0 THEN Arity(c) ELSE Arity(c) - 1
      need  == Parameters - (last - 1)
      list(len) == [j \in 1..len |-> Value1(c, i, j)]
      Rest(len) ==
        (IF need > 1 THEN Flat([k \in 1..(IF need > len THEN need - len ELSE 0) |-> Load("rv", "nil") \o Push("rv", "nil")])
         ELSE <<>>)
        \o Flat([k \in 1..len |-> LET j == len + 1 - k IN Move("rv", Slots[j], Value1(c, i, j)) \o Push("rv", Value1(c, i, j))])
        \o Apply("cnt", "arguments", {<<"cnt", CountOf(c, i)>>}) \o Unlock("rv") \o Unlock("rt")
        \o force_spill_register("cnt", "l.cnt", "arguments")
        \o PushArguments(last) \o CalleeReady(c)
        \o ensure_in_register("cnt", "l.cnt", "arguments") \o Move("R13", "cnt", "arguments") \o UnlockPinned("cnt")
        \o Runtime("value", {<<"R0", "x1">>, <<"R13", "arguments">>} \cup Words(ParametersOf(c, last) \o list(len) \o Nils(need - len)))
        \o ensure_in_register("sp", "l.sp", "SP0") \o Unwind("sp") \o UnlockPinned("sp")
        \o Result(c, "R0", "value")
  IN CalleeValue(c) \o Avoiding(AllocPinned("sp"), {2, 3}) \o Avoiding(AllocPinned("cnt"), {2, 3})
     \o Load("sp", "SP0") \o force_spill_register("sp", "l.sp", "SP0") \o emit_mv_to_buf(c, i)
     \o Alloc("rt") \o Alloc("rv") \o Move("cnt", "RET_COUNT", CountOf(c, i))
     \o PerLength(c, i, Rest)

node_function_call(c) ==
  IF c.name \in {"f(...)", "f(g())", "f(unpack())", "f(unpack index)"} THEN CallList(c) ELSE CallFixed(c)

-----------------------------------------------------------------------------
(***************************************************************************)
(* return.                                                                 *)
(***************************************************************************)
CallersSee(values, n) == Check({<<Returned[j], values[j]>> : j \in DOMAIN values} \cup {<<"RET_COUNT", n>>})

\* Values 4 and on are stored as they are evaluated.
ReturnFixed(c) ==
  LET n == Arity(c)
      pushed == IF n > 3 THEN 3 ELSE n
  IN Flat([i \in 1..n |->
       Alloc("val") \o Eval(i, "val")
       \o (IF i <= 3 THEN Push("val", Arg(i)) ELSE Out(Returned[i], Arg(i), {<<"val", Arg(i)>>})) \o Unlock("val")])
     \o Flat([k \in 1..pushed |-> Pop(Returned[pushed + 1 - k], Arg(pushed + 1 - k))])
     \o Flat([k \in 1..(3 - pushed) |-> Load(Returned[pushed + k], "nil")])
     \o Load("R1", "count") \o Out("RET_COUNT", "count", {<<"R1", "count">>})
     \o CallersSee([i \in 1..n |-> Arg(i)] \o Nils(3 - n), "count")

\* __mv_shift: the last value first
Shift(c, i, k) ==
  LET known == IF Single(c, i) THEN 1 ELSE 3
      moved == IF known + k > 5 THEN 5 - k ELSE known
  IN RuntimeIn("R0", "", {<<"R1", "leading">>}, {0, 2, 3})
     \o Flat([m \in 1..moved |->
          LET j == moved + 1 - m IN Out(Slots[j + k], Value1(c, i, j), {<<Slots[j], Value1(c, i, j)>>})])
     \o Out("RET_COUNT", "count", {<<"RET_COUNT", CountOf(c, i)>>})

\* return a, b, f(): the leading values wait on the stack for the list.
emit_mv_return(c) ==
  LET i == Tail1(c)
      k == IF i = 0 THEN Arity(c) ELSE Arity(c) - 1
      known == IF Single(c, i) THEN 1 ELSE 3
      all == [j \in 1..k |-> Arg(j)] \o [j \in 1..known |-> Value1(c, i, j)]
      returned == SubSeq(all, 1, IF Len(all) > 4 THEN 4 ELSE Len(all))
  IN IF k = 0 /\ i # 0 /\ ~Unpacks(c)
     THEN alloc_not_r2r3("r") \o Eval(i, "r")
          \o (IF Single(c, i) THEN Move("R0", "r", Arg(i)) \o Load("r", "one") \o Out("RET_COUNT", "one", {<<"r", "one">>})
              ELSE <<>>)
          \o Unlock("r") \o CallersSee([j \in 1..known |-> Value1(c, i, j)], CountOf(c, i))
     ELSE Flat([j \in 1..k |-> Alloc("r") \o Eval(j, "r") \o Push("r", Arg(j)) \o Unlock("r")])
          \o emit_mv_to_buf(c, i)
          \o (IF k = 0 THEN <<>>
              ELSE Load("R1", "leading") \o Shift(c, i, k)
                   \o Flat([m \in 1..k |-> LET j == k + 1 - m IN Pop("R0", Arg(j)) \o Out(Slots[j], Arg(j), {<<"R0", Arg(j)>>})]))
          \o Flat([j \in 1..3 |-> IF j <= Len(returned) THEN Move(Returned[j], Slots[j], returned[j]) ELSE <<>>])
          \o CallersSee(returned, IF k = 0 THEN CountOf(c, i) ELSE "count")

node_return(c) == IF c.name = "return" THEN ReturnFixed(c) ELSE emit_mv_return(c)

CallNames ==
  {"f()", "a:f()", "f(...)", "f(g())", "f(unpack())", "f(unpack index)", "{g()}",
   "return", "return ...", "return g()", "return unpack()"}

CallCode(c) ==
  CASE c.name \in {"return", "return ...", "return g()", "return unpack()"} -> node_return(c)
    [] c.name = "{g()}" ->
         Runtime("table", {}) \o Move("dest", "R0", "table") \o emit_mv_table_tail(c, Arity(c)) \o Result(c, "dest", "table")
    [] OTHER -> node_function_call(c)
=============================================================================
