---------------------------- MODULE StatementCode ----------------------------
(***************************************************************************)
(* The code of assignments to several targets, of loops, and of a          *)
(* function's entry and exit (src/node/multiple_assignment.c, loop.c,      *)
(* function.c; variables from src/emit.c).                                 *)
(***************************************************************************)
EXTENDS CallCode

\* __malloc keeps R0 for its result and uses R1, R2, R3 and R6.
Malloc(x, size) == Load("R0", size) \o Push("R0", size) \o RuntimeIn("R0", x, Words(<<size>>), {1, 2, 3, 6}) \o Drop(1)

\* A local that a closure captures lives in a box on the heap.
emit_initialize_local(v, slot, x) ==
  Either(Out(slot, x, {<<v, x>>}),
         Push(v, x) \o Malloc("box", "size") \o Pop(v, x) \o Out(slot, x, {<<"R0", "box">>, <<v, x>>}))

emit_store_variable(v, slot, x) ==
  Either(Out(slot, x, {<<v, x>>}),
         AllocPinned("box") \o Load("box", "box") \o Out(slot, x, {<<"box", "box">>, <<v, x>>}) \o UnlockPinned("box"))

\* The body of a loop: nothing but memory survives it.
Body == Runtime(Junk, {})

-----------------------------------------------------------------------------
(***************************************************************************)
(* Assignment to several targets.  The values are the first arguments, the *)
(* tables and keys of the targets the last.                                *)
(***************************************************************************)
Targets(c) ==
  CASE c.name \in {"a,b=", "a,b=f()", "a,b=lib()", "local a,b"} -> <<"l.a", "l.b">>
    [] c.name \in {"a,b,c=", "a,b,c=f()", "a,b,c=g()", "a,b,c=..."} -> <<"l.a", "l.b", "l.c">>
    [] c.name = "a,b,c,d=f()" -> <<"l.a", "l.b", "l.c", "l.d">>
    [] c.name \in {"a[i],b=", "a[i],b=unpack"} -> <<"[]", "l.b">>
    [] c.name \in {"a[i],b[j]=", "a[i],b[j]=f()"} -> <<"[]", "[]">>

Tables(c, i) == Cardinality({j \in 1..i : Targets(c)[j] = "[]"})
Values(c) == Arity(c) - 2 * Tables(c, Len(Targets(c)))
TableOf(c, i) == Values(c) + 2 * Tables(c, i) - 1
StackWord(k) == "S" \o ToString(k)

StoreElement(v, x, t, k) ==
  Push("table", Arg(t)) \o Push("key", Arg(k)) \o Push(v, x) \o Runtime("", Words(<<x, Arg(k), Arg(t)>>)) \o Drop(3)

Hold(v, body, x) == AllocPinned(v) \o body \o Push(v, x) \o UnlockPinned(v)

\* The tables and keys of several targets, evaluated before the values.
pretarget_begin(c) ==
  Flat([i \in 1..Len(Targets(c)) |->
    IF Targets(c)[i] # "[]" THEN <<>>
    ELSE LET t == TableOf(c, i) IN Hold("r", Eval(t, "r"), Arg(t)) \o Hold("r", Eval(t + 1, "r"), Arg(t + 1))])

PreWords(c) == 2 * Tables(c, Len(Targets(c)))
pretarget_end(c) == Drop(PreWords(c))

store_target_atBelow(c, i, v, x) ==   \* mutant: the words left of the other values are not counted
  IF Targets(c)[i] # "[]" THEN emit_store_variable(v, Targets(c)[i], x)
  ELSE LET t == TableOf(c, i)
           off == PreWords(c) - 1 - (2 * Tables(c, i) - 2)
       IN AllocPinned("table") \o AllocPinned("key") \o Move("table", StackWord(off + 1), Arg(t))
          \o Move("key", StackWord(off), Arg(t + 1)) \o StoreElement(v, x, t, t + 1) \o UnlockPinned("table") \o UnlockPinned("key")

\* The i - 1 values not yet stored lie above the tables and keys.
store_target_at(c, i, v, x) ==
  IF Targets(c)[i] # "[]" THEN emit_store_variable(v, Targets(c)[i], x)
  ELSE LET t == TableOf(c, i)
           off == (i - 1) + (PreWords(c) - 1 - (2 * Tables(c, i) - 2))
       IN AllocPinned("table") \o AllocPinned("key") \o Move("table", StackWord(off + 1), Arg(t))
          \o Move("key", StackWord(off), Arg(t + 1)) \o StoreElement(v, x, t, t + 1) \o UnlockPinned("table") \o UnlockPinned("key")

\* A table not evaluated beforehand: the value waits for table and key.
store_assignment_target(c, i, v, x) ==
  IF Targets(c)[i] # "[]" THEN emit_store_variable(v, Targets(c)[i], x)
  ELSE LET t == TableOf(c, i) IN
       Push(v, x) \o AllocPinned("table") \o AllocPinned("key") \o Eval(t, "table") \o Push("table", Arg(t))
       \o Eval(t + 1, "key") \o Pop("table", Arg(t)) \o Pop(v, x) \o StoreElement(v, x, t, t + 1)
       \o UnlockPinned("table") \o UnlockPinned("key")

\* The values, on the stack, go to their targets from the last to the first.
PopToTargets(c, values) ==
  LET n == Len(Targets(c)) IN
  Flat([k \in 1..n |-> LET i == n + 1 - k IN
    AllocPinned("val") \o Pop("val", values[i]) \o store_target_at(c, i, "val", values[i]) \o UnlockPinned("val")])

Assigned1(c, values) ==
  pretarget_end(c)
  \o Check({<<Targets(c)[i], values[i]>> : i \in {j \in DOMAIN Targets(c) : Targets(c)[j] # "[]"}})

FirstN(values, n) == SubSeq(values, 1, IF Len(values) > n THEN n ELSE Len(values))
Padded(c, values) == LET n == Len(Targets(c)) IN FirstN(values, n) \o Nils(n - Len(values))

\* As many values as there are targets are evaluated; nil for those missing.
AssignFixed(c) ==
  LET values == Padded(c, [i \in 1..Values(c) |-> Arg(i)]) IN
  pretarget_begin(c)
  \o Flat([i \in DOMAIN values |->
       Hold("tmp", IF values[i] = "nil" THEN Load("tmp", "nil") ELSE Eval(i, "tmp"), values[i])])
  \o PopToTargets(c, values) \o Assigned1(c, values)

\* The last value is a list.
AssignList(c) ==
  LET i == Tail1(c)
      k == IF i = 0 THEN Values(c) ELSE Values(c) - 1
      n == Len(Targets(c)) - k
      Rest(len) ==
        LET values == [j \in 1..k |-> Arg(j)] \o [j \in 1..n |-> IF j <= len THEN Value1(c, i, j) ELSE "nil"]
        IN emit_mv_push_values(c, i, n, len) \o PopToTargets(c, values) \o Assigned1(c, values)
  IN pretarget_begin(c) \o Flat([j \in 1..k |-> Hold("tmp", Eval(j, "tmp"), Arg(j))])
     \o emit_mv_to_buf(c, i) \o PerLength(c, i, Rest)

\* A function known to return so many values: they are copied from their
\* registers, which are locked meanwhile, then parked.
AssignStatic(c) ==
  LET n == IF c.name = "a,b=f()" THEN 2 ELSE IF c.name = "a,b,c=f()" THEN 3 ELSE 4
      x(j) == Nth("x1", j)
      reg(j) == "v" \o ToString(j)
      raw == IF n < 3 THEN <<"R2">> ELSE <<"R2", "R3">>
      values == [j \in 1..n |-> x(j)]
  IN Eval(1, "R0") \o Flat([j \in DOMAIN raw |-> Lock(raw[j])])
     \o Flat([j \in 1..n |-> Alloc(reg(j)) \o Move(reg(j), Returned[j], x(j))]) \o Flat([j \in DOMAIN raw |-> Unlock(raw[j])])
     \o Flat([j \in 1..n |-> Push(reg(j), x(j))]) \o Flat([j \in 1..n |-> Unlock(reg(j))])
     \o PopToTargets(c, values) \o Assigned1(c, values)

\* A function of which nothing is known: three values, fewer if it says so.
AssignDynamic(c) ==
  LET n == Len(Targets(c))
      called == c.name # "a,b=lib()"
      x(j, len) == IF j <= len THEN Nth("x1", j) ELSE "nil"
      values(len) == [j \in 1..3 |-> x(j, len)]
      Rest(len) ==
        (IF called THEN Flat([j \in 1..3 |-> IF j > len THEN Load("v" \o ToString(j), "nil") ELSE <<>>]) ELSE <<>>)
        \o Flat([j \in 1..n |-> IF j <= 3 THEN Push("v" \o ToString(j), x(j, len)) ELSE Load("v3", "nil") \o Push("v3", "nil")])
        \o Unlock("v1") \o Unlock("v2") \o Unlock("v3")
        \o PopToTargets(c, Padded(c, values(len))) \o Assigned1(c, Padded(c, values(len)))
  IN pretarget_begin(c) \o alloc_not_r2r3("v1") \o Eval(1, "v1") \o alloc_not_r2r3("v2") \o alloc_not_r2r3("v3")
     \o (IF called
         THEN Move("v2", "R2", Nth("x1", 2)) \o Move("v3", "R3", Nth("x1", 3))
              \o Alloc("n") \o Move("n", "RET_COUNT", Count("x1")) \o Unlock("n")
              \o Either(Rest(1), Either(Rest(2), Rest(3)))
         ELSE Load("v2", "nil") \o Load("v3", "nil") \o Rest(1))

\* local a, b: the locals are set to nil one by one.
DeclareLocals(c) ==
  Flat([i \in DOMAIN Targets(c) |->
    Alloc("temp") \o Load("temp", "nil") \o emit_initialize_local("temp", Targets(c)[i], "nil") \o Unlock("temp")])

emit_multiple_assignment_table_unpack(c) ==
  emit_table_unpack_resolve_bounds([c EXCEPT !.args = <<c.args[1]>>])
  \o Flat([i \in DOMAIN Targets(c) |->
       Alloc("val") \o emit_table_unpack_fetch_element("val") \o store_assignment_target(c, i, "val", "element")
       \o Unlock("val")])
  \o Check({<<"l.b", "element">>})

node_multiple_assignment(c) ==
  CASE c.name = "local a,b" -> DeclareLocals(c)
    [] c.name = "a[i],b=unpack" -> emit_multiple_assignment_table_unpack(c)
    [] c.name \in {"a,b,c=g()", "a,b,c=..."} -> AssignList(c)
    [] c.name \in {"a,b=f()", "a,b,c=f()", "a,b,c,d=f()"} -> AssignStatic(c)
    [] c.name = "a,b=lib()" \/ (Values(c) = 1 /\ Is(c, 1, {"call"})) -> AssignDynamic(c)
    [] OTHER -> AssignFixed(c)

-----------------------------------------------------------------------------
(***************************************************************************)
(* Loops: what a loop keeps lies in hidden locals.  Two rounds.            *)
(***************************************************************************)
node_while(c)  == TruthOf(c, 1) \o Maybe(Body)
node_repeat(c) == Body \o TruthOf(c, 1)

NumericRound(c, i) ==
  Alloc("idx") \o Alloc("lim") \o Alloc("val") \o Move("idx", "l.ctrl", i) \o Move("val", "idx", i) \o Move("lim", "l.limit", "x1")
  \o (IF Arity(c) = 3 THEN Alloc("step") \o Move("step", "l.step", "x2") \o Unlock("step") ELSE <<>>)
  \o Apply("idx", "past?", {<<"idx", i>>, <<"lim", "x1">>})
  \o emit_initialize_local("val", "l.index", i) \o Unlock("idx") \o Unlock("lim") \o Unlock("val")
  \o Body
  \o Alloc("calc") \o Alloc("st") \o Move("calc", "l.ctrl", i) \o Move("st", "l.step", IF Arity(c) = 3 THEN "x2" ELSE "one")
  \o Apply("calc", "next", {<<"calc", i>>}) \o Out("l.ctrl", "next", {<<"calc", "next">>}) \o Unlock("calc") \o Unlock("st")

\* for i = start, limit, step: arguments 1 limit, 2 step, the last start.
node_for_numeric(c) ==
  LET start == Arg(Arity(c)) IN
  Alloc("scratch") \o Eval(1, "scratch") \o Out("l.limit", "x1", {<<"scratch", "x1">>})
  \o (IF Arity(c) = 3 THEN Eval(2, "scratch") \o Out("l.step", "x2", {<<"scratch", "x2">>})
      ELSE Load("scratch", "one") \o Out("l.step", "one", {<<"scratch", "one">>}))
  \o Eval(Arity(c), "scratch") \o Out("l.ctrl", start, {<<"scratch", start>>}) \o emit_initialize_local("scratch", "l.index", start)
  \o Unlock("scratch") \o Maybe(NumericRound(c, start) \o Maybe(NumericRound(c, "next")))

GenericRound(key, iter, state) ==
  LET new == Nth("step", 1) IN
  Alloc("arg") \o Move("arg", "l.key", key) \o Push("arg", key) \o Move("arg", "l.state", state) \o Push("arg", state) \o Unlock("arg")
  \o Move("R0", "l.iter", iter) \o Load("R13", "two")
  \o Runtime(new, {<<"R0", iter>>, <<"R13", "two">>} \cup Words(<<state, key>>))
  \o Load("R2", Nth("step", 2)) \o Load("R3", Nth("step", 3)) \o Drop(2)
  \o Lock("R2") \o Lock("R3") \o Alloc("check") \o Move("check", "R0", new) \o Alloc("nil?") \o Move("nil?", "check", new)
  \o Unlock("nil?") \o Unlock("check") \o Out("l.key", new, {<<"R0", new>>})
  \o Push("R0", new) \o Push("R2", Nth("step", 2)) \o Push("R3", Nth("step", 3)) \o Unlock("R2") \o Unlock("R3")
  \o Flat([k \in 1..3 |-> LET i == 4 - k IN
       Alloc("tmp") \o Pop("tmp", Nth("step", i)) \o emit_initialize_local("tmp", <<"l.a", "l.b", "l.c">>[i], Nth("step", i))
       \o Unlock("tmp")])
  \o Check({<<"l.a", new>>, <<"l.b", Nth("step", 2)>>, <<"l.c", Nth("step", 3)>>})
  \o Body

\* for a, b, c in iterator, state, key, or in the values of one call
node_for_generic(c) ==
  LET x(i) == IF Arity(c) = 1 THEN Nth("x1", i) ELSE IF Has(c, i) THEN Arg(i) ELSE "nil"
      list == Eval(1, "iter_r") \o Push("iter_r", "x1") \o Eval(2, "state_r") \o Push("state_r", "x2")
              \o (IF Has(c, 3) THEN Eval(3, "key_r") ELSE <<>>) \o Pop("state_r", "x2") \o Pop("iter_r", "x1")
              \o Move("R0", "iter_r", "x1") \o Move("R2", "state_r", "x2")
              \o (IF Has(c, 3) THEN Move("R3", "key_r", "x3") ELSE Load("R3", "nil"))
  IN AllocPinned("iter_r") \o AllocPinned("state_r") \o AllocPinned("key_r")
     \o (IF Arity(c) = 1 THEN Eval(1, "R0") ELSE list)
     \o Out("l.iter", x(1), {<<"R0", x(1)>>}) \o Out("l.state", x(2), {<<"R2", x(2)>>}) \o Out("l.key", x(3), {<<"R3", x(3)>>})
     \o UnlockPinned("iter_r") \o UnlockPinned("state_r") \o UnlockPinned("key_r")
     \o Maybe(GenericRound(x(3), x(1), x(2)) \o Maybe(GenericRound("step", x(1), x(2))))

AllRound(i, prev) ==
  LET inline == Alloc("ra") \o Alloc("rb") \o Alloc("rc") \o Alloc("rd")
                \o Move("ra", "l.all_t", "x1") \o Move("rc", "ra", "x1") \o Move("rb", "l.all_i", i)
                \o Apply("rc", "capacity", {<<"ra", "x1">>}) \o Apply("rd", "limit", {<<"ra", "x1">>, <<"rc", "capacity">>})
                \o Apply("rc", "past?", {<<"rb", i>>, <<"rd", "limit">>}) \o Apply("ra", "place", {<<"ra", "x1">>, <<"rb", i>>})
                \o Apply("rc", "element", {<<"ra", "place">>}) \o Move("R0", "l.all_prev", prev)
                \o Maybe(Apply("rb", i, {<<"rb", i>>}) \o Apply("ra", "place", {<<"ra", "place">>}))
                \o Apply("R0", "element", {<<"ra", "place">>}) \o Out("l.all_i", "i", {<<"rb", i>>})
                \o Out("l.all_prev", "element", {<<"R0", "element">>})
                \o Unlock("rd") \o Unlock("rc") \o Unlock("rb") \o Unlock("ra")
      slow == Alloc("reg") \o Move("reg", "l.all_prev", prev) \o Push("reg", prev) \o Move("reg", "l.all_i", i) \o Push("reg", i)
              \o Move("reg", "l.all_t", "x1") \o Push("reg", "x1") \o Unlock("reg") \o Runtime("element", Words(<<"x1", i, prev>>))
              \o Load("R2", "i") \o Drop(3) \o Out("l.all_i", "i", {<<"R2", "i">>}) \o Out("l.all_prev", "element", {<<"R0", "element">>})
              \o Alloc("reg") \o Move("reg", "R0", "element") \o Unlock("reg")
  IN Either(inline, slow) \o Alloc("reg") \o Move("reg", "l.all_prev", "element") \o emit_initialize_local("reg", "l.a", "element")
     \o Unlock("reg") \o Body

\* for v in all(t)
node_for_all(c) ==
  Alloc("reg") \o Eval(1, "reg") \o Out("l.all_t", "x1", {<<"reg", "x1">>}) \o Load("reg", "1") \o Out("l.all_i", "1", {<<"reg", "1">>})
  \o Load("reg", "nil") \o Out("l.all_prev", "nil", {<<"reg", "nil">>}) \o Unlock("reg")
  \o Maybe(AllRound("1", "nil") \o Maybe(AllRound("i", "element")))

-----------------------------------------------------------------------------
\* A function is entered with its argument count in R13; it leaves nil and no
\* value when its end is reached.  A captured parameter is put in a box.
node_function_def(c) ==
  Load("R13", "count") \o Out("l.varargs", "count", {<<"R13", "count">>})
  \o Out("l.p1", "l.p1", {}) \o Out("l.p2", "l.p2", {})
  \o Flat([j \in 1..3 |-> Load(Returned[j], "nil")])
  \o Flat([i \in 1..2 |-> LET p == <<"l.p1", "l.p2">>[i] IN
       Maybe(Alloc("tmp") \o Move("tmp", p, p) \o emit_initialize_local("tmp", p, p) \o Unlock("tmp"))])
  \o Body \o Flat([j \in 1..3 |-> Load(Returned[j], "nil")]) \o Load("R1", "none") \o Out("RET_COUNT", "none", {<<"R1", "none">>})
  \o Check({<<"R0", "nil">>, <<"R2", "nil">>, <<"R3", "nil">>, <<"RET_COUNT", "none">>, <<"l.varargs", "count">>})

\* A closure's record; R0 is the caller's.
emit_load_function_value(c) ==
  Load("R0", "mine") \o Push("R0", "mine") \o Malloc("record", "size") \o AllocPinned("rec") \o Move("rec", "R0", "record")
  \o Load("R0", "code") \o Load("R0", "captured") \o Pop("R0", "mine")
  \o Flat([i \in 1..2 |-> AllocPinned("tmp") \o Load("tmp", "box") \o Apply("tmp", "box", {<<"rec", "record">>, <<"tmp", "box">>})
                          \o UnlockPinned("tmp")])
  \o Move("dest", "rec", "record") \o UnlockPinned("rec") \o Check({<<"R0", "mine">>}) \o Result(c, "dest", "record")

StatementNames ==
  {"a,b=", "a,b=lib()", "a,b,c=", "a[i],b=", "a[i],b[j]=", "a[i],b[j]=f()", "a,b,c=g()", "a,b,c=...", "a,b=f()", "a,b,c=f()", "a,b,c,d=f()",
   "local a,b", "a[i],b=unpack", "while", "repeat", "for i", "for in", "for all", "function", "closure"}

StatementCodeOf(c) ==
  CASE c.name = "while" -> node_while(c)
    [] c.name = "repeat" -> node_repeat(c)
    [] c.name = "for i" -> node_for_numeric(c)
    [] c.name = "for in" -> node_for_generic(c)
    [] c.name = "for all" -> node_for_all(c)
    [] c.name = "function" -> node_function_def(c)
    [] c.name = "closure" -> emit_load_function_value(c)
    [] OTHER -> node_multiple_assignment(c)
=============================================================================
