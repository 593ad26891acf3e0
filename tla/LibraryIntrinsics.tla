------------------------- MODULE LibraryIntrinsics -------------------------
(***************************************************************************)
(* The table and string libraries, print, the iterators and the clock      *)
(* (src/intrinsics: table.c, string.c, print.c, iter.c, hex.c, input.c,    *)
(* timing.c; src/table.c for unpack).                                      *)
(***************************************************************************)
EXTENDS EmittedCode

\* Argument i in a register, or nil when it is left out.
EvalOr(c, i, v) == IF Has(c, i) THEN Eval(i, v) ELSE Load(v, "nil")
Given(c, i)     == IF Has(c, i) THEN Arg(i) ELSE "nil"

-----------------------------------------------------------------------------
(***************************************************************************)
(* table: operands wait on the stack, are taken back into their registers  *)
(* once the last is evaluated, and pushed again for the routine.           *)
(***************************************************************************)
Name(i) == <<"r1", "r2", "r3", "r4", "r5">>[i]

\* The routine gets the n operands, the first pushed first.
Operands(c, n) ==
  LET waits(i)  == Push(Name(i), Given(c, i))
      reload(i) == Pop(Name(i), Given(c, i))
  IN Flat([i \in 1..n |-> Alloc(Name(i)) \o EvalOr(c, i, Name(i)) \o IF i < n THEN waits(i) ELSE <<>>])
     \o Flat([i \in 1..n-1 |-> reload(n - i)])
     \o Flat([i \in 1..n |-> waits(i)])

TableCall(c, n, f) ==
  Operands(c, n) \o Runtime(f, Words([i \in 1..n |-> Given(c, n + 1 - i)])) \o Drop(n)
  \o Result(c, "R0", f) \o Flat([i \in 1..n |-> Unlock(Name(i))])

\* table.insert (t, value) appends: its position is nil.
emit_table_insert_intrinsic(c) ==
  LET pos == IF Arity(c) = 3 THEN "x2" ELSE "nil"
      val == IF Arity(c) = 3 THEN 3 ELSE 2
  IN AtLeast(c, 2,
       Alloc("t") \o Eval(1, "t") \o Push("t", "x1")
       \o Alloc("pos") \o (IF Arity(c) = 3 THEN Eval(2, "pos") ELSE Load("pos", "nil")) \o Push("pos", pos)
       \o Alloc("val") \o Eval(val, "val") \o Pop("pos", pos) \o Pop("t", "x1")
       \o Push("t", "x1") \o Push("pos", pos) \o Push("val", Arg(val))
       \o Runtime("insert", Words(<<Arg(val), pos, "x1">>)) \o Drop(3) \o Result(c, "R0", "insert")
       \o Unlock("t") \o Unlock("pos") \o Unlock("val"))

emit_table_remove_intrinsic(c) == AtLeast(c, 1, TableCall(c, 2, "remove"))
emit_table_sort_intrinsic(c)   == AtLeast(c, 1, TableCall(c, 2, "sort"))
emit_table_concat_intrinsic(c) == AtLeast(c, 1, TableCall(c, 4, "concat"))
emit_table_move_intrinsic(c)   == AtLeast(c, 4, TableCall(c, 5, "move"))

\* __builtin_table_set keeps the registers up to R8.
TableSet(key, value) ==
  Push("t", "table") \o Push("key", key) \o Push("val", value)
  \o RuntimeIn("R0", "", Words(<<value, key, "table">>), {0} \cup 9..Last) \o Drop(3)

\* The table is on the stack while a value is evaluated.
PackOne(i) ==
  Push("t", "table") \o Alloc("val") \o Eval(i, "val") \o Push("val", Arg(i)) \o Pop("val", Arg(i))
  \o Pop("t", "table") \o Alloc("key") \o Load("key", "index") \o TableSet("index", Arg(i))
  \o Unlock("val") \o Unlock("key")

emit_table_pack_intrinsic(c) ==
  Runtime("table", {}) \o Alloc("t") \o Move("t", "R0", "table")
  \o Flat([i \in 1..Arity(c) |-> PackOne(i)])
  \o Alloc("key") \o Load("key", "n") \o Alloc("val") \o Load("val", "count") \o TableSet("n", "count")
  \o Unlock("key") \o Unlock("val") \o Result(c, "t", "table") \o Unlock("t")

\* Table and bounds wait in three globals of this call site.
emit_table_unpack_resolve_bounds(c) ==
  Alloc("reg") \o Eval(1, "reg") \o Out("unpack_t", "x1", {<<"reg", "x1">>}) \o Unlock("reg")
  \o Alloc("reg") \o (IF Has(c, 2) THEN Eval(2, "reg") ELSE Load("reg", "1.0"))
  \o Out("unpack_i", "first", {}) \o Unlock("reg")
  \o Alloc("reg")
  \o (IF Has(c, 3) THEN Eval(3, "reg")
      ELSE Move("reg", "unpack_t", "x1") \o Push("reg", "x1") \o Runtime("length", Words(<<"x1">>)) \o Drop(1)
           \o Move("reg", "R0", "length"))
  \o Out("unpack_j", "last", {}) \o Unlock("reg")

emit_table_unpack_fetch_element(v) ==
  Alloc("idx") \o Move("idx", "unpack_i", "first") \o Alloc("j") \o Move("j", "unpack_j", "last")
  \o Apply("idx", "beyond?", {<<"idx", "first">>, <<"j", "last">>})
  \o Alloc("t") \o Move("t", "unpack_t", "x1") \o Alloc("fetch") \o Move("fetch", "unpack_i", "first")
  \o Push("t", "x1") \o Push("fetch", "first") \o Runtime("element", Words(<<"first", "x1">>)) \o Drop(2)
  \o Move(v, "R0", "element") \o Unlock("t") \o Unlock("fetch") \o Unlock("idx") \o Unlock("j")

emit_table_unpack_intrinsic(c) ==
  AtLeast(c, 1,
    emit_table_unpack_resolve_bounds(c)
    \o (IF c.dest = 0 THEN <<>>
        ELSE emit_table_unpack_fetch_element("dest") \o Result(c, "dest", "element")))

-----------------------------------------------------------------------------
(***************************************************************************)
(* string: the operands are pushed in order and the words then swapped, so *)
(* that the routine finds the first on top.                                *)
(***************************************************************************)
push_string_args(c, n, end) ==
  LET pushed == n + IF end THEN 1 ELSE 0 IN
  Flat([i \in 1..n |-> Alloc("reg") \o EvalOr(c, i, "reg") \o Push("reg", Given(c, i)) \o Unlock("reg")])
  \o (IF end THEN Load("R0", "nil") \o Push("R0", "nil") ELSE <<>>)
  \o (IF pushed > 1 THEN Alloc("ra") \o Alloc("rb") \o Reverse(pushed, {}) \o Unlock("rb") \o Unlock("ra")
      ELSE <<>>)

StringWords(c, n, end) == [i \in 1..n |-> Given(c, i)] \o IF end THEN <<"nil">> ELSE <<>>

call_string_routine(c, f, n, end) ==
  push_string_args(c, n, end) \o Runtime(f, Words(StringWords(c, n, end)))
  \o Drop(n + IF end THEN 1 ELSE 0) \o Result(c, "R0", f)

emit_string_byte_intrinsic(c) == AtLeast(c, 1, call_string_routine(c, "byte", 3, FALSE))
emit_string_char_intrinsic(c) == call_string_routine(c, "char", Arity(c), TRUE)
emit_string_sub_intrinsic(c)  == AtLeast(c, 2, call_string_routine(c, "sub", 3, FALSE))
emit_string_rep_intrinsic(c)  == AtLeast(c, 2, call_string_routine(c, "rep", 2, FALSE))
emit_string_find_intrinsic(c) == AtLeast(c, 2, call_string_routine(c, "find", 2, FALSE))
emit_string_gsub_intrinsic(c) == AtLeast(c, 3, call_string_routine(c, "gsub", 3, FALSE))

\* One argument, in a pinned register.
OneString(c, f) ==
  AllocPinned("arg") \o Eval(1, "arg") \o Push("arg", "x1")
  \o Runtime(f, Words(<<"x1">>)) \o Drop(1) \o Result(c, "R0", f) \o UnlockPinned("arg")

emit_tostring_intrinsic(c)       == IF Arity(c) = 1 THEN OneString(c, "tostring") ELSE Refuse
emit_string_len_intrinsic(c)     == AtLeast(c, 1, OneString(c, "len"))
emit_string_upper_intrinsic(c)   == AtLeast(c, 1, OneString(c, "upper"))
emit_string_lower_intrinsic(c)   == AtLeast(c, 1, OneString(c, "lower"))
emit_string_reverse_intrinsic(c) == AtLeast(c, 1, OneString(c, "reverse"))

emit_tonumber_intrinsic(c) ==
  CASE Arity(c) = 1 -> OneString(c, "tonumber")
    [] Arity(c) = 2 ->
         AllocPinned("r") \o Eval(1, "r") \o Push("r", "x1") \o Eval(2, "r") \o Push("r", "x2")
         \o Runtime("tonumber", Words(<<"x2", "x1">>)) \o Drop(2) \o Result(c, "R0", "tonumber")
         \o UnlockPinned("r")
    [] OTHER -> Refuse

\* The swaps use R0 and R1, whoever has them.
emit_string_format_intrinsic(c) ==
  LET n == Arity(c) IN
  AtLeast(c, 1,
    AllocPinned("fmt") \o Eval(1, "fmt") \o Push("fmt", "x1")
    \o Flat([i \in 1..n-1 |->
         AllocPinned("arg") \o Eval(i + 1, "arg") \o Push("arg", Arg(i + 1)) \o UnlockPinned("arg")])
    \o Load("R0", "nil") \o Push("R0", "nil") \o Reverse(n + 1, {0, 1})
    \o Runtime("format", Words(StringWords(c, n, TRUE))) \o Drop(n + 1) \o Result(c, "R0", "format")
    \o UnlockPinned("fmt"))

-----------------------------------------------------------------------------
PushOne(i, v) == Alloc(v) \o Eval(i, v) \o Push(v, Arg(i))

\* print (x, y, value): the string takes the value's place on the stack.
emit_print_intrinsic(c) ==
  IF Arity(c) # 3 THEN Refuse
  ELSE PushOne(1, "x") \o Unlock("x") \o PushOne(2, "y") \o Unlock("y") \o PushOne(3, "val")
       \o Runtime("text", Words(<<"x3", "x2", "x1">>)) \o Drop(1) \o Push("R0", "text") \o Unlock("val")
       \o Runtime("nil", Words(<<"text", "x2", "x1">>)) \o Drop(3)

emit_printf_intrinsic(c) ==
  LET n == Arity(c) IN
  Flat([i \in 1..n |-> PushOne(n + 1 - i, "arg") \o Unlock("arg")])
  \o Runtime("printf", Words([i \in 1..n |-> Arg(i)])) \o Drop(n) \o Result(c, "R0", "printf")

\* pairs and ipairs: iterator, table and first key in R0, R2 and R3
Iterator(c) ==
  AtLeast(c, 1,
    AllocPinned("table") \o Eval(1, "table") \o Load("R0", "iterator") \o Move("R2", "table", "x1")
    \o Load("R3", "nil") \o UnlockPinned("table")
    \o Check({<<"R0", "iterator">>, <<"R2", "x1">>, <<"R3", "nil">>}) \o Result(c, "R0", "iterator"))
emit_pairs_intrinsic(c)  == Iterator(c)
emit_ipairs_intrinsic(c) == Iterator(c)

emit_hex_intrinsic(c) ==
  IF Arity(c) = 1 /\ Is(c, 1, {"string"}) THEN ResultOf(c, "word") ELSE Refuse

\* The buttons are gathered in the destination, one after the other.
emit_get_gamepad_inputs_intrinsic(c) ==
  Alloc("bit") \o Pin("bit") \o Load("dest", "buttons")
  \o Apply("dest", "buttons", {<<"dest", "buttons">>}) \o Result(c, "dest", "buttons")
  \o Unpin("bit") \o Unlock("bit")

\* system.date and system.time: four values, in R0, R2, R3 and MV_BUF
Clock(c) ==
  Flat([i \in 1..Arity(c) |-> Alloc("reg") \o Eval(i, "reg") \o Unlock("reg")])
  \o Alloc("raw") \o Load("raw", "clock") \o Push("raw", "clock")
  \o RuntimeIn("R0", "first", Words(<<"clock">>), 1..Last) \o Drop(1) \o Unlock("raw")
  \o Load("R2", "second") \o Load("R3", "third")
  \o Push("R0", "first") \o Push("R2", "second") \o Push("R3", "third")
  \o Pop("R3", "third") \o Pop("R2", "second") \o Pop("R1", "first")
  \o Move("R4", "R1", "first") \o Move("R5", "R2", "second") \o Move("R6", "R3", "third")
  \o Flat([i \in 1..6 |-> Push(<<"R1", "R2", "R3", "R4", "R5", "R6">>[i],
                               <<"first", "second", "third", "first", "second", "third">>[i])])
  \o Runtime("text", Words(<<"third", "second", "first">>)) \o Drop(3)
  \o Pop("R3", "third") \o Pop("R2", "second") \o Pop("R1", "first")
  \o Out("MV_BUF", "third", {<<"R3", "third">>}) \o Move("R3", "R2", "second") \o Move("R2", "R1", "first")
  \o Check({<<"R0", "text">>, <<"R2", "first">>, <<"R3", "second">>, <<"MV_BUF", "third">>})
  \o Result(c, "R0", "text")

emit_system_date_intrinsic(c) == Clock(c)
emit_system_time_intrinsic(c) == Clock(c)

LibraryNames ==
  {"insert", "remove", "sort", "concat",
   "move", "pack", "unpack", "byte", "char", "sub", "rep", "find", "gsub", "tostring",
   "len", "upper", "lower", "reverse", "tonumber", "format", "print", "printf",
   "pairs", "ipairs", "hex", "gamepad", "date", "time"}

LibraryCode(c) ==
  CASE c.name = "insert" -> emit_table_insert_intrinsic(c)
    [] c.name = "remove" -> emit_table_remove_intrinsic(c)
    [] c.name = "sort" -> emit_table_sort_intrinsic(c)
    [] c.name = "concat" -> emit_table_concat_intrinsic(c)
    [] c.name = "move" -> emit_table_move_intrinsic(c)
    [] c.name = "pack" -> emit_table_pack_intrinsic(c)
    [] c.name = "unpack" -> emit_table_unpack_intrinsic(c)
    [] c.name = "byte" -> emit_string_byte_intrinsic(c)
    [] c.name = "char" -> emit_string_char_intrinsic(c)
    [] c.name = "sub" -> emit_string_sub_intrinsic(c)
    [] c.name = "rep" -> emit_string_rep_intrinsic(c)
    [] c.name = "find" -> emit_string_find_intrinsic(c)
    [] c.name = "gsub" -> emit_string_gsub_intrinsic(c)
    [] c.name = "tostring" -> emit_tostring_intrinsic(c)
    [] c.name = "len" -> emit_string_len_intrinsic(c)
    [] c.name = "upper" -> emit_string_upper_intrinsic(c)
    [] c.name = "lower" -> emit_string_lower_intrinsic(c)
    [] c.name = "reverse" -> emit_string_reverse_intrinsic(c)
    [] c.name = "tonumber" -> emit_tonumber_intrinsic(c)
    [] c.name = "format" -> emit_string_format_intrinsic(c)
    [] c.name = "print" -> emit_print_intrinsic(c)
    [] c.name = "printf" -> emit_printf_intrinsic(c)
    [] c.name = "pairs" -> emit_pairs_intrinsic(c)
    [] c.name = "ipairs" -> emit_ipairs_intrinsic(c)
    [] c.name = "hex" -> emit_hex_intrinsic(c)
    [] c.name = "gamepad" -> emit_get_gamepad_inputs_intrinsic(c)
    [] c.name = "date" -> emit_system_date_intrinsic(c)
    [] OTHER -> emit_system_time_intrinsic(c)
=============================================================================
