--------------------------- MODULE ExpressionCode ---------------------------
(***************************************************************************)
(* The code of operators, conditions, table accesses and constructors      *)
(* (src/node: math.c, bitops.c, relational.c, unary.c, types.c, cond.c,    *)
(* table.c).  The operands are the arguments; unlike a library function,   *)
(* an operator works in the destination itself.                            *)
(***************************************************************************)
EXTENDS EmittedCode

StaticNumber(c, i) == Is(c, i, {"number", "numeric"})   \* is_static_number

\* An operand that may be a string is made a number.
emit_arith_coerce(c, i, v) ==
  IF StaticNumber(c, i) THEN <<>>
  ELSE Move("R0", v, Arg(i))
       \o Maybe(Move("R0", v, Arg(i)) \o RuntimeIn("R0", Arg(i), {<<"R0", Arg(i)>>}, {0}) \o Move(v, "R0", Arg(i)))

\* The left operand waits on the stack for the right one.
Operands2(c) ==
  Eval(1, "dest") \o Push("dest", "x1") \o Alloc("right") \o Eval(2, "right") \o Pop("dest", "x1")
  \o emit_arith_coerce(c, 1, "dest") \o emit_arith_coerce(c, 2, "right")

Both  == {<<"dest", "x1">>, <<"right", "x2">>}
Value == Apply("dest", "value", Both)
Finish(c, v) == v \o Unlock("right") \o Result(c, "dest", "value")

node_add(c) == Operands2(c) \o Finish(c, Value)
node_sub(c) == Operands2(c) \o Finish(c, Value)
node_mul(c) == Operands2(c) \o Finish(c, Value)

\* A divisor that may be zero is compared with it; huge has the dividend's sign.
node_div(c) ==
  IF Is(c, 2, {"number"}) THEN Operands2(c) \o Finish(c, Value)
  ELSE Operands2(c) \o Alloc("zero") \o Apply("zero", "zero?", {<<"right", "x2">>}) \o Unlock("zero")
       \o Finish(c, Either(Value, Move("right", "dest", "x1") \o Load("dest", "value")))

node_mod(c) ==
  Operands2(c) \o Alloc("quot")
  \o (LET floor == Move("quot", "dest", "x1") \o Apply("quot", "whole", {<<"quot", "x1">>, <<"right", "x2">>})
                   \o Apply("dest", "value", {<<"dest", "x1">>, <<"quot", "whole">>})
      IN IF Is(c, 2, {"number"}) THEN floor
         ELSE Apply("quot", "zero?", {<<"right", "x2">>}) \o Either(floor, Load("dest", "value")))
  \o Unlock("quot") \o Finish(c, <<>>)

node_floordiv(c) ==
  Operands2(c) \o Alloc("z") \o Apply("z", "zero?", {<<"right", "x2">>})
  \o Either(Value, Move("z", "dest", "x1") \o Load("dest", "value")) \o Unlock("z") \o Finish(c, <<>>)

\* A power of a negative number has to be whole.
node_pow(c) ==
  IF Is(c, 2, {"number"}) THEN Operands2(c) \o Finish(c, Value)
  ELSE Operands2(c) \o Alloc("t") \o Move("t", "dest", "x1")
       \o Maybe(Move("t", "right", "x2") \o Apply("t", "whole?", {<<"t", "x2">>, <<"right", "x2">>}))
       \o Either(Value, Load("dest", "value")) \o Unlock("t") \o Finish(c, <<>>)

-----------------------------------------------------------------------------
(***************************************************************************)
(* Bits, length, negation, concatenation: a runtime routine's work.        *)
(***************************************************************************)
emit_bitop_call(c) ==
  LET b == IF Has(c, 2) THEN "x2" ELSE "x1" IN
  Load("dest", "mode") \o Push("dest", "mode") \o Load("dest", "op") \o Push("dest", "op") \o Eval(1, "dest")
  \o (IF Has(c, 2)
      THEN Push("dest", "x1") \o Alloc("right") \o Eval(2, "right") \o Pop("dest", "x1")
           \o Push("dest", "x1") \o Push("right", "x2") \o Unlock("right")
      ELSE Push("dest", "x1") \o Push("dest", "x1"))
  \o Runtime("bits", Words(<<b, "x1", "op", "mode">>)) \o Drop(4) \o Result(c, "R0", "bits")

\* node_bitop, node_bnot: numbers are folded by bitop_eval.
node_bitop(c) ==
  IF \A i \in DOMAIN c.args : Is(c, i, {"number"}) THEN Load("dest", "bits") \o Result(c, "dest", "bits")
  ELSE emit_bitop_call(c)

node_unary(c) ==
  Eval(1, "dest") \o (IF c.name = "-x" THEN emit_arith_coerce(c, 1, "dest") ELSE <<>>)
  \o Push("dest", "x1") \o Runtime("value", Words(<<"x1">>)) \o Drop(1) \o Move("dest", "R0", "value")
  \o Result(c, "dest", "value")

node_concat(c) ==
  Alloc("reg") \o Eval(1, "reg") \o Push("reg", "x1") \o Unlock("reg")
  \o Alloc("reg") \o Eval(2, "reg") \o Push("reg", "x2") \o Unlock("reg")
  \o Runtime("text", Words(<<"x2", "x1">>)) \o Drop(2) \o Result(c, "R0", "text")

-----------------------------------------------------------------------------
(***************************************************************************)
(* Conditions.  A literal right operand cannot disturb the left one.       *)
(***************************************************************************)
Literal == {"number", "string", "nil"}

eval_pair(c) ==
  Alloc("l") \o Eval(1, "l") \o Alloc("r")
  \o (IF Is(c, 2, Literal) THEN Eval(2, "r") ELSE Push("l", "x1") \o Eval(2, "r") \o Pop("l", "x1"))

SlowCompare(uses) ==
  Push("l", "x1") \o Push("r", "x2") \o Runtime("order", Words(<<"x2", "x1">>)) \o Drop(2)

\* The operand compared with a constant, in a register of its own
AgainstConstant(i, body) == Alloc("r") \o Eval(i, "r") \o body \o Unlock("r")

\* left == right: nil, a number and a string are constants, in this order.
CompareEqual(c) ==
  LET constant(k) == Is(c, 2, {k}) \/ Is(c, 1, {k})
      other(k)    == IF Is(c, 2, {k}) THEN 1 ELSE 2
      x(k)        == Arg(other(k))
  IN CASE constant("nil") ->
            AgainstConstant(other("nil"), Apply("r", "equal?", {<<"r", x("nil")>>}))
       [] constant("number") ->
            AgainstConstant(other("number"), Load("R0", "number")
              \o Apply("r", "equal?", {<<"r", x("number")>>, <<"R0", "number">>}))
       [] constant("string") ->
            Alloc("r") \o Eval(other("string"), "r") \o Alloc("s") \o Load("s", "text")
            \o Apply("R0", "same?", {<<"r", x("string")>>, <<"s", "text">>})
            \o Maybe(Move("R0", "r", x("string")) \o Load("s", "pool") \o Load("s", "text"))
            \o Maybe(Move("R0", "r", x("string")) \o Push("r", x("string")) \o Push("s", "text")
                     \o Runtime("equal?", Words(<<"text", x("string")>>)) \o Drop(2))
            \o Unlock("s") \o Unlock("r")
       [] OTHER ->
            eval_pair(c) \o Apply("R0", "same?", {<<"l", "x1">>, <<"r", "x2">>})
            \o Maybe(Move("R0", "l", "x1") \o Maybe(Apply("R0", "equal?", {<<"l", "x1">>, <<"r", "x2">>})))
            \o Maybe(SlowCompare("equal?")) \o Unlock("r") \o Unlock("l")

CompareOrder(c) ==
  eval_pair(c)
  \o Either(Move("R0", "l", "x1") \o Apply("R0", "order", {<<"R0", "x1">>, <<"r", "x2">>}), SlowCompare("order"))
  \o Unlock("r") \o Unlock("l")

compare_jump(c) == IF c.name = "==" THEN CompareEqual(c) ELSE CompareOrder(c)

\* generate_cond_jump for a value: a literal decides by itself.
TruthOf(c, i) ==
  IF Is(c, i, Literal) THEN <<>>
  ELSE Alloc("r") \o Eval(i, "r") \o Move("R0", "r", Arg(i)) \o Unlock("r")

generate_cond_jump(c) ==
  CASE c.name = "not" -> TruthOf(c, 1)
    [] c.name = "if and" -> TruthOf(c, 1) \o Maybe(TruthOf(c, 2))
    [] OTHER -> compare_jump(c)

generate_bool_value(c) == generate_cond_jump(c) \o Load("dest", "boolean") \o Result(c, "dest", "boolean")

\* and, or: the value of the operand that decided
node_and(c) ==
  Eval(1, "dest") \o Move("R0", "dest", "x1")
  \o Either(Result(c, "dest", "x1"), Eval(2, "dest") \o Result(c, "dest", "x2"))
node_or(c) == node_and(c)

-----------------------------------------------------------------------------
(***************************************************************************)
(* Tables.                                                                 *)
(***************************************************************************)
StoreField(v, k, x, key) ==
  Push("dest", "table") \o Push(k, key) \o Push(v, x) \o RuntimeIn("R0", "", Words(<<x, key, "table">>), {0}) \o Drop(3)

\* A field's value, then its key; both the table and the value wait on the stack.
ConstructorField(c, i, Key, key) ==
  AllocPinned("val") \o AllocPinned("key") \o Push("dest", "table") \o Eval(i, "val") \o Push("val", Arg(i))
  \o Key \o Pop("val", Arg(i)) \o Pop("dest", "table") \o StoreField("val", "key", Arg(i), key)
  \o UnlockPinned("val") \o UnlockPinned("key")

\* {...}: count and index are kept in registers over the calls.
ConstructorVararg(c) ==
  LET round == Apply("val", "more?", {<<"idx", "index">>, <<"count", "count">>}) \o Load("addr", "address")
               \o Apply("val", "rest", {<<"addr", "address">>}) \o Move("key", "idx", "index")
               \o StoreField("val", "key", "rest", "index") \o Apply("idx", "index", {<<"idx", "index">>})
  IN Alloc("count") \o Alloc("idx") \o Alloc("addr") \o Alloc("val") \o Alloc("key")
     \o Load("addr", "address") \o Apply("count", "count", {<<"addr", "address">>}) \o Load("idx", "index")
     \o Maybe(round \o Maybe(round))
     \o Unlock("count") \o Unlock("idx") \o Unlock("addr") \o Unlock("val") \o Unlock("key")

\* "{f, ...}": the fields one after the other; "{k = v}": key and value are
\* arguments 1 and 2.
node_table_constructor(c) ==
  Runtime("table", {}) \o Move("dest", "R0", "table")
  \o (CASE c.name = "{k=v}" -> ConstructorField(c, 2, Eval(1, "key"), "x1")
        [] OTHER -> Flat([i \in 1..Arity(c) |-> ConstructorField(c, i, Load("key", "index"), "index")])
                    \o (IF c.name = "{...}" THEN ConstructorVararg(c) ELSE <<>>))
  \o Result(c, "dest", "table")

\* table[key] = value, of arguments 1, 2 and 3: the value is evaluated first.
node_table_set(c) ==
  IF c.name = "_ENV[]="
  THEN Alloc("reg") \o Eval(2, "reg") \o Push("reg", "x2") \o Unlock("reg")
       \o Alloc("reg") \o Eval(1, "reg") \o Push("reg", "x1") \o Unlock("reg")
       \o Runtime("", Words(<<"x1", "x2">>)) \o Drop(2)
  ELSE AllocPinned("val") \o AllocPinned("table") \o AllocPinned("key")
       \o Eval(3, "val") \o Push("val", "x3") \o Eval(1, "table") \o Push("table", "x1") \o Eval(2, "key")
       \o Pop("table", "x1") \o Pop("val", "x3") \o Push("table", "x1") \o Push("key", "x2") \o Push("val", "x3")
       \o Runtime("", Words(<<"x3", "x2", "x1">>)) \o Drop(3)
       \o UnlockPinned("val") \o UnlockPinned("table") \o UnlockPinned("key")

SlowGet ==
  Push("t", "x1") \o Push("k", "x2") \o Runtime("element", Words(<<"x2", "x1">>)) \o Drop(2)
  \o Move("dest", "R0", "element")

\* A name's hash is known: the slot it leads to is tried in line.  The value of
\* t at k comes into v; __builtin_table_get keeps R1 to R13.
emit_getk_lookup(t, tx, k, kx, v) ==
  Pin(k) \o Alloc("a") \o Move("R0", t, tx)
  \o Either(Move("R0", t, tx) \o Apply("a", "block", {<<"R0", tx>>}) \o Apply("R0", "slot", {<<"a", "block">>})
            \o Apply("a", "key", {<<"R0", "slot">>}) \o Apply("a", "found?", {<<"a", "key">>, <<k, kx>>})
            \o Apply(v, "element", {<<"R0", "slot">>}),
            Push(t, tx) \o Push(k, kx) \o RuntimeIn("R0", "element", Words(<<kx, tx>>), {0}) \o Drop(2)
            \o Move(v, "R0", "element"))
  \o Unlock("a") \o Unpin(k)

\* A whole number within the array's capacity is read in line.
emit_index_lookup(c) ==
  IF ~Is(c, 2, {"number", "plain"}) THEN SlowGet
  ELSE Pin("k") \o Alloc("a") \o Unpin("k") \o Move("R0", "t", "x1")
       \o Move("a", "k", "x2") \o Either(Move("R0", "t", "x1") \o Apply("R0", "data", {<<"R0", "x1">>})
                 \o Apply("dest", "element", {<<"R0", "data">>, <<"a", "x2">>}), SlowGet)
       \o Unlock("a")

\* table[key]: a key that calls nothing is loaded beside the table.
node_table_get(c) ==
  CASE c.name = "_ENV[]" ->
         Alloc("key") \o Eval(1, "key") \o Push("key", "x1") \o Unlock("key")
         \o Runtime("element", Words(<<"x1">>)) \o Drop(1) \o Move("dest", "R0", "element")
         \o Result(c, "dest", "element")
    [] Is(c, 2, {"number", "string", "nil", "plain"}) ->
         Alloc("t") \o Eval(1, "t") \o Pin("t") \o Alloc("k") \o Eval(2, "k")
         \o (IF Is(c, 2, {"string"}) THEN emit_getk_lookup("t", "x1", "k", "x2", "dest") ELSE emit_index_lookup(c))
         \o Unpin("t") \o Unlock("k") \o Unlock("t") \o Result(c, "dest", "element")
    [] OTHER ->
         Alloc("t") \o Eval(1, "t") \o Push("t", "x1") \o Unlock("t") \o Alloc("k") \o Eval(2, "k") \o Push("k", "x2")
         \o Unlock("k") \o Runtime("element", Words(<<"x2", "x1">>)) \o Drop(2) \o Move("dest", "R0", "element")
         \o Result(c, "dest", "element")

ExpressionNames ==
  {"+", "-", "*", "/", "%", "//", "^", "&", "-x", "#", "..", "==", "<", "not", "if and", "and", "or", "{}",
   "{...}", "{k=v}", "[]=", "_ENV[]=", "[]", "_ENV[]"}

\* generate_asm
OperatorCode(c) ==
  CASE c.name = "+" -> node_add(c)
    [] c.name = "-" -> node_sub(c)
    [] c.name = "*" -> node_mul(c)
    [] c.name = "/" -> node_div(c)
    [] c.name = "%" -> node_mod(c)
    [] c.name = "//" -> node_floordiv(c)
    [] c.name = "^" -> node_pow(c)
    [] c.name = "&" -> node_bitop(c)
    [] c.name \in {"-x", "#"} -> node_unary(c)
    [] c.name = ".." -> node_concat(c)
    [] c.name = "and" -> node_and(c)
    [] c.name = "or" -> node_or(c)
    [] c.name \in {"{}", "{...}", "{k=v}"} -> node_table_constructor(c)
    [] c.name \in {"[]=", "_ENV[]="} -> node_table_set(c)
    [] c.name \in {"[]", "_ENV[]"} -> node_table_get(c)
    [] OTHER -> generate_bool_value(c)
=============================================================================
