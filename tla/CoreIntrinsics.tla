--------------------------- MODULE CoreIntrinsics ---------------------------
(***************************************************************************)
(* What src/intrinsics/core.c writes itself: the metatable functions, type,*)
(* the system calls, and reads and writes of ioports.* and memcard[...].   *)
(* A port is named by what it takes: port.int, port.color, port.bool,      *)
(* port.float, port.raw (a word), port.hot (a region's edge, which sets    *)
(* the hotspot as well) and port.gamepad.                                  *)
(***************************************************************************)
EXTENDS VirconIntrinsics

\* setmetatable, rawset, ...: the first n arguments, in their order, in one
\* register; the last is on top.
emit_runtime_call_intrinsic(c, n, f) ==
  LET top == [i \in 1..n |-> IF Has(c, n + 1 - i) THEN Arg(n + 1 - i) ELSE "nil"] IN
  AllocPinned("r")
  \o Flat([i \in 1..IF Arity(c) > n THEN Arity(c) ELSE n |->
            IF Has(c, i) THEN Eval(i, "r") \o (IF i <= n THEN Push("r", Arg(i)) ELSE <<>>)
            ELSE Load("r", "nil") \o Push("r", "nil")])
  \o UnlockPinned("r") \o CallDrop(f, top) \o Result(c, "R0", f)

\* run and reset: nothing comes after the jump.
emit_cart_restart_intrinsic(c) ==
  Flat([i \in 1..Arity(c) |-> Alloc("r") \o Eval(i, "r") \o Unlock("r")])

emit_type_intrinsic(c) ==
  IF Arity(c) # 1 THEN Refuse ELSE PushVal(1, "x1") \o CallDrop("type", <<"x1">>) \o Result(c, "R0", "type")

emit_system_counter(c) ==
  IF Arity(c) # 0 THEN Refuse
  ELSE IF c.dest = 0 THEN <<>> ELSE Load("dest", "counter") \o Result(c, "dest", "counter")

emit_system_wait_intrinsic(c) == Out("WAIT", "", {})

-----------------------------------------------------------------------------
\* The word that a register with x1 is turned into for the port, in a register
\* of its own.
CastFor(kind) ==
  CASE kind = "port.color" -> emit_number_to_color_word("out", "x1")
    [] kind = "port.bool"  ->
         AllocPinned("scratch") \o Move("scratch", "out", "x1") \o Apply("out", "word", {<<"scratch", "x1">>})
         \o UnlockPinned("scratch")
    [] OTHER -> Apply("out", "word", {<<"out", "x1">>})

PortOf(kind) == IF kind = "port.color" THEN "clearcolor" ELSE "position"

\* ioports.inp.gamepad = x: the routine gets it in R1, kept around the call.
SelectGamepad(c) ==
  AllocPinned("reg")
  \o (IF Is(c, 1, {"number"}) THEN Load("reg", "word")
      ELSE Eval(1, "reg") \o Apply("reg", "word", {<<"reg", "x1">>}))
  \o Save("R1") \o Move("R1", "reg", "word") \o RuntimeIn("R0", "", {<<"R1", "word">>}, {0}) \o Restore("R1")
  \o UnlockPinned("reg")

WritePort(c) ==
  LET kind   == c.name
      cast   == kind \notin {"port.raw", "port.float"}
      paired == IF kind = "port.hot" THEN Out("GPU_RegionHotSpotX", "word", {}) ELSE <<>>
  IN CASE (kind \in {"port.int", "port.color", "port.hot"} /\ Is(c, 1, {"number"}))
            \/ (kind = "port.bool" /\ Is(c, 1, {"nil"})) ->
            Out(PortOf(kind), "word", {}) \o paired \o Check({<<PortOf(kind), "word">>})
       [] cast ->
            AllocPinned("val") \o Eval(1, "val") \o AllocPinned("out") \o Move("out", "val", "x1")
            \o CastFor(kind) \o Out(PortOf(kind), "word", {<<"out", "word">>}) \o paired
            \o UnlockPinned("out") \o UnlockPinned("val") \o Check({<<PortOf(kind), "word">>})
       [] OTHER ->
            AllocPinned("val") \o Eval(1, "val") \o Out(PortOf(kind), "x1", {<<"val", "x1">>}) \o UnlockPinned("val")
            \o Check({<<PortOf(kind), "x1">>})

\* table.key = value, where the table is not one: memcard[position] = value.
try_emit_table_set_intrinsic(c) ==
  CASE c.name = "memcard[]="   -> emit_vircon32_memcard_write(c)
    [] c.name = "port.gamepad" -> SelectGamepad(c)
    [] OTHER                   -> WritePort(c)

\* memcard[position], ports, constants and functions of math as values
try_emit_table_get_intrinsic(c) ==
  CASE c.name = "memcard[]" -> emit_vircon32_memcard_read(c)
    [] c.dest = 0 -> <<>>
    [] c.name = "port?" ->
         Load("dest", "word") \o Apply("dest", "value", {<<"dest", "word">>}) \o Result(c, "dest", "value")
    [] OTHER -> Load("dest", "constant") \o Result(c, "dest", "constant")

CoreNames ==
  {"setmetatable", "getmetatable", "rawget", "rawset", "rawlen", "rawequal", "run", "type", "frames", "wait",
   "memcard[]=", "memcard[]", "port.int", "port.color", "port.bool", "port.float", "port.raw", "port.hot",
   "port.gamepad", "port?", "math.value"}

\* try_emit_call_intrinsic, and the accesses to tables that are not tables
CoreCode(c) ==
  CASE c.name \in {"setmetatable", "rawget", "rawequal"} -> emit_runtime_call_intrinsic(c, 2, c.name)
    [] c.name \in {"getmetatable", "rawlen"} -> emit_runtime_call_intrinsic(c, 1, c.name)
    [] c.name = "rawset" -> emit_runtime_call_intrinsic(c, 3, c.name)
    [] c.name = "run" -> emit_cart_restart_intrinsic(c)
    [] c.name = "type" -> emit_type_intrinsic(c)
    [] c.name = "frames" -> emit_system_counter(c)
    [] c.name = "wait" -> emit_system_wait_intrinsic(c)
    [] c.name \in {"memcard[]", "port?", "math.value"} -> try_emit_table_get_intrinsic(c)
    [] OTHER -> try_emit_table_set_intrinsic(c)
=============================================================================
