---------------------------- MODULE MCIntrinsics ----------------------------
EXTENDS MathIntrinsics, GpuIntrinsics, SpuIntrinsics, LibraryIntrinsics, CoreIntrinsics,
        TicIntrinsics, PicoIntrinsics, StatementCode

CONSTANT Tried   \* which calls: "all", or those of one disagreement: "memcard.save", "unpack"

\* The functions of each library, and with how few and how many arguments they are tried.
Libraries ==
  {<<MathNames, 0, 3>>, <<{"draw", "blending"}, 0, 1>>, <<{"rgba", "clear", "colorword"}, 0, 4>>,
   <<{"spu.cmd", "music.stop", "music.pause", "music.resume", "music.playing", "sfx.stop"}, 0, 1>>,
   <<{"music.volume", "sfx.volume"}, 0, 2>>, <<{"sfx.play"}, 0, 4>>, <<{"music.play"}, 0, 5>>,
   <<{"insert", "unpack", "byte", "sub", "gsub", "print"}, 0, 3>>, <<{"remove", "sort", "rep", "find"}, 0, 2>>,
   <<{"concat", "char", "pack", "format", "printf"}, 0, 4>>, <<{"move"}, 4, 5>>,
   <<{"tostring", "len", "upper", "lower", "reverse", "pairs", "ipairs", "hex", "date", "time"}, 0, 1>>,
   <<{"tonumber"}, 0, 2>>, <<{"gamepad"}, 0, 0>>,
   <<{"spr"}, 2, 8>>, <<{"btn", "btnp"}, 0, 2>>, <<{"tilemap.render"}, 8, 9>>, <<{"rect"}, 3, 5>>,
   <<{"memcard.save"}, 0, 2>>, <<{"memcard.load", "memcard.load_table", "memcard.title"}, 0, 1>>,
   <<{"tic.spr"}, 0, 9>>, <<{"tic.map"}, 0, 8>>, <<{"tic.btn", "tic.cls", "tic.trace"}, 0, 1>>, <<{"tic.sync", "tic.time", "tic.exit"}, 0, 2>>, <<{"tic.btnp", "tic.mset", "tic.fset", "tic.pix"}, 0, 3>>,
   <<{"tic.mget", "tic.fget", "tic.pmem", "tic.peek", "tic.poke4"}, 0, 2>>, <<{"tic.peek4"}, 0, 1>>,
   <<{"tic.line", "tic.rect", "tic.rectb"}, 5, 5>>, <<{"tic.circ", "tic.circb", "tic.print", "tic.play"}, 0, 4>>,
   <<{"tic.sfx", "tic.tone", "tic.tone-", "tic.tune"}, 0, 5>>, <<{"tic.music"}, 0, 4>>,
   <<{"tic.poke", "tic.memcpy"}, 0, 3>>,
   <<{"pico.btn", "pico.btnp", "pico.camera", "pico.mget", "pico.atan2", "pico.fget", "add", "del", "foreach",
      "pico.tone", "pico.tone-", "pico.sfx"}, 0, 2>>,
   <<{"pico.map"}, 6, 7>>, <<{"pico.rect", "pico.rectfill", "pico.line"}, 2, 5>>,
   <<{"pico.circfill", "pico.circ", "pico.print"}, 1, 4>>,
   <<{"pico.menu", "pico.cursor?", "pico.color", "pico.cls", "pico.count", "rnd", "sgn", "pico.sin", "pico.cos",
      "pico.tan", "pico.sqrt", "pico.music", "pico.tune", "pico.tune-", "pal", "peek", "dget", "cartdata",
      "pico.time"}, 0, 1>>, <<{"pico.start", "flip"}, 0, 0>>, <<{"dset", "sget"}, 0, 2>>,
   <<{"pico.cursor", "pico.pset", "pico.fset", "pico.split1", "pico.mset", "mid", "memset", "poke"}, 0, 3>>,
   <<{"pico.sspr"}, 9, 10>>, <<{"pico.spr"}, 3, 7>>, <<{"cstore", "reload"}, 0, 4>>, <<{"add"}, 3, 3>>,
   <<{"setmetatable", "getmetatable", "rawget", "rawset", "rawlen", "rawequal", "run"}, 0, 4>>,
   <<{"type", "frames", "memcard[]"}, 0, 1>>, <<{"wait", "port?", "math.value"}, 0, 0>>,
   <<{"port.int", "port.color", "port.bool", "port.float", "port.raw", "port.hot", "port.gamepad"}, 1, 1>>,
   <<{"memcard[]="}, 2, 2>>, <<{"keyp", "tilemap.set"}, 0, 3>>,
   <<{"key", "kbd.read", "kbd.glyph", "kbd.port", "kbd.capslock", "kbd.clear"}, 0, 1>>,
   <<{"mouse", "mouse.buttons", "mouse.delta", "mouse.connected"}, 0, 0>>,
   <<{"mouse.pressed", "mouse.scale", "mouse.port", "stat+mouse"}, 0, 1>>, <<{"mouse.bounds"}, 0, 4>>,
   <<{"mouse.position", "stat", "tilemap.get"}, 0, 2>>,
   <<{"+", "-", "*", "/", "%", "//", "^", "..", "==", "<", "if and", "and", "or", "[]", "{k=v}", "_ENV[]="}, 2, 2>>,
   <<{"&"}, 1, 2>>, <<{"-x", "#", "not", "_ENV[]"}, 1, 1>>, <<{"{}"}, 0, 3>>, <<{"{...}"}, 0, 1>>, <<{"[]="}, 3, 3>>,
   <<{"f()"}, 1, 5>>, <<{"a:f()", "f(...)"}, 1, 4>>, <<{"f(g())"}, 2, 5>>, <<{"f(unpack())"}, 2, 3>>,
   <<{"{g()}", "return unpack()"}, 1, 1>>, <<{"return"}, 0, 5>>, <<{"return ..."}, 0, 3>>, <<{"return g()"}, 1, 3>>,
   <<{"a,b="}, 1, 3>>, <<{"a,b,c="}, 1, 1>>, <<{"a,b,c="}, 3, 3>>, <<{"a[i],b="}, 4, 4>>, <<{"a[i],b[j]="}, 6, 6>>,
   <<{"a[i],b[j]=f()"}, 5, 5>>, <<{"a,b,c=g()"}, 2, 2>>, <<{"a,b,c=..."}, 0, 1>>,
   <<{"a,b=lib()", "a,b=f()", "a,b,c=f()", "a,b,c,d=f()", "for all", "while", "repeat"}, 1, 1>>, <<{"local a,b", "function", "closure"}, 0, 0>>,
   <<{"a[i],b=unpack"}, 3, 3>>, <<{"for i"}, 2, 3>>, <<{"for in"}, 1, 3>>}

Code(c) ==
  CASE c.name \in MathNames -> MathCode(c)
    [] c.name \in GpuNames -> GpuCode(c)
    [] c.name \in LibraryNames -> LibraryCode(c)
    [] c.name \in VirconNames -> VirconCode(c)
    [] c.name \in CoreNames -> CoreCode(c)
    [] c.name \in DeviceNames -> DeviceCode(c)
    [] c.name \in ExpressionNames -> OperatorCode(c)
    [] c.name \in CallNames -> CallCode(c)
    [] c.name \in StatementNames -> StatementCodeOf(c)
    [] c.name \in TicNames -> TicCode(c)
    [] c.name \in SpuNames -> SpuCode(c)
    [] OTHER -> PicoCode(c)

\* A function whose values are all taken, in R0, R2 and R3
Several == {"modf", "frexp", "date", "time", "unpack", "pairs", "ipairs"}

\* Assignments have no destination
Assigned ==
  {"[]=", "_ENV[]=", "memcard[]=", "port.int", "port.color", "port.bool", "port.float", "port.raw", "port.hot", "port.gamepad"}
Statements == (StatementNames \ {"closure"}) \cup {"return", "return ...", "return g()", "return unpack()"}

\* Who holds registers when the call is generated, and which one wants the result.
Places(f) ==
  IF f \in Statements THEN {<<{}, 0>>}
  ELSE IF f \in Assigned THEN {<<{}, 0>>, <<{1, 2}, 0>>}
  ELSE {<<{1}, 1>>, <<{1, 2, 3}, 2>>} \cup IF f \in Several THEN {<<{}, 0>>} ELSE {}

\* The arguments without a meaning for the function, which the compiler warns of
\* or its documentation names.
Ignored(f) ==
  CASE f \in {"tic.tone", "tic.tone-"} -> {2, 3, 5}
    [] f = "tic.tune" -> 2..5
    [] f = "a,b=" -> {3}                      \* a value without a target
    [] f \in {"and", "or", "if and"} -> {2}   \* evaluated when the first does not decide
    [] OTHER -> {}

\* Up to two arguments of any kinds, more all alike but one.
Args(m, n) ==
  UNION {{a \in [1..k -> Kinds] : k <= 2} : k \in m..(IF n > 2 THEN 2 ELSE n)}
  \cup UNION {{[i \in 1..k |-> IF i = j THEN one ELSE others] : j \in 1..k, one \in Kinds, others \in {"plain", "call"}} :
                k \in (IF m > 3 THEN m ELSE 3)..n}

Of(f, m, n) == {[name |-> f, args |-> a, ignored |-> Ignored(f), dest |-> p[2], busy |-> p[1]] : a \in Args(m, n), p \in Places(f)}

\* The position of a save is a call: the value does not survive it.
LosesValue(c) == c.name \in {"memcard.save", "memcard[]="} /\ Is(c, 2, {"call"})

\* The list has to fill the last parameter, and may be empty.
LosesParameter(c) ==
  \/ c.name = "f(...)" /\ Arity(c) = Parameters
  \/ c.name \in {"f(g())", "f(unpack())"} /\ Arity(c) = Parameters + 1 /\ ~Single(c, Arity(c))

\* A value past the third is followed by a call.
LosesReturned(c) == c.name = "return" /\ \E i, j \in DOMAIN c.args : 3 < i /\ i < j /\ Is(c, j, {"call"})

\* A call is what the statement is about.
Fits(c) == c.name \in {"a,b=f()", "a,b,c=f()", "a,b,c,d=f()"} \/ (c.name = "for in" /\ Arity(c) = 1) => Is(c, 1, {"call"})

Every == {c \in UNION {UNION {Of(f, l[2], l[3]) : f \in l[1]} : l \in Libraries} : Fits(c)}

Calls ==
  CASE Tried = "all" -> {c \in Every : ~LosesValue(c) /\ ~LosesParameter(c) /\ ~LosesReturned(c)}
    [] Tried = "memcard.save" -> {c \in Of("memcard.save", 2, 2) : LosesValue(c)}
    [] OTHER -> Of("unpack", 1, 3)

Spec == Init(Calls) /\ [][Next(Code)]_vars
=============================================================================
