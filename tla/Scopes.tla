------------------------------- MODULE Scopes -------------------------------
(***************************************************************************)
(* Variables in the compiler: the capture analysis (src/closures.c) and    *)
(* the scopes, symbols and stack slots of code generation (src/context.c,  *)
(* src/emit.c, src/node/function.c).  A program is read one construct at a *)
(* time, which is what the analysis does, and then the same constructs are *)
(* generated in the same order, with what the analysis found.              *)
(*                                                                         *)
(* Beside the compiler's state the model keeps the variable that Lua means *)
(* by each name (env, meant), and what the slots of the frames hold when   *)
(* the generated code runs (cells): a variable's value or its box.  A      *)
(* variable is the number of the construct that declares it; 0 stands for  *)
(* the global of the name, which this compiler makes of the file's own     *)
(* locals too.                                                             *)
(***************************************************************************)
EXTENDS Integers, SequencesExt, FiniteSetsExt

CONSTANTS
  Names,      \* the names variables have
  MaxLength,  \* constructs of a program (see Longest)
  Extras      \* "named": functions with a global name inside functions;
              \* "block": functions that use a local of a block of the file

ASSUME ScopesAssumption ==
  MaxLength \in Nat /\ MaxLength >= 2 /\ Extras \subseteq {"named", "block"}

VARIABLES
  program,    \* the constructs read
  open,       \* the blocks open here, with what is bound in each
  env,        \* the variable each name denotes in Lua
  home,       \* the function each variable belongs to
  free,       \* free_vars of each function
  upvalues,   \* upvalues of each function, a sequence
  boxed,      \* boxed_locals of each function
  outer,      \* env where each function is created
  counted,    \* count_function_locals of each function
  meant,      \* the variable each use means
  pc,         \* the construct to be generated, 0 while reading
  scopes,     \* the stack of ScopeNodes, global_scope first
  cells,      \* the slots of the frame of each function
  denotes,    \* the variable each use gets at
  records     \* the closure records built: function and words

results  == <<free, upvalues, boxed, outer, counted>>
analysis == <<program, open, env, home, results, meant>>
emission == <<scopes, cells, denotes, records>>
vars     == <<analysis, pc, emission>>

Ids  == 0..MaxLength
Junk == -1                \* what the wrong kind of access reads
Pos  == Len(program) + 1
Top  == open[Len(open)]
Fn   == Top.fn

-----------------------------------------------------------------------------
(***************************************************************************)
(* Reading: analyze_block, analyze_expr and, for the slots a frame needs,  *)
(* count_function_locals.                                                  *)
(***************************************************************************)

\* The functions whose bodies are open, and what each binds at this point.
Frames == {open[i].fn : i \in DOMAIN open}
Bound(f) ==
  LET last == CHOOSE i \in DOMAIN open :
                open[i].fn = f /\ \A j \in DOMAIN open : open[j].fn = f => j <= i
  IN open[last].bound

\* resolve_capture looks for the owner of a free name from the inside out.
\* The file itself (def_node NULL) is not asked.
Owners(n) == {f \in Frames \ {0, Fn} : n \in Bound(f)}

NameListAdd(list, n) == IF Contains(list, n) THEN list ELSE <<n>> \o list

ThreadedOne(f, o) == f = Fn   \* mutant: the functions between are left out
\* The functions a captured name is passed through.
Threaded(f, o) == f \in Frames /\ f > o

AnalyzeUse(n) ==   \* analyze_identifier_use
  IF n \in Bound(Fn) \cup free[Fn] THEN UNCHANGED <<free, upvalues, boxed>>
  ELSE /\ free' = [free EXCEPT ![Fn] = @ \cup {n}]
       /\ IF Owners(n) = {} THEN UNCHANGED <<upvalues, boxed>>
          ELSE LET o == CHOOSE f \in Owners(n) : \A g \in Owners(n) : g <= f
               IN /\ boxed' = [boxed EXCEPT ![o] = @ \cup {n}]
                  /\ upvalues' = [f \in Ids |->
                       IF Threaded(f, o) THEN NameListAdd(upvalues[f], n) ELSE upvalues[f]]

\* The bound: a program that is a function may be longer than one that begins
\* otherwise.
Longest ==
  IF program # <<>> /\ program[1].op = "function" THEN MaxLength ELSE MaxLength - 2

Room(k) == pc = 0 /\ Len(program) + Len(open) - 1 + k <= Longest

Read(op, n) == program' = Append(program, [op |-> op, name |-> n])
ReadPlain(op) == Read(op, "none")

Declare(n, v) ==
  /\ env' = [env EXCEPT ![n] = v]
  /\ home' = [home EXCEPT ![v] = Fn]

\* `local n`, after its value was read; a global in the file's own block.
ReadLocal(n) ==
  /\ Room(1)
  /\ Read("local", n)
  /\ open' = [open EXCEPT ![Len(open)].bound = @ \cup {n},
                          ![Len(open)].count = @ + 1]
  /\ Declare(n, IF Len(open) = 1 THEN 0 ELSE Pos)
  /\ UNCHANGED <<results, meant, pc, emission>>

\* A name read or assigned.
ReadUse(n) ==
  /\ Room(1)
  /\ "block" \in Extras \/ Fn = 0 \/ env[n] = 0 \/ home[env[n]] # 0
  /\ Read("use", n)
  /\ AnalyzeUse(n)
  /\ meant' = [meant EXCEPT ![Pos] = env[n]]
  /\ UNCHANGED <<open, env, home, outer, counted, pc, emission>>

Block(op, fn, bound) ==
  [op |-> op, fn |-> fn, bound |-> bound, env |-> env, count |-> 0, then |-> 0,
   first |-> Pos]

\* An if; without an else it is like do, while and repeat (whose condition is
\* inside the block).
ReadBlock ==
  /\ Room(2)
  /\ ReadPlain("if")
  /\ open' = Append(open, Block("if", Fn, Bound(Fn)))
  /\ UNCHANGED <<env, home, results, meant, pc, emission>>

ReadElse ==
  /\ Room(1)
  /\ Top.op = "if"
  /\ ReadPlain("else")
  /\ open' = [open EXCEPT ![Len(open)].op = "else",
                          ![Len(open)].bound = open[Len(open) - 1].bound,
                          ![Len(open)].then = Top.count,
                          ![Len(open)].count = 0]
  /\ env' = Top.env
  /\ UNCHANGED <<home, results, meant, pc, emission>>

\* A numeric for takes three hidden locals and the index.
ReadFor(n) ==
  /\ Room(2)
  /\ Read("for", n)
  /\ open' = Append([open EXCEPT ![Len(open)].count = @ + 4],
                    Block("for", Fn, Bound(Fn) \cup {n}))
  /\ Declare(n, Pos)
  /\ UNCHANGED <<results, meant, pc, emission>>

\* A function expression with one parameter, or (once) a named function.
ReadFunction(op, n) ==
  /\ Room(2)
  /\ op = "named" => /\ Fn = 0 \/ "named" \in Extras
                     /\ \A i \in DOMAIN program : program[i].op # "named"
  /\ Read(op, n)
  /\ open' = Append(open, Block(op, Pos, {n}))
  /\ env' = [env EXCEPT ![n] = Pos]
  /\ home' = [home EXCEPT ![Pos] = Pos]
  /\ outer' = [outer EXCEPT ![Pos] = env]
  /\ UNCHANGED <<free, upvalues, boxed, counted, meant, pc, emission>>

\* A use of the named function.
ReadCall ==
  /\ Room(1)
  /\ \E i \in DOMAIN program : program[i].op = "named"
  /\ ReadPlain("call")
  /\ UNCHANGED <<open, env, home, results, meant, pc, emission>>

IsFunction(b) == b.op \in {"function", "named"}

CountOfLast(b) == b.count   \* mutant: the first branch of an if is forgotten
\* The locals of a block: an if takes the slots of its larger branch.
CountOf(b) == IF b.then > b.count THEN b.then ELSE b.count

ReadEnd ==
  /\ pc = 0
  /\ Len(open) > 1
  /\ ReadPlain("end")
  /\ open' = LET rest == SubSeq(open, 1, Len(open) - 1)
             IN IF IsFunction(Top) THEN rest
                ELSE [rest EXCEPT ![Len(rest)].count = @ + CountOf(Top)]
  /\ counted' = IF IsFunction(Top) THEN [counted EXCEPT ![Fn] = Top.count] ELSE counted
  /\ env' = Top.env
  /\ meant' = IF Top.op = "for" THEN [meant EXCEPT ![Pos] = Top.first] ELSE meant
  /\ UNCHANGED <<home, free, upvalues, boxed, outer, pc, emission>>

\* (A shorter program is the beginning of a longer one.)
ReadAll ==
  /\ pc = 0 /\ Len(program) = Longest
  /\ pc' = 1
  /\ counted' = [counted EXCEPT ![0] = Top.count]
  /\ UNCHANGED <<program, open, env, home, free, upvalues, boxed, outer, meant, emission>>

-----------------------------------------------------------------------------
(***************************************************************************)
(* Generating: the scope stack, the symbols and the slots.  A slot above 0 *)
(* is [BP-slot], one below 0 is [BP+n]: upvalues, then parameters.         *)
(***************************************************************************)
Scope == scopes[Len(scopes)]
This  == program[pc]
Global == [slot |-> 0, boxed |-> FALSE]
Value(v, b) == [of |-> v, boxed |-> b]

Generating(op) == pc \in DOMAIN program /\ This.op = op /\ pc' = pc + 1

\* resolve_symbol: the scopes of this function, inside out, then the global.
Resolve(stack, n) ==
  LET in == {i \in DOMAIN stack : stack[i].fn = Last(stack).fn /\ n \in DOMAIN stack[i].symbols}
  IN IF in = {} THEN Global ELSE stack[Max(in)].symbols[n]

\* The word where get_variable_access_string says the name is.
Word(stack, n) ==
  LET symbol == Resolve(stack, n)
  IN IF symbol = Global THEN Value(0, FALSE)
     ELSE IF symbol.slot \in DOMAIN cells[Last(stack).fn]
     THEN cells[Last(stack).fn][symbol.slot]
     ELSE Value(Junk, FALSE)

\* emit_load_variable, emit_store_variable: directly, or through the box.
Load(n) ==
  LET word == Word(scopes, n)
  IN IF word.boxed = Resolve(scopes, n).boxed THEN word.of ELSE Junk

\* register_local: the symbol of this very scope, or a new one.
RegisterLocal(n) ==
  IF n \in DOMAIN Scope.symbols THEN Scope.symbols[n]
  ELSE [slot |-> Scope.next, boxed |-> n \in boxed[Scope.fn]]

\* (:> and @@ of the module TLC, which the provers do not know.)
At(x, v) == [y \in {x} |-> v]
With(f, g) == [x \in DOMAIN f \cup DOMAIN g |-> IF x \in DOMAIN g THEN g[x] ELSE f[x]]

Registered(s, n, symbol) ==
  [s EXCEPT !.symbols = With(@, At(n, symbol)), !.next = IF symbol.slot = @ THEN @ + 1 ELSE @]

Put(f, slot, c) == cells' = [cells EXCEPT ![f] = With(@, At(slot, c))]

\* emit_initialize_local: each declaration makes a box of its own.
EmitLocal ==
  /\ Generating("local")
  /\ IF Len(scopes) = 1 THEN UNCHANGED <<scopes, cells>>
     ELSE LET n == This.name
              symbol == RegisterLocal(n)
          IN /\ scopes' = [scopes EXCEPT ![Len(scopes)] = Registered(@, n, symbol)]
             /\ Put(Scope.fn, symbol.slot, Value(pc, symbol.boxed))
  /\ UNCHANGED <<analysis, denotes, records>>

EmitUse ==
  /\ Generating("use")
  /\ denotes' = [denotes EXCEPT ![pc] = Load(This.name)]
  /\ UNCHANGED <<analysis, scopes, cells, records>>

PushScopeFresh(op, s) ==   \* mutant: a scope starts at the first slot again
  [op |-> op, fn |-> s.fn, first |-> pc, symbols |-> <<>>, next |-> 1, hidden |-> {}]

\* push_scope: the slots go on from the parent's.
PushScope(op, s) ==
  [op |-> op, fn |-> s.fn, first |-> pc, symbols |-> <<>>, next |-> s.next, hidden |-> {}]

EmitBlock ==
  /\ Generating("if")
  /\ scopes' = Append(scopes, PushScope(This.op, Scope))
  /\ UNCHANGED <<analysis, cells, denotes, records>>

EmitElse ==
  /\ Generating("else")
  /\ scopes' = [scopes EXCEPT ![Len(scopes)] = PushScope("else", scopes[Len(scopes) - 1])]
  /\ UNCHANGED <<analysis, cells, denotes, records>>

EmitFor ==
  /\ Generating("for")
  /\ LET hidden == Scope.next..(Scope.next + 2)
         index  == [slot |-> Scope.next + 3, boxed |-> This.name \in boxed[Scope.fn]]
     IN /\ scopes' = Append(scopes, [PushScope("for", Scope) EXCEPT
                       !.hidden = hidden, !.next = @ + 4, !.symbols = At(This.name, index)])
        /\ cells' = [cells EXCEPT ![Scope.fn] =
             With(@, With([s \in hidden |-> Value(pc, FALSE)],
                          At(index.slot, Value(pc, index.boxed))))]
  /\ UNCHANGED <<analysis, denotes, records>>

\* push_function_scope, register_upvalue, register_parameter: the upvalues'
\* boxes arrive first, then the parameter, boxed on entry when captured.
EmitFunction ==
  /\ Generating("function") \/ Generating("named")
  /\ LET ups == upvalues[pc]
         param == [slot |-> -(Len(ups) + 2), boxed |-> This.name \in boxed[pc]]
     IN /\ scopes' = Append(scopes, [PushScope(This.op, Scope) EXCEPT
             !.fn = pc, !.next = 1,
             !.symbols = With([u \in ToSet(ups) |->
                                 [slot |-> -((CHOOSE k \in DOMAIN ups : ups[k] = u) + 1),
                                  boxed |-> TRUE]],
                              At(This.name, param))])
        /\ cells' = [cells EXCEPT ![pc] =
             With([s \in {-(k + 1) : k \in DOMAIN ups} |-> Value(outer[pc][ups[-s - 1]], TRUE)],
                  At(param.slot, Value(pc, param.boxed)))]
  /\ UNCHANGED <<analysis, denotes, records>>

\* emit_load_function_value: the closure record, with the words that the
\* upvalues' names stand for at this point.
Record(f, stack) == [fn |-> f, words |-> [k \in DOMAIN upvalues[f] |-> Word(stack, upvalues[f][k])]]

\* The end of a block; the loop reads its hidden locals again.
EmitEndBlock ==
  /\ Generating("end")
  /\ Scope.op \notin {"function", "named"}
  /\ scopes' = Front(scopes)
  /\ denotes' = IF Scope.op # "for" THEN denotes
                ELSE [denotes EXCEPT ![pc] =
                  IF \A s \in Scope.hidden : cells[Scope.fn][s] = Value(Scope.first, FALSE)
                  THEN Scope.first ELSE Junk]
  /\ UNCHANGED <<analysis, cells, records>>

\* The end of a function; an expression's value is made right behind it.
EmitEndFunction ==
  /\ Generating("end")
  /\ Scope.op \in {"function", "named"}
  /\ scopes' = Front(scopes)
  /\ records' = IF Scope.op = "named" THEN records
                ELSE records \cup {Record(Scope.first, Front(scopes))}
  /\ UNCHANGED <<analysis, cells, denotes>>

\* node_identifier: a named function's value is made anew at each use.
EmitCall ==
  /\ Generating("call")
  /\ \E f \in DOMAIN program :
       /\ program[f].op = "named"
       /\ records' = records \cup {Record(f, scopes)}
  /\ UNCHANGED <<analysis, scopes, cells, denotes>>

-----------------------------------------------------------------------------
Init ==
  /\ program = <<>>
  /\ open = <<[op |-> "file", fn |-> 0, bound |-> {}, env |-> [n \in Names |-> 0],
               count |-> 0, then |-> 0, first |-> 0]>>
  /\ env = [n \in Names |-> 0]
  /\ home = [v \in Ids |-> 0]
  /\ free = [f \in Ids |-> {}]
  /\ upvalues = [f \in Ids |-> <<>>]
  /\ boxed = [f \in Ids |-> {}]
  /\ outer = [f \in Ids |-> env]
  /\ counted = [f \in Ids |-> 0]
  /\ meant = [i \in 1..MaxLength |-> 0]
  /\ pc = 0
  /\ scopes = <<[op |-> "file", fn |-> 0, first |-> 0, symbols |-> <<>>, next |-> 1,
                 hidden |-> {}]>>
  /\ cells = [f \in Ids |-> <<>>]
  /\ denotes = [i \in 1..MaxLength |-> 0]
  /\ records = {}

ReadStep ==
  \/ \E n \in Names : ReadLocal(n) \/ ReadUse(n) \/ ReadFor(n)
  \/ \E op \in {"function", "named"}, n \in Names : ReadFunction(op, n)
  \/ ReadBlock \/ ReadElse \/ ReadCall \/ ReadEnd \/ ReadAll

EmitStep ==
  \/ EmitLocal \/ EmitUse \/ EmitBlock \/ EmitElse \/ EmitFor
  \/ EmitFunction \/ EmitEndBlock \/ EmitEndFunction \/ EmitCall

Next == ReadStep \/ EmitStep

Spec == Init /\ [][Next]_vars

-----------------------------------------------------------------------------
\* Each name reaches, through slots and boxes, the variable that Lua's scoping
\* means, whatever blocks, loops and functions stand around it, and a loop
\* finds its hidden locals again after its body.
UsesDenote == \A i \in 1..(pc - 1) : denotes[i] = meant[i]

\* A closure gets the boxes of the variables that were in scope where it was
\* written, in the order its code expects them
\* (README.md:940, "closures with upvalues ... all work").
CapturesBoxes ==
  \A r \in records : \A k \in DOMAIN r.words :
    r.words[k] = Value(outer[r.fn][upvalues[r.fn][k]], TRUE)

\* No local lies in the spill slots of its frame, which begin behind the slots
\* that were counted before.
SlotsCounted == pc > 0 => \A i \in DOMAIN scopes : scopes[i].next - 1 <= counted[scopes[i].fn]
=============================================================================
