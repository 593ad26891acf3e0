---------------------------- MODULE EmittedCode ----------------------------
(***************************************************************************)
(* The machine on which the code of one call of a library function runs,   *)
(* as the emitters of src/intrinsics/*.c write it.  An emitter allocates   *)
(* registers, has the argument expressions generated into them, and puts   *)
(* the operands where an instruction, a runtime routine or a device port   *)
(* wants them.  An argument may itself be a call: no register survives it, *)
(* and it may use the same devices.  Only the stack does.                  *)
(*                                                                         *)
(* An instruction says what it writes and, in uses, the value its emitter  *)
(* means each place it reads to have: a register, a stack word (S1 is the  *)
(* top) or a port.  Values are names: x1, x2, ... the arguments.           *)
(***************************************************************************)
EXTENDS Integers, Sequences, FiniteSets, TLC

CONSTANTS
  Last,     \* NUM_GPRS - 1
  Ports,    \* the registers of the devices
  Statics,  \* globals in which the code of a call site keeps a value
  Frame,    \* the words of the running function's frame: locals, spill slots
  Again     \* whether a function called by an argument may come to the same site

ASSUME EmittedAssumption == Last \in Nat /\ Last >= 3

VARIABLES
  call,        \* the call: its arguments' kinds, where its result goes, what is ignored
  code,        \* the instructions left
  env,         \* the register behind each variable of the emitter
  inventory,   \* register_inventory: registers taken
  pinned,      \* register_pinned
  word,        \* what the registers have
  stack,       \* the words pushed since the call began, top first
  port,        \* what the ports and the statics have
  evaluated,   \* the arguments evaluated so far
  outcome      \* the result promised to the destination

vars == <<call, code, env, inventory, pinned, word, stack, port, evaluated, outcome>>

Regs == 1..Last
Memory == Ports \cup Statics \cup Frame
Arg(i) == "x" \o ToString(i)
Junk == "junk"   \* a word left by someone else

\* A literal; an expression known to be a number; one that reads a variable;
\* one that calls a function.
Kinds == {"number", "string", "nil", "numeric", "plain", "call"}

Fixed ==
  [R0 |-> 0, R1 |-> 1, R2 |-> 2, R3 |-> 3, R4 |-> 4, R5 |-> 5, R6 |-> 6, R7 |-> 7, R8 |-> 8,
   R9 |-> 9, R10 |-> 10, R11 |-> 11, R12 |-> 12, R13 |-> 13]
Top ==
  [S1 |-> 1, S2 |-> 2, S3 |-> 3, S4 |-> 4, S5 |-> 5, S6 |-> 6, S7 |-> 7, S8 |-> 8, S9 |-> 9,
   S10 |-> 10, S11 |-> 11, S12 |-> 12, S13 |-> 13]

-----------------------------------------------------------------------------
(***************************************************************************)
(* The instructions, as the emitters write them.                           *)
(***************************************************************************)
Instr(op, v, is, uses) == [op |-> op, v |-> v, is |-> is, uses |-> uses, lost |-> {}, n |-> 0]
One(op, v, is, uses)   == <<Instr(op, v, is, uses)>>

Alloc(v)        == One("alloc", v, "", {})         \* allocate_register
AllocPinned(v)  == One("allocpinned", v, "", {})   \* allocate_pinned_register
Avoiding(A, taken) == <<[A[1] EXCEPT !.lost = taken]>>   \* with some registers pinned meanwhile
Lock(v)         == One("lock", v, "", {})          \* lock_register
Pin(v)          == One("pin", v, "", {})           \* register_pinned[v] = 1
Unpin(v)        == One("unpin", v, "", {})         \* register_pinned[v] = 0
Unlock(v)       == One("unlock", v, "", {})        \* unlock_register
UnlockPinned(v) == Unpin(v) \o Unlock(v)           \* unlock_pinned_register
Eval(i, v)      == One("eval", v, Arg(i), {})      \* generate_asm (arg, v)
Push(v, x)      == One("push", v, x, {<<v, x>>})
Pop(v, x)       == One("pop", v, x, {<<"S1", x>>})
Save(v)         == One("push", v, "", {})          \* of whatever v has
Restore(v)      == One("pop", v, "", {})
Drop(n)         == [i \in 1..n |-> Instr("drop", "", "", {})]   \* IADD SP, n
Load(v, x)      == One("set", v, x, {})            \* MOV v, a constant
Apply(v, x, uses) == One("set", v, x, uses)        \* v becomes x, of uses
Move(v, w, x)   == Apply(v, x, {<<w, x>>})
Out(p, x, uses) == One("out", p, x, uses)
Check(uses)     == One("check", "", "", uses)      \* what the call was to bring about
Refuse          == One("refuse", "", "", {})       \* compiler_error

\* SP is set to what v has: the value SP0 is the stack as the call found it.
Unwind(v) == One("unwind", v, "", {<<v, "SP0">>})

\* A function leaves its first three values in R0, R2 and R3, others in MV_BUF,
\* and their number in RET_COUNT.
Nth(x, k) == IF k = 1 THEN x ELSE x \o "." \o ToString(k)
Count(x)  == x \o ".n"

\* CALL of a runtime routine: its result in R0, and no register kept; or its
\* result in v, and only the registers in lost gone.
Runtime(x, uses) == <<[Instr("call", "R0", x, uses) EXCEPT !.lost = 0..Last]>>
RuntimeIn(v, x, uses, lost) == <<[Instr("call", v, x, uses) EXCEPT !.lost = lost]>>

\* The n words on top, in the other order; the swaps use the registers in lost.
Reverse(n, lost) ==
  IF n < 2 THEN <<>> ELSE <<[Instr("reverse", "S" \o ToString(n), "", {}) EXCEPT !.lost = lost]>>

\* A condition decides: over one part, to the other.  Body may be skipped.
\* Registers are taken and given back within a part, or around all of them.
JumpOver(op, n) == <<[Instr(op, "", "", {}) EXCEPT !.n = n]>>
Either(A, B)    == JumpOver("branch", Len(A) + 1) \o A \o JumpOver("jump", Len(B)) \o B
Maybe(Body)     == JumpOver("branch", Len(Body)) \o Body

\* The result is moved to the destination, which is 0 when the caller takes
\* several values from R0, R2 and R3.
Result(c, v, x) == IF c.dest = 0 THEN <<>> ELSE One("result", v, x, {<<v, x>>})
ResultOf(c, x)  == IF c.dest = 0 THEN <<>> ELSE One("result", "", x, {})
ResultNil(c)    == ResultOf(c, "nil")

\* The words a routine finds on the stack, the last pushed first.
Words(s) == {<<p, s[Top[p]]>> : p \in {q \in DOMAIN Top : Top[q] <= Len(s)}}

Arity(c) == Len(c.args)
Has(c, i) == i <= Arity(c)
Or(c, i, default) == IF Has(c, i) /\ c.args[i] # "nil" THEN Arg(i) ELSE default
Is(c, i, kinds) == Has(c, i) /\ c.args[i] \in kinds

AtLeast(c, n, body) == IF Arity(c) >= n THEN body ELSE Refuse

\* Each of the parts, one after the other.
Flat(parts) ==
  LET upto[i \in 0..Len(parts)] == IF i = 0 THEN <<>> ELSE upto[i-1] \o parts[i]
  IN upto[Len(parts)]

-----------------------------------------------------------------------------
Reg(v)   == IF v \in DOMAIN Fixed THEN Fixed[v] ELSE IF v = "dest" THEN call.dest ELSE env[v]
Depth(p) == Top[p] <= Len(stack)

At(p) ==
  IF p \in DOMAIN Top THEN IF Depth(p) THEN stack[Top[p]] ELSE Junk
  ELSE IF p \in Memory THEN port[p]
  ELSE word[Reg(p)]

Init(Calls) ==
  /\ call \in Calls
  /\ code = <<>>
  /\ env = <<>>
  /\ inventory = call.busy
  /\ pinned = {}
  /\ word = [r \in 0..Last |-> Junk]
  /\ stack = <<>>
  /\ port = [p \in Memory |-> Junk]
  /\ evaluated = <<>>
  /\ outcome = "uncompiled"

\* The compiler comes to the call: its emitter writes the code.
Emit(Code(_)) ==
  /\ outcome = "uncompiled"
  /\ code' = Code(call)
  /\ outcome' = "none"
  /\ UNCHANGED <<call, env, inventory, pinned, word, stack, port, evaluated>>

Next1 == Head(code)
Step(ops) == code # <<>> /\ Next1.op \in ops /\ code' = Tail(code)

\* allocate_register: the lowest register neither taken nor pinned.
Allocate ==
  /\ Step({"alloc", "allocpinned"})
  /\ \E r \in Regs \ (inventory \cup pinned \cup Next1.lost) :
       /\ \A q \in Regs \ (inventory \cup pinned \cup Next1.lost) : r <= q
       /\ env' = (Next1.v :> r) @@ env
       /\ inventory' = inventory \cup {r}
       /\ pinned' = IF Next1.op = "allocpinned" THEN pinned \cup {r} ELSE pinned
  /\ UNCHANGED <<call, word, stack, port, evaluated, outcome>>

SetPin ==
  /\ Step({"pin", "unpin"})
  /\ pinned' = IF Next1.op = "pin" THEN pinned \cup {Reg(Next1.v)} ELSE pinned \ {Reg(Next1.v)}
  /\ UNCHANGED <<call, env, inventory, word, stack, port, evaluated, outcome>>

LockRegister ==
  /\ Step({"lock", "unlock"})
  /\ inventory' = IF Next1.op = "lock" THEN inventory \cup {Reg(Next1.v)} ELSE inventory \ {Reg(Next1.v)}
  /\ UNCHANGED <<call, env, pinned, word, stack, port, evaluated, outcome>>

KindOf(x) == call.args[CHOOSE i \in DOMAIN call.args : Arg(i) = x]

\* What a call leaves behind, but for its values.
LeftIn(p, x) ==
  CASE p = "RET_COUNT" -> Count(x)
    [] p = "MV_BUF3" -> Nth(x, 4)
    [] p \in Ports \/ (p \in Statics /\ Again) -> Junk
    [] OTHER -> port[p]

\* generate_asm of an argument.  A call leaves nothing but its values.
Evaluate ==
  /\ Step({"eval"})
  /\ LET x == Next1.is
         k == KindOf(x)
     IN /\ word' = [r \in 0..Last |->
             IF r = Reg(Next1.v) THEN x
             ELSE IF k = "call" THEN IF r = 0 THEN x ELSE IF r \in {2, 3} THEN Nth(x, r) ELSE Junk
             ELSE IF k \in {"plain", "numeric"} /\ r = 0 THEN Junk
             ELSE word[r]]
        /\ port' = [p \in Memory |-> IF k = "call" THEN LeftIn(p, x) ELSE port[p]]
  /\ evaluated' = Append(evaluated, Next1.is)
  /\ UNCHANGED <<call, env, inventory, pinned, stack, outcome>>

PushWord ==
  /\ Step({"push"})
  /\ stack' = <<At(Next1.v)>> \o stack
  /\ UNCHANGED <<call, env, inventory, pinned, word, port, evaluated, outcome>>

PopWord ==
  /\ Step({"pop", "drop", "unwind"})
  /\ stack' = IF stack = <<>> \/ Next1.op = "unwind" THEN <<>> ELSE Tail(stack)
  /\ word' = IF Next1.op # "pop" THEN word ELSE [word EXCEPT ![Reg(Next1.v)] = At("S1")]
  /\ UNCHANGED <<call, env, inventory, pinned, port, evaluated, outcome>>

ReverseWords ==
  /\ Step({"reverse"})
  /\ LET n == Top[Next1.v] IN
       stack' = [i \in DOMAIN stack |-> IF i <= n THEN stack[n + 1 - i] ELSE stack[i]]
  /\ word' = [r \in 0..Last |-> IF r \in Next1.lost THEN Junk ELSE word[r]]
  /\ UNCHANGED <<call, env, inventory, pinned, port, evaluated, outcome>>

Compute ==
  /\ Step({"set"})
  /\ word' = [word EXCEPT ![Reg(Next1.v)] = Next1.is]
  /\ UNCHANGED <<call, env, inventory, pinned, stack, port, evaluated, outcome>>

Output ==
  /\ Step({"out"})
  /\ port' = IF Next1.v \in Memory THEN [port EXCEPT ![Next1.v] = Next1.is] ELSE port
  /\ UNCHANGED <<call, env, inventory, pinned, word, stack, evaluated, outcome>>

CallRuntime ==
  /\ Step({"call"})
  /\ word' = [r \in 0..Last |->
       IF r = Reg(Next1.v) THEN Next1.is ELSE IF r \in Next1.lost THEN Junk ELSE word[r]]
  /\ UNCHANGED <<call, env, inventory, pinned, stack, port, evaluated, outcome>>

Deliver ==
  /\ Step({"result"})
  /\ word' = [word EXCEPT ![call.dest] = Next1.is]
  /\ outcome' = Next1.is
  /\ UNCHANGED <<call, env, inventory, pinned, stack, port, evaluated>>

Examine ==
  /\ Step({"check"})
  /\ UNCHANGED <<call, env, inventory, pinned, word, stack, port, evaluated, outcome>>

Jump ==
  /\ code # <<>> /\ Next1.op \in {"branch", "jump"}
  /\ \E n \in {Next1.n} \cup (IF Next1.op = "branch" THEN {0} ELSE {}) : code' = SubSeq(code, n + 2, Len(code))
  /\ UNCHANGED <<call, env, inventory, pinned, word, stack, port, evaluated, outcome>>

RefuseCall ==
  /\ code # <<>> /\ Next1.op = "refuse"
  /\ code' = <<>>
  /\ outcome' = "refused"
  /\ UNCHANGED <<call, env, inventory, pinned, word, stack, port, evaluated>>

Next(Code(_)) ==
  \/ Emit(Code) \/ Allocate \/ SetPin \/ LockRegister \/ Evaluate \/ PushWord \/ PopWord \/ ReverseWords
  \/ Compute \/ Output \/ CallRuntime \/ Deliver \/ Examine \/ Jump \/ RefuseCall

-----------------------------------------------------------------------------
Finished == code = <<>> /\ outcome \notin {"uncompiled", "refused"}

\* What an instruction, a routine or a device reads is the operand its emitter
\* put there, whatever the arguments evaluated in between have called.
OperandsReach ==
  code # <<>> /\ Next1.op # "check" => \A u \in Next1.uses : At(u[1]) = u[2]

\* A device is left as the call asked: what is written last is what stays.
EffectsStay ==
  code # <<>> /\ Next1.op = "check" => \A u \in Next1.uses : At(u[1]) = u[2]

\* The stack is as deep after the call as before, and never below.
StackBalanced ==
  /\ Finished => stack = <<>>
  /\ code # <<>> /\ Next1.op \in {"pop", "drop"} => stack # <<>>

\* The emitter gives back every register it took and leaves none pinned.
RegistersReturned ==
  Finished => inventory = call.busy /\ pinned = {}

\* An argument that calls a function is evaluated, and once: what it does is
\* done, and not done again.  But for the arguments a function is said to ignore.
EvaluatedOnce ==
  LET calling == {i \in DOMAIN call.args : call.args[i] = "call"} \ call.ignored
      seen    == SelectSeq(evaluated, LAMBDA x : KindOf(x) = "call")
  IN /\ \A i, j \in DOMAIN seen : seen[i] = seen[j] => i = j
     /\ Finished => {Arg(i) : i \in calling} \subseteq {seen[i] : i \in DOMAIN seen}
=============================================================================
