---------------------------- MODULE RoutineCalls ----------------------------
(***************************************************************************)
(* The commonest code of a library function: the operands of a runtime     *)
(* routine are pushed, the last first, so that the routine finds the first *)
(* on top; an argument left out has a default.                             *)
(***************************************************************************)
EXTENDS EmittedCode

\* What argument i, of which d is the default, comes to; a nil written out may
\* count as left out.
Val(c, d, i)   == IF Has(c, i) THEN Arg(i) ELSE d[i]
ValOr(c, d, i) == Or(c, i, d[i])

\* generate_asm (args[i], reg) or MOV reg, default; PUSH reg
PushVal(i, x) ==
  Alloc("reg") \o (IF x = Arg(i) THEN Eval(i, "reg") ELSE Load("reg", x)) \o Push("reg", x) \o Unlock("reg")

\* The same with the register pinned.
PushPinnedKept(i, x) ==   \* mutant: the register is given back, its pin is not
  AllocPinned("reg") \o (IF x = Arg(i) THEN Eval(i, "reg") ELSE Load("reg", x)) \o Push("reg", x)
  \o Unlock("reg")

PushPinned(i, x) ==
  AllocPinned("reg") \o (IF x = Arg(i) THEN Eval(i, "reg") ELSE Load("reg", x)) \o Push("reg", x)
  \o UnlockPinned("reg")

\* The same with R0 for a default.
PushR0(i, x) ==
  IF x = Arg(i) THEN PushVal(i, x) ELSE Load("R0", x) \o Push("R0", x)

Constant(x) == Alloc("reg") \o Load("reg", x) \o Push("reg", x) \o Unlock("reg")
ConstantR0(x) == Load("R0", x) \o Push("R0", x)

\* The operands x, the last first.
LastFirst(PushIt(_, _), x) ==
  LET n == Len(x) IN Flat([k \in 1..n |-> PushIt(n + 1 - k, x[n + 1 - k])])

\* CALL f; IADD SP, n
CallDropOne(f, words) == Runtime(f, Words(words)) \o Drop(1)   \* mutant: one word is dropped

CallDrop(f, words) == Runtime(f, Words(words)) \o Drop(Len(words))

Vals(c, d)   == [i \in DOMAIN d |-> Val(c, d, i)]
ValsOr(c, d) == [i \in DOMAIN d |-> ValOr(c, d, i)]
Nils(n)      == [i \in 1..(IF n > 0 THEN n ELSE 0) |-> "nil"]
=============================================================================
