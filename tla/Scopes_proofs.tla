--------------------------- MODULE Scopes_proofs ---------------------------
(***************************************************************************)
(* The proofs about variables in the compiler, for any names and programs  *)
(* of any length.  The analysis and the code generation read the same      *)
(* constructs, one after the other has ended; what relates them is the     *)
(* history of the first reading, a stack of levels for each place of the   *)
(* program.  The history is no variable: an invariant says there is one.   *)
(***************************************************************************)
EXTENDS Scopes, SequenceTheorems, WellFoundedInduction, TLAPS

-----------------------------------------------------------------------------
(***************************************************************************)
(* The history of a program.                                               *)
(***************************************************************************)
Ops    == {"local", "use", "if", "else", "for", "function", "named", "call", "end"}
Opened == {"if", "else", "for", "function", "named"}

Constructs == [op : Ops, name : Names \cup {"none"}]

Made(op)  == op \in {"function", "named"}
Naming(op) == op \in {"local", "use", "for", "function", "named"}

\* A level is a block that is open, with the variable each name denotes in it,
\* and the slots its frame takes before it.
Levels ==
  [op : {"file"} \cup Opened, fn : Nat, first : Nat, env : [Names -> Nat],
   count : Nat, then : Nat, base : Nat]

Level(op, fn, first, e, count, then, base) ==
  [op |-> op, fn |-> fn, first |-> first, env |-> e, count |-> count, then |-> then,
   base |-> base]

Inner(L)  == L[Len(L)]
Within(L) == L[Len(L) - 1]

WithInner(L, b) == [L EXCEPT ![Len(L)] = b]
Counting(b, k)  == Level(b.op, b.fn, b.first, b.env, b.count + k, b.then, b.base)
Bind(e, n, v)   == [m \in Names |-> IF m = n THEN v ELSE e[m]]

\* What construct c, read as the p-th, makes of the levels L.
MovesLocal(L, M, c, p) ==
  LET b == Inner(L) IN
  /\ c.op = "local"
  /\ M = WithInner(L, Level(b.op, b.fn, b.first,
                            Bind(b.env, c.name, IF Len(L) = 1 THEN 0 ELSE p),
                            b.count + 1, b.then, b.base))
MovesBlock(L, M, c, p) ==
  LET b == Inner(L) IN
  /\ c.op = "if"
  /\ M = Append(L, Level("if", b.fn, p, b.env, 0, 0, b.base + b.count))
MovesElse(L, M, c, p) ==
  LET b == Inner(L) IN
  /\ c.op = "else" /\ Len(L) > 1 /\ b.op = "if"
  /\ M = WithInner(L, Level("else", b.fn, b.first, Within(L).env, 0, b.count, b.base))
MovesFor(L, M, c, p) ==
  LET b == Inner(L) IN
  /\ c.op = "for"
  /\ M = Append(WithInner(L, Counting(b, 4)),
                Level("for", b.fn, p, Bind(b.env, c.name, p), 0, 0, b.base + b.count + 4))
MovesFunction(L, M, c, p) ==
  /\ Made(c.op)
  /\ M = Append(L, Level(c.op, p, p, Bind(Inner(L).env, c.name, p), 0, 0, 0))
MovesEnd(L, M, c, p) ==
  LET rest == SubSeq(L, 1, Len(L) - 1) IN
  /\ c.op = "end" /\ Len(L) > 1
  /\ M = IF Made(Inner(L).op) THEN rest
         ELSE WithInner(rest, Counting(Within(L), CountOf(Inner(L))))
Moves(L, M, c, p) ==
  \/ MovesLocal(L, M, c, p) \/ MovesBlock(L, M, c, p) \/ MovesElse(L, M, c, p)
  \/ MovesFor(L, M, c, p) \/ MovesFunction(L, M, c, p) \/ MovesEnd(L, M, c, p)
  \/ c.op \in {"use", "call"} /\ M = L

\* Level j of the levels L before the p-th construct of prog.
GoodFirst(L) ==
  /\ L[1].op = "file" /\ L[1].fn = 0 /\ L[1].env = [n \in Names |-> 0]
  /\ L[1].base = 0 /\ L[1].then = 0
GoodBounds(L, p) ==
  \A j \in 1..Len(L) :
    /\ L[j].fn < p /\ L[j].first < p /\ \A n \in Names : L[j].env[n] < p
    /\ L[j].op = "file" <=> j = 1
GoodOrder(L) ==
  \A i, j \in 1..Len(L) : i < j =>
    L[i].fn <= L[j].fn /\ (Made(L[j].op) => L[i].fn < L[j].fn)
GoodMade(prog, h, L) ==
  \A j \in 2..Len(L) : Made(L[j].op) =>
    /\ L[j].fn = L[j].first /\ L[j].fn \in Nat \ {0} /\ L[j].base = 0 /\ L[j].then = 0
    /\ L[j].op = prog[L[j].fn].op
    /\ Inner(h[L[j].fn]) = L[j - 1]
GoodBlock(L) ==
  \A j \in 2..Len(L) : ~Made(L[j].op) =>
    /\ L[j].fn = L[j - 1].fn
    /\ L[j].base = L[j - 1].base + L[j - 1].count
    /\ L[j].op = "if" => L[j].then = 0
Good(prog, h, L, p) ==
  /\ L \in Seq(Levels) /\ Len(L) >= 1
  /\ GoodFirst(L) /\ GoodBounds(L, p) /\ GoodOrder(L) /\ GoodMade(prog, h, L) /\ GoodBlock(L)

\* What the names denote there: a function binds its parameter, and what it does
\* not bind is what it was outside of the function; what is bound stays bound
\* inside; a variable is bound in the function it belongs to; a function that
\* has ended is not open.
Owner(prog, h, v) == IF Made(prog[v].op) THEN v ELSE Inner(h[v]).fn

NamesBound(prog, h, L) ==
  \A j \in 1..Len(L) : L[j].fn # 0 =>
    /\ prog[L[j].fn].name \in Names /\ L[j].env[prog[L[j].fn].name] >= L[j].fn
    /\ \A n \in Names : L[j].env[n] < L[j].fn => L[j].env[n] = Inner(h[L[j].fn]).env[n]
NamesStay(L) ==
  \A i, j \in 1..Len(L) : i < j /\ L[i].fn = L[j].fn =>
    \A n \in Names : L[i].env[n] >= L[i].fn => L[j].env[n] >= L[j].fn
NamesOwned(prog, h, L) ==
  \A j \in 1..Len(L) : \A n \in Names :
    L[j].env[n] # 0 /\ Owner(prog, h, L[j].env[n]) # 0 =>
      \E i \in 1..j : /\ L[i].fn = Owner(prog, h, L[j].env[n])
                      /\ L[i].env[n] >= L[i].fn
Closes(prog, h, q) == prog[q].op = "end" /\ Made(Inner(h[q]).op)
NamesClosed(prog, h, L, p) ==
  \A q \in 1..(p - 1) : Closes(prog, h, q) =>
    \A j \in 1..Len(L) : L[j].fn # Inner(h[q]).fn
GoodNames(prog, h, L, p) ==
  /\ NamesBound(prog, h, L) /\ NamesStay(L) /\ NamesOwned(prog, h, L)
  /\ NamesClosed(prog, h, L, p)

File == Level("file", 0, 0, [n \in Names |-> 0], 0, 0, 0)

\* h tells how prog was read.
Story(prog, h) ==
  /\ prog \in Seq(Constructs)
  /\ h[1] = <<File>>
  /\ \A p \in 1..(Len(prog) + 1) : Good(prog, h, h[p], p) /\ GoodNames(prog, h, h[p], p)
  /\ \A p \in 1..Len(prog) :
       /\ Moves(h[p], h[p + 1], prog[p], p)
       /\ Naming(prog[p].op) => prog[p].name \in Names

Told(h, p, M) == [i \in 1..(p + 1) |-> IF i <= p THEN h[i] ELSE M]

-----------------------------------------------------------------------------
\* A set of numbers has a least one,
LEMMA Least ==
  ASSUME NEW T \in SUBSET Nat, T # {}
  PROVE  \E x \in T : \A y \in T : x <= y
<1>1. PICK x \in T : \A y \in T : ~(<<y, x>> \in OpToRel(<, Nat))
  BY WFMin, NatLessThanWellFounded, Zenon
<1>2. \A y \in T : ~(y < x)
  BY <1>1 DEF OpToRel
<1>3. \A y \in T : y \in Nat
  OBVIOUS
<1>4. \A y \in T : x <= y
  BY <1>2, <1>3
<1> QED
  BY <1>4

\* and a greatest, if it is bounded.
LEMMA Greatest ==
  ASSUME NEW m \in Nat, NEW T \in SUBSET (0..m), T # {}
  PROVE  \E x \in T : \A y \in T : y <= x
<1> DEFINE U == {m - y : y \in T}
<1>1. U \in SUBSET Nat /\ U # {}
  <2>1. PICK y \in T : TRUE
    OBVIOUS
  <2>2. m - y \in U
    BY <2>1
  <2>3. \A z \in T : m - z \in Nat
    OBVIOUS
  <2> QED
    BY <2>2, <2>3
<1>2. PICK u \in U : \A v \in U : u <= v
  BY <1>1, Least
<1>3. PICK x \in T : u = m - x
  OBVIOUS
<1>4. \A y \in T : m - x <= m - y
  BY <1>2, <1>3
<1>5. \A y \in T : y <= x
  BY <1>4
<1> QED
  BY <1>5

\* A level changed at the end.
LEMMA WithInnerIs ==
  ASSUME NEW L \in Seq(Levels), Len(L) >= 1, NEW b \in Levels
  PROVE  /\ WithInner(L, b) \in Seq(Levels) /\ Len(WithInner(L, b)) = Len(L)
         /\ \A j \in 1..(Len(L) - 1) : WithInner(L, b)[j] = L[j]
         /\ WithInner(L, b)[Len(L)] = b /\ Inner(WithInner(L, b)) = b
BY DEF WithInner, Inner

\* A level added, and one taken away.
LEMMA AppendIs ==
  ASSUME NEW L \in Seq(Levels), NEW b \in Levels
  PROVE  /\ Append(L, b) \in Seq(Levels) /\ Len(Append(L, b)) = Len(L) + 1
         /\ \A j \in 1..Len(L) : Append(L, b)[j] = L[j]
         /\ Append(L, b)[Len(L) + 1] = b /\ Inner(Append(L, b)) = b
BY DEF Inner

\* Levels without the inner one.
LEMMA RestIs ==
  ASSUME NEW L \in Seq(Levels), Len(L) > 1
  PROVE  /\ SubSeq(L, 1, Len(L) - 1) \in Seq(Levels)
         /\ Len(SubSeq(L, 1, Len(L) - 1)) = Len(L) - 1
         /\ \A j \in 1..(Len(L) - 1) : SubSeq(L, 1, Len(L) - 1)[j] = L[j]
         /\ Inner(SubSeq(L, 1, Len(L) - 1)) = Within(L)
BY DEF Inner, Within

\* The parts of a level, and the slots it takes.
LEMMA LevelHas ==
  ASSUME NEW b \in Levels
  PROVE  /\ b.op \in {"file"} \cup Opened /\ b.fn \in Nat /\ b.first \in Nat
         /\ b.env \in [Names -> Nat] /\ b.count \in Nat /\ b.then \in Nat /\ b.base \in Nat
         /\ CountOf(b) \in Nat /\ CountOf(b) >= b.count /\ CountOf(b) >= b.then
         /\ CountOf(b) = b.count \/ CountOf(b) = b.then
BY DEF Levels, CountOf

\* A name bound to a variable; the others denote what they did.
LEMMA BindIs ==
  ASSUME NEW e \in [Names -> Nat], NEW n \in Names, NEW v \in Nat
  PROVE  /\ Bind(e, n, v) \in [Names -> Nat] /\ Bind(e, n, v)[n] = v
         /\ \A m \in Names : m # n => Bind(e, n, v)[m] = e[m]
BY DEF Bind

\* What may become of the last level, and what may be added.
Changing(L, d, p) ==
  LET b == Inner(L) IN
  /\ d.fn = b.fn /\ d.first = b.first /\ d.base = b.base
  /\ \A m \in Names : d.env[m] < p + 1
  /\ d.op = b.op \/ (Len(L) > 1 /\ b.op = "if" /\ d.op = "else")
  /\ d.op = b.op => d.then = b.then
  /\ Len(L) = 1 => d.env = b.env
Adding(prog, h, L, d, p) ==
  LET b == Inner(L) IN
  /\ \A m \in Names : d.env[m] < p + 1
  /\ d.op # "file" /\ d.first = p /\ d.then = 0 /\ b.fn < p
  /\ IF Made(d.op) THEN d.fn = p /\ d.base = 0 /\ d.op = prog[p].op /\ Inner(h[p]) = b
     ELSE d.fn = b.fn /\ d.base = b.base + b.count

\* The last level changed: its function and where it begins stay.
LEMMA LevelChanged ==
  ASSUME NEW prog, NEW h, NEW L, NEW p \in Nat \ {0}, Good(prog, h, L, p),
         NEW d \in Levels, Changing(L, d, p)
  PROVE  Good(prog, h, WithInner(L, d), p + 1)
<1> DEFINE n == Len(L)
           b == Inner(L)
           M == WithInner(L, d)
<1>1. /\ L \in Seq(Levels) /\ Len(L) = n /\ n \in Nat /\ n >= 1 /\ b \in Levels /\ b = L[n]
      /\ \A j \in 1..n : L[j] \in Levels
  BY DEF Good, Inner
<1>2. /\ b.op \in {"file"} \cup Opened /\ b.fn \in Nat /\ b.first \in Nat
      /\ b.env \in [Names -> Nat] /\ b.count \in Nat /\ b.then \in Nat /\ b.base \in Nat
      /\ CountOf(b) \in Nat
  BY <1>1, LevelHas
<1>3. /\ GoodFirst(L) /\ GoodBounds(L, p) /\ GoodOrder(L) /\ GoodMade(prog, h, L) /\ GoodBlock(L)
  BY DEF Good
<1>5. b.fn < p /\ b.first < p /\ (\A m \in Names : b.env[m] < p)
  BY <1>1, <1>3 DEF GoodBounds
<1>6. /\ d.fn = b.fn /\ d.first = b.first /\ d.base = b.base /\ \A m \in Names : d.env[m] < p + 1
      /\ d.op = b.op \/ (n > 1 /\ b.op = "if" /\ d.op = "else")
      /\ d.op = b.op => d.then = b.then
      /\ n = 1 => d.env = b.env
      /\ M = WithInner(L, d)
  BY DEF Changing
<1> HIDE DEF n, b, M
<1>11. /\ M \in Seq(Levels) /\ Len(M) = n /\ M[n] = d
      /\ \A j \in 1..(n - 1) : M[j] = L[j]
  BY <1>1, <1>6, WithInnerIs DEF n
<1>12. GoodFirst(M)
  BY <1>1, <1>3, <1>6, <1>11 DEF GoodFirst
<1>13. GoodBounds(M, p + 1)
  <2>1. ASSUME NEW j \in 1..n
        PROVE  /\ M[j].fn < p + 1 /\ M[j].first < p + 1 /\ \A m \in Names : M[j].env[m] < p + 1
               /\ M[j].op = "file" <=> j = 1
    <3>1. CASE j = n
      <4>1. L[n].op = "file" <=> n = 1
        <5>1. n \in 1..Len(L)
          BY <1>1
        <5> QED
          BY <1>3, <5>1 DEF GoodBounds
      <4>2. d.op = "file" <=> n = 1
        BY <1>1, <1>6, <4>1
      <4> QED
        BY <1>1, <1>2, <1>5, <1>6, <1>11, <3>1, <4>2
    <3>2. CASE j # n
      <4>1. M[j] = L[j] /\ L[j] \in Levels
        BY <1>1, <1>11, <3>2
      <4>2. L[j].fn < p /\ L[j].first < p /\ (\A m \in Names : L[j].env[m] < p)
            /\ (L[j].op = "file" <=> j = 1)
        BY <1>1, <1>3 DEF GoodBounds
      <4>3. L[j].fn \in Nat /\ L[j].first \in Nat /\ L[j].env \in [Names -> Nat]
        BY <4>1, LevelHas
      <4> QED
        BY <4>1, <4>2, <4>3
    <3> QED
      BY <3>1, <3>2
  <2> QED
    BY <1>1, <1>11, <2>1 DEF GoodBounds
<1>14. \A j \in 1..n : M[j].fn = L[j].fn /\ (Made(M[j].op) <=> Made(L[j].op))
  <2>1. Made(d.op) <=> Made(b.op)
    BY <1>6 DEF Made
  <2> QED
    BY <1>1, <1>6, <1>11, <2>1
<1>15. GoodOrder(M)
  BY <1>1, <1>3, <1>11, <1>14 DEF GoodOrder
<1>16. GoodMade(prog, h, M)
  <2> SUFFICES ASSUME NEW j \in 2..n, Made(M[j].op)
               PROVE  /\ M[j].fn = M[j].first /\ M[j].fn \in Nat \ {0} /\ M[j].base = 0 /\ M[j].then = 0
                      /\ M[j].op = prog[M[j].fn].op
                      /\ Inner(h[M[j].fn]) = M[j - 1]
    BY <1>1, <1>11 DEF GoodMade
  <2>1. /\ L[j].fn = L[j].first /\ L[j].fn \in Nat \ {0} /\ L[j].base = 0 /\ L[j].then = 0
        /\ L[j].op = prog[L[j].fn].op
        /\ Inner(h[L[j].fn]) = L[j - 1]
    BY <1>1, <1>3, <1>14 DEF GoodMade
  <2>2. M[j - 1] = L[j - 1]
    BY <1>1, <1>11
  <2>3. CASE j # n
    BY <1>1, <1>11, <2>1, <2>2, <2>3
  <2>4. CASE j = n
    <3>1. d.op = b.op
      BY <1>6, <1>11, <2>4 DEF Made
    <3> QED
      BY <1>1, <1>6, <1>11, <2>1, <2>2, <2>4, <3>1
  <2> QED
    BY <2>3, <2>4
<1>17. GoodBlock(M)
  <2> SUFFICES ASSUME NEW j \in 2..n, ~Made(M[j].op)
               PROVE  /\ M[j].fn = M[j - 1].fn
                      /\ M[j].base = M[j - 1].base + M[j - 1].count
                      /\ M[j].op = "if" => M[j].then = 0
    BY <1>1, <1>11 DEF GoodBlock
  <2>1. /\ L[j].fn = L[j - 1].fn /\ L[j].base = L[j - 1].base + L[j - 1].count
        /\ L[j].op = "if" => L[j].then = 0
    BY <1>1, <1>3, <1>14 DEF GoodBlock
  <2>2. M[j - 1] = L[j - 1]
    BY <1>1, <1>11
  <2>3. CASE j # n
    BY <1>1, <1>11, <2>1, <2>2, <2>3
  <2>4. CASE j = n
    BY <1>1, <1>6, <1>11, <2>1, <2>2, <2>4
  <2> QED
    BY <2>3, <2>4
<1> QED
  BY <1>1, <1>11, <1>12, <1>13, <1>15, <1>16, <1>17 DEF Good, M

\* A level added.
LEMMA LevelAdded ==
  ASSUME NEW prog, NEW h, NEW K, NEW p \in Nat \ {0}, Good(prog, h, K, p + 1),
         NEW d \in Levels, Adding(prog, h, K, d, p)
  PROVE  Good(prog, h, Append(K, d), p + 1)
<1> DEFINE n == Len(K)
           b == Inner(K)
           M == Append(K, d)
<1>1. /\ K \in Seq(Levels) /\ n \in Nat /\ n >= 1 /\ b \in Levels /\ b = K[n]
  BY DEF Good, Inner
<1>2. /\ b.fn \in Nat /\ b.first \in Nat /\ b.env \in [Names -> Nat] /\ b.count \in Nat
      /\ b.base \in Nat
  BY <1>1, LevelHas
<1>5. b.fn < p
  BY DEF Adding
<1>7. /\ \A m \in Names : d.env[m] < p + 1
      /\ d.op # "file" /\ d.first = p /\ d.then = 0 /\ M = Append(K, d) /\ Len(K) = n
      /\ IF Made(d.op) THEN d.fn = p /\ d.base = 0 /\ d.op = prog[p].op /\ Inner(h[p]) = Inner(K)
         ELSE d.fn = b.fn /\ d.base = b.base + b.count
  BY DEF Adding
<1> HIDE DEF n, b, M
<1>11. /\ M \in Seq(Levels) /\ Len(M) = n + 1 /\ M[n + 1] = d
      /\ \A j \in 1..n : M[j] = K[j] /\ K[j] \in Levels
  BY <1>1, <1>7, AppendIs
<1>12. GoodFirst(K) /\ GoodBounds(K, p + 1) /\ GoodOrder(K) /\ GoodMade(prog, h, K) /\ GoodBlock(K)
  BY <1>1, <1>7 DEF Good
<1>13. K[n] = Inner(K) /\ M[n] = K[n] /\ K[n].fn = b.fn
  BY <1>1, <1>7, <1>11 DEF Inner
<1>14. GoodFirst(M)
  BY <1>1, <1>11, <1>12 DEF GoodFirst
<1>15. GoodBounds(M, p + 1)
  <2>1. ASSUME NEW j \in 1..(n + 1)
        PROVE  /\ M[j].fn < p + 1 /\ M[j].first < p + 1 /\ \A m \in Names : M[j].env[m] < p + 1
               /\ M[j].op = "file" <=> j = 1
    <3>1. CASE j = n + 1
      BY <1>1, <1>2, <1>5, <1>7, <1>11, <3>1
    <3>2. CASE j # n + 1
      BY <1>1, <1>7, <1>11, <1>12, <3>2 DEF GoodBounds
    <3> QED
      BY <3>1, <3>2
  <2> QED
    BY <1>1, <1>11, <2>1 DEF GoodBounds
<1>16. \A j \in 1..n : K[j].fn <= b.fn /\ K[j].fn \in Nat
  <2> SUFFICES ASSUME NEW j \in 1..n
               PROVE  K[j].fn <= b.fn /\ K[j].fn \in Nat
    OBVIOUS
  <2>1. K[j].fn \in Nat
    BY <1>11, LevelHas
  <2>2. j < n => K[j].fn <= K[n].fn
    BY <1>1, <1>7, <1>12 DEF GoodOrder
  <2> QED
    BY <1>1, <1>2, <1>13, <2>1, <2>2
<1>17. GoodOrder(M)
  <2> SUFFICES ASSUME NEW i \in 1..(n + 1), NEW j \in 1..(n + 1), i < j
               PROVE  M[i].fn <= M[j].fn /\ (Made(M[j].op) => M[i].fn < M[j].fn)
    BY <1>1, <1>11 DEF GoodOrder
  <2>1. CASE j = n + 1
    BY <1>1, <1>2, <1>5, <1>7, <1>11, <1>16, <2>1
  <2>2. CASE j # n + 1
    BY <1>1, <1>7, <1>11, <1>12, <2>2 DEF GoodOrder
  <2> QED
    BY <2>1, <2>2
<1>18. GoodMade(prog, h, M)
  <2> SUFFICES ASSUME NEW j \in 2..(n + 1), Made(M[j].op)
               PROVE  /\ M[j].fn = M[j].first /\ M[j].fn \in Nat \ {0} /\ M[j].base = 0 /\ M[j].then = 0
                      /\ M[j].op = prog[M[j].fn].op
                      /\ Inner(h[M[j].fn]) = M[j - 1]
    BY <1>1, <1>11 DEF GoodMade
  <2>1. CASE j = n + 1
    BY <1>1, <1>7, <1>11, <1>13, <2>1
  <2>2. CASE j # n + 1
    <3>1. j \in 2..Len(K) /\ M[j] = K[j] /\ M[j - 1] = K[j - 1]
      BY <1>1, <1>7, <1>11, <2>2
    <3> QED
      BY <1>1, <1>12, <3>1 DEF GoodMade
  <2> QED
    BY <2>1, <2>2
<1>19. GoodBlock(M)
  <2> SUFFICES ASSUME NEW j \in 2..(n + 1), ~Made(M[j].op)
               PROVE  /\ M[j].fn = M[j - 1].fn
                      /\ M[j].base = M[j - 1].base + M[j - 1].count
                      /\ M[j].op = "if" => M[j].then = 0
    BY <1>1, <1>11 DEF GoodBlock
  <2>1. CASE j = n + 1
    BY <1>1, <1>7, <1>11, <1>13, <2>1
  <2>2. CASE j # n + 1
    <3>1. j \in 2..Len(K) /\ M[j] = K[j] /\ M[j - 1] = K[j - 1]
      BY <1>1, <1>7, <1>11, <2>2
    <3> QED
      BY <1>1, <1>12, <3>1 DEF GoodBlock
  <2> QED
    BY <2>1, <2>2
<1> QED
  BY <1>1, <1>11, <1>14, <1>15, <1>17, <1>18, <1>19 DEF Good, M

\* The levels stay good at the next place.
LEMMA LevelsStay ==
  ASSUME NEW prog, NEW h, NEW L, NEW p \in Nat \ {0}, Good(prog, h, L, p)
  PROVE  Good(prog, h, L, p + 1)
<1> DEFINE n == Len(L)
<1>1. /\ L \in Seq(Levels) /\ Len(L) = n /\ n \in Nat /\ n >= 1
      /\ \A j \in 1..n : L[j] \in Levels
  BY DEF Good
<1>3. /\ GoodFirst(L) /\ GoodBounds(L, p) /\ GoodOrder(L) /\ GoodMade(prog, h, L) /\ GoodBlock(L)
  BY DEF Good
<1> HIDE DEF n
<1>11. GoodBounds(L, p + 1)
  <2> SUFFICES ASSUME NEW j \in 1..n
               PROVE  /\ L[j].fn < p + 1 /\ L[j].first < p + 1 /\ \A m \in Names : L[j].env[m] < p + 1
                      /\ L[j].op = "file" <=> j = 1
    BY <1>1 DEF GoodBounds
  <2>1. L[j].fn \in Nat /\ L[j].first \in Nat /\ L[j].env \in [Names -> Nat]
    BY <1>1, LevelHas
  <2> QED
    BY <1>1, <1>3, <2>1 DEF GoodBounds
<1> QED
  BY <1>1, <1>3, <1>11 DEF Good

\* What a construct makes of the levels is good again.
LEMMA MovesLevels ==
  ASSUME NEW prog, NEW h, NEW L, NEW M, NEW p \in Nat \ {0}, NEW c \in Constructs,
         Good(prog, h, L, p), Moves(L, M, c, p), Naming(c.op) => c.name \in Names,
         h[p] = L, prog[p] = c
  PROVE  Good(prog, h, M, p + 1)
<1> DEFINE n == Len(L)
           b == Inner(L)
           a == Within(L)
<1>0. p \in Nat
  OBVIOUS
<1>1. /\ L \in Seq(Levels) /\ Len(L) = n /\ n \in Nat /\ n >= 1 /\ b \in Levels /\ b = L[n]
      /\ \A j \in 1..n : L[j] \in Levels
  BY DEF Good, Inner
<1>2. /\ b.op \in {"file"} \cup Opened /\ b.fn \in Nat /\ b.first \in Nat
      /\ b.env \in [Names -> Nat] /\ b.count \in Nat /\ b.then \in Nat /\ b.base \in Nat
      /\ CountOf(b) \in Nat
  BY <1>1, LevelHas
<1>3. /\ GoodFirst(L) /\ GoodBounds(L, p) /\ GoodOrder(L) /\ GoodMade(prog, h, L) /\ GoodBlock(L)
  BY DEF Good
<1>4. ASSUME n > 1
      PROVE  /\ a = L[n - 1] /\ a \in Levels /\ a.env \in [Names -> Nat]
             /\ a.fn \in Nat /\ a.count \in Nat /\ a.then \in Nat /\ a.base \in Nat
             /\ a.op \in {"file"} \cup Opened /\ a.first \in Nat
  BY <1>1, <1>4, LevelHas DEF Within
<1>5. b.fn < p /\ b.first < p /\ (\A m \in Names : b.env[m] < p)
  BY <1>1, <1>3 DEF GoodBounds
<1> HIDE DEF n, a, b
<1>8. Good(prog, h, L, p + 1)
  BY LevelsStay
<1>9. CASE MovesLocal(L, M, c, p)
  <2> DEFINE v == IF n = 1 THEN 0 ELSE p
             d == Level(b.op, b.fn, b.first, Bind(b.env, c.name, v), b.count + 1, b.then, b.base)
  <2>1. c.op = "local" /\ M = WithInner(L, d) /\ c.name \in Names
    BY <1>9 DEF MovesLocal, Naming, b, n
  <2>2. v \in Nat /\ v < p + 1
    OBVIOUS
  <2>3. /\ Bind(b.env, c.name, v) \in [Names -> Nat] /\ Bind(b.env, c.name, v)[c.name] = v
        /\ \A m \in Names : m # c.name => Bind(b.env, c.name, v)[m] = b.env[m]
    BY <1>2, <2>1, <2>2, BindIs
  <2>4. d \in Levels
    BY <1>2, <2>3 DEF Level, Levels
  <2>5. n = 1 => Bind(b.env, c.name, v) = b.env
    BY <1>1, <1>3, <2>1 DEF GoodFirst, Bind
  <2>6. \A m \in Names : Bind(b.env, c.name, v)[m] < p + 1
    BY <1>2, <1>5, <2>2, <2>3
  <2>7. /\ d.fn = b.fn /\ d.first = b.first /\ d.base = b.base /\ d.op = b.op /\ d.then = b.then
        /\ d.env = Bind(b.env, c.name, v)
    BY DEF Level
  <2> HIDE DEF d
  <2>20. Changing(L, d, p)
    BY <2>5, <2>6, <2>7 DEF Changing, n, b
  <2> QED
    BY <2>1, <2>4, <2>20, LevelChanged
<1>10. CASE MovesBlock(L, M, c, p)
  <2> DEFINE d == Level("if", b.fn, p, b.env, 0, 0, b.base + b.count)
  <2>1. M = Append(L, d)
    BY <1>10 DEF MovesBlock, b
  <2>2. d \in Levels
    BY <1>2 DEF Level, Levels, Opened
  <2>3. /\ d.op = "if" /\ d.fn = b.fn /\ d.first = p /\ d.env = b.env /\ d.then = 0
        /\ d.base = b.base + b.count
    BY DEF Level
  <2>4. \A m \in Names : d.env[m] < p + 1
    BY <1>2, <1>5, <2>3
  <2>5. ~Made(d.op) /\ d.op # "file"
    BY <2>3 DEF Made
  <2> HIDE DEF d
  <2>20. Adding(prog, h, L, d, p)
    BY <1>5, <2>3, <2>4, <2>5 DEF Adding, b
  <2> QED
    BY <1>8, <2>1, <2>2, <2>20, LevelAdded
<1>11. CASE MovesElse(L, M, c, p)
  <2> DEFINE d == Level("else", b.fn, b.first, a.env, 0, b.count, b.base)
  <2>1. M = WithInner(L, d) /\ n > 1 /\ b.op = "if"
    BY <1>11 DEF MovesElse, a, b, n
  <2>2. a.env \in [Names -> Nat] /\ (\A m \in Names : a.env[m] < p)
    BY <1>1, <1>3, <1>4, <2>1 DEF GoodBounds
  <2>3. d \in Levels
    BY <1>2, <2>2 DEF Level, Levels, Opened
  <2>4. /\ d.fn = b.fn /\ d.first = b.first /\ d.base = b.base /\ d.op = "else"
        /\ d.env = a.env
    BY DEF Level
  <2>5. \A m \in Names : d.env[m] < p + 1
    BY <2>2, <2>4
  <2>6. d.op # b.op
    BY <2>1, <2>4
  <2> HIDE DEF d
  <2>20. Changing(L, d, p)
    BY <1>1, <2>1, <2>4, <2>5, <2>6 DEF Changing, b, n
  <2> QED
    BY <2>1, <2>3, <2>20, LevelChanged
<1>12. CASE MovesFor(L, M, c, p)
  <2> DEFINE k == Counting(b, 4)
             K == WithInner(L, k)
             d == Level("for", b.fn, p, Bind(b.env, c.name, p), 0, 0, b.base + b.count + 4)
  <2>1. M = Append(K, d) /\ c.name \in Names
    BY <1>12 DEF MovesFor, Naming, b
  <2>2. k \in Levels
    BY <1>2 DEF Level, Levels, Counting
  <2>3. /\ k.fn = b.fn /\ k.first = b.first /\ k.base = b.base /\ k.op = b.op /\ k.then = b.then
        /\ k.env = b.env /\ k.count = b.count + 4
    BY DEF Level, Counting
  <2>4. /\ Bind(b.env, c.name, p) \in [Names -> Nat] /\ Bind(b.env, c.name, p)[c.name] = p
        /\ \A m \in Names : m # c.name => Bind(b.env, c.name, p)[m] = b.env[m]
    BY <1>2, <1>0, <2>1 DEF Bind
  <2>5. d \in Levels
    BY <1>2, <2>4 DEF Level, Levels, Opened
  <2>6. /\ d.op = "for" /\ d.fn = b.fn /\ d.first = p /\ d.env = Bind(b.env, c.name, p)
        /\ d.then = 0 /\ d.base = b.base + b.count + 4
    BY DEF Level
  <2>7. \A m \in Names : d.env[m] < p + 1 /\ b.env[m] < p + 1
    BY <1>2, <1>5, <2>4, <2>6
  <2>8. ~Made(d.op) /\ d.op # "file"
    BY <2>6 DEF Made
  <2>9. K \in Seq(Levels) /\ Len(K) = n /\ Inner(K) = k
    BY <1>1, <2>2, WithInnerIs DEF n
  <2> HIDE DEF d, k
  <2>10. \A m \in Names : k.env[m] < p + 1
    BY <2>3, <2>7
  <2>11. Good(prog, h, K, p + 1)
    <3>1. Changing(L, k, p)
      BY <2>3, <2>10 DEF Changing, b
    <3> QED
      BY <2>2, <3>1, LevelChanged DEF K
  <2> HIDE DEF K
  <2>12. d.base = Inner(K).base + Inner(K).count
    <3>1. Inner(K).base = b.base /\ Inner(K).count = b.count + 4
      BY <2>3, <2>9
    <3> QED
      BY <1>2, <2>6, <3>1
  <2>20. Adding(prog, h, K, d, p)
    BY <1>5, <2>3, <2>6, <2>7, <2>8, <2>9, <2>12 DEF Adding
  <2> QED
    BY <2>1, <2>5, <2>11, <2>20, LevelAdded
<1>13. CASE MovesFunction(L, M, c, p)
  <2> DEFINE d == Level(c.op, p, p, Bind(b.env, c.name, p), 0, 0, 0)
  <2>1. M = Append(L, d) /\ Made(c.op) /\ c.name \in Names
    BY <1>13 DEF MovesFunction, Naming, Made, b
  <2>2. /\ Bind(b.env, c.name, p) \in [Names -> Nat] /\ Bind(b.env, c.name, p)[c.name] = p
        /\ \A m \in Names : m # c.name => Bind(b.env, c.name, p)[m] = b.env[m]
    BY <1>2, <1>0, <2>1 DEF Bind
  <2>3. d \in Levels
    BY <1>2, <2>1, <2>2 DEF Level, Levels, Opened, Made
  <2>4. /\ d.op = c.op /\ d.fn = p /\ d.first = p /\ d.env = Bind(b.env, c.name, p)
        /\ d.then = 0 /\ d.base = 0
    BY DEF Level
  <2>5. \A m \in Names : d.env[m] < p + 1
    BY <1>2, <1>5, <2>2, <2>4
  <2>6. d.op # "file" /\ Made(d.op)
    BY <2>1, <2>4 DEF Made
  <2> HIDE DEF d
  <2>20. Adding(prog, h, L, d, p)
    BY <1>5, <2>1, <2>4, <2>5, <2>6 DEF Adding, b
  <2> QED
    BY <1>8, <2>1, <2>3, <2>20, LevelAdded
<1>14. CASE MovesEnd(L, M, c, p)
  <2> DEFINE rest == SubSeq(L, 1, n - 1)
  <2>1. /\ n > 1
        /\ M = IF Made(b.op) THEN rest ELSE WithInner(rest, Counting(a, CountOf(b)))
    BY <1>14 DEF MovesEnd, a, b, n
  <2>2. /\ rest \in Seq(Levels) /\ Len(rest) = n - 1 /\ \A j \in 1..(n - 1) : rest[j] = L[j]
        /\ Inner(rest) = a
    BY <1>1, <2>1, RestIs DEF n, a
  <2> HIDE DEF rest
  <2> DEFINE d == IF Made(b.op) THEN a ELSE Counting(a, CountOf(b))
  <2>3. d \in Levels
    BY <1>2, <1>4, <2>1 DEF Level, Levels, Counting
  <2>4. /\ d.op = a.op /\ d.fn = a.fn /\ d.first = a.first /\ d.env = a.env /\ d.then = a.then
        /\ d.base = a.base
    BY DEF Counting, Level
  <2> HIDE DEF d
  <2>5. /\ M \in Seq(Levels) /\ Len(M) = n - 1 /\ M[n - 1] = d
        /\ \A j \in 1..(n - 2) : M[j] = L[j]
    <3>1. CASE Made(b.op)
      BY <1>1, <1>4, <2>1, <2>2, <3>1 DEF d
    <3>2. CASE ~Made(b.op)
      <4>1. M = WithInner(rest, d)
        BY <2>1, <3>2 DEF d
      <4> QED
        <5>1. Len(rest) >= 1 /\ Len(rest) - 1 = n - 2
          BY <1>1, <2>1, <2>2
        <5>2. /\ M \in Seq(Levels) /\ Len(M) = Len(rest)
              /\ \A j \in 1..(Len(rest) - 1) : M[j] = rest[j]
              /\ M[Len(rest)] = d
          BY <2>2, <2>3, <4>1, <5>1, WithInnerIs
        <5> QED
          BY <1>1, <2>1, <2>2, <5>1, <5>2
    <3> QED
      BY <3>1, <3>2
  <2>6. /\ GoodFirst(L) /\ GoodBounds(L, p + 1) /\ GoodOrder(L) /\ GoodMade(prog, h, L) /\ GoodBlock(L)
    BY <1>1, <1>8 DEF Good
  <2>7. \A j \in 1..(n - 1) : /\ M[j].op = L[j].op /\ M[j].fn = L[j].fn /\ M[j].first = L[j].first
                              /\ M[j].env = L[j].env /\ M[j].then = L[j].then /\ M[j].base = L[j].base
    BY <1>1, <1>4, <2>1, <2>4, <2>5, SMTT(30)
  <2>8. \A j \in 1..(n - 2) : M[j] = L[j]
    BY <2>5
  <2>9. GoodFirst(M)
    BY <1>1, <2>1, <2>6, <2>7 DEF GoodFirst
  <2>10. GoodBounds(M, p + 1)
    BY <1>1, <2>1, <2>5, <2>6, <2>7 DEF GoodBounds
  <2>11. GoodOrder(M)
    BY <1>1, <2>1, <2>5, <2>6, <2>7 DEF GoodOrder
  <2>12. GoodMade(prog, h, M)
    <3> SUFFICES ASSUME NEW j \in 2..(n - 1), Made(M[j].op)
                 PROVE  /\ M[j].fn = M[j].first /\ M[j].fn \in Nat \ {0} /\ M[j].base = 0 /\ M[j].then = 0
                        /\ M[j].op = prog[M[j].fn].op
                        /\ Inner(h[M[j].fn]) = M[j - 1]
      BY <1>1, <2>5 DEF GoodMade
    <3>1. /\ L[j].fn = L[j].first /\ L[j].fn \in Nat \ {0} /\ L[j].base = 0 /\ L[j].then = 0
          /\ L[j].op = prog[L[j].fn].op
          /\ Inner(h[L[j].fn]) = L[j - 1]
      BY <1>1, <2>6, <2>7 DEF GoodMade
    <3>2. M[j - 1] = L[j - 1]
      BY <1>1, <2>8
    <3> QED
      BY <1>1, <2>7, <3>1, <3>2
  <2>13. GoodBlock(M)
    <3> SUFFICES ASSUME NEW j \in 2..(n - 1), ~Made(M[j].op)
                 PROVE  /\ M[j].fn = M[j - 1].fn
                        /\ M[j].base = M[j - 1].base + M[j - 1].count
                        /\ M[j].op = "if" => M[j].then = 0
      BY <1>1, <2>5 DEF GoodBlock
    <3>1. /\ L[j].fn = L[j - 1].fn /\ L[j].base = L[j - 1].base + L[j - 1].count
          /\ L[j].op = "if" => L[j].then = 0
      BY <1>1, <2>6, <2>7 DEF GoodBlock
    <3>2. M[j - 1] = L[j - 1]
      BY <1>1, <2>8
    <3> QED
      BY <1>1, <2>7, <3>1, <3>2
  <2> QED
    BY <1>1, <2>1, <2>5, <2>9, <2>10, <2>11, <2>12, <2>13 DEF Good
<1>15. CASE c.op \in {"use", "call"} /\ M = L
  BY <1>8, <1>15
<1> QED
  BY <1>9, <1>10, <1>11, <1>12, <1>13, <1>14, <1>15 DEF Moves

\* What the innermost level is.
LEMMA InnerIs ==
  ASSUME NEW prog, NEW h, NEW L, NEW p \in Nat \ {0}, Good(prog, h, L, p)
  PROVE  /\ Len(L) \in Nat /\ Len(L) >= 1 /\ Inner(L) = L[Len(L)] /\ Inner(L) \in Levels
         /\ Inner(L).fn \in Nat /\ Inner(L).fn < p /\ Inner(L).first < p
         /\ Inner(L).env \in [Names -> Nat] /\ \A n \in Names : Inner(L).env[n] < p
         /\ \A j \in 1..Len(L) : /\ L[j] \in Levels /\ L[j].fn \in Nat /\ L[j].fn < p
                                 /\ L[j].env \in [Names -> Nat]
                                 /\ \A n \in Names : L[j].env[n] < p
                                 /\ L[j].fn <= Inner(L).fn
<1> DEFINE n == Len(L)
<1>1. L \in Seq(Levels) /\ n \in Nat /\ n >= 1 /\ n = Len(L) /\ Inner(L) = L[n]
  BY DEF Good, Inner
<1>2. GoodBounds(L, p) /\ GoodOrder(L)
  BY DEF Good
<1> HIDE DEF n
<1>3. \A j \in 1..n : /\ L[j] \in Levels /\ L[j].fn \in Nat /\ L[j].env \in [Names -> Nat]
  BY <1>1, LevelHas
<1>4. \A j \in 1..n : /\ L[j].fn < p /\ L[j].first < p /\ \A m \in Names : L[j].env[m] < p
  BY <1>1, <1>2 DEF GoodBounds
<1>5. n \in 1..n
  BY <1>1
<1>6. \A j \in 1..n : L[j].fn <= L[n].fn
  <2> SUFFICES ASSUME NEW j \in 1..n PROVE L[j].fn <= L[n].fn
    OBVIOUS
  <2>1. CASE j = n
    BY <1>3, <1>5, <2>1
  <2>2. CASE j # n
    <3>1. j < n
      BY <1>1, <2>2
    <3> QED
      BY <1>1, <1>2, <1>5, <3>1 DEF GoodOrder
  <2> QED
    BY <2>1, <2>2
<1> QED
  BY <1>1, <1>3, <1>4, <1>5, <1>6

\* N levels like those there were, the last of them like the k-th there was, but for
\* a variable declared.
Like(prog, h, L, M, p, N, k) ==
  /\ Len(M) = N /\ k \in 1..Len(L) /\ (k = N \/ k = N - 1)
  /\ \A i \in 1..(N - 1) : M[i].fn = L[i].fn /\ M[i].env = L[i].env
  /\ M[N].fn = L[k].fn
  /\ \A m \in Names : \/ M[N].env[m] = L[k].env[m]
                      \/ M[N].env[m] = p /\ Owner(prog, h, p) = L[k].fn
  /\ Closes(prog, h, p) => \A j \in 1..N : M[j].fn # Inner(h[p]).fn

\* What the names denote stays good.
LEMMA NamesLike ==
  ASSUME NEW prog, NEW h, NEW L, NEW M, NEW p \in Nat \ {0}, Good(prog, h, L, p),
         GoodNames(prog, h, L, p), M \in Seq(Levels), Len(M) >= 1,
         NEW N \in Nat, NEW k \in Nat, Like(prog, h, L, M, p, N, k)
  PROVE  GoodNames(prog, h, M, p + 1)
<1> DEFINE d == M[N]
<1>1. /\ N \in Nat /\ N >= 1 /\ Len(L) \in Nat /\ k \in Nat /\ k >= 1 /\ k <= Len(L) /\ N = Len(M)
      /\ L \in Seq(Levels) /\ d = M[N] /\ d \in Levels /\ k \in 1..Len(L)
  BY DEF Good, Like
<1>2. /\ k = N \/ k = N - 1
      /\ \A i \in 1..(N - 1) : M[i].fn = L[i].fn /\ M[i].env = L[i].env
      /\ d.fn = L[k].fn
      /\ \A m \in Names : \/ d.env[m] = L[k].env[m]
                          \/ d.env[m] = p /\ Owner(prog, h, p) = L[k].fn
      /\ Closes(prog, h, p) => \A j \in 1..N : M[j].fn # Inner(h[p]).fn
  BY DEF Like
<1>3. \A j \in 1..Len(L) : /\ L[j].fn \in Nat /\ L[j].env \in [Names -> Nat] /\ L[j].fn < p
  BY <1>1, LevelHas DEF Good, GoodBounds
<1>4. d.fn \in Nat /\ d.env \in [Names -> Nat]
  BY <1>1, LevelHas
<1> HIDE DEF d
<1>5. /\ NamesBound(prog, h, L) /\ NamesStay(L) /\ NamesOwned(prog, h, L)
      /\ NamesClosed(prog, h, L, p)
  BY DEF GoodNames
<1>6. \A j \in 1..(N - 1) : j \in 1..Len(L)
  BY <1>1, <1>2
<1>7. \A m \in Names : L[k].env[m] >= L[k].fn => d.env[m] >= d.fn
  <2> SUFFICES ASSUME NEW m \in Names, L[k].env[m] >= L[k].fn
               PROVE  d.env[m] >= d.fn
    OBVIOUS
  <2>1. L[k].fn \in Nat /\ L[k].fn < p
    BY <1>1, <1>3
  <2> QED
    BY <1>2, <2>1
<1>8. NamesBound(prog, h, M)
  <2> SUFFICES ASSUME NEW j \in 1..N, M[j].fn # 0
               PROVE  /\ prog[M[j].fn].name \in Names /\ M[j].env[prog[M[j].fn].name] >= M[j].fn
                      /\ \A n \in Names : M[j].env[n] < M[j].fn =>
                           M[j].env[n] = Inner(h[M[j].fn]).env[n]
    BY <1>1 DEF NamesBound
  <2>1. CASE j = N
    <3>1. /\ prog[L[k].fn].name \in Names /\ L[k].env[prog[L[k].fn].name] >= L[k].fn
          /\ \A n \in Names : L[k].env[n] < L[k].fn => L[k].env[n] = Inner(h[L[k].fn]).env[n]
      BY <1>1, <1>2, <1>5, <2>1 DEF NamesBound
    <3>2. prog[d.fn].name \in Names /\ d.env[prog[d.fn].name] >= d.fn
      <4>1. prog[d.fn].name = prog[L[k].fn].name
        BY <1>2
      <4> QED
        BY <1>7, <3>1, <4>1
    <3>3. \A n \in Names : d.env[n] < d.fn => d.env[n] = Inner(h[d.fn]).env[n]
      <4> SUFFICES ASSUME NEW n \in Names, d.env[n] < d.fn
                   PROVE  d.env[n] = Inner(h[d.fn]).env[n]
        OBVIOUS
      <4>1. L[k].fn \in Nat /\ L[k].fn < p /\ d.fn = L[k].fn
        BY <1>1, <1>2, <1>3
      <4>2. d.env[n] # p
        BY <4>1
      <4>3. d.env[n] = L[k].env[n]
        BY <1>2, <4>2
      <4> QED
        BY <3>1, <4>1, <4>3
    <3>4. M[j] = d
      BY <1>1, <2>1
    <3> QED
      BY <3>2, <3>3, <3>4
  <2>2. CASE j # N
    <3>1. j \in 1..(N - 1) /\ j \in 1..Len(L)
      BY <1>1, <1>6, <2>2
    <3> QED
      BY <1>2, <1>5, <3>1 DEF NamesBound
  <2> QED
    BY <2>1, <2>2
<1>9. NamesStay(M)
  <2> SUFFICES ASSUME NEW i \in 1..N, NEW j \in 1..N, i < j, M[i].fn = M[j].fn,
                      NEW n \in Names, M[i].env[n] >= M[i].fn
               PROVE  M[j].env[n] >= M[j].fn
    BY <1>1 DEF NamesStay
  <2>1. i \in 1..(N - 1) /\ i \in 1..Len(L) /\ M[i].fn = L[i].fn /\ M[i].env = L[i].env
    BY <1>1, <1>2, <1>6
  <2>2. CASE j = N
    <3>1. i <= k /\ L[i].fn = L[k].fn
      <4>1. M[j].fn = L[k].fn
        BY <1>1, <1>2, <2>2
      <4>2. i <= k
        BY <1>1, <1>2, <2>1
      <4> QED
        BY <2>1, <4>1, <4>2
    <3>2. L[k].env[n] >= L[k].fn
      <4>1. CASE i = k
        BY <2>1, <4>1
      <4>2. CASE i # k
        <5>1. i < k /\ k \in 1..Len(L)
          BY <1>1, <2>1, <3>1, <4>2
        <5> QED
          BY <1>5, <2>1, <3>1, <5>1 DEF NamesStay
      <4> QED
        BY <4>1, <4>2
    <3> QED
      BY <1>1, <1>7, <2>2, <3>2
  <2>3. CASE j # N
    <3>1. j \in 1..(N - 1) /\ j \in 1..Len(L)
      BY <1>1, <1>6, <2>3
    <3>2. M[j].fn = L[j].fn /\ M[j].env = L[j].env
      BY <1>2, <3>1
    <3> QED
      BY <1>5, <2>1, <3>1, <3>2 DEF NamesStay
  <2> QED
    BY <2>2, <2>3
<1>10. NamesOwned(prog, h, M)
  <2> SUFFICES ASSUME NEW j \in 1..N, NEW n \in Names,
                      M[j].env[n] # 0, Owner(prog, h, M[j].env[n]) # 0
               PROVE  \E i \in 1..j : /\ M[i].fn = Owner(prog, h, M[j].env[n])
                                      /\ M[i].env[n] >= M[i].fn
    BY <1>1 DEF NamesOwned
  <2> DEFINE v == M[j].env[n]
             o == Owner(prog, h, v)
  <2> HIDE DEF v, o
  <2>1. ASSUME NEW l \in 1..Len(L), l <= j, l = j => j # N \/ k = N, L[l].env[n] = v
        PROVE  \E i \in 1..j : M[i].fn = o /\ M[i].env[n] >= M[i].fn
    <3>1. PICK i \in 1..l : L[i].fn = o /\ L[i].env[n] >= L[i].fn
      BY <1>5, <2>1 DEF NamesOwned, v, o
    <3>2. i \in 1..j
      BY <2>1
    <3>3. CASE i = N
      <4>1. l = N /\ j = N /\ k = N
        BY <1>1, <2>1, <3>2, <3>3
      <4> QED
        BY <1>1, <1>2, <1>7, <3>1, <3>2, <3>3, <4>1
    <3>4. CASE i # N
      <4>1. i \in 1..(N - 1)
        BY <1>1, <3>2, <3>4
      <4> QED
        BY <1>2, <3>1, <3>2, <4>1
    <3> QED
      BY <3>3, <3>4
  <2>2. CASE j = N
    <3>1. CASE d.env[n] = L[k].env[n]
      <4>1. k <= j /\ (k = j => k = N) /\ L[k].env[n] = v
        BY <1>1, <1>2, <2>2, <3>1 DEF v
      <4>2. k \in 1..Len(L) /\ (k = j => (j # N \/ k = N))
        BY <1>1, <4>1
      <4> QED
        BY <2>1, <4>1, <4>2 DEF v, o
    <3>2. CASE d.env[n] = p /\ Owner(prog, h, p) = L[k].fn
      <4>1. M[j].env[n] >= M[j].fn /\ M[j].fn = Owner(prog, h, M[j].env[n])
        BY <1>1, <1>2, <1>3, <2>2, <3>2
      <4>2. j \in 1..j
        OBVIOUS
      <4> QED
        BY <4>1, <4>2
    <3> QED
      BY <1>2, <3>1, <3>2
  <2>3. CASE j # N
    <3>1. j \in 1..(N - 1) /\ j \in 1..Len(L) /\ j <= j
      BY <1>1, <1>6, <2>3
    <3>2. L[j].env[n] = v
      BY <1>2, <3>1 DEF v
    <3> QED
      BY <2>1, <2>3, <3>1, <3>2 DEF v, o
  <2> QED
    BY <2>2, <2>3
<1>11. NamesClosed(prog, h, M, p + 1)
  <2> SUFFICES ASSUME NEW q \in 1..p, Closes(prog, h, q), NEW j \in 1..N
               PROVE  M[j].fn # Inner(h[q]).fn
    BY <1>1 DEF NamesClosed
  <2>1. CASE q = p
    BY <1>2, <2>1
  <2>2. CASE q # p
    <3>1. q \in 1..(p - 1)
      BY <2>2
    <3>2. \A i \in 1..Len(L) : L[i].fn # Inner(h[q]).fn
      BY <1>5, <3>1 DEF NamesClosed
    <3> QED
      BY <1>1, <1>2, <1>6, <3>2
  <2> QED
    BY <2>1, <2>2
<1> QED
  BY <1>8, <1>9, <1>10, <1>11 DEF GoodNames

\* A function added.
LEMMA NamesFunction ==
  ASSUME NEW prog, NEW h, NEW L, NEW M, NEW p \in Nat \ {0}, Good(prog, h, L, p),
         GoodNames(prog, h, L, p), h[p] = L, \A q \in 1..(p - 1) : Good(prog, h, h[q], q),
         M \in Seq(Levels), Len(M) = Len(L) + 1, \A i \in 1..Len(L) : M[i] = L[i],
         M[Len(M)].fn = p, Made(prog[p].op), prog[p].name \in Names,
         M[Len(M)].env = Bind(Inner(L).env, prog[p].name, p)
  PROVE  GoodNames(prog, h, M, p + 1)
<1> DEFINE N == Len(M)
           n == Len(L)
           d == M[N]
<1>1. /\ n \in Nat /\ n >= 1 /\ N = n + 1 /\ N = Len(M) /\ n = Len(L)
      /\ L \in Seq(Levels) /\ d = M[N] /\ d \in Levels
  BY DEF Good
<1>2. /\ \A i \in 1..n : M[i] = L[i]
      /\ d.fn = p /\ d.env = Bind(L[n].env, prog[p].name, p)
  BY DEF Inner
<1>3. \A j \in 1..n : /\ L[j].fn \in Nat /\ L[j].env \in [Names -> Nat] /\ L[j].fn < p
                       /\ \A m \in Names : L[j].env[m] < p
  BY <1>1, LevelHas, SMTT(30) DEF Good, GoodBounds
<1> HIDE DEF N, d, n
<1>4. n \in 1..n
  BY <1>1
<1>5. d.env[prog[p].name] = p /\ \A m \in Names \ {prog[p].name} : d.env[m] = L[n].env[m]
  BY <1>2, <1>3, <1>4 DEF Bind
<1>6. /\ NamesBound(prog, h, L) /\ NamesStay(L) /\ NamesOwned(prog, h, L)
      /\ NamesClosed(prog, h, L, p)
  BY DEF GoodNames
<1>7. Inner(h[p]) = L[n]
  BY <1>1 DEF Inner
<1>8. NamesBound(prog, h, M)
  <2> SUFFICES ASSUME NEW j \in 1..N, M[j].fn # 0
               PROVE  /\ prog[M[j].fn].name \in Names /\ M[j].env[prog[M[j].fn].name] >= M[j].fn
                      /\ \A m \in Names : M[j].env[m] < M[j].fn =>
                           M[j].env[m] = Inner(h[M[j].fn]).env[m]
    BY <1>1 DEF NamesBound
  <2>1. CASE j = N
    <3>1. prog[d.fn].name \in Names /\ d.env[prog[d.fn].name] >= d.fn
      BY <1>2, <1>5
    <3>2. \A m \in Names : d.env[m] < d.fn => d.env[m] = Inner(h[d.fn]).env[m]
      BY <1>2, <1>5, <1>7
    <3> QED
      BY <1>1, <2>1, <3>1, <3>2
  <2>2. CASE j # N
    <3>1. j \in 1..n
      BY <1>1, <2>2
    <3> QED
      BY <1>1, <1>2, <1>6, <3>1 DEF NamesBound
  <2> QED
    BY <2>1, <2>2
<1>9. NamesStay(M)
  <2> SUFFICES ASSUME NEW i \in 1..N, NEW j \in 1..N, i < j, M[i].fn = M[j].fn,
                      NEW m \in Names, M[i].env[m] >= M[i].fn
               PROVE  M[j].env[m] >= M[j].fn
    BY <1>1 DEF NamesStay
  <2>1. i \in 1..n /\ M[i] = L[i]
    BY <1>1, <1>2
  <2>2. j \in 1..n
    BY <1>1, <1>2, <1>3, <2>1
  <2> QED
    BY <1>1, <1>2, <1>6, <2>1, <2>2 DEF NamesStay
<1>10. NamesOwned(prog, h, M)
  <2> SUFFICES ASSUME NEW j \in 1..N, NEW m \in Names,
                      M[j].env[m] # 0, Owner(prog, h, M[j].env[m]) # 0
               PROVE  \E i \in 1..j : /\ M[i].fn = Owner(prog, h, M[j].env[m])
                                      /\ M[i].env[m] >= M[i].fn
    BY <1>1 DEF NamesOwned
  <2>1. ASSUME NEW l \in 1..n, l <= j, M[j].env[m] = L[l].env[m]
        PROVE  \E i \in 1..j : /\ M[i].fn = Owner(prog, h, M[j].env[m])
                               /\ M[i].env[m] >= M[i].fn
    <3>1. PICK i \in 1..l : /\ L[i].fn = Owner(prog, h, L[l].env[m])
                            /\ L[i].env[m] >= L[i].fn
      BY <1>1, <1>6, <2>1 DEF NamesOwned
    <3>2. i \in 1..j /\ M[i] = L[i]
      BY <1>1, <1>2, <2>1
    <3> QED
      BY <2>1, <3>1, <3>2
  <2>2. CASE j = N
    <3>1. CASE m = prog[p].name
      <4>1. M[j].env[m] = p /\ M[j].fn = p /\ Owner(prog, h, p) = p /\ j \in 1..j
        BY <1>1, <1>2, <1>5, <2>2, <3>1 DEF Owner
      <4> QED
        BY <4>1
    <3>2. CASE m # prog[p].name
      <4>1. n <= j /\ M[j].env[m] = L[n].env[m]
        BY <1>1, <1>5, <2>2, <3>2
      <4> QED
        BY <1>4, <2>1, <4>1
    <3> QED
      BY <3>1, <3>2
  <2>3. CASE j # N
    <3>1. j \in 1..n /\ j <= j
      BY <1>1, <2>3
    <3> QED
      BY <1>2, <2>1, <3>1
  <2> QED
    BY <2>2, <2>3
<1>11. NamesClosed(prog, h, M, p + 1)
  <2> SUFFICES ASSUME NEW q \in 1..p, Closes(prog, h, q), NEW j \in 1..N
               PROVE  M[j].fn # Inner(h[q]).fn
    BY <1>1 DEF NamesClosed
  <2>1. q \in 1..(p - 1)
    BY DEF Closes, Made
  <2>2. CASE j = N
    <3>1. Inner(h[q]).fn < q /\ Inner(h[q]).fn \in Nat
      BY <2>1, InnerIs
    <3> QED
      BY <1>1, <1>2, <2>1, <2>2, <3>1
  <2>3. CASE j # N
    <3>1. j \in 1..n
      BY <1>1, <2>3
    <3> QED
      BY <1>1, <1>2, <1>6, <2>1, <3>1 DEF NamesClosed
  <2> QED
    BY <2>2, <2>3
<1> QED
  BY <1>8, <1>9, <1>10, <1>11 DEF GoodNames

\* What a construct makes of the names.
LEMMA MovesNames ==
  ASSUME NEW prog, NEW h, NEW L, NEW M, NEW p \in Nat \ {0}, NEW c \in Constructs,
         Good(prog, h, L, p), GoodNames(prog, h, L, p), Good(prog, h, M, p + 1),
         Moves(L, M, c, p), Naming(c.op) => c.name \in Names,
         h[p] = L, prog[p] = c, \A q \in 1..(p - 1) : Good(prog, h, h[q], q)
  PROVE  GoodNames(prog, h, M, p + 1)
<1> DEFINE n == Len(L)
           b == Inner(L)
           a == Within(L)
<1>1. /\ L \in Seq(Levels) /\ Len(L) = n /\ n \in Nat /\ n >= 1 /\ n \in 1..n
      /\ b \in Levels /\ b = L[n] /\ Inner(h[p]) = b /\ b.env \in [Names -> Nat]
      /\ \A j \in 1..n : /\ L[j] \in Levels /\ L[j].fn \in Nat /\ L[j].env \in [Names -> Nat]
                         /\ L[j].fn < p
  BY InnerIs DEF Good
<1>2. M \in Seq(Levels) /\ Len(M) >= 1
  BY DEF Good
<1>3. n > 1 => n - 1 \in 1..n /\ a = L[n - 1]
  BY <1>1 DEF Within
<1>4. c.op # "end" => ~Closes(prog, h, p)
  BY DEF Closes
<1>5. ~Made(c.op) => Owner(prog, h, p) = b.fn
  BY DEF Owner
<1> HIDE DEF n, b, a
<1>6. ASSUME NEW N \in Nat, NEW k \in Nat, Like(prog, h, L, M, p, N, k)
      PROVE  GoodNames(prog, h, M, p + 1)
  BY <1>2, <1>6, NamesLike
<1>7. CASE MovesLocal(L, M, c, p)
  <2> DEFINE v == IF n = 1 THEN 0 ELSE p
             d == Level(b.op, b.fn, b.first, Bind(b.env, c.name, v), b.count + 1, b.then, b.base)
  <2>1. c.op = "local" /\ M = WithInner(L, d) /\ c.name \in Names
    BY <1>7 DEF MovesLocal, Naming, b, n
  <2>2. d \in Levels
    BY <1>1, <2>1, SMTT(30) DEF Level, Levels, Bind
  <2>3. d.fn = b.fn /\ d.env = Bind(b.env, c.name, v)
    BY DEF Level
  <2> HIDE DEF d
  <2>4. Len(M) = n /\ (\A j \in 1..(n - 1) : M[j] = L[j]) /\ M[n] = d
    <3>1. /\ Len(WithInner(L, d)) = Len(L) /\ WithInner(L, d)[Len(L)] = d
          /\ \A j \in 1..(Len(L) - 1) : WithInner(L, d)[j] = L[j]
      BY <1>1, <2>2, WithInnerIs
    <3> QED
      BY <1>1, <2>1, <3>1
  <2>5. \A m \in Names : d.env[m] = b.env[m] \/ (d.env[m] = p /\ Owner(prog, h, p) = b.fn)
    <3>1. Owner(prog, h, p) = b.fn
      BY <1>5, <2>1 DEF Made
    <3>2. n = 1 => b.env = [m \in Names |-> 0]
      BY <1>1 DEF Good, GoodFirst
    <3> QED
      BY <1>1, <2>3, <3>1, <3>2 DEF Bind
  <2>20. Like(prog, h, L, M, p, n, n)
    BY <1>1, <1>4, <2>1, <2>3, <2>4, <2>5 DEF Like
  <2>21. n \in Nat /\ n \in Nat
    BY <1>1
  <2> QED
    BY <1>6, <2>20, <2>21
<1>8. CASE MovesBlock(L, M, c, p)
  <2> DEFINE d == Level("if", b.fn, p, b.env, 0, 0, b.base + b.count)
  <2>1. M = Append(L, d) /\ c.op = "if"
    BY <1>8 DEF MovesBlock, b
  <2>2. d.fn = b.fn /\ d.env = b.env
    BY DEF Level
  <2> HIDE DEF d
  <2>3. Len(M) = n + 1 /\ (\A j \in 1..n : M[j] = L[j]) /\ M[n + 1] = d
    BY <1>1, <2>1
  <2>20. Like(prog, h, L, M, p, n + 1, n)
    BY <1>1, <1>4, <2>1, <2>2, <2>3 DEF Like
  <2>21. n + 1 \in Nat /\ n \in Nat
    BY <1>1
  <2> QED
    BY <1>6, <2>20, <2>21
<1>9. CASE MovesElse(L, M, c, p)
  <2> DEFINE d == Level("else", b.fn, b.first, a.env, 0, b.count, b.base)
  <2>1. M = WithInner(L, d) /\ n > 1 /\ b.op = "if" /\ c.op = "else"
    BY <1>9 DEF MovesElse, a, b, n
  <2>2. d \in Levels
    <3>1. b.first \in Nat /\ b.count \in Nat /\ b.base \in Nat /\ a.env \in [Names -> Nat]
      BY <1>1, <1>3, <2>1, LevelHas
    <3> QED
      BY <1>1, <3>1 DEF Level, Levels, Opened
  <2>3. d.fn = b.fn /\ d.env = a.env
    BY DEF Level
  <2> HIDE DEF d
  <2>4. Len(M) = n /\ (\A j \in 1..(n - 1) : M[j] = L[j]) /\ M[n] = d
    <3>1. /\ Len(WithInner(L, d)) = Len(L) /\ WithInner(L, d)[Len(L)] = d
          /\ \A j \in 1..(Len(L) - 1) : WithInner(L, d)[j] = L[j]
      BY <1>1, <2>2, WithInnerIs
    <3> QED
      BY <1>1, <2>1, <3>1
  <2>5. b.fn = a.fn
    <3>1. n \in 2..Len(L) /\ ~Made(L[n].op)
      BY <1>1, <2>1 DEF Made
    <3> QED
      BY <1>1, <1>3, <2>1, <3>1 DEF Good, GoodBlock
  <2>20. Like(prog, h, L, M, p, n, n - 1)
    BY <1>1, <1>3, <1>4, <2>1, <2>3, <2>4, <2>5 DEF Like
  <2>21. n \in Nat /\ n - 1 \in Nat
    BY <1>1, <2>1
  <2> QED
    BY <1>6, <2>20, <2>21
<1>10. CASE MovesFor(L, M, c, p)
  <2> DEFINE e == Counting(b, 4)
             K == WithInner(L, e)
             d == Level("for", b.fn, p, Bind(b.env, c.name, p), 0, 0, b.base + b.count + 4)
  <2>1. M = Append(K, d) /\ c.name \in Names /\ c.op = "for"
    BY <1>10 DEF MovesFor, Naming, b
  <2>2. e \in Levels
    BY <1>1 DEF Level, Levels, Counting
  <2>3. e.fn = b.fn /\ e.env = b.env /\ d.fn = b.fn /\ d.env = Bind(b.env, c.name, p)
    BY DEF Level, Counting
  <2> HIDE DEF d, e
  <2>4. K \in Seq(Levels) /\ Len(K) = n /\ (\A j \in 1..(n - 1) : K[j] = L[j]) /\ K[n] = e
    BY <1>1, <2>2, WithInnerIs
  <2> HIDE DEF K
  <2>5. Len(M) = n + 1 /\ (\A j \in 1..n : M[j] = K[j]) /\ M[n + 1] = d
    BY <1>1, <2>1, <2>4
  <2>6. \A j \in 1..n : M[j].fn = L[j].fn /\ M[j].env = L[j].env
    BY <1>1, <2>3, <2>4, <2>5
  <2>7. \A m \in Names : d.env[m] = b.env[m] \/ (d.env[m] = p /\ Owner(prog, h, p) = b.fn)
    BY <1>1, <1>5, <2>1, <2>3 DEF Bind, Made
  <2>20. Like(prog, h, L, M, p, n + 1, n)
    BY <1>1, <1>4, <2>1, <2>3, <2>5, <2>6, <2>7 DEF Like
  <2>21. n + 1 \in Nat /\ n \in Nat
    BY <1>1
  <2> QED
    BY <1>6, <2>20, <2>21
<1>11. CASE MovesFunction(L, M, c, p)
  <2> DEFINE d == Level(c.op, p, p, Bind(b.env, c.name, p), 0, 0, 0)
  <2>1. M = Append(L, d) /\ Made(c.op) /\ c.name \in Names
    BY <1>11 DEF MovesFunction, Naming, Made, b
  <2>2. d.fn = p /\ d.env = Bind(b.env, c.name, p)
    BY DEF Level
  <2> HIDE DEF d
  <2>3. Len(M) = n + 1 /\ (\A j \in 1..n : M[j] = L[j]) /\ M[n + 1] = d
    BY <1>1, <2>1
  <2> QED
    <3>1. /\ Len(M) = Len(L) + 1 /\ \A i \in 1..Len(L) : M[i] = L[i]
          /\ M[Len(M)].fn = p /\ Made(prog[p].op) /\ prog[p].name \in Names
          /\ M[Len(M)].env = Bind(Inner(L).env, prog[p].name, p)
      BY <1>1, <2>1, <2>2, <2>3 DEF b
    <3> QED
      BY <1>2, <3>1, NamesFunction
<1>12. CASE MovesEnd(L, M, c, p)
  <2> DEFINE rest == SubSeq(L, 1, n - 1)
             e == Counting(a, CountOf(b))
  <2>1. /\ n > 1 /\ c.op = "end"
        /\ M = IF Made(b.op) THEN rest ELSE WithInner(rest, e)
    BY <1>12 DEF MovesEnd, a, b, n
  <2>2. /\ rest \in Seq(Levels) /\ Len(rest) = n - 1 /\ \A j \in 1..(n - 1) : rest[j] = L[j]
    BY <1>1, <2>1, RestIs
  <2> HIDE DEF rest
  <2>3. e \in Levels /\ e.fn = a.fn /\ e.env = a.env
    <3>1. a \in Levels
      BY <1>1, <1>3, <2>1
    <3>2. /\ a.op \in {"file"} \cup Opened /\ a.fn \in Nat /\ a.first \in Nat
          /\ a.env \in [Names -> Nat] /\ a.count + CountOf(b) \in Nat /\ a.then \in Nat
          /\ a.base \in Nat
      BY <1>1, <3>1, LevelHas
    <3> QED
      BY <3>2 DEF Counting, Level, Levels
  <2> HIDE DEF e
  <2>4. Len(M) = n - 1 /\ \A j \in 1..(n - 1) : M[j].fn = L[j].fn /\ M[j].env = L[j].env
    <3>1. CASE Made(b.op)
      BY <1>1, <2>1, <2>2, <3>1
    <3>2. CASE ~Made(b.op)
      <4>1. n - 1 >= 1 /\ n - 1 \in Nat
        BY <1>1, <2>1
      <4>2. /\ Len(M) = n - 1 /\ \A j \in 1..(n - 1 - 1) : M[j] = rest[j]
            /\ M[n - 1] = e
        <5>1. /\ Len(WithInner(rest, e)) = Len(rest) /\ WithInner(rest, e)[Len(rest)] = e
              /\ \A j \in 1..(Len(rest) - 1) : WithInner(rest, e)[j] = rest[j]
          BY <2>2, <2>3, <4>1, WithInnerIs
        <5> QED
          BY <2>1, <2>2, <3>2, <5>1
      <4> QED
        BY <1>3, <2>1, <2>2, <2>3, <4>1, <4>2
    <3> QED
      BY <3>1, <3>2
  <2>5. Closes(prog, h, p) => \A j \in 1..(n - 1) : M[j].fn # b.fn
    <3> SUFFICES ASSUME Closes(prog, h, p), NEW j \in 1..(n - 1)
                 PROVE  M[j].fn # b.fn
      OBVIOUS
    <3>1. Made(b.op)
      BY <1>1 DEF Closes
    <3>2. j \in 1..n /\ j < n
      BY <1>1
    <3>3. L[j].fn < L[n].fn
      BY <1>1, <3>1, <3>2 DEF Good, GoodOrder
    <3> QED
      BY <1>1, <2>4, <3>2, <3>3
  <2>20. Like(prog, h, L, M, p, n - 1, n - 1)
    BY <1>1, <2>1, <2>4, <2>5 DEF Like
  <2>21. n - 1 \in Nat
    BY <1>1, <2>1
  <2> QED
    BY <1>6, <2>20, <2>21
<1>13. CASE c.op \in {"use", "call"} /\ M = L
  <2>1. Like(prog, h, L, M, p, n, n)
    BY <1>1, <1>4, <1>13 DEF Like
  <2> QED
    BY <1>1, <1>6, <2>1
<1> QED
  BY <1>7, <1>8, <1>9, <1>10, <1>11, <1>12, <1>13 DEF Moves

\* What is known of levels rests on what was read before them.
LEMMA GoodSame ==
  ASSUME NEW prog, NEW h, NEW prog2, NEW h2, NEW L, NEW p \in Nat \ {0},
         Good(prog, h, L, p), GoodNames(prog, h, L, p),
         \A q \in 1..(p - 1) : prog2[q] = prog[q] /\ h2[q] = h[q]
  PROVE  Good(prog2, h2, L, p) /\ GoodNames(prog2, h2, L, p)
<1>1. \A j \in 1..Len(L) : /\ L[j].fn \in Nat /\ L[j].fn < p /\ L[j].env \in [Names -> Nat]
                           /\ \A n \in Names : L[j].env[n] < p
  BY InnerIs
<1>2. \A j \in 1..Len(L) : L[j].fn # 0 => L[j].fn \in 1..(p - 1)
  BY <1>1
<1>3. /\ L \in Seq(Levels) /\ Len(L) \in Nat
      /\ GoodFirst(L) /\ GoodBounds(L, p) /\ GoodOrder(L) /\ GoodMade(prog, h, L) /\ GoodBlock(L)
      /\ NamesBound(prog, h, L) /\ NamesStay(L) /\ NamesOwned(prog, h, L)
      /\ NamesClosed(prog, h, L, p)
  BY DEF Good, GoodNames
<1>4. GoodMade(prog2, h2, L)
  <2> SUFFICES ASSUME NEW j \in 2..Len(L), Made(L[j].op)
               PROVE  /\ L[j].fn = L[j].first /\ L[j].fn \in Nat \ {0} /\ L[j].base = 0 /\ L[j].then = 0
                      /\ L[j].op = prog2[L[j].fn].op
                      /\ Inner(h2[L[j].fn]) = L[j - 1]
    BY DEF GoodMade
  <2>1. /\ L[j].fn = L[j].first /\ L[j].fn \in Nat \ {0} /\ L[j].base = 0 /\ L[j].then = 0
        /\ L[j].op = prog[L[j].fn].op
        /\ Inner(h[L[j].fn]) = L[j - 1]
    BY <1>3 DEF GoodMade
  <2>2. L[j].fn \in 1..(p - 1)
    <3>1. j \in 1..Len(L)
      BY <1>3
    <3> QED
      BY <1>2, <2>1, <3>1
  <2> QED
    BY <2>1, <2>2
<1>5. NamesBound(prog2, h2, L)
  <2> SUFFICES ASSUME NEW j \in 1..Len(L), L[j].fn # 0
               PROVE  /\ prog2[L[j].fn].name \in Names
                      /\ L[j].env[prog2[L[j].fn].name] >= L[j].fn
                      /\ \A n \in Names : L[j].env[n] < L[j].fn =>
                           L[j].env[n] = Inner(h2[L[j].fn]).env[n]
    BY DEF NamesBound
  <2>1. prog2[L[j].fn] = prog[L[j].fn] /\ h2[L[j].fn] = h[L[j].fn]
    BY <1>2
  <2> QED
    BY <1>3, <2>1 DEF NamesBound
<1>6. NamesOwned(prog2, h2, L)
  <2> SUFFICES ASSUME NEW j \in 1..Len(L), NEW n \in Names,
                      L[j].env[n] # 0, Owner(prog2, h2, L[j].env[n]) # 0
               PROVE  \E i \in 1..j : /\ L[i].fn = Owner(prog2, h2, L[j].env[n])
                                      /\ L[i].env[n] >= L[i].fn
    BY DEF NamesOwned
  <2>1. L[j].env[n] \in 1..(p - 1)
    BY <1>1
  <2>2. Owner(prog2, h2, L[j].env[n]) = Owner(prog, h, L[j].env[n])
    BY <2>1 DEF Owner
  <2> QED
    BY <1>3, <2>2 DEF NamesOwned
<1>7. NamesClosed(prog2, h2, L, p)
  <2> SUFFICES ASSUME NEW q \in 1..(p - 1), Closes(prog2, h2, q)
               PROVE  \A j \in 1..Len(L) : L[j].fn # Inner(h2[q]).fn
    BY DEF NamesClosed
  <2>1. prog2[q] = prog[q] /\ h2[q] = h[q]
    OBVIOUS
  <2>2. Closes(prog, h, q)
    BY <2>1 DEF Closes
  <2> QED
    BY <1>3, <2>1, <2>2 DEF NamesClosed
<1> QED
  BY <1>3, <1>4, <1>5, <1>6, <1>7 DEF Good, GoodNames

\* k is the story of prog and, then, c, which makes the levels M.
GoesOn(prog, h, c, p, M, k) ==
  Story(Append(prog, c), k) /\ k[p + 1] = M /\ \A q \in 1..p : k[q] = h[q]

\* A story goes on with the construct that is read next.
LEMMA StoryGrows ==
  ASSUME NEW prog, NEW h, Story(prog, h), NEW c \in Constructs, NEW M, NEW p, p = Len(prog) + 1,
         Moves(h[p], M, c, p), Naming(c.op) => c.name \in Names
  PROVE  \E k : GoesOn(prog, h, c, p, M, k)
<1> DEFINE prog2 == Append(prog, c)
           k == Told(h, p, M)
<1>1. /\ prog \in Seq(Constructs) /\ p \in Nat /\ p >= 1 /\ h[1] = <<File>>
      /\ \A q \in 1..p : Good(prog, h, h[q], q) /\ GoodNames(prog, h, h[q], q)
      /\ \A q \in 1..(p - 1) : /\ Moves(h[q], h[q + 1], prog[q], q)
                               /\ Naming(prog[q].op) => prog[q].name \in Names
  BY DEF Story
<1>2. /\ prog2 \in Seq(Constructs) /\ Len(prog2) = p /\ prog2[p] = c
      /\ \A q \in 1..(p - 1) : prog2[q] = prog[q]
  BY <1>1
<1>3. k[p + 1] = M /\ \A q \in 1..p : k[q] = h[q]
  BY <1>1 DEF Told
<1> HIDE DEF prog2, k
<1>4. ASSUME NEW q \in 1..p
      PROVE  Good(prog2, k, k[q], q) /\ GoodNames(prog2, k, k[q], q)
  <2>1. Good(prog, h, h[q], q) /\ GoodNames(prog, h, h[q], q) /\ k[q] = h[q] /\ q \in Nat \ {0}
    BY <1>1, <1>3
  <2>2. \A r \in 1..(q - 1) : prog2[r] = prog[r] /\ k[r] = h[r]
    <3>1. \A r \in 1..(q - 1) : r \in 1..p /\ r \in 1..(p - 1)
      BY <1>1
    <3> QED
      BY <1>2, <1>3, <3>1
  <2> QED
    BY <2>1, <2>2, GoodSame
<1>5. p \in Nat \ {0} /\ p \in 1..p /\ k[p] = h[p]
  BY <1>1, <1>3
<1>6. Good(prog2, k, h[p], p) /\ GoodNames(prog2, k, h[p], p)
  BY <1>4, <1>5
<1>7. Good(prog2, k, M, p + 1)
  BY <1>2, <1>5, <1>6, MovesLevels
<1>8. \A q \in 1..(p - 1) : Good(prog2, k, k[q], q)
  BY <1>1, <1>4
<1>9. GoodNames(prog2, k, M, p + 1)
  BY <1>2, <1>5, <1>6, <1>7, <1>8, MovesNames
<1>10. \A q \in 1..(p + 1) : Good(prog2, k, k[q], q) /\ GoodNames(prog2, k, k[q], q)
  <2> SUFFICES ASSUME NEW q \in 1..(p + 1)
               PROVE  Good(prog2, k, k[q], q) /\ GoodNames(prog2, k, k[q], q)
    OBVIOUS
  <2>1. CASE q = p + 1
    BY <1>3, <1>7, <1>9, <2>1
  <2>2. CASE q # p + 1
    <3>1. q \in 1..p
      BY <1>1, <2>2
    <3> QED
      BY <1>4, <3>1
  <2> QED
    BY <2>1, <2>2
<1>11. \A q \in 1..p : /\ Moves(k[q], k[q + 1], prog2[q], q)
                       /\ Naming(prog2[q].op) => prog2[q].name \in Names
  <2> SUFFICES ASSUME NEW q \in 1..p
               PROVE  /\ Moves(k[q], k[q + 1], prog2[q], q)
                      /\ Naming(prog2[q].op) => prog2[q].name \in Names
    OBVIOUS
  <2>1. CASE q = p
    BY <1>2, <1>3, <1>5, <2>1
  <2>2. CASE q # p
    <3>1. q \in 1..(p - 1) /\ q + 1 \in 1..p
      BY <1>1, <2>2
    <3>2. k[q] = h[q] /\ k[q + 1] = h[q + 1] /\ prog2[q] = prog[q]
      BY <1>2, <1>3, <3>1
    <3> QED
      BY <1>1, <3>1, <3>2
  <2> QED
    BY <2>1, <2>2
<1>12. k[1] = <<File>>
  <2>1. 1 \in 1..p
    BY <1>1
  <2> QED
    BY <1>1, <1>3, <2>1
<1>13. Story(prog2, k)
  BY <1>2, <1>10, <1>11, <1>12 DEF Story
<1> QED
  BY <1>3, <1>13 DEF prog2, GoesOn

-----------------------------------------------------------------------------
(***************************************************************************)
(* What the analysis knows of a program, by the history of its reading.    *)
(***************************************************************************)
Blocks ==
  [op : {"file"} \cup Opened, fn : Nat, bound : SUBSET Names, env : [Names -> Nat],
   count : Nat, then : Nat, first : Nat]

AnalysisTyped ==
  /\ home \in [Ids -> Nat] /\ free \in [Ids -> SUBSET Names]
  /\ upvalues \in [Ids -> Seq(Names)] /\ boxed \in [Ids -> SUBSET Names]
  /\ outer \in [Ids -> [Names -> Nat]] /\ counted \in [Ids -> Nat]
  /\ meant \in [1..MaxLength -> Nat] /\ Len(program) <= MaxLength

\* A use of a variable from outside of its function has an upvalue.
UseFact(L, n, p) ==
  LET g == Inner(L).fn
      v == Inner(L).env[n]
  IN /\ meant[p] = v
     /\ "block" \notin Extras /\ g # 0 /\ v = outer[g][n] /\ v # 0 => n \in ToSet(upvalues[g])
\* An upvalue of function p is a captured local of the function around it, or an
\* upvalue of that one.
Passes(L, n, p, u) ==
  LET g == Inner(L).fn IN
  /\ u # n /\ g # 0
  /\ \/ outer[p][u] >= g /\ u \in boxed[g]
     \/ outer[p][u] < g /\ u \in ToSet(upvalues[g])
FunctionFact(L, n, p) ==
  /\ outer[p] = Inner(L).env
  /\ \A u \in ToSet(upvalues[p]) : Passes(L, n, p, u)
EndFact(L, p) ==
  /\ Made(Inner(L).op) => counted[Inner(L).fn] = Inner(L).count
  /\ Inner(L).op = "for" => meant[p] = Inner(L).first
Fact(L, p) ==
  LET c == program[p] IN
  /\ c.op = "use" => UseFact(L, c.name, p)
  /\ Made(c.op) => FunctionFact(L, c.name, p)
  /\ c.op = "named" => Inner(L).fn = 0 \/ "named" \in Extras
  /\ c.op = "end" => EndFact(L, p)
  /\ c.op # "use" /\ ~(c.op = "end" /\ Inner(L).op = "for") => meant[p] = 0
Facts(h) == \A p \in 1..Len(program) : Fact(h[p], p)

\* The levels L are the blocks open now,
Now(L) ==
  /\ open \in Seq(Blocks) /\ Len(open) = Len(L) /\ env = Inner(L).env
  /\ \A j \in 1..Len(L) :
       /\ open[j].op = L[j].op /\ open[j].fn = L[j].fn /\ open[j].first = L[j].first
       /\ open[j].count = L[j].count /\ open[j].then = L[j].then
       /\ j > 1 => open[j].env = L[j - 1].env
\* and what a function binds is what has been declared in it.
Declared(L) ==
  \A j \in 1..Len(L) : L[j].fn # 0 =>
    open[j].bound = {n \in Names : L[j].env[n] >= L[j].fn}

Homes(h) == \A v \in 1..Len(program) : home[v] # 0 => home[v] = Owner(program, h, v)

\* A free name is a global or comes as an upvalue.
Frees ==
  \A g \in 1..MaxLength : \A n \in Names :
    "block" \notin Extras /\ n \in free[g] /\ outer[g][n] # 0 => n \in ToSet(upvalues[g])

Unread ==
  /\ \A f \in Pos..MaxLength : free[f] = {} /\ upvalues[f] = <<>> /\ meant[f] = 0 /\ home[f] = 0
  /\ Len(program) + Len(open) - 1 <= Longest

Untouched ==
  /\ pc = 0
  /\ scopes = <<[op |-> "file", fn |-> 0, first |-> 0, symbols |-> <<>>, next |-> 1,
                 hidden |-> {}]>>
  /\ cells = [f \in Ids |-> <<>>] /\ denotes = [i \in 1..MaxLength |-> 0] /\ records = {}

\* What reading keeps.
ReadInv(h) ==
  /\ Untouched /\ AnalysisTyped /\ Story(program, h) /\ Facts(h)
  /\ Now(h[Pos]) /\ Declared(h[Pos]) /\ Homes(h) /\ Frees /\ Unread

-----------------------------------------------------------------------------
\* Level j is the function's own of those that are as the i-th in its function.
Begins(prog, h, L, i, j) ==
  /\ Made(L[j].op) /\ L[j].fn = L[i].fn /\ j <= i /\ Inner(h[L[i].fn]) = L[j - 1]
  /\ L[j].op = prog[L[i].fn].op
  /\ \A m \in 1..Len(L) : /\ m < j => L[m].fn < L[i].fn
                          /\ m >= j => L[m].fn >= L[i].fn

\* The levels of a function begin with its own, behind the level it is made in.
LEMMA FrameIs ==
  ASSUME NEW prog, NEW h, NEW L, NEW p \in Nat \ {0}, Good(prog, h, L, p),
         NEW i \in 1..Len(L), L[i].fn # 0
  PROVE  \E j \in 2..Len(L) : Begins(prog, h, L, i, j)
<1> DEFINE f == L[i].fn
           T == {j \in 1..Len(L) : L[j].fn = f}
<1>1. /\ L \in Seq(Levels) /\ Len(L) \in Nat /\ Len(L) >= 1 /\ GoodFirst(L) /\ GoodBounds(L, p)
      /\ GoodOrder(L) /\ GoodMade(prog, h, L) /\ GoodBlock(L)
  BY DEF Good
<1>2. \A j \in 1..Len(L) : L[j].fn \in Nat
  BY InnerIs
<1> HIDE DEF f
<1>3. T \in SUBSET Nat /\ T # {}
  <2>1. i \in T
    BY DEF f
  <2> QED
    BY <2>1
<1>4. PICK j \in T : \A y \in T : j <= y
  BY <1>3, Least
<1>5. j \in 2..Len(L) /\ L[j].fn = f
  <2>1. j # 1
    BY <1>1, <1>4 DEF GoodFirst, f
  <2> QED
    BY <1>1, <2>1
<1>6. Made(L[j].op)
  <2> SUFFICES ASSUME ~Made(L[j].op) PROVE FALSE
    OBVIOUS
  <2>1. L[j - 1].fn = f
    BY <1>1, <1>5 DEF GoodBlock
  <2>2. j - 1 \in T
    BY <1>1, <1>5, <2>1
  <2> QED
    BY <1>4, <1>5, <2>2
<1>7. Inner(h[f]) = L[j - 1] /\ L[j].op = prog[f].op
  BY <1>1, <1>5, <1>6 DEF GoodMade
<1>8. ASSUME NEW m \in 1..Len(L)
      PROVE  (m < j => L[m].fn < f) /\ (m >= j => L[m].fn >= f)
  <2>1. j \in 1..Len(L)
    BY <1>5
  <2>2. CASE m < j
    BY <1>1, <1>5, <1>6, <2>1, <2>2 DEF GoodOrder
  <2>3. CASE m = j
    BY <1>2, <1>5, <2>3
  <2>4. CASE m > j
    <3>1. L[j].fn <= L[m].fn
      BY <1>1, <2>1, <2>4 DEF GoodOrder
    <3> QED
      BY <1>2, <1>5, <2>1, <2>4, <3>1
  <2> QED
    BY <1>5, <2>2, <2>3, <2>4
<1>9. j <= i
  BY <1>4 DEF f
<1> QED
  BY <1>5, <1>6, <1>7, <1>8, <1>9 DEF f, Begins

\* What is bound where a name is looked for: in the last level of the function.
LEMMA BoundIs ==
  ASSUME NEW L, Now(L), Declared(L), NEW j \in 1..Len(L), L[j].fn # 0,
         \A i \in 1..Len(L) : L[i].fn = L[j].fn => i <= j
  PROVE  Bound(L[j].fn) = {n \in Names : L[j].env[n] >= L[j].fn}
<1> DEFINE P(x) == open[x].fn = L[j].fn /\ \A i \in DOMAIN open : open[i].fn = L[j].fn => i <= x
<1>1. DOMAIN open = 1..Len(L) /\ \A i \in 1..Len(L) : open[i].fn = L[i].fn
  BY DEF Now
<1>2. j \in DOMAIN open /\ P(j)
  BY <1>1
<1>3. \A x \in DOMAIN open : P(x) => x = j
  <2> SUFFICES ASSUME NEW x \in DOMAIN open, P(x) PROVE x = j
    OBVIOUS
  <2>1. x \in 1..Len(L) /\ x <= j /\ j <= x
    BY <1>1, <1>2
  <2>2. x \in Int /\ j \in Int
    BY <2>1
  <2> QED
    BY <2>1, <2>2
<1> HIDE DEF P
<1>4. (CHOOSE x \in DOMAIN open : P(x)) = j
  BY <1>2, <1>3
<1>5. Bound(L[j].fn) = open[j].bound
  BY <1>4 DEF Bound, P
<1> QED
  BY <1>5 DEF Declared

\* Facts stay when a construct is read.
LEMMA FactsKept ==
  ASSUME NEW h, NEW k, NEW c, NEW p \in Nat, p = Len(program) + 1, Story(program, h), Facts(h),
         program' = Append(program, c), \A q \in 1..p : k[q] = h[q],
         \A q \in 1..(p - 1) :
           /\ meant'[q] = meant[q] /\ outer'[q] = outer[q]
           /\ Closes(program, h, q) => counted'[Inner(h[q]).fn] = counted[Inner(h[q]).fn]
           /\ Made(program[q].op) => \A u \in ToSet(upvalues'[q]) :
                u \in ToSet(upvalues[q]) \/ Passes(h[q], program[q].name, q, u)',
         \A g \in 0..(p - 1) :
           boxed[g] \subseteq boxed'[g] /\ ToSet(upvalues[g]) \subseteq ToSet(upvalues'[g]),
         Fact(k[p], p)'
  PROVE  Facts(k)'
<1>1. program \in Seq(Constructs) /\ Len(program) = p - 1 /\ p >= 1
  BY DEF Story
<1>2. Len(program') = p /\ \A q \in 1..(p - 1) : program'[q] = program[q]
  BY <1>1
<1> SUFFICES ASSUME NEW q \in 1..p PROVE Fact(k[q], q)'
  BY <1>2 DEF Facts
<1>3. CASE q = p
  BY <1>3
<1>4. CASE q # p
  <2>1. q \in 1..(p - 1) /\ k[q] = h[q] /\ program'[q] = program[q] /\ q \in 1..(Len(program) + 1)
        /\ q \in Nat \ {0}
    BY <1>1, <1>2, <1>4
  <2>2. Fact(h[q], q)
    BY <1>1, <2>1 DEF Facts
  <2> DEFINE L == h[q]
             g == Inner(L).fn
  <2>3. Good(program, h, L, q)
    BY <1>1, <2>1 DEF Story
  <2>4. g \in Nat /\ g < q
    BY <2>1, <2>3, InnerIs
  <2> HIDE DEF L
  <2>5. g \in 0..(p - 1) /\ (g # 0 => g \in 1..(p - 1))
    BY <2>1, <2>4
  <2>6. program[q].op = "use" => UseFact(L, program[q].name, q)'
    <3> SUFFICES ASSUME program[q].op = "use" PROVE UseFact(L, program[q].name, q)'
      OBVIOUS
    <3>1. UseFact(L, program[q].name, q)
      BY <2>2 DEF Fact, L
    <3> QED
      BY <2>1, <2>5, <3>1 DEF UseFact
  <2>7. Made(program[q].op) => FunctionFact(L, program[q].name, q)'
    <3> SUFFICES ASSUME Made(program[q].op) PROVE FunctionFact(L, program[q].name, q)'
      OBVIOUS
    <3>1. FunctionFact(L, program[q].name, q)
      BY <2>2 DEF Fact, L
    <3>2. outer'[q] = Inner(L).env
      BY <2>1, <3>1 DEF FunctionFact
    <3>3. ASSUME NEW u \in ToSet(upvalues'[q]) PROVE Passes(L, program[q].name, q, u)'
      <4>1. CASE u \in ToSet(upvalues[q])
        <5>1. Passes(L, program[q].name, q, u)
          BY <3>1, <4>1 DEF FunctionFact
        <5> QED
          BY <2>1, <2>5, <5>1 DEF Passes
      <4>2. CASE Passes(h[q], program[q].name, q, u)'
        BY <2>1, <4>2 DEF L, Passes
      <4> QED
        BY <2>1, <3>3, <4>1, <4>2
    <3> QED
      BY <2>1, <3>2, <3>3 DEF FunctionFact
  <2>8. program[q].op = "end" => EndFact(L, q)'
    <3> SUFFICES ASSUME program[q].op = "end" PROVE EndFact(L, q)'
      OBVIOUS
    <3>1. EndFact(L, q)
      BY <2>2 DEF Fact, L
    <3>2. Made(Inner(L).op) => counted'[g] = counted[g]
      BY <2>1 DEF Closes, L
    <3> QED
      BY <2>1, <3>1, <3>2 DEF EndFact
  <2> QED
    BY <2>1, <2>2, <2>6, <2>7, <2>8 DEF Fact, L
<1> QED
  BY <1>3, <1>4

\* What is here while reading.
LEMMA Here ==
  ASSUME NEW h, ReadInv(h), NEW p, p = Pos, NEW L, L = h[p]
  PROVE  /\ p \in Nat \ {0} /\ Len(program) = p - 1 /\ program \in Seq(Constructs) /\ p <= MaxLength + 1
         /\ Good(program, h, L, p) /\ GoodNames(program, h, L, p) /\ Now(L) /\ Declared(L)
         /\ L \in Seq(Levels) /\ Len(L) \in Nat /\ Len(L) >= 1 /\ Len(open) = Len(L)
         /\ open \in Seq(Blocks) /\ DOMAIN open = 1..Len(L) /\ Top = open[Len(L)]
         /\ Inner(L) = L[Len(L)] /\ Inner(L) \in Levels
         /\ Top.op = Inner(L).op /\ Top.first = Inner(L).first /\ Top.count = Inner(L).count
         /\ Top.then = Inner(L).then /\ Fn = Inner(L).fn /\ Fn \in Nat /\ Fn < p
         /\ env = Inner(L).env /\ env \in [Names -> Nat] /\ \A n \in Names : env[n] < p
<1>1. MaxLength \in Nat
  BY ScopesAssumption
<1>2. /\ AnalysisTyped /\ Story(program, h) /\ Now(L) /\ Declared(L)
  BY DEF ReadInv
<1>3. p \in Nat \ {0} /\ Len(program) = p - 1 /\ program \in Seq(Constructs) /\ p <= MaxLength + 1
  BY <1>1, <1>2 DEF Story, Pos, AnalysisTyped
<1>4. Good(program, h, L, p) /\ GoodNames(program, h, L, p)
  BY <1>2, <1>3 DEF Story
<1>5. /\ Inner(L) = L[Len(L)] /\ Inner(L) \in Levels /\ Len(L) \in Nat /\ Len(L) >= 1
      /\ Inner(L).fn \in Nat /\ Inner(L).fn < p /\ Inner(L).env \in [Names -> Nat]
      /\ \A n \in Names : Inner(L).env[n] < p
  BY <1>3, <1>4, InnerIs
<1>6. /\ Len(open) = Len(L) /\ open \in Seq(Blocks) /\ DOMAIN open = 1..Len(L)
      /\ Top = open[Len(L)] /\ env = Inner(L).env
  BY <1>2 DEF Now, Top
<1>7. /\ Top.op = Inner(L).op /\ Top.first = Inner(L).first /\ Top.count = Inner(L).count
      /\ Top.then = Inner(L).then /\ Fn = Inner(L).fn
  BY <1>2, <1>5, <1>6 DEF Now, Fn
<1> QED
  BY <1>2, <1>3, <1>4, <1>5, <1>6, <1>7 DEF Good

\* There was room for the construct that is read.
LEMMA RoomIs ==
  ASSUME NEW p \in Nat, p = Len(program) + 1, program \in Seq(Constructs), NEW c \in Constructs,
         program' = Append(program, c), Len(open) \in Nat, Len(open) >= 1,
         NEW i \in Nat, i >= 1, Room(i)
  PROVE  /\ p \in 1..MaxLength /\ Len(program') = p /\ program' \in Seq(Constructs)
         /\ p + Len(open) - 2 + i <= Longest'
<1>1. Longest <= MaxLength /\ Longest \in Nat /\ MaxLength \in Nat /\ Longest >= MaxLength - 2
  BY ScopesAssumption DEF Longest
<1>2. (p - 1) + Len(open) - 1 + i <= Longest
  BY DEF Room
<1>3. /\ program' \in Seq(Constructs) /\ Len(program') = p /\ program' # <<>>
      /\ p > 1 => program'[1] = program[1]
  OBVIOUS
<1>4. Longest <= Longest' /\ Longest' \in Nat
  <2>1. CASE p = 1
    <3>1. program = <<>>
      BY <2>1
    <3>2. Longest = MaxLength - 2
      BY <3>1 DEF Longest
    <3>3. Longest' = MaxLength \/ Longest' = MaxLength - 2
      BY DEF Longest
    <3> QED
      BY <1>1, <3>2, <3>3
  <2>2. CASE p > 1
    <3>1. program # <<>>
      BY <2>2
    <3>2. Longest' = Longest
      BY <1>3, <2>2, <3>1 DEF Longest
    <3> QED
      BY <1>1, <3>2
  <2> QED
    BY <2>1, <2>2
<1>5. p <= MaxLength
  BY <1>1, <1>2
<1> QED
  BY <1>1, <1>2, <1>3, <1>4, <1>5

\* The variables keep the functions they belong to.
LEMMA HomesKept ==
  ASSUME NEW h, NEW k, NEW c, NEW p \in Nat, p = Len(program) + 1, Story(program, h), Homes(h),
         program' = Append(program, c), \A q \in 1..p : k[q] = h[q],
         \A v \in 1..(p - 1) : home'[v] = home[v],
         home'[p] # 0 => home'[p] = Owner(program', k, p)
  PROVE  Homes(k)'
<1>1. program \in Seq(Constructs) /\ Len(program) = p - 1 /\ p >= 1
  BY DEF Story
<1>2. Len(program') = p /\ \A q \in 1..(p - 1) : program'[q] = program[q]
  BY <1>1
<1> SUFFICES ASSUME NEW v \in 1..p, home'[v] # 0 PROVE home'[v] = Owner(program', k, v)
  BY <1>2 DEF Homes
<1>3. CASE v = p
  BY <1>3
<1>4. CASE v # p
  <2>1. v \in 1..(p - 1) /\ v \in 1..Len(program)
    BY <1>1, <1>4
  <2>2. home[v] = Owner(program, h, v)
    BY <2>1 DEF Homes
  <2>3. Owner(program', k, v) = Owner(program, h, v)
    BY <1>2, <2>1 DEF Owner
  <2> QED
    BY <2>1, <2>2, <2>3
<1> QED
  BY <1>3, <1>4

\* A list of names with one more (name_list_add).
LEMMA NameListAddIs ==
  ASSUME NEW list \in Seq(Names), NEW n \in Names
  PROVE  /\ NameListAdd(list, n) \in Seq(Names)
         /\ ToSet(NameListAdd(list, n)) = ToSet(list) \cup {n}
<1>1. CASE Contains(list, n)
  <2>1. PICK i \in 1..Len(list) : list[i] = n
    BY <1>1 DEF Contains
  <2>2. n \in ToSet(list)
    BY <2>1 DEF ToSet
  <2>3. NameListAdd(list, n) = list
    BY <1>1 DEF NameListAdd
  <2> QED
    BY <2>2, <2>3
<1>2. CASE ~Contains(list, n)
  <2> DEFINE s == <<n>> \o list
  <2>1. NameListAdd(list, n) = s
    BY <1>2 DEF NameListAdd
  <2>2. /\ s \in Seq(Names) /\ Len(s) = Len(list) + 1 /\ s[1] = n
        /\ \A i \in 1..Len(list) : s[i + 1] = list[i]
    OBVIOUS
  <2> HIDE DEF s
  <2>3. \A i \in 2..(Len(list) + 1) : s[i] = list[i - 1]
    <3> SUFFICES ASSUME NEW i \in 2..(Len(list) + 1) PROVE s[i] = list[i - 1]
      OBVIOUS
    <3>1. i - 1 \in 1..Len(list) /\ (i - 1) + 1 = i
      OBVIOUS
    <3> QED
      BY <2>2, <3>1
  <2>4. ToSet(s) \subseteq ToSet(list) \cup {n}
    <3> SUFFICES ASSUME NEW i \in 1..Len(s) PROVE s[i] \in ToSet(list) \cup {n}
      BY <2>2 DEF ToSet
    <3>1. CASE i = 1
      BY <2>2, <3>1
    <3>2. CASE i # 1
      <4>1. i \in 2..(Len(list) + 1) /\ i - 1 \in 1..Len(list)
        BY <2>2, <3>2
      <4> QED
        BY <2>3, <4>1 DEF ToSet
    <3> QED
      BY <3>1, <3>2
  <2>5. n \in ToSet(s)
    <3>1. 1 \in DOMAIN s
      BY <2>2
    <3> QED
      BY <2>2, <3>1 DEF ToSet
  <2>6. ToSet(list) \subseteq ToSet(s)
    <3> SUFFICES ASSUME NEW i \in 1..Len(list) PROVE list[i] \in ToSet(s)
      BY DEF ToSet
    <3>1. i + 1 \in DOMAIN s /\ s[i + 1] = list[i]
      BY <2>2
    <3> QED
      BY <3>1 DEF ToSet
  <2> QED
    BY <2>1, <2>2, <2>4, <2>5, <2>6
<1> QED
  BY <1>1, <1>2

\* The last of the levels of a function that is open.
LEMMA LastLevel ==
  ASSUME NEW L \in Seq(Levels), NEW i \in 1..Len(L)
  PROVE  \E j \in 1..Len(L) : /\ L[j].fn = L[i].fn /\ i <= j
                              /\ \A m \in 1..Len(L) : L[m].fn = L[i].fn => m <= j
<1> DEFINE T == {j \in 1..Len(L) : L[j].fn = L[i].fn}
<1>1. T \in SUBSET (0..Len(L)) /\ T # {} /\ i \in T /\ Len(L) \in Nat
  OBVIOUS
<1> HIDE DEF T
<1>2. PICK j \in T : \A y \in T : y <= j
  BY <1>1, Greatest
<1> USE DEF T
<1> QED
  BY <1>1, <1>2

\* The functions that bind a name that is open in the levels L.
LEMMA BoundsIn ==
  ASSUME NEW h, ReadInv(h), NEW p, p = Pos, NEW L, L = h[p], NEW n \in Names
  PROVE  /\ Frames = {L[j].fn : j \in 1..Len(L)}
         /\ \A i \in 1..Len(L) : L[i].fn # 0 /\ L[i].env[n] >= L[i].fn => n \in Bound(L[i].fn)
         /\ \A i \in 1..Len(L) :
              /\ L[i].fn # 0 /\ n \in Bound(L[i].fn)
              /\ \A m \in 1..Len(L) : L[m].fn = L[i].fn => m <= i
              => L[i].env[n] >= L[i].fn
         /\ Fn # 0 => (n \in Bound(Fn) <=> env[n] >= Fn)
<1>1. /\ Good(program, h, L, p) /\ GoodNames(program, h, L, p) /\ Now(L) /\ Declared(L)
      /\ L \in Seq(Levels) /\ Len(L) \in Nat /\ Len(L) >= 1
      /\ DOMAIN open = 1..Len(L) /\ Inner(L) = L[Len(L)] /\ Fn = Inner(L).fn /\ env = Inner(L).env
  BY Here
<1>2. Frames = {L[j].fn : j \in 1..Len(L)}
  BY <1>1, SMTT(30) DEF Frames, Now
<1>3. ASSUME NEW i \in 1..Len(L), L[i].fn # 0, L[i].env[n] >= L[i].fn
      PROVE  n \in Bound(L[i].fn)
  <2>1. PICK j \in 1..Len(L) : /\ L[j].fn = L[i].fn /\ i <= j
                               /\ \A m \in 1..Len(L) : L[m].fn = L[i].fn => m <= j
    BY <1>1, LastLevel
  <2>2. L[j].env[n] >= L[j].fn
    <3>1. CASE i = j
      BY <1>3, <3>1
    <3>2. CASE i # j
      <4>1. i < j
        BY <1>1, <2>1, <3>2
      <4> QED
        BY <1>1, <1>3, <2>1, <4>1 DEF GoodNames, NamesStay
    <3> QED
      BY <3>1, <3>2
  <2>3. Bound(L[j].fn) = {m \in Names : L[j].env[m] >= L[j].fn}
    BY <1>1, <1>3, <2>1, BoundIs
  <2> QED
    BY <2>1, <2>2, <2>3
<1>4. ASSUME NEW i \in 1..Len(L), L[i].fn # 0, n \in Bound(L[i].fn),
             \A m \in 1..Len(L) : L[m].fn = L[i].fn => m <= i
      PROVE  L[i].env[n] >= L[i].fn
  <2>1. Bound(L[i].fn) = {m \in Names : L[i].env[m] >= L[i].fn}
    BY <1>1, <1>4, BoundIs
  <2> QED
    BY <1>4, <2>1
<1>5. Fn # 0 => (n \in Bound(Fn) <=> env[n] >= Fn)
  <2>1. Len(L) \in 1..Len(L) /\ \A m \in 1..Len(L) : L[m].fn = L[Len(L)].fn => m <= Len(L)
    BY <1>1
  <2> QED
    BY <1>1, <1>3, <1>4, <2>1
<1> QED
  BY <1>2, <1>3, <1>4, <1>5

\* What a use of n, the p-th construct, tells the analysis.
Analyzed(h, p, n) ==
  /\ free' \in [Ids -> SUBSET Names] /\ upvalues' \in [Ids -> Seq(Names)]
  /\ boxed' \in [Ids -> SUBSET Names]
  /\ \A g \in Ids : /\ boxed[g] \subseteq boxed'[g]
                    /\ ToSet(upvalues[g]) \subseteq ToSet(upvalues'[g])
                    /\ free'[g] \subseteq free[g] \cup (IF g = Fn THEN {n} ELSE {})
  /\ \A g \in p..MaxLength : free'[g] = free[g] /\ upvalues'[g] = upvalues[g]
  /\ \A f \in Ids : \A u \in ToSet(upvalues'[f]) :
       u \in ToSet(upvalues[f]) \/ (f # 0 /\ Passes(h[f], program[f].name, f, u)')
  /\ "block" \notin Extras /\ Fn # 0 /\ outer[Fn][n] # 0
       /\ (env[n] = outer[Fn][n] \/ n \in free'[Fn])
     => n \in ToSet(upvalues'[Fn])

\* analyze_identifier_use finds the upvalues that the use needs, and boxes the local.
LEMMA UseAnalyzed ==
  ASSUME NEW h, ReadInv(h), NEW p, p = Pos, NEW L, L = h[p], NEW n \in Names, AnalyzeUse(n),
         "block" \in Extras \/ Fn = 0 \/ env[n] = 0 \/ home[env[n]] # 0, outer' = outer, p <= MaxLength,
         \A q \in 1..(p - 1) : program'[q] = program[q]
  PROVE  Analyzed(h, p, n)
<1>1. /\ p \in Nat \ {0} /\ Len(program) = p - 1 /\ program \in Seq(Constructs)
      /\ Good(program, h, L, p) /\ GoodNames(program, h, L, p) /\ Now(L) /\ Declared(L)
      /\ L \in Seq(Levels) /\ Len(L) \in Nat /\ Len(L) >= 1
      /\ Inner(L) = L[Len(L)] /\ Fn = Inner(L).fn /\ Fn \in Nat /\ Fn < p
      /\ env = Inner(L).env /\ env \in [Names -> Nat] /\ \A m \in Names : env[m] < p
  BY Here
<1>2. /\ free \in [Ids -> SUBSET Names] /\ upvalues \in [Ids -> Seq(Names)]
      /\ boxed \in [Ids -> SUBSET Names] /\ outer \in [Ids -> [Names -> Nat]]
      /\ MaxLength \in Nat /\ Facts(h) /\ Homes(h) /\ Frees
  BY ScopesAssumption DEF ReadInv, AnalysisTyped
<1>3. \A j \in 1..Len(L) : /\ L[j].fn \in Nat /\ L[j].fn < p /\ L[j].fn <= Fn
                           /\ L[j].env \in [Names -> Nat] /\ \A m \in Names : L[j].env[m] < p
  BY <1>1, InnerIs
<1>4. /\ Frames = {L[j].fn : j \in 1..Len(L)}
      /\ \A i \in 1..Len(L) : L[i].fn # 0 /\ L[i].env[n] >= L[i].fn => n \in Bound(L[i].fn)
      /\ \A i \in 1..Len(L) :
           /\ L[i].fn # 0 /\ n \in Bound(L[i].fn)
           /\ \A m \in 1..Len(L) : L[m].fn = L[i].fn => m <= i
           => L[i].env[n] >= L[i].fn
      /\ Fn # 0 => (n \in Bound(Fn) <=> env[n] >= Fn)
  BY BoundsIn
<1>0. p - 1 <= MaxLength /\ p - 1 \in Nat
  BY <1>1, <1>2
<1>5. \A f \in Frames : f \in Nat /\ f < p /\ f <= Fn /\ f \in Ids
  <2> SUFFICES ASSUME NEW j \in 1..Len(L)
               PROVE  /\ L[j].fn \in Nat /\ L[j].fn < p /\ L[j].fn <= Fn /\ L[j].fn \in Ids
    BY <1>4
  <2>1. L[j].fn \in Nat /\ L[j].fn < p /\ L[j].fn <= Fn
    BY <1>3
  <2>2. p \in Nat /\ MaxLength \in Nat
    BY <1>1, <1>2
  <2> QED
    BY <2>1, <2>2 DEF Ids
<1>6. Fn \in Frames /\ Fn \in Ids
  <2>1. Len(L) \in 1..Len(L)
    BY <1>1
  <2>2. Fn \in Frames
    BY <1>1, <1>4, <2>1
  <2> QED
    BY <1>5, <2>2
\* What is around a function that is open.
<1>7. ASSUME NEW f \in Frames, f # 0
      PROVE  \E j \in 1..Len(L) :
               /\ L[j].fn = Inner(h[f]).fn /\ L[j].fn < f /\ outer[f] = L[j].env
               /\ \A i \in 1..Len(L) : /\ L[i].fn < f => L[i].fn <= L[j].fn
                                       /\ L[i].fn = L[j].fn => i <= j
               /\ program[f].name \in Names /\ f \in 1..Len(program) /\ Made(program[f].op)
               /\ (program[f].name = n => n \in Bound(f))
  <2>1. PICK i \in 1..Len(L) : L[i].fn = f
    BY <1>4
  <2>2. PICK j \in 2..Len(L) :
           /\ Made(L[j].op) /\ L[j].fn = f /\ Inner(h[f]) = L[j - 1]
           /\ L[j].op = program[f].op
           /\ \A m \in 1..Len(L) : /\ m < j => L[m].fn < f
                                   /\ m >= j => L[m].fn >= f
    <3>1. L[i].fn # 0 /\ Good(program, h, L, p) /\ p \in Nat \ {0}
      BY <1>1, <1>7, <2>1
    <3>2. \E j \in 2..Len(L) : Begins(program, h, L, i, j)
      BY <3>1, FrameIs
    <3> QED
      BY <2>1, <3>2 DEF Begins
  <2>3. j - 1 \in 1..Len(L) /\ j \in 1..Len(L) /\ f \in 1..(p - 1)
    BY <1>1, <1>5, <1>7
  <2>4. L[j - 1].fn < f
    BY <2>2, <2>3
  <2>5. FunctionFact(h[f], program[f].name, f)
    BY <1>1, <1>2, <2>2, <2>3 DEF Facts, Fact
  <2>6. outer[f] = L[j - 1].env
    BY <2>2, <2>5 DEF FunctionFact
  <2>7. ASSUME NEW m \in 1..Len(L)
        PROVE  /\ L[m].fn < f => L[m].fn <= L[j - 1].fn
               /\ L[m].fn = L[j - 1].fn => m <= j - 1
    <3>1. L[m].fn < f => m <= j - 1
      BY <1>3, <1>5, <2>2
    <3>2. m < j - 1 => L[m].fn <= L[j - 1].fn
      BY <1>1, <2>3 DEF Good, GoodOrder
    <3> QED
      BY <1>3, <2>3, <2>4, <3>1, <3>2
  <2>8. program[f].name \in Names /\ L[j].env[program[f].name] >= L[j].fn
    BY <1>1, <1>7, <2>2, <2>3 DEF GoodNames, NamesBound
  <2>9. program[f].name = n => n \in Bound(f)
    BY <1>4, <1>7, <2>2, <2>3, <2>8
  <2> QED
    BY <1>1, <2>2, <2>3, <2>4, <2>6, <2>7, <2>8, <2>9
<1>8. Fn # 0 => outer[Fn][n] < Fn
  <2> SUFFICES ASSUME Fn # 0 PROVE outer[Fn][n] < Fn
    OBVIOUS
  <2>1. Fn \in 1..Len(program) /\ Made(program[Fn].op)
    BY <1>6, <1>7
  <2>2. outer[Fn] = Inner(h[Fn]).env
    BY <1>2, <2>1 DEF Facts, Fact, FunctionFact
  <2>3. Fn \in 1..(Len(program) + 1) /\ Fn \in Nat \ {0}
    BY <1>1, <2>1
  <2>4. Good(program, h, h[Fn], Fn)
    BY <2>3 DEF ReadInv, Story
  <2> QED
    BY <2>2, <2>3, <2>4, InnerIs
<1>9. Fn # 0 /\ n \notin Bound(Fn) => outer[Fn][n] = env[n]
  <2> SUFFICES ASSUME Fn # 0, n \notin Bound(Fn) PROVE outer[Fn][n] = env[n]
    OBVIOUS
  <2>1. Len(L) \in 1..Len(L) /\ env[n] < Fn
    BY <1>1, <1>4, SMTT(30)
  <2>2. env[n] = Inner(h[Fn]).env[n]
    <3>1. L[Len(L)].fn = Fn /\ L[Len(L)].env = env
      BY <1>1
    <3> QED
      BY <1>1, <2>1, <3>1 DEF GoodNames, NamesBound
  <2>3. outer[Fn] = Inner(h[Fn]).env
    BY <1>2, <1>6, <1>7 DEF Facts, Fact, FunctionFact
  <2> QED
    BY <2>2, <2>3
<1>10. CASE n \in Bound(Fn) \cup free[Fn]
  <2>1. free' = free /\ upvalues' = upvalues /\ boxed' = boxed
    BY <1>10 DEF AnalyzeUse
  <2>2. "block" \notin Extras /\ Fn # 0 /\ outer[Fn][n] # 0
              /\ (env[n] = outer[Fn][n] \/ n \in free'[Fn])
            => n \in ToSet(upvalues'[Fn])
    <3> SUFFICES ASSUME "block" \notin Extras, Fn # 0, outer[Fn][n] # 0,
                        env[n] = outer[Fn][n] \/ n \in free[Fn]
                 PROVE  n \in ToSet(upvalues[Fn])
      BY <2>1
    <3>1. n \in free[Fn]
      <4>1. CASE env[n] = outer[Fn][n]
        <5>1. n \notin Bound(Fn)
          BY <1>1, <1>4, <1>8, <4>1
        <5> QED
          BY <1>10, <5>1
      <4> QED
        BY <4>1
    <3>2. Fn \in 1..MaxLength
      BY <1>1, <1>6 DEF Ids
    <3> QED
      BY <1>2, <3>1, <3>2 DEF Frees
  <2> QED
    BY <1>2, <2>1, <2>2 DEF Analyzed
<1>11. CASE n \notin Bound(Fn) \cup free[Fn]
  <2>1. /\ free' = [free EXCEPT ![Fn] = @ \cup {n}]
        /\ IF Owners(n) = {} THEN UNCHANGED <<upvalues, boxed>>
           ELSE LET o == CHOOSE f \in Owners(n) : \A g \in Owners(n) : g <= f
                IN /\ boxed' = [boxed EXCEPT ![o] = @ \cup {n}]
                   /\ upvalues' = [f \in Ids |->
                        IF Threaded(f, o) THEN NameListAdd(upvalues[f], n) ELSE upvalues[f]]
    BY <1>11 DEF AnalyzeUse
  <2>2. /\ free' \in [Ids -> SUBSET Names]
        /\ \A g \in Ids : free'[g] \subseteq free[g] \cup (IF g = Fn THEN {n} ELSE {})
        /\ \A g \in p..MaxLength : free'[g] = free[g]
    <3>1. free' \in [Ids -> SUBSET Names]
      BY <1>2, <1>6, <2>1
    <3>2. \A g \in Ids : free'[g] = IF g = Fn THEN free[g] \cup {n} ELSE free[g]
      BY <1>2, <1>6, <2>1
    <3>3. \A g \in p..MaxLength : g \in Ids /\ g # Fn
      <4> SUFFICES ASSUME NEW g \in p..MaxLength PROVE g \in Ids /\ g # Fn
        OBVIOUS
      <4>1. g \in Nat /\ g >= p /\ g <= MaxLength
        BY <1>1, <1>2
      <4> QED
        BY <1>1, <1>2, <4>1, SMTT(30) DEF Ids
    <3> QED
      BY <3>1, <3>2, <3>3
  <2>3. CASE Owners(n) = {}
    <3>1. upvalues' = upvalues /\ boxed' = boxed
      BY <2>1, <2>3
    <3>2. "block" \notin Extras /\ Fn # 0 => outer[Fn][n] = 0
      <4> SUFFICES ASSUME "block" \notin Extras, Fn # 0, env[n] # 0 PROVE FALSE
        BY <1>9, <1>11
      <4> DEFINE v == env[n]
                 o == Owner(program, h, v)
      <4>1. v \in 1..Len(program) /\ home[v] # 0
        BY <1>1
      <4>2. o = home[v] /\ o # 0
        BY <1>2, <4>1 DEF Homes
      <4>3. Len(L) \in 1..Len(L) /\ L[Len(L)].env[n] = v
        BY <1>1
      <4> HIDE DEF v, o
      <4>4. PICK i \in 1..Len(L) : L[i].fn = o /\ L[i].env[n] >= L[i].fn
        BY <1>1, <4>1, <4>2, <4>3, SMTT(30) DEF GoodNames, NamesOwned, v, o
      <4>5. o \in Frames /\ n \in Bound(o)
        BY <1>4, <4>2, <4>4
      <4>6. o \in Owners(n)
        BY <1>11, <4>2, <4>5 DEF Owners
      <4> QED
        BY <2>3, <4>6
    <3> QED
      BY <1>2, <2>2, <3>1, <3>2 DEF Analyzed
  <2>4. CASE Owners(n) # {}
    <3> DEFINE o == CHOOSE f \in Owners(n) : \A g \in Owners(n) : g <= f
    <3>1. Owners(n) \in SUBSET (0..p)
      BY <1>1, <1>5 DEF Owners
    <3>2. \E f \in Owners(n) : \A g \in Owners(n) : g <= f
      BY <1>1, <2>4, <3>1, Greatest
    <3>3. o \in Owners(n) /\ \A g \in Owners(n) : g <= o
      BY <3>2
    <3>4. /\ boxed' = [boxed EXCEPT ![o] = @ \cup {n}]
          /\ upvalues' = [f \in Ids |->
               IF Threaded(f, o) THEN NameListAdd(upvalues[f], n) ELSE upvalues[f]]
      BY <2>1, <2>4
    <3> HIDE DEF o
    <3>5. o \in Frames /\ o # 0 /\ o # Fn /\ n \in Bound(o) /\ o \in Ids /\ o < Fn /\ o \in Nat
      BY <1>1, <1>5, <3>3 DEF Owners
    <3>6. boxed' \in [Ids -> SUBSET Names] /\ n \in boxed'[o]
          /\ \A g \in Ids : boxed[g] \subseteq boxed'[g]
      BY <1>2, <3>4, <3>5
    <3>7. \A f \in Ids : upvalues'[f] =
            IF Threaded(f, o) THEN NameListAdd(upvalues[f], n) ELSE upvalues[f]
      BY <3>4
    <3>8. ASSUME NEW f \in Ids
          PROVE  /\ upvalues'[f] \in Seq(Names)
                 /\ ToSet(upvalues'[f]) = IF Threaded(f, o) THEN ToSet(upvalues[f]) \cup {n}
                                          ELSE ToSet(upvalues[f])
      <4>1. upvalues[f] \in Seq(Names)
        BY <1>2
      <4> QED
        BY <3>7, <4>1, NameListAddIs
    <3>9. upvalues' \in [Ids -> Seq(Names)]
      BY <3>4, <3>7, <3>8
    <3>10. \A g \in p..MaxLength : upvalues'[g] = upvalues[g]
      <4> SUFFICES ASSUME NEW g \in p..MaxLength PROVE upvalues'[g] = upvalues[g]
        OBVIOUS
      <4>1. g \in Ids /\ g \notin Frames
        BY <1>1, <1>2, <1>5 DEF Ids
      <4> QED
        BY <3>7, <4>1 DEF Threaded
    <3>11. n \in ToSet(upvalues'[Fn])
      <4>1. Threaded(Fn, o)
        BY <1>1, <1>6, <3>5 DEF Threaded
      <4> QED
        BY <1>6, <3>8, <4>1
    <3>12. ASSUME NEW f \in Ids, Threaded(f, o)
           PROVE  f # 0 /\ Passes(h[f], program[f].name, f, n)'
      <4>1. f \in Frames /\ f > o /\ f # 0 /\ f \in Nat
        BY <1>5, <3>5, <3>12 DEF Threaded
      <4> DEFINE g == Inner(h[f]).fn
      <4>2. PICK j \in 1..Len(L) :
               /\ L[j].fn = g /\ L[j].fn < f /\ outer[f] = L[j].env
               /\ \A i \in 1..Len(L) : /\ L[i].fn < f => L[i].fn <= L[j].fn
                                       /\ L[i].fn = L[j].fn => i <= j
               /\ (program[f].name = n => n \in Bound(f)) /\ f \in 1..Len(program)
        BY <1>7, <4>1
      <4> HIDE DEF g
      <4>3. n \notin Bound(f)
        <5>1. f = Fn => n \notin Bound(f)
          BY <1>11
        <5>2. f # Fn => f \notin Owners(n)
          BY <1>5, <3>3, <3>5, <4>1
        <5> QED
          BY <4>1, <5>1, <5>2 DEF Owners
      <4>4. g \in Frames /\ g \in Nat /\ g >= o
        <5>1. PICK i \in 1..Len(L) : L[i].fn = o
          BY <1>4, <3>5
        <5>2. g \in Frames
          BY <1>4, <4>2
        <5> QED
          BY <1>5, <3>5, <4>1, <4>2, <5>1, <5>2
      <4>5. g # 0 /\ g < f /\ g # Fn
        BY <1>5, <3>5, <4>1, <4>2, <4>4
      <4>7. \/ outer[f][n] >= g /\ n \in boxed'[g]
            \/ outer[f][n] < g /\ n \in ToSet(upvalues'[g])
        <5>1. CASE g = o
          <6>1. L[j].env[n] >= L[j].fn
            BY <1>4, <3>5, <4>2, <5>1
          <6> QED
            BY <3>6, <4>2, <5>1, <6>1
        <5>2. CASE g # o
          <6>1. g > o
            BY <3>5, <4>4, <5>2
          <6>2. g \notin Owners(n)
            BY <3>3, <3>5, <4>4, <6>1
          <6>3. n \notin Bound(g)
            BY <4>4, <4>5, <6>2 DEF Owners
          <6>4. L[j].env[n] < g
            BY <1>3, <1>4, <4>2, <4>5, <6>3, SMTT(30)
          <6>5. Threaded(g, o) /\ g \in Ids
            BY <1>5, <4>4, <6>1 DEF Threaded
          <6> QED
            BY <3>8, <4>2, <6>4, <6>5
        <5> QED
          BY <5>1, <5>2
      <4>8. program'[f] = program[f]
        BY <1>1, <4>2
      <4> QED
        BY <4>1, <4>2, <4>3, <4>5, <4>7, <4>8 DEF Passes, g
    <3>13. \A f \in Ids : \A u \in ToSet(upvalues'[f]) :
              u \in ToSet(upvalues[f]) \/ (f # 0 /\ Passes(h[f], program[f].name, f, u)')
      BY <3>8, <3>12
    <3> QED
      BY <2>2, <3>6, <3>8, <3>9, <3>10, <3>11, <3>13 DEF Analyzed
  <2> QED
    BY <2>3, <2>4
<1> QED
  BY <1>10, <1>11

\* Nothing of what was found of the constructs before the p-th is lost.
Remembered(h, p) ==
  /\ \A q \in 1..(p - 1) :
       /\ meant'[q] = meant[q] /\ outer'[q] = outer[q] /\ home'[q] = home[q]
       /\ Closes(program, h, q) => counted'[Inner(h[q]).fn] = counted[Inner(h[q]).fn]
       /\ Made(program[q].op) => \A u \in ToSet(upvalues'[q]) :
            u \in ToSet(upvalues[q]) \/ Passes(h[q], program[q].name, q, u)'
  /\ \A g \in 0..(p - 1) :
       boxed[g] \subseteq boxed'[g] /\ ToSet(upvalues[g]) \subseteq ToSet(upvalues'[g])

\* Reading a construct c that makes the levels M of the levels L.
LEMMA ReadOn ==
  ASSUME NEW h, ReadInv(h), NEW p, p = Pos, NEW L, L = h[p],
         NEW c \in Constructs, Naming(c.op) => c.name \in Names,
         NEW M, Moves(L, M, c, p), program' = Append(program, c), Remembered(h, p),
         p <= MaxLength, p + Len(open') - 1 <= Longest', UNCHANGED <<pc, emission>>,
         AnalysisTyped', Fact(L, p)', Now(M)', Declared(M)', Frees',
         home'[p] # 0 => home'[p] = (IF Made(c.op) THEN p ELSE Inner(L).fn),
         \A f \in (p + 1)..MaxLength :
           free'[f] = {} /\ upvalues'[f] = <<>> /\ meant'[f] = 0 /\ home'[f] = 0
  PROVE  \E k : ReadInv(k)'
<1>1. /\ Story(program, h) /\ Facts(h) /\ Homes(h) /\ Untouched
  BY DEF ReadInv
<1>2. p \in Nat \ {0} /\ Len(program) = p - 1 /\ program \in Seq(Constructs)
  BY Here
<1>3. p = Len(program) + 1 /\ p \in Nat
  BY <1>2
<1>4. PICK k : /\ Story(Append(program, c), k) /\ k[p + 1] = M
               /\ \A q \in 1..p : k[q] = h[q]
  <2>1. Moves(h[p], M, c, p)
    OBVIOUS
  <2>2. \E k : GoesOn(program, h, c, p, M, k)
    BY <1>1, <1>3, <2>1, StoryGrows
  <2> QED
    BY <2>2 DEF GoesOn
<1>5. Len(program') = p /\ program'[p] = c /\ Pos' = p + 1 /\ p \in 1..p
  BY <1>2 DEF Pos
<1>6. k[p] = L
  BY <1>4, <1>5
<1>7. Fact(k[p], p)'
  BY <1>6
<1>8. Facts(k)'
  BY <1>1, <1>3, <1>4, <1>7, FactsKept DEF Remembered
<1>9. Owner(program', k, p) = IF Made(c.op) THEN p ELSE Inner(L).fn
  BY <1>5, <1>6 DEF Owner
<1>10. Homes(k)'
  BY <1>1, <1>3, <1>4, <1>9, HomesKept DEF Remembered
<1>11. Unread'
  BY <1>5 DEF Unread
<1>12. Untouched'
  BY <1>1 DEF Untouched, emission
<1>13. Story(program, k)'
  BY <1>4
<1>14. Now(k[Pos])' /\ Declared(k[Pos])'
  BY <1>4, <1>5
<1> QED
  BY <1>8, <1>10, <1>11, <1>12, <1>13, <1>14 DEF ReadInv

\* Reading a construct that tells nothing of captures and slots.
LEMMA ReadQuietly ==
  ASSUME NEW h, ReadInv(h), NEW p, p = Pos, NEW L, L = h[p],
         NEW c \in Constructs, Naming(c.op) => c.name \in Names,
         NEW M, Moves(L, M, c, p), program' = Append(program, c), ~Made(c.op),
         c.op \notin {"use", "end"},
         p <= MaxLength, p + Len(open') - 1 <= Longest', UNCHANGED <<results, meant, pc, emission>>,
         Now(M)', Declared(M)', home' \in [Ids -> Nat],
         \A v \in 1..MaxLength : home'[v] = home[v] \/ (v = p /\ home'[v] = Inner(L).fn)
  PROVE  \E k : ReadInv(k)'
<1>1. AnalysisTyped /\ Frees /\ Unread
  BY DEF ReadInv
<1>2. p \in Nat \ {0} /\ Len(program) = p - 1 /\ program \in Seq(Constructs) /\ MaxLength \in Nat
  BY Here, ScopesAssumption
<1>3. Len(program') = p /\ program'[p] = c
  BY <1>2
<1>4. UNCHANGED <<free, upvalues, boxed, outer, counted, meant>> /\ UNCHANGED <<pc, emission>>
  BY DEF results
<1>5. AnalysisTyped'
  BY <1>1, <1>3, <1>4 DEF AnalysisTyped
<1>6. Frees'
  BY <1>1, <1>4 DEF Frees
<1>7. p \in 1..MaxLength /\ \A v \in 1..(p - 1) : v \in 1..MaxLength /\ v # p
  BY <1>2
<1>8. Remembered(h, p)
  BY <1>4, <1>7 DEF Remembered
<1>9. \A f \in p..MaxLength :
        /\ free[f] = {} /\ upvalues[f] = <<>> /\ meant[f] = 0 /\ home[f] = 0 /\ f \in 1..MaxLength
  BY <1>1, <1>2 DEF Unread
<1>10. \A f \in (p + 1)..MaxLength :
        free'[f] = {} /\ upvalues'[f] = <<>> /\ meant'[f] = 0 /\ home'[f] = 0
  <2>1. \A f \in (p + 1)..MaxLength : f \in p..MaxLength /\ f # p
    BY <1>2
  <2> QED
    BY <1>4, <1>9, <2>1
<1>11. p \in p..MaxLength
  BY <1>2
<1>12. home'[p] # 0 => home'[p] = (IF Made(c.op) THEN p ELSE Inner(L).fn)
  BY <1>7, <1>9, <1>11
<1>13. Fact(L, p)'
  BY <1>3, <1>4, <1>9, <1>11 DEF Fact, Made
<1> QED
  BY <1>4, <1>5, <1>6, <1>8, <1>10, <1>12, <1>13, ReadOn

\* The blocks are as before.
LEMMA NowStays ==
  ASSUME NEW L, Now(L), Declared(L), UNCHANGED <<open, env>>
  PROVE  Now(L)' /\ Declared(L)'
BY DEF Now, Declared

\* A use of the named function.
LEMMA CallRead ==
  ASSUME NEW h, ReadInv(h), ReadCall
  PROVE  \E k : ReadInv(k)'
<1>1. PICK p : p = Pos
  OBVIOUS
<1>2. PICK L : L = h[p]
  OBVIOUS
<1>3. PICK c : c = [op |-> "call", name |-> "none"]
  OBVIOUS
<1>4. c \in Constructs /\ c.op = "call"
  BY <1>3 DEF Constructs, Ops
<1>5. /\ program' = Append(program, c) /\ Room(1)
      /\ UNCHANGED <<open, env, home, results, meant, pc, emission>>
  BY <1>3 DEF ReadCall, ReadPlain, Read
<1>6. /\ p \in Nat \ {0} /\ p = Len(program) + 1 /\ program \in Seq(Constructs)
      /\ Len(open) = Len(L) /\ Len(L) \in Nat /\ Len(L) >= 1 /\ Now(L) /\ Declared(L)
  BY <1>1, <1>2, Here
<1>7. p \in 1..MaxLength /\ p + Len(open) - 1 <= Longest'
  BY <1>4, <1>5, <1>6, RoomIs
<1>8. Now(L)' /\ Declared(L)'
  BY <1>5, <1>6, NowStays
<1>9. Moves(L, L, c, p)
  BY <1>4 DEF Moves
<1>10. home' \in [Ids -> Nat] /\ UNCHANGED <<results, meant, pc, emission>>
  BY <1>5 DEF ReadInv, AnalysisTyped
<1>11. ~Made(c.op) /\ c.op \notin {"use", "end"} /\ ~Naming(c.op)
  BY <1>4 DEF Made, Naming
<1>12. p <= MaxLength /\ p + Len(open') - 1 <= Longest'
  BY <1>5, <1>7
<1> QED
  BY <1>1, <1>2, <1>4, <1>5, <1>8, <1>9, <1>10, <1>11, <1>12, ReadQuietly

\* A name read or assigned.
LEMMA UseRead ==
  ASSUME NEW h, ReadInv(h), NEW n \in Names, ReadUse(n)
  PROVE  \E k : ReadInv(k)'
<1>1. PICK p : p = Pos
  OBVIOUS
<1>2. PICK L : L = h[p]
  OBVIOUS
<1>3. PICK c : c = [op |-> "use", name |-> n]
  OBVIOUS
<1>4. c \in Constructs /\ c.op = "use" /\ c.name = n
  BY <1>3 DEF Constructs, Ops
<1>5. /\ program' = Append(program, c) /\ Room(1) /\ AnalyzeUse(n)
      /\ "block" \in Extras \/ Fn = 0 \/ env[n] = 0 \/ home[env[n]] # 0
      /\ meant' = [meant EXCEPT ![p] = env[n]]
      /\ UNCHANGED <<open, env, home, outer, counted, pc, emission>>
  BY <1>1, <1>3 DEF ReadUse, Read
<1>6. /\ p \in Nat \ {0} /\ p = Len(program) + 1 /\ program \in Seq(Constructs)
      /\ Len(open) = Len(L) /\ Len(L) \in Nat /\ Len(L) >= 1 /\ Now(L) /\ Declared(L)
      /\ Fn = Inner(L).fn /\ Fn \in Nat /\ Fn < p
      /\ env = Inner(L).env /\ env \in [Names -> Nat]
  BY <1>1, <1>2, Here
<1>7. p \in 1..MaxLength /\ p + Len(open) - 1 <= Longest'
  BY <1>4, <1>5, <1>6, RoomIs
<1>8. Now(L)' /\ Declared(L)'
  BY <1>5, <1>6, NowStays
<1>9. Moves(L, L, c, p)
  BY <1>4 DEF Moves
<1>10. /\ AnalysisTyped /\ Frees /\ Unread /\ MaxLength \in Nat
  BY ScopesAssumption DEF ReadInv
<1>11. \A q \in 1..(p - 1) : program'[q] = program[q]
  BY <1>5, <1>6
<1>12. Len(program') = p /\ program'[p] = c
  BY <1>5, <1>6
<1>13. /\ free' \in [Ids -> SUBSET Names] /\ upvalues' \in [Ids -> Seq(Names)]
       /\ boxed' \in [Ids -> SUBSET Names]
       /\ \A g \in Ids : /\ boxed[g] \subseteq boxed'[g]
                         /\ ToSet(upvalues[g]) \subseteq ToSet(upvalues'[g])
                         /\ free'[g] \subseteq free[g] \cup (IF g = Fn THEN {n} ELSE {})
       /\ \A g \in p..MaxLength : free'[g] = free[g] /\ upvalues'[g] = upvalues[g]
       /\ \A f \in Ids : \A u \in ToSet(upvalues'[f]) :
            u \in ToSet(upvalues[f]) \/ (f # 0 /\ Passes(h[f], program[f].name, f, u)')
       /\ "block" \notin Extras /\ Fn # 0 /\ outer[Fn][n] # 0
            /\ (env[n] = outer[Fn][n] \/ n \in free'[Fn])
          => n \in ToSet(upvalues'[Fn])
  <2>1. p <= MaxLength /\ outer' = outer
    BY <1>5, <1>7
  <2>2. Analyzed(h, p, n)
    BY <1>1, <1>2, <1>5, <1>11, <2>1, UseAnalyzed
  <2> QED
    BY <2>2 DEF Analyzed
<1>14. /\ meant' \in [1..MaxLength -> Nat] /\ meant'[p] = env[n]
       /\ \A q \in 1..MaxLength : q # p => meant'[q] = meant[q]
  BY <1>5, <1>6, <1>7, <1>10 DEF AnalysisTyped
<1>15. AnalysisTyped'
  <2>1. home' \in [Ids -> Nat] /\ outer' \in [Ids -> [Names -> Nat]] /\ counted' \in [Ids -> Nat]
    BY <1>5, <1>10 DEF AnalysisTyped
  <2>2. Len(program') <= MaxLength
    BY <1>7, <1>12
  <2> QED
    BY <1>13, <1>14, <2>1, <2>2 DEF AnalysisTyped
<1>16. Frees'
  <2> SUFFICES ASSUME NEW g \in 1..MaxLength, NEW m \in Names,
                      "block" \notin Extras, m \in free'[g], outer[g][m] # 0
               PROVE  m \in ToSet(upvalues'[g])
    BY <1>5 DEF Frees
  <2>1. g \in Ids
    BY <1>10 DEF Ids
  <2>2. CASE m \in free[g]
    BY <1>10, <1>13, <2>1, <2>2 DEF Frees
  <2>3. CASE m \notin free[g]
    <3>1. g = Fn /\ m = n
      BY <1>13, <2>1, <2>3
    <3> QED
      BY <1>13, <3>1
  <2> QED
    BY <2>2, <2>3
<1>17. Remembered(h, p)
  <2>1. \A g \in 0..(p - 1) : g \in Ids
    BY <1>6, <1>7, <1>10 DEF Ids
  <2>2. \A q \in 1..(p - 1) : q \in 1..MaxLength /\ q # p /\ q \in Ids
    BY <1>6, <1>7, <1>10 DEF Ids
  <2> QED
    BY <1>5, <1>13, <1>14, <2>1, <2>2 DEF Remembered
<1>18. Fact(L, p)'
  <2>1. UseFact(L, n, p)'
    <3>1. outer'[Fn] = outer[Fn] /\ Inner(L).fn = Fn /\ Inner(L).env[n] = env[n]
      BY <1>5, <1>6
    <3> QED
      BY <1>13, <1>14, <3>1 DEF UseFact
  <2> QED
    BY <1>4, <1>12, <2>1 DEF Fact, Made
<1>19. \A f \in p..MaxLength :
         /\ free[f] = {} /\ upvalues[f] = <<>> /\ meant[f] = 0 /\ home[f] = 0 /\ f \in 1..MaxLength
  BY <1>1, <1>6, <1>10 DEF Unread
<1>20. \A f \in (p + 1)..MaxLength :
         free'[f] = {} /\ upvalues'[f] = <<>> /\ meant'[f] = 0 /\ home'[f] = 0
  <2>1. \A f \in (p + 1)..MaxLength : f \in p..MaxLength /\ f # p
    BY <1>6
  <2> QED
    BY <1>5, <1>13, <1>14, <1>19, <2>1
<1>21. home'[p] = 0
  <2>1. p \in p..MaxLength
    BY <1>7
  <2> QED
    BY <1>5, <1>19, <2>1
<1>22. p <= MaxLength /\ p + Len(open') - 1 <= Longest' /\ UNCHANGED <<pc, emission>>
  BY <1>5, <1>7
<1> QED
  BY <1>1, <1>2, <1>4, <1>5, <1>8, <1>9, <1>15, <1>16, <1>17, <1>18, <1>20, <1>21, <1>22, ReadOn

\* Block e is level d, and o are the levels L.
Matches(e, d) ==
  /\ e.op = d.op /\ e.fn = d.fn /\ e.first = d.first /\ e.count = d.count /\ e.then = d.then
  /\ d.fn # 0 => e.bound = {n \in Names : d.env[n] >= d.fn}
Opens(o, L) ==
  /\ o \in Seq(Blocks) /\ Len(o) = Len(L)
  /\ \A j \in 1..Len(L) : Matches(o[j], L[j]) /\ (j > 1 => o[j].env = L[j - 1].env)

\* What is open now, put in one formula.
LEMMA NowIs ==
  ASSUME NEW L
  PROVE  Now(L) /\ Declared(L) <=> Opens(open, L) /\ env = Inner(L).env
BY DEF Now, Declared, Opens, Matches

\* Another inner block for another inner level,
LEMMA OpensChanged ==
  ASSUME NEW o, NEW L \in Seq(Levels), Len(L) >= 1, Opens(o, L), NEW d \in Levels, NEW e \in Blocks,
         Matches(e, d), e.env = o[Len(L)].env
  PROVE  Opens([o EXCEPT ![Len(L)] = e], WithInner(L, d))
<1> DEFINE o2 == [o EXCEPT ![Len(L)] = e]
           n == Len(L)
           M == WithInner(L, d)
<1>1. /\ M \in Seq(Levels) /\ Len(M) = n /\ M[n] = d /\ \A j \in 1..(n - 1) : M[j] = L[j]
  BY WithInnerIs
<1>2. n \in Nat /\ n >= 1 /\ o \in Seq(Blocks) /\ Len(o) = n
  BY DEF Opens
<1>3. \A j \in 1..n : Matches(o[j], L[j]) /\ (j > 1 => o[j].env = L[j - 1].env)
  BY DEF Opens
<1>4. o2 \in Seq(Blocks) /\ Len(o2) = n /\ o2[n] = e /\ \A j \in 1..(n - 1) : o2[j] = o[j]
  BY <1>2
<1>5. e.env = o[n].env
  OBVIOUS
<1> HIDE DEF o2, n, M
<1> SUFFICES ASSUME NEW j \in 1..n
             PROVE  Matches(o2[j], M[j]) /\ (j > 1 => o2[j].env = M[j - 1].env)
  BY <1>1, <1>4 DEF Opens, o2, M, n
<1>6. j > 1 => M[j - 1] = L[j - 1]
  BY <1>1, <1>2
<1>7. CASE j = n
  <2>1. o2[j] = e /\ M[j] = d
    BY <1>1, <1>4, <1>7
  <2>2. j > 1 => o[j].env = L[j - 1].env
    BY <1>3
  <2> QED
    BY <1>5, <1>6, <1>7, <2>1, <2>2
<1>8. CASE j # n
  <2>1. o2[j] = o[j] /\ M[j] = L[j]
    BY <1>1, <1>2, <1>4, <1>8
  <2>2. Matches(o[j], L[j]) /\ (j > 1 => o[j].env = L[j - 1].env)
    BY <1>3
  <2> QED
    BY <1>6, <2>1, <2>2
<1> QED
  BY <1>7, <1>8

\* one block more for one level more,
LEMMA OpensAdded ==
  ASSUME NEW o, NEW L \in Seq(Levels), Len(L) >= 1, Opens(o, L), NEW d \in Levels, NEW e \in Blocks,
         Matches(e, d), e.env = Inner(L).env
  PROVE  Opens(Append(o, e), Append(L, d))
<1> DEFINE o2 == Append(o, e)
           n == Len(L)
           M == Append(L, d)
<1>1. /\ M \in Seq(Levels) /\ Len(M) = n + 1 /\ M[n + 1] = d /\ \A j \in 1..n : M[j] = L[j]
  OBVIOUS
<1>2. n \in Nat /\ n >= 1 /\ o \in Seq(Blocks) /\ Len(o) = n /\ Inner(L) = L[n]
  BY DEF Opens, Inner
<1>3. \A j \in 1..n : Matches(o[j], L[j]) /\ (j > 1 => o[j].env = L[j - 1].env)
  BY DEF Opens
<1>4. o2 \in Seq(Blocks) /\ Len(o2) = n + 1 /\ o2[n + 1] = e /\ \A j \in 1..n : o2[j] = o[j]
  BY <1>2
<1> HIDE DEF o2, n, M
<1> SUFFICES ASSUME NEW j \in 1..(n + 1)
             PROVE  Matches(o2[j], M[j]) /\ (j > 1 => o2[j].env = M[j - 1].env)
  BY <1>1, <1>4 DEF Opens, o2, M
<1>6. j > 1 => M[j - 1] = L[j - 1]
  BY <1>1, <1>2
<1>7. CASE j = n + 1
  <2>1. o2[j] = e /\ M[j] = d /\ L[j - 1] = Inner(L)
    BY <1>1, <1>2, <1>4, <1>7
  <2> QED
    BY <1>6, <2>1
<1>8. CASE j # n + 1
  <2>1. o2[j] = o[j] /\ M[j] = L[j] /\ j \in 1..n
    BY <1>1, <1>2, <1>4, <1>8
  <2>2. Matches(o[j], L[j]) /\ (j > 1 => o[j].env = L[j - 1].env)
    BY <1>3, <2>1
  <2> QED
    BY <1>6, <2>1, <2>2
<1> QED
  BY <1>7, <1>8

\* and the inner ones left off.
LEMMA OpensRest ==
  ASSUME NEW o, NEW L \in Seq(Levels), Len(L) > 1, Opens(o, L)
  PROVE  Opens(SubSeq(o, 1, Len(L) - 1), SubSeq(L, 1, Len(L) - 1))
<1> DEFINE n == Len(L) - 1
           o2 == SubSeq(o, 1, n)
           M == SubSeq(L, 1, n)
<1>1. /\ M \in Seq(Levels) /\ Len(M) = n /\ \A j \in 1..n : M[j] = L[j]
  BY RestIs
<1>2. n \in Nat /\ n >= 1 /\ o \in Seq(Blocks) /\ Len(o) = n + 1
  BY DEF Opens
<1>3. o2 \in Seq(Blocks) /\ Len(o2) = n /\ \A j \in 1..n : o2[j] = o[j]
  BY <1>2
<1>4. \A j \in 1..n : Matches(o[j], L[j]) /\ (j > 1 => o[j].env = L[j - 1].env)
  BY DEF Opens
<1> HIDE DEF o2, n, M
<1>5. \A j \in 1..n : j > 1 => M[j - 1] = L[j - 1]
  BY <1>1, <1>2
<1> QED
  BY <1>1, <1>3, <1>4, <1>5 DEF Opens, o2, M, n

\* What the innermost block is.
LEMMA TopIs ==
  ASSUME NEW h, ReadInv(h), NEW p, p = Pos, NEW L, L = h[p]
  PROVE  /\ Opens(open, L) /\ Top \in Blocks /\ Matches(Top, Inner(L)) /\ Top = open[Len(open)]
         /\ Top.op \in {"file"} \cup Opened /\ Top.fn \in Nat /\ Top.bound \in SUBSET Names
         /\ Top.env \in [Names -> Nat] /\ Top.count \in Nat /\ Top.then \in Nat /\ Top.first \in Nat
         /\ Len(L) > 1 => Top.env = Within(L).env
         /\ DOMAIN Top = {"op", "fn", "bound", "env", "count", "then", "first"}
<1>1. /\ Now(L) /\ Declared(L) /\ Len(L) \in Nat /\ Len(L) >= 1 /\ Len(open) = Len(L)
      /\ open \in Seq(Blocks) /\ Top = open[Len(L)] /\ Inner(L) = L[Len(L)]
  BY Here
<1>2. Opens(open, L)
  BY <1>1, NowIs
<1>3. Len(L) \in 1..Len(L) /\ Top \in Blocks
  BY <1>1
<1>4. Matches(Top, Inner(L)) /\ (Len(L) > 1 => Top.env = L[Len(L) - 1].env)
  BY <1>1, <1>2, <1>3 DEF Opens
<1> QED
  BY <1>1, <1>2, <1>3, <1>4 DEF Blocks, Within

\* A block opened here.
LEMMA BlockIs ==
  ASSUME NEW h, ReadInv(h), NEW op \in Opened, NEW fn \in Nat, NEW bound \in SUBSET Names
  PROVE  /\ Block(op, fn, bound) \in Blocks
         /\ Block(op, fn, bound).op = op /\ Block(op, fn, bound).fn = fn
         /\ Block(op, fn, bound).bound = bound /\ Block(op, fn, bound).env = env
         /\ Block(op, fn, bound).count = 0 /\ Block(op, fn, bound).then = 0
         /\ Block(op, fn, bound).first = Pos
<1>1. PICK p : p = Pos
  OBVIOUS
<1>2. p \in Nat /\ env \in [Names -> Nat]
  BY <1>1, Here
<1> QED
  BY <1>1, <1>2 DEF Block, Blocks

\* What the function binds at this point is with the inner block.
LEMMA BoundHere ==
  ASSUME NEW h, ReadInv(h)
  PROVE  Bound(Fn) = Top.bound
<1>1. PICK p : p = Pos
  OBVIOUS
<1>2. PICK L : L = h[p]
  OBVIOUS
<1> DEFINE N == Len(open)
           P(x) == open[x].fn = Fn /\ \A i \in DOMAIN open : open[i].fn = Fn => i <= x
<1>3. N \in Nat /\ N >= 1 /\ DOMAIN open = 1..N /\ Top = open[N]
  BY <1>1, <1>2, Here
<1>4. N \in DOMAIN open /\ P(N)
  BY <1>3 DEF Fn
<1>5. \A x \in DOMAIN open : P(x) => x = N
  <2> SUFFICES ASSUME NEW x \in DOMAIN open, P(x) PROVE x = N
    OBVIOUS
  <2>1. x \in 1..N /\ N <= x
    BY <1>3, <1>4
  <2> QED
    BY <1>3, <2>1
<1> HIDE DEF P
<1>6. (CHOOSE x \in DOMAIN open : P(x)) = N
  BY <1>4, <1>5
<1> QED
  BY <1>3, <1>6 DEF Bound, P

\* A variable declared.
LEMMA DeclareIs ==
  ASSUME NEW h, ReadInv(h), NEW p, p = Pos, NEW n \in Names, NEW v \in {0, p}, Declare(n, v),
         p <= MaxLength
  PROVE  /\ env' = Bind(env, n, v) /\ home' \in [Ids -> Nat]
         /\ \A i \in 1..MaxLength : home'[i] = home[i] \/ (i = p /\ home'[i] = Fn)
<1>1. /\ env \in [Names -> Nat] /\ home \in [Ids -> Nat] /\ MaxLength \in Nat
      /\ p \in Nat \ {0} /\ Fn \in Nat
  BY Here, ScopesAssumption DEF ReadInv, AnalysisTyped
<1>2. v \in Ids /\ v \in Nat
  BY <1>1 DEF Ids
<1>3. env' = [env EXCEPT ![n] = v] /\ home' = [home EXCEPT ![v] = Fn]
  BY DEF Declare
<1>4. env' = Bind(env, n, v)
  BY <1>1, <1>3 DEF Bind
<1>5. home' \in [Ids -> Nat]
  BY <1>1, <1>2, <1>3
<1>6. \A i \in 1..MaxLength : i \in Ids /\ i # 0
  BY <1>1 DEF Ids
<1> QED
  BY <1>1, <1>3, <1>4, <1>5, <1>6

\* `local n`.
LEMMA LocalRead ==
  ASSUME NEW h, ReadInv(h), NEW n \in Names, ReadLocal(n)
  PROVE  \E k : ReadInv(k)'
<1>1. PICK p : p = Pos
  OBVIOUS
<1>2. PICK L : L = h[p]
  OBVIOUS
<1>3. PICK c : c = [op |-> "local", name |-> n]
  OBVIOUS
<1>4. c \in Constructs /\ c.op = "local" /\ c.name = n
  BY <1>3 DEF Constructs, Ops
<1> DEFINE N == Len(open)
           b == Inner(L)
           v == IF N = 1 THEN 0 ELSE p
<1>0. PICK e : e = [op |-> Top.op, fn |-> Top.fn, bound |-> Top.bound \cup {n}, env |-> Top.env,
                    count |-> Top.count + 1, then |-> Top.then, first |-> Top.first]
  OBVIOUS
<1>5. /\ program' = Append(program, c) /\ Room(1) /\ Declare(n, v)
      /\ open' = [open EXCEPT ![N].bound = @ \cup {n}, ![N].count = @ + 1]
      /\ UNCHANGED <<results, meant, pc, emission>>
  BY <1>1, <1>3 DEF ReadLocal, Read
<1>6. /\ p \in Nat \ {0} /\ p = Len(program) + 1 /\ program \in Seq(Constructs)
      /\ Good(program, h, L, p) /\ L \in Seq(Levels)
      /\ N = Len(L) /\ Len(L) \in Nat /\ Len(L) >= 1 /\ b \in Levels /\ b = L[N]
      /\ Fn = b.fn /\ Fn \in Nat /\ Fn < p
      /\ env = b.env /\ env \in [Names -> Nat] /\ open \in Seq(Blocks)
  BY <1>1, <1>2, Here
<1>7. /\ Opens(open, L) /\ Matches(Top, b) /\ Top = open[N]
      /\ Top.op \in {"file"} \cup Opened /\ Top.fn \in Nat /\ Top.bound \in SUBSET Names
      /\ Top.env \in [Names -> Nat] /\ Top.count \in Nat /\ Top.then \in Nat /\ Top.first \in Nat
      /\ Top \in Blocks
  BY <1>1, <1>2, TopIs
<1> HIDE DEF b
<1>8. p \in 1..MaxLength /\ p + Len(open) - 1 <= Longest'
  <2>1. /\ Len(open) \in Nat /\ Len(open) >= 1 /\ p \in Nat /\ p = Len(program) + 1
        /\ program \in Seq(Constructs)
    BY <1>6
  <2>2. program' = Append(program, c) /\ Room(1)
    BY <1>5
  <2> QED
    BY <1>4, <2>1, <2>2, RoomIs
<1>9. /\ env' = Bind(env, n, v) /\ home' \in [Ids -> Nat]
      /\ \A i \in 1..MaxLength : home'[i] = home[i] \/ (i = p /\ home'[i] = Fn)
  BY <1>1, <1>5, <1>8, DeclareIs
<1>10. PICK d : d = Level(b.op, b.fn, b.first, Bind(b.env, n, v), b.count + 1, b.then, b.base)
  OBVIOUS
<1>11. /\ d.op = b.op /\ d.fn = b.fn /\ d.first = b.first /\ d.env = Bind(b.env, n, v)
       /\ d.count = b.count + 1 /\ d.then = b.then /\ d.base = b.base
  BY <1>10 DEF Level
<1>12. d \in Levels
  <2>1. /\ b.op \in {"file"} \cup Opened /\ b.fn \in Nat /\ b.first \in Nat
        /\ b.count + 1 \in Nat /\ b.then \in Nat /\ b.base \in Nat
    BY <1>6, LevelHas
  <2>2. Bind(b.env, n, v) \in [Names -> Nat]
    BY <1>6 DEF Bind
  <2> QED
    BY <1>10, <2>1, <2>2 DEF Level, Levels
<1>13. PICK M : M = WithInner(L, d)
  OBVIOUS
<1>14. M \in Seq(Levels) /\ Len(M) = N /\ Inner(M) = d
  BY <1>6, <1>12, <1>13, WithInnerIs
<1>15. Moves(L, M, c, p)
  BY <1>4, <1>6, <1>10, <1>13 DEF Moves, MovesLocal, b
<1>16. /\ e \in Blocks /\ e.op = Top.op /\ e.fn = Top.fn /\ e.bound = Top.bound \cup {n}
       /\ e.env = Top.env /\ e.count = Top.count + 1 /\ e.then = Top.then /\ e.first = Top.first
  BY <1>0, <1>7 DEF Blocks
<1>17. open' = [open EXCEPT ![N] = e]
  <2>1. [[Top EXCEPT !.bound = @ \cup {n}] EXCEPT !.count = @ + 1] = e
    <3>1. PICK f : f = [op |-> Top.op, fn |-> Top.fn, bound |-> Top.bound \cup {n},
                        env |-> Top.env, count |-> Top.count, then |-> Top.then,
                        first |-> Top.first]
      OBVIOUS
    <3>2. Top = [op |-> Top.op, fn |-> Top.fn, bound |-> Top.bound, env |-> Top.env,
                 count |-> Top.count, then |-> Top.then, first |-> Top.first]
      BY <1>7 DEF Blocks
    <3>3. [Top EXCEPT !.bound = @ \cup {n}] = f
      BY <3>1, <3>2
    <3>4. [f EXCEPT !.count = @ + 1] = e
      BY <1>0, <3>1
    <3> QED
      BY <3>3, <3>4
  <2>2. N \in DOMAIN open
    BY <1>6
  <2> QED
    BY <1>5, <1>6, <1>7, <2>1, <2>2
<1>18. Matches(e, d)
  <2>1. d.fn # 0 => e.bound = {m \in Names : d.env[m] >= d.fn}
    <3> SUFFICES ASSUME b.fn # 0
                 PROVE  Top.bound \cup {n} = {m \in Names : Bind(b.env, n, v)[m] >= b.fn}
      BY <1>11, <1>16
    <3>1. Top.bound = {m \in Names : b.env[m] >= b.fn}
      BY <1>7 DEF Matches
    <3>2. N # 1
      BY <1>6 DEF Good, GoodFirst
    <3>3. v = p /\ p >= b.fn
      BY <1>6, <3>2
    <3> QED
      BY <3>1, <3>3 DEF Bind
  <2> QED
    BY <1>7, <1>11, <1>16, <2>1 DEF Matches
<1>19. Opens(open', M)
  <2>1. e.env = open[Len(L)].env
    BY <1>6, <1>7, <1>16
  <2>2. Opens([open EXCEPT ![Len(L)] = e], WithInner(L, d))
    BY <1>6, <1>7, <1>12, <1>16, <1>18, <2>1, OpensChanged
  <2> QED
    BY <1>6, <1>13, <1>17, <2>2
<1>20. Now(M)' /\ Declared(M)'
  <2>1. env' = Inner(M).env
    BY <1>6, <1>9, <1>11, <1>14
  <2> QED
    BY <1>19, <2>1 DEF Now, Declared, Opens, Matches
<1>21. Len(open') = N
  BY <1>6, <1>17
<1>22. ~Made(c.op) /\ c.op \notin {"use", "end"} /\ p <= MaxLength /\ p + Len(open') - 1 <= Longest'
  BY <1>4, <1>8, <1>21 DEF Made
<1>23. \A i \in 1..MaxLength : home'[i] = home[i] \/ (i = p /\ home'[i] = Inner(L).fn)
  BY <1>6, <1>9 DEF b
<1> QED
  BY <1>1, <1>2, <1>4, <1>5, <1>9, <1>15, <1>20, <1>22, <1>23, ReadQuietly

\* What is open after a construct was read.
LEMMA OpeningIs ==
  ASSUME NEW M, Opens(open', M), env' = Inner(M).env
  PROVE  Now(M)' /\ Declared(M)'
BY DEF Now, Declared, Opens, Matches

\* An if.
LEMMA BlockRead ==
  ASSUME NEW h, ReadInv(h), ReadBlock
  PROVE  \E k : ReadInv(k)'
<1>1. PICK p : p = Pos
  OBVIOUS
<1>2. PICK L : L = h[p]
  OBVIOUS
<1>3. PICK c : c = [op |-> "if", name |-> "none"]
  OBVIOUS
<1>4. c \in Constructs /\ c.op = "if"
  BY <1>3 DEF Constructs, Ops
<1>5. PICK b : b = Inner(L)
  OBVIOUS
<1>6. PICK e : e = Block("if", Fn, Bound(Fn))
  OBVIOUS
<1>7. /\ program' = Append(program, c) /\ Room(2) /\ open' = Append(open, e)
      /\ UNCHANGED <<env, home, results, meant, pc, emission>>
  BY <1>3, <1>6 DEF ReadBlock, ReadPlain, Read
<1>8. /\ p \in Nat \ {0} /\ p = Len(program) + 1 /\ program \in Seq(Constructs)
      /\ L \in Seq(Levels) /\ Len(L) \in Nat /\ Len(L) >= 1 /\ Len(open) = Len(L)
      /\ Fn = b.fn /\ Fn \in Nat /\ env = b.env /\ env \in [Names -> Nat] /\ open \in Seq(Blocks)
      /\ b \in Levels
  BY <1>1, <1>2, <1>5, Here
<1>9. Opens(open, L) /\ Matches(Top, b) /\ Top.bound \in SUBSET Names
  BY <1>1, <1>2, <1>5, TopIs
<1>10. p \in 1..MaxLength /\ p + Len(open) <= Longest'
  <2>1. Len(open) \in Nat /\ Len(open) >= 1 /\ p \in Nat /\ p = Len(program) + 1
    BY <1>8
  <2>2. program \in Seq(Constructs) /\ program' = Append(program, c) /\ Room(2)
    BY <1>7, <1>8
  <2>3. p \in 1..MaxLength /\ p + Len(open) - 2 + 2 <= Longest'
    BY <1>4, <2>1, <2>2, RoomIs
  <2> QED
    BY <2>1, <2>3
<1>11. /\ e \in Blocks /\ e.op = "if" /\ e.fn = Fn /\ e.bound = Top.bound /\ e.env = env
       /\ e.count = 0 /\ e.then = 0 /\ e.first = p
  <2>1. "if" \in Opened /\ Bound(Fn) = Top.bound
    BY BoundHere DEF Opened
  <2> QED
    BY <1>1, <1>6, <1>8, <1>9, <2>1, BlockIs
<1>12. PICK d : d = Level("if", b.fn, p, b.env, 0, 0, b.base + b.count)
  OBVIOUS
<1>13. d \in Levels
  <2>1. b.fn \in Nat /\ b.env \in [Names -> Nat] /\ b.base + b.count \in Nat /\ p \in Nat
    BY <1>8, LevelHas
  <2> QED
    BY <1>12, <2>1 DEF Level, Levels, Opened
<1>14. /\ d.op = "if" /\ d.fn = b.fn /\ d.first = p /\ d.env = b.env /\ d.count = 0 /\ d.then = 0
  BY <1>12 DEF Level
<1>15. PICK M : M = Append(L, d)
  OBVIOUS
<1>16. Moves(L, M, c, p)
  BY <1>4, <1>5, <1>12, <1>15 DEF Moves, MovesBlock
<1>17. Matches(e, d)
  BY <1>8, <1>9, <1>11, <1>14 DEF Matches
<1>18. Opens(open', M)
  BY <1>5, <1>7, <1>8, <1>9, <1>11, <1>13, <1>15, <1>17, OpensAdded
<1>19. env' = Inner(M).env
  BY <1>7, <1>8, <1>13, <1>14, <1>15, AppendIs
<1>20. Now(M)' /\ Declared(M)'
  BY <1>18, <1>19, OpeningIs
<1>21. ~Made(c.op) /\ c.op \notin {"use", "end"} /\ ~Naming(c.op) /\ p <= MaxLength
  BY <1>4, <1>10 DEF Made, Naming
<1>22. p + Len(open') - 1 <= Longest'
  <2>1. Len(open') = Len(open) + 1
    BY <1>7, <1>8
  <2> QED
    BY <1>8, <1>10, <2>1
<1>23. home' \in [Ids -> Nat] /\ UNCHANGED <<results, meant, pc, emission>> /\ home' = home
  BY <1>7 DEF ReadInv, AnalysisTyped
<1> QED
  BY <1>1, <1>2, <1>4, <1>7, <1>16, <1>20, <1>21, <1>22, <1>23, ReadQuietly

\* An else: its block begins as the one outside of it was when the if began.
LEMMA ElseRead ==
  ASSUME NEW h, ReadInv(h), ReadElse
  PROVE  \E k : ReadInv(k)'
<1>1. PICK p : p = Pos
  OBVIOUS
<1>2. PICK L : L = h[p]
  OBVIOUS
<1>3. PICK c : c = [op |-> "else", name |-> "none"]
  OBVIOUS
<1>4. c \in Constructs /\ c.op = "else"
  BY <1>3 DEF Constructs, Ops
<1>5. PICK b : b = Inner(L)
  OBVIOUS
<1>6. PICK e : e = [op |-> "else", fn |-> Top.fn, bound |-> open[Len(open) - 1].bound,
                    env |-> Top.env, count |-> 0, then |-> Top.count, first |-> Top.first]
  OBVIOUS
<1>7. /\ program' = Append(program, c) /\ Room(1) /\ Top.op = "if" /\ env' = Top.env
      /\ open' = [open EXCEPT ![Len(open)].op = "else",
                              ![Len(open)].bound = open[Len(open) - 1].bound,
                              ![Len(open)].then = Top.count,
                              ![Len(open)].count = 0]
      /\ UNCHANGED <<home, results, meant, pc, emission>>
  BY <1>3 DEF ReadElse, ReadPlain, Read
<1>8. /\ p \in Nat \ {0} /\ p = Len(program) + 1 /\ program \in Seq(Constructs)
      /\ Good(program, h, L, p)
      /\ L \in Seq(Levels) /\ Len(L) \in Nat /\ Len(L) >= 1 /\ Len(open) = Len(L)
      /\ Fn = b.fn /\ Fn \in Nat /\ open \in Seq(Blocks) /\ b = L[Len(L)] /\ Top.op = b.op
      /\ b \in Levels /\ Top.count = b.count
  BY <1>1, <1>2, <1>5, Here
<1>9. /\ Opens(open, L) /\ Matches(Top, b) /\ Top = open[Len(open)] /\ Top \in Blocks
      /\ Top.op \in {"file"} \cup Opened /\ Top.fn \in Nat /\ Top.bound \in SUBSET Names
      /\ Top.env \in [Names -> Nat] /\ Top.count \in Nat /\ Top.then \in Nat /\ Top.first \in Nat
      /\ Len(L) > 1 => Top.env = Within(L).env
  BY <1>1, <1>2, <1>5, TopIs
<1>10. Len(L) > 1
  BY <1>7, <1>8 DEF Good, GoodFirst
<1>11. /\ Within(L) = L[Len(L) - 1] /\ Len(L) - 1 \in 1..Len(L) /\ Within(L) \in Levels
       /\ b.fn = Within(L).fn /\ Matches(open[Len(L) - 1], Within(L))
       /\ open[Len(L) - 1] \in Blocks
  <2>1. Len(L) - 1 \in 1..Len(L) /\ Len(L) \in 2..Len(L)
    BY <1>8, <1>10
  <2>2. ~Made(b.op)
    BY <1>7, <1>8 DEF Made
  <2>3. b.fn = L[Len(L) - 1].fn
    BY <1>8, <2>1, <2>2 DEF Good, GoodBlock
  <2>4. Matches(open[Len(L) - 1], L[Len(L) - 1])
    BY <1>9, <2>1 DEF Opens
  <2> QED
    BY <1>8, <2>1, <2>3, <2>4 DEF Within
<1>12. /\ e \in Blocks /\ e.op = "else" /\ e.fn = Top.fn /\ e.bound = open[Len(L) - 1].bound
       /\ e.env = Top.env /\ e.count = 0 /\ e.then = Top.count /\ e.first = Top.first
  <2>1. open[Len(L) - 1].bound \in SUBSET Names
    BY <1>11 DEF Blocks
  <2> QED
    BY <1>6, <1>8, <1>9, <2>1 DEF Blocks, Opened
<1>13. open' = [open EXCEPT ![Len(L)] = e]
  <2>1. PICK B : B = open[Len(open) - 1].bound
    OBVIOUS
  <2>2. PICK f1 : f1 = [op |-> "else", fn |-> Top.fn, bound |-> Top.bound, env |-> Top.env,
                        count |-> Top.count, then |-> Top.then, first |-> Top.first]
    OBVIOUS
  <2>3. PICK f2 : f2 = [op |-> "else", fn |-> Top.fn, bound |-> B, env |-> Top.env,
                        count |-> Top.count, then |-> Top.then, first |-> Top.first]
    OBVIOUS
  <2>4. PICK f3 : f3 = [op |-> "else", fn |-> Top.fn, bound |-> B, env |-> Top.env,
                        count |-> Top.count, then |-> Top.count, first |-> Top.first]
    OBVIOUS
  <2>5. Top = [op |-> Top.op, fn |-> Top.fn, bound |-> Top.bound, env |-> Top.env,
               count |-> Top.count, then |-> Top.then, first |-> Top.first]
    BY <1>9 DEF Blocks
  <2>6. [Top EXCEPT !.op = "else"] = f1
    BY <2>2, <2>5
  <2>7. [f1 EXCEPT !.bound = B] = f2
    BY <2>2, <2>3
  <2>8. [f2 EXCEPT !.then = Top.count] = f3
    BY <2>3, <2>4
  <2>9. [f3 EXCEPT !.count = 0] = e
    BY <1>6, <2>1, <2>4
  <2>10. PICK o1 : o1 = [open EXCEPT ![Len(open)].op = "else"]
    OBVIOUS
  <2>11. PICK o2 : o2 = [o1 EXCEPT ![Len(open)].bound = B]
    OBVIOUS
  <2>12. PICK o3 : o3 = [o2 EXCEPT ![Len(open)].then = Top.count]
    OBVIOUS
  <2>13. Len(open) \in DOMAIN open
    BY <1>8
  <2>14. o1 = [open EXCEPT ![Len(open)] = f1] /\ o1[Len(open)] = f1
    BY <1>9, <2>6, <2>10, <2>13
  <2>15. o2 = [open EXCEPT ![Len(open)] = f2] /\ o2[Len(open)] = f2
    BY <2>7, <2>11, <2>13, <2>14
  <2>16. o3 = [open EXCEPT ![Len(open)] = f3] /\ o3[Len(open)] = f3
    BY <2>8, <2>12, <2>13, <2>15
  <2>17. open' = [o3 EXCEPT ![Len(open)].count = 0]
    BY <1>7, <2>1, <2>10, <2>11, <2>12
  <2> QED
    BY <1>8, <2>9, <2>13, <2>16, <2>17
<1>14. PICK d : d = Level("else", b.fn, b.first, Within(L).env, 0, b.count, b.base)
  OBVIOUS
<1>15. d \in Levels
  <2>1. /\ b.fn \in Nat /\ b.first \in Nat /\ Within(L).env \in [Names -> Nat] /\ b.count \in Nat
        /\ b.base \in Nat
    BY <1>8, <1>11, LevelHas
  <2> QED
    BY <1>14, <2>1 DEF Level, Levels, Opened
<1>16. /\ d.op = "else" /\ d.fn = b.fn /\ d.first = b.first /\ d.env = Within(L).env
       /\ d.count = 0 /\ d.then = b.count
  BY <1>14 DEF Level
<1>17. PICK M : M = WithInner(L, d)
  OBVIOUS
<1>18. Moves(L, M, c, p)
  BY <1>4, <1>5, <1>7, <1>8, <1>10, <1>14, <1>17 DEF Moves, MovesElse
<1>19. Matches(e, d)
  BY <1>9, <1>11, <1>12, <1>16 DEF Matches
<1>20. Opens(open', M)
  <2>1. e.env = open[Len(L)].env
    BY <1>8, <1>9, <1>12
  <2>2. Opens([open EXCEPT ![Len(L)] = e], WithInner(L, d))
    BY <1>8, <1>9, <1>12, <1>15, <1>19, <2>1, OpensChanged
  <2> QED
    BY <1>13, <1>17, <2>2
<1>21. env' = Inner(M).env
  BY <1>7, <1>8, <1>9, <1>10, <1>15, <1>16, <1>17, WithInnerIs
<1>22. Now(M)' /\ Declared(M)'
  BY <1>20, <1>21, OpeningIs
<1>23. p \in 1..MaxLength /\ p + Len(open) - 1 <= Longest'
  <2>1. Len(open) \in Nat /\ Len(open) >= 1 /\ p \in Nat /\ p = Len(program) + 1
    BY <1>8
  <2>2. program \in Seq(Constructs) /\ program' = Append(program, c) /\ Room(1)
    BY <1>7, <1>8
  <2> QED
    BY <1>4, <2>1, <2>2, RoomIs
<1>24. ~Made(c.op) /\ c.op \notin {"use", "end"} /\ ~Naming(c.op) /\ p <= MaxLength
  BY <1>4, <1>23 DEF Made, Naming
<1>25. p + Len(open') - 1 <= Longest'
  BY <1>8, <1>13, <1>23, SMTT(30)
<1>26. home' \in [Ids -> Nat] /\ UNCHANGED <<results, meant, pc, emission>> /\ home' = home
  BY <1>7 DEF ReadInv, AnalysisTyped
<1> QED
  BY <1>1, <1>2, <1>4, <1>7, <1>18, <1>22, <1>24, <1>25, <1>26, ReadQuietly

\* A numeric for.
LEMMA ForRead ==
  ASSUME NEW h, ReadInv(h), NEW n \in Names, ReadFor(n)
  PROVE  \E k : ReadInv(k)'
<1>1. PICK p : p = Pos
  OBVIOUS
<1>2. PICK L : L = h[p]
  OBVIOUS
<1>3. PICK c : c = [op |-> "for", name |-> n]
  OBVIOUS
<1>4. c \in Constructs /\ c.op = "for" /\ c.name = n
  BY <1>3 DEF Constructs, Ops
<1>5. PICK b : b = Inner(L)
  OBVIOUS
<1>6. PICK e : e = Block("for", Fn, Bound(Fn) \cup {n})
  OBVIOUS
<1>7. PICK e1 : e1 = [op |-> Top.op, fn |-> Top.fn, bound |-> Top.bound, env |-> Top.env,
                      count |-> Top.count + 4, then |-> Top.then, first |-> Top.first]
  OBVIOUS
<1>8. /\ program' = Append(program, c) /\ Room(2)
      /\ open' = Append([open EXCEPT ![Len(open)].count = @ + 4], e) /\ Declare(n, p)
      /\ UNCHANGED <<results, meant, pc, emission>>
  BY <1>1, <1>3, <1>6 DEF ReadFor, Read
<1>9. /\ p \in Nat \ {0} /\ p = Len(program) + 1 /\ program \in Seq(Constructs)
      /\ Good(program, h, L, p)
      /\ L \in Seq(Levels) /\ Len(L) \in Nat /\ Len(L) >= 1 /\ Len(open) = Len(L)
      /\ Fn = b.fn /\ Fn \in Nat /\ Fn < p
      /\ env = b.env /\ env \in [Names -> Nat] /\ open \in Seq(Blocks) /\ b \in Levels
  BY <1>1, <1>2, <1>5, Here
<1>10. /\ Opens(open, L) /\ Matches(Top, b) /\ Top = open[Len(open)] /\ Top \in Blocks
       /\ Top.op \in {"file"} \cup Opened /\ Top.fn \in Nat /\ Top.bound \in SUBSET Names
       /\ Top.env \in [Names -> Nat] /\ Top.count \in Nat /\ Top.then \in Nat /\ Top.first \in Nat
  BY <1>1, <1>2, <1>5, TopIs
<1>11. p \in 1..MaxLength /\ p + Len(open) <= Longest'
  <2>1. Len(open) \in Nat /\ Len(open) >= 1 /\ p \in Nat /\ p = Len(program) + 1
    BY <1>9
  <2>2. program \in Seq(Constructs) /\ program' = Append(program, c) /\ Room(2)
    BY <1>8, <1>9
  <2>3. p \in 1..MaxLength /\ p + Len(open) - 2 + 2 <= Longest'
    BY <1>4, <2>1, <2>2, RoomIs
  <2> QED
    BY <2>1, <2>3
<1>12. /\ env' = Bind(env, n, p) /\ home' \in [Ids -> Nat]
       /\ \A i \in 1..MaxLength : home'[i] = home[i] \/ (i = p /\ home'[i] = Fn)
  BY <1>1, <1>8, <1>11, DeclareIs
<1>13. /\ e1 \in Blocks /\ e1.op = Top.op /\ e1.fn = Top.fn /\ e1.bound = Top.bound
       /\ e1.env = Top.env /\ e1.count = Top.count + 4 /\ e1.then = Top.then
       /\ e1.first = Top.first
  BY <1>7, <1>10 DEF Blocks
<1>14. /\ e \in Blocks /\ e.op = "for" /\ e.fn = Fn /\ e.bound = Top.bound \cup {n} /\ e.env = env
       /\ e.count = 0 /\ e.then = 0 /\ e.first = p
  <2>1. "for" \in Opened /\ Bound(Fn) \cup {n} = Top.bound \cup {n}
    BY BoundHere DEF Opened
  <2>2. Top.bound \cup {n} \in SUBSET Names
    BY <1>10
  <2> QED
    BY <1>1, <1>6, <1>9, <2>1, <2>2, BlockIs, SMTT(30)
<1>15. PICK d1 : d1 = Counting(b, 4)
  OBVIOUS
<1>16. PICK d : d = Level("for", b.fn, p, Bind(b.env, n, p), 0, 0, b.base + b.count + 4)
  OBVIOUS
<1>17. /\ b.op \in {"file"} \cup Opened /\ b.fn \in Nat /\ b.first \in Nat
       /\ b.env \in [Names -> Nat] /\ b.count \in Nat /\ b.then \in Nat /\ b.base \in Nat
  BY <1>9, LevelHas
<1>18. /\ d1 \in Levels /\ d1.op = b.op /\ d1.fn = b.fn /\ d1.first = b.first /\ d1.env = b.env
       /\ d1.count = b.count + 4 /\ d1.then = b.then
  BY <1>15, <1>17 DEF Counting, Level, Levels
<1>19. /\ d \in Levels /\ d.op = "for" /\ d.fn = b.fn /\ d.first = p /\ d.env = Bind(b.env, n, p)
       /\ d.count = 0 /\ d.then = 0
  <2>1. Bind(b.env, n, p) \in [Names -> Nat]
    BY <1>9, <1>17 DEF Bind
  <2>2. b.base + b.count + 4 \in Nat
    BY <1>17
  <2> QED
    BY <1>9, <1>16, <1>17, <2>1, <2>2 DEF Level, Levels, Opened
<1>20. PICK M1 : M1 = WithInner(L, d1)
  OBVIOUS
<1>21. PICK M : M = Append(M1, d)
  OBVIOUS
<1>22. M1 \in Seq(Levels) /\ Len(M1) = Len(L) /\ Inner(M1) = d1
  BY <1>9, <1>18, <1>20, WithInnerIs
<1>23. Moves(L, M, c, p)
  BY <1>4, <1>5, <1>15, <1>16, <1>20, <1>21 DEF Moves, MovesFor
<1>24. [open EXCEPT ![Len(open)].count = @ + 4] = [open EXCEPT ![Len(L)] = e1]
  <2>1. Top = [op |-> Top.op, fn |-> Top.fn, bound |-> Top.bound, env |-> Top.env,
               count |-> Top.count, then |-> Top.then, first |-> Top.first]
    BY <1>10 DEF Blocks
  <2>2. [Top EXCEPT !.count = @ + 4] = e1
    BY <1>7, <2>1
  <2>3. Len(open) \in DOMAIN open
    BY <1>9
  <2> QED
    BY <1>9, <1>10, <2>2, <2>3
<1>25. PICK o1 : o1 = [open EXCEPT ![Len(L)] = e1]
  OBVIOUS
<1>26. Opens(o1, M1)
  <2>1. e1.env = open[Len(L)].env
    BY <1>9, <1>10, <1>13
  <2>2. Matches(e1, d1)
    BY <1>10, <1>13, <1>18 DEF Matches
  <2>3. Opens([open EXCEPT ![Len(L)] = e1], WithInner(L, d1))
    BY <1>9, <1>10, <1>13, <1>18, <2>1, <2>2, OpensChanged
  <2> QED
    BY <1>20, <1>25, <2>3
<1>27. Matches(e, d)
  <2>1. d.fn # 0 => e.bound = {m \in Names : d.env[m] >= d.fn}
    <3> SUFFICES ASSUME b.fn # 0
                 PROVE  Top.bound \cup {n} = {m \in Names : Bind(b.env, n, p)[m] >= b.fn}
      BY <1>14, <1>19
    <3>1. Top.bound = {m \in Names : b.env[m] >= b.fn}
      BY <1>10 DEF Matches
    <3>2. p >= b.fn
      BY <1>9
    <3> QED
      BY <3>1, <3>2 DEF Bind
  <2> QED
    BY <1>9, <1>14, <1>19, <2>1 DEF Matches
<1>28. Opens(open', M)
  <2>1. e.env = Inner(M1).env
    BY <1>9, <1>14, <1>18, <1>22
  <2>2. Len(M1) >= 1
    BY <1>9, <1>22
  <2>3. Opens(Append(o1, e), Append(M1, d))
    BY <1>14, <1>19, <1>22, <1>26, <1>27, <2>1, <2>2, OpensAdded
  <2> QED
    BY <1>8, <1>21, <1>24, <1>25, <2>3
<1>29. env' = Inner(M).env
  <2>1. Inner(M) = d
    BY <1>19, <1>21, <1>22, AppendIs
  <2> QED
    BY <1>9, <1>12, <1>19, <2>1
<1>30. Now(M)' /\ Declared(M)'
  BY <1>28, <1>29, OpeningIs
<1>31. ~Made(c.op) /\ c.op \notin {"use", "end"} /\ p <= MaxLength
  BY <1>4, <1>11 DEF Made
<1>32. p + Len(open') - 1 <= Longest'
  <2>1. o1 \in Seq(Blocks) /\ Len(o1) = Len(open)
    BY <1>9, <1>13, <1>25
  <2>2. Len(open') = Len(open) + 1
    BY <1>8, <1>14, <1>24, <1>25, <2>1
  <2> QED
    BY <1>9, <1>11, <2>2
<1>33. \A i \in 1..MaxLength : home'[i] = home[i] \/ (i = p /\ home'[i] = Inner(L).fn)
  BY <1>5, <1>9, <1>12
<1> QED
  BY <1>1, <1>2, <1>4, <1>8, <1>12, <1>23, <1>30, <1>31, <1>32, <1>33, ReadQuietly

\* A function.
LEMMA FunctionRead ==
  ASSUME NEW h, ReadInv(h), NEW op \in {"function", "named"}, NEW n \in Names,
         ReadFunction(op, n)
  PROVE  \E k : ReadInv(k)'
<1>1. PICK p : p = Pos
  OBVIOUS
<1>2. PICK L : L = h[p]
  OBVIOUS
<1>3. PICK c : c = [op |-> op, name |-> n]
  OBVIOUS
<1>4. c \in Constructs /\ c.op = op /\ c.name = n /\ Made(op)
  BY <1>3 DEF Constructs, Ops, Made
<1>5. PICK b : b = Inner(L)
  OBVIOUS
<1>6. PICK e : e = Block(op, p, {n})
  OBVIOUS
<1>7. /\ program' = Append(program, c) /\ Room(2) /\ open' = Append(open, e)
      /\ op = "named" => Fn = 0 \/ "named" \in Extras
      /\ env' = [env EXCEPT ![n] = p] /\ home' = [home EXCEPT ![p] = p]
      /\ outer' = [outer EXCEPT ![p] = env]
      /\ UNCHANGED <<free, upvalues, boxed, counted, meant, pc, emission>>
  BY <1>1, <1>3, <1>6 DEF ReadFunction, Read
<1>8. /\ p \in Nat \ {0} /\ p = Len(program) + 1 /\ program \in Seq(Constructs)
      /\ L \in Seq(Levels) /\ Len(L) \in Nat /\ Len(L) >= 1 /\ Len(open) = Len(L)
      /\ Fn = b.fn /\ Fn \in Nat /\ env = b.env /\ env \in [Names -> Nat] /\ open \in Seq(Blocks)
      /\ b \in Levels /\ \A m \in Names : env[m] < p
  BY <1>1, <1>2, <1>5, Here
<1>9. Opens(open, L)
  BY <1>1, <1>2, TopIs
<1>10. p \in 1..MaxLength /\ p + Len(open) <= Longest' /\ Len(program') = p
  <2>1. Len(open) \in Nat /\ Len(open) >= 1 /\ p \in Nat /\ p = Len(program) + 1
    BY <1>8
  <2>2. program \in Seq(Constructs) /\ program' = Append(program, c) /\ Room(2)
    BY <1>7, <1>8
  <2>3. p \in 1..MaxLength /\ p + Len(open) - 2 + 2 <= Longest' /\ Len(program') = p
    BY <1>4, <2>1, <2>2, RoomIs
  <2> QED
    BY <2>1, <2>3
<1>11. /\ e \in Blocks /\ e.op = op /\ e.fn = p /\ e.bound = {n} /\ e.env = env
       /\ e.count = 0 /\ e.then = 0 /\ e.first = p
  <2>1. op \in Opened /\ {n} \in SUBSET Names /\ p \in Nat
    BY <1>8 DEF Opened
  <2> QED
    BY <1>1, <1>6, <2>1, BlockIs
<1>12. PICK d : d = Level(op, p, p, Bind(b.env, n, p), 0, 0, 0)
  OBVIOUS
<1>13. /\ d \in Levels /\ d.op = op /\ d.fn = p /\ d.first = p /\ d.env = Bind(b.env, n, p)
       /\ d.count = 0 /\ d.then = 0
  <2>1. Bind(b.env, n, p) \in [Names -> Nat]
    BY <1>8 DEF Bind
  <2> QED
    BY <1>8, <1>12, <2>1 DEF Level, Levels, Opened
<1>14. PICK M : M = Append(L, d)
  OBVIOUS
<1>15. Moves(L, M, c, p)
  BY <1>4, <1>5, <1>12, <1>14 DEF Moves, MovesFunction
<1>16. Matches(e, d)
  <2>1. {n} = {m \in Names : Bind(b.env, n, p)[m] >= p}
    <3>1. \A m \in Names : Bind(b.env, n, p)[m] >= p <=> m = n
      BY <1>8 DEF Bind
    <3> QED
      BY <3>1
  <2> QED
    BY <1>11, <1>13, <2>1 DEF Matches
<1>17. Opens(open', M)
  BY <1>5, <1>7, <1>8, <1>9, <1>11, <1>13, <1>14, <1>16, OpensAdded
<1>18. env' = Inner(M).env
  <2>1. Inner(M) = d
    BY <1>8, <1>13, <1>14, AppendIs
  <2> QED
    BY <1>7, <1>8, <1>13, <2>1 DEF Bind
<1>19. Now(M)' /\ Declared(M)'
  BY <1>17, <1>18, OpeningIs
<1>20. p + Len(open') - 1 <= Longest'
  <2>1. Len(open') = Len(open) + 1
    BY <1>7, <1>8, <1>11
  <2> QED
    BY <1>8, <1>10, <2>1
<1>21. AnalysisTyped /\ Frees /\ Unread /\ MaxLength \in Nat /\ p \in Ids
  BY <1>10, ScopesAssumption DEF ReadInv, Ids
<1>22. AnalysisTyped'
  <2>1. home' \in [Ids -> Nat]
    BY <1>7, <1>8, <1>21 DEF AnalysisTyped
  <2>2. outer' \in [Ids -> [Names -> Nat]]
    BY <1>7, <1>8, <1>21 DEF AnalysisTyped
  <2>3. Len(program') <= MaxLength
    BY <1>10
  <2> QED
    BY <1>7, <1>21, <2>1, <2>2, <2>3 DEF AnalysisTyped
<1>23. \A f \in p..MaxLength :
         /\ free[f] = {} /\ upvalues[f] = <<>> /\ meant[f] = 0 /\ home[f] = 0 /\ f \in 1..MaxLength
  BY <1>1, <1>8, <1>21 DEF Unread
<1>24. p \in p..MaxLength
  BY <1>10
<1>25. Frees'
  <2> SUFFICES ASSUME NEW g \in 1..MaxLength, NEW m \in Names,
                      "block" \notin Extras, m \in free[g], outer'[g][m] # 0
               PROVE  m \in ToSet(upvalues[g])
    BY <1>7 DEF Frees
  <2>1. g # p
    BY <1>23, <1>24
  <2>2. outer'[g] = outer[g]
    BY <1>7, <1>21, <2>1 DEF AnalysisTyped, Ids
  <2> QED
    BY <1>21, <2>2 DEF Frees
<1>26. Remembered(h, p)
  <2>1. \A q \in 1..(p - 1) : q \in Ids /\ q # p
    BY <1>8, <1>10, <1>21 DEF Ids
  <2>2. \A q \in 1..(p - 1) : outer'[q] = outer[q] /\ home'[q] = home[q]
    BY <1>7, <1>21, <2>1 DEF AnalysisTyped
  <2> QED
    BY <1>7, <2>2 DEF Remembered
<1>27. Fact(L, p)'
  <2>1. program'[p] = c
    BY <1>7, <1>8
  <2>2. outer'[p] = Inner(L).env
    BY <1>5, <1>7, <1>8, <1>21 DEF AnalysisTyped
  <2>3. upvalues'[p] = <<>> /\ meant'[p] = 0
    BY <1>7, <1>23, <1>24
  <2>4. ToSet(upvalues'[p]) = {}
    BY <2>3 DEF ToSet
  <2>5. FunctionFact(L, n, p)'
    BY <2>2, <2>4 DEF FunctionFact
  <2> QED
    BY <1>4, <1>5, <1>7, <1>8, <2>1, <2>3, <2>5 DEF Fact
<1>28. home'[p] # 0 => home'[p] = (IF Made(c.op) THEN p ELSE Inner(L).fn)
  BY <1>4, <1>7, <1>21 DEF AnalysisTyped
<1>29. \A f \in (p + 1)..MaxLength :
         free'[f] = {} /\ upvalues'[f] = <<>> /\ meant'[f] = 0 /\ home'[f] = 0
  <2>1. \A f \in (p + 1)..MaxLength : f \in p..MaxLength /\ f # p /\ f \in Ids
    BY <1>8, <1>21 DEF Ids
  <2>2. \A f \in Ids : f # p => home'[f] = home[f]
    BY <1>7, <1>21 DEF AnalysisTyped
  <2> QED
    BY <1>7, <1>23, <2>1, <2>2
<1>30. p <= MaxLength /\ UNCHANGED <<pc, emission>>
  BY <1>7, <1>10
<1> QED
  BY <1>1, <1>2, <1>4, <1>7, <1>15, <1>19, <1>20, <1>22, <1>25, <1>26, <1>27, <1>28, <1>29, <1>30,
     ReadOn

\* The levels of a function that is open have not been counted.
LEMMA NotClosed ==
  ASSUME NEW prog, NEW h, NEW L, NEW p \in Nat \ {0}, GoodNames(prog, h, L, p),
         NEW j \in 1..Len(L), NEW q \in 1..(p - 1), Closes(prog, h, q)
  PROVE  L[j].fn # Inner(h[q]).fn
BY DEF GoodNames, NamesClosed

\* The end of a block or a function.
LEMMA EndRead ==
  ASSUME NEW h, ReadInv(h), ReadEnd
  PROVE  \E k : ReadInv(k)'
<1>1. PICK p : p = Pos
  OBVIOUS
<1>2. PICK L : L = h[p]
  OBVIOUS
<1>3. PICK c : c = [op |-> "end", name |-> "none"]
  OBVIOUS
<1>4. c \in Constructs /\ c.op = "end" /\ ~Made(c.op) /\ ~Naming(c.op)
  BY <1>3 DEF Constructs, Ops, Made, Naming
<1>5. PICK b : b = Inner(L)
  OBVIOUS
<1>6. PICK a : a = Within(L)
  OBVIOUS
<1>7. PICK o : o = SubSeq(open, 1, Len(open) - 1)
  OBVIOUS
<1>8. PICK K : K = SubSeq(L, 1, Len(L) - 1)
  OBVIOUS
<1>9. /\ program' = Append(program, c) /\ pc = 0 /\ Len(open) > 1
      /\ open' = IF Made(Top.op) THEN o ELSE [o EXCEPT ![Len(o)].count = @ + CountOf(Top)]
      /\ counted' = IF Made(Top.op) THEN [counted EXCEPT ![Fn] = Top.count] ELSE counted
      /\ env' = Top.env
      /\ meant' = IF Top.op = "for" THEN [meant EXCEPT ![p] = Top.first] ELSE meant
      /\ UNCHANGED <<home, free, upvalues, boxed, outer, pc, emission>>
  BY <1>1, <1>3, <1>7 DEF ReadEnd, ReadPlain, Read, IsFunction, Made
<1>10. /\ p \in Nat \ {0} /\ p = Len(program) + 1 /\ program \in Seq(Constructs)
       /\ Good(program, h, L, p) /\ GoodNames(program, h, L, p)
       /\ L \in Seq(Levels) /\ Len(L) \in Nat /\ Len(L) >= 1 /\ Len(open) = Len(L)
       /\ Fn = b.fn /\ Fn \in Nat /\ Fn < p /\ open \in Seq(Blocks) /\ b \in Levels
       /\ b = L[Len(L)] /\ Top.op = b.op /\ Top.count = b.count /\ Top.then = b.then
       /\ Top.first = b.first
  BY <1>1, <1>2, <1>5, Here
<1>11. Opens(open, L) /\ Top.env = a.env /\ a = L[Len(L) - 1] /\ a \in Levels
  <2>0. Len(L) > 1
    BY <1>9, <1>10
  <2>1. Opens(open, L) /\ Top.env = Within(L).env
    BY <1>1, <1>2, <2>0, TopIs
  <2>2. Within(L) = L[Len(L) - 1] /\ Len(L) - 1 \in 1..Len(L)
    BY <1>9, <1>10 DEF Within
  <2> QED
    BY <1>6, <1>10, <2>1, <2>2
<1>12. /\ K \in Seq(Levels) /\ Len(K) = Len(L) - 1 /\ Inner(K) = a
  <2>1. Len(L) > 1
    BY <1>9, <1>10
  <2> QED
    BY <1>6, <1>8, <1>10, <2>1, RestIs
<1>13. Opens(o, K)
  <2>1. Len(L) > 1
    BY <1>9, <1>10
  <2> QED
    BY <1>7, <1>8, <1>10, <1>11, <2>1, OpensRest
<1>14. PICK d : d = Counting(a, CountOf(b))
  OBVIOUS
<1>15. PICK M : M = IF Made(b.op) THEN K ELSE WithInner(K, d)
  OBVIOUS
<1>16. Moves(L, M, c, p)
  BY <1>4, <1>5, <1>6, <1>8, <1>9, <1>10, <1>14, <1>15 DEF Moves, MovesEnd
<1>17. CountOf(b) \in Nat /\ CountOf(Top) = CountOf(b)
  BY <1>10, LevelHas DEF CountOf
<1>18. /\ d \in Levels /\ d.op = a.op /\ d.fn = a.fn /\ d.first = a.first /\ d.env = a.env
       /\ d.count = a.count + CountOf(b) /\ d.then = a.then
  <2>1. /\ a.op \in {"file"} \cup Opened /\ a.fn \in Nat /\ a.first \in Nat
        /\ a.env \in [Names -> Nat] /\ a.count \in Nat /\ a.then \in Nat /\ a.base \in Nat
    BY <1>11, LevelHas
  <2> QED
    BY <1>14, <1>17, <2>1 DEF Counting, Level, Levels
<1>19. Opens(open', M) /\ env' = Inner(M).env /\ Len(open') = Len(L) - 1
  <2>1. CASE Made(b.op)
    <3>1. open' = o /\ M = K
      BY <1>9, <1>10, <1>15, <2>1
    <3> QED
      BY <1>9, <1>11, <1>12, <1>13, <3>1 DEF Opens
  <2>2. CASE ~Made(b.op)
    <3> DEFINE n == Len(o)
    <3>1. n = Len(L) - 1 /\ n \in Nat /\ n >= 1 /\ o \in Seq(Blocks) /\ n \in 1..n /\ K[n] = a
      BY <1>9, <1>10, <1>12, <1>13 DEF Opens, Inner
    <3>2. PICK t : t = o[n]
      OBVIOUS
    <3>3. PICK e : e = [op |-> t.op, fn |-> t.fn, bound |-> t.bound, env |-> t.env,
                        count |-> t.count + CountOf(b), then |-> t.then, first |-> t.first]
      OBVIOUS
    <3>4. t \in Blocks /\ Matches(t, a)
      BY <1>12, <1>13, <3>1, <3>2 DEF Opens
    <3>5. t = [op |-> t.op, fn |-> t.fn, bound |-> t.bound, env |-> t.env,
               count |-> t.count, then |-> t.then, first |-> t.first]
      BY <3>4 DEF Blocks
    <3>6. [t EXCEPT !.count = @ + CountOf(b)] = e
      BY <3>3, <3>5
    <3>7. /\ e.op = t.op /\ e.fn = t.fn /\ e.bound = t.bound /\ e.env = t.env
          /\ e.count = t.count + CountOf(b) /\ e.then = t.then /\ e.first = t.first
      BY <3>3
    <3>8. e \in Blocks
      BY <1>17, <3>3, <3>4 DEF Blocks
    <3>9. open' = [o EXCEPT ![Len(K)] = e]
      BY <1>9, <1>10, <1>12, <1>17, <2>2, <3>1, <3>2, <3>6
    <3>10. Matches(e, d)
      BY <1>18, <3>4, <3>7 DEF Matches
    <3>11. e.env = o[Len(K)].env
      BY <1>12, <3>1, <3>2, <3>7
    <3>12. Len(K) >= 1
      BY <1>12, <3>1
    <3>13. Opens([o EXCEPT ![Len(K)] = e], WithInner(K, d))
      BY <1>12, <1>13, <1>18, <3>8, <3>10, <3>11, <3>12, OpensChanged
    <3>14. M = WithInner(K, d)
      BY <1>15, <2>2
    <3>15. Inner(M) = d
      BY <1>12, <1>18, <3>12, <3>14, WithInnerIs
    <3>16. Len(open') = Len(L) - 1
      BY <3>1, <3>9
    <3> QED
      BY <1>9, <1>11, <1>18, <3>9, <3>13, <3>14, <3>15, <3>16
  <2> QED
    BY <2>1, <2>2
<1>20. Now(M)' /\ Declared(M)'
  BY <1>19, OpeningIs
<1>21. AnalysisTyped /\ Frees /\ Unread /\ MaxLength \in Nat
  BY ScopesAssumption DEF ReadInv
<1>22. p \in 1..MaxLength /\ p + Len(open') - 1 <= Longest' /\ Len(program') = p
  <2>1. (p - 1) + Len(open) - 1 <= Longest
    BY <1>10, <1>21 DEF Unread
  <2>2. Longest \in Nat /\ Longest <= MaxLength
    BY <1>21, ScopesAssumption DEF Longest
  <2>3. p <= MaxLength
    BY <1>9, <1>10, <1>21, <2>1, <2>2
  <2>4. program # <<>>
    <3> SUFFICES ASSUME program = <<>> PROVE FALSE
      OBVIOUS
    <3>1. p = 1
      BY <1>10
    <3>2. L = <<File>>
      BY <1>2, <3>1 DEF ReadInv, Story
    <3> QED
      BY <1>9, <1>10, <3>2
  <2>5. Longest' = Longest
    <3>1. program' # <<>> /\ program'[1] = program[1]
      BY <1>9, <1>10, <2>4
    <3> QED
      BY <2>4, <3>1 DEF Longest
  <2>6. Len(program') = p
    BY <1>9, <1>10
  <2> QED
    BY <1>10, <1>19, <1>21, <2>1, <2>2, <2>3, <2>5, <2>6
<1>23. \A f \in p..MaxLength :
         /\ free[f] = {} /\ upvalues[f] = <<>> /\ meant[f] = 0 /\ home[f] = 0 /\ f \in 1..MaxLength
  BY <1>1, <1>10, <1>21 DEF Unread
<1>24. /\ meant' \in [1..MaxLength -> Nat] /\ \A q \in 1..MaxLength : q # p => meant'[q] = meant[q]
       /\ meant'[p] = IF b.op = "for" THEN b.first ELSE 0
  <2>1. b.first \in Nat
    BY <1>10, LevelHas
  <2>2. meant[p] = 0
    BY <1>22, <1>23
  <2>3. CASE b.op = "for"
    BY <1>9, <1>10, <1>21, <1>22, <2>1, <2>3 DEF AnalysisTyped
  <2>4. CASE b.op # "for"
    BY <1>9, <1>10, <1>21, <2>2, <2>4 DEF AnalysisTyped
  <2> QED
    BY <2>3, <2>4
<1>25. /\ counted' \in [Ids -> Nat] /\ \A g \in Ids : g # Fn => counted'[g] = counted[g]
       /\ IF Made(b.op) THEN counted'[Fn] = b.count ELSE counted' = counted
  <2>1. Fn \in Ids
    BY <1>10, <1>21, <1>22 DEF Ids
  <2>2. b.count \in Nat
    BY <1>10, LevelHas
  <2> QED
    BY <1>9, <1>10, <1>21, <2>1, <2>2 DEF AnalysisTyped
<1>26. AnalysisTyped'
  <2>1. Len(program') <= MaxLength
    BY <1>22
  <2> QED
    BY <1>9, <1>21, <1>24, <1>25, <2>1 DEF AnalysisTyped
<1>27. Frees'
  BY <1>9, <1>21 DEF Frees
<1>28. Remembered(h, p)
  <2>1. \A q \in 1..(p - 1) : q \in 1..MaxLength /\ q # p
    <3>1. p \in Nat /\ p <= MaxLength
      BY <1>10, <1>22
    <3> QED
      BY <1>21, <3>1
  <2>2. ASSUME NEW q \in 1..(p - 1), Closes(program, h, q)
        PROVE  counted'[Inner(h[q]).fn] = counted[Inner(h[q]).fn]
    <3>1. Inner(h[q]).fn # Fn
      BY <1>10, <2>2, NotClosed
    <3>2. Good(program, h, h[q], q) /\ q \in Nat \ {0} /\ q < p
      BY <1>10 DEF ReadInv, Story
    <3>3. Inner(h[q]).fn \in Nat /\ Inner(h[q]).fn < q
      BY <3>2, InnerIs
    <3>4. Inner(h[q]).fn \in Ids
      BY <1>21, <1>22, <3>2, <3>3 DEF Ids
    <3> QED
      BY <1>25, <3>1, <3>4
  <2> QED
    BY <1>9, <1>24, <2>1, <2>2 DEF Remembered
<1>29. Fact(L, p)'
  <2>1. program'[p] = c
    BY <1>9, <1>10
  <2>2. EndFact(L, p)'
    BY <1>5, <1>10, <1>24, <1>25 DEF EndFact
  <2>3. Inner(L).op # "for" => meant'[p] = 0
    BY <1>5, <1>24
  <2> QED
    BY <1>4, <2>1, <2>2, <2>3 DEF Fact
<1>30. home'[p] # 0 => home'[p] = (IF Made(c.op) THEN p ELSE Inner(L).fn)
  BY <1>9, <1>22, <1>23
<1>31. \A f \in (p + 1)..MaxLength :
         free'[f] = {} /\ upvalues'[f] = <<>> /\ meant'[f] = 0 /\ home'[f] = 0
  <2>1. \A f \in (p + 1)..MaxLength : f \in p..MaxLength /\ f # p
    BY <1>10
  <2> QED
    BY <1>9, <1>23, <1>24, <2>1
<1>32. p <= MaxLength /\ p + Len(open') - 1 <= Longest' /\ UNCHANGED <<pc, emission>>
  BY <1>9, <1>22
<1> QED
  BY <1>1, <1>2, <1>4, <1>9, <1>16, <1>20, <1>26, <1>27, <1>28, <1>29, <1>30, <1>31, <1>32, ReadOn

\* The history of a program that has not begun.
LEMMA Begun ==
  ASSUME Init
  PROVE  \E h : ReadInv(h)
<1>1. PICK h : h = [i \in 1..1 |-> <<File>>]
  OBVIOUS
<1>2. PICK L : L = h[1]
  OBVIOUS
<1>3. L = <<File>> /\ Len(L) = 1 /\ L[1] = File /\ Inner(L) = File
  BY <1>1, <1>2 DEF Inner
<1>4. /\ File.op = "file" /\ File.fn = 0 /\ File.first = 0 /\ File.env = [n \in Names |-> 0]
      /\ File.count = 0 /\ File.then = 0 /\ File.base = 0
  BY DEF File, Level
<1>5. File \in Levels
  <2>1. [n \in Names |-> 0] \in [Names -> Nat]
    OBVIOUS
  <2> QED
    BY <2>1 DEF File, Level, Levels
<1>6. MaxLength \in Nat /\ MaxLength >= 2
  BY ScopesAssumption
<1>7. program = <<>> /\ Pos = 1 /\ Len(program) = 0
  BY DEF Init, Pos
<1>8. Good(program, h, L, 1)
  <2>1. L \in Seq(Levels) /\ \A j \in 1..Len(L) : j = 1
    BY <1>3, <1>5
  <2>2. GoodFirst(L) /\ GoodBounds(L, 1)
    BY <1>3, <1>4, <2>1 DEF GoodFirst, GoodBounds
  <2>3. GoodOrder(L) /\ GoodMade(program, h, L) /\ GoodBlock(L)
    BY <1>3 DEF GoodOrder, GoodMade, GoodBlock
  <2> QED
    BY <1>3, <2>1, <2>2, <2>3 DEF Good
<1>9. GoodNames(program, h, L, 1)
  <2>1. \A j \in 1..Len(L) : L[j] = File
    BY <1>3
  <2>2. NamesBound(program, h, L) /\ NamesOwned(program, h, L)
    BY <1>4, <2>1 DEF NamesBound, NamesOwned
  <2>3. NamesStay(L) /\ NamesClosed(program, h, L, 1)
    BY <1>3 DEF NamesStay, NamesClosed
  <2> QED
    BY <2>2, <2>3 DEF GoodNames
<1>10. Story(program, h)
  <2>1. \A p \in 1..(Len(program) + 1) : p = 1
    BY <1>7
  <2>2. program \in Seq(Constructs) /\ \A p \in 1..Len(program) : FALSE
    BY <1>7
  <2> QED
    BY <1>1, <1>2, <1>8, <1>9, <2>1, <2>2 DEF Story
<1>11. Facts(h) /\ Homes(h)
  BY <1>7 DEF Facts, Homes
<1>12. AnalysisTyped
  <2>1. /\ home = [v \in Ids |-> 0] /\ free = [f \in Ids |-> {}] /\ upvalues = [f \in Ids |-> <<>>]
        /\ boxed = [f \in Ids |-> {}] /\ outer = [f \in Ids |-> env]
        /\ env = [n \in Names |-> 0] /\ counted = [f \in Ids |-> 0]
        /\ meant = [i \in 1..MaxLength |-> 0]
    BY DEF Init
  <2>2. <<>> \in Seq(Names)
    OBVIOUS
  <2>3. env \in [Names -> Nat]
    BY <2>1
  <2> QED
    BY <1>6, <1>7, <2>1, <2>2, <2>3 DEF AnalysisTyped
<1>13. Frees
  BY <1>6 DEF Init, Frees, Ids
<1>14. PICK e : e = open[1]
  OBVIOUS
<1>15. /\ open = <<e>> /\ e \in Blocks /\ e.op = "file" /\ e.fn = 0 /\ e.count = 0 /\ e.then = 0
       /\ e.first = 0
  <2>1. open = <<[op |-> "file", fn |-> 0, bound |-> {}, env |-> [n \in Names |-> 0],
                  count |-> 0, then |-> 0, first |-> 0]>>
    BY DEF Init
  <2>2. e = [op |-> "file", fn |-> 0, bound |-> {}, env |-> [n \in Names |-> 0],
             count |-> 0, then |-> 0, first |-> 0]
    BY <1>14, <2>1
  <2> QED
    BY <1>14, <2>1, <2>2 DEF Blocks
<1>16. open \in Seq(Blocks) /\ Len(open) = 1 /\ open[1] = e
  BY <1>15
<1>17. Now(L) /\ Declared(L)
  <2>1. env = Inner(L).env
    BY <1>3, <1>4 DEF Init
  <2>2. \A j \in 1..Len(L) : j = 1 /\ L[j] = File /\ open[j] = e
    BY <1>3, <1>16
  <2> QED
    BY <1>3, <1>4, <1>15, <1>16, <2>1, <2>2 DEF Now, Declared
<1>18. Unread
  <2>1. \A f \in 1..MaxLength : f \in Ids
    BY <1>6 DEF Ids
  <2>2. \A f \in Pos..MaxLength : free[f] = {} /\ upvalues[f] = <<>> /\ meant[f] = 0 /\ home[f] = 0
    BY <1>7, <2>1 DEF Init
  <2>3. Longest >= 0 /\ Longest \in Nat
    BY <1>6, <1>7 DEF Longest
  <2>4. Len(program) + Len(open) - 1 <= Longest
    BY <1>7, <1>16, <2>3
  <2> QED
    BY <2>2, <2>4 DEF Unread
<1>19. Untouched
  BY DEF Init, Untouched
<1>20. h[Pos] = L
  BY <1>2, <1>7
<1> QED
  BY <1>10, <1>11, <1>12, <1>13, <1>17, <1>18, <1>19, <1>20 DEF ReadInv

-----------------------------------------------------------------------------
(***************************************************************************)
(* The slots that were counted.                                            *)
(***************************************************************************)
EnoughAt(L) == \A j \in 1..Len(L) : L[j].base + CountOf(L[j]) <= counted[L[j].fn]
Enough(h) == \A p \in 1..(Len(program) + 1) : EnoughAt(h[p])

\* A level that has no more slots than another one of the same function.
LEMMA CountsLess ==
  ASSUME NEW a \in Levels, NEW b \in Levels, a.fn = b.fn, a.base = b.base,
         a.count <= b.count, a.then <= b.then, b.base + CountOf(b) <= counted[b.fn],
         counted[b.fn] \in Nat
  PROVE  a.base + CountOf(a) <= counted[a.fn]
<1>1. CountOf(a) <= CountOf(b)
  BY LevelHas DEF CountOf
<1> QED
  BY <1>1, LevelHas

\* What is enough for the levels after a construct is enough for those before it.
LEMMA EnoughBefore ==
  ASSUME NEW h, Story(program, h), Facts(h), counted \in [Ids -> Nat], Len(program) <= MaxLength,
         NEW p \in 1..Len(program), EnoughAt(h[p + 1])
  PROVE  EnoughAt(h[p])
<1>1. PICK L : L = h[p]
  OBVIOUS
<1>2. PICK M : M = h[p + 1]
  OBVIOUS
<1>3. PICK c : c = program[p]
  OBVIOUS
<1>4. p \in Nat \ {0} /\ p \in 1..(Len(program) + 1) /\ p + 1 \in 1..(Len(program) + 1)
      /\ p + 1 \in Nat \ {0} /\ MaxLength \in Nat
  BY ScopesAssumption DEF Story
<1>5. Good(program, h, L, p) /\ Good(program, h, M, p + 1) /\ Moves(L, M, c, p) /\ Fact(L, p)
  BY <1>1, <1>2, <1>3, <1>4 DEF Story, Facts
<1>6. PICK N : N = Len(L)
  OBVIOUS
<1>7. /\ N \in Nat /\ N >= 1 /\ L \in Seq(Levels) /\ Inner(L) = L[N]
      /\ \A j \in 1..N : L[j] \in Levels /\ L[j].fn \in Nat /\ L[j].fn < p
  BY <1>4, <1>5, <1>6, InnerIs DEF Good
<1>8. /\ M \in Seq(Levels) /\ Len(M) \in Nat /\ \A j \in 1..Len(M) : M[j] \in Levels
  BY <1>4, <1>5, InnerIs DEF Good
<1>9. \A j \in 1..Len(M) : M[j].base + CountOf(M[j]) <= counted[M[j].fn]
  BY <1>2 DEF EnoughAt
<1>10. \A j \in 1..N : counted[L[j].fn] \in Nat
  <2> SUFFICES ASSUME NEW j \in 1..N PROVE L[j].fn \in Ids
    OBVIOUS
  <2>1. L[j].fn \in Nat /\ L[j].fn <= MaxLength
    BY <1>4, <1>7
  <2> QED
    BY <2>1 DEF Ids
<1> SUFFICES ASSUME NEW j \in 1..N PROVE L[j].base + CountOf(L[j]) <= counted[L[j].fn]
  BY <1>1, <1>6 DEF EnoughAt
<1>11. ASSUME j \in 1..Len(M), M[j].fn = L[j].fn, M[j].base = L[j].base,
              L[j].count <= M[j].count, L[j].then <= M[j].then
       PROVE  L[j].base + CountOf(L[j]) <= counted[L[j].fn]
  <2>1. /\ L[j] \in Levels /\ M[j] \in Levels /\ M[j].base + CountOf(M[j]) <= counted[M[j].fn]
        /\ counted[M[j].fn] \in Nat
    BY <1>7, <1>8, <1>9, <1>10, <1>11
  <2> QED
    BY <1>11, <2>1, CountsLess
<1>12. /\ L[j].count \in Nat /\ L[j].then \in Nat /\ L[j].base \in Nat
       /\ CountOf(L[j]) \in Nat
       /\ CountOf(L[j]) = L[j].count \/ CountOf(L[j]) = L[j].then
  BY <1>7, LevelHas
<1>18. ASSUME j \in 1..Len(M), M[j] = L[j]
       PROVE  L[j].base + CountOf(L[j]) <= counted[L[j].fn]
  <2>1. L[j].count <= L[j].count /\ L[j].then <= L[j].then
    BY <1>12
  <2> QED
    BY <1>11, <1>18, <2>1
<1>19. N \in Nat /\ j \in Nat /\ 1 <= j /\ j <= N
  BY <1>7
<1>13. CASE MovesLocal(L, M, c, p) \/ MovesElse(L, M, c, p)
  <2>1. PICK d : M = WithInner(L, d)
    BY <1>13 DEF MovesLocal, MovesElse
  <2>2. Len(M) = N /\ M[N] = d /\ \A i \in 1..(N - 1) : M[i] = L[i]
    BY <1>6, <1>7, <2>1 DEF WithInner
  <2>3. CASE j # N
    <3>1. j \in 1..(N - 1) /\ j \in 1..Len(M)
      BY <1>19, <2>2, <2>3
    <3>2. M[j] = L[j]
      BY <2>2, <3>1
    <3> QED
      BY <1>18, <3>1, <3>2
  <2>4. CASE j = N /\ MovesLocal(L, M, c, p)
    <3>1. d = Level(L[N].op, L[N].fn, L[N].first,
                    Bind(L[N].env, c.name, IF Len(L) = 1 THEN 0 ELSE p),
                    L[N].count + 1, L[N].then, L[N].base)
      BY <1>6, <1>7, <2>1, <2>2, <2>4 DEF MovesLocal, WithInner
    <3>2. d.fn = L[N].fn /\ d.base = L[N].base /\ d.count = L[N].count + 1 /\ d.then = L[N].then
      BY <3>1 DEF Level
    <3>3. j \in 1..Len(M) /\ M[j] = d /\ L[j] = L[N]
      BY <1>19, <2>2, <2>4
    <3>4. L[j].count <= M[j].count /\ L[j].then <= M[j].then
      BY <1>12, <3>2, <3>3
    <3> QED
      BY <1>11, <3>2, <3>3, <3>4
  <2>5. CASE j = N /\ MovesElse(L, M, c, p)
    <3>1. d = Level("else", L[N].fn, L[N].first, Within(L).env, 0, L[N].count, L[N].base)
          /\ L[N].op = "if" /\ N > 1
      BY <1>6, <1>7, <2>1, <2>2, <2>5 DEF MovesElse, WithInner
    <3>2. d.fn = L[N].fn /\ d.base = L[N].base /\ d.count = 0 /\ d.then = L[N].count
      BY <3>1 DEF Level
    <3>3. L[N].then = 0
      <4>1. N \in 2..Len(L) /\ ~Made(L[N].op) /\ L[N].op = "if"
        BY <1>6, <1>7, <3>1 DEF Made
      <4> QED
        BY <1>5, <4>1 DEF Good, GoodBlock
    <3>4. CountOf(L[N]) = L[N].count /\ CountOf(d) = L[N].count
      BY <1>12, <2>5, <3>2, <3>3 DEF CountOf
    <3>5. M[N].base + CountOf(M[N]) <= counted[M[N].fn]
      BY <1>7, <1>9, <2>2
    <3> QED
      BY <2>2, <2>5, <3>2, <3>4, <3>5
  <2> QED
    BY <1>13, <2>3, <2>4, <2>5
<1>14. CASE MovesBlock(L, M, c, p) \/ MovesFunction(L, M, c, p)
  <2>1. PICK d : M = Append(L, d)
    BY <1>14 DEF MovesBlock, MovesFunction
  <2>2. Len(M) = N + 1 /\ \A i \in 1..N : M[i] = L[i]
    BY <1>6, <1>7, <2>1
  <2>3. j \in 1..Len(M) /\ M[j] = L[j]
    BY <1>19, <2>2
  <2> QED
    BY <1>18, <2>3
<1>15. CASE MovesFor(L, M, c, p)
  <2>1. PICK d : M = Append(WithInner(L, Counting(L[N], 4)), d)
    BY <1>7, <1>15 DEF MovesFor
  <2>2. /\ Len(M) = N + 1 /\ M[N] = Counting(L[N], 4) /\ \A i \in 1..(N - 1) : M[i] = L[i]
    BY <1>6, <1>7, <2>1 DEF WithInner
  <2>3. CASE j # N
    <3>1. j \in 1..(N - 1)
      BY <1>19, <2>3
    <3>2. j \in 1..Len(M)
      BY <1>19, <2>2
    <3>3. M[j] = L[j]
      BY <2>2, <3>1
    <3> QED
      BY <1>18, <3>2, <3>3
  <2>4. CASE j = N
    <3>1. M[N].fn = L[N].fn /\ M[N].base = L[N].base /\ M[N].count = L[N].count + 4
          /\ M[N].then = L[N].then
      BY <2>2 DEF Counting, Level
    <3>2. j \in 1..Len(M) /\ M[j] = M[N] /\ L[j] = L[N]
      BY <1>19, <2>2, <2>4
    <3>3. L[j].count <= M[j].count /\ L[j].then <= M[j].then
      BY <1>12, <3>1, <3>2, SMTT(30)
    <3> QED
      BY <1>11, <3>1, <3>2, <3>3
  <2> QED
    BY <2>3, <2>4
<1>16. CASE MovesEnd(L, M, c, p)
  <2>1. N > 1 /\ c.op = "end" /\ N - 1 \in 1..N /\ N \in 2..N
    BY <1>6, <1>7, <1>16 DEF MovesEnd
  <2>2. EndFact(L, p)
    BY <1>3, <1>5, <2>1 DEF Fact
  <2>3. CASE Made(L[N].op)
    <3>1. M = SubSeq(L, 1, N - 1)
      BY <1>6, <1>7, <1>16, <2>3 DEF MovesEnd
    <3>2. Len(M) = N - 1 /\ \A i \in 1..(N - 1) : M[i] = L[i]
      BY <1>7, <2>1, <3>1
    <3>3. CASE j # N
      <4>1. j \in 1..(N - 1)
        BY <1>19, <3>3
      <4>2. j \in 1..Len(M) /\ M[j] = L[j]
        BY <3>2, <4>1
      <4> QED
        BY <1>18, <4>2
    <3>4. CASE j = N
      <4>1. L[N].base = 0 /\ L[N].then = 0
        BY <1>5, <1>6, <2>1, <2>3 DEF Good, GoodMade
      <4>2. counted[L[N].fn] = L[N].count
        BY <1>7, <2>2, <2>3 DEF EndFact
      <4> QED
        BY <1>12, <3>4, <4>1, <4>2 DEF CountOf
    <3> QED
      BY <3>3, <3>4
  <2>4. CASE ~Made(L[N].op)
    <3>0. PICK K : K = SubSeq(L, 1, N - 1)
      OBVIOUS
    <3>1. M = WithInner(K, Counting(L[N - 1], CountOf(L[N])))
      BY <1>6, <1>7, <1>16, <2>4, <3>0 DEF MovesEnd, Within
    <3>8. /\ K \in Seq(Levels) /\ Len(K) = N - 1 /\ \A i \in 1..(N - 1) : K[i] = L[i]
      BY <1>7, <2>1, <3>0, SMTT(30)
    <3>2. /\ Len(M) = N - 1 /\ M[N - 1] = Counting(L[N - 1], CountOf(L[N]))
          /\ \A i \in 1..(N - 2) : M[i] = L[i]
      BY <1>7, <2>1, <3>1, <3>8 DEF WithInner
    <3>3. /\ M[N - 1].fn = L[N - 1].fn /\ M[N - 1].base = L[N - 1].base
          /\ M[N - 1].count = L[N - 1].count + CountOf(L[N]) /\ M[N - 1].then = L[N - 1].then
      BY <3>2 DEF Counting, Level
    <3>4. /\ L[N - 1].count \in Nat /\ L[N - 1].base \in Nat /\ L[N - 1].then \in Nat
          /\ CountOf(L[N]) \in Nat /\ M[N - 1] \in Levels
      BY <1>7, <1>8, <2>1, <3>2, LevelHas, SMTT(30)
    <3>5. CASE j < N - 1
      <4>1. j \in 1..(N - 2) /\ j \in 1..Len(M)
        BY <1>19, <3>2, <3>5
      <4>2. M[j] = L[j]
        BY <3>2, <4>1
      <4> QED
        BY <1>18, <4>1, <4>2
    <3>6. CASE j = N - 1
      <4>1. j \in 1..Len(M) /\ M[j] = M[N - 1] /\ L[j] = L[N - 1]
        BY <1>19, <3>2, <3>6
      <4>2. L[j].count <= M[j].count /\ L[j].then <= M[j].then
        BY <3>3, <3>4, <4>1, SMTT(30)
      <4> QED
        BY <1>11, <3>3, <4>1, <4>2
    <3>7. CASE j = N
      <4>1. L[N].fn = L[N - 1].fn /\ L[N].base = L[N - 1].base + L[N - 1].count
        BY <1>5, <1>6, <2>1, <2>4 DEF Good, GoodBlock
      <4>2. M[N - 1].base + CountOf(M[N - 1]) <= counted[M[N - 1].fn]
        BY <1>7, <1>9, <2>1, <3>2
      <4>3. CountOf(M[N - 1]) >= M[N - 1].count /\ CountOf(M[N - 1]) \in Nat
        BY <3>4, LevelHas
      <4>4. counted[L[N].fn] \in Nat
        BY <1>10, <3>7
      <4>5. counted[M[N - 1].fn] = counted[L[N].fn] /\ M[N - 1].base = L[N - 1].base
        BY <3>3, <4>1
      <4>6. L[N].base + CountOf(L[N]) <= counted[L[N].fn]
        <5>1. M[N - 1].base + CountOf(M[N - 1]) <= counted[L[N].fn]
          BY <4>2, <4>5, Zenon
        <5>2. CountOf(M[N - 1]) >= L[N - 1].count + CountOf(L[N])
          BY <3>3, <4>3
        <5> QED
          BY <3>4, <4>1, <4>3, <4>4, <4>5, <5>1, <5>2, SMTT(30)
      <4> QED
        BY <3>7, <4>6
    <3> QED
      BY <1>19, <3>5, <3>6, <3>7
  <2> QED
    BY <2>3, <2>4
<1>17. CASE M = L
  <2>1. j \in 1..Len(M) /\ M[j] = L[j]
    BY <1>6, <1>17
  <2> QED
    BY <1>18, <2>1
<1> QED
  BY <1>5, <1>13, <1>14, <1>15, <1>16, <1>17 DEF Moves

\* The slots are enough throughout, if they are at the end.
LEMMA EnoughIs ==
  ASSUME NEW h, Story(program, h), Facts(h), counted \in [Ids -> Nat], Len(program) <= MaxLength,
         EnoughAt(h[Len(program) + 1])
  PROVE  Enough(h)
<1> DEFINE P == Len(program) + 1
           T == {p \in 1..P : ~EnoughAt(h[p])}
<1>1. P \in Nat
  BY DEF Story
<1> SUFFICES ASSUME T # {} PROVE FALSE
  BY DEF Enough
<1>2. T \in SUBSET (0..P)
  BY <1>1
<1>3. PICK p \in T : \A y \in T : y <= p
  BY <1>1, <1>2, Greatest
<1>4. p \in 1..P /\ p # P
  OBVIOUS
<1>5. p \in 1..Len(program) /\ p + 1 \in 1..P
  BY <1>1, <1>4
<1>6. EnoughAt(h[p + 1])
  <2> SUFFICES ASSUME ~EnoughAt(h[p + 1]) PROVE FALSE
    OBVIOUS
  <2>1. p + 1 \in T
    BY <1>5
  <2> QED
    BY <1>3, <1>5, <2>1
<1>7. EnoughAt(h[p])
  BY <1>5, <1>6, EnoughBefore
<1> QED
  BY <1>7

-----------------------------------------------------------------------------
(***************************************************************************)
(* The scopes of the code generation, by the levels of the reading.        *)
(***************************************************************************)
Symbols == UNION {[D -> [slot : Int, boxed : BOOLEAN]] : D \in SUBSET Names}

ScopeNodes ==
  [op : {"file"} \cup Opened, fn : Nat, first : Nat, symbols : Symbols, next : Nat,
   hidden : SUBSET Nat]

\* Scope t is level d, and takes no more slots.
Node(t, d) ==
  /\ t.op = d.op /\ t.fn = d.fn /\ (d.op # "else" => t.first = d.first)
  /\ t.next >= 1 /\ t.next - 1 <= d.base + d.count

\* No two variables of the scopes s of a function lie in the same slot: those of
\* a scope lie behind the scope around it.
Slots(s, L, j) ==
  /\ \A n \in DOMAIN s[j].symbols :
       /\ s[j].symbols[n].slot # 0 /\ s[j].symbols[n].slot < s[j].next
       /\ \A m \in DOMAIN s[j].symbols : m # n => s[j].symbols[m].slot # s[j].symbols[n].slot
  /\ ~Made(L[j].op) /\ j > 1 =>
       /\ s[j - 1].next <= s[j].next
       /\ \A n \in DOMAIN s[j].symbols : s[j].symbols[n].slot >= s[j - 1].next
  /\ L[j].op = "for" => \A x \in s[j].hidden :
       x < s[j].next /\ \A n \in DOMAIN s[j].symbols : s[j].symbols[n].slot # x

Holds(cl, f, x, w) == x \in DOMAIN cl[f] /\ cl[f][x] = w

\* The slots hold the variables that the names denote.
Contents(s, L, cl, j) ==
  /\ \A n \in DOMAIN s[j].symbols :
       Holds(cl, L[j].fn, s[j].symbols[n].slot, Value(L[j].env[n], s[j].symbols[n].boxed))
  /\ L[j].op = "for" => \A x \in s[j].hidden : Holds(cl, L[j].fn, x, Value(L[j].first, FALSE))

\* What is captured is boxed, and a function has its upvalues.
Known(s, L, j) ==
  /\ \A n \in DOMAIN s[j].symbols :
       /\ n \in boxed[L[j].fn] => s[j].symbols[n].boxed = TRUE
       /\ ~Made(L[j].op) => L[j].env[n] >= L[j].fn
       /\ Made(L[j].op) /\ n \in ToSet(upvalues[L[j].fn]) => s[j].symbols[n].boxed = TRUE
  /\ Made(L[j].op) => ToSet(upvalues[L[j].fn]) \subseteq DOMAIN s[j].symbols

\* A name without a symbol denotes what it does outside.
Through(s, L, j) ==
  j > 1 => \A n \in Names \ DOMAIN s[j].symbols : L[j].env[n] = L[j - 1].env[n]

Fits(s, L, cl, j) ==
  Node(s[j], L[j]) /\ Slots(s, L, j) /\ Contents(s, L, cl, j) /\ Known(s, L, j) /\ Through(s, L, j)

Rising(s, L) ==
  \A i, j \in 1..Len(L) : i < j /\ L[i].fn = L[j].fn => s[i].next <= s[j].next

Frame(s, L, cl) ==
  /\ s \in Seq(ScopeNodes) /\ Len(s) = Len(L) /\ DOMAIN s[1].symbols = {}
  /\ DOMAIN cl = Ids /\ Rising(s, L)
  /\ \A j \in 1..Len(L) : Fits(s, L, cl, j)

\* Level d is as b, which may have had fewer slots.
Same(d, b) ==
  /\ d.op = b.op /\ d.fn = b.fn /\ d.first = b.first /\ d.env = b.env /\ d.base = b.base
  /\ d.count >= b.count
\* What the first m scopes have in their slots stays.
Kept(s, L, cl, cl2, m) ==
  \A j \in 1..m : \A x \in DOMAIN cl[L[j].fn] :
    x \in Int /\ x < s[j].next =>
      x \in DOMAIN cl2[L[j].fn] /\ cl2[L[j].fn][x] = cl[L[j].fn][x]

\* A symbol and its parts.
LEMMA SymbolIs ==
  ASSUME NEW s \in Seq(ScopeNodes), NEW j \in 1..Len(s)
  PROVE  /\ s[j] \in ScopeNodes /\ s[j].next \in Nat /\ s[j].fn \in Nat /\ s[j].hidden \subseteq Nat
         /\ s[j].symbols \in Symbols /\ DOMAIN s[j].symbols \subseteq Names
         /\ \A n \in DOMAIN s[j].symbols :
              s[j].symbols[n].slot \in Int /\ s[j].symbols[n].boxed \in BOOLEAN
<1>1. s[j] \in ScopeNodes
  OBVIOUS
<1>2. s[j].next \in Nat /\ s[j].fn \in Nat /\ s[j].hidden \subseteq Nat /\ s[j].symbols \in Symbols
  BY <1>1 DEF ScopeNodes
<1>3. PICK D \in SUBSET Names : s[j].symbols \in [D -> [slot : Int, boxed : BOOLEAN]]
  BY <1>2 DEF Symbols
<1> QED
  BY <1>1, <1>2, <1>3

\* The scopes that a construct leaves fit the levels it leaves.
LEMMA Lower ==
  ASSUME NEW s, NEW L \in Seq(Levels), NEW cl, Frame(s, L, cl), NEW m \in Nat, m <= Len(L),
         NEW s2, NEW M \in Seq(Levels), m <= Len(M), NEW cl2,
         \A j \in 1..m : s2[j] = s[j] /\ Same(M[j], L[j]), Kept(s, L, cl, cl2, m)
  PROVE  \A j \in 1..m : Fits(s2, M, cl2, j)
<1> SUFFICES ASSUME NEW j \in 1..m PROVE Fits(s2, M, cl2, j)
  OBVIOUS
<1>1. j \in 1..Len(L) /\ j \in 1..Len(M) /\ (j > 1 => j - 1 \in 1..m)
  OBVIOUS
<1>2. s \in Seq(ScopeNodes) /\ Len(s) = Len(L) /\ Fits(s, L, cl, j)
  BY <1>1 DEF Frame
<1>3. /\ s2[j] = s[j] /\ M[j].op = L[j].op /\ M[j].fn = L[j].fn /\ M[j].first = L[j].first
      /\ M[j].env = L[j].env /\ M[j].base = L[j].base /\ M[j].count >= L[j].count
      /\ j > 1 => s2[j - 1] = s[j - 1] /\ M[j - 1].env = L[j - 1].env
  BY <1>1 DEF Same
<1>4. Node(s2[j], M[j])
  <2>1. /\ L[j].base \in Nat /\ L[j].count \in Nat /\ M[j].count \in Nat /\ s[j].next \in Nat
    BY <1>1, <1>2, LevelHas, SymbolIs
  <2> QED
    BY <1>2, <1>3, <2>1, SMTT(30) DEF Fits, Node
<1>5. Slots(s2, M, j)
  BY <1>2, <1>3 DEF Fits, Slots
<1>6. Contents(s2, M, cl2, j)
  <2>1. ASSUME NEW n \in DOMAIN s[j].symbols
        PROVE  Holds(cl2, M[j].fn, s2[j].symbols[n].slot,
                     Value(M[j].env[n], s2[j].symbols[n].boxed))
    <3>1. s[j].symbols[n].slot \in Int /\ s[j].symbols[n].slot < s[j].next
      BY <1>1, <1>2, SymbolIs DEF Fits, Slots
    <3>2. Holds(cl, L[j].fn, s[j].symbols[n].slot, Value(L[j].env[n], s[j].symbols[n].boxed))
      BY <1>2 DEF Fits, Contents
    <3> QED
      BY <1>3, <3>1, <3>2 DEF Holds, Kept
  <2>2. ASSUME L[j].op = "for", NEW x \in s[j].hidden
        PROVE  Holds(cl2, M[j].fn, x, Value(M[j].first, FALSE))
    <3>1. x \in Int /\ x < s[j].next
      BY <1>1, <1>2, <2>2, SymbolIs DEF Fits, Slots
    <3>2. Holds(cl, L[j].fn, x, Value(L[j].first, FALSE))
      BY <1>2, <2>2 DEF Fits, Contents
    <3> QED
      BY <1>3, <3>1, <3>2 DEF Holds, Kept
  <2> QED
    BY <1>3, <2>1, <2>2 DEF Contents
<1>7. Known(s2, M, j) /\ Through(s2, M, j)
  BY <1>2, <1>3 DEF Fits, Known, Through
<1> QED
  BY <1>4, <1>5, <1>6, <1>7 DEF Fits

\* What a construct makes of the scopes: the first m stay, and there is at most
\* one more.
Builds(prog, h, p, s, L, cl, s2, M, cl2, m) ==
  /\ L \in Seq(Levels) /\ Frame(s, L, cl) /\ m \in Nat \ {0} /\ m <= Len(L)
  /\ s2 \in Seq(ScopeNodes) /\ Len(s2) = Len(M) /\ Good(prog, h, M, p) /\ p \in Nat \ {0}
  /\ DOMAIN cl2 = Ids
  /\ Len(M) = m \/ (Len(M) = m + 1 /\ Fits(s2, M, cl2, m + 1))
  /\ \A j \in 1..m : s2[j] = s[j] /\ Same(M[j], L[j])
  /\ Kept(s, L, cl, cl2, m)

\* Such scopes fit the levels that the construct leaves.
LEMMA Built ==
  ASSUME NEW prog, NEW h, NEW p, NEW s, NEW L, NEW cl, NEW s2, NEW M, NEW cl2, NEW m,
         Builds(prog, h, p, s, L, cl, s2, M, cl2, m)
  PROVE  Frame(s2, M, cl2)
<1>1. /\ L \in Seq(Levels) /\ Frame(s, L, cl) /\ m \in Nat \ {0} /\ m <= Len(L)
      /\ s2 \in Seq(ScopeNodes) /\ Len(s2) = Len(M) /\ Good(prog, h, M, p) /\ p \in Nat \ {0}
      /\ DOMAIN cl2 = Ids
      /\ Len(M) = m \/ (Len(M) = m + 1 /\ Fits(s2, M, cl2, m + 1))
      /\ \A j \in 1..m : s2[j] = s[j] /\ Same(M[j], L[j])
      /\ Kept(s, L, cl, cl2, m)
  BY DEF Builds
<1>2. M \in Seq(Levels) /\ GoodOrder(M) /\ GoodBlock(M)
  BY <1>1 DEF Good
<1>3. m <= Len(M) /\ Len(M) \in Nat /\ Len(L) \in Nat /\ Len(s) = Len(L) /\ s \in Seq(ScopeNodes)
  BY <1>1, <1>2 DEF Frame
<1>4. \A j \in 1..m : Fits(s2, M, cl2, j)
  <2>1. m \in Nat
    BY <1>1
  <2> QED
    BY <1>1, <1>2, <1>3, <2>1, Lower
<1>5. \A j \in 1..Len(M) : Fits(s2, M, cl2, j)
  <2> SUFFICES ASSUME NEW j \in 1..Len(M) PROVE Fits(s2, M, cl2, j)
    OBVIOUS
  <2>1. j \in 1..m \/ (Len(M) = m + 1 /\ j = m + 1)
    BY <1>1, <1>3
  <2> QED
    BY <1>1, <1>4, <2>1
<1>6. DOMAIN s2[1].symbols = {}
  <2>1. 1 \in 1..m
    BY <1>1
  <2> QED
    BY <1>1, <2>1 DEF Frame
<1>7. \A i, j \in 1..m : i < j /\ M[i].fn = M[j].fn => s2[i].next <= s2[j].next
  <2> SUFFICES ASSUME NEW i \in 1..m, NEW j \in 1..m, i < j, M[i].fn = M[j].fn
               PROVE  s2[i].next <= s2[j].next
    OBVIOUS
  <2>1. L[i].fn = L[j].fn /\ s2[i] = s[i] /\ s2[j] = s[j] /\ i \in 1..Len(L) /\ j \in 1..Len(L)
    BY <1>1, <1>3 DEF Same
  <2> QED
    BY <1>1, <2>1 DEF Frame, Rising
<1>8. ASSUME Len(M) = m + 1, NEW i \in 1..m, M[i].fn = M[m + 1].fn
      PROVE  s2[i].next <= s2[m + 1].next
  <2>1. m + 1 \in 2..Len(M) /\ m + 1 \in 1..Len(M) /\ i \in 1..Len(M) /\ m \in 1..m /\ i < m + 1
        /\ (m + 1) - 1 = m /\ m + 1 > 1
    BY <1>1, <1>3, <1>8
  <2>2. ~Made(M[m + 1].op)
    <3>1. M[i] \in Levels /\ M[i].fn \in Nat
      BY <1>2, <2>1, LevelHas
    <3> QED
      BY <1>2, <1>8, <2>1, <3>1 DEF GoodOrder
  <2>3. M[m].fn = M[m + 1].fn
    BY <1>2, <2>1, <2>2 DEF GoodBlock
  <2>4. s2[m].next <= s2[m + 1].next
    BY <1>5, <2>1, <2>2 DEF Fits, Slots
  <2>5. CASE i = m
    BY <2>4, <2>5
  <2>6. CASE i # m
    <3>1. s2[i].next <= s2[m].next
      BY <1>7, <1>8, <2>1, <2>3, <2>6
    <3>2. s2[i].next \in Nat /\ s2[m].next \in Nat /\ s2[m + 1].next \in Nat
      BY <1>1, <1>3, <2>1, SymbolIs
    <3> QED
      BY <2>4, <3>1, <3>2
  <2> QED
    BY <2>5, <2>6
<1>9. Rising(s2, M)
  <2> SUFFICES ASSUME NEW i \in 1..Len(M), NEW j \in 1..Len(M), i < j, M[i].fn = M[j].fn
               PROVE  s2[i].next <= s2[j].next
    BY DEF Rising
  <2>1. i \in 1..m
    BY <1>1, <1>3
  <2>2. CASE j \in 1..m
    BY <1>7, <2>1, <2>2
  <2>3. CASE j \notin 1..m
    <3>1. Len(M) = m + 1 /\ j = m + 1
      BY <1>1, <1>3, <2>3
    <3> QED
      BY <1>8, <2>1, <3>1
  <2> QED
    BY <2>2, <2>3
<1> QED
  BY <1>1, <1>5, <1>6, <1>9 DEF Frame

\* A slot of a function written: the scopes that end before it keep theirs.
LEMMA PutKeeps ==
  ASSUME NEW s, NEW L, NEW cl, DOMAIN cl = Ids, NEW f \in Ids, NEW new, NEW m \in Nat,
         \A j \in 1..m : L[j].fn = f => \A x \in DOMAIN new : ~(x < s[j].next)
  PROVE  Kept(s, L, cl, [cl EXCEPT ![f] = With(@, new)], m)
<1> SUFFICES ASSUME NEW j \in 1..m, NEW x \in DOMAIN cl[L[j].fn], x \in Int, x < s[j].next
             PROVE  /\ x \in DOMAIN [cl EXCEPT ![f] = With(@, new)][L[j].fn]
                    /\ [cl EXCEPT ![f] = With(@, new)][L[j].fn][x] = cl[L[j].fn][x]
  BY DEF Kept
<1>1. CASE L[j].fn # f
  BY <1>1
<1>2. CASE L[j].fn = f
  <2>1. [cl EXCEPT ![f] = With(@, new)][f] = With(cl[f], new)
    OBVIOUS
  <2>2. x \notin DOMAIN new
    BY <1>2
  <2>3. x \in DOMAIN With(cl[f], new) /\ With(cl[f], new)[x] = cl[f][x]
    BY <1>2, <2>2 DEF With
  <2> QED
    BY <1>2, <2>1, <2>3
<1> QED
  BY <1>1, <1>2

\* A name denotes the same in all levels that have no symbol of it.
LEMMA Chain ==
  ASSUME NEW s, NEW L \in Seq(Levels), NEW n \in Names, NEW x \in 1..Len(L),
         \A i \in (x + 1)..Len(L) : n \notin DOMAIN s[i].symbols /\ Through(s, L, i)
  PROVE  L[Len(L)].env[n] = L[x].env[n]
<1> DEFINE N == Len(L)
           T == {i \in x..N : L[i].env[n] # L[x].env[n]}
<1>1. N \in Nat /\ x \in 1..N
  OBVIOUS
<1> HIDE DEF N
<1>2. T = {}
  <2> SUFFICES ASSUME T # {} PROVE FALSE
    OBVIOUS
  <2>1. T \in SUBSET Nat
    BY <1>1
  <2>2. PICK i \in T : \A y \in T : i <= y
    BY <2>1, Least
  <2>3. i \in x..N /\ i # x /\ L[i].env[n] # L[x].env[n]
    BY <2>2
  <2>4. i \in (x + 1)..N /\ i > 1 /\ i - 1 \in x..N
    BY <1>1, <2>3
  <2>5. L[i].env[n] = L[i - 1].env[n]
    BY <2>4 DEF Through, N
  <2>6. i - 1 \notin T
    BY <1>1, <2>2, <2>4
  <2> QED
    BY <2>3, <2>4, <2>5, <2>6
<1>3. N \in x..N
  BY <1>1
<1> QED
  BY <1>2, <1>3 DEF N

\* A name looked up finds its variable, in the slot of a symbol,
Reaches(s, L, n) ==
  \E x \in 1..Len(L) :
    /\ L[x].fn = Inner(L).fn /\ n \in DOMAIN s[x].symbols /\ L[x].env[n] = Inner(L).env[n]
    /\ Resolve(s, n) = s[x].symbols[n]
    /\ Word(s, n) = Value(Inner(L).env[n], s[x].symbols[n].boxed)
\* or it is of no variable of this function.
Misses(s, L, n) ==
  LET g == Inner(L).fn
      v == Inner(L).env[n]
  IN /\ Resolve(s, n) = Global /\ Word(s, n) = Value(0, FALSE)
     /\ g = 0 => v = 0
     /\ g # 0 => v < g /\ v = outer[g][n] /\ n \notin ToSet(upvalues[g])

\* resolve_symbol finds the variable that is meant, or none of this function.
LEMMA Lookup ==
  ASSUME NEW h, Story(program, h), Facts(h), NEW p \in 1..(Len(program) + 1), NEW L,
         Good(program, h, L, p), NEW s, Frame(s, L, cells), NEW n \in Names
  PROVE  Reaches(s, L, n) \/ Misses(s, L, n)
<1>1. PICK N : N = Len(L)
  OBVIOUS
<1>2. PICK g : g = Inner(L).fn
  OBVIOUS
<1>3. p \in Nat \ {0} /\ program \in Seq(Constructs) /\ Len(program) \in Nat
  BY DEF Story
<1>4. /\ N \in Nat /\ N >= 1 /\ Inner(L) = L[N] /\ g \in Nat /\ g < p /\ g = L[N].fn
      /\ L \in Seq(Levels)
      /\ \A j \in 1..N : L[j] \in Levels /\ L[j].fn \in Nat /\ L[j].fn <= g
  BY <1>1, <1>2, <1>3, InnerIs DEF Good
<1>5. GoodOrder(L) /\ GoodFirst(L)
  BY DEF Good
<1>6. /\ s \in Seq(ScopeNodes) /\ Len(s) = N /\ DOMAIN s[1].symbols = {}
      /\ \A j \in 1..N : Fits(s, L, cells, j)
  BY <1>1 DEF Frame
<1>7. \A j \in 1..N : s[j].fn = L[j].fn /\ Through(s, L, j)
  BY <1>6 DEF Fits, Node
<1> DEFINE T == {i \in 1..N : L[i].fn = g /\ n \in DOMAIN s[i].symbols}
<1>8. {i \in DOMAIN s : s[i].fn = Last(s).fn /\ n \in DOMAIN s[i].symbols} = T
  <2>1. DOMAIN s = 1..N /\ Last(s) = s[N] /\ N \in 1..N
    BY <1>4, <1>6 DEF Last
  <2>2. Last(s).fn = g
    BY <1>4, <1>7, <2>1
  <2>3. \A i \in 1..N : (s[i].fn = Last(s).fn /\ n \in DOMAIN s[i].symbols)
                        <=> (L[i].fn = g /\ n \in DOMAIN s[i].symbols)
    BY <1>7, <2>2
  <2> QED
    BY <2>1, <2>3
<1> HIDE DEF T
<1>9. Last(s).fn = g
  <2>1. N \in 1..N /\ Last(s) = s[N]
    BY <1>4, <1>6 DEF Last
  <2> QED
    BY <1>4, <1>7, <2>1
<1>10. CASE T = {}
  <2>1. Resolve(s, n) = Global
    BY <1>8, <1>10 DEF Resolve
  <2>2. Word(s, n) = Value(0, FALSE)
    BY <2>1 DEF Word
  <2>3. \A i \in 1..N : L[i].fn = g => n \notin DOMAIN s[i].symbols
    BY <1>10 DEF T
  <2>4. CASE g = 0
    <3>1. 1 \in 1..Len(L) /\ \A i \in 2..N : i \in 1..N /\ L[i].fn = 0
      <4>1. ASSUME NEW i \in 2..N PROVE i \in 1..N /\ L[i].fn = 0
        <5>1. i \in 1..N
          BY <1>4
        <5>2. L[i].fn \in Nat /\ L[i].fn <= 0
          BY <1>4, <2>4, <5>1
        <5> QED
          BY <5>1, <5>2
      <4> QED
        BY <1>1, <1>4, <4>1
    <3>2. \A i \in (1 + 1)..Len(L) : n \notin DOMAIN s[i].symbols /\ Through(s, L, i)
      BY <1>1, <1>7, <2>3, <2>4, <3>1
    <3>3. L[Len(L)].env[n] = L[1].env[n]
      BY <1>4, <3>1, <3>2, Chain
    <3>4. L[1].env[n] = 0
      BY <1>5 DEF GoodFirst
    <3> QED
      BY <1>1, <1>2, <1>4, <2>1, <2>2, <2>4, <3>3, <3>4 DEF Misses
  <2>5. CASE g # 0
    <3>1. N \in 1..Len(L) /\ L[N].fn # 0
      BY <1>1, <1>4, <2>5
    <3>2. PICK j \in 2..Len(L) : Begins(program, h, L, N, j)
      BY <1>3, <3>1, FrameIs
    <3>3. /\ Made(L[j].op) /\ L[j].fn = g /\ Inner(h[g]) = L[j - 1] /\ L[j].op = program[g].op
          /\ \A m \in 1..N : m >= j => L[m].fn >= g
      BY <1>1, <1>4, <3>2 DEF Begins
    <3>4. j \in 2..N /\ j \in 1..N /\ j - 1 \in 1..Len(L) /\ (j - 1) + 1 = j
      BY <1>1, <1>4
    <3>5. \A i \in j..N : i \in 1..N /\ L[i].fn = g
      <4> SUFFICES ASSUME NEW i \in j..N PROVE i \in 1..N /\ L[i].fn = g
        OBVIOUS
      <4>1. i \in 1..N /\ i >= j
        BY <1>4, <3>4
      <4> QED
        BY <1>4, <3>3, <4>1
    <3>6. \A i \in ((j - 1) + 1)..Len(L) : n \notin DOMAIN s[i].symbols /\ Through(s, L, i)
      BY <1>1, <1>7, <2>3, <3>4, <3>5
    <3>7. L[Len(L)].env[n] = L[j - 1].env[n]
      BY <1>4, <3>4, <3>6, Chain
    <3>8. g \in 1..Len(program) /\ g \in 1..(Len(program) + 1)
      BY <1>3, <1>4, <2>5
    <3>9. FunctionFact(h[g], program[g].name, g) /\ Good(program, h, h[g], g)
      BY <3>3, <3>8 DEF Facts, Fact, Story
    <3>10. outer[g] = Inner(h[g]).env
      BY <3>9 DEF FunctionFact
    <3>11. L[N].env[n] = outer[g][n]
      BY <1>1, <3>3, <3>7, <3>10
    <3>12. Inner(h[g]).env[n] < g
      <4>1. g \in Nat \ {0}
        BY <3>8
      <4> QED
        BY <3>9, <4>1, InnerIs
    <3>13. n \notin ToSet(upvalues[g])
      <4>1. ToSet(upvalues[g]) \subseteq DOMAIN s[j].symbols
        BY <1>6, <3>3, <3>4 DEF Fits, Known
      <4> QED
        BY <2>3, <3>3, <3>4, <4>1
    <3> QED
      BY <1>2, <1>4, <2>1, <2>2, <2>5, <3>10, <3>11, <3>12, <3>13 DEF Misses
  <2> QED
    BY <2>4, <2>5
<1>11. CASE T # {}
  <2>1. T \in SUBSET (0..N)
    BY DEF T
  <2>2. PICK x \in T : \A y \in T : y <= x
    BY <1>4, <1>11, <2>1, Greatest
  <2>3. x \in 1..N /\ x \in 1..Len(L) /\ L[x].fn = g /\ n \in DOMAIN s[x].symbols
    BY <1>1, <2>2 DEF T
  <2>4. Max(T) = x
    <3>1. \A y \in T : y \in Nat
      BY <2>1
    <3>2. \A y \in T : x >= y
      BY <2>2, <3>1
    <3>3. \A z \in T : (\A y \in T : z >= y) => z = x
      <4> SUFFICES ASSUME NEW z \in T, \A y \in T : z >= y PROVE z = x
        OBVIOUS
      <4>1. z >= x /\ x >= z /\ z \in Nat /\ x \in Nat
        BY <3>1, <3>2
      <4> QED
        BY <4>1
    <3> QED
      BY <3>2, <3>3 DEF Max
  <2>5. Resolve(s, n) = s[x].symbols[n]
    BY <1>8, <1>11, <2>4 DEF Resolve
  <2>6. /\ s[x].symbols[n].slot # 0
        /\ Holds(cells, g, s[x].symbols[n].slot, Value(L[x].env[n], s[x].symbols[n].boxed))
    BY <1>6, <2>3 DEF Fits, Slots, Contents
  <2>7. s[x].symbols[n] # Global
    <3>1. Global.slot = 0
      BY DEF Global
    <3> QED
      BY <2>6, <3>1
  <2>8. Word(s, n) = Value(L[x].env[n], s[x].symbols[n].boxed)
    BY <1>9, <2>5, <2>6, <2>7 DEF Word, Holds
  <2>9. \A i \in (x + 1)..Len(L) : n \notin DOMAIN s[i].symbols /\ Through(s, L, i)
    <3> SUFFICES ASSUME NEW i \in (x + 1)..Len(L)
                 PROVE  n \notin DOMAIN s[i].symbols /\ Through(s, L, i)
      OBVIOUS
    <3>1. i \in 1..N /\ x < i /\ x \in 1..N /\ i \in 1..Len(L)
      BY <1>1, <1>4, <2>3
    <3>2. L[x].fn <= L[i].fn /\ L[i].fn <= g /\ L[i].fn \in Nat
      BY <1>4, <1>5, <2>3, <3>1 DEF GoodOrder
    <3>3. L[i].fn = g
      BY <1>4, <2>3, <3>2
    <3>4. i \notin T
      BY <2>2, <2>3, <3>1
    <3> QED
      BY <1>7, <3>1, <3>3, <3>4 DEF T
  <2>10. L[Len(L)].env[n] = L[x].env[n]
    BY <1>4, <2>3, <2>9, Chain
  <2> QED
    BY <1>1, <1>2, <1>4, <2>3, <2>5, <2>8, <2>10 DEF Reaches
<1> QED
  BY <1>10, <1>11

\* The word that a use gets at is of the variable that it means.
LEMMA LoadIs ==
  ASSUME NEW h, Story(program, h), Facts(h), NEW p \in 1..Len(program), NEW L, L = h[p],
         Frame(scopes, L, cells), program[p].op = "use", program[p].name \in Names,
         "block" \notin Extras
  PROVE  Load(program[p].name) = meant[p]
<1>1. PICK n : n = program[p].name
  OBVIOUS
<1>2. PICK g : g = Inner(L).fn
  OBVIOUS
<1>3. Good(program, h, L, p) /\ UseFact(L, n, p) /\ n \in Names /\ p \in 1..(Len(program) + 1)
  BY <1>1 DEF Story, Facts, Fact
<1>4. /\ meant[p] = Inner(L).env[n]
      /\ g # 0 /\ meant[p] = outer[g][n] /\ meant[p] # 0 => n \in ToSet(upvalues[g])
  BY <1>2, <1>3 DEF UseFact
<1>5. CASE Reaches(scopes, L, n)
  BY <1>1, <1>4, <1>5 DEF Reaches, Load, Value
<1>6. CASE Misses(scopes, L, n)
  <2>1. meant[p] = 0
    BY <1>2, <1>4, <1>6 DEF Misses
  <2>2. Load(n) = 0
    BY <1>6 DEF Misses, Load, Value, Global
  <2> QED
    BY <1>1, <2>1, <2>2
<1> QED
  BY <1>3, <1>5, <1>6, Lookup

\* The word that a name has where a function is made is the box of the variable
\* that the function was written to capture.
LEMMA WordIs ==
  ASSUME NEW h, Story(program, h), Facts(h), NEW f \in 1..Len(program), Made(program[f].op),
         NEW p \in 1..(Len(program) + 1), NEW L, Good(program, h, L, p), Inner(h[f]) = Inner(L),
         NEW s, Frame(s, L, cells), upvalues[f] \in Seq(Names), NEW u \in ToSet(upvalues[f])
  PROVE  Word(s, u) = Value(outer[f][u], TRUE)
<1>1. PICK g : g = Inner(L).fn
  OBVIOUS
<1>2. FunctionFact(h[f], program[f].name, f)
  BY DEF Facts, Fact
<1>3. /\ outer[f] = Inner(L).env /\ g # 0
      /\ \/ outer[f][u] >= g /\ u \in boxed[g]
         \/ outer[f][u] < g /\ u \in ToSet(upvalues[g])
  BY <1>1, <1>2 DEF FunctionFact, Passes
<1>4. u \in Names
  BY DEF ToSet
<1>5. p \in Nat \ {0}
  BY DEF Story
<1>6. Inner(L).env[u] \in Nat /\ g \in Nat /\ L \in Seq(Levels)
      /\ \A j \in 1..Len(L) : L[j].env[u] \in Nat
  BY <1>1, <1>4, <1>5, InnerIs DEF Good
<1>7. CASE Reaches(s, L, u)
  <2>1. PICK x \in 1..Len(L) :
          /\ L[x].fn = g /\ u \in DOMAIN s[x].symbols /\ L[x].env[u] = Inner(L).env[u]
          /\ Word(s, u) = Value(Inner(L).env[u], s[x].symbols[u].boxed)
    BY <1>1, <1>7 DEF Reaches
  <2>2. Known(s, L, x)
    BY DEF Frame, Fits
  <2>3. s[x].symbols[u].boxed = TRUE
    <3>1. CASE u \in boxed[g]
      BY <2>1, <2>2, <3>1 DEF Known
    <3>2. CASE outer[f][u] < g /\ u \in ToSet(upvalues[g])
      <4>1. Made(L[x].op)
        <5> SUFFICES ASSUME ~Made(L[x].op) PROVE FALSE
          OBVIOUS
        <5>1. L[x].env[u] >= g
          BY <2>1, <2>2 DEF Known
        <5> QED
          BY <1>3, <1>6, <2>1, <3>2, <5>1
      <4> QED
        BY <2>1, <2>2, <3>2, <4>1 DEF Known
    <3> QED
      BY <1>3, <3>1, <3>2
  <2> QED
    BY <1>3, <2>1, <2>3
<1>8. CASE Misses(s, L, u)
  <2>1. Inner(L).env[u] < g /\ u \notin ToSet(upvalues[g])
    BY <1>1, <1>3, <1>8 DEF Misses
  <2> QED
    BY <1>3, <1>6, <2>1
<1> QED
  BY <1>4, <1>7, <1>8, Lookup

\* What generating keeps.
Denoted ==
  /\ DOMAIN denotes = 1..MaxLength /\ \A i \in pc..MaxLength : denotes[i] = 0
  /\ "block" \notin Extras => UsesDenote
Boxes(r) ==
  \A k \in DOMAIN r.words : r.words[k] = Value(outer[r.fn][upvalues[r.fn][k]], TRUE)

EmitInv(h) ==
  /\ pc \in 1..(Len(program) + 1) /\ AnalysisTyped /\ Story(program, h) /\ Facts(h) /\ Enough(h)
  /\ Frame(scopes, h[pc], cells) /\ Denoted
  /\ "named" \notin Extras => CapturesBoxes

\* The analysis is over.
LEMMA FactsStay ==
  ASSUME NEW h, Facts(h), UNCHANGED <<program, upvalues, boxed, outer, counted, meant>>
  PROVE  Facts(h)'
<1> SUFFICES ASSUME NEW q \in 1..Len(program) PROVE Fact(h[q], q)'
  BY DEF Facts
<1> DEFINE L == h[q]
<1>1. Fact(L, q)
  BY DEF Facts
<1> HIDE DEF L
<1>2. UseFact(L, program[q].name, q) => UseFact(L, program[q].name, q)'
  BY DEF UseFact
<1>3. FunctionFact(L, program[q].name, q) => FunctionFact(L, program[q].name, q)'
  BY DEF FunctionFact, Passes
<1>4. EndFact(L, q) => EndFact(L, q)'
  BY DEF EndFact
<1> QED
  BY <1>1, <1>2, <1>3, <1>4 DEF Fact, L

\* What the analysis found stays while code is generated,
LEMMA AnalysisStays ==
  ASSUME NEW h, AnalysisTyped, Story(program, h), Facts(h), Enough(h), UNCHANGED analysis
  PROVE  AnalysisTyped' /\ Story(program, h)' /\ Facts(h)' /\ Enough(h)'
<1>1. UNCHANGED <<program, home, free, upvalues, boxed, outer, counted, meant>>
  BY DEF analysis, results
<1>2. AnalysisTyped'
  BY <1>1 DEF AnalysisTyped
<1>3. Story(program, h)'
  BY <1>1
<1>4. Facts(h)'
  BY <1>1, FactsStay
<1>5. Enough(h)'
  BY <1>1 DEF Enough, EnoughAt
<1> QED
  BY <1>2, <1>3, <1>4, <1>5

\* and with it what fits the levels.
LEMMA FrameStays ==
  ASSUME NEW s, NEW L, NEW cl, Frame(s, L, cl), UNCHANGED <<upvalues, boxed>>
  PROVE  Frame(s, L, cl)'
<1>1. \A j \in 1..Len(L) : Known(s, L, j) => Known(s, L, j)'
  BY SMTT(30) DEF Known
<1>2. \A j \in 1..Len(L) : Fits(s, L, cl, j) => Fits(s, L, cl, j)'
  BY <1>1 DEF Fits, Node, Slots, Contents, Holds, Through, Value
<1> QED
  BY <1>2 DEF Frame, Rising, Ids

\* What is here while generating construct c.
Building(h, p, c, L, M) ==
  /\ p \in 1..Len(program) /\ p \in Nat \ {0} /\ p <= MaxLength /\ p \in Ids /\ MaxLength \in Nat
  /\ Good(program, h, L, p) /\ Good(program, h, M, p + 1) /\ Moves(L, M, c, p)
  /\ Naming(c.op) => c.name \in Names
  /\ Fact(L, p) /\ Frame(scopes, L, cells)
  /\ Len(L) \in Nat /\ Len(L) >= 1 /\ Len(scopes) = Len(L) /\ Scope = scopes[Len(L)]
  /\ L \in Seq(Levels) /\ M \in Seq(Levels) /\ Inner(L) = L[Len(L)] /\ Inner(L) \in Levels
  /\ scopes \in Seq(ScopeNodes) /\ DOMAIN cells = Ids /\ Scope \in ScopeNodes
  /\ Fits(scopes, L, cells, Len(L)) /\ Scope.op = Inner(L).op /\ Scope.fn = Inner(L).fn
  /\ \A j \in 1..Len(L) : /\ L[j] \in Levels /\ L[j].fn \in Nat /\ L[j].fn < p
                          /\ L[j].env \in [Names -> Nat]
  /\ Scope.fn \in Ids /\ pc' = p + 1

\* What generating a construct finds here.
LEMMA Generated ==
  ASSUME NEW h, EmitInv(h), NEW op, Generating(op), NEW p, p = pc, NEW c, c = program[p],
         NEW L, L = h[p], NEW M, M = h[p + 1]
  PROVE  Building(h, p, c, L, M) /\ c.op = op
<1>1. /\ pc \in 1..(Len(program) + 1) /\ AnalysisTyped /\ Story(program, h) /\ Facts(h)
      /\ Frame(scopes, h[pc], cells)
  BY DEF EmitInv
<1>2. program \in Seq(Constructs) /\ MaxLength \in Nat /\ Len(program) \in Nat
      /\ Len(program) <= MaxLength
  BY <1>1, ScopesAssumption DEF Story, AnalysisTyped
<1>3. p \in 1..Len(program) /\ c.op = op /\ pc' = p + 1
  BY <1>2 DEF Generating, This
<1>4. p \in Nat \ {0} /\ p <= MaxLength /\ p \in Ids /\ p \in 1..(Len(program) + 1)
      /\ p + 1 \in 1..(Len(program) + 1) /\ p + 1 \in Nat \ {0}
  BY <1>2, <1>3 DEF Ids
<1>5. /\ Good(program, h, L, p) /\ Good(program, h, M, p + 1) /\ Moves(L, M, c, p)
      /\ Naming(c.op) => c.name \in Names
      /\ Fact(L, p)
  BY <1>1, <1>3, <1>4 DEF Story, Facts
<1>6. /\ Len(L) \in Nat /\ Len(L) >= 1 /\ Inner(L) = L[Len(L)] /\ Inner(L) \in Levels
      /\ \A j \in 1..Len(L) : /\ L[j] \in Levels /\ L[j].fn \in Nat /\ L[j].fn < p
                              /\ L[j].env \in [Names -> Nat]
  BY <1>4, <1>5, InnerIs
<1>7. L \in Seq(Levels) /\ M \in Seq(Levels)
  BY <1>5 DEF Good
<1>8. /\ scopes \in Seq(ScopeNodes) /\ Len(scopes) = Len(L) /\ DOMAIN cells = Ids
      /\ \A j \in 1..Len(L) : Fits(scopes, L, cells, j)
  BY <1>1 DEF Frame
<1>9. Len(L) \in 1..Len(L)
  BY <1>6
<1>10. Scope = scopes[Len(L)] /\ Scope \in ScopeNodes
  BY <1>8, <1>9 DEF Scope
<1>11. Fits(scopes, L, cells, Len(L)) /\ Scope.op = Inner(L).op /\ Scope.fn = Inner(L).fn
  BY <1>6, <1>8, <1>9, <1>10 DEF Fits, Node
<1>12. Scope.fn \in Ids
  <2>1. Inner(L).fn \in Nat /\ Inner(L).fn < p
    BY <1>6, <1>9
  <2> QED
    BY <1>2, <1>4, <1>11, <2>1 DEF Ids
<1> QED
  BY <1>1, <1>2, <1>3, <1>4, <1>5, <1>6, <1>7, <1>8, <1>10, <1>11, <1>12 DEF Building

\* A construct generated that builds the scopes of its levels.
LEMMA EmitOn ==
  ASSUME NEW h, EmitInv(h), NEW p, p = pc, NEW c, c = program[p], NEW L, L = h[p],
         NEW M, M = h[p + 1], Building(h, p, c, L, M), UNCHANGED analysis, NEW m,
         Builds(program, h, p + 1, scopes, L, cells, scopes', M, cells', m),
         denotes' = denotes \/ \E w : denotes' = [denotes EXCEPT ![p] = w],
         "block" \notin Extras => denotes'[p] = meant[p],
         "named" \notin Extras => \A r \in records' : r \in records \/ Boxes(r)
  PROVE  EmitInv(h)'
<1>1. /\ AnalysisTyped /\ Story(program, h) /\ Facts(h) /\ Enough(h) /\ Denoted
      /\ "named" \notin Extras => CapturesBoxes
  BY DEF EmitInv
<1>2. p \in 1..Len(program) /\ pc' = p + 1 /\ p <= MaxLength /\ MaxLength \in Nat /\ p \in Nat
      /\ Len(program) \in Nat
  BY <1>1 DEF Building, Story
<1>3. UNCHANGED <<program, upvalues, boxed, outer, meant>>
  BY DEF analysis, results
<1>4. AnalysisTyped' /\ Story(program, h)' /\ Facts(h)' /\ Enough(h)'
  BY <1>1, AnalysisStays
<1>5. Frame(scopes, h[pc], cells)'
  <2>1. PICK s2 : s2 = scopes'
    OBVIOUS
  <2>2. PICK cl2 : cl2 = cells'
    OBVIOUS
  <2>3. Frame(s2, M, cl2)
    BY <2>1, <2>2, Built
  <2>4. Frame(s2, M, cl2)'
    BY <1>3, <2>3, FrameStays
  <2> QED
    BY <1>2, <2>1, <2>2, <2>4
<1>6. DOMAIN denotes' = 1..MaxLength /\ \A i \in 1..MaxLength : i # p => denotes'[i] = denotes[i]
  <2>1. DOMAIN denotes = 1..MaxLength
    BY <1>1 DEF Denoted
  <2> QED
    BY <2>1
<1>7. \A i \in pc'..MaxLength : denotes'[i] = 0
  <2> SUFFICES ASSUME NEW i \in (p + 1)..MaxLength PROVE denotes'[i] = 0
    BY <1>2
  <2>1. i \in p..MaxLength /\ i \in 1..MaxLength /\ i # p
    BY <1>2
  <2>2. denotes[i] = 0
    BY <1>1, <2>1 DEF Denoted
  <2> QED
    BY <1>6, <2>1, <2>2
<1>8. "block" \notin Extras => UsesDenote'
  <2> SUFFICES ASSUME "block" \notin Extras, NEW i \in 1..p PROVE denotes'[i] = meant[i]
    BY <1>2, <1>3 DEF UsesDenote
  <2>1. CASE i = p
    BY <2>1
  <2>2. CASE i # p
    <3>1. i \in 1..(pc - 1) /\ i \in 1..MaxLength
      BY <1>2, <2>2
    <3>2. denotes[i] = meant[i]
      BY <1>1, <3>1 DEF Denoted, UsesDenote
    <3> QED
      BY <1>6, <2>2, <3>1, <3>2
  <2> QED
    BY <2>1, <2>2
<1>9. "named" \notin Extras => CapturesBoxes'
  <2> SUFFICES ASSUME "named" \notin Extras, NEW r \in records', NEW k \in DOMAIN r.words
               PROVE  r.words[k] = Value(outer[r.fn][upvalues[r.fn][k]], TRUE)
    BY <1>3 DEF CapturesBoxes, Value
  <2>1. r \in records \/ Boxes(r)
    OBVIOUS
  <2> QED
    BY <1>1, <2>1 DEF CapturesBoxes, Boxes
<1>10. pc' \in 1..(Len(program') + 1)
  BY <1>2, <1>3
<1>11. Denoted'
  BY <1>6, <1>7, <1>8 DEF Denoted
<1> QED
  BY <1>4, <1>5, <1>9, <1>10, <1>11 DEF EmitInv

\* A construct generated that is no use and makes no function.
LEMMA EmitQuietly ==
  ASSUME NEW h, EmitInv(h), NEW p, p = pc, NEW c, c = program[p], NEW L, L = h[p],
         NEW M, M = h[p + 1], Building(h, p, c, L, M), UNCHANGED <<analysis, denotes, records>>, NEW m,
         Builds(program, h, p + 1, scopes, L, cells, scopes', M, cells', m),
         c.op # "use", ~(c.op = "end" /\ Inner(L).op = "for")
  PROVE  EmitInv(h)'
<1>1. meant[p] = 0
  BY DEF Building, Fact
<1>2. p \in pc..MaxLength
  BY DEF Building
<1>3. denotes'[p] = meant[p]
  BY <1>1, <1>2 DEF EmitInv, Denoted
<1>4. UNCHANGED analysis /\ denotes' = denotes /\ \A r \in records' : r \in records \/ Boxes(r)
  OBVIOUS
<1> QED
  BY <1>3, <1>4, EmitOn

\* The symbols of a new scope.
LEMMA NoSymbols == <<>> \in Symbols /\ DOMAIN <<>> = {}
<1> DEFINE R == [slot : Int, boxed : BOOLEAN]
<1>1. <<>> \in Seq(R) /\ Len(<<>>) = 0
  OBVIOUS
<1>2. <<>> \in [1..0 -> R] /\ DOMAIN <<>> = {}
  BY <1>1
<1>3. 1..0 = {} /\ {} \in SUBSET Names
  OBVIOUS
<1> QED
  BY <1>2, <1>3 DEF Symbols

\* Slots that nothing is written to are kept.
LEMMA KeptAll ==
  ASSUME NEW s, NEW L, NEW cl, NEW m
  PROVE  Kept(s, L, cl, cl, m)
BY DEF Kept

\* A level is as itself.
LEMMA SameLevel ==
  ASSUME NEW b \in Levels
  PROVE  Same(b, b)
BY LevelHas DEF Same

\* A scope without symbols.
LEMMA BareFits ==
  ASSUME NEW s, NEW L, NEW cl, NEW j \in Nat, DOMAIN s[j].symbols = {},
         ~Made(L[j].op), L[j].op # "for", s[j].next \in Nat, s[j].next = s[j - 1].next,
         Node(s[j], L[j]), L[j].env = L[j - 1].env
  PROVE  Fits(s, L, cl, j)
<1>1. Slots(s, L, j)
  BY DEF Slots
<1>2. Contents(s, L, cl, j)
  BY DEF Contents
<1>3. Known(s, L, j)
  BY DEF Known
<1>4. Through(s, L, j)
  BY DEF Through
<1> QED
  BY <1>1, <1>2, <1>3, <1>4 DEF Fits

\* The levels stay.
LEMMA NothingBuilt ==
  ASSUME NEW h, NEW p, NEW c, NEW L, NEW M, Building(h, p, c, L, M), M = L,
         UNCHANGED <<scopes, cells>>
  PROVE  Builds(program, h, p + 1, scopes, L, cells, scopes', M, cells', Len(L))
<1>1. \A j \in 1..Len(L) : Same(L[j], L[j])
  BY SameLevel DEF Building
<1>2. Kept(scopes, L, cells, cells, Len(L))
  BY KeptAll
<1> QED
  BY <1>1, <1>2 DEF Building, Builds

\* The words of a use and of a call.
LEMMA UseEmitted ==
  ASSUME NEW h, EmitInv(h), EmitUse
  PROVE  EmitInv(h)'
<1>1. PICK p : p = pc
  OBVIOUS
<1>2. PICK c : c = program[p]
  OBVIOUS
<1>3. PICK L : L = h[p]
  OBVIOUS
<1>4. PICK M : M = h[p + 1]
  OBVIOUS
<1>5. /\ Generating("use") /\ denotes' = [denotes EXCEPT ![p] = Load(c.name)]
      /\ UNCHANGED <<analysis, scopes, cells, records>>
  BY <1>1, <1>2 DEF EmitUse, This
<1>6. Building(h, p, c, L, M) /\ c.op = "use"
  BY <1>1, <1>2, <1>3, <1>4, <1>5, Generated
<1>7. M = L
  BY <1>6 DEF Building, Moves, MovesLocal, MovesBlock, MovesElse, MovesFor, MovesFunction, MovesEnd, Made
<1>8. Builds(program, h, p + 1, scopes, L, cells, scopes', M, cells', Len(L))
  BY <1>5, <1>6, <1>7, NothingBuilt
<1>9. "block" \notin Extras => denotes'[p] = meant[p]
  <2> SUFFICES ASSUME "block" \notin Extras PROVE denotes'[p] = meant[p]
    OBVIOUS
  <2>1. p \in DOMAIN denotes
    BY <1>6 DEF Building, EmitInv, Denoted
  <2>2. /\ Story(program, h) /\ Facts(h) /\ p \in 1..Len(program) /\ Frame(scopes, L, cells)
        /\ program[p].op = "use" /\ program[p].name \in Names
    BY <1>2, <1>6 DEF EmitInv, Building, Naming
  <2>3. Load(program[p].name) = meant[p]
    BY <1>3, <2>2, LoadIs
  <2> QED
    BY <1>2, <1>5, <2>1, <2>3
<1>10. /\ UNCHANGED analysis /\ \E w : denotes' = [denotes EXCEPT ![p] = w]
       /\ \A r \in records' : r \in records \/ Boxes(r)
  BY <1>5
<1> QED
  BY <1>1, <1>2, <1>3, <1>4, <1>6, <1>8, <1>9, <1>10, EmitOn

\* A use of the named function makes its record of the names as they stand.
LEMMA CallEmitted ==
  ASSUME NEW h, EmitInv(h), EmitCall
  PROVE  EmitInv(h)'
<1>1. PICK p : p = pc
  OBVIOUS
<1>2. PICK c : c = program[p]
  OBVIOUS
<1>3. PICK L : L = h[p]
  OBVIOUS
<1>4. PICK M : M = h[p + 1]
  OBVIOUS
<1>5. Generating("call") /\ UNCHANGED <<analysis, scopes, cells, denotes>>
  BY DEF EmitCall
<1>6. PICK f \in DOMAIN program : program[f].op = "named" /\ records' = records \cup {Record(f, scopes)}
  BY DEF EmitCall
<1>7. Building(h, p, c, L, M) /\ c.op = "call"
  BY <1>1, <1>2, <1>3, <1>4, <1>5, Generated
<1>8. M = L
  BY <1>7 DEF Building, Moves, MovesLocal, MovesBlock, MovesElse, MovesFor, MovesFunction, MovesEnd, Made
<1>9. Builds(program, h, p + 1, scopes, L, cells, scopes', M, cells', Len(L))
  BY <1>5, <1>7, <1>8, NothingBuilt
<1>10. ASSUME "named" \notin Extras PROVE Boxes(Record(f, scopes))
  <2>1. Story(program, h) /\ Facts(h) /\ AnalysisTyped
    BY DEF EmitInv
  <2>2. f \in 1..Len(program) /\ f \in Ids
    <3>1. DOMAIN program = 1..Len(program) /\ Len(program) <= MaxLength /\ MaxLength \in Nat
          /\ Len(program) \in Nat
      BY <2>1, ScopesAssumption DEF Story, AnalysisTyped
    <3> QED
      BY <3>1 DEF Ids
  <2>3. Inner(h[f]).fn = 0 /\ FunctionFact(h[f], program[f].name, f)
    BY <1>6, <1>10, <2>1, <2>2 DEF Facts, Fact, Made
  <2>4. ToSet(upvalues[f]) = {}
    BY <2>3 DEF FunctionFact, Passes
  <2>5. DOMAIN upvalues[f] = {}
    BY <2>4 DEF ToSet
  <2>6. DOMAIN (Record(f, scopes).words) = {}
    BY <2>5 DEF Record
  <2> QED
    BY <2>6 DEF Boxes
<1>11. "named" \notin Extras => \A r \in records' : r \in records \/ Boxes(r)
  BY <1>6, <1>10
<1>12. "block" \notin Extras => denotes'[p] = meant[p]
  <2>1. meant[p] = 0
    BY <1>2, <1>7 DEF Building, Fact
  <2>2. p \in pc..MaxLength
    BY <1>1, <1>7 DEF Building
  <2>3. denotes[p] = 0
    BY <2>2 DEF EmitInv, Denoted
  <2> QED
    BY <1>5, <2>1, <2>3
<1>13. UNCHANGED analysis /\ denotes' = denotes
  BY <1>5
<1> QED
  BY <1>1, <1>2, <1>3, <1>4, <1>7, <1>9, <1>11, <1>12, <1>13, EmitOn

\* A block.
LEMMA BlockEmitted ==
  ASSUME NEW h, EmitInv(h), EmitBlock
  PROVE  EmitInv(h)'
<1>1. PICK p : p = pc
  OBVIOUS
<1>2. PICK c : c = program[p]
  OBVIOUS
<1>3. PICK L : L = h[p]
  OBVIOUS
<1>4. PICK M : M = h[p + 1]
  OBVIOUS
<1>5. Generating("if") /\ UNCHANGED <<analysis, cells, denotes, records>>
  BY DEF EmitBlock
<1>6. Building(h, p, c, L, M) /\ c.op = "if"
  BY <1>1, <1>2, <1>3, <1>4, <1>5, Generated
<1>7. PICK N : N = Len(L)
  OBVIOUS
<1>8. PICK b : b = Inner(L)
  OBVIOUS
<1>9. PICK d : d = Level("if", b.fn, p, b.env, 0, 0, b.base + b.count)
  OBVIOUS
<1>10. M = Append(L, d)
  BY <1>6, <1>8, <1>9
     DEF Building, Moves, MovesLocal, MovesBlock, MovesElse, MovesFor, MovesFunction, MovesEnd, Made
<1>11. /\ N \in Nat \ {0} /\ L \in Seq(Levels) /\ b = L[N] /\ b \in Levels /\ Len(scopes) = N
       /\ scopes \in Seq(ScopeNodes) /\ Scope = scopes[N] /\ Scope \in ScopeNodes
       /\ Scope.fn = b.fn /\ Node(Scope, b) /\ p \in Nat
       /\ \A j \in 1..N : L[j] \in Levels
  BY <1>6, <1>7, <1>8 DEF Building, Fits
<1>12. PICK t : t = PushScope("if", Scope)
  OBVIOUS
<1>13. scopes' = Append(scopes, t)
  BY <1>2, <1>1, <1>6, <1>12 DEF EmitBlock, This
<1>14. Scope.next \in Nat /\ Scope.fn \in Nat
  BY <1>11 DEF ScopeNodes
<1>15. /\ t.op = "if" /\ t.fn = Scope.fn /\ t.first = p /\ t.symbols = <<>> /\ t.next = Scope.next
       /\ t.hidden = {}
  BY <1>1, <1>12 DEF PushScope
<1>16. t \in ScopeNodes
  BY <1>1, <1>11, <1>12, <1>14, NoSymbols DEF PushScope, ScopeNodes, Opened
<1>17. /\ d.op = "if" /\ d.fn = b.fn /\ d.first = p /\ d.env = b.env /\ d.count = 0
       /\ d.base = b.base + b.count
  BY <1>9 DEF Level
<1>18. /\ Len(M) = N + 1 /\ M[N + 1] = d /\ \A j \in 1..N : M[j] = L[j]
  BY <1>7, <1>10, <1>11
<1>19. /\ scopes' \in Seq(ScopeNodes) /\ Len(scopes') = N + 1 /\ scopes'[N + 1] = t
       /\ \A j \in 1..N : scopes'[j] = scopes[j]
  BY <1>11, <1>13, <1>16
<1>20. Node(t, d)
  <2>1. b.base \in Nat /\ b.count \in Nat
    BY <1>11, LevelHas
  <2> QED
    BY <1>11, <1>14, <1>15, <1>17, <2>1 DEF Node
<1>21. Fits(scopes', M, cells, N + 1)
  <2>1. N + 1 \in Nat /\ (N + 1) - 1 = N /\ N \in 1..N
    BY <1>11
  <2>2. scopes'[N] = Scope /\ M[N] = b
    BY <1>11, <1>18, <1>19, <2>1
  <2>3. /\ DOMAIN scopes'[N + 1].symbols = {} /\ ~Made(M[N + 1].op) /\ M[N + 1].op # "for"
        /\ scopes'[N + 1].next \in Nat /\ scopes'[N + 1].next = scopes'[(N + 1) - 1].next
        /\ Node(scopes'[N + 1], M[N + 1]) /\ M[N + 1].env = M[(N + 1) - 1].env
    BY <1>14, <1>15, <1>17, <1>18, <1>19, <1>20, <2>1, <2>2, NoSymbols DEF Made
  <2> QED
    BY <2>1, <2>3, BareFits
<1>22. \A j \in 1..N : scopes'[j] = scopes[j] /\ Same(M[j], L[j])
  BY <1>11, <1>18, <1>19, SameLevel
<1>23. Kept(scopes, L, cells, cells, N)
  BY KeptAll
<1>24. Builds(program, h, p + 1, scopes, L, cells, scopes', M, cells', N)
  BY <1>5, <1>6, <1>7, <1>11, <1>18, <1>19, <1>21, <1>22, <1>23 DEF Building, Builds
<1>25. c.op # "use" /\ c.op # "end" /\ UNCHANGED <<analysis, denotes, records>>
  BY <1>5, <1>6
<1> QED
  BY <1>1, <1>2, <1>3, <1>4, <1>6, <1>24, <1>25, EmitQuietly

\* The other branch of an if.
LEMMA ElseEmitted ==
  ASSUME NEW h, EmitInv(h), EmitElse
  PROVE  EmitInv(h)'
<1>1. PICK p : p = pc
  OBVIOUS
<1>2. PICK c : c = program[p]
  OBVIOUS
<1>3. PICK L : L = h[p]
  OBVIOUS
<1>4. PICK M : M = h[p + 1]
  OBVIOUS
<1>5. Generating("else") /\ UNCHANGED <<analysis, cells, denotes, records>>
  BY DEF EmitElse
<1>6. Building(h, p, c, L, M) /\ c.op = "else"
  BY <1>1, <1>2, <1>3, <1>4, <1>5, Generated
<1>7. PICK N : N = Len(L)
  OBVIOUS
<1>8. PICK b : b = Inner(L)
  OBVIOUS
<1>9. PICK a : a = Within(L)
  OBVIOUS
<1>10. PICK d : d = Level("else", b.fn, b.first, a.env, 0, b.count, b.base)
  OBVIOUS
<1>11. M = WithInner(L, d) /\ N > 1 /\ b.op = "if"
  BY <1>6, <1>7, <1>8, <1>9, <1>10
     DEF Building, Moves, MovesLocal, MovesBlock, MovesElse, MovesFor, MovesFunction, MovesEnd, Made
<1>12. /\ N \in Nat \ {0} /\ L \in Seq(Levels) /\ b = L[N] /\ b \in Levels /\ Len(scopes) = N
       /\ scopes \in Seq(ScopeNodes) /\ p \in Nat
       /\ \A j \in 1..N : L[j] \in Levels
       /\ Good(program, h, L, p) /\ Frame(scopes, L, cells)
  BY <1>6, <1>7, <1>8 DEF Building
<1>13. PICK m : m = N - 1
  OBVIOUS
<1>14. m \in Nat \ {0} /\ m \in 1..N /\ N \in 2..N /\ m <= N /\ m < N /\ N = m + 1
  BY <1>11, <1>12, <1>13
<1>15. /\ a = L[m] /\ a \in Levels /\ b.fn = a.fn /\ b.base = a.base + a.count
  <2>1. ~Made(b.op)
    BY <1>11 DEF Made
  <2> QED
    BY <1>7, <1>9, <1>12, <1>13, <1>14, <2>1 DEF Good, GoodBlock, Within
<1>16. PICK s : s = scopes[m]
  OBVIOUS
<1>17. s \in ScopeNodes /\ s.next \in Nat /\ s.fn \in Nat /\ Node(s, a)
  <2>1. Fits(scopes, L, cells, m)
    BY <1>7, <1>12, <1>14 DEF Frame
  <2>2. m \in 1..Len(scopes)
    BY <1>12, <1>14
  <2>3. s \in ScopeNodes /\ s.next \in Nat /\ s.fn \in Nat
    BY <1>12, <1>16, <2>2, SymbolIs
  <2>4. Node(scopes[m], L[m])
    BY <2>1 DEF Fits
  <2> QED
    BY <1>15, <1>16, <2>3, <2>4
<1>18. PICK t : t = PushScope("else", s)
  OBVIOUS
<1>19. scopes' = [scopes EXCEPT ![N] = t]
  BY <1>12, <1>13, <1>16, <1>18 DEF EmitElse
<1>20. /\ t.op = "else" /\ t.fn = s.fn /\ t.symbols = <<>> /\ t.next = s.next
  BY <1>18 DEF PushScope
<1>21. t \in ScopeNodes
  BY <1>1, <1>12, <1>17, <1>18, NoSymbols DEF PushScope, ScopeNodes, Opened
<1>22. d \in Levels
  <2>1. b.fn \in Nat /\ b.first \in Nat /\ a.env \in [Names -> Nat] /\ b.count \in Nat /\ b.base \in Nat
    BY <1>12, <1>15, LevelHas
  <2> QED
    BY <1>10, <2>1 DEF Level, Levels, Opened
<1>23. d.op = "else" /\ d.fn = b.fn /\ d.env = a.env /\ d.count = 0 /\ d.base = b.base
  BY <1>10 DEF Level
<1>24. /\ Len(M) = m + 1 /\ M[m + 1] = d /\ \A j \in 1..m : M[j] = L[j]
  <2>1. Len(L) >= 1 /\ L \in Seq(Levels)
    BY <1>7, <1>12
  <2>2. /\ Len(WithInner(L, d)) = Len(L) /\ WithInner(L, d)[Len(L)] = d
        /\ \A j \in 1..(Len(L) - 1) : WithInner(L, d)[j] = L[j]
    BY <1>22, <2>1, WithInnerIs
  <2>3. Len(M) = N /\ M[N] = d /\ \A j \in 1..(N - 1) : M[j] = L[j]
    BY <1>7, <1>11, <2>2
  <2> QED
    BY <1>13, <1>14, <2>3
<1>25. /\ scopes' \in Seq(ScopeNodes) /\ Len(scopes') = m + 1 /\ scopes'[m + 1] = t
       /\ \A j \in 1..m : scopes'[j] = scopes[j]
  BY <1>12, <1>14, <1>19, <1>21
<1>26. Node(t, d)
  <2>1. a.base \in Nat /\ a.count \in Nat
    BY <1>15, LevelHas
  <2> QED
    BY <1>15, <1>17, <1>20, <1>23, <2>1 DEF Node
<1>27. Fits(scopes', M, cells, m + 1)
  <2>1. m + 1 \in Nat /\ (m + 1) - 1 = m /\ m \in 1..m
    BY <1>14
  <2>2. scopes'[m] = s /\ M[m] = a
    BY <1>15, <1>16, <1>24, <1>25, <2>1
  <2>3. /\ DOMAIN scopes'[m + 1].symbols = {} /\ ~Made(M[m + 1].op) /\ M[m + 1].op # "for"
        /\ scopes'[m + 1].next \in Nat /\ scopes'[m + 1].next = scopes'[(m + 1) - 1].next
        /\ Node(scopes'[m + 1], M[m + 1]) /\ M[m + 1].env = M[(m + 1) - 1].env
    BY <1>17, <1>20, <1>23, <1>24, <1>25, <1>26, <2>1, <2>2, NoSymbols DEF Made
  <2> QED
    BY <2>1, <2>3, BareFits
<1>28. \A j \in 1..m : scopes'[j] = scopes[j] /\ Same(M[j], L[j])
  <2>1. \A j \in 1..m : j \in 1..N
    BY <1>12, <1>14
  <2> QED
    BY <1>12, <1>24, <1>25, <2>1, SameLevel
<1>29. Kept(scopes, L, cells, cells, m)
  BY KeptAll
<1>30. Builds(program, h, p + 1, scopes, L, cells, scopes', M, cells', m)
  BY <1>5, <1>6, <1>7, <1>14, <1>24, <1>25, <1>27, <1>28, <1>29 DEF Building, Builds
<1>31. c.op # "use" /\ c.op # "end" /\ UNCHANGED <<analysis, denotes, records>>
  BY <1>5, <1>6
<1> QED
  BY <1>1, <1>2, <1>3, <1>4, <1>6, <1>30, <1>31, EmitQuietly

\* The scopes at the end of a block or a function.
LEMMA EndBuilt ==
  ASSUME NEW h, NEW p, NEW c, NEW L, NEW M, Building(h, p, c, L, M), c.op = "end",
         scopes' = Front(scopes), UNCHANGED cells
  PROVE  /\ Builds(program, h, p + 1, scopes, L, cells, scopes', M, cells', Len(L) - 1)
         /\ Made(Inner(L).op) => Len(L) > 1 /\ Inner(M) = L[Len(L) - 1]
<1>1. PICK N : N = Len(L)
  OBVIOUS
<1>2. PICK m : m = N - 1
  OBVIOUS
<1>3. PICK K : K = SubSeq(L, 1, Len(L) - 1)
  OBVIOUS
<1>4. PICK d : d = Counting(Within(L), CountOf(Inner(L)))
  OBVIOUS
<1>5. N > 1 /\ M = IF Made(Inner(L).op) THEN K ELSE WithInner(K, d)
  BY <1>1, <1>3, <1>4
     DEF Building, Moves, MovesLocal, MovesBlock, MovesElse, MovesFor, MovesFunction, MovesEnd, Made
<1>6. /\ N \in Nat \ {0} /\ L \in Seq(Levels) /\ Inner(L) \in Levels /\ Len(scopes) = N
      /\ scopes \in Seq(ScopeNodes) /\ \A j \in 1..N : L[j] \in Levels
  BY <1>1 DEF Building
<1>7. m \in Nat \ {0} /\ m \in 1..N /\ m <= N /\ \A j \in 1..m : j \in 1..N
  BY <1>2, <1>5, <1>6
<1>8. K \in Seq(Levels) /\ Len(K) = m /\ \A j \in 1..m : K[j] = L[j]
  BY <1>1, <1>2, <1>3, <1>5, <1>6, RestIs
<1>9. Within(L) = L[m] /\ L[m] \in Levels
  BY <1>1, <1>2, <1>6, <1>7 DEF Within
<1>10. d \in Levels /\ Same(d, L[m])
  <2>1. CountOf(Inner(L)) \in Nat
    BY <1>6, LevelHas
  <2>2. /\ L[m].op \in {"file"} \cup Opened /\ L[m].fn \in Nat /\ L[m].first \in Nat
        /\ L[m].env \in [Names -> Nat] /\ L[m].count \in Nat /\ L[m].then \in Nat /\ L[m].base \in Nat
    BY <1>9, LevelHas
  <2>3. PICK x : x = CountOf(Inner(L))
    OBVIOUS
  <2> QED
    BY <1>4, <1>9, <2>1, <2>2, <2>3 DEF Counting, Level, Levels, Same
<1>11. Len(M) = m /\ \A j \in 1..m : Same(M[j], L[j])
  <2>1. CASE Made(Inner(L).op)
    BY <1>5, <1>6, <1>7, <1>8, <2>1, SameLevel
  <2>2. CASE ~Made(Inner(L).op)
    <3>1. M = WithInner(K, d) /\ Len(K) >= 1
      BY <1>5, <1>7, <1>8, <2>2
    <3>2. /\ Len(M) = m /\ M[m] = d /\ \A j \in 1..(m - 1) : M[j] = K[j]
      BY <1>8, <1>10, <3>1, WithInnerIs
    <3>3. ASSUME NEW j \in 1..m PROVE Same(M[j], L[j])
      <4>1. CASE j = m
        BY <1>10, <3>2, <4>1
      <4>2. CASE j # m
        <5>1. j \in 1..(m - 1)
          BY <1>7, <4>2
        <5>2. M[j] = L[j] /\ L[j] \in Levels
          BY <1>6, <1>7, <1>8, <3>2, <5>1
        <5> QED
          BY <5>2, SameLevel
      <4> QED
        BY <4>1, <4>2
    <3> QED
      BY <3>2, <3>3
  <2> QED
    BY <2>1, <2>2
<1>12. /\ scopes' \in Seq(ScopeNodes) /\ Len(scopes') = m
       /\ \A j \in 1..m : scopes'[j] = scopes[j]
  BY <1>2, <1>6, <1>7 DEF Front
<1>13. Kept(scopes, L, cells, cells, m)
  BY KeptAll
<1>14. Builds(program, h, p + 1, scopes, L, cells, scopes', M, cells', m)
  BY <1>1, <1>7, <1>11, <1>12, <1>13 DEF Building, Builds
<1>15. Made(Inner(L).op) => Inner(M) = L[m]
  BY <1>5, <1>7, <1>8 DEF Inner
<1> QED
  BY <1>1, <1>2, <1>5, <1>14, <1>15

\* The end of a block; a loop reads its hidden slots again.
LEMMA EndBlockEmitted ==
  ASSUME NEW h, EmitInv(h), EmitEndBlock
  PROVE  EmitInv(h)'
<1>1. PICK p : p = pc
  OBVIOUS
<1>2. PICK c : c = program[p]
  OBVIOUS
<1>3. PICK L : L = h[p]
  OBVIOUS
<1>4. PICK M : M = h[p + 1]
  OBVIOUS
<1>5. PICK N : N = Len(L)
  OBVIOUS
<1>6. /\ Generating("end") /\ scopes' = Front(scopes) /\ ~Made(Scope.op)
      /\ denotes' = IF Scope.op # "for" THEN denotes
                    ELSE [denotes EXCEPT ![p] =
                      IF \A x \in Scope.hidden : cells[Scope.fn][x] = Value(Scope.first, FALSE)
                      THEN Scope.first ELSE Junk]
      /\ UNCHANGED <<analysis, cells, records>>
  BY <1>1 DEF EmitEndBlock, Made
<1>7. Building(h, p, c, L, M) /\ c.op = "end"
  BY <1>1, <1>2, <1>3, <1>4, <1>6, Generated
<1>8. Builds(program, h, p + 1, scopes, L, cells, scopes', M, cells', N - 1)
  BY <1>5, <1>6, <1>7, EndBuilt
<1>9. CASE Scope.op # "for"
  <2>1. /\ c.op # "use" /\ ~(c.op = "end" /\ Inner(L).op = "for")
        /\ UNCHANGED <<analysis, denotes, records>>
    BY <1>6, <1>7, <1>9 DEF Building
  <2> QED
    BY <1>1, <1>2, <1>3, <1>4, <1>7, <1>8, <2>1, EmitQuietly
<1>10. CASE Scope.op = "for"
  <2>1. /\ Inner(L) = L[N] /\ Scope = scopes[N] /\ Scope.op = Inner(L).op /\ Scope.fn = Inner(L).fn
        /\ Fits(scopes, L, cells, N) /\ Fact(L, p) /\ p \in 1..MaxLength
    BY <1>5, <1>7 DEF Building
  <2>2. Scope.first = L[N].first
    BY <1>10, <2>1 DEF Fits, Node
  <2>3. \A x \in Scope.hidden : cells[Scope.fn][x] = Value(Scope.first, FALSE)
    BY <1>10, <2>1, <2>2 DEF Fits, Contents, Holds
  <2>4. meant[p] = L[N].first
    BY <1>2, <1>7, <1>10, <2>1 DEF Fact, EndFact
  <2>5. denotes' = [denotes EXCEPT ![p] = Scope.first]
    BY <1>6, <1>10, <2>3
  <2>6. p \in DOMAIN denotes
    BY <2>1 DEF EmitInv, Denoted
  <2>7. denotes'[p] = meant[p]
    BY <2>2, <2>4, <2>5, <2>6
  <2>8. /\ UNCHANGED analysis /\ \E w : denotes' = [denotes EXCEPT ![p] = w]
        /\ \A r \in records' : r \in records \/ Boxes(r)
    BY <1>6, <2>5
  <2> QED
    BY <1>1, <1>2, <1>3, <1>4, <1>7, <1>8, <2>7, <2>8, EmitOn
<1> QED
  BY <1>9, <1>10

\* The end of a function, and the record of one that is a value.
LEMMA EndFunctionEmitted ==
  ASSUME NEW h, EmitInv(h), EmitEndFunction
  PROVE  EmitInv(h)'
<1>1. PICK p : p = pc
  OBVIOUS
<1>2. PICK c : c = program[p]
  OBVIOUS
<1>3. PICK L : L = h[p]
  OBVIOUS
<1>4. PICK M : M = h[p + 1]
  OBVIOUS
<1>5. PICK N : N = Len(L)
  OBVIOUS
<1>6. PICK r : r = Record(Scope.first, Front(scopes))
  OBVIOUS
<1>7. /\ Generating("end") /\ scopes' = Front(scopes) /\ Made(Scope.op)
      /\ records' = IF Scope.op = "named" THEN records ELSE records \cup {r}
      /\ UNCHANGED <<analysis, cells, denotes>>
  BY <1>6 DEF EmitEndFunction, Made
<1>8. Building(h, p, c, L, M) /\ c.op = "end"
  BY <1>1, <1>2, <1>3, <1>4, <1>7, Generated
<1>9. /\ Inner(L) = L[N] /\ Scope = scopes[N] /\ Scope.op = Inner(L).op
      /\ Fits(scopes, L, cells, N) /\ p \in 1..Len(program) /\ p \in Nat
      /\ Good(program, h, L, p) /\ Good(program, h, M, p + 1) /\ N \in Nat
  BY <1>5, <1>8 DEF Building
<1>10. /\ Builds(program, h, p + 1, scopes, L, cells, scopes', M, cells', N - 1)
       /\ N > 1 /\ Inner(M) = L[N - 1]
  BY <1>5, <1>7, <1>8, <1>9, EndBuilt
<1>11. Boxes(r)
  <2>1. PICK f : f = L[N].fn
    OBVIOUS
  <2>2. N \in 2..Len(L) /\ Made(L[N].op)
    BY <1>5, <1>7, <1>9, <1>10
  <2>3. /\ f = L[N].first /\ f \in Nat \ {0} /\ L[N].op = program[f].op /\ Inner(h[f]) = L[N - 1]
    BY <1>9, <2>1, <2>2 DEF Good, GoodMade
  <2>4. Scope.first = f
    BY <1>9, <2>2, <2>3 DEF Fits, Node, Made
  <2>5. f < p
    BY <1>9, <2>1, <2>2 DEF Good, GoodBounds
  <2>6. Story(program, h) /\ Facts(h) /\ AnalysisTyped /\ Len(program) \in Nat
        /\ Len(program) <= MaxLength /\ MaxLength \in Nat
    BY ScopesAssumption DEF EmitInv, Story, AnalysisTyped
  <2>7. f \in 1..Len(program) /\ f \in Ids /\ p + 1 \in 1..(Len(program) + 1)
    BY <1>9, <2>3, <2>5, <2>6 DEF Ids
  <2>8. Made(program[f].op) /\ upvalues[f] \in Seq(Names) /\ Inner(h[f]) = Inner(M)
    BY <1>10, <2>2, <2>3, <2>6, <2>7 DEF AnalysisTyped
  <2>9. PICK s : s = Front(scopes)
    OBVIOUS
  <2>10. Frame(s, M, cells)
    BY <1>7, <1>10, <2>9, Built
  <2>11. \A u \in ToSet(upvalues[f]) : Word(s, u) = Value(outer[f][u], TRUE)
    <3> SUFFICES ASSUME NEW u \in ToSet(upvalues[f])
                 PROVE  Word(s, u) = Value(outer[f][u], TRUE)
      OBVIOUS
    <3>1. PICK q : q = p + 1
      OBVIOUS
    <3>2. q \in 1..(Len(program) + 1) /\ Good(program, h, M, q)
      BY <1>9, <2>7, <3>1
    <3>3. Story(program, h) /\ Facts(h)
      BY <2>6
    <3> QED
      BY <2>7, <2>8, <2>10, <3>2, <3>3, WordIs
  <2>12. r = Record(f, s)
    BY <1>6, <2>4, <2>9
  <2>13. /\ r.fn = f /\ DOMAIN r.words = DOMAIN upvalues[f]
         /\ \A k \in DOMAIN upvalues[f] : r.words[k] = Word(s, upvalues[f][k])
    BY <2>12 DEF Record
  <2>14. \A k \in DOMAIN upvalues[f] : upvalues[f][k] \in ToSet(upvalues[f])
    BY DEF ToSet
  <2> QED
    BY <2>11, <2>13, <2>14 DEF Boxes
<1>12. \A x \in records' : x \in records \/ Boxes(x)
  BY <1>7, <1>11
<1>13. denotes'[p] = meant[p]
  <2>1. Inner(L).op # "for"
    BY <1>7, <1>9 DEF Made
  <2>2. meant[p] = 0
    BY <1>2, <1>8, <2>1 DEF Building, Fact
  <2>3. p \in pc..MaxLength
    BY <1>1, <1>8 DEF Building
  <2>4. denotes[p] = 0
    BY <2>3 DEF EmitInv, Denoted
  <2> QED
    BY <1>7, <2>2, <2>4
<1>14. UNCHANGED analysis /\ denotes' = denotes
  BY <1>7
<1> QED
  BY <1>1, <1>2, <1>3, <1>4, <1>8, <1>10, <1>12, <1>13, <1>14, EmitOn

\* A function at a single point.
LEMMA AtIs ==
  ASSUME NEW x, NEW v
  PROVE  DOMAIN At(x, v) = {x} /\ At(x, v)[x] = v
BY DEF At

\* Symbols with one more, or another one.
LEMMA SymbolsWith ==
  ASSUME NEW f \in Symbols, NEW n \in Names, NEW y \in [slot : Int, boxed : BOOLEAN]
  PROVE  /\ With(f, At(n, y)) \in Symbols /\ DOMAIN With(f, At(n, y)) = DOMAIN f \cup {n}
         /\ With(f, At(n, y))[n] = y
         /\ \A x \in DOMAIN f : x # n => With(f, At(n, y))[x] = f[x]
<1>1. PICK D \in SUBSET Names : f \in [D -> [slot : Int, boxed : BOOLEAN]]
  BY DEF Symbols
<1>2. PICK g : g = With(f, At(n, y))
  OBVIOUS
<1>3. DOMAIN At(n, y) = {n} /\ At(n, y)[n] = y
  BY AtIs
<1>4. /\ DOMAIN g = DOMAIN f \cup {n} /\ g[n] = y
      /\ \A x \in DOMAIN f : x # n => g[x] = f[x]
  <2>1. PICK a : a = At(n, y)
    OBVIOUS
  <2>2. /\ DOMAIN g = DOMAIN f \cup DOMAIN a
        /\ \A x \in DOMAIN a : g[x] = a[x]
        /\ \A x \in DOMAIN f : x \notin DOMAIN a => g[x] = f[x]
    BY <1>2, <2>1 DEF With
  <2> QED
    BY <1>3, <2>1, <2>2
<1>5. g \in [D \cup {n} -> [slot : Int, boxed : BOOLEAN]]
  <2>1. g = [x \in D \cup {n} |-> IF x = n THEN y ELSE f[x]]
    <3>1. DOMAIN f = D
      BY <1>1
    <3>2. g = [x \in DOMAIN f \cup DOMAIN At(n, y) |->
                 IF x \in DOMAIN At(n, y) THEN At(n, y)[x] ELSE f[x]]
      BY <1>2 DEF With
    <3> QED
      BY <1>3, <3>1, <3>2
  <2>2. \A x \in D : f[x] \in [slot : Int, boxed : BOOLEAN]
    BY <1>1
  <2> QED
    BY <2>1, <2>2
<1>6. D \cup {n} \in SUBSET Names
  OBVIOUS
<1>7. g \in Symbols
  BY <1>5, <1>6 DEF Symbols
<1> QED
  BY <1>2, <1>4, <1>7

\* The symbol that a declaration gets.
Entered(L, n, y, w) ==
  LET N == Len(L) IN
  /\ y \in [slot : Int, boxed : BOOLEAN] /\ w \in Nat
  /\ y.slot # 0 /\ y.slot < w /\ Scope.next <= w /\ w <= Scope.next + 1
  /\ \A x \in DOMAIN Scope.symbols : x # n => Scope.symbols[x].slot # y.slot
  /\ ~Made(L[N].op) => y.slot >= scopes[N - 1].next /\ scopes[N - 1].next <= Scope.next
  /\ L[N].op = "for" => \A x \in Scope.hidden : x # y.slot
  /\ n \in boxed[L[N].fn] => y.boxed = TRUE
  /\ Made(L[N].op) /\ n \in ToSet(upvalues[L[N].fn]) => y.boxed = TRUE

\* register_local finds or makes a symbol in a slot that no other variable has.
LEMMA RegisteredIs ==
  ASSUME NEW h, NEW p, NEW c, NEW L, NEW M, Building(h, p, c, L, M), Len(L) > 1,
         NEW n \in Names, NEW y, y = RegisterLocal(n),
         NEW w, w = IF y.slot = Scope.next THEN Scope.next + 1 ELSE Scope.next
  PROVE  Entered(L, n, y, w)
<1>1. PICK N : N = Len(L)
  OBVIOUS
<1>2. PICK s : s = Scope
  OBVIOUS
<1>3. /\ N \in Nat /\ N > 1 /\ N \in 1..Len(scopes) /\ N - 1 \in 1..Len(scopes) /\ s = scopes[N]
      /\ scopes \in Seq(ScopeNodes) /\ Slots(scopes, L, N) /\ Known(scopes, L, N)
      /\ Node(scopes[N], L[N])
  BY <1>1, <1>2 DEF Building, Fits
<1>4. /\ s.next \in Nat /\ s.hidden \subseteq Nat /\ DOMAIN s.symbols \subseteq Names
      /\ \A x \in DOMAIN s.symbols : s.symbols[x].slot \in Int /\ s.symbols[x].boxed \in BOOLEAN
      /\ s.symbols \in Symbols /\ scopes[N - 1].next \in Nat
  BY <1>3, SymbolIs
<1>5. s.next >= 1 /\ s.fn = L[N].fn
  BY <1>3 DEF Node
<1>6. /\ \A x \in DOMAIN s.symbols :
           /\ s.symbols[x].slot # 0 /\ s.symbols[x].slot < s.next
           /\ \A m \in DOMAIN s.symbols : m # x => s.symbols[m].slot # s.symbols[x].slot
      /\ ~Made(L[N].op) =>
           /\ scopes[N - 1].next <= s.next
           /\ \A x \in DOMAIN s.symbols : s.symbols[x].slot >= scopes[N - 1].next
      /\ L[N].op = "for" => \A x \in s.hidden :
           x < s.next /\ \A m \in DOMAIN s.symbols : s.symbols[m].slot # x
  BY <1>3 DEF Slots
<1>7. CASE n \in DOMAIN s.symbols
  <2>1. y = s.symbols[n]
    BY <1>2, <1>7 DEF RegisterLocal
  <2>2. w = s.next
    BY <1>2, <1>4, <1>6, <1>7, <2>1
  <2>3. y \in [slot : Int, boxed : BOOLEAN]
    <3>1. PICK D \in SUBSET Names : s.symbols \in [D -> [slot : Int, boxed : BOOLEAN]]
      BY <1>4 DEF Symbols
    <3> QED
      BY <1>7, <2>1, <3>1
  <2>4. /\ n \in boxed[L[N].fn] => y.boxed = TRUE
        /\ Made(L[N].op) /\ n \in ToSet(upvalues[L[N].fn]) => y.boxed = TRUE
    BY <1>3, <1>7, <2>1 DEF Known
  <2>5. /\ y.slot # 0 /\ y.slot < w /\ s.next <= w /\ w <= s.next + 1 /\ w \in Nat
    BY <1>4, <1>6, <1>7, <2>1, <2>2
  <2>6. /\ \A x \in DOMAIN s.symbols : x # n => s.symbols[x].slot # y.slot
        /\ ~Made(L[N].op) => y.slot >= scopes[N - 1].next /\ scopes[N - 1].next <= s.next
        /\ L[N].op = "for" => \A x \in s.hidden : x # y.slot
    BY <1>6, <1>7, <2>1
  <2> QED
    BY <1>1, <1>2, <2>3, <2>4, <2>5, <2>6 DEF Entered
<1>8. CASE n \notin DOMAIN s.symbols
  <2>1. y = [slot |-> s.next, boxed |-> n \in boxed[s.fn]]
    BY <1>2, <1>8 DEF RegisterLocal
  <2>2. y.slot = s.next /\ y.boxed = (n \in boxed[s.fn]) /\ y \in [slot : Int, boxed : BOOLEAN]
    BY <1>4, <2>1
  <2>3. w = s.next + 1
    BY <1>2, <2>2
  <2>4. n \in boxed[L[N].fn] => y.boxed = TRUE
    BY <1>5, <2>2
  <2>5. ~(Made(L[N].op) /\ n \in ToSet(upvalues[L[N].fn]))
    BY <1>3, <1>8 DEF Known
  <2>6. /\ y.slot # 0 /\ y.slot < w /\ s.next <= w /\ w <= s.next + 1 /\ w \in Nat
    BY <1>4, <1>5, <2>2, <2>3
  <2>7. \A x \in DOMAIN s.symbols : x # n => s.symbols[x].slot # y.slot
    BY <1>4, <1>6, <2>2
  <2>8. ~Made(L[N].op) => y.slot >= scopes[N - 1].next /\ scopes[N - 1].next <= s.next
    BY <1>4, <1>6, <2>2
  <2>9. L[N].op = "for" => \A x \in s.hidden : x # y.slot
    BY <1>4, <1>6, <2>2
  <2> QED
    BY <1>1, <1>2, <2>2, <2>4, <2>5, <2>6, <2>7, <2>8, <2>9 DEF Entered
<1> QED
  BY <1>7, <1>8

\* A scope of a declaration more: symbol y of name n, for variable p.
Declaring(p, L, M, n, y, w, s2, cl2, N, t, d) ==
  /\ s2[N] = t /\ M[N] = d /\ s2[N - 1] = scopes[N - 1] /\ M[N - 1] = L[N - 1]
  /\ t.op = Scope.op /\ t.fn = Scope.fn /\ t.first = Scope.first /\ t.hidden = Scope.hidden
  /\ t.symbols = With(Scope.symbols, At(n, y)) /\ t.next = w
  /\ d.op = Inner(L).op /\ d.fn = Inner(L).fn /\ d.first = Inner(L).first
  /\ d.base = Inner(L).base /\ d.env = Bind(Inner(L).env, n, p) /\ d.count = Inner(L).count + 1
  /\ cl2 = [cells EXCEPT ![Scope.fn] = With(@, At(y.slot, Value(p, y.boxed)))]

\* The scope fits its level after the declaration.
LEMMA DeclaredFits ==
  ASSUME NEW h, NEW p, NEW c, NEW L, NEW M, Building(h, p, c, L, M), Len(L) > 1,
         NEW n \in Names, NEW y, NEW w, Entered(L, n, y, w), NEW s2, NEW cl2, NEW N, N = Len(L),
         NEW t, NEW d, Declaring(p, L, M, n, y, w, s2, cl2, N, t, d)
  PROVE  Fits(s2, M, cl2, N)
<1>0. /\ s2[N] = t /\ M[N] = d /\ s2[N - 1] = scopes[N - 1] /\ M[N - 1] = L[N - 1]
      /\ t.op = Scope.op /\ t.fn = Scope.fn /\ t.first = Scope.first /\ t.hidden = Scope.hidden
      /\ t.symbols = With(Scope.symbols, At(n, y)) /\ t.next = w
      /\ d.op = Inner(L).op /\ d.fn = Inner(L).fn /\ d.first = Inner(L).first
      /\ d.base = Inner(L).base /\ d.env = Bind(Inner(L).env, n, p) /\ d.count = Inner(L).count + 1
      /\ cl2 = [cells EXCEPT ![Scope.fn] = With(@, At(y.slot, Value(p, y.boxed)))]
  BY DEF Declaring
<1>1. PICK s : s = Scope
  OBVIOUS
<1>2. PICK b : b = Inner(L)
  OBVIOUS
<1>3. /\ N \in Nat /\ N > 1 /\ s = scopes[N] /\ b = L[N] /\ b \in Levels /\ p \in Nat /\ b.fn < p
      /\ scopes \in Seq(ScopeNodes) /\ N \in 1..Len(scopes) /\ N - 1 \in 1..Len(scopes)
      /\ Fits(scopes, L, cells, N) /\ s.fn = b.fn /\ s.fn \in Ids /\ DOMAIN cells = Ids
      /\ N \in 1..Len(L)
  BY <1>1, <1>2 DEF Building
<1>4. /\ b.fn \in Nat /\ b.env \in [Names -> Nat] /\ b.count \in Nat /\ b.base \in Nat
  BY <1>3, LevelHas
<1>5. /\ s.next \in Nat /\ s.symbols \in Symbols /\ DOMAIN s.symbols \subseteq Names
      /\ scopes[N - 1].next \in Nat
  BY <1>3, SymbolIs
<1>6. /\ y \in [slot : Int, boxed : BOOLEAN] /\ w \in Nat
      /\ y.slot # 0 /\ y.slot < w /\ s.next <= w /\ w <= s.next + 1
      /\ \A x \in DOMAIN s.symbols : x # n => s.symbols[x].slot # y.slot
      /\ ~Made(b.op) => y.slot >= scopes[N - 1].next /\ scopes[N - 1].next <= s.next
      /\ b.op = "for" => \A x \in s.hidden : x # y.slot
      /\ n \in boxed[b.fn] => y.boxed = TRUE
      /\ Made(b.op) /\ n \in ToSet(upvalues[b.fn]) => y.boxed = TRUE
  BY <1>1, <1>3 DEF Entered
<1>7. /\ DOMAIN t.symbols = DOMAIN s.symbols \cup {n} /\ t.symbols[n] = y
      /\ \A x \in DOMAIN s.symbols : x # n => t.symbols[x] = s.symbols[x]
  <2>1. t.symbols = With(s.symbols, At(n, y))
    BY <1>0, <1>1
  <2>2. PICK f : f = s.symbols
    OBVIOUS
  <2>3. f \in Symbols /\ t.symbols = With(f, At(n, y)) /\ y \in [slot : Int, boxed : BOOLEAN]
    BY <1>5, <1>6, <2>1, <2>2
  <2>4. /\ DOMAIN With(f, At(n, y)) = DOMAIN f \cup {n} /\ With(f, At(n, y))[n] = y
        /\ \A x \in DOMAIN f : x # n => With(f, At(n, y))[x] = f[x]
    BY DEF With, At
  <2> QED
    BY <2>2, <2>3, <2>4
<1>8. d.env[n] = p /\ \A x \in Names : x # n => d.env[x] = b.env[x]
  BY <1>0, <1>2 DEF Bind
<1>9. /\ t.op = s.op /\ t.fn = s.fn /\ t.first = s.first /\ t.hidden = s.hidden /\ t.next = w
      /\ d.op = b.op /\ d.fn = b.fn /\ d.first = b.first /\ d.base = b.base
      /\ d.count = b.count + 1
  BY <1>0, <1>1, <1>2
<1>10. \A x \in DOMAIN t.symbols : x = n \/ (x \in DOMAIN s.symbols /\ x # n /\ x \in Names)
  BY <1>5, <1>7
<1>11. Node(s2[N], M[N])
  <2>1. /\ s.op = b.op /\ s.fn = b.fn /\ (b.op # "else" => s.first = b.first)
        /\ s.next >= 1 /\ s.next - 1 <= b.base + b.count
    BY <1>3 DEF Fits, Node
  <2>2. t.next \in Nat /\ t.next >= 1 /\ t.next - 1 <= d.base + d.count
    <3>1. w \in Nat /\ s.next <= w /\ w <= s.next + 1 /\ s.next \in Nat
      BY <1>5, <1>6
    <3>2. b.base \in Nat /\ b.count \in Nat /\ s.next >= 1 /\ s.next - 1 <= b.base + b.count
      BY <1>4, <2>1
    <3>3. w >= 1 /\ w - 1 <= b.base + (b.count + 1)
      BY <3>1, <3>2, SMTT(30)
    <3> QED
      BY <1>9, <3>1, <3>3
  <2> QED
    BY <1>0, <1>9, <2>1, <2>2 DEF Node
<1>12. Slots(s2, M, N)
  <2>1. /\ \A x \in DOMAIN s.symbols :
             /\ s.symbols[x].slot # 0 /\ s.symbols[x].slot < s.next
             /\ \A m \in DOMAIN s.symbols : m # x => s.symbols[m].slot # s.symbols[x].slot
        /\ ~Made(b.op) => \A x \in DOMAIN s.symbols : s.symbols[x].slot >= scopes[N - 1].next
        /\ b.op = "for" => \A x \in s.hidden :
             x < s.next /\ \A m \in DOMAIN s.symbols : s.symbols[m].slot # x
    BY <1>3 DEF Fits, Slots
  <2>2. \A x \in DOMAIN s.symbols : s.symbols[x].slot \in Int
    BY <1>3, SymbolIs
  <2>3. ASSUME NEW x \in DOMAIN t.symbols
        PROVE  /\ t.symbols[x].slot # 0 /\ t.symbols[x].slot < t.next
               /\ \A m \in DOMAIN t.symbols : m # x => t.symbols[m].slot # t.symbols[x].slot
    <3>1. CASE x = n
      BY <1>6, <1>7, <1>9, <1>10, <3>1
    <3>2. CASE x # n
      <4>1. x \in DOMAIN s.symbols /\ t.symbols[x] = s.symbols[x]
        BY <1>7, <1>10, <3>2
      <4>2. t.symbols[x].slot # 0 /\ t.symbols[x].slot < t.next
        BY <1>5, <1>6, <1>9, <2>1, <2>2, <4>1
      <4>3. ASSUME NEW m \in DOMAIN t.symbols, m # x PROVE t.symbols[m].slot # t.symbols[x].slot
        <5>1. CASE m = n
          BY <1>6, <1>7, <3>2, <4>1, <5>1
        <5>2. CASE m # n
          BY <1>7, <1>10, <2>1, <4>1, <4>3, <5>2
        <5> QED
          BY <5>1, <5>2
      <4> QED
        BY <4>2, <4>3
    <3> QED
      BY <3>1, <3>2
  <2>4. ~Made(d.op) => /\ scopes[N - 1].next <= t.next
                       /\ \A x \in DOMAIN t.symbols : t.symbols[x].slot >= scopes[N - 1].next
    <3> SUFFICES ASSUME ~Made(b.op)
                 PROVE  /\ scopes[N - 1].next <= t.next
                        /\ \A x \in DOMAIN t.symbols : t.symbols[x].slot >= scopes[N - 1].next
      BY <1>9
    <3>1. scopes[N - 1].next <= t.next
      BY <1>5, <1>6, <1>9
    <3>2. ASSUME NEW x \in DOMAIN t.symbols PROVE t.symbols[x].slot >= scopes[N - 1].next
      <4>1. CASE x = n
        BY <1>6, <1>7, <4>1
      <4>2. CASE x # n
        BY <1>7, <1>10, <2>1, <4>2
      <4> QED
        BY <4>1, <4>2
    <3> QED
      BY <3>1, <3>2
  <2>5. d.op = "for" => \A x \in t.hidden :
          x < t.next /\ \A m \in DOMAIN t.symbols : t.symbols[m].slot # x
    <3> SUFFICES ASSUME b.op = "for", NEW x \in s.hidden
                 PROVE  x < t.next /\ \A m \in DOMAIN t.symbols : t.symbols[m].slot # x
      BY <1>9
    <3>1. x \in Nat /\ x < s.next
      BY <1>3, <2>1, SymbolIs
    <3>2. ASSUME NEW m \in DOMAIN t.symbols PROVE t.symbols[m].slot # x
      <4>1. CASE m = n
        BY <1>6, <1>7, <4>1
      <4>2. CASE m # n
        BY <1>7, <1>10, <2>1, <4>2
      <4> QED
        BY <4>1, <4>2
    <3> QED
      BY <1>5, <1>6, <1>9, <3>1, <3>2
  <2> QED
    BY <1>0, <2>3, <2>4, <2>5 DEF Slots
<1>13. cl2[b.fn] = With(cells[b.fn], At(y.slot, Value(p, y.boxed)))
  BY <1>0, <1>1, <1>3
<1>14. /\ y.slot \in DOMAIN cl2[b.fn] /\ cl2[b.fn][y.slot] = Value(p, y.boxed)
       /\ \A x \in DOMAIN cells[b.fn] : x # y.slot =>
            x \in DOMAIN cl2[b.fn] /\ cl2[b.fn][x] = cells[b.fn][x]
  <2>1. PICK v : v = Value(p, y.boxed)
    OBVIOUS
  <2>2. PICK x : x = y.slot
    OBVIOUS
  <2>3. PICK new : new = At(x, v)
    OBVIOUS
  <2>4. DOMAIN new = {x} /\ new[x] = v
    BY <2>3 DEF At
  <2>5. PICK f : f = cells[b.fn]
    OBVIOUS
  <2>6. cl2[b.fn] = With(f, new)
    BY <1>13, <2>1, <2>2, <2>3, <2>5
  <2>7. /\ DOMAIN With(f, new) = DOMAIN f \cup {x} /\ With(f, new)[x] = v
        /\ \A z \in DOMAIN f : z # x => With(f, new)[z] = f[z]
    BY <2>4 DEF With
  <2> QED
    BY <2>1, <2>2, <2>5, <2>6, <2>7
<1>15. Contents(s2, M, cl2, N)
  <2>1. /\ \A x \in DOMAIN s.symbols :
             Holds(cells, b.fn, s.symbols[x].slot, Value(b.env[x], s.symbols[x].boxed))
        /\ b.op = "for" => \A x \in s.hidden : Holds(cells, b.fn, x, Value(b.first, FALSE))
    BY <1>3 DEF Fits, Contents
  <2>2. ASSUME NEW x \in DOMAIN t.symbols
        PROVE  Holds(cl2, d.fn, t.symbols[x].slot, Value(d.env[x], t.symbols[x].boxed))
    <3>1. CASE x = n
      BY <1>7, <1>8, <1>9, <1>14, <3>1 DEF Holds
    <3>2. CASE x # n
      <4>1. /\ x \in DOMAIN s.symbols /\ t.symbols[x] = s.symbols[x] /\ d.env[x] = b.env[x]
            /\ s.symbols[x].slot # y.slot
        BY <1>6, <1>7, <1>8, <1>10, <3>2
      <4> QED
        BY <1>9, <1>14, <2>1, <4>1 DEF Holds
    <3> QED
      BY <3>1, <3>2
  <2>3. d.op = "for" => \A x \in t.hidden : Holds(cl2, d.fn, x, Value(d.first, FALSE))
    <3> SUFFICES ASSUME b.op = "for", NEW x \in s.hidden PROVE Holds(cl2, b.fn, x, Value(b.first, FALSE))
      BY <1>9
    <3>1. x # y.slot /\ Holds(cells, b.fn, x, Value(b.first, FALSE))
      BY <1>6, <2>1
    <3> QED
      BY <1>14, <3>1 DEF Holds
  <2> QED
    BY <1>0, <2>2, <2>3 DEF Contents
<1>16. Known(s2, M, N)
  <2>1. /\ \A x \in DOMAIN s.symbols :
             /\ x \in boxed[b.fn] => s.symbols[x].boxed = TRUE
             /\ ~Made(b.op) => b.env[x] >= b.fn
             /\ Made(b.op) /\ x \in ToSet(upvalues[b.fn]) => s.symbols[x].boxed = TRUE
        /\ Made(b.op) => ToSet(upvalues[b.fn]) \subseteq DOMAIN s.symbols
    BY <1>3 DEF Fits, Known
  <2>2. ASSUME NEW x \in DOMAIN t.symbols
        PROVE  /\ x \in boxed[b.fn] => t.symbols[x].boxed = TRUE
               /\ ~Made(b.op) => d.env[x] >= b.fn
               /\ Made(b.op) /\ x \in ToSet(upvalues[b.fn]) => t.symbols[x].boxed = TRUE
    <3>1. CASE x = n
      BY <1>3, <1>4, <1>6, <1>7, <1>8, <3>1, SMTT(30)
    <3>2. CASE x # n
      BY <1>7, <1>8, <1>10, <2>1, <3>2
    <3> QED
      BY <3>1, <3>2
  <2>3. Made(b.op) => ToSet(upvalues[b.fn]) \subseteq DOMAIN t.symbols
    BY <1>7, <2>1
  <2> QED
    BY <1>0, <1>9, <2>2, <2>3 DEF Known
<1>17. Through(s2, M, N)
  <2> SUFFICES ASSUME NEW x \in Names \ DOMAIN t.symbols PROVE d.env[x] = L[N - 1].env[x]
    BY <1>0 DEF Through
  <2>1. x # n /\ x \in Names \ DOMAIN s.symbols
    BY <1>7
  <2>2. b.env[x] = L[N - 1].env[x]
    BY <1>3, <2>1 DEF Fits, Through
  <2> QED
    BY <1>8, <2>1, <2>2
<1> QED
  BY <1>11, <1>12, <1>15, <1>16, <1>17 DEF Fits

\* A declaration in the file's own block makes a global: no scope changes.
LEMMA GlobalBuilt ==
  ASSUME NEW h, NEW p, NEW c, NEW L, NEW M, Building(h, p, c, L, M), c.op = "local", Len(L) = 1,
         UNCHANGED <<scopes, cells>>
  PROVE  Builds(program, h, p + 1, scopes, L, cells, scopes', M, cells', 1)
<1>1. PICK b : b = Inner(L)
  OBVIOUS
<1>2. PICK n : n = c.name
  OBVIOUS
<1>3. PICK d : d = Level(b.op, b.fn, b.first, Bind(b.env, n, 0), b.count + 1, b.then, b.base)
  OBVIOUS
<1>4. M = WithInner(L, d)
  BY <1>1, <1>2, <1>3
     DEF Building, Moves, MovesLocal, MovesBlock, MovesElse, MovesFor, MovesFunction, MovesEnd, Made
<1>5. L \in Seq(Levels) /\ b \in Levels /\ b = L[1] /\ n \in Names /\ p \in Nat \ {0}
  BY <1>1, <1>2 DEF Building, Naming
<1>6. /\ b.op \in {"file"} \cup Opened /\ b.fn \in Nat /\ b.first \in Nat
      /\ b.env \in [Names -> Nat] /\ b.count \in Nat /\ b.then \in Nat /\ b.base \in Nat
  BY <1>5, LevelHas
<1>7. b.env = [x \in Names |-> 0]
  BY <1>5 DEF Building, Good, GoodFirst
<1>8. Bind(b.env, n, 0) = b.env
  BY <1>7 DEF Bind
<1>9. d.op = b.op /\ d.fn = b.fn /\ d.first = b.first /\ d.env = b.env /\ d.base = b.base
      /\ d.count = b.count + 1
  BY <1>3, <1>8 DEF Level
<1>10. Len(M) = 1 /\ M[1] = d
  BY <1>4, <1>5 DEF WithInner
<1>11. Same(M[1], L[1])
  BY <1>5, <1>6, <1>9, <1>10 DEF Same
<1>12. \A j \in 1..1 : scopes'[j] = scopes[j] /\ Same(M[j], L[j])
  BY <1>11
<1>13. Kept(scopes, L, cells, cells, 1)
  BY KeptAll
<1> QED
  BY <1>5, <1>10, <1>12, <1>13 DEF Building, Builds

\* A declaration in another block makes a local of the innermost scope.
LEMMA LocalBuilt ==
  ASSUME NEW h, NEW p, p = pc, NEW c, c = program[p], NEW L, NEW M, Building(h, p, c, L, M),
         c.op = "local", Len(L) > 1, EmitLocal
  PROVE  Builds(program, h, p + 1, scopes, L, cells, scopes', M, cells', Len(L) - 1)
<1>1. PICK N : N = Len(L)
  OBVIOUS
<1>2. PICK b : b = Inner(L)
  OBVIOUS
<1>3. PICK n : n = c.name
  OBVIOUS
<1>4. PICK s : s = Scope
  OBVIOUS
<1>5. PICK y : y = RegisterLocal(n)
  OBVIOUS
<1>6. PICK w : w = IF y.slot = Scope.next THEN Scope.next + 1 ELSE Scope.next
  OBVIOUS
<1>7. PICK m : m = N - 1
  OBVIOUS
<1>8. PICK d : d = Level(b.op, b.fn, b.first, Bind(b.env, n, p), b.count + 1, b.then, b.base)
  OBVIOUS
<1>9. M = WithInner(L, d)
  <2>1. M = WithInner(L, Level(b.op, b.fn, b.first,
                               Bind(b.env, n, IF Len(L) = 1 THEN 0 ELSE p),
                               b.count + 1, b.then, b.base))
    BY <1>2, <1>3
       DEF Building, Moves, MovesLocal, MovesBlock, MovesElse, MovesFor, MovesFunction, MovesEnd, Made
  <2>2. ~(Len(L) = 1)
    BY DEF Building
  <2> QED
    BY <1>8, <2>1, <2>2
<1>10. /\ L \in Seq(Levels) /\ b \in Levels /\ b = L[N] /\ n \in Names /\ p \in Nat
       /\ N \in Nat /\ N > 1 /\ Len(scopes) = N /\ scopes \in Seq(ScopeNodes) /\ s = scopes[N]
       /\ s \in ScopeNodes /\ s.fn = b.fn /\ s.fn \in Ids /\ DOMAIN cells = Ids
       /\ \A j \in 1..N : L[j] \in Levels
  BY <1>1, <1>2, <1>3, <1>4 DEF Building, Naming
<1>11. /\ m \in Nat \ {0} /\ m < N /\ N = m + 1 /\ m \in 1..N /\ N \in 2..N /\ N \in 1..N
       /\ \A j \in 1..m : j \in 1..N /\ j < N
  BY <1>7, <1>10
<1>12. /\ b.op \in {"file"} \cup Opened /\ b.fn \in Nat /\ b.first \in Nat
       /\ b.env \in [Names -> Nat] /\ b.count \in Nat /\ b.then \in Nat /\ b.base \in Nat
  BY <1>10, LevelHas
<1>13. d \in Levels
  <2>1. Bind(b.env, n, p) \in [Names -> Nat]
    BY <1>10, <1>12 DEF Bind
  <2> QED
    BY <1>8, <1>12, <2>1 DEF Level, Levels
<1>14. /\ d.op = b.op /\ d.fn = b.fn /\ d.first = b.first /\ d.base = b.base
       /\ d.env = Bind(b.env, n, p) /\ d.count = b.count + 1
  BY <1>8 DEF Level
<1>15. Len(M) = N /\ M[N] = d /\ \A j \in 1..m : M[j] = L[j]
  <2>1. Len(L) >= 1
    BY <1>1, <1>10
  <2>2. /\ Len(WithInner(L, d)) = Len(L) /\ WithInner(L, d)[Len(L)] = d
        /\ \A j \in 1..(Len(L) - 1) : WithInner(L, d)[j] = L[j]
    BY <1>10, <1>13, <2>1, WithInnerIs
  <2> QED
    BY <1>1, <1>7, <1>9, <2>2
<1>16. Entered(L, n, y, w)
  <2>1. Len(L) > 1
    OBVIOUS
  <2> QED
    BY <1>5, <1>6, <1>10, <2>1, RegisteredIs
<1>17. PICK t : t = [op |-> s.op, fn |-> s.fn, first |-> s.first,
                     symbols |-> With(s.symbols, At(n, y)), next |-> w, hidden |-> s.hidden]
  OBVIOUS
<1>18. /\ t.op = s.op /\ t.fn = s.fn /\ t.first = s.first /\ t.hidden = s.hidden
       /\ t.symbols = With(s.symbols, At(n, y)) /\ t.next = w
  BY <1>17
<1>19. /\ s.next \in Nat /\ s.symbols \in Symbols /\ s.hidden \subseteq Nat /\ s.fn \in Nat
       /\ s.op \in {"file"} \cup Opened /\ s.first \in Nat
       /\ s = [op |-> s.op, fn |-> s.fn, first |-> s.first, symbols |-> s.symbols,
               next |-> s.next, hidden |-> s.hidden]
  BY <1>10 DEF ScopeNodes
<1>20. /\ y \in [slot : Int, boxed : BOOLEAN] /\ w \in Nat
       /\ ~Made(b.op) => y.slot >= scopes[m].next
  BY <1>1, <1>7, <1>10, <1>16 DEF Entered
<1>21. t \in ScopeNodes
  <2>1. With(s.symbols, At(n, y)) \in Symbols
    BY <1>10, <1>19, <1>20, SymbolsWith
  <2> QED
    BY <1>17, <1>19, <1>20, <2>1 DEF ScopeNodes
<1>22. scopes' = [scopes EXCEPT ![N] = t]
  <2>1. scopes' = [scopes EXCEPT ![Len(scopes)] = Registered(@, n, y)]
    BY <1>3, <1>5, <1>10 DEF EmitLocal, This
  <2>2. scopes[N] = s
    BY <1>10
  <2>3. Registered(s, n, y)
          = [[s EXCEPT !.symbols = With(s.symbols, At(n, y))]
               EXCEPT !.next = IF y.slot = s.next THEN s.next + 1 ELSE s.next]
    BY <1>19 DEF Registered
  <2>4. [s EXCEPT !.symbols = With(s.symbols, At(n, y))]
          = [op |-> s.op, fn |-> s.fn, first |-> s.first, symbols |-> With(s.symbols, At(n, y)),
             next |-> s.next, hidden |-> s.hidden]
    BY <1>19
  <2>5. PICK r : r = [op |-> s.op, fn |-> s.fn, first |-> s.first,
                      symbols |-> With(s.symbols, At(n, y)), next |-> s.next, hidden |-> s.hidden]
    OBVIOUS
  <2>6. [r EXCEPT !.next = w] = t
    BY <1>17, <2>5
  <2>7. w = IF y.slot = s.next THEN s.next + 1 ELSE s.next
    BY <1>4, <1>6
  <2>8. Registered(s, n, y) = t
    BY <2>3, <2>4, <2>5, <2>6, <2>7
  <2>9. scopes' = [scopes EXCEPT ![N] = Registered(s, n, y)]
    BY <1>10, <2>1, <2>2
  <2> QED
    BY <2>8, <2>9
<1>23. cells' = [cells EXCEPT ![s.fn] = With(@, At(y.slot, Value(p, y.boxed)))]
  BY <1>3, <1>4, <1>5, <1>10 DEF EmitLocal, This, Put
<1>24. /\ scopes' \in Seq(ScopeNodes) /\ Len(scopes') = N /\ scopes'[N] = t
       /\ \A j \in 1..m : scopes'[j] = scopes[j]
  BY <1>10, <1>11, <1>21, <1>22
<1>25. PICK s2 : s2 = scopes'
  OBVIOUS
<1>26. PICK cl2 : cl2 = cells'
  OBVIOUS
<1>27. Fits(s2, M, cl2, N)
  <2>1. m \in 1..m
    BY <1>11
  <2>2. s2[N] = t /\ M[N] = d /\ s2[N - 1] = scopes[N - 1] /\ M[N - 1] = L[N - 1]
    BY <1>7, <1>15, <1>24, <1>25, <2>1
  <2>3. /\ t.op = Scope.op /\ t.fn = Scope.fn /\ t.first = Scope.first /\ t.hidden = Scope.hidden
        /\ t.symbols = With(Scope.symbols, At(n, y)) /\ t.next = w
    BY <1>4, <1>18
  <2>4. /\ d.op = Inner(L).op /\ d.fn = Inner(L).fn /\ d.first = Inner(L).first
        /\ d.base = Inner(L).base /\ d.env = Bind(Inner(L).env, n, p)
        /\ d.count = Inner(L).count + 1
    BY <1>2, <1>14
  <2>5. cl2 = [cells EXCEPT ![Scope.fn] = With(@, At(y.slot, Value(p, y.boxed)))]
    BY <1>4, <1>23, <1>26
  <2>6. Declaring(p, L, M, n, y, w, s2, cl2, N, t, d)
    BY <2>2, <2>3, <2>4, <2>5 DEF Declaring
  <2>7. n \in Names /\ Len(L) > 1
    BY <1>10
  <2> QED
    BY <1>1, <1>16, <2>6, <2>7, DeclaredFits
<1>28. Kept(scopes, L, cells, cl2, m)
  <2>1. PICK new : new = At(y.slot, Value(p, y.boxed))
    OBVIOUS
  <2>2. DOMAIN new = {y.slot}
    BY <2>1 DEF At
  <2>3. ASSUME NEW j \in 1..m, L[j].fn = s.fn PROVE ~(y.slot < scopes[j].next)
    <3>1. GoodOrder(L) /\ GoodBlock(L) /\ Rising(scopes, L)
      BY DEF Building, Good, Frame
    <3>2. ~Made(b.op)
      <4>1. j \in 1..Len(L) /\ N \in 1..Len(L) /\ j < N /\ L[j].fn = L[N].fn
        BY <1>1, <1>10, <1>11, <2>3
      <4>2. Made(L[N].op) => L[j].fn < L[N].fn
        BY <3>1, <4>1 DEF GoodOrder
      <4> QED
        BY <1>10, <1>12, <4>1, <4>2
    <3>3. L[m].fn = L[N].fn
      BY <1>1, <1>7, <1>10, <1>11, <3>1, <3>2 DEF GoodBlock
    <3>4. scopes[j].next \in Nat /\ scopes[m].next \in Nat
      <4>1. j \in 1..Len(scopes) /\ m \in 1..Len(scopes)
        BY <1>10, <1>11
      <4> QED
        BY <1>10, <4>1, SymbolIs
    <3>5. scopes[j].next <= scopes[m].next
      <4>1. CASE j = m
        BY <3>4, <4>1
      <4>2. CASE j # m
        <5>1. j < m /\ j \in 1..Len(L) /\ m \in 1..Len(L) /\ L[j].fn = L[m].fn
          <6>1. j \in Nat /\ m \in Nat /\ j <= m /\ m <= N /\ j <= N
            BY <1>10, <1>11
          <6>2. L[j].fn = L[m].fn
            BY <1>10, <2>3, <3>3
          <6> QED
            BY <1>1, <1>10, <1>11, <4>2, <6>1, <6>2
        <5> QED
          BY <3>1, <5>1 DEF Rising
      <4> QED
        BY <4>1, <4>2
    <3>6. y.slot \in Int /\ y.slot >= scopes[m].next
      BY <1>20, <3>2
    <3> QED
      BY <3>4, <3>5, <3>6
  <2>4. PICK f : f = s.fn
    OBVIOUS
  <2>5. \A j \in 1..m : L[j].fn = f => \A x \in DOMAIN new : ~(x < scopes[j].next)
    BY <2>2, <2>3, <2>4
  <2>6. f \in Ids /\ m \in Nat /\ cl2 = [cells EXCEPT ![f] = With(@, new)]
    BY <1>10, <1>11, <1>23, <1>26, <2>1, <2>4
  <2>7. Kept(scopes, L, cells, [cells EXCEPT ![f] = With(@, new)], m)
    BY <1>10, <2>5, <2>6, PutKeeps
  <2> QED
    BY <2>6, <2>7
<1>29. \A j \in 1..m : scopes'[j] = scopes[j] /\ Same(M[j], L[j])
  BY <1>10, <1>11, <1>15, <1>24, SameLevel
<1>30. DOMAIN cells' = Ids
  BY <1>10, <1>23
<1>31. Len(M) = m + 1 /\ Fits(scopes', M, cells', m + 1)
  BY <1>11, <1>15, <1>25, <1>26, <1>27
<1>32. m <= Len(L) /\ m = Len(L) - 1
  BY <1>1, <1>7, <1>10
<1>33. Kept(scopes, L, cells, cells', m)
  BY <1>26, <1>28
<1>34. Len(scopes') = Len(M) /\ scopes' \in Seq(ScopeNodes)
  BY <1>15, <1>24
<1>35. Builds(program, h, p + 1, scopes, L, cells, scopes', M, cells', m)
  BY <1>11, <1>29, <1>30, <1>31, <1>32, <1>33, <1>34 DEF Building, Builds
<1> QED
  BY <1>32, <1>35

\* `local n`.
LEMMA LocalEmitted ==
  ASSUME NEW h, EmitInv(h), EmitLocal
  PROVE  EmitInv(h)'
<1>1. PICK p : p = pc
  OBVIOUS
<1>2. PICK c : c = program[p]
  OBVIOUS
<1>3. PICK L : L = h[p]
  OBVIOUS
<1>4. PICK M : M = h[p + 1]
  OBVIOUS
<1>5. Generating("local") /\ UNCHANGED <<analysis, denotes, records>>
  BY DEF EmitLocal
<1>6. Building(h, p, c, L, M) /\ c.op = "local"
  BY <1>1, <1>2, <1>3, <1>4, <1>5, Generated
<1>7. Len(L) \in Nat /\ Len(L) >= 1 /\ Len(scopes) = Len(L)
  BY <1>6 DEF Building
<1>8. \E m : Builds(program, h, p + 1, scopes, L, cells, scopes', M, cells', m)
  <2>1. CASE Len(L) = 1
    <3>1. UNCHANGED <<scopes, cells>>
      BY <1>7, <2>1 DEF EmitLocal
    <3> QED
      BY <1>6, <2>1, <3>1, GlobalBuilt
  <2>2. CASE Len(L) # 1
    <3>1. Len(L) > 1
      BY <1>7, <2>2
    <3> QED
      BY <1>1, <1>2, <1>6, <3>1, LocalBuilt
  <2> QED
    BY <2>1, <2>2
<1>9. PICK m : Builds(program, h, p + 1, scopes, L, cells, scopes', M, cells', m)
  BY <1>8
<1>10. c.op # "use" /\ c.op # "end"
  BY <1>6
<1> QED
  BY <1>1, <1>2, <1>3, <1>4, <1>5, <1>6, <1>9, <1>10, EmitQuietly

\* No scope of a function has slots behind those of its innermost one.
LEMMA BehindAll ==
  ASSUME NEW h, NEW p, NEW c, NEW L, NEW M, Building(h, p, c, L, M), NEW j \in 1..Len(L),
         L[j].fn = Scope.fn
  PROVE  scopes[j].next <= Scope.next /\ scopes[j].next \in Nat /\ Scope.next \in Nat
<1>1. /\ Rising(scopes, L) /\ Len(L) \in Nat /\ Len(L) \in 1..Len(L) /\ Scope = scopes[Len(L)]
      /\ L[Len(L)].fn = Scope.fn /\ scopes \in Seq(ScopeNodes) /\ Len(scopes) = Len(L)
  BY DEF Building, Frame
<1>2. scopes[j].next \in Nat /\ Scope.next \in Nat
  BY <1>1, SymbolIs
<1>3. CASE j = Len(L)
  BY <1>1, <1>2, <1>3
<1>4. CASE j # Len(L)
  <2>1. j < Len(L)
    BY <1>1, <1>4
  <2> QED
    BY <1>1, <1>2, <2>1 DEF Rising
<1> QED
  BY <1>3, <1>4

\* The scope of a loop: three hidden slots and the index behind them.
Looping(p, L, M, n, y, s2, cl2, N, t, d) ==
  LET b == Inner(L)
      hidden == Scope.next..(Scope.next + 2)
  IN
  /\ s2[N + 1] = t /\ M[N + 1] = d /\ s2[N] = Scope /\ M[N].env = b.env
  /\ y = [slot |-> Scope.next + 3, boxed |-> n \in boxed[Scope.fn]]
  /\ t = [op |-> "for", fn |-> Scope.fn, first |-> p, symbols |-> At(n, y),
          next |-> Scope.next + 4, hidden |-> hidden]
  /\ d = Level("for", b.fn, p, Bind(b.env, n, p), 0, 0, b.base + b.count + 4)
  /\ cl2 = [cells EXCEPT ![Scope.fn] =
              With(@, With([x \in hidden |-> Value(p, FALSE)], At(y.slot, Value(p, y.boxed))))]

\* The scope of a loop fits its level.
LEMMA LoopFits ==
  ASSUME NEW h, NEW p, NEW c, NEW L, NEW M, Building(h, p, c, L, M), NEW n \in Names, NEW y, NEW s2,
         NEW cl2, NEW N, N = Len(L), NEW t, NEW d, Looping(p, L, M, n, y, s2, cl2, N, t, d)
  PROVE  /\ Fits(s2, M, cl2, N + 1) /\ t \in ScopeNodes /\ d \in Levels
         /\ Kept(scopes, L, cells, cl2, N) /\ DOMAIN cl2 = Ids
<1>1. PICK s : s = Scope
  OBVIOUS
<1>2. PICK b : b = Inner(L)
  OBVIOUS
<1>3. PICK H : H = s.next..(s.next + 2)
  OBVIOUS
<1>4. PICK x4 : x4 = s.next + 3
  OBVIOUS
<1>5. PICK v : v = Value(p, FALSE)
  OBVIOUS
<1>6. PICK w : w = Value(p, y.boxed)
  OBVIOUS
<1>7. PICK W : W = With([x \in H |-> v], At(x4, w))
  OBVIOUS
<1>8. /\ s2[N + 1] = t /\ M[N + 1] = d /\ s2[N] = s /\ M[N].env = b.env
      /\ y = [slot |-> x4, boxed |-> n \in boxed[s.fn]]
      /\ t = [op |-> "for", fn |-> s.fn, first |-> p, symbols |-> At(n, y),
              next |-> s.next + 4, hidden |-> H]
      /\ d = Level("for", b.fn, p, Bind(b.env, n, p), 0, 0, b.base + b.count + 4)
  BY <1>1, <1>2, <1>3, <1>4 DEF Looping
<1>9. y.slot = x4 /\ y.boxed = (n \in boxed[s.fn])
  BY <1>8
<1>10. cl2 = [cells EXCEPT ![s.fn] = With(@, W)]
  BY <1>1, <1>3, <1>5, <1>6, <1>7, <1>9 DEF Looping
<1>11. /\ N \in Nat /\ N >= 1 /\ s = scopes[N] /\ b = L[N] /\ b \in Levels /\ p \in Nat /\ b.fn < p
       /\ s \in ScopeNodes /\ Node(s, b) /\ s.fn = b.fn /\ s.fn \in Ids /\ DOMAIN cells = Ids
       /\ N \in 1..Len(L)
  BY <1>1, <1>2 DEF Building, Fits
<1>12. s.next \in Nat /\ s.fn \in Nat
  BY <1>11 DEF ScopeNodes
<1>13. s.next >= 1 /\ s.next - 1 <= b.base + b.count
  BY <1>11 DEF Node
<1>14. /\ b.fn \in Nat /\ b.env \in [Names -> Nat] /\ b.count \in Nat /\ b.base \in Nat
  BY <1>11, LevelHas
<1>15. /\ t.op = "for" /\ t.fn = s.fn /\ t.first = p /\ t.symbols = At(n, y)
       /\ t.next = s.next + 4 /\ t.hidden = H
  BY <1>8
<1>16. /\ d.op = "for" /\ d.fn = b.fn /\ d.first = p /\ d.env = Bind(b.env, n, p) /\ d.count = 0
       /\ d.base = b.base + b.count + 4
  BY <1>8 DEF Level
<1>17. /\ DOMAIN t.symbols = {n} /\ t.symbols[n] = y
  BY <1>15 DEF At
<1>18. d.env[n] = p /\ \A x \in Names : x # n => d.env[x] = b.env[x]
  BY <1>16 DEF Bind
<1>19. x4 \in Nat /\ x4 # 0 /\ x4 < t.next /\ x4 >= s.next /\ t.next \in Nat
       /\ \A x \in H : x \in Nat /\ x < t.next /\ x # x4 /\ x >= s.next
  BY <1>3, <1>4, <1>12, <1>13, <1>15, SMTT(30)
<1>20. /\ DOMAIN W = H \cup {x4} /\ W[x4] = w /\ \A x \in H : x # x4 => W[x] = v
  BY <1>7 DEF With, At
<1>21. cl2[b.fn] = With(cells[b.fn], W)
  BY <1>10, <1>11
<1>22. /\ x4 \in DOMAIN cl2[b.fn] /\ cl2[b.fn][x4] = w
       /\ \A x \in H : x \in DOMAIN cl2[b.fn] /\ cl2[b.fn][x] = v
  BY <1>19, <1>20, <1>21 DEF With
<1>23. Node(t, d)
  <2>1. t.next >= 1 /\ t.next - 1 <= d.base + d.count
    BY <1>12, <1>13, <1>14, <1>15, <1>16, SMTT(30)
  <2> QED
    BY <1>11, <1>15, <1>16, <2>1 DEF Node
<1>24. Slots(s2, M, N + 1)
  <2>1. s2[(N + 1) - 1] = s
    BY <1>8, <1>11
  <2>2. /\ \A x \in DOMAIN t.symbols :
             /\ t.symbols[x].slot # 0 /\ t.symbols[x].slot < t.next
             /\ \A m \in DOMAIN t.symbols : m # x => t.symbols[m].slot # t.symbols[x].slot
        /\ s.next <= t.next /\ \A x \in DOMAIN t.symbols : t.symbols[x].slot >= s.next
    BY <1>9, <1>12, <1>15, <1>17, <1>19
  <2>3. \A x \in t.hidden : x < t.next /\ \A m \in DOMAIN t.symbols : t.symbols[m].slot # x
    BY <1>9, <1>15, <1>17, <1>19
  <2> QED
    BY <1>8, <2>1, <2>2, <2>3 DEF Slots
<1>25. Contents(s2, M, cl2, N + 1)
  <2>1. ASSUME NEW x \in DOMAIN t.symbols
        PROVE  Holds(cl2, d.fn, t.symbols[x].slot, Value(d.env[x], t.symbols[x].boxed))
    <3>1. x = n /\ t.symbols[x].slot = x4 /\ Value(d.env[x], t.symbols[x].boxed) = w
      BY <1>6, <1>9, <1>17, <1>18
    <3> QED
      BY <1>16, <1>22, <3>1 DEF Holds
  <2>2. \A x \in t.hidden : Holds(cl2, d.fn, x, Value(d.first, FALSE))
    BY <1>5, <1>15, <1>16, <1>22 DEF Holds
  <2> QED
    BY <1>8, <2>1, <2>2 DEF Contents
<1>26. Known(s2, M, N + 1)
  <2>1. ~Made(d.op)
    BY <1>16 DEF Made
  <2>2. ASSUME NEW x \in DOMAIN t.symbols
        PROVE  (x \in boxed[d.fn] => t.symbols[x].boxed = TRUE) /\ d.env[x] >= d.fn
    <3>1. x = n /\ t.symbols[x].boxed = (n \in boxed[b.fn])
      BY <1>9, <1>11, <1>17
    <3>2. x \in boxed[d.fn] => t.symbols[x].boxed = TRUE
      BY <1>16, <3>1
    <3>3. d.env[x] >= d.fn
      BY <1>11, <1>14, <1>16, <1>18, <3>1
    <3> QED
      BY <3>2, <3>3
  <2> QED
    BY <1>8, <2>1, <2>2 DEF Known
<1>27. Through(s2, M, N + 1)
  <2>1. M[(N + 1) - 1].env = b.env
    BY <1>8, <1>11
  <2>2. \A x \in Names \ DOMAIN t.symbols : d.env[x] = b.env[x]
    BY <1>17, <1>18
  <2> QED
    BY <1>8, <2>1, <2>2 DEF Through
<1>28. Fits(s2, M, cl2, N + 1)
  BY <1>8, <1>23, <1>24, <1>25, <1>26, <1>27 DEF Fits
<1>29. t \in ScopeNodes
  <2>1. y \in [slot : Int, boxed : BOOLEAN]
    BY <1>8, <1>19
  <2>2. At(n, y) \in Symbols
    <3>1. At(n, y) = [x \in {n} |-> y]
      BY DEF At
    <3>2. At(n, y) \in [{n} -> [slot : Int, boxed : BOOLEAN]] /\ {n} \in SUBSET Names
      BY <2>1, <3>1
    <3> QED
      BY <3>2 DEF Symbols
  <2>3. H \in SUBSET Nat /\ s.next + 4 \in Nat
    BY <1>12, <1>19
  <2> QED
    BY <1>8, <1>11, <1>12, <2>2, <2>3 DEF ScopeNodes, Opened
<1>30. d \in Levels
  <2>1. Bind(b.env, n, p) \in [Names -> Nat] /\ b.base + b.count + 4 \in Nat
    BY <1>11, <1>14, SMTT(30) DEF Bind
  <2> QED
    BY <1>8, <1>11, <1>14, <2>1 DEF Level, Levels, Opened
<1>31. Kept(scopes, L, cells, cl2, N)
  <2>1. ASSUME NEW j \in 1..N, L[j].fn = s.fn, NEW x \in DOMAIN W PROVE ~(x < scopes[j].next)
    <3>1. scopes[j].next <= s.next /\ scopes[j].next \in Nat
      BY <1>1, <2>1, BehindAll
    <3>2. x \in Nat /\ x >= s.next
      BY <1>19, <1>20
    <3> QED
      BY <1>12, <3>1, <3>2
  <2>2. PICK f : f = s.fn
    OBVIOUS
  <2>3. \A j \in 1..N : L[j].fn = f => \A x \in DOMAIN W : ~(x < scopes[j].next)
    BY <2>1, <2>2
  <2>4. f \in Ids /\ N \in Nat /\ cl2 = [cells EXCEPT ![f] = With(@, W)]
    BY <1>10, <1>11, <2>2
  <2>5. Kept(scopes, L, cells, [cells EXCEPT ![f] = With(@, W)], N)
    BY <1>11, <2>3, <2>4, PutKeeps
  <2> QED
    BY <2>4, <2>5
<1>32. DOMAIN cl2 = Ids
  BY <1>10, <1>11
<1> QED
  BY <1>28, <1>29, <1>30, <1>31, <1>32

\* A for loop.
LEMMA ForEmitted ==
  ASSUME NEW h, EmitInv(h), EmitFor
  PROVE  EmitInv(h)'
<1>1. PICK p : p = pc
  OBVIOUS
<1>2. PICK c : c = program[p]
  OBVIOUS
<1>3. PICK L : L = h[p]
  OBVIOUS
<1>4. PICK M : M = h[p + 1]
  OBVIOUS
<1>5. Generating("for") /\ UNCHANGED <<analysis, denotes, records>>
  BY DEF EmitFor
<1>6. Building(h, p, c, L, M) /\ c.op = "for"
  BY <1>1, <1>2, <1>3, <1>4, <1>5, Generated
<1>7. PICK N : N = Len(L)
  OBVIOUS
<1>8. PICK b : b = Inner(L)
  OBVIOUS
<1>9. PICK n : n = c.name
  OBVIOUS
<1>10. PICK s : s = Scope
  OBVIOUS
<1>11. PICK y : y = [slot |-> s.next + 3, boxed |-> n \in boxed[s.fn]]
  OBVIOUS
<1>12. PICK t : t = [op |-> "for", fn |-> s.fn, first |-> p, symbols |-> At(n, y),
                     next |-> s.next + 4, hidden |-> s.next..(s.next + 2)]
  OBVIOUS
<1>13. PICK d : d = Level("for", b.fn, p, Bind(b.env, n, p), 0, 0, b.base + b.count + 4)
  OBVIOUS
<1>14. PICK a : a = Counting(b, 4)
  OBVIOUS
<1>15. M = Append(WithInner(L, a), d)
  BY <1>6, <1>8, <1>9, <1>13, <1>14
     DEF Building, Moves, MovesLocal, MovesBlock, MovesElse, MovesFor, MovesFunction, MovesEnd, Made
<1>16. /\ L \in Seq(Levels) /\ b \in Levels /\ b = L[N] /\ n \in Names /\ p \in Nat \ {0}
       /\ N \in Nat \ {0} /\ Len(scopes) = N /\ scopes \in Seq(ScopeNodes) /\ s = scopes[N]
       /\ s \in ScopeNodes /\ \A j \in 1..N : L[j] \in Levels
  BY <1>6, <1>7, <1>8, <1>9, <1>10 DEF Building, Naming
<1>17. /\ b.op \in {"file"} \cup Opened /\ b.fn \in Nat /\ b.first \in Nat
       /\ b.env \in [Names -> Nat] /\ b.count \in Nat /\ b.then \in Nat /\ b.base \in Nat
  BY <1>16, LevelHas
<1>18. a \in Levels
  BY <1>14, <1>17 DEF Counting, Level, Levels
<1>19. /\ a.op = b.op /\ a.fn = b.fn /\ a.first = b.first /\ a.base = b.base /\ a.env = b.env
       /\ a.count = b.count + 4
  BY <1>14 DEF Counting, Level
<1>20. /\ Len(M) = N + 1 /\ M[N + 1] = d /\ M[N] = a /\ \A j \in 1..(N - 1) : M[j] = L[j]
  <2>1. PICK K : K = WithInner(L, a)
    OBVIOUS
  <2>2. /\ K \in Seq(Levels) /\ Len(K) = N /\ K[N] = a /\ \A j \in 1..(N - 1) : K[j] = L[j]
    BY <1>7, <1>16, <1>18, <2>1 DEF WithInner
  <2>3. M = Append(K, d)
    BY <1>15, <2>1
  <2> QED
    BY <1>16, <2>2, <2>3
<1>21. scopes' = Append(scopes, t)
  <2>1. scopes' = Append(scopes, [PushScope("for", s) EXCEPT
                       !.hidden = s.next..(s.next + 2), !.next = @ + 4, !.symbols = At(n, y)])
    BY <1>1, <1>2, <1>9, <1>10, <1>11 DEF EmitFor, This
  <2>2. PushScope("for", s) = [op |-> "for", fn |-> s.fn, first |-> p, symbols |-> <<>>,
                               next |-> s.next, hidden |-> {}]
    BY <1>1 DEF PushScope
  <2>3. [PushScope("for", s) EXCEPT
           !.hidden = s.next..(s.next + 2), !.next = @ + 4, !.symbols = At(n, y)] = t
    <3>1. PICK r : r = [op |-> "for", fn |-> s.fn, first |-> p, symbols |-> <<>>,
                        next |-> s.next, hidden |-> {}]
      OBVIOUS
    <3>2. PICK H : H = s.next..(s.next + 2)
      OBVIOUS
    <3>3. PICK z : z = At(n, y)
      OBVIOUS
    <3>4. r.next = s.next
      BY <3>1
    <3>5. [r EXCEPT !.hidden = H, !.next = @ + 4, !.symbols = z]
            = [op |-> "for", fn |-> s.fn, first |-> p, symbols |-> z, next |-> s.next + 4,
               hidden |-> H]
      <4>1. PICK r1 : r1 = [op |-> "for", fn |-> s.fn, first |-> p, symbols |-> <<>>,
                            next |-> s.next, hidden |-> H]
        OBVIOUS
      <4>2. PICK r2 : r2 = [op |-> "for", fn |-> s.fn, first |-> p, symbols |-> <<>>,
                            next |-> s.next + 4, hidden |-> H]
        OBVIOUS
      <4>3. [r EXCEPT !.hidden = H] = r1
        BY <3>1, <4>1
      <4>4. [r1 EXCEPT !.next = r.next + 4] = r2
        BY <3>4, <4>1, <4>2
      <4>5. [r2 EXCEPT !.symbols = z]
              = [op |-> "for", fn |-> s.fn, first |-> p, symbols |-> z, next |-> s.next + 4,
                 hidden |-> H]
        BY <4>2
      <4>6. [r EXCEPT !.hidden = H, !.next = @ + 4, !.symbols = z]
              = [[[r EXCEPT !.hidden = H] EXCEPT !.next = r.next + 4] EXCEPT !.symbols = z]
        BY <3>1
      <4> QED
        BY <4>3, <4>4, <4>5, <4>6
    <3> QED
      BY <1>12, <2>2, <3>1, <3>2, <3>3, <3>5
  <2> QED
    BY <2>1, <2>3
<1>22. PICK s2 : s2 = scopes'
  OBVIOUS
<1>23. PICK cl2 : cl2 = cells'
  OBVIOUS
<1>24. cl2 = [cells EXCEPT ![Scope.fn] =
                With(@, With([x \in Scope.next..(Scope.next + 2) |-> Value(p, FALSE)],
                             At(y.slot, Value(p, y.boxed))))]
  BY <1>1, <1>2, <1>9, <1>10, <1>11, <1>23 DEF EmitFor, This
<1>25. s2[N + 1] = t /\ Len(s2) = N + 1 /\ \A j \in 1..N : s2[j] = scopes[j]
  BY <1>16, <1>21, <1>22
<1>26. Looping(p, L, M, n, y, s2, cl2, N, t, d)
  <2>1. N \in 1..N
    BY <1>16
  <2>2. s2[N] = Scope /\ M[N].env = Inner(L).env
    BY <1>8, <1>10, <1>16, <1>19, <1>20, <1>25, <2>1
  <2>3. y = [slot |-> Scope.next + 3, boxed |-> n \in boxed[Scope.fn]]
    BY <1>10, <1>11
  <2>4. t = [op |-> "for", fn |-> Scope.fn, first |-> p, symbols |-> At(n, y),
             next |-> Scope.next + 4, hidden |-> Scope.next..(Scope.next + 2)]
    BY <1>10, <1>12
  <2>5. d = Level("for", Inner(L).fn, p, Bind(Inner(L).env, n, p), 0, 0,
                  Inner(L).base + Inner(L).count + 4)
    BY <1>8, <1>13
  <2> QED
    BY <1>20, <1>24, <1>25, <2>2, <2>3, <2>4, <2>5 DEF Looping
<1>27. /\ Fits(s2, M, cl2, N + 1) /\ t \in ScopeNodes /\ d \in Levels
       /\ Kept(scopes, L, cells, cl2, N) /\ DOMAIN cl2 = Ids
  BY <1>6, <1>7, <1>16, <1>26, LoopFits
<1>28. \A j \in 1..N : Same(M[j], L[j])
  <2> SUFFICES ASSUME NEW j \in 1..N PROVE Same(M[j], L[j])
    OBVIOUS
  <2>1. CASE j = N
    <3>1. Same(a, b)
      BY <1>17, <1>19 DEF Same
    <3> QED
      BY <1>16, <1>20, <2>1, <3>1
  <2>2. CASE j # N
    <3>1. j \in 1..(N - 1)
      BY <1>16, <2>2
    <3>2. M[j] = L[j] /\ L[j] \in Levels
      BY <1>16, <1>20, <3>1
    <3> QED
      BY <3>2, SameLevel
  <2> QED
    BY <2>1, <2>2
<1>29. s2 \in Seq(ScopeNodes)
  BY <1>16, <1>21, <1>22, <1>27
<1>30. \A j \in 1..N : s2[j] = scopes[j] /\ Same(M[j], L[j])
  BY <1>25, <1>28
<1>31. Len(s2) = Len(M) /\ Len(M) = N + 1 /\ N <= Len(L)
  BY <1>7, <1>16, <1>20, <1>25
<1>32. Builds(program, h, p + 1, scopes, L, cells, s2, M, cl2, N)
  <2>1. L \in Seq(Levels) /\ Frame(scopes, L, cells) /\ Good(program, h, M, p + 1)
        /\ p + 1 \in Nat \ {0}
    BY <1>6, <1>16 DEF Building
  <2> QED
    BY <1>16, <1>27, <1>29, <1>30, <1>31, <2>1 DEF Builds
<1>33. Builds(program, h, p + 1, scopes, L, cells, scopes', M, cells', N)
  BY <1>22, <1>23, <1>32
<1>34. c.op # "use" /\ c.op # "end"
  BY <1>6
<1> QED
  BY <1>1, <1>2, <1>3, <1>4, <1>5, <1>6, <1>33, <1>34, EmitQuietly

\* The scope of a function: its upvalues, then its parameter.
Place(ups, u) == CHOOSE k \in DOMAIN ups : ups[k] = u

Entering(p, op, L, M, n, ups, y, s2, cl2, N, t, d) ==
  /\ s2[N + 1] = t /\ M[N + 1] = d /\ M[N] = Inner(L)
  /\ y = [slot |-> -(Len(ups) + 2), boxed |-> n \in boxed[p]]
  /\ t = [op |-> op, fn |-> p, first |-> p,
          symbols |-> With([u \in ToSet(ups) |-> [slot |-> -(Place(ups, u) + 1), boxed |-> TRUE]],
                           At(n, y)),
          next |-> 1, hidden |-> {}]
  /\ d = Level(op, p, p, Bind(Inner(L).env, n, p), 0, 0, 0)
  /\ cl2 = [cells EXCEPT ![p] =
              With([x \in {-(k + 1) : k \in DOMAIN ups} |-> Value(outer[p][ups[-x - 1]], TRUE)],
                   At(y.slot, Value(p, y.boxed)))]

\* The scope of a function fits its level, with the boxes of its upvalues.
LEMMA FunctionFits ==
  ASSUME NEW h, NEW p, NEW c, NEW L, NEW M, Building(h, p, c, L, M), NEW op, Made(op),
         NEW n \in Names, NEW ups \in Seq(Names), ups = upvalues[p], FunctionFact(L, n, p),
         NEW y, NEW s2, NEW cl2, NEW N, N = Len(L), NEW t, NEW d,
         Entering(p, op, L, M, n, ups, y, s2, cl2, N, t, d)
  PROVE  /\ Fits(s2, M, cl2, N + 1) /\ t \in ScopeNodes
         /\ Kept(scopes, L, cells, cl2, N) /\ DOMAIN cl2 = Ids
<1>1. PICK b : b = Inner(L)
  OBVIOUS
<1>2. PICK U : U = [u \in ToSet(ups) |-> [slot |-> -(Place(ups, u) + 1), boxed |-> TRUE]]
  OBVIOUS
<1>3. PICK S : S = {-(k + 1) : k \in DOMAIN ups}
  OBVIOUS
<1>4. PICK W : W = [x \in S |-> Value(outer[p][ups[-x - 1]], TRUE)]
  OBVIOUS
<1>5. PICK y4 : y4 = -(Len(ups) + 2)
  OBVIOUS
<1>6. PICK w : w = Value(p, y.boxed)
  OBVIOUS
<1>7. /\ s2[N + 1] = t /\ M[N + 1] = d /\ M[N] = b
      /\ y = [slot |-> y4, boxed |-> n \in boxed[p]]
      /\ t = [op |-> op, fn |-> p, first |-> p, symbols |-> With(U, At(n, y)),
              next |-> 1, hidden |-> {}]
      /\ d = Level(op, p, p, Bind(b.env, n, p), 0, 0, 0)
  BY <1>1, <1>2, <1>5 DEF Entering
<1>8. y.slot = y4 /\ y.boxed = (n \in boxed[p])
  BY <1>7
<1>9. cl2 = [cells EXCEPT ![p] = With(W, At(y4, w))]
  BY <1>3, <1>4, <1>6, <1>8 DEF Entering
<1>10. /\ N \in Nat /\ N >= 1 /\ b = L[N] /\ b \in Levels /\ p \in Nat \ {0} /\ p \in Ids
       /\ DOMAIN cells = Ids /\ \A j \in 1..N : L[j].fn \in Nat /\ L[j].fn < p
  BY <1>1 DEF Building
<1>11. b.env \in [Names -> Nat]
  BY <1>10, LevelHas
<1>12. Len(ups) \in Nat /\ DOMAIN ups = 1..Len(ups)
  OBVIOUS
<1>13. \A u \in ToSet(ups) : /\ Place(ups, u) \in 1..Len(ups) /\ ups[Place(ups, u)] = u
                             /\ u \in Names
  <2> SUFFICES ASSUME NEW u \in ToSet(ups)
               PROVE  /\ Place(ups, u) \in 1..Len(ups) /\ ups[Place(ups, u)] = u /\ u \in Names
    OBVIOUS
  <2>1. PICK k \in DOMAIN ups : ups[k] = u
    BY DEF ToSet
  <2>2. Place(ups, u) \in DOMAIN ups /\ ups[Place(ups, u)] = u
    BY <2>1 DEF Place
  <2> QED
    BY <1>12, <2>2
<1>14. /\ outer[p] = b.env /\ \A u \in ToSet(ups) : u # n
  BY <1>1 DEF FunctionFact, Passes
<1>15. /\ t.op = op /\ t.fn = p /\ t.first = p /\ t.symbols = With(U, At(n, y))
       /\ t.next = 1 /\ t.hidden = {}
  BY <1>7
<1>16. /\ d.op = op /\ d.fn = p /\ d.first = p /\ d.env = Bind(b.env, n, p) /\ d.count = 0
       /\ d.base = 0
  BY <1>7 DEF Level
<1>17. d.env[n] = p /\ \A x \in Names : x # n => d.env[x] = b.env[x]
  BY <1>16 DEF Bind
<1>18. /\ DOMAIN t.symbols = ToSet(ups) \cup {n} /\ t.symbols[n] = y
       /\ \A u \in ToSet(ups) : t.symbols[u] = [slot |-> -(Place(ups, u) + 1), boxed |-> TRUE]
  <2>1. DOMAIN U = ToSet(ups)
    BY <1>2
  <2>2. /\ DOMAIN t.symbols = ToSet(ups) \cup {n} /\ t.symbols[n] = y
        /\ \A u \in ToSet(ups) : t.symbols[u] = U[u]
    BY <1>14, <1>15, <2>1 DEF With, At
  <2> QED
    BY <1>2, <2>2
<1>19. \A u \in ToSet(ups) : /\ t.symbols[u].slot = -(Place(ups, u) + 1)
                             /\ t.symbols[u].boxed = TRUE
  <2> SUFFICES ASSUME NEW u \in ToSet(ups), NEW k, k = -(Place(ups, u) + 1)
               PROVE  t.symbols[u].slot = k /\ t.symbols[u].boxed = TRUE
    OBVIOUS
  <2>1. t.symbols[u] = [slot |-> k, boxed |-> TRUE]
    BY <1>18
  <2> QED
    BY <2>1
<1>20. \A u \in ToSet(ups) : /\ -(Place(ups, u) + 1) \in S /\ -(Place(ups, u) + 1) # y4
                             /\ -(Place(ups, u) + 1) \in Int /\ -(Place(ups, u) + 1) < 0
                             /\ -(-(Place(ups, u) + 1)) - 1 = Place(ups, u)
  <2> SUFFICES ASSUME NEW u \in ToSet(ups), NEW k, k = Place(ups, u)
               PROVE  -(k + 1) \in S /\ -(k + 1) # y4 /\ -(k + 1) \in Int /\ -(k + 1) < 0
                      /\ -(-(k + 1)) - 1 = k
    OBVIOUS
  <2>1. k \in 1..Len(ups) /\ k \in DOMAIN ups
    BY <1>12, <1>13
  <2>2. -(k + 1) \in S
    BY <1>3, <2>1
  <2> QED
    BY <1>5, <1>12, <2>1, <2>2
<1>21. y4 \in Int /\ y4 < 0
  BY <1>5, <1>12
<1>22. cl2[p] = With(W, At(y4, w))
  BY <1>9, <1>10
<1>23. /\ y4 \in DOMAIN cl2[p] /\ cl2[p][y4] = w
       /\ \A x \in S : x # y4 => x \in DOMAIN cl2[p] /\ cl2[p][x] = W[x]
  <2>1. DOMAIN W = S
    BY <1>4
  <2> QED
    BY <1>22, <2>1 DEF With, At
<1>24. Node(t, d)
  <2>1. t.next >= 1 /\ t.next - 1 <= d.base + d.count
    BY <1>15, <1>16
  <2> QED
    BY <1>15, <1>16, <2>1 DEF Node
<1>25. Slots(s2, M, N + 1)
  <2>1. ASSUME NEW x \in DOMAIN t.symbols
        PROVE  /\ t.symbols[x].slot # 0 /\ t.symbols[x].slot < t.next
               /\ \A m \in DOMAIN t.symbols : m # x => t.symbols[m].slot # t.symbols[x].slot
    <3>1. CASE x = n
      <4>1. t.symbols[x].slot = y4
        BY <1>8, <1>18, <3>1
      <4>2. ASSUME NEW m \in DOMAIN t.symbols, m # x PROVE t.symbols[m].slot # y4
        BY <1>18, <1>19, <1>20, <3>1, <4>2
      <4> QED
        BY <1>15, <1>21, <4>1, <4>2
    <3>2. CASE x # n
      <4>1. x \in ToSet(ups) /\ t.symbols[x].slot = -(Place(ups, x) + 1)
        BY <1>18, <1>19, <3>2
      <4>2. ASSUME NEW m \in DOMAIN t.symbols, m # x PROVE t.symbols[m].slot # t.symbols[x].slot
        <5>1. CASE m = n
          BY <1>8, <1>18, <1>20, <4>1, <5>1
        <5>2. CASE m # n
          <6>1. m \in ToSet(ups) /\ t.symbols[m].slot = -(Place(ups, m) + 1)
            BY <1>18, <1>19, <5>2
          <6>2. PICK i : i = Place(ups, m)
            OBVIOUS
          <6>3. PICK k : k = Place(ups, x)
            OBVIOUS
          <6>4. i \in 1..Len(ups) /\ k \in 1..Len(ups) /\ ups[i] = m /\ ups[k] = x
            BY <1>13, <4>1, <6>1, <6>2, <6>3
          <6>5. i # k
            BY <4>2, <6>4
          <6>6. -(i + 1) # -(k + 1)
            BY <1>12, <6>4, <6>5
          <6> QED
            BY <4>1, <6>1, <6>2, <6>3, <6>6
        <5> QED
          BY <5>1, <5>2
      <4>3. t.symbols[x].slot \in Int /\ t.symbols[x].slot < 0
        BY <1>20, <4>1
      <4>4. t.symbols[x].slot # 0 /\ t.symbols[x].slot < t.next
        BY <1>15, <4>3
      <4> QED
        BY <4>2, <4>4
    <3> QED
      BY <3>1, <3>2
  <2>2. Made(M[N + 1].op) /\ M[N + 1].op # "for"
    BY <1>7, <1>16 DEF Made
  <2> QED
    BY <1>7, <2>1, <2>2 DEF Slots
<1>26. Contents(s2, M, cl2, N + 1)
  <2>1. ASSUME NEW x \in DOMAIN t.symbols
        PROVE  Holds(cl2, d.fn, t.symbols[x].slot, Value(d.env[x], t.symbols[x].boxed))
    <3>1. CASE x = n
      BY <1>6, <1>8, <1>16, <1>17, <1>18, <1>23, <3>1 DEF Holds
    <3>2. CASE x # n
      <4>1. PICK k : k = Place(ups, x)
        OBVIOUS
      <4>2. x \in ToSet(ups) /\ x \in Names /\ t.symbols[x].slot = -(k + 1)
            /\ t.symbols[x].boxed = TRUE /\ ups[k] = x
        BY <1>13, <1>18, <1>19, <3>2, <4>1
      <4>3. -(k + 1) \in S /\ -(k + 1) # y4 /\ -(-(k + 1)) - 1 = k
        BY <1>20, <4>1, <4>2
      <4>4. W[-(k + 1)] = Value(outer[p][ups[-(-(k + 1)) - 1]], TRUE)
        BY <1>4, <4>3
      <4>5. W[-(k + 1)] = Value(outer[p][x], TRUE)
        BY <4>2, <4>3, <4>4
      <4>6. outer[p][x] = d.env[x]
        BY <1>14, <1>17, <3>2, <4>2
      <4> QED
        BY <1>16, <1>23, <4>2, <4>3, <4>5, <4>6 DEF Holds
    <3> QED
      BY <3>1, <3>2
  <2>2. M[N + 1].op # "for"
    BY <1>7, <1>16 DEF Made
  <2> QED
    BY <1>7, <2>1, <2>2 DEF Contents
<1>27. Known(s2, M, N + 1)
  <2>1. Made(d.op) /\ d.fn = p
    BY <1>16
  <2>2. ASSUME NEW x \in DOMAIN t.symbols
        PROVE  /\ x \in boxed[p] => t.symbols[x].boxed = TRUE
               /\ x \in ToSet(upvalues[p]) => t.symbols[x].boxed = TRUE
    <3>1. CASE x = n
      <4>1. t.symbols[x].boxed = (n \in boxed[p]) /\ x \notin ToSet(ups)
        BY <1>8, <1>14, <1>18, <3>1
      <4> QED
        BY <3>1, <4>1
    <3>2. CASE x # n
      BY <1>18, <1>19, <3>2
    <3> QED
      BY <3>1, <3>2
  <2>3. ToSet(upvalues[p]) \subseteq DOMAIN t.symbols
    BY <1>18
  <2> QED
    BY <1>7, <2>1, <2>2, <2>3 DEF Known
<1>28. Through(s2, M, N + 1)
  <2>1. M[(N + 1) - 1].env = b.env
    BY <1>7, <1>10
  <2>2. \A x \in Names \ DOMAIN t.symbols : d.env[x] = b.env[x]
    BY <1>17, <1>18
  <2> QED
    BY <1>7, <2>1, <2>2 DEF Through
<1>29. Fits(s2, M, cl2, N + 1)
  BY <1>7, <1>24, <1>25, <1>26, <1>27, <1>28 DEF Fits
<1>30. t \in ScopeNodes
  <2>1. y \in [slot : Int, boxed : BOOLEAN]
    BY <1>7, <1>21
  <2>2. U \in Symbols
    <3>1. U \in [ToSet(ups) -> [slot : Int, boxed : BOOLEAN]]
      BY <1>2, <1>20
    <3>2. ToSet(ups) \in SUBSET Names
      BY <1>13
    <3> QED
      BY <3>1, <3>2 DEF Symbols
  <2>3. With(U, At(n, y)) \in Symbols
    BY <2>1, <2>2, SymbolsWith
  <2>4. op \in Opened
    BY DEF Made, Opened
  <2> QED
    BY <1>7, <1>10, <2>3, <2>4 DEF ScopeNodes
<1>31. Kept(scopes, L, cells, cl2, N)
  <2> SUFFICES ASSUME NEW j \in 1..N PROVE cl2[L[j].fn] = cells[L[j].fn]
    BY DEF Kept
  <2>1. L[j].fn \in Nat /\ L[j].fn < p
    BY <1>10
  <2>2. L[j].fn # p
    BY <1>10, <2>1
  <2> QED
    BY <1>9, <2>2
<1>32. DOMAIN cl2 = Ids
  BY <1>9, <1>10
<1> QED
  BY <1>29, <1>30, <1>31, <1>32

\* A record with three other fields.
Changed(r, f, n, e) == [r EXCEPT !.fn = f, !.next = n, !.symbols = e]

\* The scope that is pushed for a function, field by field.
LEMMA PushedIs ==
  ASSUME NEW op, NEW fn, NEW first, NEW e, NEW next, NEW hidden, NEW f2, NEW n2, NEW e2, NEW r,
         r = [op |-> op, fn |-> fn, first |-> first, symbols |-> e, next |-> next,
              hidden |-> hidden]
  PROVE  Changed(r, f2, n2, e2)
           = [op |-> op, fn |-> f2, first |-> first, symbols |-> e2, next |-> n2, hidden |-> hidden]
<1>1. PICK r1 : r1 = [op |-> op, fn |-> f2, first |-> first, symbols |-> e,
                      next |-> next, hidden |-> hidden]
  OBVIOUS
<1>2. PICK r2 : r2 = [op |-> op, fn |-> f2, first |-> first, symbols |-> e,
                      next |-> n2, hidden |-> hidden]
  OBVIOUS
<1>3. [r EXCEPT !.fn = f2] = r1
  BY <1>1
<1>4. [r1 EXCEPT !.next = n2] = r2
  BY <1>1, <1>2
<1>5. [r2 EXCEPT !.symbols = e2]
        = [op |-> op, fn |-> f2, first |-> first, symbols |-> e2, next |-> n2, hidden |-> hidden]
  BY <1>2
<1>6. [r EXCEPT !.fn = f2, !.next = n2, !.symbols = e2]
        = [[[r EXCEPT !.fn = f2] EXCEPT !.next = n2] EXCEPT !.symbols = e2]
  OBVIOUS
<1> QED
  BY <1>3, <1>4, <1>5, <1>6 DEF Changed

\* A function.
LEMMA FunctionEmitted ==
  ASSUME NEW h, EmitInv(h), EmitFunction
  PROVE  EmitInv(h)'
<1>1. PICK p : p = pc
  OBVIOUS
<1>2. PICK c : c = program[p]
  OBVIOUS
<1>3. PICK L : L = h[p]
  OBVIOUS
<1>4. PICK M : M = h[p + 1]
  OBVIOUS
<1>5. UNCHANGED <<analysis, denotes, records>>
  BY DEF EmitFunction
<1>6. PICK op \in {"function", "named"} : Generating(op)
  BY DEF EmitFunction
<1>7. Building(h, p, c, L, M) /\ c.op = op /\ Made(op)
  BY <1>1, <1>2, <1>3, <1>4, <1>6, Generated DEF Made
<1>8. PICK N : N = Len(L)
  OBVIOUS
<1>9. PICK b : b = Inner(L)
  OBVIOUS
<1>10. PICK n : n = c.name
  OBVIOUS
<1>11. PICK s : s = Scope
  OBVIOUS
<1>12. PICK ups : ups = upvalues[p]
  OBVIOUS
<1>13. PICK y : y = [slot |-> -(Len(ups) + 2), boxed |-> n \in boxed[p]]
  OBVIOUS
<1>14. PICK z : z = With([u \in ToSet(ups) |-> [slot |-> -(Place(ups, u) + 1), boxed |-> TRUE]],
                         At(n, y))
  OBVIOUS
<1>15. PICK t : t = [op |-> op, fn |-> p, first |-> p, symbols |-> z, next |-> 1, hidden |-> {}]
  OBVIOUS
<1>16. PICK d : d = Level(op, p, p, Bind(b.env, n, p), 0, 0, 0)
  OBVIOUS
<1>17. M = Append(L, d)
  BY <1>7, <1>9, <1>10, <1>16
     DEF Building, Moves, MovesLocal, MovesBlock, MovesElse, MovesFor, MovesFunction, MovesEnd, Made
<1>18. /\ L \in Seq(Levels) /\ b \in Levels /\ b = L[N] /\ n \in Names /\ p \in Nat \ {0} /\ p \in Ids
       /\ N \in Nat \ {0} /\ Len(scopes) = N /\ scopes \in Seq(ScopeNodes)
       /\ \A j \in 1..N : L[j] \in Levels
  BY <1>7, <1>8, <1>9, <1>10 DEF Building, Naming, Made
<1>19. /\ b.env \in [Names -> Nat]
  BY <1>18, LevelHas
<1>20. ups \in Seq(Names)
  BY <1>12, <1>18 DEF EmitInv, AnalysisTyped
<1>21. FunctionFact(L, n, p)
  BY <1>2, <1>7, <1>10 DEF Building, Fact
<1>22. d \in Levels
  <2>1. Bind(b.env, n, p) \in [Names -> Nat]
    BY <1>18, <1>19 DEF Bind
  <2>2. op \in Opened
    BY DEF Opened
  <2> QED
    BY <1>16, <1>18, <2>1, <2>2 DEF Level, Levels
<1>23. /\ Len(M) = N + 1 /\ M[N + 1] = d /\ \A j \in 1..N : M[j] = L[j]
  BY <1>8, <1>17, <1>18
<1>24. scopes' = Append(scopes, t)
  <2>1. scopes' = Append(scopes, [PushScope(op, s) EXCEPT !.fn = p, !.next = 1, !.symbols = z])
    BY <1>1, <1>2, <1>7, <1>10, <1>11, <1>12, <1>13, <1>14 DEF EmitFunction, This, Place
  <2>2. PICK r : r = [op |-> op, fn |-> s.fn, first |-> p, symbols |-> <<>>,
                      next |-> s.next, hidden |-> {}]
    OBVIOUS
  <2>3. PushScope(op, s) = r
    BY <1>1, <2>2 DEF PushScope
  <2>4. [r EXCEPT !.fn = p, !.next = 1, !.symbols = z] = t
    <3>1. PICK one : one = 1
      OBVIOUS
    <3>2. PICK none : none = {}
      OBVIOUS
    <3>3. PICK e : e = <<>>
      OBVIOUS
    <3>4. r = [op |-> op, fn |-> s.fn, first |-> p, symbols |-> e, next |-> s.next, hidden |-> none]
      BY <2>2, <3>2, <3>3
    <3>5. Changed(r, p, one, z)
            = [op |-> op, fn |-> p, first |-> p, symbols |-> z, next |-> one, hidden |-> none]
      BY <3>4, PushedIs
    <3> QED
      BY <1>15, <3>1, <3>2, <3>5 DEF Changed
  <2> QED
    BY <2>1, <2>3, <2>4
<1>25. PICK s2 : s2 = scopes'
  OBVIOUS
<1>26. PICK cl2 : cl2 = cells'
  OBVIOUS
<1>27. cl2 = [cells EXCEPT ![p] =
                With([x \in {-(k + 1) : k \in DOMAIN ups} |-> Value(outer[p][ups[-x - 1]], TRUE)],
                     At(y.slot, Value(p, y.boxed)))]
  BY <1>1, <1>2, <1>10, <1>12, <1>13, <1>26 DEF EmitFunction, This
<1>28. s2[N + 1] = t /\ Len(s2) = N + 1 /\ \A j \in 1..N : s2[j] = scopes[j]
  BY <1>18, <1>24, <1>25
<1>29. Entering(p, op, L, M, n, ups, y, s2, cl2, N, t, d)
  <2>1. N \in 1..N
    BY <1>18
  <2>2. M[N] = Inner(L) /\ M[N + 1] = d /\ s2[N + 1] = t
    BY <1>9, <1>18, <1>23, <1>28, <2>1
  <2>3. t = [op |-> op, fn |-> p, first |-> p,
             symbols |-> With([u \in ToSet(ups) |-> [slot |-> -(Place(ups, u) + 1), boxed |-> TRUE]],
                              At(n, y)),
             next |-> 1, hidden |-> {}]
    BY <1>14, <1>15
  <2>4. d = Level(op, p, p, Bind(Inner(L).env, n, p), 0, 0, 0)
    BY <1>9, <1>16
  <2> QED
    BY <1>13, <1>27, <2>2, <2>3, <2>4 DEF Entering
<1>30. /\ Fits(s2, M, cl2, N + 1) /\ t \in ScopeNodes
       /\ Kept(scopes, L, cells, cl2, N) /\ DOMAIN cl2 = Ids
  BY <1>7, <1>8, <1>12, <1>18, <1>20, <1>21, <1>29, FunctionFits
<1>31. \A j \in 1..N : Same(M[j], L[j])
  BY <1>18, <1>23, SameLevel
<1>32. s2 \in Seq(ScopeNodes)
  BY <1>18, <1>24, <1>25, <1>30
<1>33. \A j \in 1..N : s2[j] = scopes[j] /\ Same(M[j], L[j])
  BY <1>28, <1>31
<1>34. Len(s2) = Len(M) /\ Len(M) = N + 1 /\ N <= Len(L)
  BY <1>8, <1>18, <1>23, <1>28
<1>35. Builds(program, h, p + 1, scopes, L, cells, s2, M, cl2, N)
  <2>1. L \in Seq(Levels) /\ Frame(scopes, L, cells) /\ Good(program, h, M, p + 1)
        /\ p + 1 \in Nat \ {0}
    BY <1>7, <1>18 DEF Building
  <2> QED
    BY <1>18, <1>30, <1>32, <1>33, <1>34, <2>1 DEF Builds
<1>36. Builds(program, h, p + 1, scopes, L, cells, scopes', M, cells', N)
  BY <1>25, <1>26, <1>35
<1>37. c.op # "use" /\ c.op # "end"
  BY <1>7 DEF Made
<1> QED
  BY <1>1, <1>2, <1>3, <1>4, <1>5, <1>7, <1>36, <1>37, EmitQuietly

\* What EnoughIs says, to be read of the next state.
EndsEnough(h) ==
  /\ Story(program, h) /\ Facts(h) /\ counted \in [Ids -> Nat] /\ Len(program) <= MaxLength
  /\ EnoughAt(h[Len(program) + 1])
\* That the slots are enough at the end of the program is enough.
LEMMA EnoughNext ==
  ASSUME NEW h
  PROVE  EndsEnough(h)' => Enough(h)'
<1>1. EndsEnough(h) => Enough(h)
  BY EnoughIs DEF EndsEnough
<1> QED
  BY <1>1, PTL

\* The frame of the file is empty before its first construct.
LEMMA FileFits ==
  ASSUME NEW s, s = <<[op |-> "file", fn |-> 0, first |-> 0, symbols |-> <<>>, next |-> 1,
                       hidden |-> {}]>>,
         NEW cl, cl = [f \in Ids |-> <<>>]
  PROVE  Frame(s, <<File>>, cl)
<1>1. PICK M : M = <<File>>
  OBVIOUS
<1>2. Len(M) = 1 /\ M[1] = File /\ Len(s) = 1
  BY <1>1
<1>3. /\ File.op = "file" /\ File.fn = 0 /\ File.first = 0 /\ File.count = 0 /\ File.then = 0
      /\ File.base = 0
  BY DEF File, Level
<1>4. /\ s[1].op = "file" /\ s[1].fn = 0 /\ s[1].first = 0 /\ s[1].symbols = <<>>
      /\ s[1].next = 1 /\ s[1].hidden = {}
  OBVIOUS
<1>5. s[1] \in ScopeNodes
  <2>1. PICK e : e = <<>>
    OBVIOUS
  <2>2. e \in Symbols
    BY <2>1, NoSymbols
  <2>3. PICK x : x = {}
    OBVIOUS
  <2>4. x \in SUBSET Nat
    BY <2>3
  <2>5. s[1] = [op |-> "file", fn |-> 0, first |-> 0, symbols |-> e, next |-> 1, hidden |-> x]
    BY <2>1, <2>3
  <2> QED
    BY <2>2, <2>4, <2>5 DEF ScopeNodes
<1>6. s \in Seq(ScopeNodes)
  BY <1>2, <1>5
<1>7. DOMAIN s[1].symbols = {}
  BY <1>4, NoSymbols
<1>8. Fits(s, M, cl, 1)
  <2>1. Node(s[1], M[1])
    BY <1>2, <1>3, <1>4 DEF Node
  <2>2. ~Made(M[1].op) /\ M[1].op # "for"
    BY <1>2, <1>3 DEF Made
  <2>5. Slots(s, M, 1)
    BY <1>7, <2>2 DEF Slots
  <2>3. Contents(s, M, cl, 1)
    BY <1>7, <2>2 DEF Contents
  <2>4. Known(s, M, 1) /\ Through(s, M, 1)
    BY <1>7, <2>2 DEF Known, Through
  <2> QED
    BY <2>1, <2>3, <2>4, <2>5 DEF Fits
<1>9. Rising(s, M)
  BY <1>2 DEF Rising
<1> QED
  BY <1>1, <1>2, <1>6, <1>7, <1>8, <1>9 DEF Frame

\* When all is read, the generation begins with what was found.
LEMMA AllRead ==
  ASSUME NEW h, ReadInv(h), ReadAll
  PROVE  EmitInv(h)'
<1>1. PICK p : p = Pos
  OBVIOUS
<1>2. PICK L : L = h[p]
  OBVIOUS
<1>3. /\ AnalysisTyped /\ Story(program, h) /\ Facts(h) /\ Untouched /\ Unread /\ MaxLength \in Nat
  BY ScopesAssumption DEF ReadInv
<1>4. /\ p \in Nat \ {0} /\ p = Len(program) + 1 /\ program \in Seq(Constructs)
      /\ Good(program, h, L, p) /\ Len(L) \in Nat /\ Len(L) >= 1 /\ Len(open) = Len(L)
      /\ L \in Seq(Levels) /\ Inner(L) = L[Len(L)] /\ Inner(L) \in Levels
      /\ Top.count = Inner(L).count
  BY <1>1, <1>2, Here
<1>5. /\ pc' = 1 /\ Len(program) = Longest /\ counted' = [counted EXCEPT ![0] = Top.count]
      /\ UNCHANGED <<program, open, env, home, free, upvalues, boxed, outer, meant, emission>>
  BY DEF ReadAll
<1>6. UNCHANGED <<scopes, cells, denotes, records>>
  BY <1>5 DEF emission
<1>7. Len(L) = 1
  <2>1. Len(program) + Len(open) - 1 <= Longest /\ Len(program) \in Nat
    BY <1>3, <1>4 DEF Unread
  <2> QED
    BY <1>4, <1>5, <2>1
<1>8. /\ counted' \in [Ids -> Nat] /\ counted'[0] = Inner(L).count
      /\ \A f \in Ids : f # 0 => counted'[f] = counted[f]
  <2>1. counted \in [Ids -> Nat] /\ 0 \in Ids
    BY <1>3 DEF AnalysisTyped, Ids
  <2>2. Inner(L).count \in Nat
    BY <1>4, LevelHas
  <2> QED
    BY <1>4, <1>5, <2>1, <2>2
<1>9. AnalysisTyped'
  BY <1>3, <1>5, <1>8 DEF AnalysisTyped
<1>10. Story(program, h)'
  BY <1>3, <1>5
<1>11. Facts(h)'
  <2> SUFFICES ASSUME NEW q \in 1..Len(program) PROVE Fact(h[q], q)'
    BY <1>5 DEF Facts
  <2>1. PICK K : K = h[q]
    OBVIOUS
  <2>2. Fact(K, q)
    BY <1>3, <2>1 DEF Facts
  <2>3. UseFact(K, program[q].name, q) => UseFact(K, program[q].name, q)'
    BY <1>5 DEF UseFact
  <2>4. FunctionFact(K, program[q].name, q) => FunctionFact(K, program[q].name, q)'
    BY <1>5 DEF FunctionFact, Passes
  <2>5. EndFact(K, q) => EndFact(K, q)'
    <3>1. Made(Inner(K).op) => Inner(K).fn \in Ids /\ Inner(K).fn # 0
      <4> SUFFICES ASSUME Made(Inner(K).op) PROVE Inner(K).fn \in Ids /\ Inner(K).fn # 0
        OBVIOUS
      <4>1. q \in Nat \ {0} /\ q \in 1..(Len(program) + 1) /\ q <= MaxLength
        BY <1>3, <1>4 DEF AnalysisTyped
      <4>2. Good(program, h, K, q)
        BY <1>3, <2>1, <4>1 DEF Story
      <4>3. /\ Inner(K) = K[Len(K)] /\ Len(K) \in Nat /\ Len(K) >= 1
            /\ Inner(K).fn \in Nat /\ Inner(K).fn < q
        BY <4>1, <4>2, InnerIs
      <4>4. Len(K) # 1
        BY <4>2, <4>3 DEF Good, GoodFirst, Made
      <4>5. Len(K) \in 2..Len(K)
        <5>1. PICK N : N = Len(K)
          OBVIOUS
        <5>2. N \in Nat /\ N >= 1 /\ N # 1
          BY <4>3, <4>4, <5>1
        <5>3. N \in 2..N
          BY <5>2
        <5> QED
          BY <5>1, <5>3
      <4>6. Inner(K).fn \in Nat \ {0}
        BY <4>2, <4>3, <4>5 DEF Good, GoodMade
      <4> QED
        BY <1>3, <4>1, <4>3, <4>6 DEF Ids
    <3> QED
      BY <1>5, <1>8, <3>1 DEF EndFact
  <2>6. Fact(K, q)'
    BY <1>5, <2>2, <2>3, <2>4, <2>5 DEF Fact
  <2> QED
    BY <2>1, <2>6
<1>12. Enough(h)'
  <2>1. /\ L[1] = Inner(L) /\ L[1].fn = 0 /\ L[1].base = 0 /\ L[1].then = 0
    BY <1>4, <1>7 DEF Good, GoodFirst
  <2>2. CountOf(L[1]) = Inner(L).count
    BY <1>4, <2>1, LevelHas DEF CountOf
  <2>3. Inner(L).count \in Nat
    BY <1>4, LevelHas
  <2>4. L[1].base + CountOf(L[1]) <= counted'[L[1].fn]
    BY <1>8, <2>1, <2>2, <2>3
  <2>5. \A j \in 1..Len(L) : j = 1
    BY <1>7
  <2>6. EnoughAt(L)'
    BY <2>4, <2>5 DEF EnoughAt
  <2>7. EnoughAt(h[Len(program) + 1])'
    BY <1>2, <1>4, <1>5, <2>6
  <2>8. EndsEnough(h)'
    BY <1>8, <1>9, <1>10, <1>11, <2>7 DEF EndsEnough, AnalysisTyped
  <2> QED
    BY <2>8, EnoughNext
<1>13. Frame(scopes, h[pc], cells)'
  <2>1. PICK s : s = <<[op |-> "file", fn |-> 0, first |-> 0, symbols |-> <<>>, next |-> 1,
                        hidden |-> {}]>>
    OBVIOUS
  <2>2. PICK cl : cl = [f \in Ids |-> <<>>]
    OBVIOUS
  <2>3. Frame(s, <<File>>, cl)
    BY <2>1, <2>2, FileFits
  <2>4. PICK M : M = h[1]
    OBVIOUS
  <2>5. M = <<File>>
    BY <1>3, <2>4 DEF Story
  <2>6. Frame(s, M, cl)'
    BY <1>5, <2>3, <2>5, FrameStays
  <2>7. scopes' = s /\ cells' = cl
    BY <1>3, <1>6, <2>1, <2>2 DEF Untouched
  <2>8. h[pc'] = M
    BY <1>5, <2>4
  <2> QED
    BY <2>6, <2>7, <2>8
<1>14. Denoted'
  <2>1. denotes' = [i \in 1..MaxLength |-> 0]
    BY <1>3, <1>6 DEF Untouched
  <2>2. UsesDenote'
    BY <1>5 DEF UsesDenote
  <2> QED
    BY <1>5, <2>1, <2>2 DEF Denoted
<1>15. CapturesBoxes'
  BY <1>3, <1>6 DEF Untouched, CapturesBoxes
<1>16. (pc \in 1..(Len(program) + 1))'
  BY <1>4, <1>5
<1> QED
  BY <1>9, <1>10, <1>11, <1>12, <1>13, <1>14, <1>15, <1>16 DEF EmitInv

-----------------------------------------------------------------------------
(***************************************************************************)
(* The specification.                                                      *)
(***************************************************************************)
\* The inductive invariant: the program has a history, by which it is being read
\* or was read and is being generated.
Inv == (\E h : ReadInv(h)) \/ (\E h : EmitInv(h))

\* A step of the reading.
LEMMA ReadStepKeeps ==
  ASSUME NEW h, ReadInv(h), ReadStep
  PROVE  Inv'
<1>1. ASSUME NEW n \in Names, ReadLocal(n)
      PROVE  Inv'
  BY <1>1, LocalRead DEF Inv
<1>2. ASSUME NEW n \in Names, ReadUse(n)
      PROVE  Inv'
  BY <1>2, UseRead DEF Inv
<1>3. ASSUME NEW n \in Names, ReadFor(n)
      PROVE  Inv'
  BY <1>3, ForRead DEF Inv
<1>4. ASSUME NEW op \in {"function", "named"}, NEW n \in Names, ReadFunction(op, n)
      PROVE  Inv'
  BY <1>4, FunctionRead DEF Inv
<1>5. CASE ReadBlock
  BY <1>5, BlockRead DEF Inv
<1>6. CASE ReadElse
  BY <1>6, ElseRead DEF Inv
<1>7. CASE ReadCall
  BY <1>7, CallRead DEF Inv
<1>8. CASE ReadEnd
  BY <1>8, EndRead DEF Inv
<1>9. CASE ReadAll
  BY <1>9, AllRead DEF Inv
<1> QED
  BY <1>1, <1>2, <1>3, <1>4, <1>5, <1>6, <1>7, <1>8, <1>9 DEF ReadStep

\* A step of the generation.
LEMMA EmitStepKeeps ==
  ASSUME NEW h, EmitInv(h), EmitStep
  PROVE  EmitInv(h)'
<1>1. CASE EmitLocal
  BY <1>1, LocalEmitted
<1>2. CASE EmitUse
  BY <1>2, UseEmitted
<1>3. CASE EmitBlock
  BY <1>3, BlockEmitted
<1>4. CASE EmitElse
  BY <1>4, ElseEmitted
<1>5. CASE EmitFor
  BY <1>5, ForEmitted
<1>6. CASE EmitFunction
  BY <1>6, FunctionEmitted
<1>7. CASE EmitEndBlock
  BY <1>7, EndBlockEmitted
<1>8. CASE EmitEndFunction
  BY <1>8, EndFunctionEmitted
<1>9. CASE EmitCall
  BY <1>9, CallEmitted
<1> QED
  BY <1>1, <1>2, <1>3, <1>4, <1>5, <1>6, <1>7, <1>8, <1>9 DEF EmitStep

\* Nothing is generated while the program is read,
LEMMA NoneEmitted ==
  ASSUME NEW h, ReadInv(h), EmitStep
  PROVE  FALSE
<1>1. pc \in DOMAIN program
  BY DEF EmitStep, EmitLocal, EmitUse, EmitBlock, EmitElse, EmitFor, EmitFunction, EmitEndBlock,
         EmitEndFunction, EmitCall, Generating
<1>2. pc = 0 /\ program \in Seq(Constructs)
  BY DEF ReadInv, Untouched, Story
<1> QED
  BY <1>1, <1>2

\* and nothing is read while it is generated.
LEMMA NoneRead ==
  ASSUME NEW h, EmitInv(h), ReadStep
  PROVE  FALSE
<1>1. pc = 0
  BY DEF ReadStep, ReadLocal, ReadUse, ReadFor, ReadFunction, ReadBlock, ReadElse, ReadCall,
         ReadEnd, ReadAll, Room
<1>2. pc \in 1..(Len(program) + 1)
  BY DEF EmitInv
<1> QED
  BY <1>1, <1>2

\* When nothing changes, what reading keeps stays.
LEMMA ReadStays ==
  ASSUME NEW h, ReadInv(h), UNCHANGED vars
  PROVE  ReadInv(h)'
<1>1. /\ UNCHANGED <<program, open, env, home, free, upvalues, boxed, outer, counted, meant>>
      /\ UNCHANGED <<pc, scopes, cells, denotes, records>>
  BY DEF vars, analysis, results, emission
<1>2. /\ Untouched /\ AnalysisTyped /\ Story(program, h) /\ Facts(h)
      /\ Now(h[Pos]) /\ Declared(h[Pos]) /\ Homes(h) /\ Frees /\ Unread
  BY DEF ReadInv
<1>3. Untouched' /\ AnalysisTyped' /\ Story(program, h)'
  BY <1>1, <1>2 DEF Untouched, AnalysisTyped
<1>4. Facts(h)'
  BY <1>1, <1>2, FactsStay
<1>5. Now(h[Pos])' /\ Declared(h[Pos])'
  BY <1>1, <1>2 DEF Now, Declared, Pos
<1>6. Homes(h)' /\ Frees'
  BY <1>1, <1>2 DEF Homes, Frees
<1>7. Unread'
  BY <1>1, <1>2 DEF Unread, Pos, Longest
<1> QED
  BY <1>3, <1>4, <1>5, <1>6, <1>7 DEF ReadInv

\* (The same of the generation.)
LEMMA EmitStays ==
  ASSUME NEW h, EmitInv(h), UNCHANGED vars
  PROVE  EmitInv(h)'
<1>1. UNCHANGED analysis /\ UNCHANGED <<pc, scopes, cells, denotes, records>>
  BY DEF vars, emission
<1>2. UNCHANGED <<program, upvalues, boxed, outer, meant>>
  BY <1>1 DEF analysis, results
<1>3. /\ pc \in 1..(Len(program) + 1) /\ AnalysisTyped /\ Story(program, h) /\ Facts(h) /\ Enough(h)
      /\ Frame(scopes, h[pc], cells) /\ Denoted
      /\ "named" \notin Extras => CapturesBoxes
  BY DEF EmitInv
<1>4. AnalysisTyped' /\ Story(program, h)' /\ Facts(h)' /\ Enough(h)'
  BY <1>1, <1>3, AnalysisStays
<1>5. Frame(scopes, h[pc], cells)'
  <2>1. PICK s : s = scopes
    OBVIOUS
  <2>2. PICK cl : cl = cells
    OBVIOUS
  <2>3. PICK L : L = h[pc]
    OBVIOUS
  <2>4. Frame(s, L, cl)
    BY <1>3, <2>1, <2>2, <2>3
  <2>5. Frame(s, L, cl)'
    BY <1>2, <2>4, FrameStays
  <2> QED
    BY <1>1, <2>1, <2>2, <2>3, <2>5
<1>6. Denoted'
  BY <1>1, <1>2, <1>3 DEF Denoted, UsesDenote
<1>7. ("named" \notin Extras => CapturesBoxes)'
  BY <1>1, <1>2, <1>3 DEF CapturesBoxes
<1>8. (pc \in 1..(Len(program) + 1))'
  BY <1>1, <1>2, <1>3
<1> QED
  BY <1>4, <1>5, <1>6, <1>7, <1>8 DEF EmitInv

\* The compiler keeps the inductive invariant.
LEMMA Inductive ==
  ASSUME Inv, [Next]_vars
  PROVE  Inv'
<1>1. ASSUME NEW h, ReadInv(h)
      PROVE  Inv'
  <2>1. CASE ReadStep
    BY <1>1, <2>1, ReadStepKeeps
  <2>2. CASE EmitStep
    BY <1>1, <2>2, NoneEmitted
  <2>3. CASE UNCHANGED vars
    <3>1. ReadInv(h)'
      BY <1>1, <2>3, ReadStays
    <3> QED
      BY <3>1 DEF Inv
  <2> QED
    BY <2>1, <2>2, <2>3 DEF Next
<1>2. ASSUME NEW h, EmitInv(h)
      PROVE  Inv'
  <2>1. CASE ReadStep
    BY <1>2, <2>1, NoneRead
  <2>2. CASE EmitStep
    <3>1. EmitInv(h)'
      BY <1>2, <2>2, EmitStepKeeps
    <3> QED
      BY <3>1 DEF Inv
  <2>3. CASE UNCHANGED vars
    <3>1. EmitInv(h)'
      BY <1>2, <2>3, EmitStays
    <3> QED
      BY <3>1 DEF Inv
  <2> QED
    BY <2>1, <2>2, <2>3 DEF Next
<1> QED
  BY <1>1, <1>2 DEF Inv

\* What the invariant says of the names,
LEMMA UsesFollow ==
  ASSUME Inv, "block" \notin Extras
  PROVE  UsesDenote
<1>1. ASSUME NEW h, ReadInv(h)
      PROVE  UsesDenote
  <2>1. pc = 0
    BY <1>1 DEF ReadInv, Untouched
  <2> QED
    BY <2>1 DEF UsesDenote
<1>2. ASSUME NEW h, EmitInv(h)
      PROVE  UsesDenote
  BY <1>2 DEF EmitInv, Denoted
<1> QED
  BY <1>1, <1>2 DEF Inv

\* of the closures,
LEMMA BoxesFollow ==
  ASSUME Inv, "named" \notin Extras
  PROVE  CapturesBoxes
<1>1. ASSUME NEW h, ReadInv(h)
      PROVE  CapturesBoxes
  <2>1. records = {}
    BY <1>1 DEF ReadInv, Untouched
  <2> QED
    BY <2>1 DEF CapturesBoxes
<1>2. ASSUME NEW h, EmitInv(h)
      PROVE  CapturesBoxes
  BY <1>2 DEF EmitInv
<1> QED
  BY <1>1, <1>2 DEF Inv

\* and of the slots.
LEMMA SlotsFollow ==
  ASSUME Inv
  PROVE  SlotsCounted
<1>1. ASSUME NEW h, ReadInv(h)
      PROVE  SlotsCounted
  <2>1. pc = 0
    BY <1>1 DEF ReadInv, Untouched
  <2> QED
    BY <2>1 DEF SlotsCounted
<1>2. ASSUME NEW h, EmitInv(h)
      PROVE  SlotsCounted
  <2>1. /\ pc \in 1..(Len(program) + 1) /\ AnalysisTyped /\ Story(program, h) /\ Enough(h)
        /\ Frame(scopes, h[pc], cells)
    BY <1>2 DEF EmitInv
  <2>2. PICK L : L = h[pc]
    OBVIOUS
  <2>3. L \in Seq(Levels) /\ EnoughAt(L) /\ Frame(scopes, L, cells) /\ Len(L) \in Nat
    BY <2>1, <2>2 DEF Story, Good, Enough
  <2>4. scopes \in Seq(ScopeNodes) /\ Len(scopes) = Len(L)
    BY <2>3 DEF Frame
  <2> SUFFICES ASSUME NEW i \in DOMAIN scopes
               PROVE  scopes[i].next - 1 <= counted[scopes[i].fn]
    BY DEF SlotsCounted
  <2>5. i \in 1..Len(L) /\ i \in 1..Len(scopes)
    BY <2>4
  <2>6. /\ scopes[i].fn = L[i].fn /\ scopes[i].next - 1 <= L[i].base + L[i].count
    BY <2>3, <2>5 DEF Frame, Fits, Node
  <2>7. L[i].base + CountOf(L[i]) <= counted[L[i].fn]
    BY <2>3, <2>5 DEF EnoughAt
  <2>8. L[i] \in Levels /\ scopes[i].next \in Nat
    BY <2>3, <2>4, <2>5, SymbolIs
  <2>9. /\ L[i].base \in Nat /\ L[i].count \in Nat /\ CountOf(L[i]) \in Nat
        /\ CountOf(L[i]) >= L[i].count
    BY <2>8, LevelHas
  <2>10. L[i].fn \in Ids
    <3>1. pc \in Nat \ {0} /\ pc <= MaxLength + 1 /\ MaxLength \in Nat
      BY <2>1, ScopesAssumption DEF AnalysisTyped, Story
    <3>2. Good(program, h, L, pc)
      BY <2>1, <2>2 DEF Story
    <3>3. L[i].fn < pc /\ L[i].fn \in Nat
      BY <2>5, <2>8, <3>2, LevelHas DEF Good, GoodBounds
    <3> QED
      BY <3>1, <3>3 DEF Ids
  <2>11. counted[L[i].fn] \in Nat
    BY <2>1, <2>10 DEF AnalysisTyped
  <2> QED
    BY <2>6, <2>7, <2>8, <2>9, <2>11
<1> QED
  BY <1>1, <1>2 DEF Inv

\* Every state has the history.
LEMMA Invariant == Spec => []Inv
<1>1. Init => Inv
  BY Begun DEF Inv
<1>2. Inv /\ [Next]_vars => Inv'
  BY Inductive
<1> QED
  BY <1>1, <1>2, PTL DEF Spec

\* Each name is compiled to an access of the variable that Lua's scoping means by
\* it, in programs of any length and any nesting of blocks, loops and functions
\* (the capture analysis of src/closures.c, register_local and resolve_symbol of
\* src/context.c), unless a function uses a local of a block of the file, which
\* the analysis does not see.
THEOREM NamesResolve ==
  ASSUME "block" \notin Extras
  PROVE  Spec => []UsesDenote
<1>1. Inv => UsesDenote
  BY UsesFollow
<1> QED
  BY <1>1, Invariant, PTL

\* Every closure is made with the boxes of the variables that were in scope where
\* it was written, in the order of its upvalues (emit_load_function_value),
\* unless a named function stands inside another one.
THEOREM ClosuresComplete ==
  ASSUME "named" \notin Extras
  PROVE  Spec => []CapturesBoxes
<1>1. Inv => CapturesBoxes
  BY BoxesFollow
<1> QED
  BY <1>1, Invariant, PTL

\* The slots that count_function_locals reserves before a function is generated
\* are enough for the locals its generation puts there, whatever blocks share
\* slots, in every program.
THEOREM SlotsSuffice == Spec => []SlotsCounted
<1>1. Inv => SlotsCounted
  BY SlotsFollow
<1> QED
  BY <1>1, Invariant, PTL
=============================================================================
