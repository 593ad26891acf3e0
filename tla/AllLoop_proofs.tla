--------------------------- MODULE AllLoop_proofs ---------------------------
(***************************************************************************)
(* Proofs about AllLoop, for lists of any length: whatever the body deletes *)
(* and adds, the loop hands no element out twice and leaves none out, and  *)
(* the inline step goes where the routine goes.                            *)
(***************************************************************************)
EXTENDS AllLoop, HybridTable_proofs

\* What a loop reads of the table.
List == [k \in Index |-> Get(k)]

\* R is a list of n distinct objects, and what lies past its end.
ListOf(R, n) ==
  /\ R \in [Index -> Cells] /\ n \in 0..MaxIndex
  /\ \A k \in 1..n : R[k] # Nil
  /\ n + 1 \in Index => R[n + 1] = Nil
  /\ \A j, k \in Index : R[j] = R[k] /\ R[j] # Nil => j = k

\* A loop at index i that handed out p last goes on right after this position.
Behind(R, i, p) == IF i \in Index /\ R[i] = p THEN i ELSE i - 1

\* While some of those that stay are still to come, all before the loop's
\* place were visited, and the loop can tell its place: the element it handed
\* out last is still there, or one of those it visited, and only one, has gone.
\* That element may have been put back at the end, after all those that stay.
Tracking(R, n, i, p, seen, stay, ear) ==
  /\ i <= n + 1
  /\ ~ear => i <= n /\ R[i] = p /\ seen[p] = 1
  /\ p \in stay => seen[p] = 1
  /\ \A k \in 1..(i - 1) : seen[R[k]] = 1
  /\ \A k, j \in 1..n : R[k] = p /\ seen[p] = 0 /\ k < j => R[j] \notin stay

\* Where a loop stands in its list while its body runs: nothing past its place
\* was visited, and those that stay are there.
Standing(R, n, i, p, seen, stay, ear) ==
  /\ p \in Values /\ i \in Index
  /\ \A k \in Index : k > Behind(R, i, p) /\ R[k] # Nil => seen[R[k]] = 0
  /\ \A v \in stay : \E k \in 1..n : R[k] = v
  /\ (\A v \in stay : seen[v] = 1) \/ Tracking(R, n, i, p, seen, stay, ear)

\* What every step of a loop keeps.
LoopInv ==
  /\ IInv
  /\ ListOf(List, length)
  /\ inlined \in BOOLEAN /\ early \in BOOLEAN
  /\ visits \in [Values -> 0..1] /\ kept \subseteq Values
  /\ \/ phase = "outside" /\ prev = Nil /\ index = 1 /\ \A v \in Values : visits[v] = 0
     \/ phase = "body" /\ Standing(List, length, index, prev, visits, kept, early)
     \/ phase = "ended" /\ \A v \in kept : visits[v] = 1

-----------------------------------------------------------------------------
(***************************************************************************)
(* What del and add do to a list.                                          *)
(***************************************************************************)
Closed(R, d, n) ==
  [k \in Index |-> IF k \in d..(n - 1) THEN R[k + 1] ELSE IF k = n THEN Nil ELSE R[k]]

Opened(R, q, n, v) ==
  [k \in Index |->
     IF k = q THEN v ELSE IF k \in (q + 1)..(n + 1) THEN R[k - 1] ELSE R[k]]

\* The elements of a list are values.
LEMMA ElementsAre ==
  ASSUME NEW R, NEW n, ListOf(R, n)
  PROVE  /\ n \in Nat /\ n <= MaxIndex
         /\ \A k \in 1..n : k \in Index /\ R[k] \in Values
         /\ \A k \in Index : R[k] \in Cells
  BY HybridAssumption DEF ListOf, Index, Cells

\* What a list reads once an element is taken out.
LEMMA ClosedReads ==
  ASSUME NEW R, NEW n, ListOf(R, n), NEW d \in 1..n
  PROVE  LET S == Closed(R, d, n)
         IN /\ n \in Nat /\ n >= 1 /\ d \in Index /\ n \in Index
            /\ \A k \in Index : k < d => S[k] = R[k]
            /\ \A k \in Index : k >= d /\ k < n => k + 1 \in Index /\ S[k] = R[k + 1]
            /\ S[n] = Nil
            /\ \A k \in Index : k > n => S[k] = R[k]
<1>1. n \in Nat /\ n <= MaxIndex /\ MaxIndex \in Nat
  BY HybridAssumption DEF ListOf
<1> QED
  BY <1>1 DEF Closed, Index

\* The elements that are left are a list.
LEMMA ClosedList ==
  ASSUME NEW R, NEW n, ListOf(R, n), NEW d \in 1..n
  PROVE  ListOf(Closed(R, d, n), n - 1)
<1> DEFINE S == Closed(R, d, n)
           From(k) == IF k >= d /\ k < n THEN k + 1 ELSE k
<1>1. /\ n \in Nat /\ n >= 1 /\ n <= MaxIndex /\ MaxIndex \in Nat
      /\ \A k \in Index : R[k] \in Cells
  BY ElementsAre, HybridAssumption
<1>2. /\ \A k \in Index : k < d => S[k] = R[k]
      /\ \A k \in Index : k >= d /\ k < n => k + 1 \in Index /\ S[k] = R[k + 1]
      /\ S[n] = Nil
      /\ \A k \in Index : k > n => S[k] = R[k]
  BY ClosedReads
<1>3. \A k \in Index : From(k) \in Index /\ (k # n => S[k] = R[From(k)])
  BY <1>1, <1>2 DEF Index
<1>4. S \in [Index -> Cells]
  <2>1. S = [k \in Index |-> S[k]]
    BY DEF Closed
  <2>2. \A k \in Index : S[k] \in Cells
    BY <1>1, <1>2, <1>3 DEF Cells
  <2> QED
    BY <2>1, <2>2
<1> HIDE DEF S
<1>5. \A k \in 1..(n - 1) : S[k] # Nil
  <2> SUFFICES ASSUME NEW k \in 1..(n - 1) PROVE S[k] # Nil
    OBVIOUS
  <2>1. k \in Index /\ k # n /\ From(k) \in 1..n
    BY <1>1 DEF Index
  <2> QED
    BY <1>3, <2>1 DEF ListOf
<1>6. \A j, k \in Index : S[j] = S[k] /\ S[j] # Nil => j = k
  <2> SUFFICES ASSUME NEW j \in Index, NEW k \in Index, S[j] = S[k], S[j] # Nil PROVE j = k
    OBVIOUS
  <2>1. j # n /\ k # n
    BY <1>2
  <2>2. R[From(j)] = R[From(k)] /\ R[From(j)] # Nil /\ From(j) \in Index /\ From(k) \in Index
    BY <1>3, <2>1
  <2>3. From(j) = From(k)
    BY <2>2 DEF ListOf
  <2> QED
    BY <1>1, <2>1, <2>3 DEF Index
<1> QED
  BY <1>1, <1>2, <1>4, <1>5, <1>6 DEF ListOf, S

\* Deleting elements, at most one of those visited, keeps the loop's place.
LEMMA DelStands ==
  ASSUME NEW R, NEW n, ListOf(R, n), NEW i, NEW p, NEW seen \in [Values -> 0..1], NEW stay,
         NEW ear \in BOOLEAN, Standing(R, n, i, p, seen, stay, ear), NEW d \in 1..n,
         seen[R[d]] > 0 => ~ear
  PROVE  Standing(Closed(R, d, n), n - 1, i, p, seen, stay \ {R[d]}, ear \/ seen[R[d]] > 0)
<1> DEFINE S == Closed(R, d, n)
           v == R[d]
           rest == stay \ {v}
           now == ear \/ seen[v] > 0
<1>1. /\ n \in Nat /\ n >= 1 /\ n <= MaxIndex /\ MaxIndex \in Nat /\ d \in Index
      /\ \A k \in 1..n : k \in Index /\ R[k] \in Values /\ R[k] # Nil
      /\ v \in Values /\ i \in Index /\ i \in Nat /\ p \in Values /\ Nil \notin Values
  BY ElementsAre, HybridAssumption DEF Index, Standing
<1>2. /\ \A k \in Index : k < d => S[k] = R[k]
      /\ \A k \in Index : k >= d /\ k < n => k + 1 \in Index /\ S[k] = R[k + 1]
      /\ S[n] = Nil
      /\ \A k \in Index : k > n => S[k] = R[k]
  BY ClosedReads
<1>3. \A j, k \in Index : R[j] = R[k] /\ R[j] # Nil => j = k
  BY DEF ListOf
<1> HIDE DEF S
<1>4. \A k \in Index : k > Behind(S, i, p) /\ S[k] # Nil => seen[S[k]] = 0
  <2> SUFFICES ASSUME NEW k \in Index, k > Behind(S, i, p), S[k] # Nil PROVE seen[S[k]] = 0
    OBVIOUS
  <2>1. \A h \in Index : h > Behind(R, i, p) /\ R[h] # Nil => seen[R[h]] = 0
    BY DEF Standing
  <2>2. k \in Nat /\ k # n
    BY <1>2 DEF Index
  <2>3. ((k < d \/ k > n) /\ S[k] = R[k]) \/ (k >= d /\ k < n /\ k + 1 \in Index /\ S[k] = R[k + 1])
    BY <1>1, <1>2, <2>2
  <2>4. CASE R[i] # p
    <3>1. Behind(R, i, p) = i - 1 /\ k > i - 1
      BY <1>1, <2>4 DEF Behind
    <3> QED
      BY <1>1, <2>1, <2>2, <2>3, <3>1
  <2>5. CASE R[i] = p
    <3>1. Behind(R, i, p) = i
      BY <1>1, <2>5 DEF Behind
    <3>2. CASE i < d \/ i > n
      <4>1. S[i] = p
        BY <1>1, <1>2, <2>5, <3>2
      <4>2. k > i
        BY <1>1, <4>1 DEF Behind
      <4> QED
        BY <1>1, <2>1, <2>2, <2>3, <3>1, <4>2
    <3>3. CASE i >= d /\ i <= n
      <4>1. k > i - 1
        BY <1>1, <2>2 DEF Behind
      <4>2. k + 1 > i /\ (k > n => k > i) /\ ~(k < d)
        BY <1>1, <2>2, <3>3, <4>1
      <4> QED
        BY <1>1, <2>1, <2>2, <2>3, <3>1, <4>2
    <3> QED
      BY <1>1, <3>2, <3>3
  <2> QED
    BY <2>4, <2>5
<1>5. \A w \in rest : \E k \in 1..(n - 1) : S[k] = w
  <2> SUFFICES ASSUME NEW w \in rest PROVE \E k \in 1..(n - 1) : S[k] = w
    OBVIOUS
  <2>1. PICK h \in 1..n : R[h] = w
    BY DEF Standing
  <2>2. h # d /\ h \in Index
    BY <1>1, <2>1
  <2>3. CASE h < d
    <3>1. h \in 1..(n - 1) /\ S[h] = w
      BY <1>1, <1>2, <2>1, <2>2, <2>3
    <3> QED
      BY <3>1
  <2>4. CASE h > d
    <3>1. h - 1 \in 1..(n - 1) /\ h - 1 \in Index /\ h - 1 >= d /\ h - 1 < n /\ h - 1 + 1 = h
      BY <1>1, <2>1, <2>4 DEF Index
    <3>2. S[h - 1] = R[h]
      BY <1>2, <3>1
    <3> QED
      BY <2>1, <3>1, <3>2
  <2> QED
    BY <1>1, <2>2, <2>3, <2>4
<1>6. (\A w \in rest : seen[w] = 1) \/ Tracking(S, n - 1, i, p, seen, rest, now)
  <2>1. CASE \A w \in stay : seen[w] = 1
    BY <2>1
  <2>2. CASE Tracking(R, n, i, p, seen, stay, ear)
    <3>1. /\ i <= n + 1
          /\ ~ear => i <= n /\ R[i] = p /\ seen[p] = 1
          /\ p \in stay => seen[p] = 1
          /\ \A k \in 1..(i - 1) : seen[R[k]] = 1
          /\ \A k, j \in 1..n : R[k] = p /\ seen[p] = 0 /\ k < j => R[j] \notin stay
      BY <2>2 DEF Tracking
    <3>2. seen[v] \in 0..1
      BY <1>1
    <3>3. \A k, j \in 1..(n - 1) : S[k] = p /\ seen[p] = 0 /\ k < j => S[j] \notin rest
      <4> SUFFICES ASSUME NEW k \in 1..(n - 1), NEW j \in 1..(n - 1), S[k] = p, seen[p] = 0, k < j
                   PROVE  S[j] \notin rest
        OBVIOUS
      <4> DEFINE a == IF k < d THEN k ELSE k + 1
                 b == IF j < d THEN j ELSE j + 1
      <4>1. k \in Index /\ j \in Index /\ a \in 1..n /\ b \in 1..n /\ a < b
        BY <1>1 DEF Index
      <4>2. S[k] = R[a] /\ S[j] = R[b]
        BY <1>1, <1>2, <4>1
      <4> QED
        BY <3>1, <4>1, <4>2
    <3>4. CASE d < i
      <4>1. seen[v] = 1 /\ ~ear /\ now /\ i <= n /\ seen[p] = 1
        BY <1>1, <3>1, <3>4
      <4>2. \A k \in 1..(i - 1) : seen[S[k]] = 1
        <5> SUFFICES ASSUME NEW k \in 1..(i - 1) PROVE seen[S[k]] = 1
          OBVIOUS
        <5>1. k \in Index /\ k < n /\ k \in Nat /\ k + 1 \in Nat
          BY <1>1, <4>1 DEF Index
        <5>2. S[k] = R[k] \/ S[k] = R[k + 1]
          BY <1>1, <1>2, <5>1
        <5>3. seen[R[k]] = 1
          BY <3>1
        <5>4. seen[R[k + 1]] = 1
          <6>1. CASE k + 1 = i
            BY <3>1, <4>1, <6>1
          <6>2. CASE k + 1 # i
            <7>1. k + 1 \in 1..(i - 1)
              BY <1>1, <5>1, <6>2
            <7> QED
              BY <3>1, <7>1
          <6> QED
            BY <6>1, <6>2
        <5> QED
          BY <5>2, <5>3, <5>4
      <4>3. i <= n - 1 + 1
        BY <1>1, <4>1
      <4> QED
        BY <3>3, <4>1, <4>2, <4>3 DEF Tracking
    <3>5. CASE ~(d < i)
      <4>1. i <= d /\ i <= n /\ i <= n - 1 + 1
        BY <1>1, <3>5
      <4>2. \A k \in 1..(i - 1) : S[k] = R[k] /\ seen[S[k]] = 1
        BY <1>1, <1>2, <3>1, <4>1 DEF Index
      <4>3. ~now => i <= n - 1 /\ S[i] = p /\ seen[p] = 1
        <5> SUFFICES ASSUME ~now PROVE i <= n - 1 /\ S[i] = p /\ seen[p] = 1
          OBVIOUS
        <5>1. R[i] = p /\ seen[p] = 1 /\ seen[v] = 0
          BY <3>1, <3>2
        <5>2. d # i
          BY <5>1
        <5>3. i < d
          BY <1>1, <4>1, <5>2 DEF Index
        <5>4. i <= n - 1
          BY <1>1, <5>3
        <5> QED
          BY <1>1, <1>2, <5>1, <5>3, <5>4
      <4> QED
        BY <3>1, <3>3, <4>1, <4>2, <4>3 DEF Tracking
    <3> QED
      BY <3>4, <3>5
  <2> QED
    BY <2>1, <2>2 DEF Standing
<1> QED
  BY <1>1, <1>4, <1>5, <1>6 DEF Standing, S

\* What a list reads once an element is put in.
LEMMA OpenedReads ==
  ASSUME NEW R, NEW n, ListOf(R, n), NEW q \in Index, NEW v
  PROVE  LET S == Opened(R, q, n, v)
         IN /\ n \in Nat /\ q \in Nat /\ q >= 1
            /\ S[q] = v
            /\ \A k \in Index : k < q \/ k > n + 1 => k = q \/ S[k] = R[k]
            /\ \A k \in Index : k > q /\ k <= n + 1 => k - 1 \in Index /\ S[k] = R[k - 1]
<1>1. n \in Nat /\ n <= MaxIndex /\ MaxIndex \in Nat
  BY HybridAssumption DEF ListOf
<1> QED
  BY <1>1 DEF Opened, Index

\* A new object in a list makes a list, whose end is where its run ends.
LEMMA OpenedList ==
  ASSUME NEW R, NEW n, ListOf(R, n), NEW q \in Index, NEW v \in Values, n + 1 \in Index,
         \A k \in Index : R[k] # v,
         NEW m \in 0..MaxIndex, \A k \in 1..m : Opened(R, q, n, v)[k] # Nil,
         m + 1 \in Index => Opened(R, q, n, v)[m + 1] = Nil
  PROVE  /\ ListOf(Opened(R, q, n, v), m) /\ m >= n
         /\ q <= n + 1 => m >= n + 1
<1> DEFINE S == Opened(R, q, n, v)
           From(k) == IF k > q /\ k <= n + 1 THEN k - 1 ELSE k
<1>1. /\ n \in Nat /\ n <= MaxIndex /\ MaxIndex \in Nat /\ m \in Nat /\ q \in Nat /\ q >= 1
      /\ \A k \in 1..n : R[k] # Nil /\ k \in Index
      /\ \A k \in Index : R[k] \in Cells
      /\ Nil \notin Values /\ v \in Cells /\ v # Nil
  BY ElementsAre, HybridAssumption DEF ListOf, Index, Cells
<1>2. /\ S[q] = v
      /\ \A k \in Index : k < q \/ k > n + 1 => k = q \/ S[k] = R[k]
      /\ \A k \in Index : k > q /\ k <= n + 1 => k - 1 \in Index /\ S[k] = R[k - 1]
  BY OpenedReads
<1>3. \A k \in Index : k # q => From(k) \in Index /\ S[k] = R[From(k)]
  BY <1>1, <1>2 DEF Index
<1>4. S \in [Index -> Cells]
  <2>1. S = [k \in Index |-> S[k]]
    BY DEF Opened
  <2>2. \A k \in Index : S[k] \in Cells
    BY <1>1, <1>2, <1>3
  <2> QED
    BY <2>1, <2>2
<1>5. /\ \A k \in 1..m : S[k] # Nil
      /\ m + 1 \in Index => S[m + 1] = Nil
  OBVIOUS
<1> HIDE DEF S
<1>6. \A j, k \in Index : S[j] = S[k] /\ S[j] # Nil => j = k
  <2> SUFFICES ASSUME NEW j \in Index, NEW k \in Index, S[j] = S[k], S[j] # Nil PROVE j = k
    OBVIOUS
  <2>1. \A h \in Index : h # q => S[h] # v
    BY <1>3
  <2>2. CASE j = q \/ k = q
    BY <1>2, <2>1, <2>2
  <2>3. CASE j # q /\ k # q
    <3>1. R[From(j)] = R[From(k)] /\ R[From(j)] # Nil /\ From(j) \in Index /\ From(k) \in Index
      BY <1>3, <2>3
    <3>2. From(j) = From(k)
      BY <3>1 DEF ListOf
    <3> QED
      BY <1>1, <2>3, <3>2 DEF Index
  <2> QED
    BY <2>2, <2>3
<1>7. ASSUME NEW k \in 1..n PROVE S[k] # Nil
  <2>1. k \in Index /\ k \in Nat
    BY <1>1
  <2>2. CASE k = q
    BY <1>1, <1>2, <2>2
  <2>3. CASE k < q
    BY <1>1, <1>2, <2>1, <2>3
  <2>4. CASE k > q
    <3>1. k - 1 \in 1..n /\ S[k] = R[k - 1]
      BY <1>1, <1>2, <2>1, <2>4
    <3> QED
      BY <1>1, <3>1
  <2> QED
    BY <1>1, <2>1, <2>2, <2>3, <2>4
<1>8. m >= n
  <2> SUFFICES ASSUME m < n PROVE FALSE
    BY <1>1
  <2>1. m + 1 \in 1..n /\ m + 1 \in Index
    BY <1>1 DEF Index
  <2> QED
    BY <1>5, <1>7, <2>1
<1>9. ASSUME q <= n + 1 PROVE m >= n + 1
  <2> SUFFICES ASSUME m = n PROVE FALSE
    BY <1>1, <1>8
  <2>1. S[n + 1] = Nil
    BY <1>5
  <2>2. n + 1 # q
    BY <1>1, <1>2, <2>1
  <2>3. n \in 1..n /\ S[n + 1] = R[n]
    <3>1. n + 1 > q /\ n + 1 - 1 = n /\ n \in 1..n
      BY <1>1, <1>9, <2>2
    <3> QED
      BY <1>2, <3>1
  <2> QED
    BY <1>1, <2>1, <2>3
<1> QED
  BY <1>1, <1>4, <1>5, <1>6, <1>8, <1>9 DEF ListOf, S

\* Adding a new object, past the current element or at the end, keeps the
\* loop's place.
LEMMA AddStands ==
  ASSUME NEW R, NEW n, ListOf(R, n), NEW i, NEW p, NEW seen \in [Values -> 0..1], NEW stay,
         NEW ear, Standing(R, n, i, p, seen, stay, ear), n + 1 \in Index,
         NEW q \in Index, NEW v \in Values, (q > i /\ v # p) \/ q = n + 1,
         \A k \in Index : R[k] # v,
         NEW m, ListOf(Opened(R, q, n, v), m), m >= n, q <= n + 1 => m >= n + 1
  PROVE  Standing(Opened(R, q, n, v), m, i, p, [seen EXCEPT ![v] = 0], stay, ear)
<1> DEFINE S == Opened(R, q, n, v)
           now == [seen EXCEPT ![v] = 0]
<1>1. /\ n \in Nat /\ n <= MaxIndex /\ MaxIndex \in Nat /\ m \in Nat /\ q \in Nat /\ q >= 1
      /\ \A k \in 1..n : k \in Index /\ R[k] \in Values
      /\ \A k \in Index : R[k] \in Cells
      /\ i \in Index /\ i \in Nat /\ i >= 1 /\ p \in Values /\ Nil \notin Values
  <2>1. m \in Nat
    BY ElementsAre
  <2> QED
    BY <2>1, ElementsAre, HybridAssumption DEF Index, Standing
<1>2. /\ S[q] = v
      /\ \A k \in Index : k < q \/ k > n + 1 => k = q \/ S[k] = R[k]
      /\ \A k \in Index : k > q /\ k <= n + 1 => k - 1 \in Index /\ S[k] = R[k - 1]
  BY OpenedReads
<1> HIDE DEF S
<1>3. \A w \in Values : now[w] = IF w = v THEN 0 ELSE seen[w]
  OBVIOUS
<1> HIDE DEF now
<1>4. \A k \in Index : R[k] \in Values => now[R[k]] = seen[R[k]]
  BY <1>3
<1>5. \A k \in Index : k > Behind(S, i, p) /\ S[k] # Nil => now[S[k]] = 0
  <2> SUFFICES ASSUME NEW k \in Index, k > Behind(S, i, p), S[k] # Nil PROVE now[S[k]] = 0
    OBVIOUS
  <2>1. \A h \in Index : h > Behind(R, i, p) /\ R[h] # Nil => now[R[h]] = 0
    <3> SUFFICES ASSUME NEW h \in Index, h > Behind(R, i, p), R[h] # Nil PROVE now[R[h]] = 0
      OBVIOUS
    <3>1. R[h] \in Values
      BY <1>1 DEF Cells
    <3>2. seen[R[h]] = 0
      BY DEF Standing
    <3> QED
      BY <1>4, <3>1, <3>2
  <2>2. CASE k = q
    BY <1>2, <1>3, <2>2
  <2>3. CASE k # q
    <3>1. k \in Nat
      BY DEF Index
    <3>2. k > Behind(R, i, p)
      <4>1. CASE i = q
        <5>1. q = n + 1
          BY <1>1, <4>1
        <5>2. k > i - 1 /\ k # i
          BY <1>1, <2>3, <3>1, <4>1 DEF Behind
        <5> QED
          BY <1>1, <3>1, <5>2 DEF Behind
      <4>2. CASE i # q
        <5>1. i < q \/ i > n + 1
          BY <1>1, <4>2
        <5>2. S[i] = R[i]
          BY <1>1, <1>2, <4>2, <5>1
        <5> QED
          BY <5>2 DEF Behind
      <4> QED
        BY <4>1, <4>2
    <3>3. CASE k > q /\ k <= n + 1
      <4>1. i < q
        BY <1>1, <3>1, <3>3
      <4>2. k - 1 \in Index /\ S[k] = R[k - 1]
        BY <1>2, <3>3
      <4>3. k - 1 > Behind(R, i, p)
        BY <1>1, <3>1, <3>3, <4>1 DEF Behind
      <4> QED
        BY <2>1, <4>2, <4>3
    <3>4. CASE ~(k > q /\ k <= n + 1)
      <4>1. S[k] = R[k]
        BY <1>1, <1>2, <2>3, <3>1, <3>4
      <4> QED
        BY <2>1, <3>2, <4>1
    <3> QED
      BY <3>3, <3>4
  <2> QED
    BY <2>2, <2>3
<1>6. \A w \in stay : \E k \in 1..n : R[k] = w
  BY DEF Standing
<1>7. v \notin stay
  BY <1>1, <1>6
<1>8. ASSUME NEW h \in 1..n
      PROVE  \E k \in 1..m : S[k] = R[h]
  <2>1. h \in Index /\ h \in Nat
    BY <1>1
  <2>2. CASE h < q
    <3>1. S[h] = R[h] /\ h \in 1..m
      BY <1>1, <1>2, <2>1, <2>2
    <3> QED
      BY <3>1
  <2>3. CASE h >= q
    <3>1. m >= n + 1
      BY <1>1, <2>1, <2>3
    <3>2. h + 1 \in Index /\ h + 1 \in 1..m /\ h + 1 > q /\ h + 1 <= n + 1 /\ h + 1 - 1 = h
      BY <1>1, <2>1, <2>3, <3>1 DEF Index
    <3>3. S[h + 1] = R[h]
      BY <1>2, <3>2
    <3> QED
      BY <3>2, <3>3
  <2> QED
    BY <1>1, <2>1, <2>2, <2>3
<1>9. \A w \in stay : \E k \in 1..m : S[k] = w
  <2> SUFFICES ASSUME NEW w \in stay PROVE \E k \in 1..m : S[k] = w
    OBVIOUS
  <2>1. PICK h \in 1..n : R[h] = w
    BY <1>6
  <2> QED
    BY <1>8, <2>1
<1>10. \A w \in stay : now[w] = seen[w]
  <2> SUFFICES ASSUME NEW w \in stay PROVE now[w] = seen[w]
    OBVIOUS
  <2>1. PICK h \in 1..n : R[h] = w
    BY <1>6
  <2> QED
    BY <1>1, <1>4, <2>1
<1>11. (\A w \in stay : now[w] = 1) \/ Tracking(S, m, i, p, now, stay, ear)
  <2>1. CASE \A w \in stay : seen[w] = 1
    BY <1>10, <2>1
  <2>2. CASE Tracking(R, n, i, p, seen, stay, ear)
    <3>1. /\ i <= n + 1
          /\ ~ear => i <= n /\ R[i] = p /\ seen[p] = 1
          /\ p \in stay => seen[p] = 1
          /\ \A k \in 1..(i - 1) : seen[R[k]] = 1
          /\ \A k, j \in 1..n : R[k] = p /\ seen[p] = 0 /\ k < j => R[j] \notin stay
      BY <2>2 DEF Tracking
    <3>2. CASE q <= i
      <4>1. i = n + 1
        BY <1>1, <3>1, <3>2
      <4>2. \A w \in stay : seen[w] = 1
        <5> SUFFICES ASSUME NEW w \in stay PROVE seen[w] = 1
          OBVIOUS
        <5>1. PICK h \in 1..n : R[h] = w
          BY <1>6
        <5>2. h \in 1..(i - 1)
          BY <1>1, <4>1
        <5> QED
          BY <3>1, <5>1, <5>2
      <4> QED
        BY <1>10, <4>2
    <3>3. CASE q > i
      <4>1. \A k \in 1..i : k \in Index /\ S[k] = R[k]
        <5> SUFFICES ASSUME NEW k \in 1..i PROVE k \in Index /\ S[k] = R[k]
          OBVIOUS
        <5>1. k \in Index /\ k < q /\ k # q
          BY <1>1, <3>3 DEF Index
        <5> QED
          BY <1>2, <5>1
      <4>2. i <= m + 1 /\ (i <= n => i <= m)
        BY <1>1, <3>1
      <4>3. ~ear => i <= m /\ S[i] = p /\ now[p] = 1
        <5> SUFFICES ASSUME ~ear PROVE i <= m /\ S[i] = p /\ now[p] = 1
          OBVIOUS
        <5>1. i \in 1..i /\ R[i] = p /\ seen[p] = 1 /\ i <= m
          BY <1>1, <3>1, <4>2
        <5>2. v # p
          BY <1>1, <5>1
        <5> QED
          BY <1>1, <1>3, <4>1, <5>1, <5>2
      <4>4. \A k \in 1..(i - 1) : now[S[k]] = 1
        <5> SUFFICES ASSUME NEW k \in 1..(i - 1) PROVE now[S[k]] = 1
          OBVIOUS
        <5>1. k \in 1..i /\ k \in 1..n
          BY <1>1, <3>1
        <5>2. S[k] = R[k] /\ R[k] \in Values /\ seen[R[k]] = 1 /\ k \in Index
          BY <1>1, <3>1, <4>1, <5>1
        <5> QED
          BY <1>4, <5>2
      <4>5. \A k, j \in 1..m : S[k] = p /\ now[p] = 0 /\ k < j => S[j] \notin stay
        <5> SUFFICES ASSUME NEW k \in 1..m, NEW j \in 1..m, S[k] = p, now[p] = 0, k < j, S[j] \in stay
                     PROVE  FALSE
          OBVIOUS
        <5> DEFINE From(h) == IF h > q /\ h <= n + 1 THEN h - 1 ELSE h
        <5>1. /\ m <= MaxIndex /\ k \in Index /\ j \in Index /\ k \in Nat /\ j \in Nat
              /\ \A a, b \in Index : R[a] = R[b] /\ R[a] # Nil => a = b
          BY ElementsAre, <1>1 DEF ListOf, Index
        <5>2. j # q
          BY <1>2, <1>7
        <5>3. S[j] = R[From(j)] /\ From(j) \in Index
          BY <1>1, <1>2, <5>1, <5>2
        <5>4. PICK h \in 1..n : R[h] = S[j]
          BY <1>6
        <5>5. From(j) = h
          BY <1>1, <5>1, <5>3, <5>4
        <5>6. From(j) \in 1..n
          BY <5>5
        <5>7. CASE k = q
          <6>1. v = p
            BY <1>2, <5>7
          <6>2. q = n + 1
            BY <6>1
          <6> QED
            BY <1>1, <5>1, <5>6, <5>7, <6>2
        <5>8. CASE k # q
          <6>1. S[k] = R[From(k)] /\ From(k) \in Index
            BY <1>1, <1>2, <5>1, <5>8
          <6>2. From(k) < From(j)
            BY <1>1, <5>1, <5>2, <5>8
          <6>3. From(k) \in 1..n
            BY <1>1, <5>1, <5>6, <6>1, <6>2 DEF Index
          <6>4. seen[p] = 0
            BY <1>1, <1>4, <6>1
          <6> QED
            BY <3>1, <5>3, <5>6, <6>1, <6>2, <6>3, <6>4
        <5> QED
          BY <5>7, <5>8
      <4>6. p \in stay => now[p] = 1
        BY <1>10, <3>1
      <4> QED
        BY <4>2, <4>3, <4>4, <4>5, <4>6 DEF Tracking
    <3> QED
      BY <1>1, <3>2, <3>3
  <2> QED
    BY <2>1, <2>2 DEF Standing
<1> QED
  BY <1>1, <1>5, <1>9, <1>11 DEF Standing, S, now

-----------------------------------------------------------------------------
(***************************************************************************)
(* The step of a loop, inline or not.                                      *)
(***************************************************************************)
\* The routine goes on right after the loop's place: it never has to look
\* further, since a list has no holes.
LEMMA StepGoes ==
  ASSUME IInv, NEW i \in 1..(MaxIndex + 1), NEW p \in Cells
  PROVE  LET next == IF Rawget(i) = p THEN i + 1 ELSE i
         IN Step(i, p) = [element |-> IF next > length THEN Nil ELSE Get(next), index |-> next]
<1> DEFINE next == IF Rawget(i) = p THEN i + 1 ELSE i
           Reached(j) == /\ j > length \/ Rawget(j) # Nil
                         /\ \A h \in next..(j - 1) : h <= length /\ Rawget(h) = Nil
           found == CHOOSE j \in next..(next + length) : Reached(j)
<1>1. /\ length \in Nat /\ length <= MaxIndex /\ MaxIndex \in Nat /\ next \in Nat /\ next >= 1
      /\ length <= capacity /\ capacity \in Nat
  BY HybridAssumption DEF IInv, TypeOK, LengthFits
<1>2. ASSUME next <= length
      PROVE  next \in Index /\ Rawget(next) = Get(next) /\ Get(next) # Nil
  <2>1. next \in 1..length /\ next \in Index /\ next \in 1..capacity
    BY <1>1, <1>2 DEF Index
  <2> QED
    BY <2>1 DEF IInv, PrefixFull, Rawget, Get, InArray
<1> HIDE DEF next
<1>3. next \in next..(next + length) /\ Reached(next)
  <2>1. next..(next - 1) = {} /\ next \in next..(next + length)
    BY <1>1
  <2>2. next > length \/ Rawget(next) # Nil
    BY <1>1, <1>2
  <2> QED
    BY <2>1, <2>2
<1>4. ASSUME NEW j \in next..(next + length), Reached(j), j # next PROVE FALSE
  <2>1. next \in next..(j - 1)
    BY <1>1, <1>4
  <2> QED
    BY <1>1, <1>2, <1>4, <2>1
<1>5. found \in next..(next + length) /\ Reached(found)
  BY <1>3
<1> HIDE DEF found, Reached
<1>6. found = next
  BY <1>4, <1>5
<1>7. Step(i, p) = [element |-> IF found > length THEN Nil ELSE Rawget(found), index |-> found]
  BY DEF Step, found, Reached, next
<1>8. (IF next > length THEN Nil ELSE Rawget(next)) = IF next > length THEN Nil ELSE Get(next)
  BY <1>1, <1>2
<1> QED
  BY <1>6, <1>7, <1>8 DEF next

\* Where the inline step answers, the routine would answer the same.
LEMMA InlineGoes ==
  ASSUME IInv, NEW i \in 1..(MaxIndex + 1), NEW p \in Cells
  PROVE  InlineStep(i, p) \in {Slow, Step(i, p)}
<1> DEFINE limit == IF length < capacity THEN length ELSE capacity
           next  == IF i <= limit /\ array[i] = p THEN i + 1 ELSE i
<1>1. /\ length \in Nat /\ length <= MaxIndex /\ MaxIndex \in Nat /\ i \in Nat /\ i >= 1
      /\ length <= capacity /\ capacity \in Nat
  BY HybridAssumption DEF IInv, TypeOK, LengthFits
<1>2. limit = length
  BY <1>1
<1>3. CASE i > limit \/ next > limit \/ array[next] = Nil
  BY <1>3 DEF InlineStep
<1>4. CASE ~(i > limit \/ next > limit \/ array[next] = Nil)
  <2>1. i <= length /\ next <= length /\ next \in Nat /\ next >= 1 /\ ~(next > length)
    BY <1>1, <1>2, <1>4
  <2>2. Rawget(i) = array[i] /\ Get(next) = array[next]
    BY <1>1, <2>1 DEF Rawget, Get, InArray, Index
  <2>3. next = IF Rawget(i) = p THEN i + 1 ELSE i
    BY <1>2, <2>1, <2>2
  <2>4. InlineStep(i, p) = [element |-> array[next], index |-> next]
    BY <1>4 DEF InlineStep
  <2> HIDE DEF next
  <2>5. Step(i, p) = [element |-> IF next > length THEN Nil ELSE Get(next), index |-> next]
    BY <2>3, StepGoes
  <2> QED
    BY <2>1, <2>2, <2>4, <2>5
<1> QED
  BY <1>3, <1>4

\* What the loop takes next, by either step.
LEMMA StepTaken ==
  ASSUME IInv, NEW i \in 1..(MaxIndex + 1), NEW p \in Cells, NEW inline \in BOOLEAN
  PROVE  LET next == IF Rawget(i) = p THEN i + 1 ELSE i
             step == NextStep(i, p, inline)
         IN step.index = next /\ step.element = IF next > length THEN Nil ELSE Get(next)
<1> DEFINE next == IF Rawget(i) = p THEN i + 1 ELSE i
           element == IF next > length THEN Nil ELSE Get(next)
<1>1. NextStep(i, p, inline) = Step(i, p)
  BY InlineGoes DEF NextStep
<1>2. Step(i, p) = [element |-> element, index |-> next]
  BY StepGoes
<1> HIDE DEF next, element
<1>3. Step(i, p).index = next /\ Step(i, p).element = element
  BY <1>2
<1> QED
  BY <1>1, <1>3 DEF next, element

\* What can be said of the list without its elements being distinct.
Readable ==
  /\ List \in [Index -> Cells] /\ length \in 0..MaxIndex
  /\ \A k \in Index : List[k] = Get(k)
  /\ \A k \in 1..length : List[k] # Nil
  /\ length + 1 \in Index => List[length + 1] = Nil

\* A table with the invariant reads as such a list.
LEMMA ListReads == IInv => Readable
<1> SUFFICES ASSUME IInv PROVE Readable
  OBVIOUS
<1>1. /\ length \in 0..MaxIndex /\ length <= capacity /\ capacity \in Nat /\ MaxIndex \in Nat
      /\ array \in [1..capacity -> Cells] /\ hash \in [Keys -> Cells]
  BY HybridAssumption DEF IInv, TypeOK, LengthFits
<1>2. \A k \in Index : Get(k) \in Cells
  BY <1>1 DEF Get, InArray, Keys
<1>3. \A k \in 1..length : k \in Index /\ Get(k) # Nil
  <2> SUFFICES ASSUME NEW k \in 1..length PROVE k \in Index /\ Get(k) # Nil
    OBVIOUS
  <2>1. k \in Index /\ k \in 1..capacity
    BY <1>1 DEF Index
  <2> QED
    BY <2>1 DEF IInv, PrefixFull, Get, InArray
<1> QED
  BY <1>1, <1>2, <1>3 DEF Readable, List, IInv, BorderStops

\* The same after a step.
LEMMA NextListReads == IInv' => Readable'
BY ListReads, PTL

-----------------------------------------------------------------------------
(***************************************************************************)
(* The steps.                                                              *)
(***************************************************************************)
\* The loop takes the next element, or there is none and all were visited.
LEMMA TurnKeeps ==
  ASSUME LoopInv, Turn
  PROVE  LoopInv'
<1> DEFINE at == Behind(List, index, prev)
           next == at + 1
           n == length
<1>1. /\ IInv /\ ListOf(List, n) /\ inlined \in BOOLEAN
      /\ visits \in [Values -> 0..1] /\ kept \subseteq Values
      /\ Standing(List, n, index, prev, visits, kept, early)
  BY DEF LoopInv, Turn
<1>2. /\ n \in Nat /\ n <= MaxIndex /\ MaxIndex \in Nat /\ Nil \notin Values
      /\ \A k \in 1..n : k \in Index /\ List[k] \in Values
      /\ \A k \in Index : List[k] = Get(k)
      /\ index \in Index /\ index \in Nat /\ index >= 1 /\ index \in 1..(MaxIndex + 1)
      /\ prev \in Values /\ prev \in Cells
  BY <1>1, ElementsAre, ListReads, HybridAssumption DEF Readable, Index, Standing, Cells
<1>3. Rawget(index) = List[index]
  BY <1>2 DEF Rawget
<1>4. at = (IF List[index] = prev THEN index ELSE index - 1) /\ next \in Nat /\ next >= 1
  BY <1>2 DEF Behind
<1>5. next = IF Rawget(index) = prev THEN index + 1 ELSE index
  BY <1>2, <1>3, <1>4
<1> HIDE DEF at, next
<1> DEFINE element == IF next > n THEN Nil ELSE Get(next)
<1>6. /\ NextStep(index, prev, inlined).index = next
      /\ NextStep(index, prev, inlined).element = element
  BY <1>1, <1>2, <1>5, StepTaken
<1>7. /\ phase' = (IF element = Nil THEN "ended" ELSE "body")
      /\ index' = next /\ prev' = element /\ early' = FALSE
      /\ visits' = IF element = Nil \/ visits[element] = 2 THEN visits
                   ELSE [visits EXCEPT ![element] = visits[element] + 1]
      /\ inlined' = inlined /\ kept' = kept /\ UNCHANGED vars
  BY <1>6 DEF Turn, TakeStep
<1>8. IInv' /\ List' = List /\ length' = n
  BY <1>1, <1>7 DEF vars, IInv, TypeOK, LengthFits, OnePart, PrefixFull, BorderStops, List,
     Get, InArray
<1>9. \A v \in kept : \E k \in 1..n : List[k] = v
  BY <1>1 DEF Standing
<1>10. \/ \A v \in kept : visits[v] = 1
       \/ Tracking(List, n, index, prev, visits, kept, early)
  BY <1>1 DEF Standing
\* Those that stay and are not past the loop's place were visited.
<1>11. \A k \in 1..n : k < next /\ List[k] \in kept => visits[List[k]] = 1
  <2> SUFFICES ASSUME NEW k \in 1..n, k < next, List[k] \in kept PROVE visits[List[k]] = 1
    OBVIOUS
  <2>1. CASE Tracking(List, n, index, prev, visits, kept, early)
    <3>1. CASE k = index
      <4>1. List[index] = prev
        BY <1>2, <1>4, <3>1 DEF next
      <4> QED
        BY <2>1, <3>1, <4>1 DEF Tracking
    <3>2. CASE k # index
      <4>1. k \in 1..(index - 1)
        BY <1>2, <1>4, <3>2 DEF next
      <4> QED
        BY <2>1, <4>1 DEF Tracking
    <3> QED
      BY <3>1, <3>2
  <2> QED
    BY <1>10, <2>1
<1>12. CASE next > n
  <2>1. element = Nil
    BY <1>12
  <2>2. \A v \in kept : visits[v] = 1
    <3> SUFFICES ASSUME NEW v \in kept PROVE visits[v] = 1
      OBVIOUS
    <3>1. PICK k \in 1..n : List[k] = v
      BY <1>9
    <3>2. k < next
      BY <1>2, <1>4, <1>12
    <3> QED
      BY <1>11, <3>1, <3>2
  <2> HIDE DEF element
  <2>3. phase' = "ended" /\ visits' = visits
    BY <1>7, <2>1
  <2> QED
    BY <1>1, <1>7, <1>8, <2>2, <2>3 DEF LoopInv
<1>13. CASE next <= n
  <2> DEFINE e == List[next]
  <2>1. next \in 1..n /\ next \in Index /\ element = e /\ e \in Values
    BY <1>2, <1>4, <1>13
  <2>2. visits[e] = 0
    <3>1. next > at
      BY <1>2, <1>4 DEF next
    <3> QED
      BY <1>1, <1>2, <2>1, <3>1 DEF Standing, at
  <2> HIDE DEF element, e
  <2>3. phase' = "body" /\ prev' = e /\ visits' = [visits EXCEPT ![e] = 1]
    <3>1. element # Nil /\ visits[element] # 2 /\ visits[element] + 1 = 1
      BY <1>2, <2>1, <2>2
    <3> QED
      BY <1>7, <2>1, <3>1
  <2>4. /\ visits' \in [Values -> 0..1] /\ visits'[e] = 1
        /\ \A v \in Values : v # e => visits'[v] = visits[v]
    BY <1>1, <2>1, <2>3
  <2>5. \A j, k \in Index : List[j] = List[k] /\ List[j] # Nil => j = k
    BY <1>1 DEF ListOf
  <2>6. Behind(List, next, e) = next
    BY <2>1 DEF Behind, e
  <2>7. \A k \in Index : k > next /\ List[k] # Nil => visits'[List[k]] = 0
    <3> SUFFICES ASSUME NEW k \in Index, k > next, List[k] # Nil PROVE visits'[List[k]] = 0
      OBVIOUS
    <3>1. k > at
      BY <1>2, <1>4 DEF next, Index
    <3>2. visits[List[k]] = 0
      BY <1>1, <3>1 DEF Standing, at
    <3>3. List[k] # e /\ List[k] \in Values
      <4>1. List[k] # e
        BY <1>2, <1>4, <2>1, <2>5 DEF e, Index
      <4>2. List[k] \in Values
        BY <1>1 DEF ListOf, Cells
      <4> QED
        BY <4>1, <4>2
    <3> QED
      BY <2>4, <3>2, <3>3
  <2>8. (\A v \in kept : visits'[v] = 1) \/ Tracking(List, n, next, e, visits', kept, FALSE)
    <3>1. CASE \A v \in kept : visits[v] = 1
      BY <1>1, <2>4, <3>1
    <3>2. CASE Tracking(List, n, index, prev, visits, kept, early)
      <4>1. /\ \A k \in 1..(index - 1) : visits[List[k]] = 1
            /\ prev \in kept => visits[prev] = 1
            /\ \A k, j \in 1..n : List[k] = prev /\ visits[prev] = 0 /\ k < j => List[j] \notin kept
        BY <3>2 DEF Tracking
      <4>2. CASE List[index] = prev /\ visits[prev] = 0
        <5>1. index \in 1..n
          BY <1>2, <1>4, <2>1, <4>2 DEF next
        <5>2. ASSUME NEW v \in kept PROVE visits[v] = 1
          <6>1. PICK k \in 1..n : List[k] = v
            BY <1>9
          <6>2. ~(index < k)
            BY <4>1, <4>2, <5>1, <6>1
          <6>3. k < next
            BY <1>2, <1>4, <4>2, <6>2 DEF next
          <6> QED
            BY <1>11, <6>1, <6>3
        <5> QED
          BY <1>1, <2>4, <5>2
      <4>3. CASE ~(List[index] = prev /\ visits[prev] = 0)
        <5>1. ASSUME NEW k \in 1..(next - 1) PROVE visits'[List[k]] = 1
          <6>1. k \in 1..n /\ k \in Nat /\ List[k] \in Values
            BY <1>2, <2>1
          <6>2. visits[List[k]] = 1
            <7>1. CASE k = index
              <8>1. List[index] = prev
                BY <1>2, <1>4, <7>1 DEF next
              <8> QED
                BY <1>1, <1>2, <4>3, <7>1, <8>1
            <7>2. CASE k # index
              <8>1. k \in 1..(index - 1)
                BY <1>2, <1>4, <6>1, <7>2 DEF next
              <8> QED
                BY <4>1, <8>1
            <7> QED
              BY <7>1, <7>2
          <6> QED
            BY <2>4, <6>1, <6>2
        <5>2. next <= n + 1 /\ next <= n /\ List[next] = e /\ visits'[e] = 1
          BY <1>2, <1>13, <2>1, <2>4 DEF e
        <5> QED
          BY <5>1, <5>2 DEF Tracking
      <4> QED
        BY <4>2, <4>3
    <3> QED
      BY <1>10, <3>1, <3>2
  <2>9. Standing(List, n, next, e, visits', kept, FALSE)
    BY <1>9, <2>1, <2>6, <2>7, <2>8 DEF Standing
  <2> QED
    BY <1>1, <1>7, <1>8, <2>3, <2>4, <2>9 DEF LoopInv
<1> QED
  BY <1>2, <1>4, <1>12, <1>13

\* The loop starts at the first element, or there is none.
LEMMA BeginKeeps ==
  ASSUME LoopInv, Begin
  PROVE  LoopInv'
<1> DEFINE n == length
           next == IF Rawget(1) = Nil THEN 2 ELSE 1
           element == IF next > n THEN Nil ELSE Get(next)
<1>1. /\ IInv /\ ListOf(List, n) /\ inlined \in BOOLEAN
      /\ visits \in [Values -> 0..1] /\ \A v \in Values : visits[v] = 0
  BY DEF LoopInv, Begin
<1>2. /\ n \in Nat /\ n <= MaxIndex /\ MaxIndex \in Nat /\ 1 \in Index /\ Nil \notin Values
      /\ \A k \in 1..n : k \in Index /\ List[k] \in Values
      /\ \A k \in Index : List[k] = Get(k)
      /\ n + 1 \in Index => List[n + 1] = Nil
      /\ 1 \in 1..(MaxIndex + 1) /\ Nil \in Cells
  BY <1>1, ElementsAre, ListReads, HybridAssumption DEF Readable, Index, Cells
<1>3. Rawget(1) = List[1]
  BY <1>2 DEF Rawget
<1>4. next = IF Rawget(1) = Nil THEN 1 + 1 ELSE 1
  OBVIOUS
<1>5. NextStep(1, Nil, inlined).index = next /\ NextStep(1, Nil, inlined).element = element
  BY <1>1, <1>2, <1>4, StepTaken
<1> HIDE DEF element, next
<1>6. /\ phase' = (IF element = Nil THEN "ended" ELSE "body")
      /\ index' = next /\ prev' = element /\ early' = FALSE
      /\ visits' = IF element = Nil \/ visits[element] = 2 THEN visits
                   ELSE [visits EXCEPT ![element] = visits[element] + 1]
      /\ inlined' = inlined /\ kept' = Elements /\ UNCHANGED vars
  BY <1>5 DEF Begin, TakeStep
<1>7. IInv' /\ List' = List /\ length' = n
  BY <1>1, <1>6 DEF vars, IInv, TypeOK, LengthFits, OnePart, PrefixFull, BorderStops, List,
     Get, InArray
<1>8. Elements \subseteq Values /\ \A v \in Elements : \E k \in 1..n : List[k] = v
  <2> SUFFICES ASSUME NEW v \in Elements PROVE v \in Values /\ \E k \in 1..n : List[k] = v
    OBVIOUS
  <2>1. PICK k \in 1..n : Get(k) = v
    BY DEF Elements
  <2>2. List[k] = v /\ v \in Values
    BY <1>2, <2>1
  <2> QED
    BY <2>2
<1>9. CASE n = 0
  <2>1. List[1] = Nil
    BY <1>2, <1>9
  <2>2. next = 2
    BY <1>3, <2>1 DEF next
  <2>3. element = Nil
    BY <1>9, <2>2 DEF element
  <2>4. Elements = {}
    BY <1>8, <1>9
  <2>5. phase' = "ended" /\ visits' = visits
    BY <1>6, <2>3
  <2> QED
    BY <1>1, <1>6, <1>7, <2>4, <2>5 DEF LoopInv
<1>10. CASE n # 0
  <2> DEFINE e == List[1]
  <2>1. 1 \in 1..n /\ e \in Values
    BY <1>2, <1>10
  <2>2. next = 1
    BY <1>2, <1>3, <2>1 DEF next
  <2>3. element = e
    BY <1>2, <2>1, <2>2 DEF element
  <2> HIDE DEF e
  <2>4. phase' = "body" /\ prev' = e /\ visits' = [visits EXCEPT ![e] = 1]
    <3>1. element # Nil /\ visits[element] # 2 /\ visits[element] + 1 = 1
      BY <1>1, <1>2, <2>1, <2>3
    <3> QED
      BY <1>6, <2>3, <3>1
  <2>5. /\ visits' \in [Values -> 0..1] /\ visits'[e] = 1
        /\ \A v \in Values : v # e => visits'[v] = 0
    BY <1>1, <2>1, <2>4
  <2>6. \A j, k \in Index : List[j] = List[k] /\ List[j] # Nil => j = k
    BY <1>1 DEF ListOf
  <2>7. Behind(List, 1, e) = 1
    BY <1>2 DEF Behind, e
  <2>8. ASSUME NEW k \in Index, k > 1, List[k] # Nil PROVE visits'[List[k]] = 0
    <3>1. List[k] # e
      BY <1>2, <2>6, <2>8 DEF e
    <3>2. List[k] \in Values
      BY <1>1, <2>8 DEF ListOf, Cells
    <3> QED
      BY <2>5, <3>1, <3>2
  <2>9. ASSUME NEW k \in 1..n, NEW j \in 1..n, List[k] = e, visits'[e] = 0 PROVE FALSE
    BY <2>5, <2>9
  <2>10. Tracking(List, n, 1, e, visits', Elements, FALSE)
    BY <1>2, <2>1, <2>5, <2>9 DEF Tracking, e
  <2>11. Standing(List, n, 1, e, visits', Elements, FALSE)
    BY <1>2, <1>8, <2>1, <2>7, <2>8, <2>10 DEF Standing
  <2> QED
    BY <1>1, <1>6, <1>7, <1>8, <2>2, <2>4, <2>5, <2>11 DEF LoopInv
<1> QED
  BY <1>9, <1>10

\* del takes one element out of the list, and nothing else.
LEMMA DelKeeps ==
  ASSUME LoopInv, NEW v \in Values, DelElement(v)
  PROVE  LoopInv'
<1> DEFINE n == length
<1>1. /\ IInv /\ ListOf(List, n) /\ inlined \in BOOLEAN /\ early \in BOOLEAN
      /\ visits \in [Values -> 0..1] /\ kept \subseteq Values
      /\ Standing(List, n, index, prev, visits, kept, early)
      /\ phase = "body"
  BY DEF LoopInv, DelElement
<1>2. PICK d \in 1..n : Get(d) = v /\ RemoveAt(d)
  BY DEF DelElement, Del
<1>3. /\ n \in Nat /\ n <= MaxIndex /\ MaxIndex \in Nat /\ d \in Nat /\ d >= 1 /\ d \in Index
      /\ d \in Positions /\ d # Nil /\ d \in 1..n
      /\ \A k \in Index : List[k] = Get(k)
      /\ \A k \in Index : k \in Keys
  BY <1>1, ElementsAre, ListReads, HybridAssumption DEF Readable, Index, Positions, Keys
<1>4. Remove(d) /\ RemovePosition(d) = d /\ Lua!RemovePosition(d) = d
  BY <1>2, <1>3 DEF Remove, RemovePosition, Lua!RemovePosition
<1>5. IInv'
  BY <1>1, <1>3, <1>4, RemoveInv
<1>6. [k \in Keys |-> Get(k)]' = Lua!CloseGap([k \in Keys |-> Get(k)], d, n)
  BY <1>1, <1>3, <1>4, <1>5, RemoveRefines DEF Lua!Remove
<1>7. List' = Closed(List, d, n)
  <2>1. ASSUME NEW k \in Index
        PROVE  Get(k)' = IF k \in d..(n - 1) THEN Get(k + 1) ELSE IF k = n THEN Nil ELSE Get(k)
    <3>1. k \in Keys /\ k \in Lua!Keys /\ (k \in d..(n - 1) => k + 1 \in Keys)
      BY <1>3 DEF Index, Keys, Lua!Keys, Lua!Index
    <3> QED
      BY <1>6, <3>1 DEF Lua!CloseGap
  <2>2. \A k \in Index : k \in d..(n - 1) => k + 1 \in Index
    BY <1>3 DEF Index
  <2> QED
    BY <1>3, <2>1, <2>2 DEF List, Closed
<1>8. length' = n - 1
  BY <1>2 DEF RemoveAt
<1>9. /\ kept' = kept \ {v} /\ early' = (early \/ visits[v] > 0) /\ (visits[v] > 0 => ~early)
      /\ phase' = phase /\ inlined' = inlined /\ index' = index /\ prev' = prev
      /\ visits' = visits
  BY DEF DelElement
<1>10. List[d] = v
  BY <1>2, <1>3
<1>11. ListOf(List', n - 1)
  BY <1>1, <1>3, <1>7, ClosedList
<1>12. Standing(List', n - 1, index, prev, visits, kept \ {v}, early \/ visits[v] > 0)
  <2>1. Standing(Closed(List, d, n), n - 1, index, prev, visits, kept \ {List[d]},
                 early \/ visits[List[d]] > 0)
    BY <1>1, <1>3, <1>9, <1>10, DelStands
  <2> QED
    BY <1>7, <1>10, <2>1
<1>13. early' \in BOOLEAN
  BY <1>9
<1>14. Standing(List', length', index', prev', visits', kept', early')
  BY <1>8, <1>9, <1>12
<1> QED
  BY <1>1, <1>5, <1>8, <1>9, <1>11, <1>13, <1>14 DEF LoopInv

\* add puts a new object in the list, past the current one or at the end.
LEMMA AddKeeps ==
  ASSUME LoopInv, NEW v \in Values, NEW pos \in Index \cup {Nil}, AddElement(v, pos)
  PROVE  LoopInv'
<1> DEFINE n == length
           q == IF pos = Nil THEN n + 1 ELSE pos
<1>1. /\ IInv /\ ListOf(List, n) /\ inlined \in BOOLEAN /\ early \in BOOLEAN
      /\ visits \in [Values -> 0..1] /\ kept \subseteq Values
      /\ Standing(List, n, index, prev, visits, kept, early)
      /\ phase = "body"
  BY DEF LoopInv, AddElement
<1>2. /\ n \in Nat /\ n <= MaxIndex /\ MaxIndex \in Nat
      /\ pos \in Positions /\ v \in Cells /\ v # Nil
      /\ \A k \in Index : List[k] = Get(k)
      /\ \A k \in Index : k \in Keys /\ k \in Nat /\ k >= 1
  BY <1>1, ElementsAre, ListReads, HybridAssumption DEF Readable, Index, Positions, Keys, Cells
<1>3. /\ Insert(pos, v) /\ Fresh(v) /\ (pos # Nil => pos > index /\ v # prev)
      /\ visits' = [visits EXCEPT ![v] = 0]
      /\ phase' = phase /\ inlined' = inlined /\ index' = index /\ prev' = prev
      /\ kept' = kept /\ early' = early
  BY DEF AddElement
<1>4. /\ InsertPosition(pos) = q /\ Lua!InsertPosition(pos) = q
  BY <1>2, HybridAssumption DEF InsertPosition, Lua!InsertPosition, Index
<1>5. n + 1 \in Index /\ q \in Index
  BY <1>3, <1>4 DEF Insert
<1>6. (q > index /\ v # prev) \/ q = n + 1
  BY <1>3
<1>7. IInv'
  BY <1>1, <1>2, <1>3, InsertInv
<1>8. [k \in Keys |-> Get(k)]' = Lua!OpenGap([k \in Keys |-> Get(k)], q, n, v)
  BY <1>1, <1>2, <1>3, <1>4, <1>7, InsertRefines DEF Lua!Insert
<1> HIDE DEF q
<1>9. List' = Opened(List, q, n, v)
  <2>1. ASSUME NEW k \in Index
        PROVE  Get(k)' = IF k = q THEN v
                         ELSE IF k \in (q + 1)..(n + 1) THEN Get(k - 1) ELSE Get(k)
    <3>1. k \in Keys /\ k \in Lua!Keys /\ (k \in (q + 1)..(n + 1) => k - 1 \in Keys)
      BY <1>2, <1>5 DEF Index, Keys, Lua!Keys, Lua!Index
    <3> QED
      BY <1>8, <3>1 DEF Lua!OpenGap
  <2>2. \A k \in Index : k \in (q + 1)..(n + 1) => k - 1 \in Index
    BY <1>2, <1>5 DEF Index
  <2> QED
    BY <1>2, <2>1, <2>2 DEF List, Opened
<1>10. \A k \in Index : List[k] # v
  BY <1>2, <1>3 DEF Fresh
<1>11. /\ length' \in 0..MaxIndex
       /\ \A k \in 1..length' : List'[k] # Nil
       /\ length' + 1 \in Index => List'[length' + 1] = Nil
  BY <1>7, NextListReads DEF Readable
<1>12. ListOf(List', length') /\ length' >= n /\ (q <= n + 1 => length' >= n + 1)
  BY <1>1, <1>5, <1>9, <1>10, <1>11, OpenedList
<1>13. Standing(List', length', index, prev, [visits EXCEPT ![v] = 0], kept, early)
  BY <1>1, <1>5, <1>6, <1>9, <1>10, <1>12, AddStands
<1>14. visits' \in [Values -> 0..1]
  BY <1>1, <1>3
<1> QED
  BY <1>1, <1>3, <1>7, <1>12, <1>13, <1>14 DEF LoopInv

\* Outside a loop the program stores objects, none twice.
LEMMA WriteKeeps ==
  ASSUME LoopInv, Write
  PROVE  LoopInv'
<1>1. PICK k \in Index, v \in Cells : Fresh(v) /\ Set(k, v)
  BY DEF Write
<1>2. /\ IInv /\ ListOf(List, length) /\ k \in Keys /\ phase = "outside"
      /\ \A j \in Index : j \in Keys /\ List[j] = Get(j)
  BY ListReads DEF Readable, LoopInv, Write, Keys
<1>3. Put(k, v) /\ result' = result
  BY <1>1 DEF Set
<1>4. result' \in Cells
  BY <1>2, <1>3 DEF IInv, TypeOK
<1>5. IInv'
  BY <1>2, <1>3, <1>4, PutInv
<1>6. Reads' = [Reads EXCEPT ![k] = v]
  BY <1>2, <1>3, PutReads
<1>7. List' \in [Index -> Cells] /\ \A j \in Index : List'[j] = IF j = k THEN v ELSE List[j]
  <2>1. List' \in [Index -> Cells] /\ \A j \in Index : List'[j] = Get(j)'
    BY <1>5, NextListReads DEF Readable
  <2>2. ASSUME NEW j \in Index PROVE Get(j)' = IF j = k THEN v ELSE Get(j)
    <3>1. j \in Keys /\ Reads'[j] = Get(j)' /\ Reads[j] = Get(j)
      BY <1>2 DEF Reads
    <3>2. Reads'[j] = IF j = k THEN v ELSE Reads[j]
      BY <1>2, <1>6, <3>1 DEF Reads
    <3> QED
      BY <3>1, <3>2
  <2> QED
    BY <1>2, <2>1, <2>2
<1>8. /\ length' \in 0..MaxIndex
      /\ \A j \in 1..length' : List'[j] # Nil
      /\ length' + 1 \in Index => List'[length' + 1] = Nil
  BY <1>5, NextListReads DEF Readable
<1>9. v = Nil \/ \A j \in Index : List[j] # v
  BY <1>1, <1>2 DEF Fresh
<1>10. \A j, h \in Index : List'[j] = List'[h] /\ List'[j] # Nil => j = h
  BY <1>2, <1>7, <1>9 DEF ListOf
<1>11. ListOf(List', length')
  BY <1>7, <1>8, <1>10 DEF ListOf
<1> QED
  BY <1>2, <1>5, <1>11 DEF LoopInv, Write, loopVars

\* Every step keeps the invariant.
LEMMA LoopInductive ==
  ASSUME LoopInv, [AllNext]_allVars PROVE LoopInv'
<1>1. CASE Leave
  <2>1. IInv' /\ List' = List /\ length' = length
    BY <1>1 DEF Leave, LoopInv, vars, IInv, TypeOK, LengthFits, OnePart, PrefixFull,
       BorderStops, List, Get, InArray
  <2>2. /\ phase' = "outside" /\ prev' = Nil /\ index' = 1 /\ inlined' \in BOOLEAN
        /\ early' = FALSE /\ visits' = [v \in Values |-> 0] /\ kept' = {}
    BY <1>1 DEF Leave
  <2>3. visits' \in [Values -> 0..1] /\ \A v \in Values : visits'[v] = 0
    BY <2>2
  <2> QED
    BY <2>1, <2>2, <2>3 DEF LoopInv
<1>2. CASE UNCHANGED allVars
  <2>1. IInv' /\ List' = List /\ length' = length
    BY <1>2 DEF allVars, LoopInv, vars, IInv, TypeOK, LengthFits, OnePart, PrefixFull,
       BorderStops, List, Get, InArray
  <2> QED
    BY <1>2, <2>1 DEF LoopInv, allVars, loopVars
<1> QED
  BY <1>1, <1>2, WriteKeeps, BeginKeeps, TurnKeeps, DelKeeps, AddKeeps DEF AllNext

\* Before any loop.
LEMMA LoopInitial == AllInit => LoopInv
<1> SUFFICES ASSUME AllInit PROVE LoopInv
  OBVIOUS
<1>1. IInv
  BY InitInv DEF AllInit
<1>2. ListOf(List, length)
  <2>1. \A k \in Index : List[k] = Nil
    BY <1>1, ListReads DEF Readable, AllInit, Init, Get, InArray, Keys
  <2> QED
    BY <1>1, <2>1, ListReads DEF Readable, ListOf
<1>3. /\ phase = "outside" /\ inlined \in BOOLEAN /\ index = 1 /\ prev = Nil
      /\ kept = {} /\ early = FALSE /\ visits = [v \in Values |-> 0]
  BY DEF AllInit
<1>4. visits \in [Values -> 0..1] /\ \A v \in Values : visits[v] = 0
  BY <1>3
<1> QED
  BY <1>1, <1>2, <1>3, <1>4 DEF LoopInv

\* What every reachable state of a loop has.
LEMMA LoopInvariance == AllSpec => []LoopInv
<1>1. AllInit => LoopInv
  BY LoopInitial
<1>2. LoopInv /\ [AllNext]_allVars => LoopInv'
  BY LoopInductive
<1> QED
  BY <1>1, <1>2, PTL DEF AllSpec

\* Whatever the body deletes, the current element and all the others included,
\* and whatever it adds, no element is handed out twice
\* (src/src/runtime/pico8.s, __builtin_pico8_all_step).
THEOREM OnceCorrect == AllSpec => []VisitedOnce
<1>1. LoopInv => VisitedOnce
  BY DEF LoopInv, VisitedOnce
<1> QED
  BY <1>1, LoopInvariance, PTL

\* No element that stays is left out, if the body deletes at most one of those
\* visited a turn (src/src/runtime/pico8.s, __builtin_pico8_all_step).
THEOREM AllVisited == AllSpec => []NoneMissed
<1>1. LoopInv => NoneMissed
  BY DEF LoopInv, NoneMissed
<1> QED
  BY <1>1, LoopInvariance, PTL

\* The inline step of a for loop answers what the routine would, wherever the
\* loop stands (src/src/node/loop.c, node_for_all).
THEOREM InlineCorrect == AllSpec => []InlineAgrees
<1>1. LoopInv => InlineAgrees
  BY InlineGoes DEF LoopInv, InlineAgrees
<1> QED
  BY <1>1, LoopInvariance, PTL
=============================================================================
