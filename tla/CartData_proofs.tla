--------------------------- MODULE CartData_proofs ---------------------------
(***************************************************************************)
(* What the saved data of a cart is worth, for any number of slots of any  *)
(* width, calls of any length and carts, wherever the power is cut.        *)
(***************************************************************************)
EXTENDS CartData, TLAPS

-----------------------------------------------------------------------------
(***************************************************************************)
(* Types.                                                                  *)
(***************************************************************************)
Byte   == Bytes \cup {0}
Owners == Carts \cup {0}
Stores == [op : {"put", "copy", "claim", "clear", "load"}, at : Int,
           arg : Byte \cup Memory \cup {"kept", "new"}]

TypeOK ==
  /\ card \in [id : Owners, bytes : [Area -> Byte]]
  /\ connected \in BOOLEAN /\ saving \in BOOLEAN /\ half \in BOOLEAN
  /\ cart \in Owners
  /\ ram \in [Memory -> Byte]
  /\ todo \in Seq(Stores)
  /\ owner \in [AllSlots -> Owners]
  /\ goal \in [Area -> Byte] /\ may \in [Area -> SUBSET Byte]

-----------------------------------------------------------------------------
(***************************************************************************)
(* What a call has still to do: stores to the memory, or the claim of the  *)
(* card with its clearing and the load, or the load alone.                 *)
(***************************************************************************)
Write(t) ==
  /\ t.op \in {"put", "copy"} /\ t.at \in Memory
  /\ t.op = "put" => t.arg \in Byte
  /\ t.op = "copy" => t.arg \in Memory

IsWrites(list) == \A i \in 1..Len(list) : Write(list[i])

IsClaim(list) ==
  /\ list # <<>>
  /\ list[Len(list)].op = "load" /\ list[Len(list)].arg = "new"
  /\ \A i \in 1..(Len(list) - 1) :
       \/ list[i].op = "claim" /\ i = 1
       \/ list[i].op = "clear" /\ list[i].at \in AllSlots

IsLoad(list) == Len(list) = 1 /\ list[1].op = "load" /\ list[1].arg = "kept"

Storing  == IsWrites(todo)
Claiming == IsClaim(todo)
Loading  == IsLoad(todo)

\* The card has not got the id of the cart that claims it.
Unclaimed == todo[1].op = "claim"

\* A slot that is still to be cleared.
ToClear(list, s) == \E i \in 1..Len(list) : list[i].op = "clear" /\ list[i].at = s
Uncleared(s)     == ToClear(todo, s)

Shape == Storing \/ Claiming \/ Loading

-----------------------------------------------------------------------------
(***************************************************************************)
(* Whose the card is.                                                      *)
(***************************************************************************)
\* A running call has a cart, only the card of this cart is written through, and
\* a card that is being claimed is not.
Claims ==
  /\ todo # <<>> => cart \in Carts
  /\ saving => cart \in Carts /\ card.id = cart
  /\ answer = "kept" => saving
  /\ Loading => card.id = cart
  /\ Claiming =>
       /\ ~saving
       /\ IF Unclaimed THEN card.id # cart /\ \A s \in AllSlots : Uncleared(s)
          ELSE card.id = cart

\* The slots are those of the cart the card names, but for those a claim has
\* still to clear.
Owned ==
  ~half \/ (Claiming /\ ~Unclaimed) =>
    \A s \in AllSlots : owner[s] = card.id \/ (Claiming /\ ~Unclaimed /\ Uncleared(s))

\* The card follows the memory slot by slot.
Through ==
  saving => \A a \in Area : SlotOf(a) \in missed \/ card.bytes[a] = ram[a]

-----------------------------------------------------------------------------
(***************************************************************************)
(* How far a call has come.                                                *)
(***************************************************************************)
Value(t) == IF t.op = "put" THEN t.arg ELSE ram[t.arg]

\* The slots with a byte still to be stored.
ToStore(list, s) == \E i \in 1..Len(list) : list[i].at \in Area /\ SlotOf(list[i].at) = s
Unfinished(s)    == ToStore(todo, s)

\* No two stores are to the same byte, and none to a byte a later copy reads.
Ordered ==
  \A i, j \in 1..Len(todo) :
    i < j => /\ todo[i].at # todo[j].at
             /\ todo[j].op = "copy" => todo[i].at # todo[j].arg

\* What the stores to come will store is what the call was to leave, and so is
\* what is behind it.
OnCourse ==
  /\ \A i \in 1..Len(todo) : todo[i].at \in Area => Value(todo[i]) = goal[todo[i].at]
  /\ \A a \in Area :
       IF Unfinished(SlotOf(a))
       THEN /\ ram[a] = goal[a] \/ \E i \in 1..Len(todo) : todo[i].at = a
            /\ {card.bytes[a], ram[a], goal[a]} \subseteq may[a]
       ELSE card.bytes[a] = goal[a] /\ card.bytes[a] \in may[a]

\* Nothing of what the call does is for the card.
Untouched == \A a \in Area : card.bytes[a] = goal[a] /\ card.bytes[a] \in may[a]

Progress ==
  /\ Storing => IF saving /\ connected THEN Ordered /\ OnCourse ELSE Untouched
  /\ Loading => Untouched
  /\ Claiming =>
       \A a \in Area :
         /\ goal[a] = 0 /\ {card.bytes[a], 0} \subseteq may[a]
         /\ card.bytes[a] = 0 \/ Uncleared(SlotOf(a))

IInv == TypeOK /\ Shape /\ Claims /\ Owned /\ Through /\ Progress

-----------------------------------------------------------------------------
(***************************************************************************)
(* Lists of stores, and slots.                                             *)
(***************************************************************************)
\* The rest of a list is the list moved up by one.
LEMMA TailAt ==
  ASSUME NEW S, NEW s \in Seq(S), s # <<>>
  PROVE  /\ Tail(s) \in Seq(S) /\ Len(s) \in Nat \ {0} /\ Len(Tail(s)) = Len(s) - 1
         /\ Head(s) = s[1] /\ Head(s) \in S
         /\ \A i \in 1..(Len(s) - 1) : Tail(s)[i] = s[i + 1]
  OBVIOUS

\* Every byte of the area is in a slot.
LEMMA SlotIn ==
  ASSUME NEW a \in Area
  PROVE  SlotOf(a) \in AllSlots
<1> DEFINE n == a - First
           q == n \div Width
<1>1. Width \in Nat \ {0} /\ Slots \in Nat \ {0}
  BY CartDataAssumption
<1>2. Slots * Width \in Nat
  BY <1>1
<1>3. n \in Nat /\ n < Slots * Width
  BY <1>2 DEF Area, First
<1> HIDE DEF n
<1>4. /\ q \in Int /\ Width * q <= n /\ n < Width * q + Width
  BY <1>1, <1>3
<1> HIDE DEF q
<1>5. q >= 0
  <2>1. ASSUME q <= -1 PROVE FALSE
    <3>1. Width * q <= -Width
      BY <1>1, <1>4, <2>1
    <3> QED
      BY <1>1, <1>3, <1>4, <3>1
  <2> QED
    BY <1>4, <2>1
<1>6. q < Slots
  <2>1. ASSUME q >= Slots PROVE FALSE
    <3> DEFINE k == q - Slots
    <3>1. k \in Nat /\ q = Slots + k
      BY <1>1, <1>4, <2>1
    <3> HIDE DEF k
    <3>2. Width * k >= 0
      BY <1>1, <3>1
    <3>3. Width * q = Width * Slots + Width * k
      BY <1>1, <3>1
    <3>4. Width * Slots = Slots * Width /\ Width * k \in Int
      BY <1>1, <3>1
    <3> DEFINE all == Slots * Width
               more == Width * k
               before == Width * q
    <3>5. before = all + more /\ more >= 0 /\ more \in Int /\ all \in Nat
      BY <1>2, <3>2, <3>3, <3>4
    <3>6. before <= n /\ n < all /\ n \in Nat
      BY <1>3, <1>4
    <3> HIDE DEF all, more, before
    <3> QED
      BY <3>5, <3>6
  <2> QED
    BY <1>1, <1>4, <2>1
<1> QED
  BY <1>1, <1>4, <1>5, <1>6 DEF SlotOf, AllSlots, q, n

\* Between two calls there is nothing to store.
LEMMA Nothing ==
  ASSUME NEW list, list = <<>>
  PROVE  /\ Len(list) = 0 /\ IsWrites(list) /\ ~IsClaim(list) /\ ~IsLoad(list)
         /\ \A s : ~ToClear(list, s) /\ ~ToStore(list, s)
<1>1. Len(list) = 0
  OBVIOUS
<1> QED
  BY <1>1 DEF IsWrites, IsClaim, IsLoad, ToClear, ToStore

\* The three kinds of list are apart.
LEMMA Apart ==
  ASSUME NEW list \in Seq(Stores), list # <<>>
  PROVE  /\ Len(list) \in Nat \ {0} /\ 1 \in 1..Len(list) /\ Len(list) \in 1..Len(list)
         /\ IsWrites(list) => /\ list[1].op \in {"put", "copy"}
                              /\ ~IsClaim(list) /\ ~IsLoad(list)
         /\ IsClaim(list) => list[1].op \notin {"put", "copy"} /\ ~IsLoad(list)
         /\ IsLoad(list) => list[1].op \notin {"put", "copy"}
<1>1. Len(list) \in Nat \ {0}
  OBVIOUS
<1>2. 1 \in 1..Len(list) /\ Len(list) \in 1..Len(list)
  BY <1>1
<1>3. IsWrites(list) => list[1].op \in {"put", "copy"} /\ list[Len(list)].op \in {"put", "copy"}
  BY <1>2 DEF IsWrites, Write
<1>4. IsClaim(list) => list[1].op \notin {"put", "copy"}
  <2>1. CASE Len(list) = 1
    BY <2>1 DEF IsClaim
  <2>2. CASE Len(list) # 1
    <3>1. \A n \in Nat \ {0} : n # 1 => 1 \in 1..(n - 1)
      OBVIOUS
    <3>2. IsClaim(list) => list[1].op = "claim" \/ list[1].op = "clear"
      BY <1>1, <2>2, <3>1, Zenon DEF IsClaim
    <3> QED
      BY <3>2
  <2> QED
    BY <2>1, <2>2
<1>5. IsClaim(list) => ~IsLoad(list)
  BY DEF IsClaim, IsLoad
<1>6. IsLoad(list) => list[1].op \notin {"put", "copy"}
  BY DEF IsLoad
<1>7. IsClaim(list) \/ IsLoad(list) => ~IsWrites(list)
  BY <1>3, <1>4, <1>6
<1> QED
  BY <1>1, <1>2, <1>3, <1>4, <1>5, <1>6, <1>7

\* A call that ends has brought the card where it was to.
LEMMA Ended ==
  ASSUME todo' = <<>>,
         \A a \in Area : card'.bytes[a] = goal'[a] /\ card'.bytes[a] \in may'[a]
  PROVE  Shape' /\ Progress' /\ ~Claiming' /\ ~Loading'
<1>1. /\ Len(todo') = 0 /\ Storing' /\ ~Claiming' /\ ~Loading'
      /\ \A s : ~Unfinished(s)'
  BY Nothing DEF Storing, Claiming, Loading, Unfinished
<1>2. Ordered'
  BY <1>1 DEF Ordered
<1>3. OnCourse'
  BY <1>1 DEF OnCourse
<1>4. Untouched'
  BY DEF Untouched
<1> QED
  BY <1>1, <1>2, <1>3, <1>4 DEF Shape, Progress

-----------------------------------------------------------------------------
(***************************************************************************)
(* The calls that store.                                                   *)
(***************************************************************************)
\* Between two calls the card is what it was to be.
LEMMA IdleFacts ==
  ASSUME IInv, todo = <<>>
  PROVE  /\ ~Claiming /\ ~Loading
         /\ ~half => \A s \in AllSlots : owner[s] = card.id
         /\ Untouched
<1>1. /\ Storing /\ ~Claiming /\ ~Loading /\ \A s : ~Unfinished(s)
  BY Nothing DEF Storing, Claiming, Loading, Unfinished
<1>2. Untouched
  BY <1>1 DEF IInv, Progress, OnCourse, Untouched
<1> QED
  BY <1>1, <1>2 DEF IInv, Owned

\* The stores of a call are as many as they are in order: what a call that
\* starts has to show of them.
Orderly(stores, to) ==
  /\ stores \in Seq(Stores) /\ stores # <<>>
  /\ DOMAIN to \subseteq Memory /\ \A a \in DOMAIN to : to[a] \in Byte
  /\ \A i \in 1..Len(stores) :
       /\ Write(stores[i]) /\ stores[i].at \in DOMAIN to
       /\ Value(stores[i]) = to[stores[i].at]
  /\ \A a \in DOMAIN to : \E i \in 1..Len(stores) : stores[i].at = a
  /\ \A i, j \in 1..Len(stores) :
       i < j => /\ stores[i].at # stores[j].at
                /\ stores[j].op = "copy" => stores[i].at # stores[j].arg

\* A call that starts is on its course.
LEMMA BeginKeeps ==
  ASSUME IInv, NEW stores, NEW to, Orderly(stores, to), Begin(stores, to)
  PROVE  IInv'
<1> DEFINE touched  == {SlotOf(a) : a \in DOMAIN to \cap Area}
           saved(a) == saving /\ connected /\ SlotOf(a) \in touched
           left(a)  == IF a \in DOMAIN to THEN to[a] ELSE ram[a]
<1>1. /\ Idle /\ todo' = stores
      /\ goal' = [a \in Area |-> IF saved(a) THEN left(a) ELSE card.bytes[a]]
      /\ may' = [a \in Area |-> {card.bytes[a]} \cup IF saved(a) THEN {ram[a], left(a)} ELSE {}]
      /\ UNCHANGED <<card, connected, cart, ram, saving, answer, owner, half, missed>>
  BY DEF Begin
<1>2. todo = <<>> /\ cart # 0
  BY <1>1 DEF Idle
<1>3. Area \subseteq Memory
  BY DEF Area, Memory, First
<1>4. \A a \in Area : left(a) \in Byte /\ ram[a] \in Byte /\ card.bytes[a] \in Byte
  BY <1>3 DEF Orderly, IInv, TypeOK
<1>5. TypeOK'
  <2>1. goal' \in [Area -> Byte]
    BY <1>1, <1>4
  <2>2. may' \in [Area -> SUBSET Byte]
    BY <1>1, <1>4
  <2>3. todo' \in Seq(Stores)
    BY <1>1 DEF Orderly
  <2> QED
    BY <1>1, <2>1, <2>2, <2>3 DEF IInv, TypeOK
<1>6. /\ Storing' /\ ~Claiming' /\ ~Loading' /\ ~Claiming /\ ~Loading
  <2>1. IsWrites(stores)
    BY DEF Orderly, IsWrites
  <2>2. ~IsClaim(stores) /\ ~IsLoad(stores)
    BY <2>1, Apart DEF Orderly
  <2>3. Storing' /\ ~Claiming' /\ ~Loading'
    BY <1>1, <2>1, <2>2 DEF Storing, Claiming, Loading
  <2> QED
    BY <1>2, <2>3, IdleFacts
<1>7. Claims'
  BY <1>1, <1>2, <1>6 DEF IInv, TypeOK, Claims, Owners
<1>8. Owned'
  BY <1>1, <1>6 DEF IInv, Owned
<1>9. Through'
  BY <1>1 DEF IInv, Through
<1>10. ASSUME saving, connected
       PROVE  Ordered' /\ OnCourse'
  <2>1. Ordered'
    BY <1>1 DEF Ordered, Orderly
  <2>2. \A i \in 1..Len(todo') :
          todo'[i].at \in Area => Value(todo[i])' = goal'[todo'[i].at]
    <3> SUFFICES ASSUME NEW i \in 1..Len(stores), stores[i].at \in Area
                 PROVE  Value(stores[i])' = goal'[stores[i].at]
      BY <1>1 DEF Value
    <3>1. stores[i].at \in DOMAIN to /\ Value(stores[i]) = to[stores[i].at]
      BY DEF Orderly
    <3>2. Value(stores[i])' = Value(stores[i])
      BY <1>1 DEF Value
    <3>3. saved(stores[i].at)
      BY <1>10, <3>1
    <3>4. goal'[stores[i].at] = to[stores[i].at]
      BY <1>1, <3>1, <3>3
    <3> QED
      BY <3>1, <3>2, <3>4
  <2>3. \A s : Unfinished(s)' <=> s \in touched
    <3> TAKE s
    <3>1. ASSUME Unfinished(s)' PROVE s \in touched
      <4>1. PICK i \in 1..Len(stores) : stores[i].at \in Area /\ SlotOf(stores[i].at) = s
        BY <1>1, <3>1 DEF Unfinished, ToStore
      <4> QED
        BY <4>1 DEF Orderly
    <3>2. ASSUME s \in touched PROVE Unfinished(s)'
      <4>1. PICK a \in DOMAIN to \cap Area : s = SlotOf(a)
        BY <3>2
      <4>2. PICK i \in 1..Len(stores) : stores[i].at = a
        BY DEF Orderly
      <4> QED
        BY <1>1, <4>1, <4>2 DEF Unfinished, ToStore
    <3> QED
      BY <3>1, <3>2
  <2>4. ASSUME NEW a \in Area, Unfinished(SlotOf(a))'
        PROVE  /\ ram'[a] = goal'[a] \/ \E i \in 1..Len(todo') : todo'[i].at = a
               /\ {card'.bytes[a], ram'[a], goal'[a]} \subseteq may'[a]
    <3>1. saved(a)
      BY <1>10, <2>3, <2>4
    <3>2. goal'[a] = left(a) /\ may'[a] = {card.bytes[a], ram[a], left(a)}
      BY <1>1, <3>1
    <3>3. a \in DOMAIN to => \E i \in 1..Len(stores) : stores[i].at = a
      BY DEF Orderly
    <3> QED
      BY <1>1, <3>2, <3>3
  <2>5. ASSUME NEW a \in Area, ~Unfinished(SlotOf(a))'
        PROVE  card'.bytes[a] = goal'[a] /\ card'.bytes[a] \in may'[a]
    <3>1. ~saved(a)
      BY <2>3, <2>5
    <3> QED
      BY <1>1, <3>1
  <2> QED
    BY <2>1, <2>2, <2>4, <2>5 DEF OnCourse
<1>11. ASSUME ~(saving /\ connected)
       PROVE  Untouched'
  BY <1>1, <1>11 DEF Untouched
<1>12. Progress'
  BY <1>1, <1>6, <1>10, <1>11 DEF Progress
<1> QED
  BY <1>5, <1>6, <1>7, <1>8, <1>9, <1>12 DEF IInv, Shape

\* A function on 1..n is a sequence of n.
LEMMA OneToN ==
  ASSUME NEW S, NEW n \in Nat, NEW f \in [1..n -> S]
  PROVE  f \in Seq(S) /\ Len(f) = n
  OBVIOUS

\* The memory goes from 0 up.
LEMMA MemoryUp ==
  \E top \in Nat : Memory = 0..top
<1>1. Width \in Nat /\ Slots \in Nat
  BY CartDataAssumption
<1>2. Slots * Width \in Nat
  BY <1>1
<1>3. First + Slots * Width - 1 \in Nat
  BY <1>2 DEF First
<1> QED
  BY <1>3 DEF Memory

\* Bytes at one address after another are stored in order.
LEMMA PokeKeeps ==
  ASSUME IInv, NEW n \in Nat \ {0}, NEW a \in Memory, a + n - 1 \in Memory,
         NEW values \in [1..n -> Bytes], Poke(a, values)
  PROVE  IInv'
<1> DEFINE stores == [i \in 1..n |-> Store("put", a + i - 1, values[i])]
           to     == [b \in a..(a + n - 1) |-> values[b - a + 1]]
<1>1. Len(values) = n
  BY OneToN
<1>2. Begin(stores, to)
  BY <1>1 DEF Poke
<1>3. Memory \subseteq Int /\ \A b \in a..(a + n - 1) : b \in Memory
  BY MemoryUp
<1>4. \A i \in 1..n : /\ a + i - 1 \in a..(a + n - 1)
                      /\ stores[i] = [op |-> "put", at |-> a + i - 1, arg |-> values[i]]
                      /\ stores[i].op = "put" /\ stores[i].at = a + i - 1
                      /\ stores[i].arg = values[i]
  BY <1>3 DEF Store
<1>5. stores \in [1..n -> Stores]
  <2>1. \A i \in 1..n : [op |-> "put", at |-> a + i - 1, arg |-> values[i]] \in Stores
    BY <1>3 DEF Stores, Byte
  <2> QED
    BY <1>4, <2>1
<1>6. stores \in Seq(Stores) /\ Len(stores) = n
  BY <1>5, OneToN
<1>7. DOMAIN to = a..(a + n - 1) /\ \A b \in DOMAIN to : to[b] = values[b - a + 1]
  OBVIOUS
<1>8. DOMAIN to \subseteq Memory /\ \A b \in DOMAIN to : to[b] \in Byte
  <2>1. \A b \in a..(a + n - 1) : b - a + 1 \in 1..n
    BY <1>3
  <2> QED
    BY <1>3, <1>7, <2>1 DEF Byte
<1>9. \A i \in 1..n :
        /\ Write(stores[i]) /\ stores[i].at \in DOMAIN to
        /\ Value(stores[i]) = to[stores[i].at]
  <2> SUFFICES ASSUME NEW i \in 1..n
               PROVE  /\ Write(stores[i]) /\ stores[i].at \in DOMAIN to
                      /\ Value(stores[i]) = to[stores[i].at]
    OBVIOUS
  <2>1. (a + i - 1) - a + 1 = i
    BY <1>3
  <2>2. to[a + i - 1] = values[i]
    BY <1>4, <1>7, <2>1
  <2> QED
    BY <1>3, <1>4, <1>7, <2>2 DEF Write, Value, Byte
<1>10. \A b \in DOMAIN to : \E i \in 1..n : stores[i].at = b
  <2> SUFFICES ASSUME NEW b \in DOMAIN to PROVE \E i \in 1..n : stores[i].at = b
    OBVIOUS
  <2>1. b - a + 1 \in 1..n /\ a + (b - a + 1) - 1 = b
    BY <1>3, <1>7
  <2> QED
    BY <1>4, <2>1
<1>11. \A i, j \in 1..n : i < j => stores[i].at # stores[j].at /\ stores[j].op # "copy"
  <2> SUFFICES ASSUME NEW i \in 1..n, NEW j \in 1..n, i < j
               PROVE  stores[i].at # stores[j].at /\ stores[j].op # "copy"
    OBVIOUS
  <2>1. a + i - 1 # a + j - 1
    BY <1>3
  <2>2. stores[i].at = a + i - 1 /\ stores[j].at = a + j - 1 /\ stores[j].op = "put"
    BY <1>4, Zenon
  <2> HIDE DEF stores
  <2> QED
    BY <2>1, <2>2
<1> HIDE DEF stores, to
<1>12. stores # <<>>
  BY <1>6
<1>13. Orderly(stores, to)
  BY <1>6, <1>8, <1>9, <1>10, <1>11, <1>12 DEF Orderly
<1> QED
  BY <1>2, <1>13, BeginKeeps

\* A slot is within the memory.
LEMMA SlotInMemory ==
  ASSUME NEW n \in AllSlots
  PROVE  First + n * Width \in Memory /\ First + n * Width + Width - 1 \in Memory
<1>1. Width \in Nat \ {0} /\ Slots \in Nat \ {0} /\ n \in Nat /\ n <= Slots - 1
  BY CartDataAssumption DEF AllSlots
<1> DEFINE k == Slots - 1 - n
<1>2. k \in Nat /\ Slots = n + k + 1
  BY <1>1
<1> HIDE DEF k
<1>3. Slots * Width = n * Width + k * Width + Width /\ k * Width \in Nat /\ n * Width \in Nat
  BY <1>1, <1>2
<1> DEFINE all == Slots * Width
           before == n * Width
           behind == k * Width
<1>4. all = before + behind + Width /\ behind \in Nat /\ before \in Nat
  BY <1>3
<1> HIDE DEF all, before, behind
<1>5. 1 + before \in 0..(1 + all - 1) /\ 1 + before + Width - 1 \in 0..(1 + all - 1)
  BY <1>1, <1>4
<1> QED
  BY <1>5 DEF Memory, First, all, before

\* dset() lists the bytes of one slot.
LEMMA DsetKeeps ==
  ASSUME IInv, NEW n \in AllSlots, NEW values \in [1..Width -> Bytes], Dset(n, values)
  PROVE  IInv'
  BY CartDataAssumption, SlotInMemory, PokeKeeps DEF Dset

\* poke() and memset() list a run of bytes.
LEMMA MemSetKeeps ==
  ASSUME IInv, NEW a \in Memory, NEW b \in Bytes, NEW n \in 1..MaxRun, a + n - 1 \in Memory,
         MemSet(a, b, n)
  PROVE  IInv'
<1>1. n \in Nat \ {0}
  BY CartDataAssumption
<1>2. [i \in 1..n |-> b] \in [1..n -> Bytes]
  OBVIOUS
<1> QED
  BY <1>1, <1>2, PokeKeeps DEF MemSet

\* A copy reads no byte it has stored before.
LEMMA MemCopyKeeps ==
  ASSUME IInv, NEW to \in Memory, NEW from \in Memory, NEW n \in 1..MaxRun,
         to + n - 1 \in Memory, from + n - 1 \in Memory, MemCopy(to, from, n)
  PROVE  IInv'
<1> DEFINE order(i) == CopyOrder(to, from, n)[i]
           stores == [i \in 1..n |-> Store("copy", to + order(i), from + order(i))]
           left   == [b \in to..(to + n - 1) |-> ram[b - to + from]]
<1>1. n \in Nat \ {0}
  BY CartDataAssumption
<1>2. Begin(stores, left)
  BY DEF MemCopy
<1>3. /\ Memory \subseteq Int
      /\ \A k \in 0..(n - 1) : to + k \in Memory /\ from + k \in Memory
      /\ \A b \in to..(to + n - 1) : b \in Memory /\ b - to \in 0..(n - 1)
  BY <1>1, MemoryUp
<1>4. \A i \in 1..n : order(i) = IF to > from THEN n - i ELSE i - 1
  BY DEF CopyOrder
<1>5. \A i \in 1..n : order(i) \in 0..(n - 1)
  BY <1>1, <1>4
<1>6. \A k \in 0..(n - 1) : \E i \in 1..n : order(i) = k
  <2> SUFFICES ASSUME NEW k \in 0..(n - 1) PROVE \E i \in 1..n : order(i) = k
    OBVIOUS
  <2>1. CASE to > from
    <3>1. n - k \in 1..n /\ n - (n - k) = k
      BY <1>1
    <3> QED
      BY <1>4, <2>1, <3>1
  <2>2. CASE ~(to > from)
    <3>1. k + 1 \in 1..n /\ (k + 1) - 1 = k
      BY <1>1
    <3> QED
      BY <1>4, <2>2, <3>1
  <2> QED
    BY <2>1, <2>2
<1>7. \A i, j \in 1..n : i < j => to + order(i) # to + order(j) /\ to + order(i) # from + order(j)
  <2> SUFFICES ASSUME NEW i \in 1..n, NEW j \in 1..n, i < j
               PROVE  to + order(i) # to + order(j) /\ to + order(i) # from + order(j)
    OBVIOUS
  <2>1. CASE to > from
    BY <1>1, <1>3, <1>4, <2>1
  <2>2. CASE ~(to > from)
    BY <1>1, <1>3, <1>4, <2>2
  <2> QED
    BY <2>1, <2>2
<1>8. \A i \in 1..n :
        stores[i] = [op |-> "copy", at |-> to + order(i), arg |-> from + order(i)]
  BY DEF Store
<1> HIDE DEF order, stores
<1>9. \A i \in 1..n : /\ stores[i].op = "copy" /\ stores[i].at = to + order(i)
                      /\ stores[i].arg = from + order(i)
  <2> SUFFICES ASSUME NEW i \in 1..n
               PROVE  /\ stores[i].op = "copy" /\ stores[i].at = to + order(i)
                      /\ stores[i].arg = from + order(i)
    OBVIOUS
  <2>1. stores[i] = [op |-> "copy", at |-> to + order(i), arg |-> from + order(i)]
    BY <1>8
  <2> QED
    BY <2>1
<1>10. stores \in Seq(Stores) /\ Len(stores) = n
  <2>0. stores = [i \in 1..n |-> stores[i]]
    BY DEF stores
  <2>1. \A i \in 1..n : [op |-> "copy", at |-> to + order(i), arg |-> from + order(i)] \in Stores
    <3> SUFFICES ASSUME NEW i \in 1..n
                 PROVE  [op |-> "copy", at |-> to + order(i), arg |-> from + order(i)] \in Stores
      OBVIOUS
    <3>1. to + order(i) \in Int /\ from + order(i) \in Memory
      BY <1>3, <1>5
    <3> QED
      BY <3>1 DEF Stores
  <2>2. stores \in [1..n -> Stores]
    BY <1>8, <2>0, <2>1
  <2> QED
    BY <1>1, <2>2, OneToN
<1>11. DOMAIN left = to..(to + n - 1) /\ \A b \in DOMAIN left : left[b] = ram[b - to + from]
  OBVIOUS
<1>12. DOMAIN left \subseteq Memory /\ \A b \in DOMAIN left : left[b] \in Byte
  <2>1. \A b \in to..(to + n - 1) : b - to + from = from + (b - to)
    BY <1>3
  <2>2. \A b \in to..(to + n - 1) : b - to + from \in Memory
    BY <1>3, <2>1
  <2> QED
    BY <1>3, <1>11, <2>2 DEF IInv, TypeOK
<1>13. \A i \in 1..n :
         /\ Write(stores[i]) /\ stores[i].at \in DOMAIN left
         /\ Value(stores[i]) = left[stores[i].at]
  <2> SUFFICES ASSUME NEW i \in 1..n
               PROVE  /\ Write(stores[i]) /\ stores[i].at \in DOMAIN left
                      /\ Value(stores[i]) = left[stores[i].at]
    OBVIOUS
  <2>1. to + order(i) \in to..(to + n - 1) /\ (to + order(i)) - to + from = from + order(i)
    BY <1>1, <1>3, <1>5
  <2>2. left[to + order(i)] = ram[from + order(i)]
    BY <1>11, <2>1
  <2> QED
    BY <1>3, <1>5, <1>9, <1>11, <2>1, <2>2 DEF Write, Value
<1>14. \A b \in DOMAIN left : \E i \in 1..n : stores[i].at = b
  <2> SUFFICES ASSUME NEW b \in DOMAIN left PROVE \E i \in 1..n : stores[i].at = b
    OBVIOUS
  <2>1. b - to \in 0..(n - 1) /\ to + (b - to) = b
    BY <1>3, <1>11
  <2>2. PICK i \in 1..n : order(i) = b - to
    BY <1>6, <2>1
  <2> QED
    BY <1>9, <2>1, <2>2
<1>15. \A i, j \in 1..n :
         i < j => stores[i].at # stores[j].at /\ stores[i].at # stores[j].arg
  BY <1>7, <1>9
<1> HIDE DEF left
<1>16. stores # <<>>
  BY <1>1, <1>10
<1>17. Orderly(stores, left)
  BY <1>10, <1>12, <1>13, <1>14, <1>15, <1>16 DEF Orderly
<1> QED
  BY <1>2, <1>17, BeginKeeps

-----------------------------------------------------------------------------
(***************************************************************************)
(* One byte stored.                                                        *)
(***************************************************************************)
\* The store that is made is the first of the call, of the value it has now.
Storing1(A, val) ==
  /\ todo # <<>> /\ Storing /\ todo' = Tail(todo)
  /\ A = todo[1].at /\ val = Value(todo[1])
  /\ WriteThrough(A, val) /\ Settle
  /\ UNCHANGED <<connected, cart, saving, answer, writes, half, goal>>

\* What a byte stored does to the memory, the card and the owners of its slots.
LEMMA StoreEffect ==
  ASSUME IInv, NEW A, NEW val, Storing1(A, val)
  PROVE  /\ A \in Memory /\ val \in Byte
         /\ ram' \in [Memory -> Byte] /\ ram'[A] = val
         /\ \A a \in Memory : a # A => ram'[a] = ram[a]
         /\ card' \in [id : Owners, bytes : [Area -> Byte]] /\ card'.id = card.id
         /\ owner' \in [AllSlots -> Owners]
         /\ ~(A \in Area /\ saving /\ connected) =>
              /\ card' = card /\ owner' = owner
              /\ missed' = IF A \in Area THEN missed \cup {SlotOf(A)} ELSE missed
         /\ A \in Area /\ saving /\ connected =>
              /\ \A a \in Area : card'.bytes[a] = IF SlotOf(a) = SlotOf(A) THEN ram'[a]
                                                  ELSE card.bytes[a]
              /\ \A s \in AllSlots : owner'[s] = IF s = SlotOf(A) THEN cart ELSE owner[s]
              /\ missed' = missed \ {SlotOf(A)}
<1>1. 1 \in 1..Len(todo)
  BY Apart DEF Storing1, IInv, TypeOK
<1>2. Write(todo[1])
  BY <1>1 DEF Storing1, Storing, IsWrites
<1>3. A \in Memory /\ val \in Byte
  BY <1>2 DEF Storing1, Write, Value, IInv, TypeOK
<1>4. ram' = [ram EXCEPT ![A] = val] /\ ram \in [Memory -> Byte]
  BY DEF Storing1, WriteThrough, IInv, TypeOK
<1>5. ram' \in [Memory -> Byte] /\ ram'[A] = val /\ \A a \in Memory : a # A => ram'[a] = ram[a]
  BY <1>3, <1>4
<1>6. Area \subseteq Memory
  BY DEF Area, Memory, First
<1>7. card = [id |-> card.id, bytes |-> card.bytes] /\ card.id \in Owners
      /\ card.bytes \in [Area -> Byte] /\ owner \in [AllSlots -> Owners] /\ cart \in Owners
  BY DEF IInv, TypeOK
<1>8. CASE A \in Area /\ saving /\ connected
  <2>1. /\ card' = [card EXCEPT !.bytes = [c \in Area |-> IF SlotOf(c) = SlotOf(A) THEN ram'[c] ELSE @[c]]]
        /\ owner' = [owner EXCEPT ![SlotOf(A)] = cart]
        /\ missed' = missed \ {SlotOf(A)}
    BY <1>8 DEF Storing1, WriteThrough
  <2>2. card' = [id |-> card.id,
                 bytes |-> [c \in Area |-> IF SlotOf(c) = SlotOf(A) THEN ram'[c] ELSE card.bytes[c]]]
    BY <1>7, <2>1
  <2>3. /\ card'.id = card.id
        /\ card'.bytes = [c \in Area |-> IF SlotOf(c) = SlotOf(A) THEN ram'[c] ELSE card.bytes[c]]
    BY <2>2
  <2>4. card'.bytes \in [Area -> Byte]
    BY <1>5, <1>6, <1>7, <2>3
  <2>5. card' = [id |-> card'.id, bytes |-> card'.bytes]
    BY <2>2, <2>3
  <2>6. card' \in [id : Owners, bytes : [Area -> Byte]]
    BY <1>7, <2>3, <2>4, <2>5
  <2>7. SlotOf(A) \in AllSlots
    BY <1>8, SlotIn
  <2>8. /\ owner' \in [AllSlots -> Owners]
        /\ \A s \in AllSlots : owner'[s] = IF s = SlotOf(A) THEN cart ELSE owner[s]
    BY <1>7, <2>1, <2>7
  <2> QED
    BY <1>3, <1>5, <1>8, <2>1, <2>3, <2>6, <2>8
<1>9. CASE ~(A \in Area /\ saving /\ connected)
  <2>1. /\ card' = card /\ owner' = owner
        /\ missed' = IF A \in Area THEN missed \cup {SlotOf(A)} ELSE missed
    BY <1>9 DEF Storing1, WriteThrough
  <2>2. card' \in [id : Owners, bytes : [Area -> Byte]] /\ owner' \in [AllSlots -> Owners]
    BY <2>1 DEF IInv, TypeOK
  <2> QED
    BY <1>3, <1>5, <1>9, <2>1, <2>2
<1> QED
  BY <1>8, <1>9

\* A byte stored brings the call one step on its course.
LEMMA StoreKeeps ==
  ASSUME IInv, NEW A, NEW val, Storing1(A, val)
  PROVE  IInv'
<1>1. /\ A \in Memory /\ val \in Byte
      /\ ram' \in [Memory -> Byte] /\ ram'[A] = val
      /\ \A a \in Memory : a # A => ram'[a] = ram[a]
      /\ card' \in [id : Owners, bytes : [Area -> Byte]] /\ card'.id = card.id
      /\ owner' \in [AllSlots -> Owners]
  BY StoreEffect
<1>2. ~(A \in Area /\ saving /\ connected) =>
        /\ card' = card /\ owner' = owner
        /\ missed' = IF A \in Area THEN missed \cup {SlotOf(A)} ELSE missed
  BY StoreEffect
<1>3. A \in Area /\ saving /\ connected =>
        /\ \A a \in Area : card'.bytes[a] = IF SlotOf(a) = SlotOf(A) THEN ram'[a]
                                            ELSE card.bytes[a]
        /\ \A s \in AllSlots : owner'[s] = IF s = SlotOf(A) THEN cart ELSE owner[s]
        /\ missed' = missed \ {SlotOf(A)}
  BY StoreEffect
<1>4. /\ todo # <<>> /\ todo' = Tail(todo) /\ todo \in Seq(Stores) /\ Storing
      /\ A = todo[1].at /\ val = Value(todo[1])
      /\ UNCHANGED <<connected, cart, saving, answer, half, goal>>
      /\ may' = IF todo' = <<>> THEN Only(card') ELSE may
  BY DEF Storing1, Settle, IInv, TypeOK
<1>5. /\ todo' \in Seq(Stores) /\ Len(todo) \in Nat \ {0} /\ Len(todo') = Len(todo) - 1
      /\ \A i \in 1..(Len(todo) - 1) : todo'[i] = todo[i + 1]
  BY <1>4, TailAt
<1>6. \A i \in 1..Len(todo') : i + 1 \in 1..Len(todo) /\ 1 < i + 1 /\ todo'[i] = todo[i + 1]
  BY <1>5
<1>7. \A j \in 1..Len(todo) : j # 1 => j - 1 \in 1..Len(todo') /\ todo'[j - 1] = todo[j]
  <2>1. \A j \in 1..Len(todo) : j # 1 => j - 1 \in 1..(Len(todo) - 1) /\ (j - 1) + 1 = j
    BY <1>5
  <2> QED
    BY <1>5, <2>1
<1>8. Area \subseteq Memory
  BY DEF Area, Memory, First
<1>9. \A a \in Area : Only(card')[a] = {card'.bytes[a]}
  BY DEF Only
<1>10. TypeOK'
  <2>1. may' \in [Area -> SUBSET Byte]
    BY <1>1, <1>4 DEF Only, IInv, TypeOK
  <2> QED
    BY <1>1, <1>4, <1>5, <2>1 DEF IInv, TypeOK
<1>11. /\ Storing' /\ ~Claiming' /\ ~Loading' /\ ~Claiming /\ ~Loading
  <2>1. IsWrites(todo')
    BY <1>4, <1>6 DEF Storing, IsWrites
  <2>2. ~IsClaim(todo') /\ ~IsLoad(todo')
    BY <1>5, <2>1, Apart, Nothing
  <2>3. ~IsClaim(todo) /\ ~IsLoad(todo)
    BY <1>4, Apart DEF Storing
  <2> QED
    BY <2>1, <2>2, <2>3 DEF Storing, Claiming, Loading
<1>12. saving => cart \in Carts /\ card.id = cart
  BY DEF IInv, Claims
<1>13. Claims'
  <2>1. cart \in Carts
    BY <1>4 DEF IInv, Claims
  <2> QED
    BY <1>1, <1>4, <1>11, <2>1 DEF IInv, Claims
<1>14. Owned'
  <2>1. ASSUME ~half, NEW s \in AllSlots PROVE owner'[s] = card'.id
    <3>1. owner[s] = card.id
      BY <1>11, <2>1 DEF IInv, Owned
    <3> QED
      BY <1>1, <1>2, <1>3, <1>12, <3>1
  <2> QED
    BY <1>4, <1>11, <2>1 DEF Owned
<1>15. Through'
  <2> SUFFICES ASSUME saving, NEW a \in Area
               PROVE  SlotOf(a) \in missed' \/ card'.bytes[a] = ram'[a]
    BY <1>4 DEF Through
  <2>1. SlotOf(a) \in missed \/ card.bytes[a] = ram[a]
    BY DEF IInv, Through
  <2>2. a # A => ram'[a] = ram[a]
    BY <1>1, <1>8
  <2>3. CASE A \in Area /\ connected
    <3>1. CASE SlotOf(a) = SlotOf(A)
      BY <1>3, <2>3, <3>1
    <3>2. CASE SlotOf(a) # SlotOf(A)
      BY <1>3, <2>1, <2>2, <2>3, <3>2
    <3> QED
      BY <3>1, <3>2
  <2>4. CASE ~(A \in Area /\ connected)
    <3>1. card' = card /\ missed' = IF A \in Area THEN missed \cup {SlotOf(A)} ELSE missed
      BY <1>2, <2>4
    <3> QED
      BY <2>1, <2>2, <3>1
  <2> QED
    BY <2>3, <2>4
<1>16. ASSUME saving, connected
       PROVE  Ordered' /\ OnCourse'
  <2>1. /\ \A i, j \in 1..Len(todo) :
             i < j => /\ todo[i].at # todo[j].at
                      /\ todo[j].op = "copy" => todo[i].at # todo[j].arg
        /\ \A i \in 1..Len(todo) : todo[i].at \in Area => Value(todo[i]) = goal[todo[i].at]
        /\ \A a \in Area :
             IF Unfinished(SlotOf(a))
             THEN /\ ram[a] = goal[a] \/ \E i \in 1..Len(todo) : todo[i].at = a
                  /\ {card.bytes[a], ram[a], goal[a]} \subseteq may[a]
             ELSE card.bytes[a] = goal[a] /\ card.bytes[a] \in may[a]
    BY <1>4, <1>16 DEF IInv, Progress, Ordered, OnCourse
  <2>2. Ordered'
    <3> SUFFICES ASSUME NEW i \in 1..Len(todo'), NEW j \in 1..Len(todo'), i < j
                 PROVE  /\ todo'[i].at # todo'[j].at
                        /\ todo'[j].op = "copy" => todo'[i].at # todo'[j].arg
      BY DEF Ordered
    <3>1. i + 1 < j + 1
      BY <1>5
    <3>2. /\ i + 1 \in 1..Len(todo) /\ j + 1 \in 1..Len(todo)
          /\ todo'[i] = todo[i + 1] /\ todo'[j] = todo[j + 1]
      BY <1>6
    <3>3. /\ todo[i + 1].at # todo[j + 1].at
          /\ todo[j + 1].op = "copy" => todo[i + 1].at # todo[j + 1].arg
      BY <2>1, <3>1, <3>2
    <3> QED
      BY <3>2, <3>3
  <2>3. \A i \in 1..Len(todo') :
          todo'[i].at \in Area => Value(todo[i])' = goal'[todo'[i].at]
    <3> SUFFICES ASSUME NEW i \in 1..Len(todo'), todo'[i].at \in Area
                 PROVE  Value(todo[i])' = goal'[todo'[i].at]
      OBVIOUS
    <3>1. i + 1 \in 1..Len(todo) /\ 1 \in 1..Len(todo) /\ 1 < i + 1 /\ todo'[i] = todo[i + 1]
      BY <1>5, <1>6
    <3>2. Value(todo[i + 1]) = goal[todo[i + 1].at]
      BY <2>1, <3>1
    <3>3. Write(todo[i + 1])
      BY <1>4, <3>1 DEF Storing, IsWrites
    <3>4. Value(todo[i])' = IF todo[i + 1].op = "put" THEN todo[i + 1].arg ELSE ram'[todo[i + 1].arg]
      BY <3>1 DEF Value
    <3>5. todo[i + 1].op = "copy" => A # todo[i + 1].arg
      BY <1>4, <2>1, <3>1
    <3>6. todo[i + 1].op = "copy" => ram'[todo[i + 1].arg] = ram[todo[i + 1].arg]
      BY <1>1, <3>3, <3>5 DEF Write
    <3> QED
      BY <1>4, <3>1, <3>2, <3>3, <3>4, <3>6 DEF Value, Write
  <2>4. \A s : Unfinished(s)' => Unfinished(s)
    BY <1>6 DEF Unfinished, ToStore
  <2>5. 1 \in 1..Len(todo)
    BY <1>5
  <2>6. A \in Area => val = goal[A] /\ Unfinished(SlotOf(A))
    BY <1>4, <2>1, <2>5 DEF Unfinished, ToStore
  <2>7. \A a \in Area : ram[a] = goal[a] =>  ram'[a] = goal[a]
    BY <1>1, <1>8, <2>6
  <2>8. ASSUME NEW a \in Area, NEW i \in 1..Len(todo), todo[i].at = a
        PROVE  ram'[a] = goal[a] \/ (\E j \in 1..Len(todo') : todo'[j].at = a /\ Unfinished(SlotOf(a))')
    <3>1. CASE i = 1
      BY <1>1, <1>4, <2>6, <2>8, <3>1
    <3>2. CASE i # 1
      <4>1. i - 1 \in 1..Len(todo') /\ todo'[i - 1].at = a
        BY <1>7, <2>8, <3>2
      <4> QED
        BY <4>1 DEF Unfinished, ToStore
    <3> QED
      BY <3>1, <3>2
  <2>9. ASSUME NEW a \in Area, Unfinished(SlotOf(a))'
        PROVE  /\ ram'[a] = goal'[a] \/ \E j \in 1..Len(todo') : todo'[j].at = a
               /\ {card'.bytes[a], ram'[a], goal'[a]} \subseteq may'[a]
    <3>1. /\ ram[a] = goal[a] \/ \E i \in 1..Len(todo) : todo[i].at = a
          /\ {card.bytes[a], ram[a], goal[a]} \subseteq may[a]
      BY <2>1, <2>4, <2>9
    <3>2. may' = may
      <4>1. todo' # <<>>
        BY <2>9, Nothing DEF Unfinished
      <4> QED
        BY <1>4, <4>1
    <3>3. ram'[a] = ram[a] \/ ram'[a] = goal[a]
      BY <1>1, <1>8, <2>6
    <3>4. card'.bytes[a] = card.bytes[a] \/ card'.bytes[a] = ram'[a]
      BY <1>2, <1>3
    <3>5. {card'.bytes[a], ram'[a], goal'[a]} \subseteq may'[a]
      BY <1>4, <3>1, <3>2, <3>3, <3>4
    <3>6. ram'[a] = goal'[a] \/ \E j \in 1..Len(todo') : todo'[j].at = a
      BY <1>4, <2>7, <2>8, <3>1
    <3> QED
      BY <3>5, <3>6
  <2>10. ASSUME NEW a \in Area, ~Unfinished(SlotOf(a))'
         PROVE  card'.bytes[a] = goal'[a] /\ card'.bytes[a] \in may'[a]
    <3>1. CASE ~Unfinished(SlotOf(a))
      <4>1. card.bytes[a] = goal[a] /\ card.bytes[a] \in may[a]
        BY <2>1, <3>1
      <4>2. A \notin Area \/ SlotOf(a) # SlotOf(A)
        BY <2>6, <3>1
      <4>3. card'.bytes[a] = card.bytes[a]
        BY <1>2, <1>3, <4>2
      <4> QED
        BY <1>4, <1>9, <4>1, <4>3
    <3>2. CASE Unfinished(SlotOf(a))
      <4>1. /\ ram[a] = goal[a] \/ \E i \in 1..Len(todo) : todo[i].at = a
            /\ {card.bytes[a], ram[a], goal[a]} \subseteq may[a]
        BY <2>1, <3>2
      <4>2. ram'[a] = goal[a]
        BY <2>7, <2>8, <2>10, <4>1
      <4>3. A \in Area /\ SlotOf(a) = SlotOf(A)
        <5>1. PICK i \in 1..Len(todo) : todo[i].at \in Area /\ SlotOf(todo[i].at) = SlotOf(a)
          BY <3>2 DEF Unfinished, ToStore
        <5>2. i # 1 => Unfinished(SlotOf(a))'
          BY <1>7, <5>1 DEF Unfinished, ToStore
        <5> QED
          BY <1>4, <2>10, <5>1, <5>2
      <4>4. card'.bytes[a] = ram'[a]
        BY <1>3, <1>16, <4>3
      <4> QED
        BY <1>4, <1>9, <4>1, <4>2, <4>4
    <3> QED
      BY <3>1, <3>2
  <2> QED
    BY <2>2, <2>3, <2>9, <2>10 DEF OnCourse
<1>17. ASSUME ~(saving /\ connected)
       PROVE  Untouched'
  <2>1. Untouched /\ card' = card
    BY <1>2, <1>4, <1>17 DEF IInv, Progress
  <2> QED
    BY <1>4, <1>9, <2>1 DEF Untouched
<1>18. Progress'
  BY <1>4, <1>11, <1>16, <1>17 DEF Progress
<1> QED
  BY <1>10, <1>11, <1>13, <1>14, <1>15, <1>18 DEF IInv, Shape

\* A store of a byte, to the memory and through to the card.
LEMMA StoreByteKeeps ==
  ASSUME IInv, StoreByte
  PROVE  IInv'
<1>1. PICK val : /\ todo # <<>> /\ todo' = Tail(todo) /\ Head(todo).op \in {"put", "copy"}
                 /\ val = Value(Head(todo)) /\ WriteThrough(Head(todo).at, val) /\ Settle
                 /\ UNCHANGED <<connected, cart, saving, answer, writes, half, goal>>
  BY DEF StoreByte, Take, Value
<1>2. Head(todo) = todo[1]
  BY <1>1, TailAt DEF IInv, TypeOK
<1>3. Storing
  BY <1>1, <1>2 DEF IInv, Shape, Claiming, Loading, IsClaim, IsLoad
<1>4. Storing1(todo[1].at, val)
  BY <1>1, <1>2, <1>3 DEF Storing1
<1> QED
  BY <1>4, StoreKeeps

-----------------------------------------------------------------------------
(***************************************************************************)
(* The claim of a card and the load.                                       *)
(***************************************************************************)
\* A sequence with something before and something behind it.
Frame(a, m, z) == <<a>> \o m \o <<z>>

\* A list with an entry put before it and one behind it.
LEMMA Framed ==
  ASSUME NEW S, NEW a \in S, NEW z \in S, NEW m \in Seq(S)
  PROVE  /\ Frame(a, m, z) \in Seq(S) /\ Len(Frame(a, m, z)) = Len(m) + 2
         /\ Frame(a, m, z)[1] = a /\ Frame(a, m, z)[Len(m) + 2] = z
         /\ \A i \in 1..Len(m) : Frame(a, m, z)[i + 1] = m[i]
<1> DEFINE list == Frame(a, m, z)
<1> DEFINE front == <<a>> \o m
<1>1. /\ front \in Seq(S) /\ Len(front) = Len(m) + 1 /\ Len(m) \in Nat
      /\ front[1] = a /\ \A i \in 1..Len(m) : front[i + 1] = m[i]
  OBVIOUS
<1>2. list = front \o <<z>>
  BY DEF Frame
<1> HIDE DEF front, list
<1>3. list \in Seq(S) /\ Len(list) = Len(front) + 1 /\ list[Len(front) + 1] = z
  BY <1>1, <1>2
<1>4. \A i \in 1..Len(front) : list[i] = front[i]
  BY <1>1, <1>2
<1>5. (Len(m) + 1) + 1 = Len(m) + 2 /\ 1 \in 1..Len(front)
      /\ \A i \in 1..Len(m) : i + 1 \in 1..Len(front)
  BY <1>1
<1> QED
  BY <1>1, <1>3, <1>4, <1>5 DEF list

\* What a claim has to do, from the id to the load.
ClaimStores == Frame(Store("claim", 0, 0), Cleared, Store("load", 0, "new"))

\* The stores of a claim: the id, then the bytes of every slot.
LEMMA ClaimList ==
  /\ ClaimStores \in Seq(Stores) /\ ClaimStores # <<>>
  /\ IsClaim(ClaimStores) /\ ClaimStores[1].op = "claim"
  /\ \A s \in AllSlots : ToClear(ClaimStores, s)
<1> DEFINE claim == Store("claim", 0, 0)
           load  == Store("load", 0, "new")
           list  == Frame(claim, Cleared, load)
<1>1. Slots \in Nat \ {0}
  BY CartDataAssumption
<1>2. claim = [op |-> "claim", at |-> 0, arg |-> 0] /\ load = [op |-> "load", at |-> 0, arg |-> "new"]
  BY DEF Store
<1>3. claim \in Stores /\ load \in Stores
  BY <1>2 DEF Stores, Byte
<1>4. \A s \in 1..Slots : Cleared[s] = [op |-> "clear", at |-> s - 1, arg |-> 0]
  BY DEF Cleared, Store
<1>5. Cleared \in [1..Slots -> Stores]
  <2>1. \A s \in 1..Slots : [op |-> "clear", at |-> s - 1, arg |-> 0] \in Stores
    BY DEF Stores, Byte
  <2>2. Cleared = [s \in 1..Slots |-> Cleared[s]]
    BY DEF Cleared
  <2> QED
    BY <1>4, <2>1, <2>2
<1>6. Cleared \in Seq(Stores) /\ Len(Cleared) = Slots
  BY <1>1, <1>5, OneToN
<1> HIDE DEF claim, load
<1>7. /\ list \in Seq(Stores) /\ Len(list) = Len(Cleared) + 2 /\ list[1] = claim
      /\ list[Len(Cleared) + 2] = load /\ \A i \in 1..Len(Cleared) : list[i + 1] = Cleared[i]
  <2>1. Cleared \in Seq(Stores)
    BY <1>6
  <2> QED
    BY <1>3, <2>1, Framed
<1> HIDE DEF list
<1>8. /\ list \in Seq(Stores) /\ Len(list) = Slots + 2 /\ list[1] = claim /\ list[Slots + 2] = load
      /\ \A s \in 1..Slots : list[s + 1] = Cleared[s]
  BY <1>6, <1>7
<1>9. list[1].op = "claim" /\ list[Slots + 2].op = "load" /\ list[Slots + 2].arg = "new"
  BY <1>2, <1>8
<1>10. \A s \in 1..Slots : list[s + 1].op = "clear" /\ list[s + 1].at = s - 1
  <2> SUFFICES ASSUME NEW s \in 1..Slots
               PROVE  list[s + 1].op = "clear" /\ list[s + 1].at = s - 1
    OBVIOUS
  <2> DEFINE x == list[s + 1]
  <2>1. x = [op |-> "clear", at |-> s - 1, arg |-> 0]
    BY <1>4, <1>8
  <2> HIDE DEF x
  <2>2. x.op = "clear" /\ x.at = s - 1
    BY <2>1
  <2> QED
    BY <2>2 DEF x
<1>11. ASSUME NEW i \in 1..(Len(list) - 1), i # 1
       PROVE  list[i].op = "clear" /\ list[i].at \in AllSlots
  <2>1. i - 1 \in 1..Slots /\ (i - 1) + 1 = i /\ (i - 1) - 1 \in AllSlots
    BY <1>1, <1>8, <1>11 DEF AllSlots
  <2> QED
    BY <1>10, <2>1
<1>12. IsClaim(list)
  BY <1>1, <1>8, <1>9, <1>11 DEF IsClaim
<1>13. ASSUME NEW s \in AllSlots PROVE ToClear(list, s)
  <2>1. s + 1 \in 1..Slots /\ (s + 1) + 1 \in 1..Len(list) /\ (s + 1) - 1 = s
    BY <1>1, <1>8 DEF AllSlots
  <2> QED
    BY <1>10, <2>1 DEF ToClear
<1>14. list # <<>>
  BY <1>12 DEF IsClaim
<1>15. ClaimStores = list
  BY DEF ClaimStores, list, claim, load
<1> QED
  BY <1>8, <1>9, <1>12, <1>13, <1>14, <1>15

\* The first two operations of a claim: it goes on as one.
LEMMA ClaimTail ==
  ASSUME NEW list \in Seq(Stores), IsClaim(list), list[1].op # "load"
  PROVE  /\ IsClaim(Tail(list)) /\ Tail(list) \in Seq(Stores) /\ Tail(list) # <<>>
         /\ Tail(list)[1].op # "claim"
         /\ \A s : ToClear(Tail(list), s) => ToClear(list, s)
         /\ \A s : ToClear(list, s) =>
              ToClear(Tail(list), s) \/ (list[1].op = "clear" /\ list[1].at = s)
<1>1. list # <<>>
  BY DEF IsClaim
<1> DEFINE rest == Tail(list)
           n == Len(list)
<1>2. /\ rest \in Seq(Stores) /\ n \in Nat \ {0} /\ Len(rest) = n - 1
      /\ \A i \in 1..(n - 1) : rest[i] = list[i + 1]
  BY <1>1, TailAt
<1>3. n # 1
  BY DEF IsClaim
<1>0. \A i \in 1..(n - 1) : \/ list[i].op = "claim" /\ i = 1
                            \/ list[i].op = "clear" /\ list[i].at \in AllSlots
  BY DEF IsClaim
<1> HIDE DEF rest, n
<1>4. Len(rest) \in Nat \ {0} /\ rest # <<>>
  BY <1>2, <1>3
<1>5. rest[Len(rest)] = list[n]
  <2>1. n - 1 \in 1..(n - 1) /\ (n - 1) + 1 = n
    BY <1>2, <1>3
  <2> QED
    BY <1>2, <2>1
<1>6. rest[Len(rest)].op = "load" /\ rest[Len(rest)].arg = "new"
  BY <1>5 DEF IsClaim, n
<1>7. ASSUME NEW i \in 1..(Len(rest) - 1)
      PROVE  rest[i].op = "clear" /\ rest[i].at \in AllSlots
  <2>1. i \in 1..(n - 1) /\ i + 1 \in 1..(n - 1) /\ i + 1 # 1
    BY <1>2
  <2> QED
    BY <1>0, <1>2, <2>1
<1>8. IsClaim(rest)
  BY <1>4, <1>6, <1>7 DEF IsClaim
<1>9. rest[1].op # "claim"
  <2>1. CASE Len(rest) = 1
    BY <1>6, <2>1
  <2>2. CASE Len(rest) # 1
    <3>1. \A k \in Nat \ {0} : k # 1 => 1 \in 1..(k - 1)
      OBVIOUS
    <3>2. 1 \in 1..(Len(rest) - 1)
      BY <1>4, <2>2, <3>1, Zenon
    <3> QED
      BY <1>7, <3>2
  <2> QED
    BY <2>1, <2>2
<1>10. ASSUME NEW s, ToClear(rest, s) PROVE ToClear(list, s)
  <2>1. PICK i \in 1..Len(rest) : rest[i].op = "clear" /\ rest[i].at = s
    BY <1>10 DEF ToClear
  <2>2. i + 1 \in 1..n /\ list[i + 1] = rest[i]
    BY <1>2
  <2> QED
    BY <2>1, <2>2 DEF ToClear, n
<1>11. ASSUME NEW s, ToClear(list, s)
       PROVE  ToClear(rest, s) \/ (list[1].op = "clear" /\ list[1].at = s)
  <2>1. PICK i \in 1..n : list[i].op = "clear" /\ list[i].at = s
    BY <1>11 DEF ToClear, n
  <2>2. CASE i = 1
    BY <2>1, <2>2
  <2>3. CASE i # 1
    <3>1. i - 1 \in 1..(n - 1) /\ (i - 1) + 1 = i
      BY <1>2, <2>3
    <3>2. rest[i - 1] = list[i] /\ i - 1 \in 1..Len(rest)
      BY <1>2, <3>1
    <3> QED
      BY <2>1, <3>2 DEF ToClear
  <2> QED
    BY <2>2, <2>3
<1> QED
  BY <1>2, <1>4, <1>8, <1>9, <1>10, <1>11 DEF rest

\* cartdata() reads the id and claims the card or loads from it.
LEMMA CartdataKeeps ==
  ASSUME IInv, Cartdata
  PROVE  IInv'
<1>1. /\ todo = <<>> /\ cart # 0 /\ cart \in Carts
      /\ UNCHANGED <<card, connected, cart, ram, saving, writes, owner, half, missed>>
  BY DEF Cartdata, Idle, IInv, TypeOK, Owners
<1>2. /\ ~Claiming /\ ~Loading /\ Untouched
      /\ ~half => \A s \in AllSlots : owner[s] = card.id
  BY <1>1, IdleFacts
<1>3. Through'
  BY <1>1 DEF IInv, Through
<1>4. CASE ~connected
  <2>1. UNCHANGED <<todo, goal, may>> /\ answer' = "new"
    BY <1>4 DEF Cartdata
  <2>2. TypeOK'
    BY <1>1, <2>1 DEF IInv, TypeOK
  <2>3. Shape' /\ Progress' /\ ~Claiming' /\ ~Loading'
    BY <1>1, <1>2, <2>1, Ended DEF Untouched
  <2>4. Claims' /\ Owned'
    BY <1>1, <1>2, <2>1, <2>3 DEF IInv, Claims, Owned
  <2> QED
    BY <1>3, <2>2, <2>3, <2>4 DEF IInv
<1>5. CASE connected /\ card.id = cart
  <2>1. /\ UNCHANGED <<answer, goal, may>> /\ todo' = <<Store("load", 0, "kept")>>
    BY <1>5 DEF Cartdata
  <2>2. Store("load", 0, "kept") = [op |-> "load", at |-> 0, arg |-> "kept"]
    BY DEF Store
  <2>3. [op |-> "load", at |-> 0, arg |-> "kept"] \in Stores
    BY DEF Stores
  <2>4. /\ todo' \in Seq(Stores) /\ todo' # <<>> /\ Len(todo') = 1
        /\ todo'[1] = [op |-> "load", at |-> 0, arg |-> "kept"]
    BY <2>1, <2>2, <2>3
  <2>5. TypeOK'
    BY <1>1, <2>1, <2>4 DEF IInv, TypeOK
  <2>6. IsLoad(todo')
    BY <2>4 DEF IsLoad
  <2>7. Loading' /\ ~Claiming' /\ ~Storing'
    BY <2>4, <2>6, Apart DEF Loading, Claiming, Storing
  <2>8. Claims' /\ Owned'
    BY <1>1, <1>2, <1>5, <2>1, <2>7 DEF IInv, Claims, Owned
  <2>9. Progress'
    BY <1>1, <1>2, <2>1, <2>7 DEF Progress, Untouched
  <2> QED
    BY <1>3, <2>5, <2>7, <2>8, <2>9 DEF IInv, Shape
<1>6. CASE connected /\ card.id # cart
  <2>1. /\ UNCHANGED answer
        /\ todo' = <<Store("claim", 0, 0)>> \o Cleared \o <<Store("load", 0, "new")>>
        /\ goal' = [a \in Area |-> 0] /\ may' = [a \in Area |-> {card.bytes[a], 0}]
    BY <1>6 DEF Cartdata
  <2>2. /\ todo' \in Seq(Stores) /\ todo' # <<>> /\ IsClaim(todo') /\ todo'[1].op = "claim"
        /\ \A s \in AllSlots : ToClear(todo', s)
    BY <2>1, ClaimList DEF ClaimStores, Frame
  <2>3. TypeOK'
    <3>1. goal' \in [Area -> Byte] /\ may' \in [Area -> SUBSET Byte]
      BY <2>1 DEF IInv, TypeOK, Byte
    <3> QED
      BY <1>1, <2>2, <3>1 DEF IInv, TypeOK
  <2>4. Claiming' /\ ~Loading' /\ ~Storing' /\ Unclaimed'
    BY <2>2, Apart DEF Loading, Claiming, Storing, Unclaimed
  <2>5. \A s \in AllSlots : Uncleared(s)'
    BY <2>2 DEF Uncleared
  <2>6. ~saving
    BY <1>6 DEF IInv, Claims
  <2>7. Claims' /\ Owned'
    BY <1>1, <1>2, <1>6, <2>1, <2>4, <2>5, <2>6 DEF IInv, Claims, Owned
  <2>8. Progress'
    <3>1. \A a \in Area : goal'[a] = 0 /\ {card'.bytes[a], 0} \subseteq may'[a]
      BY <1>1, <2>1
    <3>2. \A a \in Area : Uncleared(SlotOf(a))'
      BY <2>5, SlotIn
    <3> QED
      BY <2>4, <3>1, <3>2 DEF Progress
  <2> QED
    BY <1>3, <2>3, <2>4, <2>7, <2>8 DEF IInv, Shape
<1> QED
  BY <1>4, <1>5, <1>6 DEF IInv, TypeOK

\* The first operation of a claim that is not the load is the id or a slot.
LEMMA ClaimHead ==
  ASSUME NEW list \in Seq(Stores), IsClaim(list)
  PROVE  /\ list[1].op = "load" => Len(list) = 1
         /\ list[1].op = "clear" => list[1].at \in AllSlots
<1>1. Len(list) \in Nat \ {0}
  BY DEF IsClaim
<1>2. \A n \in Nat \ {0} : n # 1 => 1 \in 1..(n - 1)
  OBVIOUS
<1>3. CASE Len(list) = 1
  BY <1>3 DEF IsClaim
<1>4. CASE Len(list) # 1
  <2>1. 1 \in 1..(Len(list) - 1)
    BY <1>1, <1>2, <1>4, Zenon
  <2>2. \/ list[1].op = "claim"
        \/ list[1].op = "clear" /\ list[1].at \in AllSlots
    BY <2>1 DEF IsClaim
  <2> QED
    BY <2>2
<1> QED
  BY <1>3, <1>4

\* The id is written: every slot is still to be cleared.
LEMMA ClaimKeeps ==
  ASSUME IInv, Claim
  PROVE  IInv'
<1>1. /\ todo # <<>> /\ Head(todo).op = "claim" /\ todo' = Tail(todo) /\ todo \in Seq(Stores)
      /\ card' = [card EXCEPT !.id = cart]
      /\ UNCHANGED <<connected, cart, ram, saving, answer, owner, half, missed, goal, may>>
  BY DEF Claim, Take, console, history, IInv, TypeOK
<1>2. todo[1].op = "claim"
  BY <1>1, TailAt
<1>3. Claiming /\ Unclaimed
  <2>1. ~Storing /\ ~Loading
    BY <1>1, <1>2, Apart DEF Storing, Loading, IsLoad
  <2> QED
    BY <1>2, <2>1 DEF IInv, Shape, Unclaimed
<1>4. /\ IsClaim(Tail(todo)) /\ Tail(todo) \in Seq(Stores) /\ Tail(todo) # <<>>
      /\ Tail(todo)[1].op # "claim" /\ \A s : ToClear(todo, s) => ToClear(Tail(todo), s)
  BY <1>1, <1>2, <1>3, ClaimTail DEF Claiming
<1>5. Claiming' /\ ~Storing' /\ ~Loading' /\ ~Unclaimed'
  BY <1>1, <1>4, Apart DEF Claiming, Storing, Loading, Unclaimed
<1>6. /\ ~saving /\ cart \in Carts /\ \A s \in AllSlots : Uncleared(s)
  BY <1>1, <1>3 DEF IInv, Claims
<1>7. \A s \in AllSlots : Uncleared(s)'
  BY <1>1, <1>4, <1>6 DEF Uncleared
<1>8. card' = [id |-> cart, bytes |-> card.bytes] /\ card.bytes \in [Area -> Byte]
  BY <1>1 DEF IInv, TypeOK
<1>9. card'.id = cart /\ card'.bytes = card.bytes /\ card' \in [id : Owners, bytes : [Area -> Byte]]
  BY <1>6, <1>8 DEF Owners
<1>10. TypeOK'
  BY <1>1, <1>4, <1>9 DEF IInv, TypeOK
<1>11. Claims' /\ Owned' /\ Through'
  BY <1>1, <1>5, <1>6, <1>7, <1>9 DEF IInv, Claims, Owned, Through
<1>12. Progress'
  <2>1. \A a \in Area : goal[a] = 0 /\ {card.bytes[a], 0} \subseteq may[a]
    BY <1>3 DEF IInv, Progress
  <2>2. \A a \in Area : Uncleared(SlotOf(a))'
    BY <1>7, SlotIn
  <2> QED
    BY <1>1, <1>5, <1>9, <2>1, <2>2 DEF Progress
<1> QED
  BY <1>5, <1>10, <1>11, <1>12 DEF IInv, Shape

\* A slot is cleared, and is this cart's.
LEMMA ClearKeeps ==
  ASSUME IInv, Clear
  PROVE  IInv'
<1> DEFINE S == todo[1].at
<1>1. /\ todo # <<>> /\ Head(todo).op = "clear" /\ todo' = Tail(todo) /\ todo \in Seq(Stores)
      /\ UNCHANGED <<connected, cart, ram, saving, answer, half, missed, goal, may>>
  BY DEF Clear, Take, console, IInv, TypeOK
<1>2. todo[1] = Head(todo) /\ todo[1].op = "clear"
  BY <1>1, TailAt
<1>3. /\ card' = [card EXCEPT !.bytes = [a \in Area |-> IF SlotOf(a) = S THEN 0 ELSE @[a]]]
      /\ owner' = [owner EXCEPT ![S] = cart]
  BY <1>2 DEF Clear
<1>4. Claiming /\ ~Unclaimed
  <2>1. ~Storing /\ ~Loading
    BY <1>1, <1>2, Apart DEF Storing, Loading, IsLoad
  <2> QED
    BY <1>2, <2>1 DEF IInv, Shape, Unclaimed
<1>5. S \in AllSlots
  BY <1>1, <1>2, <1>4, ClaimHead DEF Claiming
<1>6. /\ IsClaim(Tail(todo)) /\ Tail(todo) \in Seq(Stores) /\ Tail(todo) # <<>>
      /\ Tail(todo)[1].op # "claim"
      /\ \A s : ToClear(todo, s) => ToClear(Tail(todo), s) \/ s = S
  BY <1>1, <1>2, <1>4, ClaimTail DEF Claiming
<1> HIDE DEF S
<1>7. Claiming' /\ ~Storing' /\ ~Loading' /\ ~Unclaimed'
  BY <1>1, <1>6, Apart DEF Claiming, Storing, Loading, Unclaimed
<1>8. ~saving /\ cart \in Carts /\ card.id = cart
  BY <1>1, <1>4 DEF IInv, Claims
<1>9. \A s : Uncleared(s) => Uncleared(s)' \/ s = S
  BY <1>1, <1>6 DEF Uncleared
<1>10. card = [id |-> card.id, bytes |-> card.bytes] /\ card.bytes \in [Area -> Byte]
       /\ card.id \in Owners /\ owner \in [AllSlots -> Owners]
  BY DEF IInv, TypeOK
<1>11. card' = [id |-> card.id,
                bytes |-> [a \in Area |-> IF SlotOf(a) = S THEN 0 ELSE card.bytes[a]]]
  BY <1>3, <1>10
<1>12. /\ card'.id = card.id
       /\ card'.bytes = [a \in Area |-> IF SlotOf(a) = S THEN 0 ELSE card.bytes[a]]
  BY <1>11
<1>13. /\ \A a \in Area : card'.bytes[a] = IF SlotOf(a) = S THEN 0 ELSE card.bytes[a]
       /\ card'.bytes \in [Area -> Byte]
  BY <1>10, <1>12 DEF Byte
<1>14. card' \in [id : Owners, bytes : [Area -> Byte]]
  <2>1. card' = [id |-> card'.id, bytes |-> card'.bytes]
    BY <1>11, <1>12
  <2> QED
    BY <1>10, <1>12, <1>13, <2>1
<1>15. /\ owner' \in [AllSlots -> Owners]
       /\ \A s \in AllSlots : owner'[s] = IF s = S THEN cart ELSE owner[s]
  BY <1>3, <1>5, <1>8, <1>10 DEF Owners
<1>16. TypeOK'
  BY <1>1, <1>6, <1>14, <1>15 DEF IInv, TypeOK
<1>17. Claims' /\ Through'
  BY <1>1, <1>7, <1>8, <1>12 DEF IInv, Claims, Through
<1>18. Owned'
  <2>1. ASSUME NEW s \in AllSlots PROVE owner'[s] = card'.id \/ Uncleared(s)'
    <3>1. owner[s] = card.id \/ Uncleared(s)
      BY <1>4 DEF IInv, Owned
    <3> QED
      BY <1>8, <1>9, <1>12, <1>15, <3>1
  <2> QED
    BY <1>7, <2>1 DEF Owned
<1>19. Progress'
  <2>1. \A a \in Area : /\ goal[a] = 0 /\ {card.bytes[a], 0} \subseteq may[a]
                        /\ card.bytes[a] = 0 \/ Uncleared(SlotOf(a))
    BY <1>4 DEF IInv, Progress
  <2>2. \A a \in Area : {card'.bytes[a], 0} \subseteq may[a]
    BY <1>13, <2>1
  <2>3. \A a \in Area : card'.bytes[a] = 0 \/ Uncleared(SlotOf(a))'
    BY <1>9, <1>13, <2>1
  <2> QED
    BY <1>1, <1>7, <2>1, <2>2, <2>3 DEF Progress
<1> QED
  BY <1>7, <1>16, <1>17, <1>18, <1>19 DEF IInv, Shape

\* The load ends the call: the memory is what the card has.
LEMMA LoadKeeps ==
  ASSUME IInv, Load
  PROVE  IInv'
<1>1. /\ todo # <<>> /\ Head(todo).op = "load" /\ todo' = Tail(todo) /\ todo \in Seq(Stores)
      /\ ram' = [a \in Memory |-> IF a \in Area THEN card.bytes[a] ELSE ram[a]]
      /\ saving' = TRUE /\ answer' = Head(todo).arg /\ half' = (half /\ answer' = "kept")
      /\ missed' = {} /\ may' = Only(card)
      /\ UNCHANGED <<card, connected, cart, writes, owner, goal>>
  BY DEF Load, Take, IInv, TypeOK
<1>2. todo[1] = Head(todo) /\ todo[1].op = "load"
  BY <1>1, TailAt
<1>3. ~Storing
  BY <1>1, <1>2, Apart DEF Storing
<1>4. Len(todo) = 1 /\ todo' = <<>>
  <2>1. Len(todo) = 1
    BY <1>1, <1>2, <1>3, ClaimHead DEF IInv, Shape, Claiming, Loading, IsLoad
  <2>2. Len(Tail(todo)) = 0 /\ Tail(todo) \in Seq(Stores)
    BY <1>1, <2>1, TailAt
  <2> QED
    BY <1>1, <2>1, <2>2
<1>5. \A s : ~Uncleared(s)
  BY <1>2, <1>4 DEF Uncleared, ToClear
<1>6. cart \in Carts /\ card.id = cart
  BY <1>1, <1>2, <1>3 DEF IInv, Shape, Claims, Unclaimed
<1>7. \A a \in Area : card.bytes[a] = goal[a]
  BY <1>3, <1>5 DEF IInv, Shape, Progress, Untouched
<1>8. Area \subseteq Memory
  BY DEF Area, Memory, First
<1>9. TypeOK'
  <2>1. ram' \in [Memory -> Byte]
    BY <1>1 DEF IInv, TypeOK
  <2>2. may' \in [Area -> SUBSET Byte]
    BY <1>1 DEF Only, IInv, TypeOK
  <2>3. todo' \in Seq(Stores)
    BY <1>1, TailAt
  <2>4. half' \in BOOLEAN
    BY <1>1 DEF IInv, TypeOK
  <2> QED
    BY <1>1, <2>1, <2>2, <2>3, <2>4 DEF IInv, TypeOK
<1>10. Shape' /\ Progress' /\ ~Claiming' /\ ~Loading'
  <2>1. \A a \in Area : card'.bytes[a] = goal'[a] /\ card'.bytes[a] \in may'[a]
    BY <1>1, <1>7 DEF Only
  <2> QED
    BY <1>4, <2>1, Ended
<1>11. Claims'
  BY <1>1, <1>4, <1>6, <1>10 DEF Claims
<1>12. Owned'
  <2>1. ASSUME ~half', NEW s \in AllSlots PROVE owner[s] = card.id
    <3>1. CASE Claiming
      <4>1. ~Unclaimed
        BY <1>2 DEF Unclaimed
      <4> QED
        BY <1>5, <3>1, <4>1 DEF IInv, Owned
    <3>2. CASE Loading
      <4>1. answer' = "kept"
        BY <1>1, <1>2, <3>2 DEF Loading, IsLoad
      <4>2. ~half
        BY <1>1, <2>1, <4>1
      <4> QED
        BY <1>5, <4>2 DEF IInv, Owned
    <3> QED
      BY <1>3, <3>1, <3>2 DEF IInv, Shape
  <2> QED
    BY <1>1, <1>10, <2>1 DEF Owned
<1>13. Through'
  BY <1>1, <1>8 DEF Through
<1> QED
  BY <1>9, <1>10, <1>11, <1>12, <1>13 DEF IInv

-----------------------------------------------------------------------------
(***************************************************************************)
(* The console and its player.                                             *)
(***************************************************************************)
\* Where a session ends or starts: nothing of it is left but the card.
LEMMA RestartKeeps ==
  ASSUME IInv, cart' \in Owners, ram' = Zeros, saving' = FALSE, answer' = "none",
         todo' = <<>>, half' \in BOOLEAN,
         goal' = card.bytes, may' = Only(card), UNCHANGED <<card, connected, owner>>,
         ~half' => \A s \in AllSlots : owner[s] = card.id
  PROVE  IInv'
<1>1. TypeOK'
  <2>1. ram' \in [Memory -> Byte]
    BY DEF Zeros, Byte
  <2>2. may' \in [Area -> SUBSET Byte] /\ goal' \in [Area -> Byte]
    BY DEF Only, IInv, TypeOK
  <2>3. \A list : list = <<>> => list \in Seq(Stores)
    OBVIOUS
  <2>4. todo' \in Seq(Stores) /\ saving' \in BOOLEAN
    BY <2>3
  <2> QED
    BY <2>1, <2>2, <2>4 DEF IInv, TypeOK
<1>2. Shape' /\ Progress' /\ ~Claiming' /\ ~Loading'
  <2>1. \A a \in Area : card'.bytes[a] = goal'[a] /\ card'.bytes[a] \in may'[a]
    BY DEF Only
  <2> QED
    BY <2>1, Ended
<1>3. Claims' /\ Owned' /\ Through'
  BY <1>2 DEF Claims, Owned, Through
<1> QED
  BY <1>1, <1>2, <1>3 DEF IInv

\* A cut leaves the card as the stores made so far left it.
LEMMA PowerCutKeeps ==
  ASSUME IInv, PowerCut
  PROVE  IInv'
<1>1. ASSUME ~half', NEW s \in AllSlots PROVE owner[s] = card.id
  <2>1. ~half /\ ~(Clearing /\ card.id = cart)
    BY <1>1 DEF PowerCut
  <2>2. owner[s] = card.id \/ (Claiming /\ ~Unclaimed /\ Uncleared(s))
    BY <2>1 DEF IInv, Owned
  <2>3. Claiming /\ ~Unclaimed => card.id = cart
    BY DEF IInv, Claims
  <2>4. Uncleared(s) => Clearing
    BY DEF Uncleared, ToClear, Clearing, IInv, TypeOK
  <2> QED
    BY <2>1, <2>2, <2>3, <2>4
<1>2. cart' \in Owners /\ half' \in BOOLEAN
  BY DEF PowerCut, Owners, IInv, TypeOK
<1> QED
  BY <1>1, <1>2, RestartKeeps DEF PowerCut

\* The power comes on with another cart, or the same.
LEMMA StartKeeps ==
  ASSUME IInv, NEW c \in Carts, Start(c)
  PROVE  IInv'
<1>0. half \in BOOLEAN /\ half' = half
  BY DEF Start, IInv, TypeOK
<1>1. ~half' => \A s \in AllSlots : owner[s] = card.id
  <2>1. ~half => \A s \in AllSlots : owner[s] = card.id
    BY IdleFacts DEF Start
  <2> QED
    BY <1>0, <2>1
<1>2. cart' \in Owners /\ half' \in BOOLEAN
  BY <1>0 DEF Start, Owners
<1> QED
  BY <1>1, <1>2, RestartKeeps DEF Start

\* The card is taken out between two calls.
LEMMA UnplugKeeps ==
  ASSUME IInv, Unplug
  PROVE  IInv'
<1>1. /\ todo = <<>> /\ connected' = ~connected
      /\ UNCHANGED <<card, cart, ram, saving, answer, writes, todo, owner, half, missed, goal, may>>
  BY DEF Unplug, Idle, console, history
<1>2. ~Claiming /\ ~Loading /\ Untouched
  BY <1>1, IdleFacts
<1>3. TypeOK'
  <2>1. connected' \in BOOLEAN
    BY <1>1
  <2> QED
    BY <1>1, <2>1 DEF IInv, TypeOK
<1>4. Shape' /\ Progress' /\ ~Claiming' /\ ~Loading'
  BY <1>1, <1>2, Ended DEF Untouched
<1>5. Claims' /\ Owned' /\ Through'
  BY <1>1, <1>2, <1>4 DEF IInv, Claims, Owned, Through
<1> QED
  BY <1>3, <1>4, <1>5 DEF IInv

-----------------------------------------------------------------------------
(***************************************************************************)
(* The invariant, and what follows from it.                                *)
(***************************************************************************)
\* A card that is new, with the power off.
LEMMA Initial == Init => IInv
<1> SUFFICES ASSUME Init PROVE IInv
  OBVIOUS
<1>1. /\ card = [id |-> 0, bytes |-> [a \in Area |-> 0]] /\ todo = <<>> /\ saving = FALSE
      /\ connected \in BOOLEAN /\ cart = 0 /\ ram = Zeros /\ answer = "none"
      /\ owner = [s \in AllSlots |-> 0] /\ half = FALSE
      /\ goal = card.bytes /\ may = Only(card)
  BY DEF Init
<1>2. card.id = 0 /\ card.bytes = [a \in Area |-> 0]
  BY <1>1
<1>3. TypeOK
  <2>1. card \in [id : Owners, bytes : [Area -> Byte]]
    BY <1>1 DEF Owners, Byte
  <2>2. ram \in [Memory -> Byte] /\ goal \in [Area -> Byte] /\ owner \in [AllSlots -> Owners]
    BY <1>1, <1>2 DEF Zeros, Byte, Owners
  <2>3. may \in [Area -> SUBSET Byte]
    BY <1>1, <1>2 DEF Only, Byte
  <2>4. todo \in Seq(Stores)
    BY <1>1
  <2> QED
    BY <1>1, <2>1, <2>2, <2>3, <2>4 DEF TypeOK, Owners
<1>4. Storing /\ ~Claiming /\ ~Loading
  BY <1>1, Nothing DEF Storing, Claiming, Loading
<1>5. Claims /\ Owned /\ Through
  BY <1>1, <1>2, <1>4 DEF Claims, Owned, Through
<1>6. Untouched
  BY <1>1 DEF Untouched, Only
<1>7. Progress
  BY <1>1, <1>4, <1>6 DEF Progress
<1> QED
  BY <1>3, <1>4, <1>5, <1>7 DEF IInv, Shape

\* Every step keeps the invariant.
LEMMA Inductive == IInv /\ [Next]_vars => IInv'
<1> SUFFICES ASSUME IInv, [Next]_vars PROVE IInv'
  OBVIOUS
<1>1. CASE \E n \in AllSlots, values \in [1..Width -> Bytes] : Dset(n, values)
  BY <1>1, DsetKeeps
<1>2. CASE \E a \in Memory, b \in Bytes : Poke(a, <<b>>)
  <2>1. PICK a \in Memory, b \in Bytes : Poke(a, <<b>>)
    BY <1>2
  <2> DEFINE values == <<b>>
  <2>2. values \in [1..1 -> Bytes] /\ a + 1 - 1 \in Memory /\ 1 \in Nat \ {0}
    BY MemoryUp
  <2>3. Poke(a, values)
    BY <2>1
  <2> HIDE DEF values
  <2> QED
    BY <2>2, <2>3, PokeKeeps
<1>3. CASE \E a \in Memory, b \in Bytes, n \in 1..MaxRun : a + n - 1 \in Memory /\ MemSet(a, b, n)
  BY <1>3, MemSetKeeps
<1>4. CASE \E to, from \in Memory, n \in 1..MaxRun :
             to + n - 1 \in Memory /\ from + n - 1 \in Memory /\ MemCopy(to, from, n)
  BY <1>4, MemCopyKeeps
<1>5. CASE StoreByte
  BY <1>5, StoreByteKeeps
<1>6. CASE Cartdata
  BY <1>6, CartdataKeeps
<1>7. CASE Claim
  BY <1>7, ClaimKeeps
<1>8. CASE Clear
  BY <1>8, ClearKeeps
<1>9. CASE Load
  BY <1>9, LoadKeeps
<1>10. CASE PowerCut
  BY <1>10, PowerCutKeeps
<1>11. CASE Unplug
  BY <1>11, UnplugKeeps
<1>12. CASE \E c \in Carts : Start(c)
  BY <1>12, StartKeeps
<1>13. CASE UNCHANGED vars
  <2>1. UNCHANGED <<card, connected, cart, ram, saving, answer, todo, owner, half, missed, goal, may>>
    BY <1>13 DEF vars, console, history
  <2>2. TypeOK' /\ Shape' /\ Claims' /\ Owned' /\ Through'
    BY <2>1 DEF IInv, TypeOK, Shape, Claims, Owned, Through, Storing, Claiming, Loading,
                Unclaimed, Uncleared
  <2>3. Progress'
    BY <2>1 DEF IInv, Progress, Storing, Claiming, Loading, Uncleared, Untouched, Ordered,
                OnCourse, Unfinished, Value
  <2> QED
    BY <2>2, <2>3 DEF IInv
<1> QED
  BY <1>1, <1>2, <1>3, <1>4, <1>5, <1>6, <1>7, <1>8, <1>9, <1>10, <1>11, <1>12, <1>13 DEF Next

\* It holds in every state the console can be in.
LEMMA Invariance == Spec => []IInv
  BY Initial, Inductive, PTL DEF Spec

\* The card has an id and bytes, and a call is a list of stores it can make.
THEOREM TypeCorrect == Spec => []TypeOK
<1>1. IInv => TypeOK
  BY DEF IInv
<1> QED
  BY <1>1, Invariance, PTL

\* Where cartdata() answers that the card was the cart's already, the slots are
\* its own, whatever was cut short before, unless it was the claim itself.
THEOREM OwnDataCorrect == Spec => []OwnData
<1>1. IInv => OwnData
  <2> SUFFICES ASSUME IInv, answer = "kept", ~half, NEW s \in AllSlots
               PROVE  owner[s] = cart
    BY DEF OwnData
  <2>1. saving /\ card.id = cart
    BY DEF IInv, Claims
  <2>2. ~Claiming
    BY <2>1 DEF IInv, Claims
  <2> QED
    BY <2>1, <2>2 DEF IInv, Owned
<1> QED
  BY <1>1, Invariance, PTL

\* Wherever the power is cut, a byte of the card is one it had, or the memory
\* had, or was to have; a call that ends has brought all of them where they were
\* to be, an overlapping memcpy() too.
THEOREM SavedCorrect == Spec => []SavedInPart
<1>1. IInv => SavedInPart
  <2> SUFFICES ASSUME IInv, NEW a \in Area
               PROVE  IF todo = <<>> THEN card.bytes[a] = goal[a] ELSE card.bytes[a] \in may[a]
    BY DEF SavedInPart
  <2>1. CASE todo = <<>>
    BY <2>1, IdleFacts DEF Untouched
  <2>2. CASE todo # <<>>
    <3>1. CASE Storing
      BY <2>2, <3>1 DEF IInv, Progress, Untouched, OnCourse
    <3>2. CASE Claiming
      BY <2>2, <3>2 DEF IInv, Progress
    <3>3. CASE Loading
      BY <2>2, <3>3 DEF IInv, Progress, Untouched
    <3> QED
      BY <3>1, <3>2, <3>3 DEF IInv, Shape
  <2> QED
    BY <2>1, <2>2
<1> QED
  BY <1>1, Invariance, PTL

\* Between two calls, the card has what the memory has, but for the slots
\* written while it was out.
THEOREM WrittenCorrect == Spec => []WrittenThrough
<1>1. IInv => WrittenThrough
  BY DEF IInv, Through, WrittenThrough
<1> QED
  BY <1>1, Invariance, PTL
=============================================================================
