------------------------------ MODULE CartData ------------------------------
(***************************************************************************)
(* The saved data of a PICO-8 cart: 64 slots of four bytes in the emulated *)
(* memory, written through to the memory card once cartdata() has claimed  *)
(* it (src/runtime/pico8.s).  The player turns the console off between any *)
(* two writes to the card, changes the cart, and takes the card out and    *)
(* puts it back between two calls.                                         *)
(*                                                                         *)
(* A call is the list of its stores, todo, made one at a time.  The memory *)
(* is the data area and the byte before it.                                *)
(***************************************************************************)
EXTENDS Integers, Sequences

CONSTANTS
  Carts,    \* the hashes of the ids, odd and so never 0, what a blank card has
  Slots,    \* 64
  Width,    \* bytes of a slot, 4
  Bytes,    \* 0 and others
  MaxWrites, \* bound: writing calls of a session
  MaxRun    \* bound: bytes of a memset or memcpy

ASSUME CartDataAssumption ==
  /\ 0 \notin Carts
  /\ {Slots, Width} \subseteq Nat \ {0}
  /\ {MaxWrites, MaxRun} \subseteq Nat

VARIABLES
  card,      \* the words of the card: the id, and the bytes of the slots
  connected, \* MEM_Connected
  cart,      \* the cart that runs, 0 with the power off
  ram,       \* PICO8_RAM_PTR, the emulated memory
  saving,    \* PICO8_CARTDATA
  todo,      \* what the call still has to store
  answer,    \* what cartdata() answered in this session
  writes,    \* counter of the bound
  owner,     \* history: the cart whose data a slot of the card is
  half,      \* history: a claim was cut short and none finished since
  missed,    \* history: slots written while the card was out
  goal,      \* history: the card as the call is to leave it...
  may        \* ... and the bytes it may have where the call is cut short

console == <<cart, ram, saving, answer, writes>>
history == <<owner, half, missed, goal, may>>
vars    == <<card, connected, console, todo, history>>

First     == 1
Area      == First..(First + Slots * Width - 1)
Memory    == 0..(First + Slots * Width - 1)
SlotOf(a) == (a - First) \div Width
AllSlots  == 0..(Slots - 1)
Zeros     == [a \in Memory |-> 0]
Idle      == cart # 0 /\ todo = <<>>

Store(op, at, arg) == [op |-> op, at |-> at, arg |-> arg]
Take(op)           == todo # <<>> /\ Head(todo).op = op /\ todo' = Tail(todo)
Only(c)            == [a \in Area |-> {c.bytes[a]}]
Settle             == may' = IF todo' = <<>> THEN Only(card') ELSE may

Init ==
  /\ card = [id |-> 0, bytes |-> [a \in Area |-> 0]]
  /\ connected \in BOOLEAN
  /\ cart = 0 /\ ram = Zeros /\ saving = FALSE /\ todo = <<>> /\ answer = "none" /\ writes = 0
  /\ owner = [s \in AllSlots |-> 0] /\ half = FALSE /\ missed = {}
  /\ goal = card.bytes /\ may = Only(card)

-----------------------------------------------------------------------------
(***************************************************************************)
(* Writes to the memory: to[a] is the byte the call leaves at a.           *)
(***************************************************************************)
Begin(stores, to) ==
  LET touched == {SlotOf(a) : a \in DOMAIN to \cap Area}
      saved(a) == saving /\ connected /\ SlotOf(a) \in touched
      left(a)  == IF a \in DOMAIN to THEN to[a] ELSE ram[a]
  IN /\ Idle /\ writes < MaxWrites
     /\ writes' = writes + 1
     /\ todo' = stores
     /\ goal' = [a \in Area |-> IF saved(a) THEN left(a) ELSE card.bytes[a]]
     /\ may' = [a \in Area |-> {card.bytes[a]} \cup IF saved(a) THEN {ram[a], left(a)} ELSE {}]
     /\ UNCHANGED <<card, connected, cart, ram, saving, answer, owner, half, missed>>

\* poke, poke2 and poke4: byte after byte, the low one first.
Poke(a, values) ==
  LET n == Len(values)
  IN Begin([i \in 1..n |-> Store("put", a + i - 1, values[i])],
           [b \in a..(a + n - 1) |-> values[b - a + 1]])

\* dset(n, v): the bytes of the slot; nothing outside.
Dset(n, values) == n \in AllSlots /\ Poke(First + n * Width, values)

\* memset(a, b, n), within the memory
MemSet(a, b, n) == Poke(a, [i \in 1..n |-> b])

CopyOrderUp(to, from, n) == [i \in 1..n |-> i - 1]   \* mutant: always upwards

\* A copy to higher addresses goes from the end.
CopyOrder(to, from, n) ==
  [i \in 1..n |-> IF to > from THEN n - i ELSE i - 1]

\* memcpy(to, from, n), within the memory
MemCopy(to, from, n) ==
  Begin([i \in 1..n |-> Store("copy", to + CopyOrder(to, from, n)[i], from + CopyOrder(to, from, n)[i])],
        [b \in to..(to + n - 1) |-> ram[b - to + from]])

WriteThroughBefore(a, b) ==   \* mutant: the word is put together before the byte is stored
  /\ ram' = [ram EXCEPT ![a] = b]
  /\ IF a \in Area /\ saving /\ connected
     THEN /\ card' = [card EXCEPT !.bytes =
                       [c \in Area |-> IF SlotOf(c) = SlotOf(a) THEN ram[c] ELSE @[c]]]
          /\ owner' = [owner EXCEPT ![SlotOf(a)] = cart]
          /\ missed' = missed \ {SlotOf(a)}
     ELSE /\ missed' = IF a \in Area THEN missed \cup {SlotOf(a)} ELSE missed
          /\ UNCHANGED <<card, owner>>

\* A byte goes to the memory; if it is saved, the four bytes of its slot go
\* to the card as one word.
WriteThrough(a, b) ==
  /\ ram' = [ram EXCEPT ![a] = b]
  /\ IF a \in Area /\ saving /\ connected
     THEN /\ card' = [card EXCEPT !.bytes =
                       [c \in Area |-> IF SlotOf(c) = SlotOf(a) THEN ram'[c] ELSE @[c]]]
          /\ owner' = [owner EXCEPT ![SlotOf(a)] = cart]
          /\ missed' = missed \ {SlotOf(a)}
     ELSE /\ missed' = IF a \in Area THEN missed \cup {SlotOf(a)} ELSE missed
          /\ UNCHANGED <<card, owner>>

StoreByte ==
  /\ \/ Take("put") /\ WriteThrough(Head(todo).at, Head(todo).arg)
     \/ Take("copy") /\ WriteThrough(Head(todo).at, ram[Head(todo).arg])
  /\ Settle
  /\ UNCHANGED <<connected, cart, saving, answer, writes, half, goal>>

-----------------------------------------------------------------------------
(***************************************************************************)
(* cartdata(id): the card is this cart's, or is claimed and cleared; then  *)
(* its slots are loaded.                                                   *)
(***************************************************************************)
ClearedShort == [s \in 1..(Slots - 1) |-> Store("clear", s - 1, 0)]   \* mutant: one slot short

\* The slots, cleared one word after another.
Cleared == [s \in 1..Slots |-> Store("clear", s - 1, 0)]

Cartdata ==
  /\ Idle
  /\ CASE ~connected ->
            /\ answer' = "new"
            /\ UNCHANGED <<todo, goal, may>>
       [] connected /\ card.id = cart ->
            /\ todo' = <<Store("load", 0, "kept")>>
            /\ UNCHANGED <<answer, goal, may>>
       [] OTHER ->
            /\ todo' = <<Store("claim", 0, 0)>> \o Cleared \o <<Store("load", 0, "new")>>
            /\ goal' = [a \in Area |-> 0]
            /\ may' = [a \in Area |-> {card.bytes[a], 0}]
            /\ UNCHANGED answer
  /\ UNCHANGED <<card, connected, cart, ram, saving, writes, owner, half, missed>>

Claim ==
  /\ Take("claim")
  /\ card' = [card EXCEPT !.id = cart]
  /\ UNCHANGED <<connected, console, history>>

Clear ==
  /\ Take("clear")
  /\ LET s == Head(todo).at
     IN /\ card' = [card EXCEPT !.bytes = [a \in Area |-> IF SlotOf(a) = s THEN 0 ELSE @[a]]]
        /\ owner' = [owner EXCEPT ![s] = cart]
  /\ UNCHANGED <<connected, console, half, missed, goal, may>>

\* Nothing of this is on the card, so where the power fails makes no difference.
Load ==
  /\ Take("load")
  /\ ram' = [a \in Memory |-> IF a \in Area THEN card.bytes[a] ELSE ram[a]]
  /\ saving' = TRUE
  /\ answer' = Head(todo).arg
  /\ half' = (half /\ answer' = "kept")
  /\ missed' = {}
  /\ may' = Only(card)
  /\ UNCHANGED <<card, connected, cart, writes, owner, goal>>

-----------------------------------------------------------------------------
(***************************************************************************)
(* The console and its player.                                             *)
(***************************************************************************)
Clearing == \E i \in DOMAIN todo : todo[i].op = "clear"

\* Memory and flags do not outlive the power; the card does.
PowerCut ==
  /\ cart # 0
  /\ cart' = 0 /\ ram' = Zeros /\ saving' = FALSE /\ answer' = "none" /\ writes' = 0
  /\ todo' = <<>> /\ missed' = {}
  /\ half' = (half \/ (Clearing /\ card.id = cart))
  /\ goal' = card.bytes /\ may' = Only(card)
  /\ UNCHANGED <<card, connected, owner>>

\* A cart starts, or starts over with run().
Start(c) ==
  /\ todo = <<>> /\ cart \in {0, c}
  /\ cart' = c /\ ram' = Zeros /\ saving' = FALSE /\ answer' = "none" /\ writes' = 0 /\ missed' = {}
  /\ goal' = card.bytes /\ may' = Only(card)
  /\ UNCHANGED <<card, connected, todo, owner, half>>

\* The card is taken out, or put back.
Unplug ==
  /\ Idle
  /\ connected' = ~connected
  /\ UNCHANGED <<card, console, todo, history>>

Next ==
  \/ \E n \in AllSlots, values \in [1..Width -> Bytes] : Dset(n, values)
  \/ \E a \in Memory, b \in Bytes : Poke(a, <<b>>)
  \/ \E a \in Memory, b \in Bytes, n \in 1..MaxRun :
       a + n - 1 \in Memory /\ MemSet(a, b, n)
  \/ \E to, from \in Memory, n \in 1..MaxRun :
       to + n - 1 \in Memory /\ from + n - 1 \in Memory /\ MemCopy(to, from, n)
  \/ StoreByte
  \/ Cartdata \/ Claim \/ Clear \/ Load
  \/ PowerCut \/ Unplug
  \/ \E c \in Carts : Start(c)

Spec == Init /\ [][Next]_vars

-----------------------------------------------------------------------------
\* When cartdata() answers that the card holds this cart's data, every slot has
\* what this cart wrote, not another's (doc/PICO8.md:209-211), unless the power
\* was cut while the card was being claimed: the id is written before the slots
\* are cleared.
OwnData ==
  answer = "kept" /\ ~half => \A s \in AllSlots : owner[s] = cart

\* Power cut in the middle of a call leaves each byte of the card as the card or
\* the memory had it or as the call would have left it, and a call that ends
\* leaves what it was to, overlapping copies included.
SavedInPart ==
  \A a \in Area : IF todo = <<>> THEN card.bytes[a] = goal[a] ELSE card.bytes[a] \in may[a]

\* After cartdata(), between two calls, the card holds what the memory does,
\* but for what was written while the card was out.
WrittenThrough ==
  Idle /\ saving /\ connected =>
    \A a \in Area : SlotOf(a) \in missed \/ card.bytes[a] = ram[a]
=============================================================================
