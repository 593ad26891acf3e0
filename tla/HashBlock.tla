----------------------------- MODULE HashBlock -----------------------------
(***************************************************************************)
(* The hash part of a table (src/runtime/table.s, TABLE STORAGE): open     *)
(* addressing with linear probing in a block whose size is a power of two, *)
(* kept at most half full.  Deleting stores a nil value and leaves the key *)
(* in its slot; growing drops such slots.                                  *)
(*                                                                         *)
(* A key here is the word a program passes: the same string can come as a  *)
(* pooled literal, as another ROM string or as a string built in RAM, and  *)
(* 0 as +0 or -0.  A key is <<kind, what, where>>: what is the key Lua     *)
(* sees, where the copy it is.  Operators only; TableStorage has the state. *)
(***************************************************************************)
EXTENDS Integers, Sequences

CONSTANTS
  HashOf,         \* what a key hashes to: a function of the key Lua sees
  MinBlock,       \* slots of the first block (8 in the code)
  NoKey, Nil      \* BOXED_NIL as the key of an empty slot, and as a value

\* The key Lua sees, whichever word it comes as.
Seen(key) == key[2]

\* -0 is looked up as 0.
Normalised(key) == IF key[1] = "zero" THEN <<"zero", key[2], "+">> ELSE key

\* Equal words, or strings of equal characters (__table_key_streq).
SameKey(stored, key) ==
  \/ stored = key
  \/ stored # NoKey /\ stored[1] = "str" /\ key[1] = "str"
     /\ Seen(stored) = Seen(key)

EmptySlot == [key |-> NoKey, value |-> Nil]

NewBlock(size) == [used |-> 0, slots |-> [i \in 1..size |-> EmptySlot]]

Size(b) == Len(b.slots)

\* The slot the i-th probe for key reads; the block's size is a power of two,
\* so the mask the code uses is the remainder.
Probe(b, key, i) == ((HashOf[Seen(key)] + i) % Size(b)) + 1

\* The probe stops at a slot that is empty or has the key.
Stops(b, key, i) ==
  LET stored == b.slots[Probe(b, key, i)].key
  IN stored = NoKey \/ SameKey(stored, key)

\* Without such a slot the probe would never end.
ProbeEnds(b, key) == \E i \in 0..(Size(b) - 1) : Stops(b, key, i)

\* Where __table_hash_find stops: the key's slot, or the one to insert it at.
Find(b, key) ==
  Probe(b, key, CHOOSE i \in 0..(Size(b) - 1) :
                  /\ Stops(b, key, i)
                  /\ \A j \in 0..(i - 1) : ~Stops(b, key, j))

Has(b, key) == b.slots[Find(b, key)].key # NoKey

Lookup(b, key) == b.slots[Find(b, key)].value

PutNew(b, key, v) ==
  [used  |-> b.used + 1,
   slots |-> [b.slots EXCEPT ![Find(b, key)] = [key |-> key, value |-> v]]]

Live(slot) == slot.key # NoKey /\ slot.value # Nil

\* Twice the size, the live slots inserted again in slot order.
Grow(b) ==
  LET grown[n \in 0..Size(b)] ==
        IF n = 0 THEN NewBlock(2 * Size(b))
        ELSE IF Live(b.slots[n])
             THEN PutNew(grown[n - 1], b.slots[n].key, b.slots[n].value)
             ELSE grown[n - 1]
  IN grown[Size(b)]

StoreLate(b, key, v) ==   \* mutant: the slot about to be used is not counted
  IF Has(b, key) THEN [b EXCEPT !.slots[Find(b, key)].value = v]
  ELSE IF v = Nil THEN b
  ELSE PutNew(IF b.used * 2 > Size(b) THEN Grow(b) ELSE b, key, v)

StoreEmptying(b, key, v) ==   \* mutant: deleting empties the slot
  IF Has(b, key)
  THEN [b EXCEPT !.slots[Find(b, key)] =
          IF v = Nil THEN EmptySlot ELSE [key |-> key, value |-> v]]
  ELSE IF v = Nil THEN b
  ELSE PutNew(IF (b.used + 1) * 2 > Size(b) THEN Grow(b) ELSE b, key, v)

\* __table_hash_store on a block: an existing key is overwritten (nil deletes),
\* an absent one is inserted after growing a block that would pass half full.
Store(b, key, v) ==
  IF Has(b, key) THEN [b EXCEPT !.slots[Find(b, key)].value = v]
  ELSE IF v = Nil THEN b
  ELSE PutNew(IF (b.used + 1) * 2 > Size(b) THEN Grow(b) ELSE b, key, v)

-----------------------------------------------------------------------------
(***************************************************************************)
(* __builtin_table_getk, the lookup the compiler emits for t.field: key is *)
(* a pooled literal, and the probe compares words only.  It ends at the    *)
(* same word or an empty slot, and hands over to the general lookup at a   *)
(* string that is not a pooled literal, which may have the same text.      *)
(***************************************************************************)
NotPooledRom(stored) ==   \* mutant: a string built in RAM passes for another key
  stored # NoKey /\ stored[1] = "str" /\ stored[3] = "rom"

NotPooled(stored) == stored # NoKey /\ stored[1] = "str" /\ stored[3] # "pool"

GetkStops(b, key, i) ==
  LET stored == b.slots[Probe(b, key, i)].key
  IN stored = NoKey \/ stored = key \/ NotPooled(stored)

Getk(b, key) ==
  LET slot == b.slots[Probe(b, key,
                CHOOSE i \in 0..(Size(b) - 1) :
                  /\ GetkStops(b, key, i)
                  /\ \A j \in 0..(i - 1) : ~GetkStops(b, key, j))]
  IN IF NotPooled(slot.key) THEN Lookup(b, key) ELSE slot.value

\* The same with the first probe inline (emit_getk_lookup, src/node/table.c):
\* a slot with the same word answers by itself, anything else calls Getk.
InlineGetk(b, key) ==
  LET first == b.slots[Probe(b, key, 0)]
  IN IF first.key = key THEN first.value ELSE Getk(b, key)
=============================================================================
