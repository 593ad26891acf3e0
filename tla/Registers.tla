----------------------------- MODULE Registers -----------------------------
(***************************************************************************)
(* The register allocator of the compiler (src/register.c) and the code    *)
(* generators that use it.  The allocator keeps, per register, whether it  *)
(* is taken, pinned or spilled and for how many instructions it is in use; *)
(* a generator holds operands in registers, and expects to find in each    *)
(* the value it put there.                                                 *)
(*                                                                         *)
(* word and slot are what the generated code will have in a register and   *)
(* in its stack slot at this point: the operand whose value it is.  A slot  *)
(* the allocator has forgotten (spill_slot_for_reg = 0) is NoSlot: nothing  *)
(* reads it before it is written again.                                    *)
(***************************************************************************)
EXTENDS Integers, Sequences, FiniteSets

CONSTANTS
  Last,          \* registers 1..Last are handed out, NUM_GPRS - 1 in the code
  Ops,           \* operands of the code generators
  Programs,      \* what they ask for: operands a function holds at once, and
                 \* function definitions inside one another
  Long,          \* 10000, the use distance of a locked register
  Junk, NoSlot   \* the word a call leaves, no slot

ASSUME RegistersAssumption ==
  /\ Last \in Nat \ {0}
  /\ Programs \subseteq [held : Nat, depth : Nat]
  /\ Long \in Nat \ {0, 1}
  /\ IsFiniteSet(Ops)
  /\ Junk \notin Ops /\ NoSlot \notin Ops \cup {Junk}

VARIABLES
  inventory,     \* register_inventory: the registers taken
  pinned,        \* register_pinned
  distance,      \* register_use_distance
  recent,        \* registers of the last two allocations (the serials)
  word,          \* what the register has
  slot,          \* spill_slot_for_reg, and what is in the slot
  reg,           \* the register an operand's generator holds, 0 for none
  mode,          \* how it holds it
  ready,         \* operands whose value was computed
  frames,        \* what the enclosing function definitions have saved
  program        \* the one compiled

allocator == <<inventory, pinned, distance, recent>>
machine   == <<word, slot>>
clients   == <<reg, mode, ready>>
vars      == <<allocator, machine, clients, frames, program>>

Regs  == 1..Last
Words == Ops \cup {Junk}
Modes == {"idle", "plain", "locked", "pinned"}

\* Operands of the enclosing function wait while a nested one is generated.
Waiting == UNION {frames[i].held : i \in DOMAIN frames}
Held    == {o \in Ops : mode[o] # "idle"} \ Waiting

-----------------------------------------------------------------------------
(***************************************************************************)
(* allocate_register: which register is handed out.                        *)
(***************************************************************************)
Lowest(r, S)  == r \in S /\ \A i \in S : r <= i
Highest(r, S) == r \in S /\ \A i \in S : i <= r

Free   == {i \in Regs : i \notin inventory /\ i \notin pinned}
Taken  == {i \in Regs : i \in inventory /\ i \notin pinned}
Dead   == {i \in Taken : distance[i] = 0}
Steady == {i \in Taken : i \notin {recent[1], recent[2]}}

\* The registers in use the longest, of those not just handed out.
Farthest == {i \in Steady : \A j \in Steady : distance[j] <= distance[i]}

TakeFreeUnmarked(r) ==   \* mutant: the register is not taken in the inventory
  /\ Lowest(r, Free)
  /\ distance' = [distance EXCEPT ![r] = 0]
  /\ UNCHANGED <<inventory, slot>>

\* Phase 1: a free register.
TakeFree(r) ==
  /\ Lowest(r, Free)
  /\ inventory' = inventory \cup {r}
  /\ distance' = [distance EXCEPT ![r] = 0]
  /\ UNCHANGED slot

TakeDeadPinned(r) ==   \* mutant: the pins are not looked at
  /\ Free = {}
  /\ Lowest(r, {i \in inventory : distance[i] = 0})
  /\ distance' = [distance EXCEPT ![r] = 1]
  /\ UNCHANGED <<inventory, slot>>

\* Phase 2: a register whose last use the allocator believes past, as it is.
TakeDead(r) ==
  /\ Free = {}
  /\ Lowest(r, Dead)
  /\ distance' = [distance EXCEPT ![r] = 1]
  /\ UNCHANGED <<inventory, slot>>

\* Phases 3 and 4: a register in use is stored to its slot and handed out, and
\* the slot forgotten.  With none to steal the compiler reports an error.
Steal(r) ==
  /\ Free = {} /\ Dead = {}
  /\ IF Steady # {} THEN Lowest(r, Farthest) ELSE Highest(r, Taken)
  /\ slot' = [slot EXCEPT ![r] = NoSlot]
  /\ distance' = [distance EXCEPT ![r] = Long]
  /\ UNCHANGED inventory

Allocate(r) ==
  /\ TakeFree(r) \/ TakeDead(r) \/ Steal(r)
  /\ recent' = <<recent[2], r>>

-----------------------------------------------------------------------------
Init ==
  /\ inventory = {}
  /\ pinned = {}
  /\ distance = [r \in Regs |-> 0]
  /\ recent = <<0, 0>>
  /\ word = [r \in Regs |-> Junk]
  /\ slot = [r \in Regs |-> NoSlot]
  /\ reg = [o \in Ops |-> 0]
  /\ mode = [o \in Ops |-> "idle"]
  /\ ready = {}
  /\ frames = <<>>
  /\ program \in Programs

Hold(o, r, m) ==
  /\ mode[o] = "idle"
  /\ Cardinality(Held) < program.held
  /\ reg' = [reg EXCEPT ![o] = r]
  /\ mode' = [mode EXCEPT ![o] = m]
  /\ UNCHANGED <<word, ready, frames>>

\* allocate_register
AllocatePlain(o) ==
  \E r \in Regs : Allocate(r) /\ Hold(o, r, "plain") /\ UNCHANGED pinned

\* allocate_pinned_register
AllocatePinned(o) ==
  \E r \in Regs :
    Allocate(r) /\ Hold(o, r, "pinned") /\ pinned' = pinned \cup {r}

\* lock_register, of a register just allocated
Lock(o) ==
  /\ o \in Held /\ mode[o] = "plain"
  /\ inventory' = inventory \cup {reg[o]}
  /\ distance' = [distance EXCEPT ![reg[o]] = Long]
  /\ mode' = [mode EXCEPT ![o] = "locked"]
  /\ UNCHANGED <<pinned, recent, machine, reg, ready, frames>>

\* mark_register_live, with the small distances the generators give
MarkLive(o) ==
  /\ o \in Held /\ mode[o] # "locked"
  /\ distance' = [distance EXCEPT ![reg[o]] = 1]
  /\ UNCHANGED <<inventory, pinned, recent, machine, clients, frames>>

\* emit_asm counts an instruction off the distance of the registers it names.
Instruction(r) ==
  /\ distance[r] > 0
  /\ distance' = [distance EXCEPT ![r] = @ - 1]
  /\ UNCHANGED <<inventory, pinned, recent, machine, clients, frames>>

\* The operand's value is computed into its register.
Compute(o) ==
  /\ o \in Held \ ready
  /\ word' = [word EXCEPT ![reg[o]] = o]
  /\ ready' = ready \cup {o}
  /\ UNCHANGED <<allocator, slot, reg, mode, frames>>

\* force_spill_register, by the owner of a pinned register
ForceSpill(o) ==
  /\ o \in Held \cap ready /\ mode[o] = "pinned"
  /\ slot[reg[o]] = NoSlot
  /\ slot' = [slot EXCEPT ![reg[o]] = word[reg[o]]]
  /\ inventory' = inventory \ {reg[o]}
  /\ UNCHANGED <<pinned, distance, recent, word, clients, frames>>

\* ensure_in_register
Ensure(o) ==
  /\ o \in Held
  /\ slot[reg[o]] # NoSlot
  /\ word' = [word EXCEPT ![reg[o]] = slot[reg[o]]]
  /\ slot' = [slot EXCEPT ![reg[o]] = NoSlot]
  /\ inventory' = inventory \cup {reg[o]}
  /\ UNCHANGED <<pinned, distance, recent, clients, frames>>

UnlockSlotKept(o) ==   \* mutant: the spill of the freed register is kept
  /\ inventory' = inventory \ {reg[o]}
  /\ distance' = [distance EXCEPT ![reg[o]] = 0]
  /\ UNCHANGED slot

\* unlock_register
Unlock(o) ==
  /\ inventory' = inventory \ {reg[o]}
  /\ distance' = [distance EXCEPT ![reg[o]] = 0]
  /\ slot' = [slot EXCEPT ![reg[o]] = NoSlot]

\* The operand is used up: unlock_register, or unlock_pinned_register.  Nobody
\* may count on what is still in its register.
Release(o) ==
  /\ o \in Held
  /\ Unlock(o)
  /\ pinned' = IF mode[o] = "pinned" THEN pinned \ {reg[o]} ELSE pinned
  /\ reg' = [reg EXCEPT ![o] = 0]
  /\ mode' = [mode EXCEPT ![o] = "idle"]
  /\ ready' = ready \ {o}
  /\ word' = [word EXCEPT ![reg[o]] = Junk]
  /\ UNCHANGED <<recent, frames>>

\* A call leaves nothing in the registers: the generators make one only when
\* the values they still need are in their slots.
Call ==
  /\ \A o \in Held \cap ready : mode[o] = "pinned" /\ slot[reg[o]] # NoSlot
  /\ word' = [r \in Regs |-> Junk]
  /\ UNCHANGED <<allocator, slot, clients, frames>>

\* A function defined inside an expression starts with every register free...
BeginFunction ==
  /\ Len(frames) < program.depth
  /\ frames' = Append(frames,
       [inventory |-> inventory, pinned |-> pinned,
        distance |-> distance, word |-> word, slot |-> slot, held |-> Held])
  /\ inventory' = {}
  /\ pinned' = {}
  /\ distance' = [r \in Regs |-> 0]
  /\ word' = [r \in Regs |-> Junk]
  /\ slot' = [r \in Regs |-> NoSlot]
  /\ UNCHANGED <<recent, clients>>

\* ... and gives them back as they were; the code around it jumps over it.
EndFunction ==
  /\ frames # <<>> /\ Held = {}
  /\ LET f == frames[Len(frames)]
     IN /\ inventory' = f.inventory
        /\ pinned' = f.pinned
        /\ distance' = f.distance
        /\ word' = f.word
        /\ slot' = f.slot
  /\ frames' = SubSeq(frames, 1, Len(frames) - 1)
  /\ UNCHANGED <<recent, clients>>

Next ==
  /\ \/ \E o \in Ops : \/ AllocatePlain(o) \/ AllocatePinned(o) \/ Lock(o)
                       \/ MarkLive(o) \/ Compute(o) \/ ForceSpill(o)
                       \/ Ensure(o) \/ Release(o)
     \/ \E r \in Regs : Instruction(r)
     \/ Call \/ BeginFunction \/ EndFunction
  /\ UNCHANGED program

Spec == Init /\ [][Next]_vars

-----------------------------------------------------------------------------
Frame == [inventory : SUBSET Regs, pinned : SUBSET Regs,
          distance : [Regs -> 0..Long], word : [Regs -> Words],
          slot : [Regs -> Words \cup {NoSlot}], held : SUBSET Ops]

TypeOK ==
  /\ frames \in Seq(Frame)
  /\ inventory \subseteq Regs
  /\ pinned \subseteq Regs
  /\ distance \in [Regs -> 0..Long]
  /\ recent \in (0..Last) \X (0..Last)
  /\ word \in [Regs -> Words]
  /\ slot \in [Regs -> Words \cup {NoSlot}]
  /\ reg \in [Ops -> 0..Last]
  /\ mode \in [Ops -> Modes]
  /\ ready \subseteq Ops
  /\ \A o \in Ops : (mode[o] = "idle") <=> (reg[o] = 0)
  /\ program \in Programs

\* As long as no function holds more operands than there are registers, no two
\* it holds at once share one.
OwnRegister == program.held <= Last => \A o, p \in Held : o # p => reg[o] # reg[p]

\* What a generator of such a program computed it finds again, in the register or, once it asks
\* for it, from the slot, across every allocation, call and nested function.
ValueKept(o) ==
  IF slot[reg[o]] # NoSlot THEN slot[reg[o]] = o ELSE word[reg[o]] = o

ValuesKept == program.held <= Last => \A o \in Held \cap ready : ValueKept(o)

\* A pinned register is never handed out again before it is unpinned, however
\* many operands are held (src/register.c, comment on phase 5).
PinnedNotTaken ==
  [][\A o \in Held, p \in Ops :
       (mode[o] = "pinned" /\ mode[p] = "idle" /\ mode'[p] # "idle")
         => reg'[p] # reg[o]]_vars
=============================================================================
