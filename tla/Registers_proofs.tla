-------------------------- MODULE Registers_proofs --------------------------
(***************************************************************************)
(* What the register allocator guarantees, for any number of registers,    *)
(* operands and nested function definitions.                               *)
(***************************************************************************)
EXTENDS Registers, FunctionTheorems, FiniteSetTheorems, SequenceTheorems, TLAPS

\* Any allocation takes a register that is not pinned, counts it as in use, and
\* leaves the slots of the others alone.
LEMMA Allocated ==
  ASSUME TypeOK, NEW r, Allocate(r)
  PROVE  /\ r \in Regs \ pinned
         /\ inventory' = inventory \cup {r}
         /\ distance' \in [Regs -> 0..Long]
         /\ recent' \in (0..Last) \X (0..Last)
         /\ slot' \in [Regs -> Words \cup {NoSlot}]
         /\ \A i \in Regs \ {r} : slot'[i] = slot[i]
         /\ slot'[r] \in {slot[r], NoSlot}
<1>1. CASE TakeFree(r)
  BY <1>1, RegistersAssumption
     DEF Allocate, TakeFree, Lowest, Free, TypeOK, Regs
<1>2. CASE TakeDead(r)
  BY <1>2, RegistersAssumption
     DEF Allocate, TakeDead, Lowest, Dead, Taken, TypeOK, Regs
<1>3. CASE Steal(r)
  <2>1. r \in Taken
    BY <1>3 DEF Steal, Lowest, Highest, Farthest, Steady
  <2> QED
    BY <1>3, <2>1, RegistersAssumption DEF Allocate, Steal, Taken, TypeOK, Regs
<1> QED
  BY <1>1, <1>2, <1>3 DEF Allocate

\* A shorter stack of frames is a stack of frames.
LEMMA Popped ==
  ASSUME NEW S, NEW s \in Seq(S), s # <<>>
  PROVE  /\ Len(s) \in Nat \ {0}
         /\ SubSeq(s, 1, Len(s) - 1) \in Seq(S)
         /\ Len(SubSeq(s, 1, Len(s) - 1)) = Len(s) - 1
         /\ \A i \in 1..(Len(s) - 1) : SubSeq(s, 1, Len(s) - 1)[i] = s[i]
         /\ s[Len(s)] \in S
<1>1. Len(s) \in Nat \ {0}
  BY EmptySeq, LenProperties
<1>2. \A i \in 1..Len(s) : s[i] \in S
  BY ElementOfSeq
<1> DEFINE n == Len(s) - 1
<1>3. n \in Int /\ \A i \in 1..n : s[i] \in S
  BY <1>1, <1>2
<1> DEFINE t == SubSeq(s, 1, n)
<1> HIDE DEF n
<1>4. /\ t \in Seq(S)
      /\ Len(t) = IF 1 <= n THEN n - 1 + 1 ELSE 0
      /\ \A i \in 1..(n - 1 + 1) : t[i] = s[1 + i - 1]
  BY <1>3, SubSeqProperties
<1> HIDE DEF t
<1>5. n \in Nat /\ n = Len(s) - 1
  BY <1>1 DEF n
<1>6. /\ Len(t) = n
      /\ \A i \in 1..n : t[i] = s[i]
  BY <1>4, <1>5
<1>7. s[Len(s)] \in S
  BY <1>1, <1>2
<1> QED
  BY <1>1, <1>4, <1>5, <1>6, <1>7 DEF t

\* TypeOK is preserved by every step.
LEMMA TypeStep ==
  ASSUME TypeOK, [Next]_vars
  PROVE  TypeOK'
<1> USE RegistersAssumption
<1> USE DEF Modes
<1>0. program' = program
  BY DEF Next, vars
<1> USE <1>0
<1>1. CASE UNCHANGED vars
  BY <1>1 DEF vars, allocator, machine, clients, TypeOK, Frame
<1>2. ASSUME NEW o \in Ops, AllocatePlain(o)
      PROVE  TypeOK'
  <2> PICK r \in Regs :
        Allocate(r) /\ Hold(o, r, "plain") /\ UNCHANGED pinned
    BY <1>2 DEF AllocatePlain
  <2>1. /\ r \in Regs \ pinned
        /\ inventory' \subseteq Regs
        /\ distance' \in [Regs -> 0..Long]
        /\ recent' \in (0..Last) \X (0..Last)
        /\ slot' \in [Regs -> Words \cup {NoSlot}]
        /\ pinned' \subseteq Regs
    BY Allocated DEF TypeOK
  <2>2. /\ reg' \in [Ops -> 0..Last]
        /\ mode' \in [Ops -> Modes]
        /\ \A p \in Ops : (mode'[p] = "idle") <=> (reg'[p] = 0)
    BY <2>1 DEF Hold, TypeOK, Regs
  <2> QED
    BY <2>1, <2>2 DEF Hold, TypeOK
<1>3. ASSUME NEW o \in Ops, AllocatePinned(o)
      PROVE  TypeOK'
  <2> PICK r \in Regs :
        Allocate(r) /\ Hold(o, r, "pinned") /\ pinned' = pinned \cup {r}
    BY <1>3 DEF AllocatePinned
  <2>1. /\ r \in Regs \ pinned
        /\ inventory' \subseteq Regs
        /\ distance' \in [Regs -> 0..Long]
        /\ recent' \in (0..Last) \X (0..Last)
        /\ slot' \in [Regs -> Words \cup {NoSlot}]
        /\ pinned' \subseteq Regs
    BY Allocated DEF TypeOK
  <2>2. /\ reg' \in [Ops -> 0..Last]
        /\ mode' \in [Ops -> Modes]
        /\ \A p \in Ops : (mode'[p] = "idle") <=> (reg'[p] = 0)
    BY <2>1 DEF Hold, TypeOK, Regs
  <2> QED
    BY <2>1, <2>2 DEF Hold, TypeOK
<1>4. ASSUME NEW o \in Ops,
             \/ Lock(o) \/ MarkLive(o) \/ Compute(o)
             \/ ForceSpill(o) \/ Ensure(o) \/ Release(o)
      PROVE  TypeOK'
  <2>1. o \in Held /\ mode[o] # "idle" /\ reg[o] \in Regs
    BY <1>4 DEF Lock, MarkLive, Compute, ForceSpill, Ensure, Release, Held,
                TypeOK, Regs
  <2>2. CASE Lock(o)
    BY <2>1, <2>2 DEF Lock, TypeOK, machine
  <2>3. CASE MarkLive(o)
    BY <2>1, <2>3 DEF MarkLive, TypeOK, machine, clients
  <2>4. CASE Compute(o)
    BY <2>1, <2>4 DEF Compute, TypeOK, allocator, Words
  <2>5. CASE ForceSpill(o)
    BY <2>1, <2>5 DEF ForceSpill, TypeOK, clients
  <2>6. CASE Ensure(o)
    BY <2>1, <2>6 DEF Ensure, TypeOK, clients
  <2>7. CASE Release(o)
    BY <2>1, <2>7 DEF Release, Unlock, TypeOK, Words
  <2> QED
    BY <1>4, <2>2, <2>3, <2>4, <2>5, <2>6, <2>7
<1>5. ASSUME NEW r \in Regs, Instruction(r)
      PROVE  TypeOK'
  BY <1>5 DEF Instruction, TypeOK, machine, clients
<1>6. CASE Call
  BY <1>6 DEF Call, TypeOK, allocator, clients, Words
<1>7. CASE BeginFunction
  <2>1. [inventory |-> inventory, pinned |-> pinned, distance |-> distance,
         word |-> word, slot |-> slot, held |-> Held] \in Frame
    BY DEF Frame, TypeOK, Held
  <2>2. frames' \in Seq(Frame)
    BY <1>7, <2>1, AppendProperties DEF BeginFunction, TypeOK
  <2> QED
    BY <1>7, <2>2 DEF BeginFunction, TypeOK, clients, Words
<1>8. CASE EndFunction
  <2>1. /\ frames' \in Seq(Frame)
        /\ frames[Len(frames)] \in Frame
    BY <1>8, Popped DEF EndFunction, TypeOK
  <2> QED
    BY <1>8, <2>1 DEF EndFunction, TypeOK, Frame, clients
<1> QED
  BY <1>1, <1>2, <1>3, <1>4, <1>5, <1>6, <1>7, <1>8 DEF Next

\* The allocator's tables, the registers, the slots and what the generators
\* hold keep their types (src/register.c: the arrays at the top of the file).
THEOREM TypeCorrect == Spec => []TypeOK
<1>1. Init => TypeOK
  BY RegistersAssumption, EmptySeq DEF Init, TypeOK, Modes, Words
<1> QED
  BY <1>1, TypeStep, PTL DEF Spec

-----------------------------------------------------------------------------
(***************************************************************************)
(* Pins.  A function's pinned operands keep their registers in its pinned  *)
(* set, each its own; and so for the functions waiting for a nested one,   *)
(* whose sets the allocator gets back.                                     *)
(***************************************************************************)
PinsHold(P, H) ==
  /\ \A o \in H : mode[o] = "pinned" => reg[o] \in P
  /\ \A o, p \in H :
       o # p /\ mode[o] = "pinned" /\ mode[p] = "pinned" => reg[o] # reg[p]

\* An operand waits in one function, and is held there.
Nested ==
  /\ \A i \in DOMAIN frames : \A o \in frames[i].held :
       o \in Ops /\ mode[o] # "idle"
  /\ \A i, j \in DOMAIN frames :
       i # j => frames[i].held \cap frames[j].held = {}

PInv ==
  /\ TypeOK
  /\ Nested
  /\ PinsHold(pinned, Held)
  /\ \A i \in DOMAIN frames : PinsHold(frames[i].pinned, frames[i].held)

\* What a step does to the operands held, when no function begins or ends.
LEMMA HeldStep ==
  ASSUME Nested, frames' = frames, mode \in [Ops -> Modes],
         NEW o \in Ops, NEW m \in Modes, mode' = [mode EXCEPT ![o] = m],
         o \notin Waiting
  PROVE  /\ Nested'
         /\ m = "idle" => Held' = Held \ {o}
         /\ m # "idle" => Held' = Held \cup {o}
         /\ \A i \in DOMAIN frames : o \notin frames[i].held
         /\ \A i \in DOMAIN frames : \A p \in frames[i].held :
              p # o /\ mode'[p] = mode[p]
<1>1. Waiting' = Waiting
  BY DEF Waiting
<1>2. \A i \in DOMAIN frames : o \notin frames[i].held
  BY DEF Waiting
<1>3. \A i \in DOMAIN frames : \A p \in frames[i].held :
        p # o /\ mode'[p] = mode[p]
  BY <1>2 DEF Nested
<1>4. Nested'
  BY <1>3 DEF Nested
<1>5. mode'[o] = m /\ \A p \in Ops \ {o} : mode'[p] = mode[p]
  OBVIOUS
<1> QED
  BY <1>1, <1>2, <1>3, <1>4, <1>5 DEF Held

\* An idle operand waits in no function.
LEMMA IdleWaitsNowhere ==
  ASSUME Nested, NEW o, o \in Waiting
  PROVE  o \in Ops /\ mode[o] # "idle"
BY DEF Nested, Waiting

\* The waiting functions' pins hold while their operands are left alone.
LEMMA WaitingPins ==
  ASSUME \A i \in DOMAIN frames : PinsHold(frames[i].pinned, frames[i].held),
         frames' = frames,
         \A i \in DOMAIN frames : \A p \in frames[i].held :
           mode'[p] = mode[p] /\ reg'[p] = reg[p]
  PROVE  \A i \in DOMAIN frames' :
           PinsHold(frames[i].pinned, frames[i].held)'
BY DEF PinsHold

\* An allocation by either entry: the new operand, if pinned, has a register no
\* pinned operand has.
LEMMA PinsAllocate ==
  ASSUME PInv, TypeOK', NEW o \in Ops, NEW r, NEW m \in {"plain", "pinned"},
         Allocate(r), Hold(o, r, m),
         pinned' = IF m = "pinned" THEN pinned \cup {r} ELSE pinned
  PROVE  PInv'
<1>1. r \in Regs \ pinned
  BY Allocated DEF PInv
<1>2. /\ mode[o] = "idle" /\ frames' = frames
      /\ mode' = [mode EXCEPT ![o] = m] /\ reg' = [reg EXCEPT ![o] = r]
      /\ mode \in [Ops -> Modes] /\ reg \in [Ops -> 0..Last]
  BY DEF Hold, PInv, TypeOK
<1>3. o \notin Waiting /\ Nested /\ m \in Modes /\ m # "idle"
  BY <1>2, IdleWaitsNowhere DEF PInv, Modes
<1>4. /\ Nested' /\ Held' = Held \cup {o}
      /\ \A i \in DOMAIN frames : \A p \in frames[i].held :
           p # o /\ mode'[p] = mode[p]
  BY <1>2, <1>3, HeldStep
<1>5. \A i \in DOMAIN frames : \A p \in frames[i].held : reg'[p] = reg[p]
  BY <1>2, <1>4 DEF PInv, Nested
<1>6. \A i \in DOMAIN frames' :
        PinsHold(frames[i].pinned, frames[i].held)'
  BY <1>2, <1>4, <1>5, WaitingPins DEF PInv
<1>7. PinsHold(pinned, Held)'
  <2>1. \A p \in Held : p # o /\ p \in Ops
    BY <1>2 DEF Held
  <2>2. /\ \A p \in Held : mode'[p] = mode[p] /\ reg'[p] = reg[p]
        /\ mode'[o] = m /\ reg'[o] = r
    BY <1>2, <2>1
  <2>3. pinned \subseteq pinned' /\ (m = "pinned" => r \in pinned')
    OBVIOUS
  <2> QED
    BY <1>1, <1>4, <2>1, <2>2, <2>3 DEF PInv, PinsHold
<1> QED
  BY <1>4, <1>6, <1>7 DEF PInv

\* An action of one operand that keeps it in its register, and pinned if it was.
LEMMA PinsKept ==
  ASSUME PInv, TypeOK', NEW o \in Held, NEW m \in Modes \ {"idle"},
         m = "pinned" <=> mode[o] = "pinned",
         mode' = [mode EXCEPT ![o] = m],
         UNCHANGED <<pinned, reg, frames>>
  PROVE  PInv'
<1>1. /\ o \in Ops /\ o \notin Waiting /\ mode \in [Ops -> Modes]
      /\ mode[o] # "idle" /\ Nested /\ frames' = frames
  BY DEF PInv, Held, TypeOK
<1>2. /\ Nested' /\ Held' = Held \cup {o}
      /\ \A i \in DOMAIN frames : \A p \in frames[i].held :
           p # o /\ mode'[p] = mode[p]
  BY <1>1, HeldStep
<1>3. \A i \in DOMAIN frames' :
        PinsHold(frames[i].pinned, frames[i].held)'
  BY <1>2, WaitingPins DEF PInv
<1>4. \A p \in Held : mode'[p] = "pinned" <=> mode[p] = "pinned"
  BY <1>1 DEF Held
<1>5. PinsHold(pinned, Held)'
  BY <1>2, <1>4 DEF PInv, PinsHold
<1> QED
  BY <1>2, <1>3, <1>5 DEF PInv

\* Giving a register back unpins it only for the operand that pinned it.
LEMMA PinsRelease ==
  ASSUME PInv, TypeOK', NEW o \in Ops, Release(o)
  PROVE  PInv'
<1>1. /\ o \in Held /\ o \notin Waiting /\ mode \in [Ops -> Modes]
      /\ Nested /\ frames' = frames /\ mode' = [mode EXCEPT ![o] = "idle"]
      /\ reg \in [Ops -> 0..Last] /\ reg' = [reg EXCEPT ![o] = 0]
      /\ pinned' = IF mode[o] = "pinned" THEN pinned \ {reg[o]} ELSE pinned
  BY DEF PInv, Held, TypeOK, Release
<1>2. /\ Nested' /\ Held' = Held \ {o}
      /\ \A i \in DOMAIN frames : \A p \in frames[i].held :
           p # o /\ mode'[p] = mode[p]
  BY <1>1, HeldStep DEF Modes
<1>3. \A i \in DOMAIN frames : \A p \in frames[i].held : reg'[p] = reg[p]
  BY <1>1, <1>2 DEF Nested
<1>4. \A i \in DOMAIN frames' :
        PinsHold(frames[i].pinned, frames[i].held)'
  BY <1>1, <1>2, <1>3, WaitingPins DEF PInv
<1>5. \A p \in Held \ {o} : mode'[p] = mode[p] /\ reg'[p] = reg[p]
  BY <1>1 DEF Held
<1>6. PinsHold(pinned, Held)'
  BY <1>1, <1>2, <1>5 DEF PInv, PinsHold
<1> QED
  BY <1>2, <1>4, <1>6 DEF PInv

\* A nested function has no operand yet; those of the one around it wait, with
\* the pins saved beside them.
LEMMA PinsBegin ==
  ASSUME PInv, TypeOK', BeginFunction
  PROVE  PInv'
<1> DEFINE n == Len(frames) + 1
           f == [inventory |-> inventory, pinned |-> pinned,
                 distance |-> distance, word |-> word, slot |-> slot,
                 held |-> Held]
<1>1. f \in Frame
  BY DEF Frame, PInv, TypeOK, Held
<1>2. /\ frames \in Seq(Frame) /\ frames' = Append(frames, f)
      /\ UNCHANGED <<reg, mode>>
  BY DEF PInv, TypeOK, BeginFunction, clients
<1> HIDE DEF f
<1>3. /\ DOMAIN frames = 1..Len(frames) /\ Len(frames) \in Nat
      /\ DOMAIN frames' = 1..n
      /\ frames'[n] = f
      /\ \A i \in DOMAIN frames : frames'[i] = frames[i]
  BY <1>1, <1>2, AppendProperties, LenProperties
<1>4. /\ DOMAIN frames' = DOMAIN frames \cup {n} /\ n \notin DOMAIN frames
  BY <1>3
<1> HIDE DEF n
<1>5. f.held = Held /\ f.pinned = pinned
  BY DEF f
<1>6. \A i \in DOMAIN frames : frames[i].held \cap Held = {}
  BY DEF Held, Waiting
<1>7. Nested'
  <2>1. \A i \in DOMAIN frames' : \A o \in frames'[i].held :
          o \in Ops /\ mode'[o] # "idle"
    BY <1>2, <1>3, <1>4, <1>5 DEF PInv, Nested, Held
  <2>2. \A i, j \in DOMAIN frames' :
          i # j => frames'[i].held \cap frames'[j].held = {}
    BY <1>3, <1>4, <1>5, <1>6 DEF PInv, Nested
  <2> QED
    BY <2>1, <2>2 DEF Nested
<1>8. \A i \in DOMAIN frames' : PinsHold(frames'[i].pinned, frames'[i].held)
  BY <1>3, <1>4, <1>5 DEF PInv
<1>9. Held' = {}
  <2>1. Waiting \subseteq Waiting'
    BY <1>3, <1>4 DEF Waiting
  <2>2. Held \subseteq Waiting'
    BY <1>3, <1>4, <1>5 DEF Waiting
  <2> QED
    BY <1>2, <2>1, <2>2 DEF Held
<1> QED
  BY <1>2, <1>7, <1>8, <1>9 DEF PInv, PinsHold

\* The end of a nested function: who is held is who waited.
LEMMA HeldEnd ==
  ASSUME TypeOK, Nested, EndFunction
  PROVE  /\ frames[Len(frames)] \in Frame
         /\ Len(frames) \in DOMAIN frames
         /\ Nested'
         /\ Held' = frames[Len(frames)].held
         /\ DOMAIN frames' \subseteq DOMAIN frames
         /\ \A i \in DOMAIN frames' : frames'[i] = frames[i]
<1> DEFINE n == Len(frames)
<1>1. /\ frames \in Seq(Frame) /\ frames # <<>>
      /\ frames' = SubSeq(frames, 1, Len(frames) - 1)
      /\ UNCHANGED <<reg, mode>> /\ Held = {}
  BY DEF TypeOK, EndFunction, clients
<1>2. /\ n \in Nat \ {0} /\ frames[n] \in Frame
      /\ DOMAIN frames = 1..n /\ DOMAIN frames' = 1..(n - 1)
      /\ \A i \in 1..(n - 1) : frames'[i] = frames[i]
  BY <1>1, Popped, LenProperties
<1>3. /\ DOMAIN frames = DOMAIN frames' \cup {n} /\ n \notin DOMAIN frames'
      /\ \A i \in DOMAIN frames' : frames'[i] = frames[i]
  BY <1>2
<1> HIDE DEF n
<1>4. Nested'
  BY <1>1, <1>3 DEF Nested
<1>5. /\ Waiting = Waiting' \cup frames[n].held
      /\ Waiting' \cap frames[n].held = {}
  BY <1>3 DEF Waiting, Nested
<1>6. Held' = frames[n].held
  BY <1>1, <1>3, <1>5 DEF Held, Nested
<1> QED
  BY <1>2, <1>3, <1>4, <1>6 DEF n

\* The end of a function restores the registers and pins it saved.
LEMMA PinsEnd ==
  ASSUME PInv, TypeOK', EndFunction
  PROVE  PInv'
<1>1. /\ UNCHANGED <<reg, mode>> /\ pinned' = frames[Len(frames)].pinned
  BY DEF EndFunction, clients
<1> QED
  BY <1>1, HeldEnd DEF PInv, PinsHold

\* Every step keeps the pins.
LEMMA PinsStep ==
  ASSUME PInv, [Next]_vars
  PROVE  PInv'
<1>0. TypeOK'
  BY TypeStep DEF PInv
<1>1. ASSUME UNCHANGED <<pinned, reg, mode, frames>>
      PROVE  PInv'
  BY <1>0, <1>1 DEF PInv, Nested, PinsHold, Held, Waiting
<1>2. ASSUME NEW o \in Ops, AllocatePlain(o)
      PROVE  PInv'
  BY <1>0, <1>2, PinsAllocate DEF AllocatePlain
<1>3. ASSUME NEW o \in Ops, AllocatePinned(o)
      PROVE  PInv'
  BY <1>0, <1>3, PinsAllocate DEF AllocatePinned
<1>4. ASSUME NEW o \in Ops, Lock(o)
      PROVE  PInv'
  BY <1>0, <1>4, PinsKept DEF Lock, Modes
<1>5. ASSUME NEW o \in Ops,
             MarkLive(o) \/ Compute(o) \/ ForceSpill(o) \/ Ensure(o)
      PROVE  PInv'
  BY <1>1, <1>5
     DEF MarkLive, Compute, ForceSpill, Ensure, allocator, clients
<1>6. ASSUME NEW o \in Ops, Release(o)
      PROVE  PInv'
  BY <1>0, <1>6, PinsRelease
<1>7. ASSUME NEW r \in Regs, Instruction(r)
      PROVE  PInv'
  BY <1>1, <1>7 DEF Instruction, clients
<1>8. CASE Call
  BY <1>1, <1>8 DEF Call, allocator, clients
<1>9. CASE BeginFunction
  BY <1>0, <1>9, PinsBegin
<1>10. CASE EndFunction
  BY <1>0, <1>10, PinsEnd
<1>11. CASE UNCHANGED vars
  BY <1>1, <1>11 DEF vars, allocator, clients
<1> QED
  BY <1>2, <1>3, <1>4, <1>5, <1>6, <1>7, <1>8, <1>9, <1>10, <1>11 DEF Next

\* With the pins in order, a step hands out no pinned register.
LEMMA PinnedStep ==
  ASSUME PInv, [Next]_vars,
         NEW o \in Held, NEW p \in Ops,
         mode[o] = "pinned", mode[p] = "idle", mode'[p] # "idle"
  PROVE  reg'[p] # reg[o]
<1>1. mode \in [Ops -> Modes] /\ reg \in [Ops -> 0..Last]
  BY DEF PInv, TypeOK
<1>2. ASSUME NEW q \in Ops, NEW r, NEW m, Allocate(r), Hold(q, r, m)
      PROVE  reg'[p] # reg[o]
  <2>1. p = q
    BY <1>1, <1>2 DEF Hold
  <2>2. reg'[p] = r /\ r \notin pinned
    BY <1>1, <1>2, <2>1, Allocated DEF Hold, PInv
  <2> QED
    BY <2>2 DEF PInv, PinsHold
<1>3. CASE \E q \in Ops : AllocatePlain(q) \/ AllocatePinned(q)
  BY <1>2, <1>3 DEF AllocatePlain, AllocatePinned
<1>4. ASSUME NEW q \in Ops,
             \/ Lock(q) \/ MarkLive(q) \/ Compute(q)
             \/ ForceSpill(q) \/ Ensure(q) \/ Release(q)
      PROVE  FALSE
  BY <1>1, <1>4
     DEF Lock, MarkLive, Compute, ForceSpill, Ensure, Release, clients, Held
<1>5. ASSUME \/ \E r \in Regs : Instruction(r)
             \/ Call \/ BeginFunction \/ EndFunction \/ UNCHANGED vars
      PROVE  FALSE
  BY <1>5 DEF Instruction, Call, BeginFunction, EndFunction, vars, clients
<1> QED
  BY <1>3, <1>4, <1>5 DEF Next

\* However many operands are held, allocate_register never hands out a register
\* that another operand has pinned (src/register.c: the pinned test of each
\* phase, and unlock_pinned_register's order).
THEOREM PinnedKept == Spec => PinnedNotTaken
<1>1. Init => PInv
  <2> SUFFICES ASSUME Init PROVE PInv
    OBVIOUS
  <2>1. TypeOK
    BY RegistersAssumption, EmptySeq DEF Init, TypeOK, Modes, Words
  <2>2. DOMAIN frames = {} /\ Held = {}
    BY DEF Init, Held
  <2> QED
    BY <2>1, <2>2 DEF PInv, Nested, PinsHold
<1>2. PInv /\ [Next]_vars =>
        [\A o \in Held, p \in Ops :
           (mode[o] = "pinned" /\ mode[p] = "idle" /\ mode'[p] # "idle")
             => reg'[p] # reg[o]]_vars
  BY PinnedStep
<1> QED
  BY <1>1, <1>2, PinsStep, PTL DEF Spec, PinnedNotTaken

-----------------------------------------------------------------------------
(***************************************************************************)
(* Values.  While a function holds no more operands than there are         *)
(* registers, a free register is always left (FreeLeft), so that only      *)
(* phase 1 runs, and the registers, the pins and the slots stay in step    *)
(* with the operands held.  OwnRegister and ValuesKept say nothing of the  *)
(* functions that wait, nor of a slot without an owner, and are not        *)
(* inductive without.                                                      *)
(***************************************************************************)
Sound(I, P, w, s, H) ==
  /\ \A o, p \in H : o # p => reg[o] # reg[p]
  /\ \A r \in I : \E o \in H : reg[o] = r
  /\ \A r \in P : \E o \in H : mode[o] = "pinned" /\ reg[o] = r
  /\ \A o \in H : IF mode[o] = "pinned" THEN reg[o] \in P ELSE reg[o] \in I
  /\ \A r \in Regs \ P : s[r] = NoSlot
  /\ \A o \in H : s[reg[o]] # NoSlot => o \in ready /\ s[reg[o]] = o
  /\ \A o \in H \cap ready : s[reg[o]] = NoSlot => w[reg[o]] = o

SoundFrame(f) == Sound(f.inventory, f.pinned, f.word, f.slot, f.held)

SInv ==
  /\ TypeOK
  /\ Nested
  /\ \A o \in ready : mode[o] # "idle"
  /\ Sound(inventory, pinned, word, slot, Held)
  /\ \A i \in DOMAIN frames : SoundFrame(frames[i])

\* With fewer operands held than there are registers, one is free.
LEMMA FreeLeft ==
  ASSUME TypeOK, Sound(inventory, pinned, word, slot, Held),
         Cardinality(Held) < Last
  PROVE  Free # {}
<1> DEFINE used == {reg[o] : o \in Held}
<1>1. IsFiniteSet(Held)
  BY RegistersAssumption, FS_Subset DEF Held
<1>2. IsFiniteSet(used) /\ Cardinality(used) <= Cardinality(Held)
  <2> DEFINE f == [o \in Held |-> reg[o]]
  <2>1. f \in [Held -> used] /\ \A r \in used : \E o \in Held : f[o] = r
    OBVIOUS
  <2> HIDE DEF f, used
  <2>2. f \in Surjection(Held, used)
    BY <2>1, Fun_IsSurj
  <2> QED
    BY <1>1, <2>2, FS_Surjection
<1>3. Cardinality(1..Last) = Last
  BY RegistersAssumption, FS_Interval
<1>4. SUFFICES ASSUME Free = {} PROVE FALSE
  OBVIOUS
<1>5. Regs \subseteq used
  BY <1>4 DEF Free, Sound
<1>6. Cardinality(Regs) <= Cardinality(used)
  BY <1>2, <1>5, FS_Subset
<1>7. /\ Cardinality(Held) \in Nat /\ Cardinality(used) \in Nat
      /\ Last \in Nat
  BY <1>1, <1>2, FS_CardinalityType, RegistersAssumption
<1> QED
  BY <1>2, <1>3, <1>6, <1>7 DEF Regs

\* The waiting functions stay sound while their operands are left alone.
LEMMA WaitingSound ==
  ASSUME \A i \in DOMAIN frames : SoundFrame(frames[i]),
         frames' = frames,
         \A i \in DOMAIN frames : \A p \in frames[i].held :
           mode'[p] = mode[p] /\ reg'[p] = reg[p] /\ (p \in ready' <=> p \in ready)
  PROVE  \A i \in DOMAIN frames' : SoundFrame(frames[i])'
<1> SUFFICES ASSUME NEW i \in DOMAIN frames
             PROVE  SoundFrame(frames[i])'
  OBVIOUS
<1> DEFINE f == frames[i]
<1>1. /\ SoundFrame(f) /\ frames'[i] = f
      /\ \A p \in f.held : mode'[p] = mode[p] /\ reg'[p] = reg[p]
                           /\ (p \in ready' <=> p \in ready)
  OBVIOUS
<1> HIDE DEF f
<1> QED
  BY <1>1 DEF SoundFrame, Sound

\* A new operand gets a free register, which has no slot.
LEMMA SoundAllocate ==
  ASSUME SInv, TypeOK', program.held <= Last,
         NEW o \in Ops, NEW r, NEW m \in {"plain", "pinned"},
         Allocate(r), Hold(o, r, m),
         pinned' = IF m = "pinned" THEN pinned \cup {r} ELSE pinned
  PROVE  SInv'
<1>1. /\ mode[o] = "idle" /\ frames' = frames
      /\ mode' = [mode EXCEPT ![o] = m] /\ reg' = [reg EXCEPT ![o] = r]
      /\ mode \in [Ops -> Modes] /\ reg \in [Ops -> 0..Last]
      /\ word' = word /\ ready' = ready
      /\ Cardinality(Held) < program.held /\ program.held \in Nat
  BY RegistersAssumption DEF Hold, SInv, TypeOK
<1>2. Free # {}
  <2>1. Cardinality(Held) \in Nat
    BY RegistersAssumption, FS_Subset, FS_CardinalityType DEF Held
  <2> QED
    BY <1>1, <2>1, FreeLeft, RegistersAssumption DEF SInv
<1>3. /\ r \in Regs /\ r \notin inventory /\ r \notin pinned
      /\ inventory' = inventory \cup {r} /\ slot' = slot
  BY <1>2 DEF Allocate, TakeFree, TakeDead, Steal, Lowest, Free
<1>4. o \notin Waiting /\ Nested /\ m \in Modes /\ m # "idle"
  BY <1>1, IdleWaitsNowhere DEF SInv, Modes
<1>5. /\ Nested' /\ Held' = Held \cup {o}
      /\ \A i \in DOMAIN frames : \A p \in frames[i].held :
           p # o /\ mode'[p] = mode[p]
  BY <1>1, <1>4, HeldStep
<1>6. \A i \in DOMAIN frames : \A p \in frames[i].held : reg'[p] = reg[p]
  BY <1>1, <1>5 DEF SInv, Nested
<1>7. \A i \in DOMAIN frames' : SoundFrame(frames[i])'
  BY <1>1, <1>5, <1>6, WaitingSound DEF SInv
<1>8. o \notin ready
  BY <1>1 DEF SInv
<1>9. /\ \A p \in Held : /\ p # o /\ reg[p] # r
                         /\ mode'[p] = mode[p] /\ reg'[p] = reg[p]
      /\ mode'[o] = m /\ reg'[o] = r
  BY <1>1, <1>3 DEF Held, SInv, Sound
<1>10. Sound(inventory, pinned, word, slot, Held)'
  BY <1>1, <1>3, <1>5, <1>8, <1>9 DEF SInv, Sound
<1>11. \A p \in ready' : mode'[p] # "idle"
  BY <1>1, <1>4, <1>8 DEF SInv, TypeOK
<1> QED
  BY <1>5, <1>7, <1>10, <1>11 DEF SInv

\* The operands held, and what waits, after an action that moves no operand.
LEMMA SoundOwn ==
  ASSUME SInv, TypeOK', NEW o \in Held, NEW m \in Modes \ {"idle"},
         mode' = [mode EXCEPT ![o] = m],
         UNCHANGED <<reg, frames>>, ready' \in {ready, ready \cup {o}}
  PROVE  /\ Held' = Held
         /\ Nested'
         /\ \A p \in ready' : mode'[p] # "idle"
         /\ \A i \in DOMAIN frames' : SoundFrame(frames[i])'
         /\ o \in Ops /\ mode'[o] = m /\ \A p \in Held : p # o => mode'[p] = mode[p]
<1>1. /\ o \in Ops /\ o \notin Waiting /\ mode \in [Ops -> Modes]
      /\ mode[o] # "idle" /\ Nested /\ frames' = frames /\ ready \subseteq Ops
  BY DEF SInv, Held, TypeOK
<1>2. /\ Nested' /\ Held' = Held \cup {o}
      /\ \A i \in DOMAIN frames : \A p \in frames[i].held :
           p # o /\ mode'[p] = mode[p]
  BY <1>1, HeldStep
<1>3. \A i \in DOMAIN frames' : SoundFrame(frames[i])'
  BY <1>1, <1>2, WaitingSound DEF SInv
<1>4. \A p \in Held : p # o => mode'[p] = mode[p]
  BY <1>1 DEF Held
<1>5. \A p \in ready' : mode'[p] # "idle"
  BY <1>1 DEF SInv
<1> QED
  BY <1>1, <1>2, <1>3, <1>4, <1>5

\* An action that keeps every operand as it is, and the tables in step.
LEMMA SoundSame ==
  ASSUME SInv, TypeOK', UNCHANGED <<reg, mode, ready, frames>>,
         Sound(inventory, pinned, word, slot, Held)'
  PROVE  SInv'
<1>1. Nested' /\ \A i \in DOMAIN frames' : SoundFrame(frames[i])'
  BY WaitingSound DEF SInv, Nested
<1> QED
  BY <1>1 DEF SInv

\* What the code generators do with an operand they hold.
LEMMA SoundClient ==
  ASSUME SInv, TypeOK', NEW o \in Ops,
         \/ Lock(o) \/ MarkLive(o) \/ Compute(o) \/ ForceSpill(o) \/ Ensure(o)
  PROVE  SInv'
<1>1. o \in Held
  BY DEF Lock, MarkLive, Compute, ForceSpill, Ensure
<1>2. /\ mode \in [Ops -> Modes] /\ mode[o] # "idle" /\ reg[o] \in Regs
      /\ word \in [Regs -> Words] /\ slot \in [Regs -> Words \cup {NoSlot}]
      /\ \A p \in Held : p \in Ops /\ mode[p] # "idle" /\ reg[p] \in Regs
      /\ NoSlot \notin Ops
  <2>1. \A p \in Held : p \in Ops /\ mode[p] # "idle" /\ reg[p] \in Regs
    <3>1. /\ Last \in Nat /\ reg \in [Ops -> 0..Last]
          /\ \A p \in Ops : (mode[p] = "idle") <=> (reg[p] = 0)
      BY RegistersAssumption DEF SInv, TypeOK
    <3> QED
      BY <3>1 DEF Held, Regs
  <2> QED
    BY <1>1, <2>1, RegistersAssumption DEF SInv, TypeOK
<1>3. Sound(inventory, pinned, word, slot, Held)
  BY DEF SInv
<1>4. CASE Lock(o)
  <2>1. /\ mode' = [mode EXCEPT ![o] = "locked"] /\ mode[o] = "plain"
        /\ UNCHANGED <<reg, ready, frames, pinned, word, slot>>
        /\ inventory' = inventory \cup {reg[o]}
    BY <1>4 DEF Lock, machine
  <2>2. "locked" \in Modes \ {"idle"}
    BY DEF Modes
  <2>3. /\ Held' = Held /\ Nested' /\ \A p \in ready' : mode'[p] # "idle"
        /\ \A i \in DOMAIN frames' : SoundFrame(frames[i])'
        /\ mode'[o] = "locked" /\ \A p \in Held : p # o => mode'[p] = mode[p]
    BY <1>1, <2>1, <2>2, SoundOwn
  <2>4. Sound(inventory, pinned, word, slot, Held)'
    BY <1>1, <1>3, <2>1, <2>3 DEF Sound
  <2> QED
    BY <2>3, <2>4 DEF SInv
<1>5. CASE MarkLive(o)
  <2>1. UNCHANGED <<inventory, pinned, machine, clients, frames>>
    BY <1>5 DEF MarkLive
  <2>2. Sound(inventory, pinned, word, slot, Held)'
    BY <1>3, <2>1 DEF Sound, machine, clients, Held, Waiting
  <2> QED
    BY <2>1, <2>2, SoundSame DEF clients
<1>6. CASE Compute(o)
  <2>1. /\ mode' = [mode EXCEPT ![o] = mode[o]] /\ o \notin ready
        /\ UNCHANGED <<reg, frames, inventory, pinned, slot, mode>>
        /\ word' = [word EXCEPT ![reg[o]] = o]
        /\ ready' = ready \cup {o}
    BY <1>2, <1>6 DEF Compute, allocator
  <2>2. mode[o] \in Modes \ {"idle"}
    BY <1>2
  <2>3. /\ Held' = Held /\ Nested' /\ \A p \in ready' : mode'[p] # "idle"
        /\ \A i \in DOMAIN frames' : SoundFrame(frames[i])'
    BY <1>1, <2>1, <2>2, SoundOwn
  <2>4. \A p \in Held : p # o => reg[p] # reg[o]
    BY <1>1, <1>3 DEF Sound
  <2>5. word'[reg[o]] = o /\ \A p \in Held : p # o => word'[reg[p]] = word[reg[p]]
    BY <1>2, <2>1, <2>4
  <2>6. Sound(inventory, pinned, word, slot, Held)'
    BY <1>1, <1>3, <2>1, <2>3, <2>5 DEF Sound
  <2> QED
    BY <2>3, <2>6 DEF SInv
<1>7. CASE ForceSpill(o)
  <2>1. /\ UNCHANGED <<reg, mode, ready, frames, pinned, word>>
        /\ slot' = [slot EXCEPT ![reg[o]] = word[reg[o]]]
        /\ inventory' = inventory \ {reg[o]}
        /\ o \in ready /\ mode[o] = "pinned" /\ slot[reg[o]] = NoSlot
    BY <1>7 DEF ForceSpill, clients
  <2>2. /\ \A p \in Held : p # o => reg[p] # reg[o]
        /\ word[reg[o]] = o /\ reg[o] \in pinned
    BY <1>1, <1>3, <2>1 DEF Sound
  <2>3. slot'[reg[o]] = o /\ \A r \in Regs \ {reg[o]} : slot'[r] = slot[r]
    BY <1>2, <2>1, <2>2
  <2>4. Held' = Held
    BY <2>1 DEF Held, Waiting
  <2>5. Sound(inventory, pinned, word, slot, Held)'
    BY <1>1, <1>2, <1>3, <2>1, <2>2, <2>3, <2>4 DEF Sound
  <2> QED
    BY <2>1, <2>5, SoundSame
<1>8. CASE Ensure(o)
  <2>1. /\ UNCHANGED <<reg, mode, ready, frames, pinned>>
        /\ word' = [word EXCEPT ![reg[o]] = slot[reg[o]]]
        /\ slot' = [slot EXCEPT ![reg[o]] = NoSlot]
        /\ inventory' = inventory \cup {reg[o]}
        /\ slot[reg[o]] # NoSlot
    BY <1>8 DEF Ensure, clients
  <2>2. /\ \A p \in Held : p # o => reg[p] # reg[o]
        /\ slot[reg[o]] = o
    BY <1>1, <1>3, <2>1 DEF Sound
  <2>3. /\ slot'[reg[o]] = NoSlot /\ word'[reg[o]] = o
        /\ \A r \in Regs \ {reg[o]} : slot'[r] = slot[r] /\ word'[r] = word[r]
    BY <1>2, <2>1, <2>2
  <2>4. Held' = Held
    BY <2>1 DEF Held, Waiting
  <2>5. Sound(inventory, pinned, word, slot, Held)'
    BY <1>1, <1>2, <1>3, <2>1, <2>2, <2>3, <2>4 DEF Sound
  <2> QED
    BY <2>1, <2>5, SoundSame
<1> QED
  BY <1>4, <1>5, <1>6, <1>7, <1>8

\* Giving a register back frees it, its pin and its slot, and no other's.
LEMMA SoundRelease ==
  ASSUME SInv, TypeOK', NEW o \in Ops, Release(o)
  PROVE  SInv'
<1>1. /\ o \in Held /\ o \notin Waiting /\ mode \in [Ops -> Modes]
      /\ Nested /\ frames' = frames /\ mode' = [mode EXCEPT ![o] = "idle"]
      /\ reg \in [Ops -> 0..Last] /\ reg' = [reg EXCEPT ![o] = 0]
      /\ pinned' = IF mode[o] = "pinned" THEN pinned \ {reg[o]} ELSE pinned
      /\ inventory' = inventory \ {reg[o]}
      /\ slot' = [slot EXCEPT ![reg[o]] = NoSlot]
      /\ slot \in [Regs -> Words \cup {NoSlot}] /\ pinned \subseteq Regs
      /\ ready' = ready \ {o} /\ ready \subseteq Ops
      /\ word \in [Regs -> Words] /\ word' = [word EXCEPT ![reg[o]] = Junk]
  BY DEF SInv, Held, TypeOK, Release, Unlock
<1>2. /\ Nested' /\ Held' = Held \ {o}
      /\ \A i \in DOMAIN frames : \A p \in frames[i].held :
           p # o /\ mode'[p] = mode[p]
  BY <1>1, HeldStep DEF Modes
<1>3. \A i \in DOMAIN frames : \A p \in frames[i].held : reg'[p] = reg[p]
  BY <1>1, <1>2 DEF Nested
<1>4. \A i \in DOMAIN frames' : SoundFrame(frames[i])'
  BY <1>1, <1>2, <1>3, WaitingSound DEF SInv
<1>5. \A p \in Held \ {o} : /\ mode'[p] = mode[p] /\ reg'[p] = reg[p]
                            /\ reg[p] # reg[o] /\ reg[p] \in Regs
  BY <1>1 DEF Held, SInv, Sound, TypeOK, Regs
<1>6. /\ \A p \in Held : mode[p] = "pinned" <=> reg[p] \in pinned
      /\ reg[o] \in Regs
  BY <1>1 DEF SInv, Sound, Held, TypeOK, Regs
<1>7. \A r \in Regs : /\ slot'[r] = IF r = reg[o] THEN NoSlot ELSE slot[r]
                      /\ r # reg[o] => word'[r] = word[r]
  BY <1>1
<1>8. Sound(inventory, pinned, word, slot, Held)'
  BY <1>1, <1>2, <1>5, <1>6, <1>7 DEF SInv, Sound
<1>9. \A p \in ready' : mode'[p] # "idle"
  BY <1>1 DEF SInv
<1> QED
  BY <1>2, <1>4, <1>8, <1>9 DEF SInv

\* A call leaves the values in their slots.
LEMMA SoundCall ==
  ASSUME SInv, TypeOK', Call
  PROVE  SInv'
<1>1. /\ UNCHANGED <<inventory, pinned, slot, reg, mode, ready, frames>>
      /\ \A o \in Held \cap ready : slot[reg[o]] # NoSlot
  BY DEF Call, allocator, clients
<1>2. Held' = Held
  BY <1>1 DEF Held, Waiting
<1>3. Sound(inventory, pinned, word, slot, Held)'
  BY <1>1, <1>2 DEF SInv, Sound
<1> QED
  BY <1>1, <1>3, SoundSame

\* A nested function begins with no register taken.
LEMMA SoundBegin ==
  ASSUME SInv, TypeOK', BeginFunction
  PROVE  SInv'
<1> DEFINE n == Len(frames) + 1
           f == [inventory |-> inventory, pinned |-> pinned,
                 distance |-> distance, word |-> word, slot |-> slot,
                 held |-> Held]
<1>1. f \in Frame
  BY DEF Frame, SInv, TypeOK, Held
<1>2. /\ frames \in Seq(Frame) /\ frames' = Append(frames, f)
      /\ UNCHANGED <<reg, mode, ready>>
      /\ inventory' = {} /\ pinned' = {}
      /\ slot' = [r \in Regs |-> NoSlot]
  BY DEF SInv, TypeOK, BeginFunction, clients
<1>3. SoundFrame(f)
  BY DEF SoundFrame, SInv
<1>4. f.held = Held
  OBVIOUS
<1> HIDE DEF f
<1>5. /\ DOMAIN frames' = DOMAIN frames \cup {n} /\ n \notin DOMAIN frames
      /\ frames'[n] = f
      /\ \A i \in DOMAIN frames : frames'[i] = frames[i]
  BY <1>1, <1>2, AppendProperties, LenProperties
<1> HIDE DEF n
<1>6. \A i \in DOMAIN frames : frames[i].held \cap Held = {}
  BY DEF Held, Waiting
<1>7. Nested'
  <2>1. \A i \in DOMAIN frames' : \A o \in frames'[i].held :
          o \in Ops /\ mode'[o] # "idle"
    BY <1>2, <1>4, <1>5 DEF SInv, Nested, Held
  <2>2. \A i, j \in DOMAIN frames' :
          i # j => frames'[i].held \cap frames'[j].held = {}
    BY <1>4, <1>5, <1>6 DEF SInv, Nested
  <2> QED
    BY <2>1, <2>2 DEF Nested
<1>8. \A i \in DOMAIN frames' : SoundFrame(frames'[i])
  BY <1>3, <1>5 DEF SInv
<1>9. Held' = {}
  <2>1. Waiting \subseteq Waiting'
    BY <1>5 DEF Waiting
  <2>2. Held \subseteq Waiting'
    BY <1>4, <1>5 DEF Waiting
  <2> QED
    BY <1>2, <2>1, <2>2 DEF Held
<1>10. Sound(inventory, pinned, word, slot, Held)'
  BY <1>2, <1>9 DEF Sound
<1> QED
  BY <1>2, <1>7, <1>8, <1>10 DEF SInv, SoundFrame, Sound

\* At its end the operands that waited are back.
LEMMA SoundEnd ==
  ASSUME SInv, TypeOK', EndFunction
  PROVE  SInv'
<1> DEFINE f == frames[Len(frames)]
<1>1. /\ UNCHANGED <<reg, mode, ready>>
      /\ inventory' = f.inventory /\ pinned' = f.pinned
      /\ word' = f.word /\ slot' = f.slot
  BY DEF EndFunction, clients
<1>2. /\ Nested' /\ Held' = f.held /\ SoundFrame(f)
      /\ \A i \in DOMAIN frames' : SoundFrame(frames'[i])
  BY HeldEnd DEF SInv
<1> HIDE DEF f
<1>3. Sound(inventory, pinned, word, slot, Held)'
  BY <1>1, <1>2 DEF SoundFrame, Sound
<1> QED
  BY <1>1, <1>2, <1>3 DEF SInv, SoundFrame, Sound

\* Every step keeps the values.
LEMMA SoundStep ==
  ASSUME SInv, program.held <= Last, [Next]_vars
  PROVE  SInv'
<1>0. TypeOK'
  BY TypeStep DEF SInv
<1>1. ASSUME UNCHANGED <<inventory, pinned, machine, clients, frames>>
      PROVE  SInv'
  BY <1>0, <1>1, SoundSame
     DEF SInv, Sound, Held, Waiting, machine, clients
<1>2. ASSUME NEW o \in Ops, AllocatePlain(o)
      PROVE  SInv'
  BY <1>0, <1>2, SoundAllocate DEF AllocatePlain
<1>3. ASSUME NEW o \in Ops, AllocatePinned(o)
      PROVE  SInv'
  BY <1>0, <1>3, SoundAllocate DEF AllocatePinned
<1>4. ASSUME NEW o \in Ops, Release(o)
      PROVE  SInv'
  BY <1>0, <1>4, SoundRelease
<1>5. ASSUME NEW r \in Regs, Instruction(r)
      PROVE  SInv'
  BY <1>1, <1>5 DEF Instruction
<1>6. CASE UNCHANGED vars
  BY <1>1, <1>6 DEF vars, allocator
<1> QED
  BY <1>0, <1>2, <1>3, <1>4, <1>5, <1>6,
     SoundClient, SoundCall, SoundBegin, SoundEnd DEF Next

\* So they are kept always.
LEMMA SoundAlways == Spec => [](program.held <= Last => SInv)
<1>1. Init => SInv
  <2> SUFFICES ASSUME Init PROVE SInv
    OBVIOUS
  <2>1. TypeOK
    BY RegistersAssumption, EmptySeq DEF Init, TypeOK, Modes, Words
  <2>2. /\ DOMAIN frames = {} /\ Held = {} /\ ready = {}
        /\ inventory = {} /\ pinned = {} /\ slot = [r \in Regs |-> NoSlot]
    BY DEF Init, Held
  <2> QED
    BY <2>1, <2>2 DEF SInv, Nested, Sound
<1>2. (program.held <= Last => SInv) /\ [Next]_vars => (program.held <= Last => SInv)'
  <2>1. [Next]_vars => program' = program
    BY DEF Next, vars
  <2> QED
    BY <2>1, SoundStep
<1> QED
  BY <1>1, <1>2, PTL DEF Spec

\* A function that holds no more operands than there are registers has each of
\* them in a register of its own (src/register.c, allocate_register).
THEOREM OwnRegisterCorrect == Spec => []OwnRegister
<1>1. (program.held <= Last => SInv) => OwnRegister
  BY DEF SInv, Sound, OwnRegister
<1> QED
  BY <1>1, SoundAlways, PTL

\* And it finds in it, or in its slot, the value it computed: after a call, after
\* a forced spill, and after a function defined inside the expression
\* (src/node/function.c, node_function_def).
THEOREM ValuesCorrect == Spec => []ValuesKept
<1>1. (program.held <= Last => SInv) => ValuesKept
  BY DEF SInv, Sound, ValuesKept, ValueKept
<1> QED
  BY <1>1, SoundAlways, PTL
=============================================================================
