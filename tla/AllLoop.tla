------------------------------ MODULE AllLoop ------------------------------
(***************************************************************************)
(* PICO-8's `for v in all(t)` and foreach(t, f) over a table of HybridTable *)
(* whose elements the body deletes and adds (src/runtime/pico8.s, all_step, *)
(* foreach, del, add; src/node/loop.c, node_for_all).  The loop's state is *)
(* an index and the element it handed out last; it goes on to the next     *)
(* index only if that element is still there.  A for loop takes the common *)
(* step inline, foreach always calls the routine.                          *)
(***************************************************************************)
EXTENDS HybridTable

VARIABLES
  phase,        \* "outside", "body" of the loop, or "ended"
  inlined,      \* is it a for loop, with the inline step, or foreach?
  index,        \* [BP-1] / __all_i: the index of the last element
  prev,         \* [BP-2] / __all_prev: that element
  visits,       \* how often each element was handed to the body
  kept,         \* the elements in 1..#t ever since the loop began
  early         \* has this turn deleted an element that was visited?

loopVars == <<phase, inlined, index, prev, visits, kept, early>>
allVars  == <<vars, loopVars>>

-----------------------------------------------------------------------------
\* __table_rawget_int, on a table without a metatable
Rawget(i) == IF i \in Index THEN Get(i) ELSE Nil

StepAdvancing(i, p) ==   \* mutant: the index goes on whatever t[i] is
  LET from == i + 1
      next == CHOOSE j \in from..(from + length) :
                /\ j > length \/ Rawget(j) # Nil
                /\ \A h \in from..(j - 1) : h <= length /\ Rawget(h) = Nil
  IN [element |-> IF next > length THEN Nil ELSE Rawget(next), index |-> next]

StepStaying(i, p) ==   \* mutant: the index never moves past a survivor
  LET next == CHOOSE j \in i..(i + length) :
                /\ j > length \/ Rawget(j) # Nil
                /\ \A h \in i..(j - 1) : h <= length /\ Rawget(h) = Nil
  IN [element |-> IF next > length THEN Nil ELSE Rawget(next), index |-> next]

\* __builtin_pico8_all_step(t, i, prev)
Step(i, p) ==
  LET from == IF Rawget(i) = p THEN i + 1 ELSE i
      next == CHOOSE j \in from..(from + length) :
                /\ j > length \/ Rawget(j) # Nil
                /\ \A h \in from..(j - 1) : h <= length /\ Rawget(h) = Nil
  IN [element |-> IF next > length THEN Nil ELSE Rawget(next), index |-> next]

Slow == [element |-> Nil, index |-> 0]

InlineStepUnbounded(i, p) ==   \* mutant: bounded by the array part, not by #t
  LET next == IF i <= capacity /\ array[i] = p THEN i + 1 ELSE i
  IN IF i > capacity \/ next > capacity \/ array[next] = Nil
     THEN Slow
     ELSE [element |-> array[next], index |-> next]

\* The inline step of node_for_all, Slow where it calls the routine: it reads
\* the array part only, within #t.
InlineStep(i, p) ==
  LET limit == IF length < capacity THEN length ELSE capacity
      next  == IF i <= limit /\ array[i] = p THEN i + 1 ELSE i
  IN IF i > limit \/ next > limit \/ array[next] = Nil
     THEN Slow
     ELSE [element |-> array[next], index |-> next]

NextStep(i, p, inline) ==
  IF inline /\ InlineStep(i, p) # Slow THEN InlineStep(i, p) ELSE Step(i, p)

-----------------------------------------------------------------------------
AllInit ==
  /\ Init
  /\ phase = "outside"
  /\ inlined \in BOOLEAN
  /\ index = 1
  /\ prev = Nil
  /\ visits = [v \in Values |-> 0]
  /\ kept = {}
  /\ early = FALSE

Elements == {Get(i) : i \in 1..length}

\* The objects of a list are distinct: one is stored where none is twice.
Fresh(v) == v = Nil \/ \A k \in Index : Get(k) # v

\* Outside the loop any field may be written.
Write ==
  /\ phase = "outside"
  /\ \E k \in Index, v \in Cells : Fresh(v) /\ Set(k, v)
  /\ UNCHANGED loopVars

\* nil ends the loop; it keeps no element then.  A second visit is enough to
\* know, so visits are counted up to 2.
TakeStep(i, p, inline) ==
  LET step == NextStep(i, p, inline)
  IN /\ phase' = IF step.element = Nil THEN "ended" ELSE "body"
     /\ index' = step.index
     /\ prev' = step.element
     /\ visits' = IF step.element = Nil \/ visits[step.element] = 2 THEN visits
                  ELSE [visits EXCEPT ![step.element] = @ + 1]
     /\ early' = FALSE
     /\ UNCHANGED vars

Begin ==
  /\ phase = "outside"
  /\ kept' = Elements
  /\ TakeStep(1, Nil, inlined)
  /\ UNCHANGED inlined

Turn ==
  /\ phase = "body"
  /\ TakeStep(index, prev, inlined)
  /\ UNCHANGED <<inlined, kept>>

\* del(t, v): the first element equal to v goes, the rest moves down.
Del(v) ==
  /\ v \in Elements
  /\ \E i \in 1..length :
       /\ Get(i) = v
       /\ \A j \in 1..(i - 1) : Get(j) # v
       /\ RemoveAt(i)

\* The body deletes an element.  Of those it has visited, the current one or
\* an earlier one, it deletes at most one a turn.
DelElement(v) ==
  /\ phase = "body"
  /\ visits[v] > 0 => ~early
  /\ Del(v)
  /\ kept' = kept \ {v}
  /\ early' = (early \/ visits[v] > 0)
  /\ UNCHANGED <<phase, inlined, index, prev, visits>>

\* The body calls add(t, v) or add(t, v, pos), which are table.insert, for a new
\* object.  It puts it past the current one, as one that moves the current one
\* up makes the loop hand out the one before it again, and it does not put the
\* current one back, which the loop would take for never having left.
AddElement(v, pos) ==
  /\ phase = "body"
  /\ Fresh(v)
  /\ pos # Nil => pos > index /\ v # prev
  /\ Insert(pos, v)
  /\ visits' = [visits EXCEPT ![v] = 0]
  /\ UNCHANGED <<phase, inlined, index, prev, kept, early>>

Leave ==
  /\ phase = "ended"
  /\ phase' = "outside"
  /\ inlined' \in BOOLEAN
  /\ index' = 1
  /\ prev' = Nil
  /\ visits' = [v \in Values |-> 0]
  /\ kept' = {}
  /\ early' = FALSE
  /\ UNCHANGED vars

AllNext ==
  \/ Write \/ Begin \/ Turn \/ Leave
  \/ \E v \in Values : DelElement(v)
  \/ \E v \in Values, pos \in Index \cup {Nil} : AddElement(v, pos)

AllSpec == AllInit /\ [][AllNext]_allVars /\ WF_allVars(Turn)

-----------------------------------------------------------------------------
\* Where the inline step does not hand over to the routine, it goes to the
\* element the routine would go to, wherever a loop stands in the table, and
\* whatever its body did to it
\* (testing/special/15_pico8_all_inline.lua: "the same visits as the runtime
\* step alone").
InlineAgrees ==
  \A i \in 1..(MaxIndex + 1), p \in Cells :
    InlineStep(i, p) \in {Slow, Step(i, p)}

\* Deleting elements, the current one included, never makes the loop hand an
\* element to its body twice.
VisitedOnce == \A v \in Values : visits[v] <= 1

\* Deleting an element never makes the loop skip another: those that stay in
\* the list from its beginning have all been visited when it ends.
NoneMissed == phase = "ended" => \A v \in kept : visits[v] >= 1

\* A loop whose body at last stops adding comes to its end.
LoopEnds ==
  (<>[][~ \E v \in Values, pos \in Index \cup {Nil} : AddElement(v, pos)]_allVars)
    => (phase = "body" ~> phase = "ended")
=============================================================================
