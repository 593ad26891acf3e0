----------------------------- MODULE KeyStream -----------------------------
(***************************************************************************)
(* What kbd.read() and kbd.event() promise: the events of the keyboard, in  *)
(* their order, each once, from a queue that drops what comes while it is   *)
(* full; and, beside it, the set of the keys held down.                     *)
(***************************************************************************)
EXTENDS Naturals, Sequences

CONSTANTS
  Keys,          \* keys of the keyboard
  Events,        \* records with a kind, "press", "release" or "text", and a what
  Size           \* entries the queue has room for

VARIABLES
  queue,         \* events not read yet
  held,          \* keys down
  answer         \* what the program was given: nothing or one event

Put(q, e) == IF Len(q) < Size THEN Append(q, e) ELSE q

After(H, e) ==
  CASE e.kind = "press"   -> H \cup {e.what}
    [] e.kind = "release" -> H \ {e.what}
    [] OTHER              -> H

\* What the keyboard has for the program now: nothing or one event.
News == {<<>>} \cup {<<e>> : e \in Events}

WithNews(n) == IF n = <<>> THEN queue ELSE Put(queue, n[1])
HeldWith(n) == IF n = <<>> THEN held ELSE After(held, n[1])

Init == queue = <<>> /\ held = {} /\ answer = <<>>

\* The keyboard is looked at.
Look ==
  \E n \in News : queue' = WithNews(n) /\ held' = HeldWith(n) /\ answer' = <<>>

\* The program takes the first event of one of the kinds it asks for, if there
\* is one, and those before it are gone.
Take(kinds) ==
  \E n \in News :
    LET q == WithNews(n)
    IN /\ held' = HeldWith(n)
       /\ IF \E i \in DOMAIN q : q[i].kind \in kinds
          THEN \E i \in DOMAIN q :
                 /\ q[i].kind \in kinds
                 /\ \A j \in 1..(i - 1) : q[j].kind \notin kinds
                 /\ queue' = SubSeq(q, i + 1, Len(q))
                 /\ answer' = <<q[i]>>
          ELSE queue' = <<>> /\ answer' = <<>>

\* The events not read are dropped; the keys stay.
Drop ==
  \E n \in News : queue' = <<>> /\ held' = HeldWith(n) /\ answer' = <<>>

\* The keyboard moves to another port: all is forgotten.
StartOver == queue' = <<>> /\ held' = {} /\ answer' = <<>>

Next ==
  \/ Look
  \/ Take({"press", "text"}) \/ Take({"press", "release"})
  \/ Drop \/ StartOver

Spec == Init /\ [][Next]_<<queue, held, answer>>
=============================================================================
