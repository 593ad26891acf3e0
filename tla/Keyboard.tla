------------------------------ MODULE Keyboard ------------------------------
(***************************************************************************)
(* The keyboard decoder (src/src/runtime/v32kbd.s).  The keyboard is a gamepad *)
(* whose controls show one event at a time, on alternating sides of the    *)
(* Left/Right pair, until the next.  It is read once a frame by the first  *)
(* call of the program, and again before the frame ends.                   *)
(*                                                                         *)
(* kbd is the decoder's memory.  The device and its user are the           *)
(* environment: what shows changes only between two frames.  A character   *)
(* with no key of its own comes as two events, a prefix and a payload.     *)
(***************************************************************************)
EXTENDS Integers, Sequences, FiniteSets, DeviceFrames

CONSTANTS
  Keys,          \* key codes
  Letters,       \* those that caps lock changes
  Shifts,        \* the shift keys
  Caps,          \* the caps lock key
  High, Low,     \* the prefixes, PAGE_HIGH and PAGE_LOW
  Payloads,      \* codes that come after a prefix, any of the others among them
  Nul,           \* payload 0
  Size,          \* V32KBD_QUEUE_SIZE
  Timeout,       \* frames a prefix waits for its payload, 30
  MaxFrame, MaxEvents, MaxPlugs   \* bounds of a run

ASSUME KeyboardAssumption ==
  /\ Shifts \subseteq Keys /\ Letters \subseteq Keys
  /\ IsFiniteSet(Keys)
  /\ Caps \in Keys
  /\ {High, Low, Nul} \cap Keys = {} /\ Low \notin {High, Nul}
  /\ Size \in Nat \ {0}
  /\ Timeout \in Nat
  /\ {MaxFrame, MaxEvents, MaxPlugs} \subseteq Nat

VARIABLES
  kbd,           \* the decoder
  answer,        \* what the call of the program returned: nothing or an event
  plugged, side, shown,      \* what the gamepad port shows
  keys,          \* keys the user holds down
  owed,          \* the prefix whose payload is still to come, and its frame
  lamp,          \* caps lock as the user has it since the decoder started over
  stale,         \* keys down when the device was unplugged
  missed,        \* keys down when the decoder started over
  sent,          \* what the device sent since then
  plugs          \* times it was plugged in

device == <<plugged, side, shown>>
user   == <<keys, owed, lamp, stale, missed, sent, plugs>>
vars   == <<kbd, answer, frame, phase, device, user>>

Prefixes == {High, Low}

None == [prefix |-> "none", at |-> 0]

Event(kind, what, upper) == [kind |-> kind, what |-> what, upper |-> upper]

\* __v32kbd_symbol: whether a key types its upper character.
Upper(c, down, caps) ==
  (down \cap Shifts # {}) # (caps /\ c \in Letters)

-----------------------------------------------------------------------------
(***************************************************************************)
(* Decoding.  k is the decoder's memory before.                            *)
(***************************************************************************)
Down(k) == {c \in Keys : k.down[c] >= 0}

\* An event is put in the queue, or dropped when it is full.
Enqueue(k, e) ==
  LET logged == [k EXCEPT !.log = Append(@, e)]
  IN IF k.qcount >= Size
     THEN logged
     ELSE [logged EXCEPT !.ring = [@ EXCEPT ![(k.qhead + k.qcount) % Size] = e],
                         !.qcount = @ + 1]

PressAgain(k, c, visible) ==   \* mutant: a key already down is counted again
  LET pressed == [k EXCEPT
        !.held = @ + 1,
        !.down = [@ EXCEPT ![c] = visible],
        !.anyp = visible,
        !.caps = IF c = Caps THEN ~@ ELSE @]
  IN Enqueue(pressed, Event("press", c, Upper(c, Down(pressed), pressed.caps)))

Press(k, c, visible) ==
  LET pressed == [k EXCEPT
        !.held = IF c \in Down(k) THEN @ ELSE @ + 1,
        !.down = [@ EXCEPT ![c] = visible],
        !.anyp = visible,
        !.caps = IF c = Caps THEN ~@ ELSE @]
  IN Enqueue(pressed, Event("press", c, Upper(c, Down(pressed), pressed.caps)))

Release(k, c) ==
  Enqueue([k EXCEPT !.held = IF c \in Down(k) THEN @ - 1 ELSE @,
                    !.down = [@ EXCEPT ![c] = -1]],
          Event("release", c, FALSE))

\* A prefix and its payload make a character; character 0 is nothing.
Character(k, p, c) ==
  IF p = Low /\ c = Nul THEN k ELSE Enqueue(k, Event("text", <<p, c>>, FALSE))

\* An event that is no payload.
Regular(k, visible) ==
  CASE shown.code \in Prefixes ->
         [k EXCEPT !.page = [prefix |-> shown.code, at |-> frame]]
    [] shown.code \in Keys /\ shown.pressed  -> Press(k, shown.code, visible)
    [] shown.code \in Keys /\ ~shown.pressed -> Release(k, shown.code)
    [] OTHER -> k

DecodeEarly(k, visible) ==   \* mutant: the prefix is given up a frame early
  LET seen == [k EXCEPT !.strobe = side, !.page = None]
  IN IF k.page # None /\ frame - k.page.at < Timeout
     THEN Character(seen, k.page.prefix, shown.code)
     ELSE Regular(seen, visible)

\* A new event: a payload if a prefix is waiting for it, and not too long.
Decode(k, visible) ==
  LET seen == [k EXCEPT !.strobe = side, !.page = None]
  IN IF k.page # None /\ frame - k.page.at <= Timeout
     THEN Character(seen, k.page.prefix, shown.code)
     ELSE Regular(seen, visible)

PlugKept(k) ==   \* mutant: the side seen before is kept when the device is back
  [k EXCEPT !.conn = plugged]

\* A device just plugged in starts its sides over and has no payload to give.
Plug(k) ==
  IF plugged /\ ~k.conn
  THEN [k EXCEPT !.conn = TRUE, !.strobe = 0, !.page = None]
  ELSE [k EXCEPT !.conn = plugged]

\* __v32kbd_poll
Poll(k, visible) ==
  LET here == Plug([k EXCEPT !.polled = frame])
  IN IF side \in {0, here.strobe} THEN here ELSE Decode(here, visible)

\* __v32kbd_update, which every call of the program begins with
Update(k) == IF k.polled = frame THEN k ELSE Poll(k, frame)

\* __v32kbd_reset
Reset(k) ==
  [k EXCEPT !.down = [c \in Keys |-> -1], !.polled = -1, !.anyp = -1,
            !.caps = FALSE, !.held = 0, !.qhead = 0, !.qcount = 0,
            !.page = None, !.conn = plugged, !.strobe = side, !.log = <<>>]

-----------------------------------------------------------------------------
(***************************************************************************)
(* Calls of the program.                                                   *)
(***************************************************************************)
Queue(k) == [i \in 1..k.qcount |-> k.ring[(k.qhead + i - 1) % Size]]

Skip(k, n) == [k EXCEPT !.qhead = (@ + n) % Size, !.qcount = @ - n]

\* The entries of a queue that are of the kinds asked for.
Wanted(q, kinds) == {i \in DOMAIN q : q[i].kind \in kinds}

Program(k, result) ==
  /\ phase = "program"
  /\ kbd' = k
  /\ answer' = result
  /\ UNCHANGED <<frame, phase, device>>

\* key(), keyp(), kbd.capslock(), and the top of a frame of the drivers
Ask == Program(Update(kbd), <<>>) /\ UNCHANGED user

ReadShort(kinds) ==   \* mutant: the head moves on by one entry only
  LET k == Update(kbd)
      q == Queue(k)
      mine == Wanted(q, kinds)
  IN \/ mine = {} /\ Program(Skip(k, k.qcount), <<>>)
     \/ \E i \in mine : /\ \A j \in mine : i <= j
                        /\ Program(Skip(k, 1), <<q[i]>>)

\* The loop of __builtin_v32kbd_read: entries of other kinds are skipped.
ReadOf(kinds) ==
  LET k == Update(kbd)
      q == Queue(k)
      mine == Wanted(q, kinds)
  IN \/ mine = {} /\ Program(Skip(k, k.qcount), <<>>)
     \/ \E i \in mine : /\ \A j \in mine : i <= j
                        /\ Program(Skip(k, i), <<q[i]>>)

\* kbd.read()
Read == ReadOf({"press", "text"}) /\ UNCHANGED user

\* kbd.event()
NextEvent == ReadOf({"press", "release"}) /\ UNCHANGED user

\* kbd.clear()
Clear == Program([Update(kbd) EXCEPT !.qcount = 0], <<>>) /\ UNCHANGED user

\* kbd.port(n), not between a prefix and its payload
Port ==
  /\ owed = None
  /\ Program(Reset(kbd), <<>>)
  /\ lamp' = FALSE
  /\ stale' = {}
  /\ missed' = keys
  /\ sent' = <<>>
  /\ UNCHANGED <<keys, owed, plugs>>

\* __v32kbd_frame_end, before the WAIT of the frame
FrameEnd ==
  /\ phase = "program"
  /\ frame < MaxFrame
  /\ kbd' = Poll(kbd, frame + 1)
  /\ phase' = "ended"
  /\ answer' = <<>>
  /\ UNCHANGED <<frame, device, user>>

-----------------------------------------------------------------------------
(***************************************************************************)
(* The device, between two frames.                                         *)
(***************************************************************************)
NextFrame ==
  /\ phase = "ended"
  /\ frame' = frame + 1
  /\ phase' = "program"
  /\ UNCHANGED <<kbd, answer>>

Show(code, pressed) ==
  /\ plugged
  /\ side' = IF side = 1 THEN 2 ELSE 1
  /\ shown' = [code |-> code, pressed |-> pressed]
  /\ UNCHANGED <<plugged, plugs>>

Sends(e) ==
  /\ Len(sent) < MaxEvents
  /\ sent' = Append(sent, e)

\* A prefix whose payload got lost is behind before the next event comes.
Regularly == owed = None \/ frame + 1 - owed.at > Timeout

Believed == (keys \ missed) \cup stale

UserPress(c) ==
  /\ NextFrame /\ Regularly
  /\ c \notin keys
  /\ Show(c, TRUE)
  /\ keys' = keys \cup {c}
  /\ lamp' = IF c = Caps THEN ~lamp ELSE lamp
  /\ Sends(Event("press", c, Upper(c, Believed \cup {c}, lamp')))
  /\ owed' = None
  /\ stale' = stale \ {c}
  /\ missed' = missed \ {c}

UserRelease(c) ==
  /\ NextFrame /\ Regularly
  /\ c \in keys
  /\ Show(c, FALSE)
  /\ keys' = keys \ {c}
  /\ Sends(Event("release", c, FALSE))
  /\ owed' = None
  /\ stale' = stale \ {c}
  /\ missed' = missed \ {c}
  /\ UNCHANGED lamp

UserPrefix(p) ==
  /\ NextFrame /\ Regularly
  /\ Show(p, FALSE)
  /\ owed' = [prefix |-> p, at |-> frame + 1]
  /\ UNCHANGED <<keys, lamp, stale, missed, sent>>

UserPayload(c) ==
  /\ NextFrame /\ owed # None /\ frame + 1 - owed.at <= Timeout
  /\ Show(c, FALSE)
  /\ IF owed.prefix = Low /\ c = Nul
     THEN UNCHANGED sent
     ELSE Sends(Event("text", <<owed.prefix, c>>, FALSE))
  /\ owed' = None
  /\ UNCHANGED <<keys, lamp, stale, missed>>

Idle == NextFrame /\ UNCHANGED <<device, user>>

\* What the user does with the keys of an unplugged device nobody sees.
Unplug ==
  /\ NextFrame /\ plugged
  /\ plugged' = FALSE /\ side' = 0
  /\ keys' = {}
  /\ owed' = None
  /\ stale' = Believed
  /\ missed' = {}
  /\ UNCHANGED <<shown, lamp, sent, plugs>>

PlugIn ==
  /\ NextFrame /\ ~plugged /\ plugs < MaxPlugs
  /\ plugged' = TRUE
  /\ plugs' = plugs + 1
  /\ UNCHANGED <<side, shown, keys, owed, lamp, stale, missed, sent>>

Init ==
  /\ frame = 0 /\ phase = "program" /\ answer = <<>>
  /\ plugged \in BOOLEAN /\ side \in (IF plugged THEN 0..2 ELSE {0})
  /\ shown = [code |-> Caps, pressed |-> FALSE]   \* nothing reads it before it changes
  /\ keys = {} /\ owed = None /\ lamp = FALSE
  /\ stale = {} /\ missed = {} /\ sent = <<>> /\ plugs = 0
  /\ \E ring \in [0..(Size - 1) -> {Event("release", Caps, FALSE)}] :
       kbd = [strobe |-> side, polled |-> -1, caps |-> FALSE, held |-> 0,
              anyp |-> -1, page |-> None, conn |-> plugged,
              down |-> [c \in Keys |-> -1],
              ring |-> ring, qhead |-> 0, qcount |-> 0, log |-> <<>>]

Next ==
  \/ Ask \/ Read \/ NextEvent \/ Clear \/ Port \/ FrameEnd
  \/ \E c \in Keys : UserPress(c) \/ UserRelease(c)
  \/ \E p \in Prefixes : UserPrefix(p)
  \/ \E c \in Payloads : UserPayload(c)
  \/ Idle \/ Unplug \/ PlugIn

Spec == Init /\ [][Next]_vars

-----------------------------------------------------------------------------
Codes     == Keys \cup Prefixes \cup Payloads
KeyEvents == [kind : {"press", "release"}, what : Keys, upper : BOOLEAN]
Texts     == [kind : {"text"}, what : Prefixes \X Codes, upper : {FALSE}]
Events    == KeyEvents \cup Texts

Waits == {None} \cup [prefix : Prefixes, at : 0..MaxFrame]

Decoder ==
  [strobe : 0..2, polled : -1..MaxFrame, caps : BOOLEAN, held : Int,
   anyp : -1..MaxFrame, page : Waits, conn : BOOLEAN,
   down : [Keys -> -1..MaxFrame],
   ring : [0..(Size - 1) -> Events], qhead : 0..(Size - 1), qcount : 0..Size,
   log : Seq(Events)]

TypeOK ==
  /\ kbd \in Decoder
  /\ answer \in {<<>>} \cup {<<e>> : e \in Events}
  /\ frame \in 0..MaxFrame
  /\ phase \in {"program", "ended"}
  /\ plugged \in BOOLEAN
  /\ side \in 0..2
  /\ shown \in [code : Codes, pressed : BOOLEAN]
  /\ keys \subseteq Keys /\ stale \subseteq Keys /\ missed \subseteq Keys
  /\ owed \in Waits
  /\ lamp \in BOOLEAN
  /\ sent \in Seq(Events)
  /\ plugs \in 0..MaxPlugs

\* V32KBD_HELD, from which key() answers whether any key is down, is the number
\* of keys that are, whatever events were lost or repeated.
HeldCount == kbd.held = Cardinality(Down(kbd))

\* A keyboard read every frame loses no event, decodes none twice and none out
\* of order, and gives each letter the case it was typed in, across prefixes,
\* lost payloads and a device that comes back.
InOrder ==
  \/ kbd.log = sent
  \/ /\ phase = "program" /\ sent # <<>>
     /\ kbd.log = SubSeq(sent, 1, Len(sent) - 1)

\* At the end of a frame the keys down are those the user holds, except for
\* the keys of a device that went away and those held when all was forgotten:
\* a typed character, whatever its code, "never touches the held keys"
\* (src/src/runtime/v32kbd.s:44).
KeysMatch == phase = "ended" => Down(kbd) = Believed

\* The ring and its counters are the queue of KeyStream: kbd.read() and
\* kbd.event() answer with every event once, in order, unless it was dropped.
Stream == INSTANCE KeyStream WITH queue <- Queue(kbd), held <- Down(kbd)

ImplementsStream == Stream!Spec
=============================================================================
