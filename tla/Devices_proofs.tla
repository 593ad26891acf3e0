--------------------------- MODULE Devices_proofs ---------------------------
(***************************************************************************)
(* What the decoders of the devices guarantee, whatever the devices and    *)
(* their users do: the keyboard's, for any keys and any length of its      *)
(* queue, and the mouse's, for any buttons, speeds, scales and places, and *)
(* however long the program runs.                                          *)
(***************************************************************************)
EXTENDS Keyboard, MouseState, FiniteSetTheorems, SequenceTheorems, TLAPS

M == INSTANCE Mouse

-----------------------------------------------------------------------------
(***************************************************************************)
(* The ring.                                                               *)
(***************************************************************************)

\* Positions beyond the end of the ring wrap around once.
LEMMA Wraps ==
  ASSUME NEW a \in 0..(2 * Size - 1)
  PROVE  /\ a % Size \in 0..(Size - 1)
         /\ a % Size = IF a < Size THEN a ELSE a - Size
  BY KeyboardAssumption

\* What the ring holds is a sequence of events, one for each entry counted.
LEMMA QueueSeq ==
  ASSUME NEW k \in Decoder
  PROVE  /\ Queue(k) \in Seq(Events)
         /\ Len(Queue(k)) = k.qcount
         /\ DOMAIN Queue(k) = 1..k.qcount
         /\ \A i \in 1..k.qcount : Queue(k)[i] = k.ring[(k.qhead + i - 1) % Size]
<1>1. /\ k.qcount \in 0..Size /\ k.qhead \in 0..(Size - 1)
      /\ k.ring \in [0..(Size - 1) -> Events]
  BY DEF Decoder
<1>2. \A i \in 1..k.qcount : (k.qhead + i - 1) % Size \in 0..(Size - 1)
  <2> TAKE i \in 1..k.qcount
  <2>1. k.qhead + i - 1 \in 0..(2 * Size - 1)
    BY <1>1, KeyboardAssumption
  <2> QED
    BY <2>1, Wraps
<1>3. \A i \in 1..k.qcount : k.ring[(k.qhead + i - 1) % Size] \in Events
  BY <1>1, <1>2
<1>4. k.qcount \in Nat
  BY <1>1, KeyboardAssumption
<1>5. Queue(k) \in [1..k.qcount -> Events]
  BY <1>3 DEF Queue
<1> HIDE DEF Queue
<1>6. Queue(k) \in Seq(Events)
  BY <1>4, <1>5, SeqDef
<1>7. DOMAIN Queue(k) = 1..k.qcount /\ DOMAIN Queue(k) = 1..Len(Queue(k))
      /\ Len(Queue(k)) \in Nat
  BY <1>5, <1>6, LenProperties
<1>8. Len(Queue(k)) = k.qcount
  BY <1>4, <1>7
<1>9. \A i \in 1..k.qcount : Queue(k)[i] = k.ring[(k.qhead + i - 1) % Size]
  BY DEF Queue
<1> QED
  BY <1>6, <1>7, <1>8, <1>9

\* Two entries of the queue are in two places of the ring.
LEMMA Apart ==
  ASSUME NEW h \in 0..(Size - 1), NEW a \in 0..(Size - 1), NEW b \in 0..(Size - 1),
         a < b
  PROVE  (h + a) % Size # (h + b) % Size
<1>1. \A c \in 0..(Size - 1) :
        (h + c) % Size = IF h + c < Size THEN h + c ELSE h + c - Size
  <2> TAKE c \in 0..(Size - 1)
  <2> DEFINE sum == h + c
  <2>1. sum \in 0..(2 * Size - 1)
    BY KeyboardAssumption
  <2> HIDE DEF sum
  <2>2. sum % Size = IF sum < Size THEN sum ELSE sum - Size
    BY <2>1, Wraps
  <2> QED
    BY <2>1, <2>2, KeyboardAssumption DEF sum
<1> QED
  BY <1>1, KeyboardAssumption

\* Wrapping around twice is wrapping around once.
LEMMA Onward ==
  ASSUME NEW h \in 0..(Size - 1), NEW n \in 0..Size, NEW a \in 0..(Size - 1),
         n + a < Size
  PROVE  (((h + n) % Size) + a) % Size = (h + n + a) % Size
<1>1. /\ Size \in Nat \ {0} /\ h + n \in 0..(2 * Size - 1)
      /\ h + n + a \in 0..(2 * Size - 1)
  BY KeyboardAssumption
<1>2. (h + n) % Size = IF h + n < Size THEN h + n ELSE h + n - Size
  BY <1>1, Wraps, SMTT(30)
<1>3. CASE h + n < Size
  BY <1>2, <1>3
<1>4. CASE h + n >= Size
  <2>1. /\ h + n - Size + a \in 0..(2 * Size - 1) /\ h + n - Size + a < Size
        /\ h + n + a >= Size
    BY <1>1, <1>4
  <2>2. /\ (h + n - Size + a) % Size = h + n - Size + a
        /\ (h + n + a) % Size = h + n + a - Size
    BY <1>1, <2>1, Wraps
  <2> QED
    BY <1>1, <1>2, <1>4, <2>2
<1> QED
  BY <1>1, <1>3, <1>4

\* An event that is not dropped comes after those waiting.
LEMMA Enqueued ==
  ASSUME NEW k \in Decoder, NEW e \in Events
  PROVE  /\ Enqueue(k, e) \in Decoder
         /\ Queue(Enqueue(k, e)) = Stream!Put(Queue(k), e)
         /\ Down(Enqueue(k, e)) = Down(k)
         /\ Enqueue(k, e).held = k.held
<1> DEFINE j == Enqueue(k, e)
           at == (k.qhead + k.qcount) % Size
<1>1. /\ k.qcount \in 0..Size /\ k.qhead \in 0..(Size - 1)
      /\ k.ring \in [0..(Size - 1) -> Events] /\ Size \in Nat \ {0}
      /\ k.log \in Seq(Events)
  BY KeyboardAssumption DEF Decoder
<1>2. Append(k.log, e) \in Seq(Events)
  BY <1>1
<1>3. CASE k.qcount >= Size
  <2>1. j = [k EXCEPT !.log = Append(@, e)]
    BY <1>3 DEF Enqueue
  <2>2. j \in Decoder /\ j.qcount = k.qcount /\ j.qhead = k.qhead
        /\ j.ring = k.ring /\ j.down = k.down /\ j.held = k.held
    BY <2>1, <1>2 DEF Decoder
  <2>3. Queue(j) = Queue(k)
    BY <2>2 DEF Queue
  <2>4. ~(Len(Queue(k)) < Size)
    BY <1>3, <1>1, QueueSeq
  <2> QED
    BY <2>2, <2>3, <2>4 DEF Down, Stream!Put
<1>4. CASE k.qcount < Size
  <2>1. at \in 0..(Size - 1)
    BY <1>1, <1>4, Wraps
  <2>2. j = [k EXCEPT !.log = Append(@, e), !.ring = [@ EXCEPT ![at] = e],
                      !.qcount = @ + 1]
    BY <1>4, <1>1 DEF Enqueue, Decoder
  <2>3. [k.ring EXCEPT ![at] = e] \in [0..(Size - 1) -> Events]
    BY <1>1
  <2>4. k.qcount + 1 \in 0..Size
    BY <1>1, <1>4
  <2> HIDE DEF at
  <2>5. /\ j \in Decoder /\ j.qcount = k.qcount + 1 /\ j.qhead = k.qhead
        /\ j.ring = [k.ring EXCEPT ![at] = e] /\ j.down = k.down /\ j.held = k.held
    BY <2>2, <2>3, <2>4, <1>2 DEF Decoder
  <2> HIDE DEF j
  <2>6. \A i \in 1..k.qcount : (k.qhead + i - 1) % Size # at
    <3> TAKE i \in 1..k.qcount
    <3>1. /\ i - 1 \in 0..(Size - 1) /\ k.qcount \in 0..(Size - 1)
          /\ i - 1 < k.qcount /\ k.qhead + i - 1 = k.qhead + (i - 1)
      BY <1>1, <1>4
    <3>2. (k.qhead + (i - 1)) % Size # (k.qhead + k.qcount) % Size
      BY <3>1, <1>1, Apart
    <3> QED
      BY <3>1, <3>2 DEF at
  <2>7. \A i \in 1..k.qcount : (k.qhead + i - 1) % Size \in 0..(Size - 1)
    <3> TAKE i \in 1..k.qcount
    <3>1. k.qhead + i - 1 \in 0..(2 * Size - 1)
      BY <1>1, <1>4
    <3> QED
      BY <3>1, Wraps
  <2>8. \A i \in 1..k.qcount : Queue(j)[i] = Queue(k)[i]
    <3> TAKE i \in 1..k.qcount
    <3>1. i \in 1..j.qcount
      BY <2>5, <1>1
    <3>2. Queue(j)[i] = j.ring[(j.qhead + i - 1) % Size]
      BY <3>1, <2>5, QueueSeq
    <3>3. Queue(k)[i] = k.ring[(k.qhead + i - 1) % Size]
      BY QueueSeq
    <3> QED
      BY <3>2, <3>3, <2>5, <2>6, <2>7, <1>1
  <2>9. Queue(j)[k.qcount + 1] = e
    <3>1. k.qcount + 1 \in 1..j.qcount
      BY <2>5, <1>1
    <3>2. Queue(j)[k.qcount + 1] = j.ring[(j.qhead + (k.qcount + 1) - 1) % Size]
      BY <3>1, <2>5, QueueSeq
    <3>3. (j.qhead + (k.qcount + 1) - 1) % Size = at
      BY <2>5, <1>1 DEF at
    <3> QED
      BY <3>2, <3>3, <2>5, <2>1, <1>1
  <2>10. /\ Queue(j) \in Seq(Events) /\ Len(Queue(j)) = k.qcount + 1
         /\ Queue(k) \in Seq(Events) /\ Len(Queue(k)) = k.qcount
    BY <2>5, QueueSeq
  <2>11. /\ Append(Queue(k), e) \in Seq(Events)
         /\ Len(Append(Queue(k), e)) = k.qcount + 1
         /\ \A i \in 1..k.qcount : Append(Queue(k), e)[i] = Queue(k)[i]
         /\ Append(Queue(k), e)[k.qcount + 1] = e
    BY <2>10, AppendProperties
  <2>12. \A i \in 1..(k.qcount + 1) : i \in 1..k.qcount \/ i = k.qcount + 1
    BY <1>1
  <2>13. Queue(j) = Append(Queue(k), e)
    BY <2>8, <2>9, <2>10, <2>11, <2>12, SeqEqual
  <2>14. Len(Queue(k)) < Size
    BY <2>10, <1>4
  <2> QED
    BY <2>5, <2>13, <2>14 DEF Down, Stream!Put, j
<1> QED
  BY <1>1, <1>3, <1>4

\* Skipping n entries leaves the rest of the queue.
LEMMA Skipped ==
  ASSUME NEW k \in Decoder, NEW n \in 0..k.qcount
  PROVE  /\ Skip(k, n) \in Decoder
         /\ Queue(Skip(k, n)) = SubSeq(Queue(k), n + 1, Len(Queue(k)))
         /\ Down(Skip(k, n)) = Down(k)
         /\ Skip(k, n).held = k.held
<1> DEFINE j == Skip(k, n)
           q == Queue(k)
<1>1. /\ k.qcount \in 0..Size /\ k.qhead \in 0..(Size - 1) /\ Size \in Nat \ {0}
      /\ n \in 0..k.qcount
  BY KeyboardAssumption DEF Decoder
<1>2. k.qhead + n \in 0..(2 * Size - 1)
  BY <1>1
<1>3. (k.qhead + n) % Size \in 0..(Size - 1) /\ k.qcount - n \in 0..Size
  BY <1>1, <1>2, Wraps
<1>4. /\ j \in Decoder /\ j.qhead = (k.qhead + n) % Size /\ j.qcount = k.qcount - n
      /\ j.ring = k.ring /\ j.down = k.down /\ j.held = k.held
  BY <1>3 DEF Skip, Decoder
<1> HIDE DEF j
<1>5. /\ q \in Seq(Events) /\ Len(q) = k.qcount
      /\ Queue(j) \in Seq(Events) /\ Len(Queue(j)) = k.qcount - n
  BY <1>4, QueueSeq
<1>6. \A i \in 1..(k.qcount - n) : Queue(j)[i] = q[n + i]
  <2> TAKE i \in 1..(k.qcount - n)
  <2>1. n + i \in 1..k.qcount
    BY <1>1
  <2>2. Queue(j)[i] = k.ring[(((k.qhead + n) % Size) + i - 1) % Size]
    BY <1>4, QueueSeq
  <2>3. q[n + i] = k.ring[(k.qhead + (n + i) - 1) % Size]
    BY <2>1, QueueSeq
  <2>4. (((k.qhead + n) % Size) + i - 1) % Size = (k.qhead + (n + i) - 1) % Size
    <3>1. i - 1 \in 0..(Size - 1) /\ n + (i - 1) < Size /\ n \in 0..Size
      BY <1>1
    <3>2. (((k.qhead + n) % Size) + (i - 1)) % Size = (k.qhead + n + (i - 1)) % Size
      BY <3>1, <1>1, Onward
    <3>3. /\ ((k.qhead + n) % Size) + (i - 1) = ((k.qhead + n) % Size) + i - 1
          /\ k.qhead + n + (i - 1) = k.qhead + (n + i) - 1
      BY <1>1, <1>3
    <3> QED
      BY <3>2, <3>3
  <2> QED
    BY <2>2, <2>3, <2>4
<1>7. /\ SubSeq(q, n + 1, k.qcount) \in Seq(Events)
      /\ Len(SubSeq(q, n + 1, k.qcount)) = k.qcount - n
      /\ \A i \in 1..(k.qcount - n) : SubSeq(q, n + 1, k.qcount)[i] = q[n + i]
  <2> DEFINE lo == n + 1
  <2>1. /\ lo \in Int /\ k.qcount \in Int
        /\ \A i \in lo..k.qcount : q[i] \in Events
    BY <1>1, <1>5, ElementOfSeq
  <2> HIDE DEF lo
  <2>2. /\ SubSeq(q, lo, k.qcount) \in Seq(Events)
        /\ Len(SubSeq(q, lo, k.qcount)) = IF lo <= k.qcount THEN k.qcount - lo + 1 ELSE 0
        /\ \A i \in 1..(k.qcount - lo + 1) :
             SubSeq(q, lo, k.qcount)[i] = q[lo + i - 1]
    BY <2>1, SubSeqProperties
  <2>3. /\ k.qcount - lo + 1 = k.qcount - n
        /\ \A i \in 1..(k.qcount - n) : lo + i - 1 = n + i
        /\ (IF lo <= k.qcount THEN k.qcount - lo + 1 ELSE 0) = k.qcount - n
    BY <1>1 DEF lo
  <2> QED
    BY <2>2, <2>3 DEF lo
<1>8. Queue(j) = SubSeq(q, n + 1, k.qcount)
  <2>1. PICK s : s = Queue(j)
    OBVIOUS
  <2>2. PICK r : r = SubSeq(q, n + 1, k.qcount)
    OBVIOUS
  <2>3. s \in Seq(Events) /\ r \in Seq(Events) /\ Len(s) = Len(r)
    BY <1>5, <1>7, <2>1, <2>2
  <2>4. \A i \in 1..Len(s) : s[i] = r[i]
    BY <1>5, <1>6, <1>7, <2>1, <2>2
  <2>5. s = r
    BY <2>3, <2>4, SeqEqual
  <2> QED
    BY <2>1, <2>2, <2>5
<1> QED
  BY <1>4, <1>5, <1>8 DEF Down, j
-----------------------------------------------------------------------------
(***************************************************************************)
(* Decoding.                                                               *)
(***************************************************************************)

\* The decoder's memory with the right count of keys.
Counted(k) == k \in Decoder /\ k.held = Cardinality(Down(k))

\* From k to j the keyboard had one event for the program, or none.
Heard(k, j) ==
  \/ Queue(j) = Queue(k) /\ Down(j) = Down(k)
  \/ \E e \in Events :
       Queue(j) = Stream!Put(Queue(k), e) /\ Down(j) = Stream!After(Down(k), e)

\* What the decoder and the world put together are events, and waiting for no
\* payload is a way to wait.
LEMMA Types ==
  /\ None \in Waits
  /\ \A c \in Keys, kind \in {"press", "release"}, upper \in BOOLEAN :
       Event(kind, c, upper) \in Events
  /\ \A p \in Prefixes, c \in Codes : Event("text", <<p, c>>, FALSE) \in Events
  /\ \A c, H, caps : Upper(c, H, caps) \in BOOLEAN
<1>1. None \in Waits
  BY DEF Waits
<1>2. \A c \in Keys, kind \in {"press", "release"}, upper \in BOOLEAN :
        Event(kind, c, upper) \in Events
  BY DEF Event, Events, KeyEvents
<1>3. \A p \in Prefixes, c \in Codes : Event("text", <<p, c>>, FALSE) \in Events
  BY DEF Event, Events, Texts
<1>4. \A c, H, caps : Upper(c, H, caps) \in BOOLEAN
  BY DEF Upper
<1> QED
  BY <1>1, <1>2, <1>3, <1>4

\* The keys down are finitely many keys.
LEMMA DownFinite ==
  ASSUME NEW k PROVE Down(k) \subseteq Keys /\ IsFiniteSet(Down(k))
<1>1. Down(k) \subseteq Keys
  BY DEF Down
<1> QED
  BY <1>1, KeyboardAssumption, FS_Subset

\* A key counts from its first press to its release.
LEMMA Pressed ==
  ASSUME NEW k, Counted(k), NEW c \in Keys, NEW when \in 0..MaxFrame
  PROVE  Counted(Press(k, c, when)) /\ Heard(k, Press(k, c, when))
<1> DEFINE held == IF c \in Down(k) THEN k.held ELSE k.held + 1
           down == [k.down EXCEPT ![c] = when]
           caps == IF c = Caps THEN ~k.caps ELSE k.caps
           p == [k EXCEPT !.held = held, !.down = down, !.anyp = when, !.caps = caps]
           e == Event("press", c, Upper(c, Down(p), p.caps))
           j == Enqueue(p, e)
<1>1. Press(k, c, when) = j
  BY DEF Press, Decoder, Counted
<1>2. k \in Decoder /\ k.held = Cardinality(Down(k)) /\ when \in -1..MaxFrame
  BY KeyboardAssumption DEF Counted
<1>3. held \in Int /\ down \in [Keys -> -1..MaxFrame] /\ caps \in BOOLEAN
  <2>1. k.caps \in BOOLEAN /\ k.held \in Int /\ k.down \in [Keys -> -1..MaxFrame]
    BY <1>2 DEF Decoder
  <2>2. caps \in BOOLEAN
    BY <2>1, Zenon
  <2>3. held \in Int
    BY <2>1
  <2>4. down \in [Keys -> -1..MaxFrame]
    BY <1>2, <2>1
  <2> QED
    BY <2>2, <2>3, <2>4
<1> HIDE DEF held, down, caps
<1>4. /\ p \in Decoder /\ p.held = held /\ p.down = down
      /\ p.ring = k.ring /\ p.qhead = k.qhead /\ p.qcount = k.qcount
  BY <1>2, <1>3 DEF Decoder
<1> HIDE DEF p
<1>5. Down(p) = Down(k) \cup {c}
  BY <1>2, <1>4 DEF Down, Decoder, down
<1>6. Queue(p) = Queue(k)
  BY <1>4 DEF Queue
<1>7. p.held = Cardinality(Down(p))
  BY <1>2, <1>4, <1>5, DownFinite, FS_AddElement DEF held
<1>8. e \in Events
  BY Types
<1>9. e.kind = "press" /\ e.what = c
  BY DEF Event
<1> HIDE DEF e
<1>10. /\ j \in Decoder /\ Queue(j) = Stream!Put(Queue(p), e)
      /\ Down(j) = Down(p) /\ j.held = p.held
  BY <1>4, <1>8, Enqueued
<1> HIDE DEF j
<1>11. Down(j) = Stream!After(Down(k), e)
  BY <1>5, <1>9, <1>10 DEF Stream!After
<1> QED
  BY <1>1, <1>6, <1>7, <1>8, <1>10, <1>11 DEF Counted, Heard

\* A key that was down stops counting when it is released.
LEMMA Released ==
  ASSUME NEW k, Counted(k), NEW c \in Keys
  PROVE  Counted(Release(k, c)) /\ Heard(k, Release(k, c))
<1> DEFINE held == IF c \in Down(k) THEN k.held - 1 ELSE k.held
           down == [k.down EXCEPT ![c] = -1]
           p == [k EXCEPT !.held = held, !.down = down]
           e == Event("release", c, FALSE)
           j == Enqueue(p, e)
<1>1. Release(k, c) = j
  BY DEF Release, Decoder, Counted
<1>2. k \in Decoder /\ k.held = Cardinality(Down(k)) /\ -1 \in -1..MaxFrame
  BY KeyboardAssumption DEF Counted
<1>3. held \in Int /\ down \in [Keys -> -1..MaxFrame]
  BY <1>2 DEF Decoder
<1> HIDE DEF held, down
<1>4. /\ p \in Decoder /\ p.held = held /\ p.down = down
      /\ p.ring = k.ring /\ p.qhead = k.qhead /\ p.qcount = k.qcount
  BY <1>2, <1>3 DEF Decoder
<1> HIDE DEF p
<1>5. Down(p) = Down(k) \ {c}
  <2>1. /\ k.down \in [Keys -> -1..MaxFrame]
        /\ \A d \in Keys : p.down[d] = IF d = c THEN -1 ELSE k.down[d]
    BY <1>2, <1>4 DEF Decoder, down
  <2>2. ~(-1 >= 0)
    OBVIOUS
  <2> QED
    BY <2>1, <2>2, Zenon DEF Down
<1>6. Queue(p) = Queue(k)
  BY <1>4 DEF Queue
<1>7. p.held = Cardinality(Down(p))
  <2>1. Cardinality(Down(k) \ {c}) = IF c \in Down(k) THEN Cardinality(Down(k)) - 1
                                     ELSE Cardinality(Down(k))
    BY DownFinite, FS_RemoveElement
  <2> QED
    BY <1>2, <1>4, <1>5, <2>1 DEF held
<1>8. e \in Events
  BY Types
<1>9. e.kind = "release" /\ e.what = c
  BY DEF Event
<1> HIDE DEF e
<1>10. /\ j \in Decoder /\ Queue(j) = Stream!Put(Queue(p), e)
      /\ Down(j) = Down(p) /\ j.held = p.held
  BY <1>4, <1>8, Enqueued
<1> HIDE DEF j
<1>11. Down(j) = Stream!After(Down(k), e)
  BY <1>5, <1>9, <1>10 DEF Stream!After
<1> QED
  BY <1>1, <1>6, <1>7, <1>8, <1>10, <1>11 DEF Counted, Heard

\* A typed character changes the queue and no key.
LEMMA Typed ==
  ASSUME NEW k, Counted(k), NEW p \in Prefixes, NEW c \in Codes
  PROVE  Counted(Character(k, p, c)) /\ Heard(k, Character(k, p, c))
<1> DEFINE e == Event("text", <<p, c>>, FALSE)
           j == Enqueue(k, e)
<1>1. CASE p = Low /\ c = Nul
  BY <1>1 DEF Character, Heard
<1>2. CASE ~(p = Low /\ c = Nul)
  <2>1. Character(k, p, c) = j
    BY <1>2 DEF Character
  <2>2. e \in Events
    BY Types
  <2>3. e.kind = "text"
    BY DEF Event
  <2> HIDE DEF e
  <2>4. /\ j \in Decoder /\ Queue(j) = Stream!Put(Queue(k), e)
        /\ Down(j) = Down(k) /\ j.held = k.held
    BY <2>2, Enqueued DEF Counted
  <2> HIDE DEF j
  <2>5. Down(j) = Stream!After(Down(k), e)
    BY <2>3, <2>4 DEF Stream!After
  <2> QED
    BY <2>1, <2>2, <2>4, <2>5 DEF Counted, Heard
<1> QED
  BY <1>1, <1>2

\* A poll takes in one event or none.
LEMMA Polled ==
  ASSUME TypeOK, NEW k, Counted(k), NEW when \in 0..MaxFrame
  PROVE  Counted(Poll(k, when)) /\ Heard(k, Poll(k, when))
<1> DEFINE at == [k EXCEPT !.polled = frame]
           here == Plug(at)
           seen == [here EXCEPT !.strobe = side, !.page = None]
<1>1. /\ k \in Decoder /\ frame \in -1..MaxFrame /\ frame \in 0..MaxFrame
      /\ plugged \in BOOLEAN /\ side \in 0..2 /\ 0 \in 0..2
      /\ shown.code \in Codes
  BY KeyboardAssumption DEF Counted, TypeOK
<1>2. /\ at \in Decoder /\ at.ring = k.ring /\ at.qhead = k.qhead
      /\ at.qcount = k.qcount /\ at.down = k.down /\ at.held = k.held
  BY <1>1 DEF Decoder
<1> HIDE DEF at
<1>3. /\ here \in Decoder /\ here.ring = k.ring /\ here.qhead = k.qhead
      /\ here.qcount = k.qcount /\ here.down = k.down /\ here.held = k.held
  BY <1>1, <1>2, Types DEF Plug, Decoder
<1> HIDE DEF here
<1>4. /\ seen \in Decoder /\ seen.ring = k.ring /\ seen.qhead = k.qhead
      /\ seen.qcount = k.qcount /\ seen.down = k.down /\ seen.held = k.held
  BY <1>1, <1>3, Types DEF Decoder
<1> HIDE DEF seen
<1>5. /\ Queue(here) = Queue(k) /\ Down(here) = Down(k) /\ Counted(here)
      /\ Queue(seen) = Queue(k) /\ Down(seen) = Down(k) /\ Counted(seen)
  BY <1>3, <1>4 DEF Queue, Down, Counted
<1>6. CASE side \in {0, here.strobe}
  <2>1. Poll(k, when) = here
    BY <1>6 DEF Poll, here, at
  <2> QED
    BY <2>1, <1>5 DEF Heard
<1>7. CASE side \notin {0, here.strobe}
  <2> DEFINE late == ~(here.page # None /\ frame - here.page.at <= Timeout)
  <2>1. Poll(k, when) = IF late THEN Regular(seen, when)
                           ELSE Character(seen, here.page.prefix, shown.code)
    BY <1>7 DEF Poll, Decode, here, at, seen
  <2>2. \A j : Counted(j) /\ Heard(seen, j) => Counted(j) /\ Heard(k, j)
    BY <1>5 DEF Heard
  <2>3. CASE late
    <3>1. SUFFICES Counted(Regular(seen, when)) /\ Heard(seen, Regular(seen, when))
      BY <2>1, <2>2, <2>3
    <3>2. CASE shown.code \in Prefixes
      <4> DEFINE w == [prefix |-> shown.code, at |-> frame]
                 j == [seen EXCEPT !.page = w]
      <4>1. w \in Waits
        BY <3>2, <1>1 DEF Waits
      <4>2. Regular(seen, when) = j
        BY <3>2, KeyboardAssumption DEF Regular, Prefixes
      <4> HIDE DEF w
      <4>3. /\ j \in Decoder /\ j.ring = seen.ring /\ j.qhead = seen.qhead
            /\ j.qcount = seen.qcount /\ j.down = seen.down /\ j.held = seen.held
        BY <4>1, <1>4 DEF Decoder
      <4> HIDE DEF j
      <4> QED
        BY <4>2, <4>3, <1>5 DEF Counted, Heard, Queue, Down
    <3>3. CASE shown.code \notin Prefixes /\ shown.code \in Keys /\ shown.pressed
      <4>1. Regular(seen, when) = Press(seen, shown.code, when)
        BY <3>3 DEF Regular
      <4> QED
        BY <4>1, <3>3, <1>5, Pressed
    <3>4. CASE shown.code \notin Prefixes /\ shown.code \in Keys /\ ~shown.pressed
      <4>1. Regular(seen, when) = Release(seen, shown.code)
        BY <3>4 DEF Regular
      <4> QED
        BY <4>1, <3>4, <1>5, Released
    <3>5. CASE shown.code \notin Prefixes /\ shown.code \notin Keys
      <4>1. Regular(seen, when) = seen
        BY <3>5 DEF Regular
      <4> QED
        BY <4>1, <1>5 DEF Heard
    <3> QED
      BY <3>2, <3>3, <3>4, <3>5
  <2>4. CASE ~late
    <3>1. here.page.prefix \in Prefixes
      BY <2>4, <1>3 DEF Decoder, Waits
    <3>2. /\ Counted(Character(seen, here.page.prefix, shown.code))
          /\ Heard(seen, Character(seen, here.page.prefix, shown.code))
      BY <3>1, <1>1, <1>5, Typed
    <3> QED
      BY <2>1, <2>2, <2>4, <3>2
  <2> QED
    BY <2>3, <2>4
<1> QED
  BY <1>6, <1>7

\* So does the update every call begins with.
LEMMA Updated ==
  ASSUME TypeOK, HeldCount
  PROVE  Counted(Update(kbd)) /\ Heard(kbd, Update(kbd))
<1>1. Counted(kbd) /\ frame \in 0..MaxFrame
  BY DEF TypeOK, HeldCount, Counted
<1>2. CASE kbd.polled = frame
  BY <1>1, <1>2 DEF Update, Heard
<1>3. CASE kbd.polled # frame
  BY <1>1, <1>3, Polled DEF Update
<1> QED
  BY <1>2, <1>3
-----------------------------------------------------------------------------
(***************************************************************************)
(* The invariant.                                                          *)
(***************************************************************************)

\* A frame ends only if another is to come, so that its events have a frame.
IInv ==
  /\ TypeOK
  /\ HeldCount
  /\ phase = "ended" => frame < MaxFrame

\* A call leaves the world alone.
LEMMA CallKeeps ==
  ASSUME IInv, NEW k, Counted(k), NEW result \in {<<>>} \cup {<<e>> : e \in Events},
         Program(k, result), UNCHANGED user
  PROVE  IInv'
  BY DEF IInv, TypeOK, HeldCount, Counted, Program, Down, device, user

\* The poll before a WAIT is a poll.
LEMMA PolledKeeps ==
  ASSUME IInv, FrameEnd
  PROVE  IInv' /\ Heard(kbd, kbd')
<1>1. Counted(kbd) /\ frame + 1 \in 0..MaxFrame /\ kbd' = Poll(kbd, frame + 1)
  BY KeyboardAssumption DEF IInv, TypeOK, HeldCount, Counted, FrameEnd
<1>2. Counted(kbd') /\ Heard(kbd, kbd')
  BY <1>1, Polled DEF IInv
<1> QED
  BY <1>2 DEF IInv, TypeOK, HeldCount, Counted, FrameEnd, Down, device, user

\* kbd.clear() empties the queue after the poll and leaves the keys down.
LEMMA ClearKeeps ==
  ASSUME IInv, Clear
  PROVE  /\ IInv' /\ answer' = <<>> /\ Queue(kbd') = <<>>
         /\ Heard(kbd, Update(kbd)) /\ Down(kbd') = Down(Update(kbd))
<1> DEFINE k == Update(kbd)
           j == [k EXCEPT !.qcount = 0]
<1>1. Counted(k) /\ Heard(kbd, k)
  BY Updated DEF IInv
<1> HIDE DEF k
<1>2. k \in Decoder /\ 0 \in 0..Size
  BY <1>1, KeyboardAssumption DEF Counted
<1>3. /\ j \in Decoder /\ j.held = k.held /\ j.down = k.down /\ j.qcount = 0
  BY <1>2 DEF Decoder
<1>4. Clear <=> Program(j, <<>>) /\ UNCHANGED user
  BY DEF Clear, k
<1> HIDE DEF j
<1>5. Counted(j) /\ Down(j) = Down(k)
  BY <1>1, <1>3 DEF Counted, Down
<1>6. Queue(j) = <<>>
  BY <1>3, QueueSeq, EmptySeq
<1> QED
  BY <1>1, <1>4, <1>5, <1>6, CallKeeps DEF Program, k

\* kbd.port() leaves no key down and nothing queued.
LEMMA PortKeeps ==
  ASSUME IInv, Port
  PROVE  IInv' /\ Queue(kbd') = <<>> /\ Down(kbd') = {} /\ answer' = <<>>
<1> DEFINE j == Reset(kbd)
<1>1. /\ kbd \in Decoder /\ plugged \in BOOLEAN /\ side \in 0..2
      /\ None \in Waits /\ <<>> \in Seq(Events)
      /\ [c \in Keys |-> -1] \in [Keys -> -1..MaxFrame]
      /\ 0 \in 0..Size /\ 0 \in 0..(Size - 1) /\ -1 \in -1..MaxFrame
  BY KeyboardAssumption, Types DEF IInv, TypeOK
<1> DEFINE up == [c \in Keys |-> -1]
<1> HIDE DEF up
<1>2. /\ j \in Decoder /\ j.held = 0 /\ j.down = up /\ j.qcount = 0
  <2>1. j = [kbd EXCEPT !.down = up, !.polled = -1, !.anyp = -1, !.caps = FALSE,
                        !.held = 0, !.qhead = 0, !.qcount = 0, !.page = None,
                        !.conn = plugged, !.strobe = side, !.log = <<>>]
    BY DEF Reset, up
  <2> HIDE DEF j
  <2>2. up \in [Keys -> -1..MaxFrame] /\ FALSE \in BOOLEAN /\ 0 \in Int
    BY <1>1 DEF up
  <2> QED
    BY <1>1, <2>1, <2>2 DEF Decoder
<1>3. Port => kbd' = j
  BY DEF Port, Program
<1> HIDE DEF j
<1>4. Down(j) = {}
  <2>1. ~(-1 >= 0)
    OBVIOUS
  <2> QED
    BY <1>2, <2>1 DEF Down, up
<1>5. Queue(j) = <<>>
  BY <1>2, QueueSeq, EmptySeq
<1>6. j.held = Cardinality(Down(j))
  BY <1>2, <1>4, FS_EmptySet
<1> QED
  BY <1>1, <1>2, <1>3, <1>4, <1>5, <1>6
     DEF IInv, TypeOK, HeldCount, Port, Program, device, user

\* A call that reads takes the first entry of the kinds it asks for.
LEMMA ReadKeeps ==
  ASSUME IInv, NEW kinds, ReadOf(kinds), UNCHANGED user
  PROVE  /\ IInv' /\ Heard(kbd, Update(kbd)) /\ Down(kbd') = Down(Update(kbd))
         /\ LET q == Queue(Update(kbd))
            IN \/ /\ \A i \in DOMAIN q : q[i].kind \notin kinds
                  /\ Queue(kbd') = <<>> /\ answer' = <<>>
               \/ \E i \in DOMAIN q :
                    /\ q[i].kind \in kinds
                    /\ \A j \in 1..(i - 1) : q[j].kind \notin kinds
                    /\ Queue(kbd') = SubSeq(q, i + 1, Len(q))
                    /\ answer' = <<q[i]>>
<1> DEFINE k == Update(kbd)
           q == Queue(k)
           mine == Wanted(q, kinds)
<1>1. Counted(k) /\ Heard(kbd, k)
  BY Updated DEF IInv
<1>2. ReadOf(kinds) <=>
        \/ mine = {} /\ Program(Skip(k, k.qcount), <<>>)
        \/ \E i \in mine : /\ \A j \in mine : i <= j
                           /\ Program(Skip(k, i), <<q[i]>>)
  BY DEF ReadOf
<1> HIDE DEF k
<1>3. /\ k \in Decoder /\ k.qcount \in Nat /\ q \in Seq(Events)
      /\ Len(q) = k.qcount /\ DOMAIN q = 1..k.qcount
  BY <1>1, QueueSeq, KeyboardAssumption DEF Counted, Decoder
<1>4. \A i \in DOMAIN q : q[i].kind \in kinds <=> i \in mine
  BY DEF Wanted
<1>5. \A n \in 0..k.qcount :
        /\ Counted(Skip(k, n)) /\ Down(Skip(k, n)) = Down(k)
        /\ Queue(Skip(k, n)) = SubSeq(q, n + 1, Len(q))
  BY <1>1, <1>3, Skipped DEF Counted
<1>6. CASE mine = {} /\ Program(Skip(k, k.qcount), <<>>)
  <2>1. SubSeq(q, k.qcount + 1, Len(q)) = <<>>
    BY <1>3, SubSeqEmpty
  <2>2. Counted(Skip(k, k.qcount)) /\ kbd' = Skip(k, k.qcount) /\ answer' = <<>>
    BY <1>3, <1>5, <1>6 DEF Program
  <2>3. IInv'
    BY <1>6, <2>2, CallKeeps
  <2> QED
    BY <1>1, <1>3, <1>4, <1>5, <1>6, <2>1, <2>2, <2>3 DEF k
<1>7. CASE \E i \in mine : (\A j \in mine : i <= j) /\ Program(Skip(k, i), <<q[i]>>)
  <2>1. PICK i \in mine : (\A j \in mine : i <= j) /\ Program(Skip(k, i), <<q[i]>>)
    BY <1>7
  <2>2. i \in 1..k.qcount /\ i \in DOMAIN q /\ q[i] \in Events
    BY <1>3, ElementOfSeq DEF Wanted
  <2>3. Counted(Skip(k, i)) /\ kbd' = Skip(k, i) /\ answer' = <<q[i]>>
    BY <1>3, <1>5, <2>1, <2>2 DEF Program
  <2>4. IInv'
    BY <2>1, <2>2, <2>3, CallKeeps
  <2>5. \A j \in 1..(i - 1) : j \in DOMAIN q /\ j \notin mine
    BY <1>3, <2>1, <2>2
  <2>6. /\ q[i].kind \in kinds /\ \A j \in 1..(i - 1) : q[j].kind \notin kinds
        /\ Queue(kbd') = SubSeq(q, i + 1, Len(q)) /\ Down(kbd') = Down(k)
    <3>1. q[i].kind \in kinds
      BY <1>4, <2>2
    <3>2. \A j \in 1..(i - 1) : q[j].kind \notin kinds
      BY <1>4, <2>5
    <3>3. i \in 0..k.qcount
      BY <1>3, <2>2
    <3> QED
      BY <1>5, <2>3, <3>1, <3>2, <3>3
  <2> QED
    BY <1>1, <2>2, <2>3, <2>4, <2>6 DEF k
<1> QED
  BY <1>2, <1>6, <1>7

\* What happens in the world between two frames.
World ==
  \/ \E c \in Keys : UserPress(c) \/ UserRelease(c)
  \/ \E p \in Prefixes : UserPrefix(p)
  \/ \E c \in Payloads : UserPayload(c)
  \/ Idle \/ Unplug \/ PlugIn

\* The decoder sees nothing of it before it polls.
LEMMA WorldKeeps ==
  ASSUME IInv, World
  PROVE  IInv' /\ UNCHANGED <<kbd, answer>>
<1>1. /\ phase = "ended" /\ frame' = frame + 1 /\ phase' = "program"
      /\ kbd' = kbd /\ answer' = answer
  BY DEF World, UserPress, UserRelease, UserPrefix, UserPayload, Idle, Unplug,
         PlugIn, NextFrame
<1>2. frame + 1 \in 0..MaxFrame
  BY <1>1, KeyboardAssumption DEF IInv, TypeOK
<1>3. HeldCount' /\ (kbd \in Decoder)' /\ (frame \in 0..MaxFrame)'
      /\ (phase = "ended" => frame < MaxFrame)'
  BY <1>1, <1>2 DEF IInv, TypeOK, HeldCount, Down
<1>4. /\ \A code \in Codes, pressed \in BOOLEAN :
           Show(code, pressed) => (plugged \in BOOLEAN /\ side \in 0..2
             /\ shown \in [code : Codes, pressed : BOOLEAN] /\ plugs \in 0..MaxPlugs)'
      /\ \A e \in Events : Sends(e) => (sent \in Seq(Events))'
  <2>1. ASSUME NEW code \in Codes, NEW pressed \in BOOLEAN, Show(code, pressed)
        PROVE  (plugged \in BOOLEAN /\ side \in 0..2
                /\ shown \in [code : Codes, pressed : BOOLEAN] /\ plugs \in 0..MaxPlugs)'
    <3>1. (plugged \in BOOLEAN /\ plugs \in 0..MaxPlugs)'
      BY <2>1 DEF IInv, TypeOK, Show
    <3>2. (side \in 0..2)'
      BY <2>1 DEF Show
    <3>3. (shown \in [code : Codes, pressed : BOOLEAN])'
      BY <2>1 DEF Show
    <3> QED
      BY <3>1, <3>2, <3>3
  <2>2. ASSUME NEW e \in Events, Sends(e) PROVE (sent \in Seq(Events))'
    BY <2>2 DEF IInv, TypeOK, Sends
  <2> QED
    BY <2>1, <2>2
<1>5. None \in Waits
  BY Types
<1>6. ASSUME NEW c \in Keys, UserPress(c) PROVE TypeOK'
  <2> DEFINE up == Upper(c, Believed \cup {c}, lamp')
             e == Event("press", c, up)
  <2>1. lamp' \in BOOLEAN
    BY <1>6, Zenon DEF UserPress, IInv, TypeOK
  <2>2. e \in Events /\ c \in Codes /\ TRUE \in BOOLEAN
    BY Types DEF Codes
  <2>3. Sends(e)
    BY <1>6 DEF UserPress
  <2> QED
    BY <1>1, <1>3, <1>4, <1>5, <1>6, <2>1, <2>2, <2>3 DEF UserPress, IInv, TypeOK
<1>7. ASSUME NEW c \in Keys, UserRelease(c) PROVE TypeOK'
  <2>1. Event("release", c, FALSE) \in Events /\ c \in Codes /\ FALSE \in BOOLEAN
    BY Types DEF Codes
  <2> QED
    BY <1>1, <1>3, <1>4, <1>5, <1>7, <2>1 DEF UserRelease, IInv, TypeOK
<1>8. ASSUME NEW p \in Prefixes, UserPrefix(p) PROVE TypeOK'
  <2>1. [prefix |-> p, at |-> frame + 1] \in Waits /\ p \in Codes /\ FALSE \in BOOLEAN
    BY <1>2 DEF Waits, Codes
  <2> QED
    BY <1>1, <1>3, <1>4, <1>8, <2>1 DEF UserPrefix, IInv, TypeOK
<1>9. ASSUME NEW c \in Payloads, UserPayload(c) PROVE TypeOK'
  <2>1. c \in Codes /\ FALSE \in BOOLEAN
    BY DEF Codes
  <2>2. owed.prefix \in Prefixes
    BY <1>9 DEF UserPayload, IInv, TypeOK, Waits
  <2>3. Event("text", <<owed.prefix, c>>, FALSE) \in Events
    BY <2>1, <2>2, Types
  <2>4. (sent \in Seq(Events))'
    BY <1>4, <1>9, <2>3 DEF UserPayload, IInv, TypeOK
  <2> QED
    BY <1>1, <1>3, <1>4, <1>5, <1>9, <2>1, <2>4 DEF UserPayload, IInv, TypeOK
<1>10. ASSUME Idle PROVE TypeOK'
  BY <1>1, <1>3, <1>10 DEF Idle, device, user, IInv, TypeOK
<1>11. ASSUME Unplug PROVE TypeOK'
  <2>1. Believed \subseteq Keys
    BY DEF Believed, IInv, TypeOK
  <2>2. /\ plugged' = FALSE /\ side' = 0 /\ keys' = {} /\ owed' = None
        /\ stale' = Believed /\ missed' = {}
        /\ UNCHANGED <<shown, lamp, sent, plugs>>
    BY <1>11 DEF Unplug
  <2>3. (plugged \in BOOLEAN)'
    BY <2>2, Zenon
  <2>4. (side \in 0..2)'
    BY <2>2
  <2> QED
    BY <1>1, <1>3, <1>5, <2>1, <2>2, <2>3, <2>4 DEF IInv, TypeOK
<1>12. ASSUME PlugIn PROVE TypeOK'
  <2>1. plugs + 1 \in 0..MaxPlugs
    BY <1>12, KeyboardAssumption DEF PlugIn, IInv, TypeOK
  <2> QED
    BY <1>1, <1>3, <1>12, <2>1 DEF PlugIn, IInv, TypeOK
<1>13. TypeOK'
  BY <1>6, <1>7, <1>8, <1>9, <1>10, <1>11, <1>12 DEF World
<1> QED
  BY <1>1, <1>3, <1>13 DEF IInv

\* The decoder begins with no key down and an empty queue.
LEMMA Initial ==
  ASSUME Init
  PROVE  IInv /\ Queue(kbd) = <<>> /\ Down(kbd) = {} /\ answer = <<>>
<1> DEFINE up == [c \in Keys |-> -1]
<1>1. PICK ring \in [0..(Size - 1) -> {Event("release", Caps, FALSE)}] :
        kbd = [strobe |-> side, polled |-> -1, caps |-> FALSE, held |-> 0,
               anyp |-> -1, page |-> None, conn |-> plugged, down |-> up,
               ring |-> ring, qhead |-> 0, qcount |-> 0, log |-> <<>>]
  BY DEF Init
<1>2. up \in [Keys -> -1..MaxFrame]
  BY KeyboardAssumption
<1>3. ring \in [0..(Size - 1) -> Events]
  <2>1. Event("release", Caps, FALSE) \in Events
    BY Types, KeyboardAssumption
  <2> QED
    BY <2>1
<1>4. plugged \in BOOLEAN /\ side \in 0..2
  BY DEF Init
<1>5. /\ None \in Waits /\ <<>> \in Seq(Events) /\ 0 \in 0..Size
      /\ 0 \in 0..(Size - 1) /\ -1 \in -1..MaxFrame /\ 0 \in Int
      /\ FALSE \in BOOLEAN /\ 0 \in 0..MaxFrame /\ 0 \in 0..MaxPlugs
  BY KeyboardAssumption, Types
<1> HIDE DEF up
<1>6. kbd \in Decoder
  BY <1>1, <1>2, <1>3, <1>4, <1>5 DEF Decoder
<1>7. kbd.qcount = 0 /\ kbd.down = up /\ kbd.held = 0
  BY <1>1
<1>8. Queue(kbd) = <<>>
  BY <1>6, <1>7, QueueSeq, EmptySeq
<1>9. Down(kbd) = {}
  <2>1. ~(-1 >= 0)
    OBVIOUS
  <2> QED
    BY <1>7, <2>1 DEF Down, up
<1>10. HeldCount
  BY <1>7, <1>9, FS_EmptySet DEF HeldCount
<1>11. TypeOK
  <2>1. shown \in [code : Codes, pressed : BOOLEAN]
    <3>1. shown = [code |-> Caps, pressed |-> FALSE]
      BY DEF Init
    <3>2. Caps \in Codes
      BY KeyboardAssumption DEF Codes
    <3> QED
      BY <3>1, <3>2
  <2>2. /\ frame = 0 /\ phase = "program" /\ answer = <<>> /\ keys = {}
        /\ owed = None /\ lamp = FALSE /\ stale = {} /\ missed = {}
        /\ sent = <<>> /\ plugs = 0
    BY DEF Init
  <2>3. lamp \in BOOLEAN
    BY <2>2
  <2>4. keys \subseteq Keys /\ stale \subseteq Keys /\ missed \subseteq Keys
    BY <2>2
  <2>5. /\ answer \in {<<>>} \cup {<<e>> : e \in Events} /\ frame \in 0..MaxFrame
        /\ phase \in {"program", "ended"} /\ owed \in Waits /\ sent \in Seq(Events)
        /\ plugs \in 0..MaxPlugs
    BY <1>5, <2>2
  <2> QED
    BY <1>4, <1>6, <2>1, <2>3, <2>4, <2>5 DEF TypeOK
<1>12. answer = <<>> /\ phase = "program"
  BY DEF Init
<1> QED
  BY <1>8, <1>9, <1>10, <1>11, <1>12 DEF IInv

\* Every step keeps the invariant.
LEMMA Inductive ==
  ASSUME IInv, [Next]_vars PROVE IInv'
<1>1. CASE Ask
  <2>1. Counted(Update(kbd))
    BY Updated DEF IInv
  <2> QED
    BY <1>1, <2>1, CallKeeps DEF Ask
<1>2. CASE Read
  BY <1>2, ReadKeeps DEF Read
<1>3. CASE NextEvent
  BY <1>3, ReadKeeps DEF NextEvent
<1>4. CASE Clear
  BY <1>4, ClearKeeps
<1>5. CASE Port
  BY <1>5, PortKeeps
<1>6. CASE FrameEnd
  BY <1>6, PolledKeeps
<1>7. CASE World
  BY <1>7, WorldKeeps
<1>8. CASE UNCHANGED vars
  BY <1>8 DEF vars, device, user, IInv, TypeOK, HeldCount, Down
<1> QED
  BY <1>1, <1>2, <1>3, <1>4, <1>5, <1>6, <1>7, <1>8 DEF Next, World

\* The decoder's words, the queue and the world keep their types
\* (src/src/runtime/v32kbd.s:46-62).
THEOREM TypeCorrect == Spec => []TypeOK
<1>1. Init => IInv
  BY Initial
<1>2. IInv /\ [Next]_vars => IInv'
  BY Inductive
<1>3. IInv => TypeOK
  BY DEF IInv
<1> QED
  BY <1>1, <1>2, <1>3, PTL DEF Spec

\* V32KBD_HELD is the number of keys down, whatever events were lost, repeated
\* or cut off (src/src/runtime/v32kbd.s:238-269).
THEOREM HeldCorrect == Spec => []HeldCount
<1>1. Init => IInv
  BY Initial
<1>2. IInv /\ [Next]_vars => IInv'
  BY Inductive
<1>3. IInv => HeldCount
  BY DEF IInv
<1> QED
  BY <1>1, <1>2, <1>3, PTL DEF Spec

-----------------------------------------------------------------------------
(***************************************************************************)
(* The refinement.                                                         *)
(***************************************************************************)

\* What was heard is the news of KeyStream.
LEMMA NewsHeard ==
  ASSUME NEW k, Heard(kbd, k)
  PROVE  \E n \in Stream!News : Queue(k) = Stream!WithNews(n) /\ Down(k) = Stream!HeldWith(n)
<1>1. CASE Queue(k) = Queue(kbd) /\ Down(k) = Down(kbd)
  <2>1. <<>> \in Stream!News
    BY DEF Stream!News
  <2> QED
    BY <1>1, <2>1 DEF Stream!WithNews, Stream!HeldWith
<1>2. ASSUME NEW e \in Events,
             Queue(k) = Stream!Put(Queue(kbd), e), Down(k) = Stream!After(Down(kbd), e)
      PROVE  \E n \in Stream!News :
               Queue(k) = Stream!WithNews(n) /\ Down(k) = Stream!HeldWith(n)
  <2>1. <<e>> \in Stream!News /\ <<e>> # <<>> /\ <<e>>[1] = e
    BY <1>2 DEF Stream!News
  <2>2. Queue(k) = Stream!WithNews(<<e>>) /\ Down(k) = Stream!HeldWith(<<e>>)
    BY <1>2, <2>1 DEF Stream!WithNews, Stream!HeldWith
  <2> QED
    BY <2>1, <2>2
<1> QED
  BY <1>1, <1>2 DEF Heard

\* A read is the Take of KeyStream.
LEMMA ReadTakes ==
  ASSUME IInv, NEW kinds, ReadOf(kinds), UNCHANGED user
  PROVE  Stream!Take(kinds)
<1> DEFINE k == Update(kbd)
           q == Queue(k)
<1>1. /\ Heard(kbd, k) /\ Down(kbd') = Down(k)
      /\ \/ /\ \A i \in DOMAIN q : q[i].kind \notin kinds
            /\ Queue(kbd') = <<>> /\ answer' = <<>>
         \/ \E i \in DOMAIN q :
              /\ q[i].kind \in kinds
              /\ \A j \in 1..(i - 1) : q[j].kind \notin kinds
              /\ Queue(kbd') = SubSeq(q, i + 1, Len(q))
              /\ answer' = <<q[i]>>
  BY ReadKeeps
<1> HIDE DEF k
<1>2. PICK n \in Stream!News : q = Stream!WithNews(n) /\ Down(k) = Stream!HeldWith(n)
  BY <1>1, NewsHeard
<1> HIDE DEF q
<1>3. Down(kbd') = Stream!HeldWith(n)
  BY <1>1, <1>2
<1>4. IF \E i \in DOMAIN q : q[i].kind \in kinds
      THEN \E i \in DOMAIN q :
             /\ q[i].kind \in kinds
             /\ \A j \in 1..(i - 1) : q[j].kind \notin kinds
             /\ Queue(kbd') = SubSeq(q, i + 1, Len(q))
             /\ answer' = <<q[i]>>
      ELSE Queue(kbd') = <<>> /\ answer' = <<>>
  BY <1>1
<1> QED
  BY <1>2, <1>3, <1>4 DEF Stream!Take

\* The ring, with its head and its count, implements the queue of events:
\* kbd.read() and kbd.event() return them in order, each once, unless they
\* were dropped (src/src/runtime/v32kbd.s:58-62, 607-618).
THEOREM RefinesStream == Spec => ImplementsStream
<1>1. Init => Stream!Init
  BY Initial DEF Stream!Init
<1>2. ASSUME IInv, [Next]_vars
      PROVE  [Stream!Next]_<<Queue(kbd), Down(kbd), answer>>
  <2>1. CASE Ask
    <3>1. kbd' = Update(kbd) /\ answer' = <<>> /\ Heard(kbd, kbd')
      BY <1>2, <2>1, Updated DEF Ask, Program, IInv
    <3>2. Stream!Look
      BY <3>1, NewsHeard DEF Stream!Look
    <3> QED
      BY <3>2 DEF Stream!Next
  <2>2. CASE Read
    BY <1>2, <2>2, ReadTakes DEF Read, Stream!Next
  <2>3. CASE NextEvent
    BY <1>2, <2>3, ReadTakes DEF NextEvent, Stream!Next
  <2>4. CASE Clear
    <3>1. /\ answer' = <<>> /\ Queue(kbd') = <<>>
          /\ Heard(kbd, Update(kbd)) /\ Down(kbd') = Down(Update(kbd))
      BY <1>2, <2>4, ClearKeeps
    <3>2. Stream!Drop
      BY <3>1, NewsHeard DEF Stream!Drop
    <3> QED
      BY <3>2 DEF Stream!Next
  <2>5. CASE Port
    BY <1>2, <2>5, PortKeeps DEF Stream!StartOver, Stream!Next
  <2>6. CASE FrameEnd
    <3>1. Heard(kbd, kbd') /\ answer' = <<>>
      BY <1>2, <2>6, PolledKeeps DEF FrameEnd
    <3>2. Stream!Look
      BY <3>1, NewsHeard DEF Stream!Look
    <3> QED
      BY <3>2 DEF Stream!Next
  <2>7. CASE World
    BY <1>2, <2>7, WorldKeeps DEF Queue, Down
  <2>8. CASE UNCHANGED vars
    BY <2>8 DEF vars, Queue, Down
  <2> QED
    BY <1>2, <2>1, <2>2, <2>3, <2>4, <2>5, <2>6, <2>7, <2>8 DEF Next, World
<1>3. Init => IInv
  BY Initial
<1>4. IInv /\ [Next]_vars => IInv'
  BY Inductive
<1> QED
  BY <1>1, <1>2, <1>3, <1>4, PTL DEF Spec, ImplementsStream, Stream!Spec

-----------------------------------------------------------------------------
(***************************************************************************)
(* The events, in their order: what the decoder knows of the world.  It is *)
(* current, or one change of the world is still to be looked at, by a call *)
(* of the program or by the poll at the end of the frame.                  *)
(***************************************************************************)
Told(k) == k.log = sent /\ Down(k) = Believed /\ k.caps = lamp

Current(k) ==
  /\ k.conn = plugged /\ Told(k)
  /\ plugged => k.strobe = side /\ k.page = owed

\* No prefix waits, or it has waited too long.
Late(k) == k.page = None \/ ~(frame - k.page.at <= Timeout)

\* Caps lock after a press of c.
CapsAfter(c, caps) == IF c = Caps THEN ~caps ELSE caps

\* The event that shows, and what it will have told.
ToPress(k, c) ==
  /\ shown.code = c /\ shown.pressed /\ Late(k) /\ owed = None
  /\ Believed = Down(k) \cup {c} /\ lamp = CapsAfter(c, k.caps)
  /\ sent = Append(k.log, Event("press", c, Upper(c, Believed, lamp)))

ToRelease(k, c) ==
  /\ shown.code = c /\ ~shown.pressed /\ Late(k) /\ owed = None
  /\ Believed = Down(k) \ {c} /\ lamp = k.caps
  /\ sent = Append(k.log, Event("release", c, FALSE))

ToPrefix(k, p) ==
  /\ shown.code = p /\ Late(k) /\ owed = [prefix |-> p, at |-> frame]
  /\ Told(k)

ToPayload(k, c) ==
  /\ shown.code = c /\ ~Late(k) /\ owed = None
  /\ Believed = Down(k) /\ lamp = k.caps
  /\ sent = IF k.page.prefix = Low /\ c = Nul THEN k.log
            ELSE Append(k.log, Event("text", <<k.page.prefix, c>>, FALSE))

Showing(k) ==
  /\ k.conn = TRUE /\ plugged /\ side \notin {0, k.strobe}
  /\ \/ \E c \in Keys : ToPress(k, c) \/ ToRelease(k, c)
     \/ \E p \in Prefixes : ToPrefix(k, p)
     \/ \E c \in Payloads : ToPayload(k, c)

\* The device was plugged in or went away.
Moved(k) == Told(k) /\ side = 0 /\ owed = None /\ k.conn = ~plugged

Pending == phase = "program" /\ kbd.polled < frame /\ (Showing(kbd) \/ Moved(kbd))

OrderInv ==
  /\ IInv
  /\ kbd.polled <= frame
  /\ ~plugged => side = 0 /\ owed = None
  /\ Current(kbd) \/ Pending

\* A sequence is the front of what it becomes when something is appended.
LEMMA Front ==
  ASSUME NEW S, NEW s \in Seq(S), NEW e, Append(s, e) \in Seq(S)
  PROVE  Append(s, e) # <<>> /\ s = SubSeq(Append(s, e), 1, Len(Append(s, e)) - 1)
  OBVIOUS

\* An event is in the log though the queue is full.
LEMMA Logged ==
  ASSUME NEW k \in Decoder, NEW e \in Events
  PROVE  LET j == Enqueue(k, e)
         IN /\ j \in Decoder /\ Down(j) = Down(k) /\ j.log = Append(k.log, e)
            /\ j.caps = k.caps /\ j.conn = k.conn
            /\ j.strobe = k.strobe /\ j.page = k.page /\ j.polled = k.polled
<1> DEFINE j == Enqueue(k, e)
           ring == [k.ring EXCEPT ![(k.qhead + k.qcount) % Size] = e]
           count == k.qcount + 1
           log == Append(k.log, e)
<1>1. j \in Decoder /\ Down(j) = Down(k)
  BY Enqueued
<1>2. j = IF k.qcount >= Size THEN [k EXCEPT !.log = log]
          ELSE [k EXCEPT !.log = log, !.ring = ring, !.qcount = count]
  BY DEF Enqueue, Decoder
<1> HIDE DEF ring, count, log, j
<1>3. /\ j.log = log /\ j.strobe = k.strobe /\ j.page = k.page /\ j.polled = k.polled
      /\ j.caps = k.caps /\ j.conn = k.conn
  BY <1>2 DEF Decoder
<1> QED
  BY <1>1, <1>3 DEF j, log

\* A press is told with the keys and the caps lock that it makes.
LEMMA PressTells ==
  ASSUME NEW k \in Decoder, NEW c \in Keys, NEW when \in 0..MaxFrame
  PROVE  LET j == Press(k, c, when)
         IN /\ Down(j) = Down(k) \cup {c}
            /\ j.caps = CapsAfter(c, k.caps)
            /\ j.log = Append(k.log, Event("press", c, Upper(c, Down(k) \cup {c}, j.caps)))
            /\ j.conn = k.conn /\ j.strobe = k.strobe /\ j.page = k.page /\ j.polled = k.polled
<1> DEFINE held == IF c \in Down(k) THEN k.held ELSE k.held + 1
           down == [k.down EXCEPT ![c] = when]
           caps == IF c = Caps THEN ~k.caps ELSE k.caps
           p == [k EXCEPT !.held = held, !.down = down, !.anyp = when, !.caps = caps]
           e == Event("press", c, Upper(c, Down(p), p.caps))
           j == Enqueue(p, e)
<1>1. Press(k, c, when) = j
  BY DEF Press, Decoder
<1>2. when \in -1..MaxFrame
  BY KeyboardAssumption
<1>3. held \in Int /\ down \in [Keys -> -1..MaxFrame] /\ caps \in BOOLEAN
  <2>1. k.caps \in BOOLEAN /\ k.held \in Int /\ k.down \in [Keys -> -1..MaxFrame]
    BY DEF Decoder
  <2>2. caps \in BOOLEAN
    BY <2>1, Zenon
  <2> QED
    BY <1>2, <2>1, <2>2
<1> HIDE DEF held, caps, down
<1>4. /\ p \in Decoder /\ p.down = down /\ p.caps = caps
      /\ p.strobe = k.strobe /\ p.page = k.page /\ p.polled = k.polled /\ p.log = k.log
      /\ p.conn = k.conn
  BY <1>2, <1>3 DEF Decoder
<1> HIDE DEF p
<1>5. Down(p) = Down(k) \cup {c}
  BY <1>2, <1>4 DEF Down, Decoder, down
<1>6. e \in Events
  BY Types
<1>7. /\ Down(j) = Down(p) /\ j.log = Append(p.log, e) /\ j.caps = p.caps /\ j.conn = p.conn
      /\ j.strobe = p.strobe /\ j.page = p.page /\ j.polled = p.polled
  BY <1>4, <1>6, Logged
<1>8. e = Event("press", c, Upper(c, Down(k) \cup {c}, j.caps))
  BY <1>5, <1>7
<1> HIDE DEF e, j
<1> QED
  BY <1>1, <1>4, <1>5, <1>7, <1>8 DEF caps, CapsAfter

\* A release is told, and its key is down no more.
LEMMA ReleaseTells ==
  ASSUME NEW k \in Decoder, NEW c \in Keys
  PROVE  LET j == Release(k, c)
         IN /\ Down(j) = Down(k) \ {c}
            /\ j.caps = k.caps
            /\ j.log = Append(k.log, Event("release", c, FALSE))
            /\ j.conn = k.conn /\ j.strobe = k.strobe /\ j.page = k.page /\ j.polled = k.polled
<1> DEFINE held == IF c \in Down(k) THEN k.held - 1 ELSE k.held
           down == [k.down EXCEPT ![c] = -1]
           p == [k EXCEPT !.held = held, !.down = down]
           e == Event("release", c, FALSE)
           j == Enqueue(p, e)
<1>1. Release(k, c) = j
  BY DEF Release, Decoder
<1>2. held \in Int /\ down \in [Keys -> -1..MaxFrame]
  BY KeyboardAssumption DEF Decoder
<1> HIDE DEF held, down
<1>3. /\ p \in Decoder /\ p.down = down /\ p.caps = k.caps
      /\ p.strobe = k.strobe /\ p.page = k.page /\ p.polled = k.polled /\ p.log = k.log
      /\ p.conn = k.conn
  BY <1>2 DEF Decoder
<1> HIDE DEF p
<1>4. Down(p) = Down(k) \ {c}
  <2>1. /\ k.down \in [Keys -> -1..MaxFrame]
        /\ \A d \in Keys : p.down[d] = IF d = c THEN -1 ELSE k.down[d]
    BY <1>3 DEF Decoder, down
  <2>2. ~(-1 >= 0)
    OBVIOUS
  <2> QED
    BY <2>1, <2>2, Zenon DEF Down
<1>5. e \in Events
  BY Types
<1>6. /\ Down(j) = Down(p) /\ j.log = Append(p.log, e) /\ j.caps = p.caps /\ j.conn = p.conn
      /\ j.strobe = p.strobe /\ j.page = p.page /\ j.polled = p.polled
  BY <1>3, <1>5, Logged
<1> HIDE DEF j
<1> QED
  BY <1>1, <1>3, <1>4, <1>6

\* A character is told, unless it is character 0.
LEMMA CharacterTells ==
  ASSUME NEW k \in Decoder, NEW p \in Prefixes, NEW c \in Codes
  PROVE  LET j == Character(k, p, c)
         IN /\ Down(j) = Down(k) /\ j.caps = k.caps
            /\ j.log = IF p = Low /\ c = Nul THEN k.log
                       ELSE Append(k.log, Event("text", <<p, c>>, FALSE))
            /\ j.conn = k.conn /\ j.strobe = k.strobe /\ j.page = k.page /\ j.polled = k.polled
<1> DEFINE e == Event("text", <<p, c>>, FALSE)
<1>1. CASE p = Low /\ c = Nul
  BY <1>1 DEF Character
<1>2. CASE ~(p = Low /\ c = Nul)
  <2>1. Character(k, p, c) = Enqueue(k, e)
    BY <1>2 DEF Character
  <2>2. e \in Events
    BY Types
  <2> HIDE DEF e
  <2>3. LET j == Enqueue(k, e)
        IN /\ Down(j) = Down(k) /\ j.log = Append(k.log, e)
           /\ j.caps = k.caps /\ j.conn = k.conn
           /\ j.strobe = k.strobe /\ j.page = k.page /\ j.polled = k.polled
    BY <2>2, Logged
  <2> QED
    BY <1>2, <2>1, <2>3 DEF e
<1> QED
  BY <1>1, <1>2

\* What a poll looks at: the device and its side.
LEMMA Looked ==
  ASSUME TypeOK, NEW k \in Decoder
  PROVE  LET here == Plug([k EXCEPT !.polled = frame])
             seen == [here EXCEPT !.strobe = side, !.page = None]
         IN /\ here \in Decoder /\ here.polled = frame /\ here.conn = plugged
            /\ Down(here) = Down(k) /\ here.log = k.log /\ here.caps = k.caps
            /\ here.strobe = IF plugged /\ ~k.conn THEN 0 ELSE k.strobe
            /\ here.page = IF plugged /\ ~k.conn THEN None ELSE k.page
            /\ seen \in Decoder /\ seen.polled = frame /\ seen.conn = plugged
            /\ Down(seen) = Down(k) /\ seen.log = k.log /\ seen.caps = k.caps
            /\ seen.strobe = side /\ seen.page = None
<1> DEFINE at == [k EXCEPT !.polled = frame]
           here == Plug(at)
           seen == [here EXCEPT !.strobe = side, !.page = None]
<1>1. /\ frame \in -1..MaxFrame /\ plugged \in BOOLEAN /\ side \in 0..2 /\ 0 \in 0..2 /\ None \in Waits
  BY KeyboardAssumption, Types DEF TypeOK
<1>2. /\ at \in Decoder /\ at.down = k.down /\ at.log = k.log /\ at.strobe = k.strobe
      /\ at.page = k.page /\ at.polled = frame /\ at.caps = k.caps /\ at.conn = k.conn
  BY <1>1 DEF Decoder
<1> HIDE DEF at
<1>3. /\ here \in Decoder /\ here.down = k.down /\ here.log = k.log /\ here.polled = frame
      /\ here.caps = k.caps /\ here.conn = plugged
      /\ here.strobe = IF plugged /\ ~k.conn THEN 0 ELSE k.strobe
      /\ here.page = IF plugged /\ ~k.conn THEN None ELSE k.page
  <2>1. CASE plugged /\ ~k.conn
    <3>1. here = [at EXCEPT !.conn = TRUE, !.strobe = 0, !.page = None] /\ plugged = TRUE
      BY <1>1, <1>2, <2>1 DEF Plug
    <3> HIDE DEF here
    <3>2. /\ here \in Decoder /\ here.down = k.down /\ here.log = k.log /\ here.strobe = 0
          /\ here.page = None /\ here.polled = frame /\ here.caps = k.caps
      BY <1>1, <1>2, <3>1 DEF Decoder
    <3>3. here.conn = TRUE
      BY <1>2, <3>1 DEF Decoder
    <3> QED
      BY <2>1, <3>1, <3>2, <3>3
  <2>2. CASE ~(plugged /\ ~k.conn)
    <3>1. here = [at EXCEPT !.conn = plugged]
      BY <1>2, <2>2 DEF Plug
    <3> HIDE DEF here
    <3>2. /\ here \in Decoder /\ here.down = k.down /\ here.log = k.log /\ here.strobe = k.strobe
          /\ here.page = k.page /\ here.polled = frame /\ here.caps = k.caps
      BY <1>1, <1>2, <3>1 DEF Decoder
    <3>3. here.conn = plugged
      BY <1>2, <3>1 DEF Decoder
    <3> QED
      BY <2>2, <3>2, <3>3
  <2> QED
    BY <2>1, <2>2
<1> HIDE DEF here
<1>4. /\ seen \in Decoder /\ seen.down = here.down /\ seen.log = here.log /\ seen.polled = here.polled
      /\ seen.caps = here.caps /\ seen.conn = here.conn /\ seen.strobe = side /\ seen.page = None
  BY <1>1, <1>3 DEF Decoder
<1> HIDE DEF seen
<1>5. Down(here) = Down(k) /\ Down(seen) = Down(k)
  BY <1>3, <1>4 DEF Down
<1> QED
  BY <1>3, <1>4, <1>5 DEF here, seen, at

\* A poll tells what shows, once: after it the decoder is current.
LEMMA PolledTells ==
  ASSUME TypeOK, ~plugged => side = 0 /\ owed = None,
         NEW k \in Decoder, Current(k) \/ Showing(k) \/ Moved(k), NEW when \in 0..MaxFrame
  PROVE  Current(Poll(k, when)) /\ Poll(k, when).polled = frame
<1> DEFINE here == Plug([k EXCEPT !.polled = frame])
           seen == [here EXCEPT !.strobe = side, !.page = None]
           done == Poll(k, when)
<1>1. /\ here \in Decoder /\ here.polled = frame /\ here.conn = plugged
      /\ Down(here) = Down(k) /\ here.log = k.log /\ here.caps = k.caps
      /\ here.strobe = IF plugged /\ ~k.conn THEN 0 ELSE k.strobe
      /\ here.page = IF plugged /\ ~k.conn THEN None ELSE k.page
      /\ seen \in Decoder /\ seen.polled = frame /\ seen.conn = plugged
      /\ Down(seen) = Down(k) /\ seen.log = k.log /\ seen.caps = k.caps
      /\ seen.strobe = side /\ seen.page = None
  BY Looked
<1>2. done = IF side \in {0, here.strobe} THEN here
             ELSE IF here.page # None /\ frame - here.page.at <= Timeout
             THEN Character(seen, here.page.prefix, shown.code)
             ELSE Regular(seen, when)
  BY DEF Poll, Decode
<1> HIDE DEF here, seen, done
<1>3. plugged \in BOOLEAN /\ k.conn \in BOOLEAN /\ k.page \in Waits
  BY DEF TypeOK, Decoder
<1>4. seen \in Decoder
  BY <1>1
<1> SUFFICES Current(done) /\ done.polled = frame
  BY DEF done
<1>5. CASE Current(k)
  <2>1. k.conn = plugged /\ (plugged => k.strobe = side /\ k.page = owed)
    BY <1>5 DEF Current
  <2>2. here.strobe = k.strobe /\ here.page = k.page
    BY <1>1, <1>3, <2>1
  <2>3. done = here
    BY <1>2, <2>1, <2>2
  <2> QED
    BY <1>1, <1>5, <2>1, <2>2, <2>3 DEF Current, Told
<1>6. CASE Moved(k)
  <2>1. done = here
    BY <1>2, <1>6 DEF Moved
  <2>2. plugged => here.strobe = side /\ here.page = owed
    BY <1>1, <1>3, <1>6 DEF Moved
  <2> QED
    BY <1>1, <1>6, <2>1, <2>2 DEF Current, Told, Moved
<1>7. CASE Showing(k)
  <2>1. k.conn /\ plugged /\ side \notin {0, k.strobe}
    BY <1>7 DEF Showing
  <2>2. here.strobe = k.strobe /\ here.page = k.page
    BY <1>1, <2>1
  <2>3. done = IF Late(k) THEN Regular(seen, when)
               ELSE Character(seen, k.page.prefix, shown.code)
    BY <1>2, <2>1, <2>2 DEF Late
  <2>4. ASSUME NEW c \in Keys, ToPress(k, c)
        PROVE  Current(done) /\ done.polled = frame
    <3>1. shown.code = c /\ shown.pressed /\ c \notin Prefixes
      BY <2>4, KeyboardAssumption DEF ToPress, Prefixes
    <3>2. done = Press(seen, c, when)
      BY <2>3, <2>4, <3>1 DEF Regular, ToPress
    <3>3. /\ Down(done) = Down(seen) \cup {c}
          /\ done.caps = CapsAfter(c, seen.caps)
          /\ done.log = Append(seen.log, Event("press", c, Upper(c, Down(seen) \cup {c}, done.caps)))
          /\ done.conn = seen.conn /\ done.strobe = seen.strobe /\ done.page = seen.page
          /\ done.polled = seen.polled
      <4>1. LET j == Press(seen, c, when)
            IN /\ Down(j) = Down(seen) \cup {c}
               /\ j.caps = CapsAfter(c, seen.caps)
               /\ j.log = Append(seen.log, Event("press", c, Upper(c, Down(seen) \cup {c}, j.caps)))
               /\ j.conn = seen.conn /\ j.strobe = seen.strobe /\ j.page = seen.page
               /\ j.polled = seen.polled
        BY <1>4, PressTells
      <4> QED
        BY <3>2, <4>1
    <3>4. Down(done) = Believed /\ done.caps = lamp
      <4>1. Down(done) = Believed
        BY <1>1, <2>4, <3>3 DEF ToPress
      <4>2. done.caps = lamp
        BY <1>1, <2>4, <3>3 DEF ToPress
      <4> QED
        BY <4>1, <4>2
    <3>5. done.log = sent
      BY <1>1, <2>4, <3>3, <3>4 DEF ToPress
    <3> QED
      BY <1>1, <2>4, <3>3, <3>4, <3>5 DEF Current, Told, ToPress
  <2>5. ASSUME NEW c \in Keys, ToRelease(k, c)
        PROVE  Current(done) /\ done.polled = frame
    <3>1. shown.code = c /\ ~shown.pressed /\ c \notin Prefixes
      BY <2>5, KeyboardAssumption DEF ToRelease, Prefixes
    <3>2. done = Release(seen, c)
      BY <2>3, <2>5, <3>1 DEF Regular, ToRelease
    <3>3. /\ Down(done) = Down(seen) \ {c} /\ done.caps = seen.caps
          /\ done.log = Append(seen.log, Event("release", c, FALSE))
          /\ done.conn = seen.conn /\ done.strobe = seen.strobe /\ done.page = seen.page
          /\ done.polled = seen.polled
      BY <1>1, <3>2, ReleaseTells
    <3> QED
      BY <1>1, <2>5, <3>3 DEF Current, Told, ToRelease
  <2>6. ASSUME NEW p \in Prefixes, ToPrefix(k, p)
        PROVE  Current(done) /\ done.polled = frame
    <3> DEFINE w == [prefix |-> p, at |-> frame]
    <3>1. shown.code = p /\ p \notin Keys
      BY <2>6, KeyboardAssumption DEF ToPrefix, Prefixes
    <3>2. done = [seen EXCEPT !.page = w]
      BY <2>3, <2>6, <3>1 DEF Regular, ToPrefix
    <3>3. owed = w
      BY <2>6 DEF ToPrefix
    <3> HIDE DEF w
    <3>4. /\ done.down = seen.down /\ done.log = seen.log /\ done.strobe = seen.strobe
          /\ done.page = w /\ done.polled = seen.polled /\ done.caps = seen.caps
          /\ done.conn = seen.conn
      BY <1>1, <3>2 DEF Decoder
    <3>5. Down(done) = Down(seen)
      BY <3>4 DEF Down
    <3> QED
      BY <1>1, <2>6, <3>3, <3>4, <3>5 DEF Current, Told, ToPrefix
  <2>7. ASSUME NEW c \in Payloads, ToPayload(k, c)
        PROVE  Current(done) /\ done.polled = frame
    <3> DEFINE p == k.page.prefix
    <3>1. shown.code = c /\ ~Late(k)
      BY <2>7 DEF ToPayload
    <3>2. done = Character(seen, p, c)
      BY <2>3, <3>1
    <3>3. p \in Prefixes
      BY <1>3, <3>1 DEF Late, Waits
    <3>4. c \in Codes
      BY DEF Codes
    <3>5. sent = IF p = Low /\ c = Nul THEN k.log ELSE Append(k.log, Event("text", <<p, c>>, FALSE))
      BY <2>7 DEF ToPayload
    <3> HIDE DEF p
    <3>6. /\ Down(done) = Down(seen) /\ done.caps = seen.caps
          /\ done.log = IF p = Low /\ c = Nul THEN seen.log
                        ELSE Append(seen.log, Event("text", <<p, c>>, FALSE))
          /\ done.conn = seen.conn /\ done.strobe = seen.strobe /\ done.page = seen.page
          /\ done.polled = seen.polled
      <4>1. LET j == Character(seen, p, c)
            IN /\ Down(j) = Down(seen) /\ j.caps = seen.caps
               /\ j.log = IF p = Low /\ c = Nul THEN seen.log
                          ELSE Append(seen.log, Event("text", <<p, c>>, FALSE))
               /\ j.conn = seen.conn /\ j.strobe = seen.strobe /\ j.page = seen.page
               /\ j.polled = seen.polled
        BY <1>4, <3>3, <3>4, CharacterTells
      <4> QED
        BY <3>2, <4>1
    <3>7. done.log = sent
      BY <1>1, <3>5, <3>6
    <3>8. Down(done) = Believed /\ done.caps = lamp /\ done.page = owed
      BY <1>1, <2>7, <3>6 DEF ToPayload
    <3> QED
      BY <1>1, <3>6, <3>7, <3>8 DEF Current, Told
  <2> QED
    BY <1>7, <2>4, <2>5, <2>6, <2>7 DEF Showing
<1> QED
  BY <1>5, <1>6, <1>7

\* The first call of a frame looks, and the others find nothing more.
LEMMA UpdateTells ==
  ASSUME OrderInv
  PROVE  LET k == Update(kbd) IN k \in Decoder /\ Current(k) /\ k.polled = frame
<1>1. TypeOK /\ kbd \in Decoder /\ frame \in 0..MaxFrame /\ (~plugged => side = 0 /\ owed = None)
  BY DEF OrderInv, IInv, TypeOK
<1>2. Current(kbd) \/ (kbd.polled < frame /\ (Showing(kbd) \/ Moved(kbd)))
  BY DEF OrderInv, Pending
<1>3. CASE kbd.polled = frame
  BY <1>1, <1>2, <1>3 DEF Update
<1>4. CASE kbd.polled # frame
  <2>1. Update(kbd) = Poll(kbd, frame)
    BY <1>4 DEF Update
  <2>2. Current(Poll(kbd, frame)) /\ Poll(kbd, frame).polled = frame
    BY <1>1, <1>2, PolledTells
  <2>3. Counted(Update(kbd))
    BY <1>1, Updated DEF OrderInv, IInv
  <2> QED
    BY <2>1, <2>2, <2>3 DEF Counted
<1> QED
  BY <1>3, <1>4

\* The world is the same, and the decoder current in it.
LEMMA CurrentKeeps ==
  ASSUME OrderInv, IInv', NEW k, Current(k), k.polled <= frame, kbd' = k,
         UNCHANGED <<frame, device, user>>
  PROVE  OrderInv'
<1>1. /\ frame' = frame /\ plugged' = plugged /\ side' = side /\ owed' = owed /\ keys' = keys
      /\ stale' = stale /\ missed' = missed /\ lamp' = lamp /\ sent' = sent
  BY DEF device, user
<1>2. Down(kbd)' = Down(k) /\ Believed' = Believed
  BY <1>1 DEF Down, Believed
<1>3. Current(kbd)'
  BY <1>1, <1>2 DEF Current, Told
<1> QED
  BY <1>1, <1>3 DEF OrderInv

\* Taking events out of the queue tells nothing.
LEMMA SkipTells ==
  ASSUME NEW k \in Decoder, Current(k), NEW n \in 0..k.qcount
  PROVE  Current(Skip(k, n)) /\ Skip(k, n).polled = k.polled
<1> DEFINE j == Skip(k, n)
           head == (k.qhead + n) % Size
           count == k.qcount - n
<1>1. Down(j) = Down(k)
  BY Skipped
<1>2. j = [k EXCEPT !.qhead = head, !.qcount = count]
  BY DEF Skip
<1> HIDE DEF j, head, count
<1>3. /\ j.log = k.log /\ j.strobe = k.strobe /\ j.page = k.page /\ j.polled = k.polled
      /\ j.caps = k.caps /\ j.conn = k.conn
  BY <1>2 DEF Decoder
<1> QED
  BY <1>1, <1>3 DEF Current, Told, j

\* A call that reads.
LEMMA ReadCurrent ==
  ASSUME OrderInv, NEW kinds, ReadOf(kinds), UNCHANGED user
  PROVE  OrderInv'
<1> DEFINE k == Update(kbd)
<1>1. k \in Decoder /\ Current(k) /\ k.polled = frame
  BY UpdateTells
<1>2. \E n \in 0..k.qcount : kbd' = Skip(k, n) /\ UNCHANGED <<frame, device>>
  <2>1. DOMAIN Queue(k) = 1..k.qcount /\ k.qcount \in Nat
    BY <1>1, QueueSeq, KeyboardAssumption DEF Decoder
  <2>2. CASE Program(Skip(k, k.qcount), <<>>)
    BY <2>1, <2>2 DEF Program
  <2>3. CASE \E i \in Wanted(Queue(k), kinds) : Program(Skip(k, i), <<Queue(k)[i]>>)
    <3>1. PICK i \in Wanted(Queue(k), kinds) : Program(Skip(k, i), <<Queue(k)[i]>>)
      BY <2>3
    <3>2. i \in 0..k.qcount
      BY <2>1, <3>1 DEF Wanted
    <3> QED
      BY <3>1, <3>2 DEF Program
  <2> QED
    BY <2>2, <2>3 DEF ReadOf
<1> HIDE DEF k
<1>3. PICK n \in 0..k.qcount : kbd' = Skip(k, n) /\ UNCHANGED <<frame, device>>
  BY <1>2
<1>4. Current(Skip(k, n)) /\ Skip(k, n).polled = frame
  BY <1>1, SkipTells
<1>5. frame \in Int /\ IInv'
  BY ReadKeeps DEF OrderInv, IInv, TypeOK
<1>6. Skip(k, n).polled <= frame
  BY <1>4, <1>5
<1> QED
  BY <1>3, <1>4, <1>5, <1>6, CurrentKeeps

\* A step of the world leaves at most one change to look at.
LEMMA WorldCurrent ==
  ASSUME OrderInv, World
  PROVE  OrderInv'
<1>1. /\ phase = "ended" /\ frame' = frame + 1 /\ phase' = "program" /\ kbd' = kbd
  BY DEF World, UserPress, UserRelease, UserPrefix, UserPayload, Idle, Unplug, PlugIn, NextFrame
<1>2. IInv'
  BY WorldKeeps DEF OrderInv
<1>3. /\ kbd.conn = plugged /\ kbd.log = sent /\ Down(kbd) = Believed /\ kbd.caps = lamp
      /\ plugged => kbd.strobe = side /\ kbd.page = owed
  BY <1>1 DEF OrderInv, Pending, Current, Told
<1>4. /\ frame \in Nat /\ kbd.polled \in Int /\ kbd.polled <= frame /\ owed \in Waits
      /\ side \in 0..2 /\ plugged \in BOOLEAN /\ (~plugged => side = 0 /\ owed = None)
      /\ owed.at \in Int
  BY KeyboardAssumption, SMTT(30) DEF OrderInv, IInv, TypeOK, Decoder, Waits, None
<1>5. kbd'.polled < frame' /\ kbd'.polled <= frame' /\ Down(kbd)' = Down(kbd)
  BY <1>1, <1>4 DEF Down
<1>6. ASSUME NEW code, NEW pressed, Show(code, pressed)
      PROVE  /\ (kbd.conn = TRUE /\ plugged /\ side \notin {0, kbd.strobe})'
             /\ shown'.code = code /\ shown'.pressed = pressed
             /\ kbd'.page = owed
  <2>1. /\ plugged /\ plugged' = plugged /\ side' = IF side = 1 THEN 2 ELSE 1
        /\ shown' = [code |-> code, pressed |-> pressed]
    BY <1>6 DEF Show
  <2>2. kbd'.conn = TRUE /\ kbd'.strobe = side /\ kbd'.page = owed
    BY <1>1, <1>3, <1>4, <2>1
  <2> QED
    BY <2>1, <2>2
<1>7. Regularly /\ kbd'.page = owed => Late(kbd)'
  <2>1. Timeout \in Nat
    BY KeyboardAssumption
  <2>2. frame + 1 - owed.at > Timeout => ~(frame' - owed.at <= Timeout)
    BY <1>1, <1>4, <2>1
  <2> QED
    BY <2>2 DEF Regularly, Late
<1>8. ASSUME NEW c \in Keys, UserPress(c) PROVE ToPress(kbd, c)' /\ Showing(kbd)'
  <2>1. /\ Regularly /\ Show(c, TRUE) /\ owed' = None
        /\ keys' = keys \cup {c} /\ stale' = stale \ {c} /\ missed' = missed \ {c}
        /\ lamp' = CapsAfter(c, lamp)
        /\ sent' = Append(sent, Event("press", c, Upper(c, Believed \cup {c}, lamp')))
    BY <1>8 DEF UserPress, Sends, CapsAfter
  <2>2. Believed' = Believed \cup {c}
    BY <2>1 DEF Believed
  <2>3. /\ shown'.code = c /\ shown'.pressed /\ Late(kbd)'
        /\ (kbd.conn = TRUE /\ plugged /\ side \notin {0, kbd.strobe})'
    BY <1>6, <1>7, <2>1
  <2>4. Believed' = Down(kbd)' \cup {c} /\ lamp' = CapsAfter(c, kbd'.caps)
    BY <1>1, <1>3, <1>5, <2>1, <2>2
  <2>5. sent' = Append(kbd'.log, Event("press", c, Upper(c, Believed', lamp')))
    BY <1>1, <1>3, <2>1, <2>2
  <2>6. ToPress(kbd, c)'
    BY <2>1, <2>3, <2>4, <2>5 DEF ToPress
  <2> QED
    BY <2>3, <2>6 DEF Showing
<1>9. ASSUME NEW c \in Keys, UserRelease(c) PROVE Showing(kbd)'
  <2>1. /\ Regularly /\ Show(c, FALSE) /\ owed' = None
        /\ keys' = keys \ {c} /\ stale' = stale \ {c} /\ missed' = missed \ {c}
        /\ lamp' = lamp
        /\ sent' = Append(sent, Event("release", c, FALSE))
    BY <1>9 DEF UserRelease, Sends
  <2>2. Believed' = Believed \ {c}
    BY <2>1 DEF Believed
  <2>3. /\ shown'.code = c /\ ~shown'.pressed /\ Late(kbd)'
        /\ (kbd.conn = TRUE /\ plugged /\ side \notin {0, kbd.strobe})'
    BY <1>6, <1>7, <2>1
  <2>4. Believed' = Down(kbd)' \ {c} /\ lamp' = kbd'.caps
    BY <1>1, <1>3, <1>5, <2>1, <2>2
  <2>5. sent' = Append(kbd'.log, Event("release", c, FALSE))
    BY <1>1, <1>3, <2>1
  <2>6. ToRelease(kbd, c)'
    BY <2>1, <2>3, <2>4, <2>5 DEF ToRelease
  <2> QED
    BY <2>3, <2>6 DEF Showing
<1>10. ASSUME NEW p \in Prefixes, UserPrefix(p) PROVE Showing(kbd)'
  <2>1. /\ Regularly /\ Show(p, FALSE) /\ owed' = [prefix |-> p, at |-> frame']
        /\ keys' = keys /\ stale' = stale /\ missed' = missed /\ lamp' = lamp /\ sent' = sent
    BY <1>1, <1>10 DEF UserPrefix
  <2>2. Believed' = Believed
    BY <2>1 DEF Believed
  <2>3. /\ shown'.code = p /\ Late(kbd)'
        /\ (kbd.conn = TRUE /\ plugged /\ side \notin {0, kbd.strobe})'
    BY <1>6, <1>7, <2>1
  <2>4. Told(kbd)'
    BY <1>1, <1>3, <1>5, <2>1, <2>2 DEF Told
  <2>5. ToPrefix(kbd, p)'
    BY <2>1, <2>3, <2>4 DEF ToPrefix
  <2> QED
    BY <2>3, <2>5 DEF Showing
<1>11. ASSUME NEW c \in Payloads, UserPayload(c) PROVE Showing(kbd)'
  <2>1. /\ Show(c, FALSE) /\ owed' = None /\ owed # None /\ frame' - owed.at <= Timeout
        /\ keys' = keys /\ stale' = stale /\ missed' = missed /\ lamp' = lamp
        /\ sent' = IF owed.prefix = Low /\ c = Nul THEN sent
                   ELSE Append(sent, Event("text", <<owed.prefix, c>>, FALSE))
    <3>1. /\ Show(c, FALSE) /\ owed' = None /\ owed # None /\ frame + 1 - owed.at <= Timeout
          /\ UNCHANGED <<keys, lamp, stale, missed>>
      BY <1>11 DEF UserPayload
    <3>2. IF owed.prefix = Low /\ c = Nul THEN sent' = sent
          ELSE sent' = Append(sent, Event("text", <<owed.prefix, c>>, FALSE))
      BY <1>11 DEF UserPayload, Sends
    <3>3. sent' = IF owed.prefix = Low /\ c = Nul THEN sent
                  ELSE Append(sent, Event("text", <<owed.prefix, c>>, FALSE))
      <4>1. CASE owed.prefix = Low /\ c = Nul
        BY <3>2, <4>1
      <4>2. CASE ~(owed.prefix = Low /\ c = Nul)
        BY <3>2, <4>2, Zenon
      <4> QED
        BY <4>1, <4>2
    <3>4. frame' - owed.at <= Timeout
      <4>1. frame' = frame + 1
        BY <1>1
      <4>2. frame + 1 - owed.at <= Timeout
        BY <3>1
      <4> QED
        BY <1>4, <4>1, <4>2, KeyboardAssumption, SMT
    <3> QED
      BY <3>1, <3>3, <3>4
  <2>2. Believed' = Believed
    BY <2>1 DEF Believed
  <2>3. /\ shown'.code = c /\ kbd'.page = owed
        /\ (kbd.conn = TRUE /\ plugged /\ side \notin {0, kbd.strobe})'
    BY <1>6, <2>1
  <2>4. ~Late(kbd)'
    BY <2>1, <2>3 DEF Late
  <2>5. Believed' = Down(kbd)' /\ lamp' = kbd'.caps
    BY <1>1, <1>3, <1>5, <2>1, <2>2
  <2>6. sent' = IF kbd'.page.prefix = Low /\ c = Nul THEN kbd'.log
                ELSE Append(kbd'.log, Event("text", <<kbd'.page.prefix, c>>, FALSE))
    BY <1>1, <1>3, <2>1, <2>3
  <2>7. ToPayload(kbd, c)'
    BY <2>1, <2>3, <2>4, <2>5, <2>6 DEF ToPayload
  <2> QED
    BY <2>3, <2>7 DEF Showing
<1>12. ASSUME Idle PROVE Current(kbd)' /\ (~plugged => side = 0 /\ owed = None)'
  <2>1. /\ plugged' = plugged /\ side' = side /\ owed' = owed /\ keys' = keys
        /\ stale' = stale /\ missed' = missed /\ lamp' = lamp /\ sent' = sent
    BY <1>12 DEF Idle, device, user
  <2>2. Believed' = Believed
    BY <2>1 DEF Believed
  <2> QED
    BY <1>1, <1>3, <1>4, <1>5, <2>1, <2>2 DEF Current, Told
<1>13. ASSUME Unplug PROVE Moved(kbd)'
  <2>1. /\ plugged /\ plugged' = FALSE /\ side' = 0 /\ owed' = None /\ keys' = {}
        /\ stale' = Believed /\ missed' = {} /\ lamp' = lamp /\ sent' = sent
    BY <1>13 DEF Unplug
  <2>2. Believed' = Believed
    BY <2>1 DEF Believed
  <2>3. (kbd.conn = ~plugged)'
    BY <1>1, <1>3, <1>4, <2>1
  <2> QED
    BY <1>1, <1>3, <1>5, <2>1, <2>2, <2>3 DEF Moved, Told
<1>14. ASSUME PlugIn PROVE Moved(kbd)'
  <2>1. /\ ~plugged /\ plugged' = TRUE /\ side' = side /\ owed' = owed /\ keys' = keys
        /\ stale' = stale /\ missed' = missed /\ lamp' = lamp /\ sent' = sent
    BY <1>14 DEF PlugIn
  <2>2. Believed' = Believed
    BY <2>1 DEF Believed
  <2>3. (kbd.conn = ~plugged)'
    BY <1>1, <1>3, <1>4, <2>1
  <2> QED
    BY <1>1, <1>3, <1>4, <1>5, <2>1, <2>2, <2>3 DEF Moved, Told
<1>15. Showing(kbd)' \/ Moved(kbd)' => (Current(kbd) \/ Pending)'
  BY <1>1, <1>5 DEF Pending
<1>16. Showing(kbd)' \/ Moved(kbd)' => (~plugged => side = 0 /\ owed = None)'
  BY DEF Showing, Moved
<1> QED
  BY <1>2, <1>5, <1>8, <1>9, <1>10, <1>11, <1>12, <1>13, <1>14, <1>15, <1>16 DEF World, OrderInv

\* kbd.clear() forgets what is in the queue, and nothing else.
LEMMA ClearCurrent ==
  ASSUME OrderInv, Clear
  PROVE  OrderInv'
<1> DEFINE k == Update(kbd)
           j == [k EXCEPT !.qcount = 0]
<1>1. k \in Decoder /\ Current(k) /\ k.polled = frame
  BY UpdateTells
<1>2. kbd' = j /\ UNCHANGED <<frame, device, user>>
  BY DEF Clear, Program
<1>3. IInv' /\ frame \in Int
  BY ClearKeeps DEF OrderInv, IInv, TypeOK
<1> HIDE DEF k
<1>4. /\ j.down = k.down /\ j.log = k.log /\ j.strobe = k.strobe /\ j.page = k.page
      /\ j.polled = k.polled /\ j.caps = k.caps /\ j.conn = k.conn
  BY <1>1 DEF Decoder
<1> HIDE DEF j
<1>5. Down(j) = Down(k)
  BY <1>4 DEF Down
<1>6. Current(j)
  BY <1>1, <1>4, <1>5 DEF Current, Told
<1>7. j.polled <= frame
  BY <1>1, <1>3, <1>4
<1> QED
  BY <1>2, <1>3, <1>6, <1>7, CurrentKeeps

\* kbd.port() starts over: nothing is known and nothing was sent.
LEMMA PortCurrent ==
  ASSUME OrderInv, Port
  PROVE  OrderInv'
<1> DEFINE none == [c \in Keys |-> -1]
           j == [kbd EXCEPT !.down = none, !.polled = -1, !.anyp = -1,
            !.caps = FALSE, !.held = 0, !.qhead = 0, !.qcount = 0,
            !.page = None, !.conn = plugged, !.strobe = side, !.log = <<>>]
<1>1. /\ kbd' = j /\ owed = None /\ owed' = None /\ lamp' = FALSE /\ stale' = {}
      /\ missed' = keys /\ keys' = keys /\ sent' = <<>>
      /\ frame' = frame /\ plugged' = plugged /\ side' = side
  BY DEF Port, Program, Reset, device
<1>2. IInv' /\ frame \in 0..MaxFrame /\ kbd \in Decoder /\ (~plugged => side = 0 /\ owed = None)
  BY PortKeeps DEF OrderInv, IInv, TypeOK
<1> HIDE DEF none
<1>3. /\ j.down = none /\ j.log = <<>> /\ j.strobe = side /\ j.page = None
      /\ j.polled = -1 /\ j.caps = FALSE /\ j.conn = plugged
  BY <1>2 DEF Decoder
<1> HIDE DEF j
<1>4. Down(kbd)' = {}
  <2>1. \A c \in Keys : ~(none[c] >= 0)
    BY DEF none
  <2>2. kbd'.down = none
    BY <1>1, <1>3
  <2> QED
    BY <2>1, <2>2 DEF Down
<1>5. Believed' = {}
  BY <1>1 DEF Believed
<1>6. Current(kbd)'
  BY <1>1, <1>3, <1>4, <1>5 DEF Current, Told
<1>7. (kbd.polled <= frame)'
  BY <1>1, <1>2, <1>3
<1> QED
  BY <1>1, <1>2, <1>6, <1>7 DEF OrderInv

\* The poll at the end of a frame looks at what the frame has left.
LEMMA FrameEndCurrent ==
  ASSUME OrderInv, FrameEnd
  PROVE  OrderInv'
<1> DEFINE k == Poll(kbd, frame + 1)
<1>1. kbd' = k /\ frame < MaxFrame /\ UNCHANGED <<frame, device, user>>
  BY DEF FrameEnd
<1>2. /\ TypeOK /\ kbd \in Decoder /\ frame \in 0..MaxFrame
      /\ (~plugged => side = 0 /\ owed = None)
      /\ Current(kbd) \/ Showing(kbd) \/ Moved(kbd)
  BY DEF OrderInv, IInv, TypeOK, Pending
<1>3. frame + 1 \in 0..MaxFrame
  BY <1>1, <1>2, KeyboardAssumption
<1>4. Current(k) /\ k.polled = frame
  BY <1>2, <1>3, PolledTells
<1>5. IInv'
  BY PolledKeeps DEF OrderInv
<1> HIDE DEF k
<1>6. k.polled <= frame
  BY <1>2, <1>4
<1> QED
  BY <1>1, <1>4, <1>5, <1>6, CurrentKeeps

\* When the decoder starts, nothing is known and nothing was sent.
LEMMA OrderInitial == Init => OrderInv
<1> SUFFICES ASSUME Init PROVE OrderInv
  OBVIOUS
<1>1. IInv
  BY Initial
<1>2. PICK ring : kbd = [strobe |-> side, polled |-> -1, caps |-> FALSE, held |-> 0,
                         anyp |-> -1, page |-> None, conn |-> plugged,
                         down |-> [c \in Keys |-> -1],
                         ring |-> ring, qhead |-> 0, qcount |-> 0, log |-> <<>>]
  BY DEF Init
<1>3. /\ frame = 0 /\ keys = {} /\ owed = None /\ lamp = FALSE /\ stale = {} /\ missed = {}
      /\ sent = <<>> /\ (~plugged => side = 0)
  BY DEF Init
<1>4. /\ kbd.conn = plugged /\ kbd.log = <<>> /\ kbd.caps = FALSE /\ kbd.strobe = side
      /\ kbd.page = None /\ kbd.polled = -1 /\ kbd.down = [c \in Keys |-> -1]
  BY <1>2
<1>5. Down(kbd) = {} /\ Believed = {}
  <2>1. ~(-1 >= 0)
    OBVIOUS
  <2> QED
    BY <1>3, <1>4, <2>1 DEF Down, Believed
<1>6. Current(kbd)
  BY <1>3, <1>4, <1>5 DEF Current, Told
<1>7. kbd.polled <= frame
  BY <1>3, <1>4
<1> QED
  BY <1>1, <1>3, <1>6, <1>7 DEF OrderInv

\* Every step leaves the decoder current, or with one change to look at.
LEMMA OrderInductive ==
  ASSUME OrderInv, [Next]_vars PROVE OrderInv'
<1>1. CASE Ask
  <2> DEFINE k == Update(kbd)
  <2>1. k \in Decoder /\ Current(k) /\ k.polled = frame
    BY UpdateTells
  <2>2. kbd' = k /\ UNCHANGED <<frame, device, user>>
    BY <1>1 DEF Ask, Program
  <2>3. IInv' /\ frame \in Int
    BY Inductive DEF OrderInv, IInv, TypeOK
  <2> HIDE DEF k
  <2>4. k.polled <= frame
    BY <2>1, <2>3
  <2> QED
    BY <2>1, <2>2, <2>3, <2>4, CurrentKeeps
<1>2. CASE Read
  BY <1>2, ReadCurrent DEF Read
<1>3. CASE NextEvent
  BY <1>3, ReadCurrent DEF NextEvent
<1>4. CASE Clear
  BY <1>4, ClearCurrent
<1>5. CASE Port
  BY <1>5, PortCurrent
<1>6. CASE FrameEnd
  BY <1>6, FrameEndCurrent
<1>7. CASE World
  BY <1>7, WorldCurrent
<1>8. CASE UNCHANGED vars
  <2>1. IInv'
    BY Inductive DEF OrderInv
  <2>2. /\ kbd' = kbd /\ frame' = frame /\ phase' = phase /\ plugged' = plugged /\ side' = side
        /\ shown' = shown /\ keys' = keys /\ owed' = owed /\ lamp' = lamp /\ stale' = stale
        /\ missed' = missed /\ sent' = sent
    BY <1>8 DEF vars, device, user
  <2>3. Believed' = Believed /\ Down(kbd)' = Down(kbd) /\ Late(kbd)' = Late(kbd)
    BY <2>2 DEF Believed, Down, Late
  <2>4. Told(kbd)' = Told(kbd)
    BY <2>2, <2>3 DEF Told
  <2>5. /\ Current(kbd) => Current(kbd)'
        /\ Moved(kbd) => Moved(kbd)'
    BY <2>2, <2>4 DEF Current, Moved
  <2>6. \A c : /\ ToPress(kbd, c) => ToPress(kbd, c)'
               /\ ToRelease(kbd, c) => ToRelease(kbd, c)'
               /\ ToPrefix(kbd, c) => ToPrefix(kbd, c)'
               /\ ToPayload(kbd, c) => ToPayload(kbd, c)'
    BY <2>2, <2>3, <2>4 DEF ToPress, ToRelease, ToPrefix, ToPayload
  <2>7. Showing(kbd) => Showing(kbd)'
    BY <2>2, <2>6 DEF Showing
  <2> QED
    BY <2>1, <2>2, <2>5, <2>7 DEF OrderInv, Pending
<1> QED
  BY <1>1, <1>2, <1>3, <1>4, <1>5, <1>6, <1>7, <1>8 DEF Next, World

\* A keyboard that is read every frame loses no event, decodes none twice and
\* none out of order: the log is what was sent, or all of it but the event
\* that shows and that this frame has yet to look at
\* (src/src/runtime/v32kbd.s:66-269).
THEOREM OrderCorrect == Spec => []InOrder
<1>1. Init => OrderInv
  BY OrderInitial
<1>2. OrderInv /\ [Next]_vars => OrderInv'
  BY OrderInductive
<1>3. ASSUME OrderInv PROVE InOrder
  <2>1. CASE kbd.log = sent
    BY <2>1 DEF InOrder
  <2>2. CASE kbd.log # sent
    <3>1. phase = "program" /\ Showing(kbd)
      BY <1>3, <2>2 DEF OrderInv, Current, Pending, Moved, Told
    <3>2. kbd.log \in Seq(Events) /\ sent \in Seq(Events)
      BY <1>3 DEF OrderInv, IInv, TypeOK, Decoder
    <3>3. \E e : sent = Append(kbd.log, e)
      <4>1. \/ \E c \in Keys : ToPress(kbd, c) \/ ToRelease(kbd, c)
            \/ \E p \in Prefixes : ToPrefix(kbd, p)
            \/ \E c \in Payloads : ToPayload(kbd, c)
        BY <3>1 DEF Showing
      <4>2. \A p : ~ToPrefix(kbd, p)
        BY <2>2 DEF ToPrefix, Told
      <4>3. ASSUME NEW c, ToPress(kbd, c) \/ ToRelease(kbd, c) \/ ToPayload(kbd, c)
            PROVE  \E e : sent = Append(kbd.log, e)
        BY <2>2, <4>3 DEF ToPress, ToRelease, ToPayload
      <4> QED
        BY <4>1, <4>2, <4>3
    <3>4. PICK e : sent = Append(kbd.log, e)
      BY <3>3
    <3>5. sent # <<>> /\ kbd.log = SubSeq(sent, 1, Len(sent) - 1)
      BY <3>2, <3>4, Front
    <3> QED
      BY <3>1, <3>5 DEF InOrder
  <2> QED
    BY <2>1, <2>2
<1> QED
  BY <1>1, <1>2, <1>3, PTL DEF Spec

\* At the end of a frame the keys down are the user's
\* (src/src/runtime/v32kbd.s:42-44, 238-269).
THEOREM KeysCorrect == Spec => []KeysMatch
<1>1. Init => OrderInv
  BY OrderInitial
<1>2. OrderInv /\ [Next]_vars => OrderInv'
  BY OrderInductive
<1>3. OrderInv => KeysMatch
  BY DEF OrderInv, Pending, Current, Told, KeysMatch
<1> QED
  BY <1>1, <1>2, <1>3, PTL DEF Spec

-----------------------------------------------------------------------------
(***************************************************************************)
(* The mouse.                                                              *)
(***************************************************************************)
(***************************************************************************)
(* The inductive invariant.                                                *)
(***************************************************************************)
MouseDecoder ==
  [polled : Int, conn : BOOLEAN, count : -1..11, buttons : SUBSET Buttons,
   pressf : [Buttons -> Int], relf : [Buttons -> Int],
   dframe : Int, dx : Int, scale : Int, x : Int, min : Int, max : Int]

Seen == [steps : Int, down : SUBSET Buttons, up : SUBSET Buttons]

\* What happened since a read adds when it was made and whether the device stayed.
Since == [steps : Int, down : SUBSET Buttons, up : SUBSET Buttons,
          since : Int, steady : BOOLEAN]

MouseTypeOK ==
  /\ mouse \in MouseDecoder
  /\ frame \in Nat /\ phase \in {"program", "ended"}
  /\ present \in BOOLEAN /\ position \in 0..11 /\ pushed \in SUBSET Buttons
  /\ unread \in Since /\ visible \in Seen
  /\ due \in Int /\ turned \in BOOLEAN

\* The decoder and the history agree on the last read: when it was, and
\* whether the device has been there ever since.
LastRead ==
  /\ unread.since = mouse.polled /\ mouse.polled <= frame
  /\ phase = "ended" => mouse.polled = frame
  /\ unread.steady <=> present /\ mouse.conn
  /\ ~present => pushed = {}
  /\ mouse.scale >= 1

\* A device that stayed is as many steps on as it made since.
InStep ==
  unread.steady =>
    mouse.count \in 0..11 /\ position = (mouse.count + unread.steps) % 12

\* The buttons that are not as they were read.
Differ ==
  /\ unread.down = M!ShownButtons \ mouse.buttons
  /\ unread.up = mouse.buttons \ M!ShownButtons

\* The frame in which what was read is visible: the last read of a frame is
\* for the next one.
Visible == IF phase = "ended" THEN frame + 1 ELSE frame

\* Nothing is marked for a frame after that, and what is marked for it is what
\* belongs to it.
Marked ==
  /\ mouse.dframe <= Visible
  /\ \A b \in Buttons : mouse.pressf[b] <= Visible /\ mouse.relf[b] <= Visible
  /\ {b \in Buttons : mouse.pressf[b] = Visible} = visible.down
  /\ {b \in Buttons : mouse.relf[b] = Visible} = visible.up

\* The moves that were read are those the device made.
MovesHeard ==
  ~turned =>
    /\ mouse.x = due
    /\ (IF mouse.dframe = Visible THEN mouse.dx ELSE 0) = visible.steps

MouseInv == MouseTypeOK /\ LastRead /\ InStep /\ Differ /\ Marked /\ MovesHeard

-----------------------------------------------------------------------------
(***************************************************************************)
(* The counter.                                                            *)
(***************************************************************************)
\* The table of the decoder undoes the controls of the device; a port with no
\* mouse reads as some position, too.
LEMMA CounterShown ==
  ASSUME position \in 0..11
  PROVE  /\ M!Counter(M!Shown) \in 0..11
         /\ present => M!Counter(M!Shown) = position
<1>1. CASE present
  <2>1. M!Counter(M!Controls[position + 1]) = position
    BY DEF M!Counter, M!Controls, M!Positions
  <2> QED
    BY <1>1, <2>1 DEF M!Shown
<1>2. CASE ~present
  BY <1>2 DEF M!Counter, M!Shown, M!Positions
<1> QED
  BY <1>1, <1>2

\* Two readings tell at most five steps, and no other number of them.
LEMMA StepsRead ==
  ASSUME NEW c \in 0..11, NEW s \in Int
  PROVE  /\ M!Steps(c, (c + s) % 12) \in -5..5
         /\ s \in -5..5 => M!Steps(c, (c + s) % 12) = s
<1> DEFINE after == (c + s) % 12
           around == (after - c + 12) % 12
<1>1. after \in 0..11 /\ around \in 0..11
  OBVIOUS
<1>2. M!Steps(c, after) = IF around = 6 THEN 0 ELSE IF around > 6 THEN around - 12 ELSE around
  BY <1>1 DEF M!Steps
<1>3. s \in -5..5 => around = IF s < 0 THEN s + 12 ELSE s
  OBVIOUS
<1> HIDE DEF after, around
<1> QED
  BY <1>1, <1>2, <1>3 DEF after

\* A place inside bounds is a number.
LEMMA WithinInt ==
  ASSUME NEW x \in Int, NEW lo \in Int, NEW hi \in Int
  PROVE  M!Within(x, lo, hi) \in Int
  BY DEF M!Within

-----------------------------------------------------------------------------
(***************************************************************************)
(* A read.                                                                 *)
(***************************************************************************)
\* Whether the decoder measures a move is whether the device owes one.
Measured == present /\ mouse.conn /\ frame - mouse.polled <= 2

\* What a read finds is what is owed, unless the counter turned too far.
Move == IF Measured THEN mouse.scale * M!Steps(mouse.count, M!Counter(M!Shown)) ELSE 0

\* What a read moves the pointer by is what it owes, within half a turn.
LEMMA MoveOwed ==
  ASSUME MouseInv
  PROVE  /\ Move \in Int /\ M!Owed \in Int
         /\ (M!Owed # 0 => unread.steps \in -5..5) => Move = M!Owed
<1>1. /\ mouse.scale \in Int /\ mouse.scale >= 1 /\ unread.steps \in Int
      /\ unread.since = mouse.polled /\ (unread.steady <=> present /\ mouse.conn)
      /\ position \in 0..11
  BY DEF MouseInv, MouseTypeOK, LastRead, MouseDecoder, Since
<1>2. unread.steady /\ frame - unread.since <= 2 <=> Measured
  BY <1>1 DEF Measured
<1>3. CASE ~Measured
  BY <1>2, <1>3 DEF Move, M!Owed
<1>4. CASE Measured
  <2>1. /\ mouse.count \in 0..11 /\ position = (mouse.count + unread.steps) % 12
        /\ M!Counter(M!Shown) = position
    BY <1>1, <1>2, <1>4, CounterShown DEF MouseInv, InStep, Measured
  <2> DEFINE told == M!Steps(mouse.count, M!Counter(M!Shown))
  <2>2. told \in -5..5 /\ (unread.steps \in -5..5 => told = unread.steps)
    <3>1. /\ M!Steps(mouse.count, (mouse.count + unread.steps) % 12) \in -5..5
          /\ unread.steps \in -5..5 =>
               M!Steps(mouse.count, (mouse.count + unread.steps) % 12) = unread.steps
      BY <1>1, <2>1, StepsRead
    <3>2. told = M!Steps(mouse.count, (mouse.count + unread.steps) % 12)
      BY <2>1
    <3> QED
      BY <3>1, <3>2
  <2>3. M!Owed = mouse.scale * unread.steps
    BY <1>2, <1>4 DEF M!Owed
  <2>4. Move = mouse.scale * told
    BY <1>4 DEF Move
  <2> HIDE DEF told
  <2>5. M!Owed = 0 => unread.steps = 0
    BY <1>1, <2>3
  <2>6. Move \in Int /\ M!Owed \in Int
    BY <1>1, <2>2, <2>3, <2>4
  <2> QED
    BY <1>1, <2>2, <2>3, <2>4, <2>5, <2>6
<1> QED
  BY <1>3, <1>4

\* The fields a read changes.
LEMMA MousePolled ==
  ASSUME MouseInv, NEW when \in Nat
  PROVE  LET m == M!Poll(when)
         IN /\ m \in MouseDecoder
            /\ m.polled = frame /\ m.conn = present /\ m.count = M!Counter(M!Shown)
            /\ m.buttons = M!ShownButtons /\ m.dframe = when
            /\ m.dx = Move + (IF mouse.dframe = when THEN mouse.dx ELSE 0)
            /\ m.x = M!Within(mouse.x + Move, mouse.min, mouse.max)
            /\ m.scale = mouse.scale /\ m.min = mouse.min /\ m.max = mouse.max
            /\ \A b \in Buttons :
                 /\ m.pressf[b] = IF b \in M!ShownButtons \ mouse.buttons THEN when
                                  ELSE mouse.pressf[b]
                 /\ m.relf[b] = IF b \in mouse.buttons \ M!ShownButtons THEN when
                                ELSE mouse.relf[b]
<1> DEFINE pressed == [b \in Buttons |-> IF b \in M!ShownButtons \ mouse.buttons THEN when
                                         ELSE mouse.pressf[b]]
           released == [b \in Buttons |-> IF b \in mouse.buttons \ M!ShownButtons THEN when
                                          ELSE mouse.relf[b]]
           move == Move + (IF mouse.dframe = when THEN mouse.dx ELSE 0)
           place == M!Within(mouse.x + Move, mouse.min, mouse.max)
           counter == M!Counter(M!Shown)
<1>1. mouse \in MouseDecoder /\ frame \in Int /\ present \in BOOLEAN /\ when \in Int
  BY DEF MouseInv, MouseTypeOK
<1>2. counter \in -1..11
  BY CounterShown DEF MouseInv, MouseTypeOK
<1>3. M!ShownButtons \in SUBSET Buttons
  BY DEF M!ShownButtons, MouseInv, MouseTypeOK
<1>4. Move \in Int
  BY MoveOwed
<1>5. move \in Int
  BY <1>1, <1>4 DEF MouseDecoder
<1>6. place \in Int
  BY <1>1, <1>4, WithinInt DEF MouseDecoder
<1>7. pressed \in [Buttons -> Int] /\ released \in [Buttons -> Int]
  BY <1>1 DEF MouseDecoder
<1>8. M!Poll(when) = [mouse EXCEPT !.polled = frame, !.conn = present, !.count = counter,
                      !.buttons = M!ShownButtons, !.pressf = pressed, !.relf = released,
                      !.dframe = when, !.dx = move, !.x = place]
  BY <1>1 DEF M!Poll, Move, Measured, MouseDecoder
<1> HIDE DEF pressed, released, move, place, counter
<1> DEFINE m == M!Poll(when)
<1>9. m = [polled |-> frame, conn |-> present, count |-> counter,
           buttons |-> M!ShownButtons, pressf |-> pressed, relf |-> released,
           dframe |-> when, dx |-> move, scale |-> mouse.scale, x |-> place,
           min |-> mouse.min, max |-> mouse.max]
  BY <1>1, <1>8 DEF MouseDecoder
<1> HIDE DEF m
<1>10. \A b \in Buttons :
         /\ m.pressf[b] = IF b \in M!ShownButtons \ mouse.buttons THEN when
                          ELSE mouse.pressf[b]
         /\ m.relf[b] = IF b \in mouse.buttons \ M!ShownButtons THEN when
                        ELSE mouse.relf[b]
  BY <1>9 DEF pressed, released
<1>11. m \in MouseDecoder
  BY <1>1, <1>2, <1>3, <1>5, <1>6, <1>7, <1>9 DEF MouseDecoder
<1>12. /\ m.polled = frame /\ m.count = counter
       /\ m.buttons = M!ShownButtons /\ m.dframe = when /\ m.dx = move /\ m.x = place
       /\ m.scale = mouse.scale /\ m.min = mouse.min /\ m.max = mouse.max
  BY <1>9
<1>13. m.conn = present
  BY <1>9, Zenon
<1> QED
  BY <1>10, <1>11, <1>12, <1>13 DEF m, move, place, counter

\* A read, for the frame given, keeps the invariant: what is new is marked for
\* that frame and belongs to it.
LEMMA MouseReadKeeps ==
  ASSUME MouseInv, phase = "program", NEW when \in Nat, when \in {frame, frame + 1},
         mouse' = M!Poll(when), M!Moved, M!Read, UNCHANGED <<frame, M!world>>,
         phase' = IF when = frame THEN "program" ELSE "ended",
         visible' = IF when = frame THEN M!Together(visible, M!News) ELSE M!News
  PROVE  MouseInv'
<1>1. /\ mouse' \in MouseDecoder
      /\ mouse'.polled = frame /\ mouse'.count = M!Counter(M!Shown)
      /\ mouse'.buttons = M!ShownButtons /\ mouse'.dframe = when
      /\ mouse'.dx = Move + (IF mouse.dframe = when THEN mouse.dx ELSE 0)
      /\ mouse'.x = M!Within(mouse.x + Move, mouse.min, mouse.max)
      /\ mouse'.scale = mouse.scale
      /\ \A b \in Buttons :
           /\ mouse'.pressf[b] = IF b \in M!ShownButtons \ mouse.buttons THEN when
                                 ELSE mouse.pressf[b]
           /\ mouse'.relf[b] = IF b \in mouse.buttons \ M!ShownButtons THEN when
                               ELSE mouse.relf[b]
  BY MousePolled
<1>2. mouse'.conn = present
  BY MousePolled, Zenon
<1>3. /\ mouse \in MouseDecoder /\ frame \in Nat /\ position \in 0..11
      /\ unread \in Since /\ visible \in Seen /\ due \in Int
  BY DEF MouseInv, MouseTypeOK
<1>4. unread' = [steps |-> 0, down |-> {}, up |-> {}, since |-> frame, steady |-> present]
  BY DEF M!Read
<1>5. frame' = frame /\ position' = position /\ pushed' = pushed
  BY DEF M!world
<1>6. present' = present
  BY Zenon DEF M!world
<1>7. M!ShownButtons' = M!ShownButtons
  BY <1>5, <1>6 DEF M!ShownButtons
<1>8. Visible' = when /\ (when = frame => Visible = frame) /\ Visible = frame
  BY <1>3, <1>5 DEF Visible
<1>9. Move \in Int /\ M!Owed \in Int /\ ((M!Owed # 0 => unread.steps \in -5..5) => Move = M!Owed)
  BY MoveOwed
<1>10. M!News = [steps |-> M!Owed, down |-> unread.down, up |-> unread.up]
  BY DEF M!News
<1>11. /\ unread.down = M!ShownButtons \ mouse.buttons
       /\ unread.up = mouse.buttons \ M!ShownButtons
  BY DEF MouseInv, Differ
<1>12. /\ visible'.steps = IF when = frame THEN visible.steps + M!Owed ELSE M!Owed
       /\ visible'.down = IF when = frame THEN visible.down \cup unread.down ELSE unread.down
       /\ visible'.up = IF when = frame THEN visible.up \cup unread.up ELSE unread.up
  BY <1>10 DEF M!Together
<1>13. visible' \in Seen
  <2>1. M!News \in Seen
    BY <1>3, <1>9, <1>10 DEF Since, Seen
  <2>2. M!Together(visible, M!News) \in Seen
    BY <1>3, <2>1 DEF M!Together, Seen
  <2> QED
    BY <2>1, <2>2
<1>14. due' \in Int
  BY <1>3, <1>9, WithinInt DEF M!Moved, MouseDecoder
<1>15. turned' \in BOOLEAN
  BY DEF M!Moved
<1>16. unread' \in Since
  <2>1. present \in BOOLEAN
    BY DEF MouseInv, MouseTypeOK
  <2> QED
    BY <1>3, <1>4, <2>1 DEF Since
<1>17. MouseTypeOK'
  <2>1. present' \in BOOLEAN /\ pushed' \in SUBSET Buttons
    BY <1>5, <1>6 DEF MouseInv, MouseTypeOK
  <2>2. phase' \in {"program", "ended"}
    OBVIOUS
  <2> QED
    BY <1>1, <1>3, <1>5, <1>13, <1>14, <1>15, <1>16, <2>1, <2>2 DEF MouseTypeOK
<1>18. LastRead'
  <2>1. unread'.since = frame /\ (unread'.steady <=> present)
    BY <1>4
  <2>2. unread'.steady <=> present' /\ mouse'.conn
    BY <1>2, <1>6, <2>1
  <2>3. ~present' => pushed' = {}
    BY <1>5, <1>6 DEF MouseInv, LastRead
  <2>4. mouse'.scale >= 1
    BY <1>1 DEF MouseInv, LastRead
  <2> QED
    BY <1>1, <1>3, <1>5, <2>1, <2>2, <2>3, <2>4 DEF LastRead
<1>19. InStep'
  <2>1. ASSUME present
        PROVE  mouse'.count \in 0..11 /\ position' = (mouse'.count + unread'.steps) % 12
    BY <1>1, <1>3, <1>4, <1>5, <2>1, CounterShown
  <2>2. unread'.steady => present
    BY <1>4
  <2> QED
    BY <2>1, <2>2 DEF InStep
<1>20. Differ'
  <2>1. unread'.down = {} /\ unread'.up = {}
    BY <1>4
  <2> QED
    BY <1>1, <1>7, <2>1 DEF Differ
<1>21. Marked'
  <2>1. \A b \in Buttons : /\ mouse.pressf[b] \in Int /\ mouse.pressf[b] <= frame
                           /\ mouse.relf[b] \in Int /\ mouse.relf[b] <= frame
    BY <1>3, <1>8 DEF MouseInv, Marked, MouseDecoder
  <2>2. /\ {b \in Buttons : mouse.pressf[b] = frame} = visible.down
        /\ {b \in Buttons : mouse.relf[b] = frame} = visible.up
    BY <1>8 DEF MouseInv, Marked
  <2>3. \A b \in Buttons : mouse'.pressf[b] <= when /\ mouse'.relf[b] <= when
    BY <1>1, <1>3, <2>1
  <2>4. M!ShownButtons \subseteq Buttons /\ mouse.buttons \subseteq Buttons
    BY <1>3 DEF M!ShownButtons, MouseInv, MouseTypeOK, MouseDecoder
  <2>5. {b \in Buttons : mouse'.pressf[b] = when} = visible'.down
    <3>1. CASE when = frame
      BY <1>1, <1>11, <1>12, <2>2, <2>4, <3>1
    <3>2. CASE when = frame + 1
      <4>1. \A b \in Buttons : mouse.pressf[b] # when
        BY <1>3, <2>1, <3>2
      <4>2. visible'.down = unread.down
        BY <1>3, <1>12, <3>2
      <4> QED
        BY <1>1, <1>11, <2>4, <4>1, <4>2
    <3> QED
      BY <3>1, <3>2
  <2>6. {b \in Buttons : mouse'.relf[b] = when} = visible'.up
    <3>1. CASE when = frame
      BY <1>1, <1>11, <1>12, <2>2, <2>4, <3>1
    <3>2. CASE when = frame + 1
      <4>1. \A b \in Buttons : mouse.relf[b] # when
        BY <1>3, <2>1, <3>2
      <4>2. visible'.up = unread.up
        BY <1>3, <1>12, <3>2
      <4> QED
        BY <1>1, <1>11, <2>4, <4>1, <4>2
    <3> QED
      BY <3>1, <3>2
  <2> QED
    BY <1>1, <1>8, <2>3, <2>5, <2>6 DEF Marked
<1>22. MovesHeard'
  <2> SUFFICES ASSUME ~turned'
               PROVE  mouse'.x = due' /\ mouse'.dx = visible'.steps
    BY <1>1, <1>8 DEF MovesHeard
  <2>1. ~turned /\ (M!Owed # 0 => unread.steps \in -5..5)
    BY DEF M!Moved
  <2>2. Move = M!Owed
    BY <1>9, <2>1
  <2>3. /\ mouse.x = due
        /\ (IF mouse.dframe = frame THEN mouse.dx ELSE 0) = visible.steps
    BY <1>8, <2>1 DEF MouseInv, MovesHeard
  <2>4. mouse'.x = due'
    BY <1>1, <2>2, <2>3 DEF M!Moved
  <2>5. mouse.dframe \in Int /\ mouse.dframe <= frame /\ mouse.dx \in Int
        /\ visible.steps \in Int
    BY <1>3, <1>8 DEF MouseInv, Marked, MouseDecoder, Seen
  <2>6. mouse'.dx = M!Owed + (IF mouse.dframe = when THEN mouse.dx ELSE 0)
    BY <1>1, <2>2
  <2>7. CASE when = frame
    <3>1. visible'.steps = visible.steps + M!Owed
      BY <1>12, <2>7
    <3> QED
      BY <1>9, <2>3, <2>4, <2>5, <2>6, <2>7, <3>1
  <2>8. CASE when = frame + 1
    <3>1. mouse.dframe # when /\ when # frame
      BY <1>3, <2>5, <2>8
    <3>2. visible'.steps = M!Owed
      BY <1>12, <3>1
    <3> QED
      BY <1>9, <2>4, <2>6, <3>1, <3>2
  <2> QED
    BY <1>3, <2>7, <2>8
<1> QED
  BY <1>17, <1>18, <1>19, <1>20, <1>21, <1>22 DEF MouseInv

-----------------------------------------------------------------------------
(***************************************************************************)
(* The device, between two frames.                                         *)
(***************************************************************************)
\* What was read for the next frame becomes visible, what was read for this one
\* goes with it.
LEMMA FramePasses ==
  ASSUME MouseInv, M!NextFrame
  PROVE  /\ frame' \in Nat /\ phase' \in {"program", "ended"} /\ mouse' \in MouseDecoder
         /\ visible' \in Seen /\ due' \in Int /\ turned' \in BOOLEAN
         /\ mouse'.polled <= frame' /\ phase' # "ended" /\ mouse'.scale >= 1
         /\ Marked' /\ MovesHeard'
<1>1. /\ mouse \in MouseDecoder /\ frame \in Nat /\ phase \in {"program", "ended"}
      /\ visible \in Seen /\ due \in Int
      /\ mouse.polled \in Int /\ mouse.polled <= frame /\ mouse.scale >= 1
  BY DEF MouseInv, MouseTypeOK, LastRead, MouseDecoder
<1>2. /\ frame' = frame + 1 /\ phase' = "program" /\ mouse' = mouse /\ due' = due
      /\ visible' = IF phase = "ended" THEN visible ELSE M!Nothing
  BY DEF M!NextFrame
<1>3. turned' = turned /\ turned \in BOOLEAN
  BY Zenon DEF M!NextFrame, MouseInv, MouseTypeOK
<1>4. Visible' = frame + 1 /\ Visible = IF phase = "ended" THEN frame + 1 ELSE frame
  BY <1>2 DEF Visible
<1>5. M!Nothing \in Seen /\ M!Nothing.steps = 0 /\ M!Nothing.down = {} /\ M!Nothing.up = {}
  BY DEF M!Nothing, Seen
<1>6. visible' \in Seen
  BY <1>1, <1>2, <1>5
<1>7. \A b \in Buttons : mouse.pressf[b] \in Int /\ mouse.relf[b] \in Int
  BY <1>1 DEF MouseDecoder
<1>8. mouse.dframe \in Int
  BY <1>1 DEF MouseDecoder
<1>9. CASE phase = "ended"
  <2>1. Visible' = Visible /\ visible' = visible
    BY <1>2, <1>4, <1>9
  <2>2. Marked'
    BY <1>2, <2>1 DEF MouseInv, Marked
  <2>3. MovesHeard'
    BY <1>2, <1>3, <2>1 DEF MouseInv, MovesHeard
  <2> QED
    BY <1>1, <1>2, <1>3, <1>6, <2>2, <2>3
<1>10. CASE phase # "ended"
  <2>1. visible' = M!Nothing /\ Visible = frame
    BY <1>2, <1>4, <1>10
  <2>2. /\ mouse.dframe <= frame
        /\ \A b \in Buttons : mouse.pressf[b] <= frame /\ mouse.relf[b] <= frame
    BY <2>1 DEF MouseInv, Marked
  <2>3. \A b \in Buttons : /\ mouse.pressf[b] <= frame + 1 /\ mouse.pressf[b] # frame + 1
                           /\ mouse.relf[b] <= frame + 1 /\ mouse.relf[b] # frame + 1
    <3>1. \A n \in Int : n <= frame => n <= frame + 1 /\ n # frame + 1
      BY <1>1
    <3> QED
      BY <1>7, <2>2, <3>1
  <2>4. Marked'
    BY <1>1, <1>2, <1>4, <1>5, <1>8, <2>1, <2>2, <2>3 DEF Marked
  <2>5. ~turned => mouse.x = due
    BY DEF MouseInv, MovesHeard
  <2>6. mouse.dframe # frame + 1
    BY <1>1, <1>8, <2>2
  <2>7. MovesHeard'
    BY <1>2, <1>3, <1>4, <1>5, <2>1, <2>5, <2>6 DEF MovesHeard
  <2> QED
    BY <1>1, <1>2, <1>3, <1>6, <2>4, <2>7
<1> QED
  BY <1>9, <1>10

\* The history follows the buttons, undone changes included.
LEMMA ChangeKept ==
  ASSUME MouseInv, NEW steps \in Int, NEW steady \in BOOLEAN, NEW now \in SUBSET Buttons,
         M!Changed(steps, steady, now), mouse' = mouse, M!ShownButtons' = now
  PROVE  /\ unread' \in Since /\ unread'.since = unread.since
         /\ unread'.steps = unread.steps + steps
         /\ unread'.steady <=> unread.steady /\ steady
         /\ Differ'
<1> DEFINE stays == unread.steady /\ steady
           down == (unread.down \cup (now \ (M!ShownButtons \cup unread.up))) \ (M!ShownButtons \ now)
           up == (unread.up \cup (M!ShownButtons \ (now \cup unread.down))) \ (now \ M!ShownButtons)
<1>1. unread \in Since /\ mouse \in MouseDecoder /\ M!ShownButtons \subseteq Buttons
  BY DEF MouseInv, MouseTypeOK, M!ShownButtons
<1>2. stays \in BOOLEAN
  OBVIOUS
<1>3. down \in SUBSET Buttons /\ up \in SUBSET Buttons
  BY <1>1 DEF Since
<1>4. down = now \ mouse.buttons /\ up = mouse.buttons \ now
  BY DEF MouseInv, Differ
<1>5. unread' = [unread EXCEPT !.steps = @ + steps, !.steady = stays, !.down = down, !.up = up]
  BY <1>1 DEF M!Changed, Since
<1> HIDE DEF stays, down, up
<1>6. unread' = [steps |-> unread.steps + steps, down |-> down, up |-> up,
                 since |-> unread.since, steady |-> stays]
  BY <1>1, <1>5 DEF Since
<1>7. unread' \in Since
  BY <1>1, <1>2, <1>3, <1>6 DEF Since
<1>8. unread'.steady = stays
  BY <1>6, Zenon
<1>9. unread'.down = down /\ unread'.up = up
  BY <1>6
<1>10. Differ'
  BY <1>4, <1>9 DEF Differ
<1> QED
  BY <1>6, <1>7, <1>8, <1>10 DEF stays

\* The steps and buttons of a device that is there.
LEMMA UseKeeps ==
  ASSUME MouseInv, NEW s \in Speeds, NEW now \in SUBSET Buttons, M!Use(s, now)
  PROVE  MouseInv'
<1>1. /\ M!NextFrame /\ present' = present /\ present
      /\ position' = (position + s) % 12 /\ pushed' = now /\ M!Changed(s, TRUE, now)
  BY Zenon DEF M!Use
<1>2. /\ mouse \in MouseDecoder /\ unread \in Since /\ position \in 0..11 /\ s \in Int
  BY MouseAssumption DEF MouseInv, MouseTypeOK
<1>3. mouse' = mouse /\ M!ShownButtons' = now
  BY <1>1 DEF M!NextFrame, M!ShownButtons
<1>4. /\ unread' \in Since /\ unread'.since = unread.since
      /\ unread'.steps = unread.steps + s /\ Differ'
  BY <1>1, <1>2, <1>3, ChangeKept
<1>5. unread'.steady <=> unread.steady
  BY <1>1, <1>2, <1>3, ChangeKept
<1>6. position' \in 0..11
  BY <1>1, <1>2
<1>7. MouseTypeOK'
  BY <1>1, <1>4, <1>6, FramePasses DEF MouseTypeOK
<1>8. LastRead'
  <2>1. unread'.steady <=> present' /\ mouse'.conn
    BY <1>1, <1>3, <1>5 DEF MouseInv, LastRead
  <2>2. unread'.since = mouse'.polled
    BY <1>3, <1>4 DEF MouseInv, LastRead
  <2>3. present'
    BY <1>1
  <2> QED
    BY <1>1, <2>1, <2>2, <2>3, FramePasses DEF LastRead
<1>9. InStep'
  <2> SUFFICES ASSUME unread.steady
               PROVE  /\ mouse'.count \in 0..11
                      /\ position' = (mouse'.count + unread'.steps) % 12
    BY <1>5 DEF InStep
  <2>1. mouse.count \in 0..11 /\ position = (mouse.count + unread.steps) % 12
    BY DEF MouseInv, InStep
  <2>2. unread.steps \in Int
    BY <1>2 DEF Since
  <2>3. (((mouse.count + unread.steps) % 12) + s) % 12 = (mouse.count + unread.steps + s) % 12
    BY <1>2, <2>1, <2>2
  <2> QED
    BY <1>1, <1>3, <1>4, <2>1, <2>2, <2>3, <1>2
<1> QED
  BY <1>1, <1>4, <1>7, <1>8, <1>9, FramePasses DEF MouseInv

\* A device that goes away or comes back is not measured across it.
LEMMA PlugKeeps ==
  ASSUME MouseInv, M!Unplug \/ (\E p \in Rests : M!PlugIn(p))
  PROVE  MouseInv'
<1>1. /\ M!NextFrame /\ pushed' = {} /\ position' \in 0..11
      /\ M!Changed(0, FALSE, {})
  BY MouseAssumption DEF M!Unplug, M!PlugIn, MouseInv, LastRead, MouseTypeOK
<1>2. present' \in BOOLEAN /\ ~(present' /\ mouse.conn)
  BY DEF M!Unplug, M!PlugIn
<1>3. mouse' = mouse /\ M!ShownButtons' = {}
  BY <1>1 DEF M!NextFrame, M!ShownButtons
<1>4. /\ unread' \in Since /\ unread'.since = unread.since /\ Differ' /\ ~unread'.steady
  <2>1. 0 \in Int /\ FALSE \in BOOLEAN /\ {} \in SUBSET Buttons
    OBVIOUS
  <2>2. /\ unread' \in Since /\ unread'.since = unread.since /\ Differ'
        /\ (unread'.steady <=> unread.steady /\ FALSE)
    BY <1>1, <1>3, <2>1, ChangeKept
  <2> QED
    BY <2>2
<1>5. MouseTypeOK'
  BY <1>1, <1>2, <1>4, FramePasses DEF MouseTypeOK
<1>6. LastRead'
  <2>1. unread'.steady <=> present' /\ mouse'.conn
    BY <1>2, <1>3, <1>4
  <2>2. unread'.since = mouse'.polled
    BY <1>3, <1>4 DEF MouseInv, LastRead
  <2> QED
    BY <1>1, <2>1, <2>2, FramePasses DEF LastRead
<1>7. InStep'
  BY <1>4 DEF InStep
<1> QED
  BY <1>1, <1>4, <1>5, <1>6, <1>7, FramePasses DEF MouseInv

\* A frame without a device.
LEMMA AbsentKeeps ==
  ASSUME MouseInv, M!Absent
  PROVE  MouseInv'
<1>1. /\ M!NextFrame /\ pushed' = pushed /\ position' = position /\ unread' = unread
      /\ mouse' = mouse
  BY DEF M!Absent, M!NextFrame, M!world
<1>2. present' = present /\ ~present
  BY Zenon DEF M!Absent, M!world
<1>3. MouseTypeOK'
  BY <1>1, <1>2, FramePasses DEF MouseInv, MouseTypeOK
<1>4. LastRead'
  <2>1. unread'.steady <=> present' /\ mouse'.conn
    BY <1>1, <1>2 DEF MouseInv, LastRead
  <2>2. unread'.since = mouse'.polled /\ pushed' = {}
    BY <1>1, <1>2 DEF MouseInv, LastRead
  <2> QED
    BY <1>1, <2>1, <2>2, FramePasses DEF LastRead
<1>5. InStep' /\ Differ'
  BY <1>1, <1>2 DEF MouseInv, InStep, Differ, M!ShownButtons
<1> QED
  BY <1>1, <1>3, <1>4, <1>5, FramePasses DEF MouseInv

-----------------------------------------------------------------------------
(***************************************************************************)
(* The calls of the program.                                               *)
(***************************************************************************)
\* A call that moves the pointer, or changes its bounds or its scale, leaves
\* what was read alone.
LEMMA SettingKeeps ==
  ASSUME MouseInv, M!Unmoved, mouse' \in MouseDecoder, due' \in Int,
         mouse' = [mouse EXCEPT !.x = mouse'.x, !.min = mouse'.min, !.max = mouse'.max,
                                !.scale = mouse'.scale],
         mouse'.scale >= 1, ~turned => mouse'.x = due'
  PROVE  MouseInv'
<1>1. mouse \in MouseDecoder
  BY DEF MouseInv, MouseTypeOK
<1>2. /\ mouse'.polled = mouse.polled /\ mouse'.count = mouse.count
      /\ mouse'.buttons = mouse.buttons /\ mouse'.pressf = mouse.pressf
      /\ mouse'.relf = mouse.relf /\ mouse'.dframe = mouse.dframe /\ mouse'.dx = mouse.dx
  BY <1>1 DEF MouseDecoder
<1>3. mouse'.conn = mouse.conn
  BY <1>1, Zenon DEF MouseDecoder
<1>4. /\ frame' = frame /\ phase' = phase /\ position' = position /\ pushed' = pushed
      /\ unread' = unread /\ visible' = visible
  BY DEF M!Unmoved, M!world
<1>5. present' = present /\ turned' = turned
  BY Zenon DEF M!Unmoved, M!world
<1>6. MouseTypeOK'
  BY <1>4, <1>5 DEF MouseInv, MouseTypeOK
<1>7. LastRead'
  BY <1>2, <1>3, <1>4, <1>5 DEF MouseInv, LastRead
<1>8. InStep' /\ Differ'
  BY <1>2, <1>4, <1>5 DEF MouseInv, InStep, Differ, M!ShownButtons
<1>9. Marked'
  BY <1>2, <1>4 DEF MouseInv, Marked, Visible
<1>10. MovesHeard'
  BY <1>2, <1>4, <1>5 DEF MouseInv, MovesHeard, Visible
<1> QED
  BY <1>6, <1>7, <1>8, <1>9, <1>10 DEF MouseInv

\* mouse.position(x) moves the pointer and what is due with it.
LEMMA PlaceKeeps ==
  ASSUME MouseInv, NEW x \in Places, M!Place(x)
  PROVE  MouseInv'
<1> DEFINE to == M!Within(x, mouse.min, mouse.max)
<1>1. mouse \in MouseDecoder
  BY DEF MouseInv, MouseTypeOK
<1>2. to \in Int
  BY <1>1, MouseAssumption, WithinInt DEF MouseDecoder
<1>3. mouse' = [mouse EXCEPT !.x = to] /\ due' = mouse'.x /\ M!Unmoved
  BY DEF M!Place
<1> HIDE DEF to
<1>4. /\ mouse' \in MouseDecoder /\ mouse'.x = to
      /\ mouse'.min = mouse.min /\ mouse'.max = mouse.max /\ mouse'.scale = mouse.scale
  BY <1>1, <1>2, <1>3 DEF MouseDecoder
<1>5. mouse' = [mouse EXCEPT !.x = mouse'.x, !.min = mouse'.min, !.max = mouse'.max,
                             !.scale = mouse'.scale]
  BY <1>1, <1>3, <1>4 DEF MouseDecoder
<1>6. mouse'.scale >= 1
  BY <1>4 DEF MouseInv, LastRead
<1> QED
  BY <1>2, <1>3, <1>4, <1>5, <1>6, SettingKeeps

\* mouse.bounds(lo, hi) pulls both inside.
LEMMA BoundsKeeps ==
  ASSUME MouseInv, NEW lo \in Places \cup {mouse.min}, NEW hi \in Places \cup {mouse.max},
         M!Bounds(lo, hi)
  PROVE  MouseInv'
<1> DEFINE to == M!Within(mouse.x, lo, hi)
<1>1. mouse \in MouseDecoder /\ due \in Int
  BY DEF MouseInv, MouseTypeOK
<1>2. lo \in Int /\ hi \in Int
  BY <1>1, MouseAssumption DEF MouseDecoder
<1>3. to \in Int /\ M!Within(due, lo, hi) \in Int
  BY <1>1, <1>2, WithinInt DEF MouseDecoder
<1>4. /\ mouse' = [mouse EXCEPT !.min = lo, !.max = hi, !.x = to]
      /\ due' = M!Within(due, lo, hi) /\ M!Unmoved
  BY <1>1 DEF M!Bounds, MouseDecoder
<1>5. ~turned => to = M!Within(due, lo, hi)
  BY DEF MouseInv, MovesHeard
<1> HIDE DEF to
<1>6. /\ mouse' \in MouseDecoder /\ mouse'.x = to
      /\ mouse'.min = lo /\ mouse'.max = hi /\ mouse'.scale = mouse.scale
  BY <1>1, <1>2, <1>3, <1>4 DEF MouseDecoder
<1>7. mouse' = [mouse EXCEPT !.x = mouse'.x, !.min = mouse'.min, !.max = mouse'.max,
                             !.scale = mouse'.scale]
  BY <1>1, <1>4, <1>6 DEF MouseDecoder
<1>8. mouse'.scale >= 1
  BY <1>6 DEF MouseInv, LastRead
<1> QED
  BY <1>3, <1>4, <1>5, <1>6, <1>7, <1>8, SettingKeeps

\* mouse.scale(n) counts for the steps that follow.
LEMMA ScaleKeeps ==
  ASSUME MouseInv, NEW n \in Scales, M!Scale(n)
  PROVE  MouseInv'
<1>1. mouse \in MouseDecoder /\ due \in Int /\ n \in Int
  BY MouseAssumption DEF MouseInv, MouseTypeOK
<1>2. mouse' = [mouse EXCEPT !.scale = n] /\ due' = due /\ M!Unmoved /\ n >= 1
  BY DEF M!Scale
<1>3. /\ mouse' \in MouseDecoder /\ mouse'.scale = n
      /\ mouse'.x = mouse.x /\ mouse'.min = mouse.min /\ mouse'.max = mouse.max
  BY <1>1, <1>2 DEF MouseDecoder
<1>4. mouse' = [mouse EXCEPT !.x = mouse'.x, !.min = mouse'.min, !.max = mouse'.max,
                             !.scale = mouse'.scale]
  BY <1>1, <1>2, <1>3 DEF MouseDecoder
<1>5. ~turned => mouse'.x = due'
  BY <1>2, <1>3 DEF MouseInv, MovesHeard
<1> QED
  BY <1>1, <1>2, <1>3, <1>4, <1>5, SettingKeeps

\* mouse.port() forgets what was read and is a read itself.
LEMMA MousePortKeeps ==
  ASSUME MouseInv, M!Port
  PROVE  MouseInv'
<1> DEFINE none == [b \in Buttons |-> -1]
<1>1. /\ mouse \in MouseDecoder /\ frame \in Nat /\ phase = "program" /\ position \in 0..11
      /\ pushed \in SUBSET Buttons
  BY DEF MouseInv, MouseTypeOK, M!Port
<1>2. /\ frame' = frame /\ phase' = phase /\ position' = position /\ pushed' = pushed
      /\ due' = due /\ visible' = M!Nothing
      /\ unread' = [steps |-> 0, down |-> {}, up |-> {}, since |-> frame, steady |-> present]
  BY DEF M!Port, M!Read, M!world
<1>3. present' = present /\ turned' = turned /\ present \in BOOLEAN
  BY Zenon DEF M!Port, M!world, MouseInv, MouseTypeOK
<1>4. mouse' = [polled |-> frame, conn |-> present, count |-> M!Counter(M!Shown),
                buttons |-> M!ShownButtons, pressf |-> none, relf |-> none,
                dframe |-> -1, dx |-> mouse.dx, scale |-> mouse.scale, x |-> mouse.x,
                min |-> mouse.min, max |-> mouse.max]
  BY <1>1 DEF M!Port, M!Reset, MouseDecoder
<1>5. M!Counter(M!Shown) \in 0..11 /\ M!ShownButtons \in SUBSET Buttons
  BY <1>1, CounterShown DEF M!ShownButtons
<1>6. none \in [Buttons -> Int] /\ \A b \in Buttons : none[b] = -1
  OBVIOUS
<1> HIDE DEF none
<1>7. mouse' \in MouseDecoder
  BY <1>1, <1>3, <1>4, <1>5, <1>6 DEF MouseDecoder
<1>8. /\ mouse'.polled = frame /\ mouse'.count = M!Counter(M!Shown)
      /\ mouse'.buttons = M!ShownButtons /\ mouse'.pressf = none /\ mouse'.relf = none
      /\ mouse'.dframe = -1 /\ mouse'.x = mouse.x /\ mouse'.scale = mouse.scale
  BY <1>4
<1>9. mouse'.conn = present
  BY <1>4, Zenon
<1>10. Visible' = frame /\ M!ShownButtons' = M!ShownButtons
  BY <1>1, <1>2, <1>3 DEF Visible, M!ShownButtons
<1>11. MouseTypeOK'
  <2>1. unread' \in Since /\ visible' \in Seen
    BY <1>1, <1>2, <1>3 DEF Since, Seen, M!Nothing
  <2> QED
    BY <1>2, <1>3, <1>7, <2>1 DEF MouseInv, MouseTypeOK
<1>12. LastRead'
  <2>1. unread'.since = frame /\ (unread'.steady <=> present)
    BY <1>2
  <2> QED
    BY <1>1, <1>2, <1>3, <1>8, <1>9, <2>1 DEF MouseInv, LastRead
<1>13. InStep'
  <2>1. unread'.steps = 0 /\ (unread'.steady <=> present)
    BY <1>2
  <2>2. present => M!Counter(M!Shown) = position /\ position = (position + 0) % 12
    BY <1>1, CounterShown
  <2> QED
    BY <1>2, <1>5, <1>8, <2>1, <2>2 DEF InStep
<1>14. Differ'
  BY <1>2, <1>8, <1>10 DEF Differ
<1>15. Marked'
  BY <1>1, <1>2, <1>6, <1>8, <1>10 DEF Marked, M!Nothing
<1>16. MovesHeard'
  BY <1>1, <1>2, <1>3, <1>8, <1>10 DEF MouseInv, MovesHeard, M!Nothing
<1> QED
  BY <1>11, <1>12, <1>13, <1>14, <1>15, <1>16 DEF MouseInv

-----------------------------------------------------------------------------
(***************************************************************************)
(* The theorems.                                                           *)
(***************************************************************************)
LEMMA MouseInitial ==
  ASSUME M!Init PROVE MouseInv
<1> DEFINE none == [b \in Buttons |-> -1]
           middle == (DefMax + 1) \div 2
<1>1. /\ frame = 0 /\ phase = "program" /\ position = 1 /\ pushed = {}
      /\ visible = M!Nothing /\ due = mouse.x
      /\ mouse = [polled |-> 0, conn |-> present, count |-> 1, buttons |-> {},
                  pressf |-> none, relf |-> none, dframe |-> -1, dx |-> 0, scale |-> 1,
                  x |-> middle, min |-> 0, max |-> DefMax]
      /\ unread = [steps |-> 0, down |-> {}, up |-> {}, since |-> 0, steady |-> present]
  BY DEF M!Init
<1>2. present \in BOOLEAN /\ turned \in BOOLEAN
  BY DEF M!Init
<1>3. middle \in Int /\ DefMax \in Int
  BY MouseAssumption
<1>4. none \in [Buttons -> Int] /\ \A b \in Buttons : none[b] = -1
  OBVIOUS
<1> HIDE DEF none, middle
<1>5. mouse \in MouseDecoder
  BY <1>1, <1>2, <1>3, <1>4 DEF MouseDecoder
<1>6. /\ mouse.polled = 0 /\ mouse.count = 1 /\ mouse.buttons = {} /\ mouse.pressf = none
      /\ mouse.relf = none /\ mouse.dframe = -1 /\ mouse.scale = 1
  BY <1>1
<1>7. mouse.conn = present
  BY <1>1, Zenon
<1>8. MouseTypeOK
  <2>1. unread \in Since /\ visible \in Seen /\ due \in Int
    BY <1>1, <1>2, <1>5 DEF Since, Seen, M!Nothing, MouseDecoder
  <2> QED
    BY <1>1, <1>2, <1>5, <2>1 DEF MouseTypeOK
<1>9. LastRead
  <2>1. unread.since = 0 /\ (unread.steady <=> present)
    BY <1>1
  <2> QED
    BY <1>1, <1>6, <1>7, <2>1 DEF LastRead
<1>10. InStep
  BY <1>1, <1>6 DEF InStep
<1>11. Differ
  BY <1>1, <1>6 DEF Differ, M!ShownButtons
<1>12. Marked
  BY <1>1, <1>4, <1>6 DEF Marked, Visible, M!Nothing
<1>13. MovesHeard
  BY <1>1, <1>6 DEF MovesHeard, Visible, M!Nothing
<1> QED
  BY <1>8, <1>9, <1>10, <1>11, <1>12, <1>13 DEF MouseInv

\* Every step keeps the invariant.
LEMMA MouseInductive ==
  ASSUME MouseInv, [M!Next]_(M!vars) PROVE MouseInv'
<1>1. CASE M!Look
  <2>1. frame \in Nat
    BY DEF MouseInv, MouseTypeOK
  <2> QED
    BY <1>1, <2>1, MouseReadKeeps DEF M!Look
<1>2. CASE M!FrameEnd
  <2>1. frame \in Nat /\ frame + 1 \in Nat /\ frame + 1 # frame
    BY DEF MouseInv, MouseTypeOK
  <2> QED
    BY <1>2, <2>1, MouseReadKeeps DEF M!FrameEnd
<1>3. CASE M!Port
  BY <1>3, MousePortKeeps
<1>4. CASE \E x \in Places : M!Place(x)
  BY <1>4, PlaceKeeps
<1>5. CASE \E lo \in Places \cup {mouse.min}, hi \in Places \cup {mouse.max} :
             lo <= hi /\ M!Bounds(lo, hi)
  BY <1>5, BoundsKeeps
<1>6. CASE \E n \in Scales : M!Scale(n)
  BY <1>6, ScaleKeeps
<1>7. CASE \E s \in Speeds, now \in SUBSET Buttons : M!Use(s, now)
  BY <1>7, UseKeeps
<1>8. CASE M!Unplug \/ \E p \in Rests : M!PlugIn(p)
  BY <1>8, PlugKeeps
<1>9. CASE M!Absent
  BY <1>9, AbsentKeeps
<1>10. CASE UNCHANGED M!vars
  BY <1>10 DEF M!vars, M!world, M!history, MouseInv, MouseTypeOK, LastRead, InStep, Differ, Marked,
               MovesHeard, Visible, M!ShownButtons
<1> QED
  BY <1>1, <1>2, <1>3, <1>4, <1>5, <1>6, <1>7, <1>8, <1>9, <1>10 DEF M!Next

\* So it holds always.
LEMMA MouseInvariance == M!Spec => []MouseInv
<1>1. M!Init => MouseInv
  BY MouseInitial
<1>2. MouseInv /\ [M!Next]_(M!vars) => MouseInv'
  BY MouseInductive
<1> QED
  BY <1>1, <1>2, PTL DEF M!Spec

\* The decoder, the device and the history keep their types.
THEOREM MouseTypeCorrect == M!Spec => []MouseTypeOK
<1>1. MouseInv => MouseTypeOK
  BY DEF MouseInv
<1> QED
  BY <1>1, MouseInvariance, PTL

\* Whatever the speeds, scales and bounds and however the reads are spread over
\* the frames, the pointer makes every step of the device once, and delta()
\* tells each frame its own.
THEOREM MotionCorrect == M!Spec => []MotionHeard
<1>1. MouseInv => MotionHeard
  <2> SUFFICES ASSUME MouseInv, ~turned
               PROVE  /\ mouse.x = due
                      /\ phase = "program" /\ mouse.polled = frame => Delta = visible.steps
    BY DEF MotionHeard
  <2>1. /\ mouse.x = due
        /\ (IF mouse.dframe = Visible THEN mouse.dx ELSE 0) = visible.steps
    BY DEF MouseInv, MovesHeard
  <2>2. phase = "program" => Visible = frame
    BY DEF Visible
  <2> QED
    BY <2>1, <2>2 DEF Delta
<1> QED
  BY <1>1, MouseInvariance, PTL

\* Every change of a button is answered in one frame, whichever read found it
\* and however many buttons there are.
THEOREM ButtonCorrect == M!Spec => []ButtonSeen
<1>1. MouseInv => ButtonSeen
  BY DEF MouseInv, Marked, Visible, ButtonSeen, Edge
<1> QED
  BY <1>1, MouseInvariance, PTL
=============================================================================
