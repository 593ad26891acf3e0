# v32lua in TLA+

v32lua compiles Lua (and the PICO-8 and TIC-80 dialects) to assembly for the
Vircon32 console. What a cartridge runs is the compiler's output plus a runtime
of about 22 000 lines of hand-written assembly (`src/src/runtime/*.s`). This
directory models the parts of both whose correctness is a matter of *state over
time*: in the runtime, tables, iteration, input devices, sound, pauses and
persistence; in the compiler, scopes and captures, registers, and the code its
generators emit, run on a machine that says where each operand is when it is read.

There is one thread and there are no interrupts. A library call runs to its end
before the program goes on, so a call is one action; interleavings come from

* the body of a loop, which changes the table the loop walks,
* an operand that calls a function, after which no register and no buffer has
  what it had,
* devices, which change between two frames whatever the program does,
* code that takes longer than its frame, or waits, while music goes on,
* the player, who unplugs a device, pauses, or cuts the power between two writes
  to the memory card.

## 1. Inventory

Paths are relative to `src/`. "Hard" names what is hard to test.

| Component | Code | State | Operations | Hard |
|---|---|---|---|---|
| table storage | `src/runtime/table.s` | five-word header (capacity, length, array, hash block, metatable) and two blocks | get, set, getk, rawget, grow, insert, remove | keys moving between the parts, the border, probe chains after deletion, the width of the capacity field |
| field access | `src/node/table.c` | none (emits code) | inline first probe, inline array read | agreement with the general lookup |
| pairs / next | `src/runtime/iters.s`, `src/node/loop.c` | the control variable only | next, ipairs step, generic for | the table changes between two calls of a stateless next |
| PICO-8 lists | `src/runtime/pico8.s`, `src/node/loop.c` | index and last element | all, foreach, add, del, count | elements deleted and inserted by the loop body |
| table library | `src/runtime/table.s` | (the table) | insert, remove, concat, sort, move, pack, unpack | positions out of range, callbacks |
| calls, multiple values, metatables | `src/runtime/exec.s`, `table.s`, `src/node/multivalue.c` | `RET_COUNT`, `MV_BUF` (32), `META_CALL_STACK` | exec, `__call`, `__index`, `__newindex`, unpack | a nested call overwrites the values of the outer one; buffers at their limit |
| heap | `src/runtime/memory.s` | the heap pointer | malloc, copy | never frees; stops the machine at the end |
| strings | `src/runtime/string.s` | none | concat, compare, tostring, tonumber, format, sub, find, gsub | positions at the edges |
| math, dates | `src/runtime/math.s`, `datetime.s` | the random seed | random, floor division, bit operations, dates | integer widths, zero, leap years |
| keyboard | `src/runtime/v32kbd.s` | strobe, key table (128), event queue (64), prefix page and its age | poll, update, read, frame end | lost and late packets, full queue, unplugging |
| mouse | `src/runtime/v32mouse.s` | last position, pointer, this frame's motion, frames of the button changes | poll, update, frame end, position, bounds, scale, port | counters modulo 12, missing frames, a change answered in no frame or in two |
| gamepad selection | `src/runtime/v32io.s` | the selected port | select, restore | a device driver leaves the wrong port selected |
| PICO-8 sound | `src/runtime/pico8.s`, `src/pico8_audio.c` | pattern, its end, the channels | sfx, music, tick | late ticks, effects on busy channels |
| PICO-8 frame loop | `src/runtime/pico8.s`, `src/generator.c` | frame of the tick, pause state, menu | loop, flip, pause, menu | pausing inside flip, late frames, the end of the music across a pause |
| PICO-8 cart data | `src/runtime/pico8.s` | card id, 64 slots | cartdata, dget, dset, poke, memset, memcpy | power lost between two card writes |
| TIC-80 API | `src/runtime/tic80.s` | map, flags, pmem, sfx durations | btn, btnp, mget, mset, fget, fset, pmem, sfx, music | bounds, the tick of four channels |
| Vircon32 API | `src/runtime/vircon32.s`, `src/intrinsics/*.c` | channel and texture selection, card records | spr, play, memcard, tilemap | stale selection, the order of port writes |
| register allocator | `src/register.c` | inventory, pins, spill slots, use distances | allocate, lock, unlock, pin, spill, ensure | a register handed out under its owner |
| capture analysis, scopes | `src/closures.c`, `src/context.c` | bound and free names per frame; scope stack | analyse, push, pop, register, resolve | a name that is local in one block and captured in the next |
| code generators | `src/generator.c`, `src/node/*.c`, `src/intrinsics/*.c`, `src/emit.c` | labels, return counts | one per node kind or library function | values alive across a nested call |
| front end | `src/lexer.l`, `src/parser.y`, `src/ast.c`, `src/internals.c`, `src/main.c` | the tree | parse, include, build | none of this kind |
| assets | `src/*_assets.c`, `src/*_audio.c`, `src/png.c`, `src/v*_generator.c` | none | convert a file | none of this kind |

How they interact: the generators emit calls to the runtime's entries and, for
speed, inline copies of their first steps (field lookup, array read, the step of
`all`). An inline copy is a second implementation that must agree with the
routine, so each is modelled beside the routine with agreement as a property.
Table storage is shared by everything above it: iteration and the lists read its
two parts directly, and the library calls get and set. Registers, `MV_BUF`,
`RET_COUNT` and the device ports are shared by everything a call evaluates. The
frame loop drives the music, the pause and the reading of the devices, which all
borrow the one selected gamepad.

### What makes each component correct

* **Tables**: `t[k]` reads what was last stored at `k`; `#t` is a border; a key is
  in one part only; every stored key can be found; lookups of absent keys end.
* **Iteration**: each key that stays is visited once; the loop ends; the current
  key may be cleared.
* **Lists**: deleting never skips or repeats another element; inline and routine agree.
* **Captures and scopes**: each use of a name reaches the variable Lua means by
  it, through the box when it is captured and in its slot when it is not.
* **Emitted code**: each routine, port and variable gets the operands of its call,
  whatever else they call; the stack and the registers are given back; a call that
  is written once is made once.
* **Register allocator**: a pinned register is never handed out; no two owners of
  one register.
* **Keyboard**: `HELD` is the number of keys down; events come out in the order
  they went in; no key is stuck after a reconnect.
* **Mouse**: every step of the device moves the pointer once, in its direction;
  every change of a button is answered in one frame.
* **Sound**: the song stays in time, whatever is late or paused; an effect leaves
  the others alone while a channel is free.
* **Pauses**: one press of Start is one pause; the cart finds the gamepad it chose.
* **Cart data**: what a cart finds on the card is its own; after a power cut each
  byte is the old one or the new one, and no other slot has changed.

The hazards, each at its line, are in `PROJECT.json`; those without a property
carry a note: the module that is to cover them, or the disagreement of section 3 that
the code has there and the runs leave out.

## 2. Modules

| Module | Models | Uses |
|---|---|---|
| `LuaTable` | what a table promises: a map, a border, `table.insert` and `table.remove` | |
| `HybridTable` | the array/hash split: growth, migration, the length word, insert and remove | implements `LuaTable` |
| `HashBlock` | open addressing: find, store, grow; getk and its inline first probe | |
| `TableStorage` | header words and slots, the border loop, the masked capacity, the shifting loops | `HashBlock`; implements `HybridTable` |
| `HybridTable_proofs` | the theorems about tables | `HybridTable`, TLAPS |
| `PairsLoop` | next and the generic for loop with a body that changes the table | `TableStorage` |
| `TableStorage_proofs` | the theorems about the stored table and the loop over it, and that it implements `HybridTable` | `PairsLoop`, TLAPS |
| `AllLoop` | all, foreach, del, add | `HybridTable` |
| `AllLoop_proofs` | the theorems about it | `AllLoop`, `HybridTable_proofs` |
| `Scopes` | capture analysis, scopes, slots and boxes, over every program | |
| `Scopes_proofs` | the theorems about it | `Scopes`, TLAPS |
| `Registers` | the register allocator and the code generators that hold operands | |
| `Registers_proofs` | the theorems about it | `Registers`, TLAPS |
| `EmittedCode` | the machine that emitted code runs on, and the instructions | |
| `RoutineCalls`, `MathIntrinsics`, `LibraryIntrinsics`, `GpuIntrinsics`, `SpuIntrinsics`, `VirconIntrinsics`, `TicIntrinsics`, `PicoIntrinsics`, `CoreIntrinsics` | the code emitted for each library function, one operator per emitter | `EmittedCode` |
| `ExpressionCode`, `CallCode`, `StatementCode` | the code of operators, table accesses and constructors; of calls and lists of values; of assignments, loops, function entry and exit | `EmittedCode` and one another |
| `KeyStream` | what the keyboard promises: a queue of events and a set of keys | |
| `DeviceFrames` | the frame, and whether the program runs or waits for its end | |
| `Keyboard` | the decoder, the program's calls, the device and its user | `DeviceFrames`; implements `KeyStream` |
| `MouseState` | the words of the decoder, the positions and controls of the device, what must hold between them | `DeviceFrames` |
| `Mouse` | the decoder, the program's calls, the device and its user | `MouseState` |
| `Devices_proofs` | the theorems about the keyboard and the mouse | `Keyboard`, `MouseState`, `Mouse`, TLAPS |
| `Pico8Sound` | music, patterns and effects on the channels of the sound unit | |
| `Pico8Frames` | the frame loop, flip, pause, menu, gamepad selection | `Pico8Sound` |
| `Pico8_proofs` | the theorems about both | `Pico8Frames`, TLAPS |
| `CartData` | cartdata and the writing through to the memory card, with power cuts | |
| `CartData_proofs` | the theorems about it | `CartData`, TLAPS |
| `MC*` | constants for TLC; `MCDevices` has a program use the keyboard or the mouse, `MCIntrinsics` enumerates the calls; `MCAllLoop.cfg` configures `AllLoop` itself | |

### State and actions against the code

**Tables**

* `capacity`, `length`, `array`, `block` are header words 0 to 3 (`array` and
  `block` are the blocks the words point to). The metatable word is always 0 here:
  get and set are their paths without a metatable.
* Keys of `TableStorage` are `<<kind, name, where>>`, because equal keys come as
  different words: a string can be a pooled literal, another ROM string or a RAM
  string, and zero can be +0 or -0. `HashOf` depends on the name only, as the code
  hashes strings by content.
* `Set(key, v)` is `__builtin_table_set` whole: the choice of the part, growth with
  migration, the store, the extension of the border, which may grow again.
  `HybridTable` gives the border loop by its result (the end of the run of present
  keys), `TableStorage` has the loop, and `ImplementsHybrid` relates them.
* `Insert(pos, v)` and `Remove(pos)` are `table.insert` and `table.remove`,
  `InsertPosition` and `RemovePosition` what they make of a position: an insertion
  is raised to 1 but never lowered to `#t + 1`. `HybridTable` gives the shift by its
  result, `TableStorage` has its loop, which reads and stores one element at a
  time through get and set.
* `PairsLoop`: `Begin` and `Turn` are the call of next and the test of the key it
  returns, `ClearField` and `AssignField` what the body may do between two turns.
* `AllLoop`: `index` and `prev` are the two hidden locals, `Step` the routine,
  `InlineStep` the emitted copy. `visits`, `kept` and `early` are history. The body
  deletes any element and adds at the end or at a position after the current
  element, but does not add the current element again at a position: the
  loop knows where it is by index and element, and an object deleted and put back
  at its place in one turn makes it step past the one that follows.

**Scopes**

* A program is a list of constructs (local, use, block, if/else, for, function,
  call), read one at a time: `Read...` are the analysis of `closures.c`, which
  keeps bound and free names per function frame. When the program is closed
  (`ReadAll`) the same list is generated: `Emit...` are the scope stack, slots and
  records of `context.c` and the generators.
* `env` and `meant` are what Lua means by each use. `cells` is what the slots of
  the frames hold when the code runs, a variable's value or its box; `denotes` what
  each use reaches through the slot and the access the compiler chose. A slot read
  with the wrong kind of access gives `Junk`.

**Registers**

* `inventory`, `pinned`, `distance` are the compiler's arrays of those names;
  `recent` stands for the serial numbers, of which only the last two matter.
  `word` and `slot` are what the *generated* code will have in a register and in
  its stack slot at that point, an operand standing for its value; a slot the
  compiler no longer remembers is `NoSlot`.
* `Allocate` is the four phases in their order. The other actions are what
  generators do with an operand between its allocation and its release, which
  leaves junk in the register for the next owner; `Call` is enabled when the values
  still needed are in their slots, as node_function_call sees to.
  `BeginFunction` and `EndFunction` save and restore the tables around a function
  defined inside an expression, whose operands then wait in `frames`.
* `program` is what the program asks for: how many operands it holds at once and
  how deep its functions nest. With no more operands than registers no value may
  be lost; with more of them a pinned register must still not be handed out.

**Emitted code**

* An operator named as the emitter (`emit_math_pow_intrinsic(c)`, `node_unary(c)`)
  gives the instructions it writes for a call `c`: a name and the kinds of its
  arguments. An instruction says what it writes and, in `uses`, which value its
  emitter means each place it reads to have: a register, a word of the stack, a
  port, a variable. Values are names; `x1`, `x2`, ... are the arguments.
* `EmittedCode` runs them: `Alloc` and the other register operations take a free
  register as `register.c` does, evaluating an argument that is a call takes
  every register, the shared buffers and the device ports from the caller, and a
  routine clobbers the registers its header says.
* `MCIntrinsics` chooses the call: each function the compiler knows, with each
  number of arguments it accepts, each of six kinds (a number, a string, nil, an
  expression known to be a number, another expression, a call): up to two
  arguments are of any kinds, more are alike but for one. A branch the code takes at run
  time is a choice of the machine.

**Devices**

* `Keyboard`: `kbd` is the fixed RAM of the decoder, a field per `V32KBD_` word
  (`down`, `held`, `anyp`, `caps`, `page`, `conn`, `strobe`, `polled`, the ring with
  `qhead` and `qcount`); `kbd.log` is history, what was decoded since the decoder
  started over. `Poll` is `__v32kbd_poll` and a step of it: the new plug, the side,
  payload, prefix, press or release, the queue. Every call of the program (`Ask`
  for those that only look, `Read`, `NextEvent`, `Clear`) begins with `Update`, and
  `FrameEnd` is the poll before a WAIT. `answer` is what the call returned. The
  other actions are the world: the user presses and releases keys and types
  characters, the device is unplugged and comes back, one event a frame at most.
  `sent` and `keys` are what the user did; `stale` and `missed` are the keys the
  decoder cannot know about, down when the device went away or when all was
  forgotten. The packing of an entry into one word, key names, auto-repeat and
  `kbd.glyph` are left out.
* `Mouse`: `mouse` has a field per `V32MOUSE_` word of one axis. `Controls`, of `MouseState`, is what
  the device shows at each position of its counter, `Positions` the decoder's
  table. `Look` is any call that reads, `FrameEnd` the read before a WAIT; a program
  that computes past the end of its frame sees the device step without either.
  `unread`, `visible` and `due` are history, of the device and not of the
  decoder: what happened since the last read, what belongs to this frame, where the
  pointer should be.
* Gamepad selection is part of `Pico8Frames`: `port.pad` is what the console has
  selected, `port.memory` the word `V32IO_GAMEPAD`, `chosen` the gamepad the cart
  asked for. `ReadDevice` is the read of a
  keyboard's or mouse's controls as the port sees it, both of its selections one after
  the other, so that a path which leaves the device selected breaks `PortKept`.

**PICO-8**

* `Pico8Sound`: `sound` has a record per channel (state, sound, position, loop), the
  pattern, its end and the channel of the next effect. `PlayMusic`, `MusicTick`,
  `PlayEffect` are the routines; `Assign`, `PlaySound`, `StopSound`, `PauseSound`,
  `ResumeSound` and `Mix` are the console's sound unit, modelled as `doc/API.md` and
  `vircon32.s` describe it. `p8a_pattern_frames` and the order of patterns are
  what the compiler computes for the tables of the runtime.
* `Pico8Frames`: `pc` is where the loop, `flip()` or the pause is; each action ends
  at the next WAIT or at the next point where the cart runs. `Overrun` is the cart
  computing past a frame. `song` is history: the pattern's end in frames the
  player heard.
* `CartData`: a call is the list of its stores, `todo`, made one at a time by
  `StoreByte`, `Claim`, `Clear` and `Load`; `PowerCut` may come between any two,
  the card is taken out and put back between calls only. The memory is the data
  area and the byte before it; copies past the top of memory are left out.
  `owner`, `half`, `missed`, `goal` and `may` are history: whose data a slot is,
  whether a claim was cut short, which slots were written with the card out, what
  the call stores and what a slot may hold meanwhile.

Definitions whose comment begins with `mutant:` are wrong variants of the
definition that follows them. No specification uses them: each replaces its
original in turn, to see that the property listed with it in `PROJECT.json` fails.

## 3. Runs

| Run | Configuration | Shows | Bounds |
|---|---|---|---|
| `hybrid_table` | `MCHybridTable.cfg` | one part per key, border; implements `LuaTable`, insertion and removal included | 6 numbers, 1 name, arrays from 2 cells: three growths, keys that wait in the hash part |
| `table_layout` | `MCTableStorage.cfg` | half full, every key reachable, inline and general lookup agree; the slots, the masked word and the loops implement `HybridTable` | 3 numbers, 2 strings or zeros in two forms each, arrays from 1 cell, blocks from 2 slots, colliding hashes |
| `pairs_loop` | `MCPairsLoop.cfg` | visited once and none missed unless the array grows; always ends, for bodies that clear and assign | 4 numbers, 2 strings on one probe chain |
| `all_loop` | `MCAllLoop.cfg` | none skipped or repeated, ends; inline step and routine agree in every table, wherever the loop stands | 4 objects, 4 places |
| `scopes` | `MCScopes.cfg` | each use reaches the variable Lua means, closures get the boxes of their variables, the slots counted for a frame hold its locals | every program of up to 8 constructs over two names |
| `scopes_named` | `MCScopesNamed.cfg` | **violated**: a function with a global name inside a function | as above, with such functions |
| `registers` | `MCRegisters.cfg` | own register, values kept, with as many operands as registers; a pinned register is never handed out, with more | 2 registers, 3 operands; 2 at once with a nested function, 3 at once without |
| `intrinsics` | `MCIntrinsics.cfg` | operands reach what they are meant for, stack and registers are given back, effects stay, calls are made once | every function, operator and statement form, up to nine arguments of six kinds; 13 registers |
| `devices` | `MCDevices.cfg` | keyboard: events once and in order, the keys down and their number; implements `KeyStream`. Mouse: every step once, every change of a button in one frame | 3 keys (letter, shift, caps lock), payloads that are also a key, a prefix or 0, 3 events, 5 frames, queue of 2, prefix waits 1 frame, one reconnection; mouse: 4 frames of -2, 0 or 3 steps, one button, two scales, a screen of 8 places, one reconnection |
| `pico8` | `MCPico8.cfg` | the song in time and its voices together, late ticks, flip, pauses and menu; effects; Start; the gamepad | 2 voices and 2 effect channels, 30 updates a second, 5 frames, 3 calls of music and sfx, two gamepads |
| `pico8_sound` | `MCPico8Sound.cfg` | **violated**: a pattern that begins on a busy voice does not get its sound | as above |
| `cartdata` | `MCCartData.cfg` | a cart finds its own data; old or new bytes and no other slot after a cut; the card follows the memory | 2 carts, 2 slots of 2 bytes, 2 writing calls a session, runs of 2 bytes |

Why the bounds are enough. *Tables*: the smallest array and block are scaled from 8
to 2 or 1, so that three to six numbers cross every threshold (first block, growth
of either part, migration in both directions of the limit, growth by the border
loop) more than once; no code depends on the constant 8 itself. `HashOf` is a
constant, so a configuration fixes the collisions, and those chosen put several
keys on one chain that wraps around the block. *Registers*: the allocator has 13
registers and "long" is 10000 instructions; two or three and 2 reach every phase,
and the theorems hold for any number. *Scopes*: eight constructs are enough for a
function inside a function inside a block, with a local on each level and a use
after each end; two names give shadowing; the theorems hold for any length
and any names. *Emitted code*: no emitter looks at more
than the kinds of its arguments, and the six kinds are those the emitters and the
machine tell apart; the number of registers is the real one. *Keyboard*: the queue
is scaled from 64 to 2 places and the time a prefix waits from 30 frames to 1:
three events then overflow the queue and make the ring wrap, and five frames
hold a prefix, its payload in the last frame that counts or one too late, and a
key after it. The device alternates between two sides, so one stands for both
at the start. *Mouse*: three frames without a read are one more than the decoder
allows, and 9 steps in them pass the half turn of the counter. *Sound*: five frames
are two patterns of the shortest song with a late tick and a pause between them.
*Cart data*: two slots of two bytes have a cut within a slot, between two, and a
copy whose halves overlap; that copies overlap across more slots changes nothing
in the order of the stores.

What the environments do not do. The program of `Keyboard` does not call
`kbd.port(n)` between a prefix and its payload: the decoder forgets the prefix and
would read the payload as a key. When a payload is lost, the next event comes
only after the prefix has expired: one that comes sooner is taken for the payload,
as the protocol has it. The mouse stays away for a read at least when it is
unplugged, since a shorter absence cannot be told, and shows its counters from
the moment it is there. The PICO-8 cart changes the song only by music(); the
player takes the card out between two calls, not within one. `MCIntrinsics` leaves
out the calls of the disagreements below (`LosesValue`, `LosesParameter`,
`LosesReturned`, and a second evaluation of the same unpack, `Again`); `Tried` and
`Again` in its configuration bring them back.

Reads of a table do not change the state, so they are no actions: what they return
is compared in every reachable state.

### Fairness

The only fairness is `WF(Turn)` of a loop: the body returns and the loop asks for
the next element. There is a single thread, so nothing else can keep it from
doing so; a body that never returns is the program's own loop. In `AllLoop` the
end is promised only to bodies that at last stop adding.

### What the violated runs say

* `scopes_named`: a function with a global name, defined inside another one, has
  upvalues, but its slot is a plain code address. Its closure record is made at
  each use, from what the names stand for there: called from elsewhere it is given
  the global of the name as a box.
* `pico8_sound`: a voice that still plays when a pattern ends, because it loops or
  is longer than the pattern, keeps its old sound, rewound: the routine assigns a
  sound without stopping the channel, and the console assigns to stopped channels
  only.

### Other disagreements met while modelling

Each was seen in a run of these modules, or of a variant of their constants, or
read off the lines named; where a property would fail the model leaves the case
out, and says so at the definition.

* **Capacity** (`table.s:732`): `__table_array_grow` ors the new size into a word
  read through a 16-bit mask. The 32769th append makes it 65536, read back as 0,
  and the array part is gone. With the field scaled to 3 bits `ImplementsHybrid`
  fails.
* **Assigning in pairs** (`iters.s:100`): `t[3] = v` for an existing `t[3]` of the
  hash part grows the array; next then scans the hash part again from its first
  slot and keys come twice. Lua allows assigning existing fields in a loop. Hence
  the `Ungrown` in the names of the properties.
* **The key false** (`loop.c:721`): the generic for loop tests the key for truth,
  not for nil, and ends at the key `false`.
* **Two allocations in a row** (`register.c:202`): phase 1 leaves a register with
  distance 0, and if it was the last free one, phase 2 hands it out again at once.
  A generator that marks its register live between the two is safe. It takes more
  operands than registers, and then phase 3 too loses a value: it stores the
  register it steals to its slot and forgets the slot.
* **A tap** (`v32kbd.s:269`): a press read just before a WAIT carries the number
  of the next frame, for `keyp`. If the program did not look in the frame of the
  press and the key is released in the next, the first call of that frame polls
  again, sees the release and marks the key up: `keyp(k)` never answers true. The
  header of the file promises that it does. The event queue keeps both events. The
  mouse, which has a word for presses and one for releases, answers both.
* **A fast mouse** (`v32mouse.s:172`): "2 frames at the device's full speed still
  fit in -5..+5", but at one step in 5 ms (`doc/API.md:1090`) two frames hold six or
  seven, and the pointer then stays or moves the other way. `MotionHeard` excepts
  such reads (`turned`). A tick of a PICO-8 cart that draws on a fresh frame reads
  before that WAIT and again before the next: what the first found is not
  answered by pressed() in the following `_update`.
* **mouse.scale and mouse.bounds** do not read the mouse first, though
  `doc/API.md` says that every call does: steps made before in the frame count at
  the new scale.
* **unpack** (`table.s:2966`, `table.c:22`): the number of values is stored before
  the elements are read, and an `__index` function called for one stores another.
  The emitted code keeps the table and its bounds in globals of the call site: a
  bound that comes to the same site again changes them.
* **memcard** (`memcard.c:233`): `memcard.save(x, f())` and `memcard[f()] = v` keep
  an operand in a register across the call and store junk.
* **Long returns** (`control.c:110`): values past the third go to `MV_BUF` at once, so
  `return 1, 2, 3, 40, g()` loses the fourth to the call. `function.c:631` fills the
  parameters nobody gave only when more than one is missing.
* **A claim cut short** (`pico8.s:4613`): the id is written before the slots are
  cleared (`doc/PICO8.md:209`), so power lost in between leaves the new id over the
  old slots, which the cart takes for its own. `OwnData` without `~half` shows it.
  A `dset` cut short leaves a slot of old and new bytes, and a card with another
  cart's data put in between two calls is written without a look at its id.
* **Order of evaluation**: numeric for evaluates limit, step and start in this
  order, call arguments go from right to left, values past the targets of an
  assignment or the parameters of a library function (`string.rep`'s third,
  `music.play`'s third) are not evaluated at all.
* **PICO-8**: `sfx(n, ch, offset)` sets the volume (`pico8.c:604`). `music()` called
  by a menu entry ends its pattern late, and an effect played there resumes the old
  sound of a paused channel. A press of Start in the tick after the menu was
  closed by O or X is lost. `flip()` after a long computation starts a due
  pattern a frame late, and inside `_update` it does not move the frame by which
  the loop paces.
* **TIC-80**: sfx with a tone bank ignores note, duration and volume, and one path
  of play uses R1 without taking it. `cls`, `spr`, `map` and `print` leave their
  destination unset when their value is used.
* A local of a block at file scope is a global of that name in the generated code
  (`Extras` with "block" in `Scopes`), though `README.md:940` says that captured
  locals work; the comments at `context.c:395` and `memcard.c:83`
  describe code that is no longer there.

## 4. Proofs

`HybridTable_proofs` proves, for all values of the constants that satisfy
`HybridAssumption`:

* `TypeCorrect`, `BorderCorrect`, `OnePartCorrect`: invariants of `Spec`;
* `RefinesLua`: `Spec => ImplementsLua`.

None of the invariants is inductive alone. The border stays in the array
(`LengthFits`) only because growth covers the run it moves over; the run found by
an append starts at a full prefix (`PrefixFull`) and stops where `BorderStops`
says; and a key taken over by the array must not stay in the hash part
(`OnePart`), or clearing it would bring the old value back and the border with
it. Together they are `IInv`, which is inductive: one lemma per action, one step
per conjunct the action disturbs. `Insert` is a `Put` of the value past the border,
or a shift inside the full prefix followed by one at the new end (`PutInv`,
`InsertAtInv`, `InsertInv`). The refinement then maps each action to the
step of `LuaTable` it is: a read after the growth gives what it gave before, in
whichever part, except at the key stored (`PutReads`, `InsertRefines`).

The assumptions are the ones the module states: at least one whole-number key,
a smallest array of at least one cell, nil is neither a value nor a number, names
are not numbers. The numbers are unbounded otherwise; that the capacity word is
16 bits wide is modelled in `TableStorage`, and section 3 says what it does to the
border.

`Registers_proofs` proves, for any number of registers, operands and nested
functions:

* `TypeCorrect`;
* `PinnedKept`: `Spec => PinnedNotTaken`, with or without pressure. The inductive
  invariant `PInv` says that pinned operands have different registers, all in
  `pinned`, and the same of every function that waits with the `pinned` saved for
  it, no operand waiting twice: that is what makes the restored set right;
* `OwnRegisterCorrect` and `ValuesCorrect`: `OwnRegister` and `ValuesKept` are
  invariants; both speak of programs that hold no more operands than there are
  registers (`program.held <= Last`). `FreeLeft` counts: what is taken or pinned is
  some operand's register (`Sound`), so with fewer operands than registers one is
  free and only phase 1 runs. `Sound` also says that a slot in use belongs to a
  pinned operand that computed its value, so a new owner's slot is empty; it is
  kept for the functions that wait as well (`SInv`).

The condition `program.held <= Last` is needed, as section 3 shows: the compiler
does not enforce it.

`Devices_proofs` proves of the keyboard, for any keys, any length of the queue, any time a prefix
may wait, and whatever the device and its user do:

* `TypeCorrect` and `HeldCorrect`: no press or release, however out of turn, takes
  the count away from the keys that are down;
* `RefinesStream`: `Spec => ImplementsStream`.

`HeldCount` is inductive once the types are there, and the types once a frame ends
only when another is to come (`IInv`): the poll at its end stamps what it sees with
the number of the next one. The rest is the ring. `Wraps`, `Apart` and `Onward` are
its arithmetic modulo the size, `Enqueued` and `Skipped` say that the two updates of
the head and the count append to the queue and drop from it; `Polled` that a poll
is one event or none (`Heard`), from which each call is a step of `KeyStream`. The
assumptions are `KeyboardAssumption`: finitely many keys, prefixes that are not
keys, a queue of at least one place.

`OrderCorrect` (`InOrder`) and `KeysCorrect` (`KeysMatch`) relate the decoder to what the
user did. `OrderInv` says that there are two states only: the decoder is `Current`, so its
log, its keys, caps lock and the waiting prefix are what the device has sent, or
exactly one change of the device is `Pending`, which the next poll finds. A
frame brings at most one event, and the poll before the WAIT takes it in, which is
what makes the second state last no longer than a frame; a device that was away,
or a decoder that started over, is where the two are brought together again.

`Devices_proofs` proves of the mouse, for any speeds, scales, places, bounds and buttons, and any
number of frames:

* `MouseTypeCorrect`; `MotionCorrect` (`MotionHeard`) and `ButtonCorrect` (`ButtonSeen`).

The inductive invariant ties the decoder to the history of the device: both have
the same last read (`LastRead`); a device that stayed is as many positions on, modulo
12, as it made steps since (`InStep`), so that the difference the decoder folds into
-5..+5 *is* the number of steps when there were no more (`MousePolled`, `MoveOwed`); the
buttons that differ are those of the history (`Differ`); what is marked for the frame
in which the last read shows is what belongs to it, and nothing is marked for a later
one (`Marked`). `MouseAssumption` only gives the constants their types.

`CartData_proofs` proves, for any number and width of slots, any carts, any calls and a
power cut anywhere:

* `TypeCorrect`, `OwnDataCorrect` (`OwnData`), `SavedCorrect` (`SavedInPart`),
  `WrittenCorrect` (`WrittenThrough`).

`Shape` says that a call in progress is a list of stores, a claim with its clearing, or
a load, and nothing in between. `Claims` and `Owned` follow the id: a card is
written through only under the id of the cart that runs, and while it is being
claimed only slots still to be cleared are another's. `Progress` is the argument
for copies over themselves: no store to come reads a byte that an earlier one
writes (`Ordered`), so each stores what the call was to leave (`OnCourse`); the
direction in which the routine copies is what makes `Ordered` true at the start
(`MemCopyKeeps`).

`Pico8_proofs` proves, for any song, sounds, number of voices and gamepads, and any
frames and calls:

* `TypeCorrect`, `PressCorrect` (`PressOnce`), `PortCorrect` (`PortKept`), `SongCorrect`
  (`SongInTime`), `OnTimeCorrect` (`OnTime`), `VoicesCorrect` (`VoicesInTime`);
* `EffectCorrect`: `Spec => EffectHeard`, the action property of sfx().

There are three invariants. `PressInv` knows from the words of the edge what a press
still is to the game (`PressSeen`). `PortInv` adds where the cart's gamepad is: in the
port, or in a pause in the word that remembers it. `SongInv` is the music: the end of the
pattern is as far away as the song has frames left (`InTime`), counted from the
beginning of a pause while there is one (`Now`); in a pause no voice plays, out of one
none is paused (`Halted`), which is why a resumed voice has lost no frame. Voices go
round their loops, so where a voice is after any number of frames is a remainder
(`Wrapped`, `RemainderStep`). `SoundAssumption` says of the compiled song what the runtime
relies on: a sound has a length and its loop begins inside it.

`AllLoop_proofs` proves, for lists of any length and any objects:

* `OnceCorrect` (`VisitedOnce`), `AllVisited` (`NoneMissed`), `InlineCorrect`
  (`InlineAgrees`).

The table is that of `HybridTable`, so `LoopInv` contains its `IInv` and the lemmas of
`HybridTable_proofs` give what del and add do to the list. `Standing` is the place of the
loop: nothing past it was visited, and what stays is in the list. That alone is not
inductive, since the loop finds its place by index and element: `Tracking` says that,
while something is to come, the element handed out last is where the index says, or
it alone was deleted.

`TableStorage_proofs` proves, for any hash function, any keys and words, any size of the
first block and any calls:

* `HalfFullCorrect` (`HalfFull`), `ReachableCorrect` (`Reachable`), `FieldReadCorrect`
  (`FieldReadAgrees`) of `TableStorage`;
* `OnceCorrect` (`VisitedOnceUngrown`) and `NoneMissedCorrect` (`NoneMissedUngrown`) of
  `PairsLoop`;
* `RefinesHybrid`: `Spec => ImplementsHybrid`, and from it and `RefinesLua` of
  `HybridTable_proofs`, `ReadsAsLua`: the slots implement the table of the language.

`BlockInv` is that the hash block is `Sound`, its count right and every key `Chained` to the
slot where its probe first stops, and half empty (`HalfUsed`), so that every probe
stops. Stored values and migration leave the keys where they are (`ValuesOnly`); a key
put into the slot where its probe stopped cuts no other chain (`PutNewKeeps`); a
growth is a list of such insertions (`GrowKeeps`). Inductions over the slots, and
over the turns of the loops of the border and of insertion, are made by a least
counterexample (`Least`). For the loop, `WholeTable` adds that the two parts share no key,
and `LoopInv` gives the loop a place in the order of next: what is live up to it was
visited once, what is past it was not (`Passed`), and the control variable leads back to
it (`Stands`), which is all that a next without state can rely on.

The refinement maps the hash block to the function `HashMap`, from keys as Lua sees them
to what a lookup answers. `StorageInv` is `WholeTable` of the four header words, with the
`IInv` of `HybridTable` over the mapped state. The argument goes bottom up. A
store changes the answer for one key and no other, whatever word it comes as
(`PutNewReads`, `StoreReads`), a growth of the block changes none (`GrowReads`), and a
migration takes away those of the keys that move (`MigratedReads`); so a growing array
takes its new cells out of what the hash part maps (`ArrayGrowMaps`). The size it grows
to is one of `Sizes`: these are the capacity and its doublings, with none between
(`SizesAre`), because doubling is strictly increasing (`DoublingGrows`). The hard step is the
loop that extends the border, which reads the key after it in either part and may make
the array grow in the middle of the run. `Running` is its invariant: the run is whole up
to the border reached, and no size that would have held all of it was passed over;
each turn takes in one key more, or makes the room in which the next one does, so it
ends within the turns `ExtendBorder` gives it (`ExtendBorderAppends`). `Moved` is the same for
the loop of insertion, `SetRefines`, `InsertRefinesHybrid` and `RemoveRefinesHybrid` are
the three library calls.

The assumptions here say more. `StorageAssumption` types the keys, and says that words
for one key are the same key to the probe, as they are strings of equal characters or
zeros. `CapacityFits` says that the array never outgrows the capacity word
(`2 * MaxIndex < CapacityRange`): section 3 tells what happens beyond, and the refinement is
false there. `LoopAssumption` keeps the nil of the loop out of the keys. `NoneMissedCorrect`
has the hypothesis `NoFalse`, that the key false is not used, since false ends the loop
early.

`Scopes_proofs` proves, for programs of any length over any names:

* `NamesResolve` (`UsesDenote`): each use is compiled to an access of the variable
  that Lua means;
* `ClosuresComplete` (`CapturesBoxes`): a closure is made with the boxes of its
  variables, in the order of its upvalues;
* `SlotsSuffice` (`SlotsCounted`): the slots counted for a function before it is
  generated hold its locals.

The analysis and the generation walk over the same program at different times, and a
block that the analysis has closed leaves nothing in its state; what generation meets
inside that block is nevertheless decided by what was bound there. So the invariant
supposes a history `h` of the reading: for each place of the program the stack of
*levels* open there, each with the function it belongs to, the variables bound in it and
the slots it has used (`Level`). `h` is not a variable of the model. It is a quantified
function, for which each step of the reading exhibits the next value, and `Story` says
that the stacks follow from one another as the constructs demand: a local is added to
the last level, a block opens one and its end drops it. `Good` and `GoodNames` are what
every stack of a story satisfies: the levels of a function lie together behind the one
it was made in, and what a name means there is the last level that binds it.

* *Reading* (`ReadInv`): the analysis' state is that of the last stack (`Now`), and `Facts`
  tell what it has recorded of each place passed: what a use means, what was in scope
  where a function stands, and that a variable of an outer function is boxed there and
  an upvalue of each function between it and the use (`UseFact`, `Passes`; `Homes` and
  `Frees` are why the analysis finds the owner by name only).
* *The slots*: a function's count is known when it ends, and is the most that any level
  ever has. `EnoughIs` goes backwards from there (`EnoughBefore`): what is enough after a
  construct was enough before it.
* *Generating* (`EmitInv`): the scopes of the generator are the levels of the place to be
  generated (`Frame`). `Fits` relates one scope to one level: the same function and names,
  the slots of the level's variables all different and below the next one to be given,
  in each slot the variable or its box, as the analysis decided. Then a lookup through the
  scopes ends in the scope of the level that the meaning came from (`Lookup`), and the
  word it is compiled to reads that variable (`WordIs`).

`Facts` and `Story` do not change any more once generation has begun, so each `Emit...`
only has to show that its scopes become the levels of the next place. The hypotheses
are the disagreements of section 3 and nothing else: `NamesResolve` supposes that no
function uses a local of a block of the file (`"block"`), `ClosuresComplete` that no named
function stands inside another (`"named"`), without which run `scopes_named` has the
counterexample; `SlotsSuffice` needs neither. `ScopesAssumption` asks for at least two
constructs, as many as a function needs.

Only model-checked: the emitted code, whose five invariants (`OperandsReach`,
`StackBalanced`, `RegistersReturned`, `EffectsStay`, `EvaluatedOnce`) speak of what a machine
does with the code of each emitter, and whose runs enumerate the calls there are to prove
them for; and every liveness property (`LoopEnds` of both loops) and statement
with ENABLED, which are out of the prover's reach.

## 5. Plan

Done: tables with insertion and removal, the hash part and the loops over both, the
register allocator, the keyboard, the mouse, the PICO-8 frame loop with its sound,
pause and gamepads, the cart data, and captures and scopes, all with their proofs; the
code of every library function, operator, call and statement form, model-checked.

Left, in this order:

1. `MetaCalls`: `__call` handlers that call handlers and the stack of their return
   addresses; `__index` and `__newindex` chains; unpack with an `__index` function.
2. `Heap`: the bump allocator at its end, and what its callers do with 0.
3. `Tic80Sound`: the durations of effects counted down by a tick that may be late.
4. The rest of the table library: move with overlapping ranges, concat's bounds,
   sort with a comparison that changes the table.
5. Arithmetic as operators against references: dates, btnp periods, fixed point.

Theorems next: that the emitters of one kind leave the stack as they found it for
any number of arguments, which needs the code they emit as sequences of
instructions built by folds over the arguments.

## 6. Not modelled

The front end and the asset converters turn one file into another and keep no
state between steps. Formatting of numbers and text is left out because its
characters are its only result. Pixels and sound samples go to the console and
are never read back. Of the compiler: the string pool, the layout of the assembly
file, goto, function pointers, and the paths that compute with numbers known at
compile time. Of the runtime: the heap, metatables, sort, the calendar, the
generator of random numbers, the routines of the TIC-80 API and the records of the
memory card. Sizes of hash blocks never shrink and the heap never frees: memory
use is not bounded by any property here.
