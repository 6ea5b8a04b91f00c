# TLA+ models of the LEGO Star Wars: TCS arm64 loader

`lswtcs_arm64` runs the Android library `libTTapp.so` on a Linux handheld. It
maps the library into memory, patches it, and gives it a fake Android: JNI,
EGL over SDL2, OpenSL ES over SDL2, bionic's libc and pthread calls over glibc.
The game inside the library (below: the *guest*) is not in the repository. It
is modelled only through the calls it makes, and every model says what it
assumes of it.

Paths are relative to the repository; all C files are in `src/`.

## 1. The system

### Threads

| thread | runs | locks it takes |
|---|---|---|
| main | boot, then the event loop of `main.c`: SDL events, controller polling, `opensles_shim_pump_callbacks`, and with it the guest's audio callbacks | SDL's audio device lock |
| guest threads | started by the guest through `pthread_create_fake`: game logic, rendering, loading; they call OpenSL ES, EGL and GL | `g_players_lock`, the device lock, `egl_context_create_mutex`, the two registry locks |
| SDL audio thread | `sdl_audio_callback` | SDL holds the device lock around the callback |

### Components

**OpenSL ES bridge** (`opensles_shim.c`). Sixteen `AudioPlayer` entries, each
with a ring of bytes, an account of the enqueued buffers, a play state, flags
that detect the end of the stream, and registered callbacks. Four parts are
looked at separately:

* *ring*: `ring_head` and `ring_tail` run freely over 2^32. `ring_write` (in
  `Enqueue`) takes no lock; `ring_read` (in the audio callback) has the device
  lock; Stop, Clear and recycling zero both counters under the device lock. It
  is correct if the mixer hears the accepted bytes in order and once, and if a
  writer never touches a byte that has still to be read.
* *account of buffers*: `queued_sizes[64]`, two indexes, a count, the offset in
  the front buffer. `queue_push` (no lock) against `queue_consume` (device
  lock). It is correct if the count and the sizes are those of the unfinished
  buffers: `GetState` and the end-of-stream test read them.
* *lifecycle and pump*: `SetPlayState`, `Enqueue`, `Clear`, and the pump, which
  asks the guest for data while the ring is low, decides that the decoder is
  done when a callback enqueues nothing, raises `HEADATEND` when the ring has
  drained, and stops the player. It is correct if a playback ends, no earlier
  than its data.
* *pool*: `alloc_player` searches the table four times (inactive; stopped and
  drained; stopped; most played), the last two resets with the device lock. It
  is correct if two creations never share an entry while there is room, a reset
  does not disturb the mixer, and the locks cannot block each other.
* *mixing*: `sdl_audio_callback` computes how many bytes a player owes the
  device's buffer, takes them from the ring, drops an incomplete frame,
  resamples the rest, fades the edges of the sound, and charges the bytes to
  the account. It is correct if the stream is heard in order, without gaps or
  clicks, and the account follows it. Gain, interpolation and limiter are
  floating-point.

**Controller input and event loop** (`main.c` 435-481, 616-821, 968-1050).
State: the open controller, the last reported state of each button, stick and
trigger, the activation pulse that presses A once after a controller is opened,
the guest's pad mapping, the quit request. Once per frame: SDL events (hot-plug,
touch, quit), buttons, axes, mapping, pulse, audio pump. It is correct if what
the guest believes about each key follows the controller, also across
unplugging and the pulse.

**EGL shim and GL wrappers** (`egl_shim.c`, `imports.c` 557-948). Thread-local
`current_context`, `last_context`, `has_real_gl`; one share root, a creation
mutex. Every wrapped GL call but `glGetString` and `glGetIntegerv` first runs
`ensure_current`. It is correct if `has_real_gl` is what SDL would say of the
thread and no context is current in two threads.

**Guest locks** (`imports.c` 48-190, 435-542). Lists of host mutexes and
condition variables keyed by guest address, created on first use, destroyed
while others may hold the pointer just looked up.

**ELF loader** (`so_util.c`). Load, relocate, resolve, protect; globals for the
image. It is correct if every failure is reported to the boot code and no stage
uses what an earlier one has not set.

**Boot and code patches** (`main.c` 174-433, 823-966). The order load,
relocate, resolve, patch, protect, constructors, SDL, window, JNI, activity;
the scanner that turns branches to stack-check failures into NOPs by decoding
`b.cond`, `cbz` and `bl`.

**JNI shim** (`jni_shim.c`). Two tables of IDs handed out in order (32 methods,
16 fields), object arrays with bounds checks, constant answers. Every guest
thread gets the same environment and nothing locks the tables. It is correct if
an ID keeps naming what it was handed out for and a scan stays in its table.

**Paths, assets and files** (`util.c`, `android_shim.c`, `imports.c` 260-433).
Android paths are mapped to local ones in two thread-local buffers; the
wrappers of `fopen`, `open`, `mkdir`, `remove`, `rename` and
`AAssetManager_open` pass the result on. It is correct if the guest's own
directories behave as files, whatever name it uses for them, and the assets
that came with the game survive.

**Rest.** Import table, fortified libc stubs, crash handler, fatal errors, build
files: constant data, pass-through calls or output.

### What is hard here

* Three threads share a player and no lock covers all of them: `Enqueue` takes
  none, the pump reads without one, `g_players_lock` is taken by `alloc_player`
  only.
* The buffer callbacks run on the main thread, so a player's ring can have two
  threads that write or flush it, although it is written for one.
* The pump reads flags, counts and the ring, calls into the guest, and acts on
  what it read before.
* Free-running counters wrap at 2^32, and the masks, the table of 64 sizes and
  the ring wrap at other moments.
* Input is polled and compared with remembered state, and the controller may
  disappear with a key down.
* A thread's idea of its GL context is a thread-local copy of what SDL and the
  driver hold.
* Sizes are computed in source frames, output frames and bytes, each rounded.
* A path is resolved by looking at the file system, and used later; the result
  lies in a buffer that the next resolution overwrites.

PROJECT.json lists the single hazards with their lines.

## 2. Modules

Each module describes one component; its header says what it abstracts. Names
follow the code, and `PROJECT.json` ("map") gives the lines of every definition.

| module | code | state | a step is |
|---|---|---|---|
| `ByteStream` | promise of a player's ring | bytes accepted, heard or dropped, last chunk heard | a whole Enqueue, read or flush |
| `SpscRing` | `ring_write`, `ring_read`, flush | the array, both counters mod 2^32, locals of a write and a read | one byte copied; a load or a store of a counter |
| `BufferLedger` | `queue_push`, `queue_consume`, `queue_reset` | sizes, indexes, count, front offset, locals | one load or store of the count or a size |
| `PlayerLifecycle` | `SetPlayState`, `Enqueue`, `Clear`, the pump, one player's part of the audio callback | play state, bytes readable, the thread inside an Enqueue, the end-of-stream flags, the pump's locals, the guest's track | one method call, from the game thread or in a callback; the ring's and the account's half of an Enqueue; one test or one assignment of the pump |
| `Mixer` | `sdl_audio_callback` for one player | stream positions that entered and left the ring, bytes owed, position, fade, frames heard | half an Enqueue, a flush, the pump's reset, a change of play state, a device callback |
| `PlayerPool` | `alloc_player`, `CreateAudioPlayer`, `Destroy`, audio callback | the table, both locks, a search per thread | one entry searched; a lock; a reset; an entry mixed |
| `Controller` | event loop, `open_controller`, polling, pulse | devices, SDL's events, remembered and reported input | one event; one stage of a frame |
| `EglContexts` | EGL shim, GL wrappers | thread-locals, share root, driver's current contexts | one EGL or GL call; `eglCreateContext` takes three |
| `GuestLocks` | mutex and condition registries | entries, registry locks, host objects, a call per thread | entering a lookup, scanning, inserting, using the host object |
| `SoLoader` | `so_load` to `so_execute_init_array` | stage, image, heap's pointers, page protection | one loader function |
| `Boot` | `main` 842-881, `patch_all_stack_chk_branches` | `SoLoader`'s, the code, the scan's counters | a loader function; one instruction scanned |
| `MCBoot` | – | images and programs for TLC | |
| `JniTables` | `GetMethodID`, `GetFieldID`, the calls | both tables, their counts, a lookup per thread | reading a count; filling an entry; counting it |
| `FileStore` | promise of the guest's directories | files by name; a call, an answer and a file open for writing per thread | a call begins; it takes effect and returns; contents come into an open file |
| `AndroidFiles` | `resolve_android_path`, the file wrappers, `AAssetManager_open` | host files by place; two buffers, a call and a file open for writing per thread | a call begins; a path resolved; the system call; a write to the open file |
| `GuestServices` | both, used by the same threads | theirs | a step of one of them |
| `*_proofs` | – | theorems about every module above that has a state: `PlayerBuffers_proofs` (`SpscRing`, `BufferLedger`), `AudioCallback_proofs` (`Mixer`, `PlayerPool`), `PlayerLifecycle_proofs`, `Controller_proofs`, `EglContexts_proofs`, `GuestLocks_proofs`, `Boot_proofs` (`SoLoader`, `Boot`), `GuestServices_proofs` (`JniTables`, `AndroidFiles`, `GuestServices`) | |

How they belong together: `SpscRing` refines `ByteStream` (`INSTANCE` with
`Capacity <- RingSize`; the three variables of the stream are history variables
of the ring). `BufferLedger` and `PlayerLifecycle` use the promise and keep a
number of bytes for the ring; `PlayerLifecycle` in turn takes the ledger's count
for right until a callback or a reset has crossed an Enqueue or the pump has reset
a player that was fed again (`spoiled`, the ledger's `raced`), and for anything
after that. `PlayerPool` keeps chunks. `Mixer` looks inside the
callback and takes ring, account and play state for what the others show of
them. `Boot` extends `SoLoader` and puts the patch between its stages.
`GuestServices` extends `AndroidFiles` and `JniTables` and lets each thread be in
one of them at a time. `AndroidFiles` implements `FileStore` on the guest's own
directories: a file of the store is the place a path is sent to, so two names of
one directory are one file, and a call takes effect with the system call.

Main choices:

* **Bytes are their positions** in the stream of accepted bytes. So "in order,
  once, no leftovers" is an equation between what a slot holds and where the
  reader is, and a slot that was not overwritten shows its age.
* **Atomicity.** A `+=` on a counter that two threads change is a load and a
  store. Counters that only the thread with the device lock changes move in one
  step. Method bodies under the device lock are one step where another
  component's module looks inside them.
* **The device lock** is SDL's: the callback holds it from begin to end.
* **The guest** is as free as its contract allows. In `PlayerLifecycle` it
  plays tracks, from its game thread or its callback, and pauses, stops, seeks,
  feeds and starts the next track from its game thread at any step of the pump and
  from inside its callbacks; one thread at a time enqueues, and a track begins with
  `Clear`. In `AndroidFiles` it renames within its own directories or outside them
  and has one file at a time open for writing in a thread. In `GuestLocks` it
  follows POSIX (it initialises and destroys objects nobody else uses). In
  `EglContexts` it destroys any context, remembered or not.
* **Undefined or environment behaviour** is a choice: the driver's refusal, of the
  share root too, controllers that do not open, `calloc`'s failure, spurious wakeups,
  which thread a signal wakes, whether an unplugged controller reads neutral, which
  context a dangling pointer binds.
* **Exceptions are histories.** Where the code breaks a property in a known
  interleaving, a history variable records that the interleaving happened, the
  property excepts it, and the hazard in PROJECT.json says so: `raced`, `spoiled`,
  `crossed`, `miscounted`, `cleared`, `stale`, `refused`, `contested`, `torn`,
  `overfull`, `overlapped`, `disturbed`. Such a property shows that nothing else
  breaks it.

## 3. Runs

All runs finish in well under five minutes with two workers.

| run | shows | bounds, and why they are enough |
|---|---|---|
| `ring` | bytes are heard in order and once; the writer keeps off unread slots; ring refines stream; `RingInv` is the inductive invariant of the proofs, with `ChunkInOrder` in it | ring of 4, word of 8 (two rings), requests to 5 and 11 bytes: the array wraps twice, the word once, requests are clipped by both ends, and a flush leaves the counters out of step with the stream |
| `ledger` | the account equals the unfinished buffers; the count stays in the table; `queue_consume` returns | table of 2, word of 4, ring of 3: merging into a full table, indexes that wrap, a part-played front; Stop and Clear also inside an Enqueue, the pump's reset at any time |
| `ledger_race` | *violation*: an empty ring with a count above zero | same |
| `player` | HEADATEND only after the track; no early stop; every playback ends, whatever the guest does in its callbacks and beside the pump | ring of 4 units, tracks to 3, buffers to 2, three calls: tracks longer than a refill and than what a pump asks for, a seek or reload between any test of the pump and what it does on it, an audio callback inside an Enqueue, a second HEADATEND after the first |
| `mixer` | frames heard in order, no gap for a stocked player, faded edges, exact account and position, every stream drains | device rate 6 and rates 3, 4, 6, 8: none, to two and to one and a half times the frames, and down; mono and stereo; a device that asks for `Samples` frames, 3, and one that asks for more, 4; ring of 12 bytes, temporary buffer of 12, buffers of 3 and 8 bytes, 16 bytes between two flushes: whole frames, torn frames, a full ring, underruns, a request that does not fit, a callback or reset inside an Enqueue |
| `pool` | distinct handles, undisturbed mixer, creation returns | two entries, two threads, three players: every search is reached, the last with all entries playing |
| `controller` | the guest's view of keys, axes, triggers follows the controller; pulse ends; controllers that open are found and kept | two devices of which the second may come before or after the first goes and either may refuse to open, a hat key and A, one stick that rests or is past the dead zone, one trigger |
| `egl` | sharing, `has_real_gl`, target of GL calls and swaps | two threads, two contexts: contention needs two of each, and a destroyed context's memory comes back as the other's |
| `services` | own directories refine `FileStore`; assets untouched; openings find what is there; IDs name their members | two threads, three calls between them: a rename beside another rename, beside a file open for writing, or beside a lookup; one redirected directory, also under the name that `AAssetManager_open` makes of it, and one other; one name that is an asset and below the working directory, one that is only below it; tables of 2 and 1 that fill |
| `guest_locks` | exclusion, live host objects, no lost wakeups, lookups end | two threads, a mutex, a condition variable, three entries: one more than objects, so a destroyed object may come back in other memory, or calloc fails |
| `boot` | linking, writes in the heap, usable pages, patch precise | heap of 24 with pages of 4: segments of every length and offset against page limits; every pair of relocations; all programs of four instructions with a window of two |
| `boot_missed` | *violation*: calls behind the plt are neither patched nor counted | same |

`CHECK_DEADLOCK FALSE` stands where the system stops: bounds on bytes, calls
and devices are reached, the loop exits, the boot ends or fails. The ledger, the
pool, EGL and the guest's locks never stop, and TLC checks it.

Every run checks the inductive invariant of the proofs (section 5), which holds
the types of its modules and the property named in brackets: `RingInv`
(`ChunkInOrder`), `LedgerInv` (`LedgerExact`), `PlayerInv` (`HeadAtEndMeansFinished`),
`MixedInv` (`NoGapWhenStocked`; with `AccountFollowsRing` and `FadesBeforeSilence`),
`PoolInv` (`HandlesAreDistinct`), `ControllerInv` (`KeysAgree`), `LocksInv`
(`HostIsLive`), `LoaderInv` (`WritesInHeap`), `PatchInv` (`ForwardChecksDisabled`). The EGL
shim, the JNI tables and the files have invariants that live in their proof
modules (`EglInv`, `JniInv`, `FilesInv`, `OpenInv`). Every safety property of a
passing run is also a theorem.

Each property has a mutant in PROJECT.json, an operator marked "Mutation:" in
its module: a plausible slip in the code that the property catches.

### Disagreements found

1. `ledger_race` – bytes are published before `queue_push`. If the audio
   callback plays them in between, `queue_consume` finds no entry, the entry
   comes afterwards, and `queued_count` stays above zero for ever. Without a
   buffer callback, HEADATEND then never comes.
2. `boot_missed` – `sign_extend_bits` returns a `uint32_t` widened to
   `intptr_t`: negative distances become positive. A `bl` back to the plt is
   not recognised, and the summary counts it neither as patched nor as missed.

Behaviour worth knowing, without a run of its own; the models show it when the
constant is set or the condition dropped:

* A flush inside another thread's `ring_write` (`CrossThreadFlush = TRUE`): the
  store of `ring_head` puts the old head back over a zeroed tail, and old
  contents become readable (`NeverReadsLeftovers` fails).
* A track that the guest starts in its HEADATEND callback, or from its game thread
  between the pump's test and its stop, is stopped by the pump (`cleared` in
  `StopSilencesNothing`). The pump then resets the account of buffers and not the
  ring, whose bytes nothing accounts for any more (`raced`, `spoiled`).
* A `Clear` or stop of the game thread between a test of the pump and the assignment
  or the callback that follows it is overwritten: a new track begins with
  `decoder_done` or `headatend_fired` set, and HEADATEND may be raised for it before
  its end (`crossed`).
* A pump in which the guest calls `Clear` and enqueues until `enqueue_counter` is what
  it was takes the callback for one that had nothing to enqueue: HEADATEND comes early
  (`miscounted`).
* The pump leaves `decoder_done` and `headatend_fired` set when it stops a player,
  and a stop of a stopped player takes nothing back: a guest that played another track
  without `Clear` would get no second HEADATEND. The guest modelled calls `Clear`.
* A device with a longer buffer than `SDL_AUDIO_SAMPLES`, which
  `SDL_AUDIO_ALLOW_SAMPLES_CHANGE` (458) permits, gets silence behind the first 4096
  frames of every callback, and the sound breaks off there without a fade: it does not
  count as an underrun (`device <= Samples` in `NoGapWhenStocked`).
* A controller that does not open when its event is handled is not tried again until
  another event comes (`refused`).
* `eglDestroyContext` leaves the context in other threads' `last_context`; their next
  GL call hands freed memory to SDL (`stale`).
* After `eglCreateContext` a thread has no context and a `has_real_gl` that says it
  has: its GL calls and swaps go nowhere until its next `eglMakeCurrent`
  (`unbound_behind`).
* `AAssetManager_open("mnt/sdcard/...")` puts `./` before the name, which is then not
  one of the three prefixes; if the file is not there the asset of its name is opened
  (`AssetPath`).
* Buffers that end inside a frame: the incomplete bytes leave the ring and not
  the account, which stays above zero, and later frames are shifted (`torn`).
* Stereo above 44100 Hz wants more than the temporary buffer holds: a gap in each
  device buffer (the condition in `NoGapWhenStocked`).
* The second search of `alloc_player` may reset an entry that its owner starts
  between test and reset.
* A path outside the guest's directories that exists nowhere is taken for the
  asset of its name, also to write, remove or rename it.
* A `mkdir` that resolved to a file below the working directory, which another thread
  then removes, makes a directory there; it hides the asset of its name (`Meant`).
* Two lookups of one table at once may give one ID to two names, or count an
  entry nobody filled or one past the end (`overlapped`).

## 4. Fairness

* `ledger`: weak fairness of the audio callback's own steps. It is a loop of
  the audio thread with nothing to wait for.
* `player`: weak fairness of the pump (the main loop calls it every frame), of
  the mixer (SDL calls back while the device runs), of the second half of an Enqueue
  and of the guest's resume after a pause. Nothing is assumed of the guest's other
  calls. The pump's fairness stands for its guest's callbacks too: they return.
* `pool`: weak fairness of threads inside `alloc_player` and of the callback;
  strong fairness of taking the device lock, which is free for most of the time
  between two callbacks. `g_players_lock` needs none: `CreateReturns` begins when
  it is taken.
* `mixer`: weak fairness of the device's callback; SDL calls back while the device is
  open. An Enqueue that has begun is finished.
* `controller`: weak fairness of the main loop.
* `guest_locks`: weak fairness of a thread that holds a registry lock, strong
  fairness of getting it: the sections are short and `pthread_mutex_lock` lets
  every waiter in at last. Nothing is assumed of the guest's locks themselves.
* `ring`, `egl`, `services` and `boot` check safety only and assume no fairness.

## 5. Proofs

The theorems hold for every value of the constants that the named assumptions
allow. Each proof module states an inductive invariant, has one lemma per action
that it is preserved, and derives the properties from it. TLC checks the same
invariants on the runs above, so that what is proved is known not to hold for
want of a state. The proof modules join what belongs together in the program:
one player's buffers, the audio callback's view, boot, guest services.

### Assumptions

Every constant has an assumption in its module. Those that say more than a type:

* `CrossThreadFlush = FALSE` (ring): no flush falls inside another thread's
  `ring_write`. The account (`FlushInEnqueue`) and the player need no such assumption.
* `PlayerAssumption`: the ring holds four units or more, so that a quarter of it is not
  nothing.
* `LedgerAssumption`: the table has two entries or more, its indexes' word is a
  multiple of its length, the ring is smaller than the word. The code has 64,
  2^32 and a smaller ring. With a table of one entry buffers merge into the front
  entry, which is not shortened while it is played, and its size grows for ever.
* `LayoutAssumption` (loader): code begins at address 0 and ends before the data, and
  pointers lie in the image. `so_load` does not test it; linkers lay images out so.
* `PatchAssumption`: distances are what the fields can hold, and the machine's word is
  large against heap and branch range, so that a distance that was extended wrongly
  lands outside the code.
* `MixerAssumption`: rates times the fixed point's unit are at least the device's rate,
  so that a step of the resampler is not zero; the ring is whole stereo frames.

### Arguments

**`SpscRing`** (any `RingSize`, any `Wraps` of two or more, any `MaxLen` and
`MaxSent`, that is also the code's 2^32 and its ring). `ChunkInOrder` is not
inductive: that the next slot holds the right byte depends on all slots between
the counters, on the counters being apart by the number of pending bytes, and on
what both threads remember of a counter that has moved on. `RingInv` adds

* `CountersAgree`: `ring_head = (ring_tail + Pending) % Word`, `Pending <= RingSize`;
* `SlotsHold`: pending slots, and those the current write has filled, hold
  their bytes;
* `WriterLocal`, `ReaderLocal`: the remembered index and length still fit.

The arithmetic comes first: `MaskedAdvance` and `AdvanceTwice` reduce `& MASK` of a
wrapping counter to `Slot`, an addition that wraps once; they rest on `Word` being a
multiple of `RingSize`. `ReadableIsPending` then says that the difference of the
counters is the number of pending bytes; `SlotInjective` that slots less than a
ring apart differ, so a write cannot hit a pending byte.

**`BufferLedger`** (any table, word, ring and buffers). `LedgerExact` speaks of
moments between calls only. `TableKnown` says what the table has at every step:
some list of buffers whose differences are the entries between the two indexes,
and how that list, the count and the history `due` are apart at each point of an
Enqueue or a callback (the count still to follow, the bytes still to be taken off).
`KnownNext` is the pattern of every step: name the list after it. `DueInOrder` orders
the history by where buffers end, so that `FinishedFirst` can say that the buffers a
callback finishes are the first ones; `Registers` bounds what both threads have
loaded, which keeps the count in the table also when they overlap.

The pump's reset empties the account but not the ring. With an empty ring and outside
an Enqueue the list is empty too, and the account is exact again; otherwise `raced`
records that the account no longer belongs to the ring, until both are emptied together.

**`PlayerLifecycle`** (any ring, tracks, buffers and calls, with the guest's calls and
the audio callback between any two steps of the pump and the halves of an Enqueue).
`HeadAtEndMeansFinished` needs `DoneMeansEnqueued`: the flag, and the pump's way to
it, stand for a track enqueued to the end. That a buffer callback which seems to have
enqueued nothing had nothing to enqueue is `CallbackCounts`: while `Clear` is not
called, `enqueue_counter` grows, what was found to be missing in the ring still is
when the callback enqueues, and so what it enqueues is counted; it uses that an
Enqueue of the pump's thread ends within its callback (`EnqueuerKnown`).
`NothingAfterEnd` carries the drained ring to the stop for `StopSilencesNothing`.

**`Mixer`** (any rates, devices, ring and buffers). The account follows the ring
because what is read is whole frames unless some were torn (`WholeFrames` and
`FramesAdd`), between the halves of an Enqueue up to the bytes not pushed yet. Where frames come from is division: `SourceFacts` (an output frame steps
over `Stride` source frames at most), `MixedFacts` (the frames mixed are the first
ones), `SparedBound` (what is taken and not mixed is at most `Spared`). The envelope is
compared as fractions; `FadeEnds` says that the last frame that the source sufficed
for is at the end of the fade-out. `HandsOver` carries this from callback to callback.

**`PlayerPool`** (any table and any number of threads). `RoomForAll` counts: without an
overfull guest the entries in use and the thread in `alloc_player` are the players
alive or being made, so the first search has an entry to find ahead of it, and the
entry it found is nobody else's. `LiveCounted` ties the guest's count to handles and
threads as sets; `LocksHeld` gives one thread in the search; `OldestIsKnown` gives the
last search a candidate. `PoolIInv` adds that these sets are finite.

**`Controller`** (any buttons, axes, devices). `ToldAsRemembered` relates what the loop
remembers to what the guest was told at any time, also with no controller open;
`QueueSound` that a removal in SDL's queue is of a device that is gone.

**`EglContexts`** (any threads and contexts). A GL call lands right because
the driver has what the thread asked for last or nothing, and this survives a
refused request, another thread's creation and a destroyed context only with:
nothing is current before the window (`NothingWithoutWindow`); a thread that remembers
what no longer exists is recorded (`HeldAreLive`, with `stale`); a thread that lost its
context to its own creation still believes in it (`UnboundBelieve`); a thread about to
create has the share root or shares by what it has (`RootBorrowed`); its own idea is
the last request (`CurrentIsLast`); the context carries the kind of its surface
(`MarkedAsAsked`). `EglInv` is their conjunction with the properties.

**`GuestLocks`** (any threads, objects, entries). `MutualExclusion` rests on one host
object per guest address (`ListsSound`: entries are unique, and a thread about to
insert knows that there is none, because `RegistryHeld`), on owners and depths
being what the guest's calls say (`OwnersAgree`), and on the pointer a lookup returned
staying that object's (`HostIsLive`, `Listed`), for which the guest must destroy objects
nobody else uses (`MadeAlone`). `WaitersKept` is what no lost wakeup needs.

**`SoLoader`, `Boot`** (any laid-out images, pages, symbols; any code, window and
widths). `Placement` and `Pointers` follow the image from stage to stage; pointers of
different relocations lie apart, so that a pass changes each at its slot only.
`Protection` is arithmetic of pages (`ProtectedIs`, `PageHasByte`). `Boot` is a run of
`SoLoader` (`BootLoads`), so these carry over. For the patch `Decodes` says that the
decoders are right about distances ahead and take those back for a place outside
the code; `CutOff` is kept turn by turn, because a branch is replaced only if a
nearer one was not.

**`JniTables`** (any threads, limits and names). `JniInv` says that a table two
threads are in was entered by both (`OneAtATime`), that in any other table the
counted entries are filled in order (`Filled`) and the thread inside works on the
next (`NextSlot`), that what was handed out is counted (`Counted`), and that the
count with the threads inside stays below the limit and the number of threads
(`CountBounded`), which bounds it for racing threads too.

**`AndroidFiles`** (any threads, names, contents and directories). `FilesInv` says
that a call in progress in the own directories has resolved to the thread's
`alt_path` and that buffer holds the home of the path resolved last, with the home
of the old path copied for `rename`; and that any other call resolved to a place
outside, but for a relative name of `AAssetManager_open`, which can only be read
(`WrapperCalls`, `ReadFacts`). `OwnCall` shows that a system call on homes does to the
own files what the store does, `OwnWhere` and `OutsideWhere` where it leaves the files
that are open for writing. So beginning a call is `Begin` or `Leave` of the store,
resolving is a stutter, the system call is `End`, or a stutter when it is outside, and
contents that come later are `Write`, or a stutter. `OpenInv` adds that an undisturbed
opening holds the place its path means now, unless nothing is at either: `ResolveFinds`
when it resolves, `ReaderLeftAlone` while others make and remove files of other names.

**`GuestServices`**: a step of the whole is a step of one service and leaves the
other alone, so both keep what they promise.

### Theorems

| theorem | states |
|---|---|
| `RingCorrect`, `TypeCorrect`, `HeardInOrder`, `UnreadSlotsAreSafe` | `[]RingInv`, `[]TypeOK`, `[]ChunkInOrder`, `[]WriterKeepsOffUnread` |
| `RingImplementsStream` | `Spec => RefinesByteStream`: initial states map, every step maps to a step or a stutter |
| `LedgerCorrect` | `[]LedgerInv` |
| `PlayerCorrect`, `PumpSilencesNothing` | `[]PlayerInv`, `StopSilencesNothing` |
| `MixerCorrect`, `AccountFollows` | `[]MixerInv`, `[]AccountFollowsRing` |
| `MixedCorrect`, `SoundFades`, `StreamInOrder`, `SoundNeverDips` | `[]MixedInv`, `[]FadesBeforeSilence`, `HeardInOrder`, `NoDips` |
| `PoolCorrect`, `PoolKeepsHandlesApart`, `MixerIsUndisturbed` | `[]PoolInv`, `[]HandlesAreDistinct`, `MixerUndisturbed` |
| `ControllerCorrect`, `GuestKeysAgree`, `ControllerIsKept` | `[]ControllerInv`, `[]KeysAgree`, `KeepsController` |
| `EglCorrect`, `EglTypes`, `ContextsShare` | `[]EglInv`, `[]TypeOK`, `[]AllShareRoot` |
| `RealIsReal`, `CallsLand`, `FramesAreShown` | `[]RealGlIsReal`, `[]CallsLandInLastAsked`, `[]SwapsReachTheWindow` |
| `LocksCorrect`, `HostsAreLive`, `MutexesExclude`, `WaitersAreReachable` | `[]LocksInv`, `[]HostIsLive`, `[]MutualExclusion`, `[]WaitersReachable` |
| `LoaderCorrect`, `PointersAreMeant`, `ProtectionCovers` | `[]LoaderInv`, `[]LinkedAsMeant`, `[]SegmentsUsable` |
| `BootLoads`, `BootCorrect`, `PatchDisablesChecks` | `BootSpec => Spec`, `[](LoaderInv /\ PatchInv)`, `OnlyChecksDisabled` |
| `JniCorrect`, `JniTypes`, `IdsName`, `ScansFind` | `[]JniInv`, `[]JniTypeOK`, `[]IdsNameTheirMembers`, `[]ScansFindNames` |
| `FilesCorrect`, `FilesImplementStore`, `AssetsAreSafe`, `OpensFind` | `[]FilesInv`, `RefinesFileStore`, `AssetsSurvive`, `OpensWhatIsThere` |
| `ServicesUseTables`, `ServicesKeepIds`, `ServicesKeepFiles`, `ServicesOpenFiles` | the same of the composition |

### Only model-checked

Liveness: `ConsumeReturns`, `PlaybackEnds`, `Drains`, `CreateReturns`, `PulseEnds`,
`ControllerFound`, `LookupsEnd`. It rests on fairness and ENABLED, which the prover does
not handle. Every safety property of a passing run is proved.

### What proving changed in the models

Attempts that failed showed where a model or a property said something else than
was meant, outside the instances TLC had seen:

* `Spared` was one frame too small for some rates: what a callback takes and does not
  mix is `Stride + 2` frames.
* The HEADATEND callback that starts the next track enqueues what fits, not all.
* `so_load` tests less of the layout than the relocations rely on (`LayoutAssumption`).
* Two cases of `Result` and `Linked` overlapped; the order of the tests decides.
* `OpensWhatIsThere` was false for a name that is an asset and also below the
  working directory: a directory may come to lie there and hide the asset. It is
  now stated with `Meant`, and the run has such a name.
* `psize` never exceeds the ring, and a table of one entry is not covered (above).
* An opening of a relative name through `AAssetManager_open` reaches an own file
  without being redirected; the store's refinement leaves it out, as it changes nothing.

## 6. Not modelled

* Sample values: interpolation, volume, gain, limiter, the click detector. In the
  ledger all bytes of a chunk count; `Mixer` has the incomplete frames.
* Loads out of order: the ring's steps follow program order. `ring_read` (206) has
  no barrier between reading `ring_head` and the bytes.
* Volume and the vtables of OpenSL ES; registration of callbacks; the pump's walk
  over several players.
* Touch events and `SDL_QUIT`, the pad mapping, patches at fixed addresses.
* EGL displays, configs and surface objects; GL itself; `glGetString`'s cache. What a
  GL call does with a destroyed context's memory is a choice of live contexts; a crash
  there is not modelled.
* Guest locks initialised again without destruction (`imports.c` 438), which keep
  the old host object.
* Paths that fill the buffers of `resolve_android_path`; reading through open files
  and assets, which is stdio; openings to append or to update; a thread with two files
  open for writing; renaming between the own directories and others.
* JNI strings, arrays and references: fresh memory or constants. The tables keep the
  caller's name pointers (`jni_shim.c` 64, 81); a name is a value in the model, which
  assumes that the strings stay as they are.
* Two threads inside `Enqueue` of one player; a guest that plays a track without
  `Clear`.
* Thread start, libc stubs, the crash handler, `error.c`, build files: pure data, I/O
  or output.
* In the loader: several segments of a kind, `so_unload`, symbol searches; what
  freed memory holds after the error exits that return 0 (`so_util.c` 198); the
  addend of an ABS64 relocation against an import (285).

## 7. Plan

Done: the core of the audio bridge, input, EGL, locks, loader and boot; mixing,
paths and JNI tables; refinements of `ByteStream` and `FileStore`; every safety
property of a passing run proved. Left, in this order:

1. Abstract specifications of more parts, with refinement proofs: a guest mutex as a
   lock (`GuestLocks`), the account as a queue of buffers (`BufferLedger`).
2. `SpscRing`: a reader whose byte loads may be early; a second writer (buffer
   callback against game thread).
3. `Controller`: touch, quit, pad mapping; `PlayerLifecycle`: a guest that replays
   without `Clear`.
