# m8c for the RG35XX: specifications and proofs

`m8c` shows the display of a Dirtywave M8, a music tracker, and sends the user's
input to it.  The M8 is connected by USB.  It sends draw commands over a serial
endpoint and audio over an isochronous endpoint; the program draws the commands
with SDL 1.2, plays the audio through SDL, and writes controller bytes, notes
and a few one-letter commands back.  This directory holds TLA+ specifications of
the program, the TLC configurations that check them and proofs that TLAPS
checks.  They describe the build of the Makefile: `USE_LIBUSB`, SDL 1.2, ARM.

## 1. The system

Three threads share the program's state.

| thread | code | what it does |
|---|---|---|
| main | `main()` | opens the M8, polls the user, writes to the M8, draws, ends it all |
| USB | `usb_loop` | handles libusb events: runs `callback` for serial reads, `cb_xfr` for audio, `xfr_cb_in` for writes |
| audio | SDL's | runs `audio_callback` for each buffer of sound |

A signal handler stores `run` between any two instructions of the main thread.

| component | source | state | operations | correct when |
|---|---|---|---|---|
| SLIP decoder | `slip.c` | `state`, buffer, its size | `slip_read_byte`, `reset_rx`, `put_byte_to_buffer` | every frame that arrives whole is handed over once and exactly; an error does not outlast the next END |
| command queue | `main.c` 36-63, 313-322 | `command`, `command_sizes`, two cursors, the heap | `pullCommand` (USB thread), `popCommand`, `process_command`, `render_screen` (main thread) | each command is drawn once, in order, from a buffer that is allocated, unless the M8 is a whole queue ahead or its stores are seen out of order; none leaks; all are shown |
| ring buffer | `ringbuffer.c` | array, `head`, `tail`, `size`, mutex | `ring_buffer_push` (USB), `ring_buffer_pop` (audio) | it is a bounded byte queue; calls return |
| USB audio | `usb_audio.c` | transfers, SDL's device | `cb_xfr`, `audio_callback`, `audio_init`, `audio_destroy` | playback starts filled, starts again after a pause; the ring buffer is there while the audio thread runs |
| main program | `main.c` | `run`, `port_inited`, `zerobyte_packets` | start, wait loop, main loop, clean up, `intHandler`, `callback` | the main loop has an M8 that was enabled; nothing starts twice; quitting ends the program |
| USB device | `usb.c` | `devh`, `do_exit`, the USB thread | `init_serial`, `enable_and_reset_display`, `blocking_write`, `bulk_transfer`, `async_read`, `disconnect` | a write has a thread to complete it, and returns once it is completed |
| input | `input.c`, `main.c` 272-310 | `keycode`, keyjazz state, `prev_input`, `prev_note` | `get_input_msg`, `send_msg_controller`, `send_msg_keyjazz` | the M8 has the buttons that are held; no note hangs |
| display | `command.c`, `render.c` | `canvas`, `screen`, `dirty`, font, background, the size of the last waveform | `process_command`, `draw_*`, `render_screen`, `display_keyjazz_overlay`, `screensaver_*` | nothing drawn stays unshown; what was erased is gone |
| configuration | `config.c` | `m8cconfig.ini`, `conf` | `init_config`, `read_config`, `write_config` | the program runs with what the user wrote into the file, after any number of starts, but for the names in section 6 |
| INI reader | `ini.c` | the text, cut up by zeros | `ini_load`, `split_data`, `ini_get` | it finds in the text what a reader of it would |
| text | `inprint2.c` | the colour of the font, that of the last text | `prepare_inline_font`, `inprint` | no text has the colour of an earlier one |
| screensaver cube | `fx_cube.c` | a cube | `fx_cube_init`, `fx_cube_update` | only its texts are modelled: the cube is floating point drawing that nothing reads |
| libserialport back end | `serial.c`, `audio.c` | | not modelled: not compiled with `USE_LIBUSB` | |

How they meet: `callback` feeds the bytes of a serial transfer to the SLIP
decoder, which calls `pullCommand`; the main loop pops and draws.  `cb_xfr`
pushes audio into the ring buffer, `audio_callback` pops it.  `main()` is the
only one that writes to the M8, and waits for the USB thread to complete each
write.  `callback` may store `run` and `port_inited`, as `main()` does.

What is hard here: the queue of commands has no lock and no test for "full"; the
ring buffer is tested outside its mutex; `run` is stored by a signal handler
and by `main()`; a device may disappear at any time; libusb may fail half way
through an initialisation; the write path blocks on another thread; input
state is built from single events, and three kinds of values share one
variable; the INI reader cuts its text up in place.

## 2. The modules

| module | models | correspondence |
|---|---|---|
| `ByteFifo` | what the ring buffer promises | a sequence of bytes; `Push` appends what fits, `Pop` takes from the front, both fail with -1 on a full or empty buffer |
| `RingBuffer` | `ringbuffer.c` | a call is: unlocked test and entry (`PushCall`), `pthread_mutex_lock` (`PushLock`), the copy in one or two pieces (`PushCopy`), cursor, size and unlock (`PushStore`); `pop` likewise. `IsFifo` maps the `size` bytes from `head` to the sequence of `ByteFifo` |
| `MCRingBuffer` | packets and pop lengths for TLC | |
| `Slip` | `slip.c` | operators that prime the decoder's variables, one per function and per `case` of its `switch` |
| `FrameChannel` | what the link promises | messages are carried byte by byte, delivered whole, or garbled after a loss |
| `SlipLink` | encoder of the M8, lossy transfers, `callback` | `Feed` is one turn of the `while` in `callback`; `Lose` is a byte in a transfer that is submitted again unread |
| `MCSlipLink` | messages for TLC | |
| `CommandQueue` | `pullCommand`, `popCommand` and the drawing loop | each access to the arrays, the cursors and the heap is a step, as is the poll of the input between two bursts (`PollInput`); `pending` are the stores the other thread does not see yet; `ordered` and `reader.early` are history: all stores so far were seen in program order, and the command in hand was read before it was stored |
| `UsbAudio` | `usb_audio.c` | instantiates `ByteFifo` for the ring buffer, which `RingBuffer` is shown to implement; `LevelLow` and `LevelHigh` are the two readings of its size in `cb_xfr`; `audio_init` is `Call`, one step per libusb call that may fail, and `OpenAudio`, `CreateRing` and the first submissions |
| `Lifecycle` | `main()`, `intHandler`, the status part of `callback`, `usb.c` | `pc` is the place in `main()`; places `E1 R1 R2 E2 R3 C D` are writes of these letters; `submitted` is a write that waits in `bulk_transfer`; at `free` the main thread frees `serial_buf`, at `quit` it leaves; `faulted` is history: one of the faults of section 5 has happened. `Cleanup` may crash: what `audio_destroy` does is `UsbAudio`'s |
| `BulkTransfer` | `bulk_transfer`, `xfr_cb_in` | extends `Lifecycle`: the two steps of a write become the loop of the waiter (test, lock, test again, wait), `completed`, and the USB thread as the one that handles events or waits. `IsLifecycle` maps it back |
| `Input`, `MCInput` | `input.c`, the `switch` of the main loop, the events of the loop that waits for the M8 | bytes are sets of bits, since `keycode` is used with `\|=`, `&= ~` and compared with notes and message numbers; `MCInput` has keys of the default configuration; `down` and `disturbed` are history: the keys held as of the events taken, and what has happened of the things the properties except |
| `Display` | `process_command`, `render.c`, `inprint2.c`, the texts of `fx_cube.c` | one action per kind of packet, `Render` is `render_screen` after the inner loop; the canvas is a function from a few places (columns of the strip of the waveform, the two corners of the overlay, the edge beside one) to what is seen there; `pal` and `previous_fgcolor` are those of `inprint2.c` |
| `Ini` | `ini.c` | recursive operators on sequences of characters, one per function: `split_data` returns the strings it leaves in the text, `ini_get` walks over them |
| `IniFile` | what `write_config` and a user write | the text of a file: sections, keys and values with blanks, quotes and remarks; extends `Config` and `Ini`, and checks with `TextSaysFile` that the text read back is what `Config` says, `ReadBack` included |
| `Config` | `config.c` | a file is a function from its entries to texts; `ReadFile`, `OpenForWrite` and `Write` are the steps of `read_config` between which the program can be killed; the constant `ReadBack` is what the reader makes of a name that `write_config` wrote; `Leave` is the user with an editor |
| `MCConfig` | texts and defaults for TLC | |
| `SlipLinkProofs`, `CommandQueueProofs`, `RingBufferProofs`, `ConfigProofs`, `DisplayProofs`, `LifecycleProofs`, `UsbAudioProofs`, `InputProofs` | proofs | `LifecycleProofs` is about `Lifecycle` and `BulkTransfer` |

Definitions keep the names of the source.  Definitions marked "Mutant:" are not
part of a specification: each is a plausible slip in the definition that
follows, and is there to show that a property would notice it.

## 3. What is checked

| run | shows | bounds, and why they are enough |
|---|---|---|
| `ring_buffer` | `RingInv` (mutual exclusion, `tail = head + size`, copies in progress), `TestStaysGood`, refinement `IsFifo`, `CallsReturn` | 3 bytes of buffer, packets up to 3, pops up to 4 bytes, two byte values: full, empty, wrap exactly at and across the end, cut packets and short pops all occur |
| `slip_link` | `LinkInv`, refinement `IsChannel`, `KeepsDelivering` | messages up to the 3 bytes of the buffer, with END and ESC in them, up to 3 lost bytes: each state of the decoder meets each kind of byte, and the buffer overflows when an END is lost and frames run together |
| `slip_broken` | violation of `CompletePackets`, see section 6 | as `slip_link` |
| `command_queue` | `QueueInv`, `DrawsNext`, `NoLeak`, `AllShown` | 3 slots, 8 packets: two and a half laps, with the writer any distance ahead and its stores visible in any order |
| `lifecycle` | on `BulkTransfer`: refinement `IsLifecycle`, `NothingElseBlocks`, `WriteReturns`, and of what it refines `LoopReady`, `StartedOnce`, `WriteIsServed`, `CrashesAtExit`, `QuitEnds`, `PollsFind` | both values of `wait_for_device`, two unpluggings, a counter of empty packets up to 2, failures of `initialize_sdl`, `init_interface`, `SDL_CreateThread` and libusb's event handling; the rest is finite by itself |
| `lifecycle_unplugged` | violation of `DisconnectDetected`, see section 6 | without faults of SDL and libusb, one unplugging |
| `input` | `ButtonsAgree`, `NoHangingNote` | seven sets of at most four keys, pressed in the main loop and before it, chosen so that every kind of key is in one: the four buttons of the chord, special messages, notes with ESC, the octave, up before any note and down while one sounds, the velocity; one has the lowest note, the octave, ESC and a button, which together reach the byte 0. One event in the queue: a longer queue only delays events, as SDL hands them out in order |
| `input_quit` | violation of `QuitObeyed`, see section 6 | one button and a window close |
| `usb_audio` | `RingOutlivesPlayer`, `StartsFilled`, `PlaysAgain` | any call of `audio_init` fails or not; 2 transfers of 2 packets of 1 or 3 bytes, a buffer of 16 bytes, one error: the level crosses both thresholds in both directions with `audio_destroy` at every point |
| `usb_audio_packets` | violation of `PacketsOutliveTransfers`, see section 6 | as `usb_audio` |
| `config` | `SettingsKept`, `OwnFileReadable`, `TextSaysFile` | one entry of each kind and a key, each absent or with any of its texts, in a file of one of four styles; names with quotes inside, with quotes around, with a blank before, with neither, and one that does not fit the line. Entries of a kind are treated alike, and no entry looks at another except the keys at the device name |
| `display` | `ShownUnlessDirty`, `ClearedIsClean`, `OverlayRemoved`, `TextColored` | a strip of two columns, which is enough for a waveform to shrink and for a single sample that draws nothing; one colour besides the waveform, the overlay and the texts, since a second one only takes part in what these already do; three colours of the font, so that one is neither the first nor white; any number of packets |

`NothingElseBlocks` says with `ENABLED` that nobody is stuck: it names all that a
thread of the life cycle waits for, and says that elsewhere it can go on.  It is
what the liveness properties need besides fairness, and the hypothesis of the
theorems about them.

Each module has one type invariant, checked in its run.  `CHECK_DEADLOCK` is off
where the system may stop: the program ends, the packets of a bounded run are
used up, the main loop was left.

### Fairness

* `RingBuffer`: strong fairness for taking the mutex, weak for going on while
  holding it.  Each thread holds it for a copy of some hundred bytes and then
  waits for milliseconds, so a waiting thread finds it free again and again, and
  a futex wakes a waiter.
* `SlipLink`: the USB thread goes on feeding the bytes that arrive.  Nothing
  forces losses, and they are bounded by `MaxLosses`.
* `CommandQueue`: neither thread stops inside a call and the main loop comes
  back every `idle_ms`.  The M8 need not send.  `AllShown` rests on bursts that
  end, here because the packets are counted: nothing in the inner loop of
  `main()` bounds it, and no property says that the input is polled.
* `Lifecycle`: the main thread does not stop; a poll that is repeated while the
  M8 is plugged in succeeds at some time (strong fairness of `PollFound`);
  libusb reports the failed read of an unplugged device; the USB thread sees
  `do_exit` after `libusb_close` has woken it.  The user owes nothing.
* `BulkTransfer`: libusb completes or fails a transfer that was submitted and
  wakes the waiters (strong fairness, since handling events is interrupted
  again and again by the locks).  That the USB thread comes back from
  `libusb_handle_events` by itself, after 60 seconds, is relied on only at the
  end, when nobody wakes it.
* `UsbAudio`: transfers in flight complete, and SDL calls back unless paused.

## 4. What is proved

TLC checks the instances above; these theorems hold for every value of the
constants that satisfies the assumption named in the module.

* `SlipLinkProofs`: `InStepAlways` (`LinkInv` is an invariant) and
  `LinkImplementsChannel` (`SlipLink` implements `FrameChannel`).  `LinkInv` is
  inductive as it stands: for a frame without loss, the buffer is the part of
  the message that was sent, and the decoder's state says whether the encoder
  is inside an escape.  The refinement maps each `Feed` to a step that carries
  a byte, delivers or garbles.
* `CommandQueueProofs`: `QueueHolds`, `DrawsInOrder`, `NothingLeaks` and `ShowsAll`,
  for any length of the queue, any order in which stores become visible, and however
  far the M8 gets ahead: `DrawsNext` says that being lapped and reading too early
  are the only two ways to draw a wrong command.  The code prevents neither, and
  both happen in the model; the second only once `ordered` is lost.  `DrawsNext` is far from inductive:
  `QueueInv` adds where the cursors are, in which order the stores of a call
  become visible (`StoreInv`), that a slot only holds packets whose number is the
  slot's modulo `command_size` (`SlotInv`), that each of the last `command_size`
  packets is allocated and in its slot once stored (`RecentInv`), and what the
  main thread has read of a packet so far (`ReaderInv`).  The key step: the slot
  a packet goes to belongs to none of the `command_size - 1` packets before it,
  since two numbers less than `command_size` apart have different remainders
  (`SlotsApart`).  `NothingLeaks` needs no bound on the backlog either: the pointer
  that is freed is the slot's own (`LeakInv`).  `ShowsAll` says that the main
  loop shows all that was queued whenever it shows anything: the test of
  `popCommand` that ended the burst has found the queue empty.
* `RingBufferProofs`: `RingHolds`, `TestHolds`, `RingImplementsFifo`.  `RingInv`
  adds to the index equation what is true between the two steps of a copy: a
  push has its bytes in free slots, a pop has a copy of the oldest bytes, and
  nobody else changes `size` meanwhile.  A push's test stays good since only
  the pusher makes `size` grow; the pop's since only the popper makes it
  shrink.

* `ConfigProofs`: `ConfigTyped`, `SettingsSurvive` and `OwnFilesAreRead`.  `SettingsKept` speaks
  of `conf`, which dies with the program; `FileInv` says the same of what the
  file says while nothing runs.  The key step is `WrittenAcceptable`: writing
  settings and reading them back keeps them, or makes a name one of those it
  `Becomes`, a set that is closed under being written and read (`BecomesMore`).
  What a name becomes is a constant, `ReadBack`: the theorems hold whatever it is.
* `DisplayProofs`: `DisplayTyped`, `NothingUnshown`, `ClearedStrip`,
  `HiddenOverlay`, `TextInColor`.
  `ClearedIsClean` only speaks of a cleared strip; `StripInv` bounds what is on
  it by the remembered size at all times, and `OverlayInv` says where the
  overlay is while it is shown.  `ClearedStrip` has two provisos, `narrowed` and
  the background that is not yet known, and `HiddenOverlay` one, `moved`: without
  them the code does leave something, see section 6.
* `LifecycleProofs`, on `Lifecycle`: `LifeTyped`, `LoopIsReady`, `NothingTwice`,
  `WritesAreServed`, `OnlyTheExitCrashes`, with any number of unpluggings and
  faults.  `LifeInv` adds to its type: an open device has one USB thread, unless
  `init_interface` or `SDL_CreateThread` failed on it (`ThreadInv`); the thread only
  ends when told to, after the D (`ExitInv`); the M8 took an E on the way to the
  places behind it (`EnabledInv`); the places before a start are not reached
  again, since `run` is not `WAIT_FOR_DEVICE` after one (`CallsInv`); and a write
  before the clean up has an open handle (`HandleInv`), which is why only the
  clean up can crash.
* `LifecycleProofs`, on `BulkTransfer`: `BulkTyped`, `BulkKeeps`, `NoWakeUpLost` and
  `BulkRefines`, that `BulkSpec` implements `Lifecycle`'s `Spec` (`IsLifecycle`
  without its fairness).  `WaitInv` adds to `LifeInv` that the main thread waits
  exactly while its write is out, and that until it has seen a completion the
  M8 keeps the state it took with it.  `WakeInv` is why no wake-up is lost: a
  completion that comes between the last test of `completed` and the sleep is
  still to be followed by a wake-up, since the USB thread needs the lock for it.
  It is the safety part of `WriteReturns`.  Each step
  is a step of `Lifecycle` on the mapped variables or none (`RefinesStep`): storing
  `completed` is the end of the write (`Completion`), the return of the main thread
  is none (`Return`), and what the user and the read do is the same whether it has
  returned (`SameOutside`).
* `InputProofs`: `InputTyped`, `ButtonsFollow`, `NoNoteHangs`, for any keyboard in
  which a key is one button, or those of `key_delete`, or none.  `ButtonsAgree`
  is not inductive, as it says nothing while keyjazz is on.  `ButtonInv` adds what
  `prev_input` holds, also during the chord, which leaves the number of its
  message there, and `WaitInv` that nothing was sent before the main loop.  `JazzInv` says what has to be true while keyjazz is on for the
  buttons to agree when it is switched off: `keycode` has no bits but those of the
  keys that are down, and `prev_input` is not by chance what ESC will send.
  `NoteInv` says that the note that is on is `prev_note` and the byte of a key
  that is down, by which its release will be recognised.
* `UsbAudioProofs`: `AudioTyped`, `RingIsThere`, `PlaysFilled`, the last an action
  property.  `AudioInv` adds: until the ring buffer is there, no transfer is out
  and the device is paused (`SetUpInv`); where `audio_init` and `audio_destroy` are
  sure of ring buffer and device, above all that the device is closed, which
  waits for the audio thread, before the ring buffer is freed (`PlaceInv`); and how
  much a callback may take between the decision to play and the call (`PlayInv`).

### Liveness

The temporal prover knows the rules of weak and strong fairness, but no prover
here can evaluate `ENABLED`.  So those of these theorems that use fairness have the
form `FairSpec /\ []P => Liveness`, where `P` says which actions are enabled in which
states.  `NothingElseBlocks` is an invariant of the run `lifecycle`; the one of the
ring buffer, `OnlyMutexBlocks`, is stated in `RingBufferProofs` and only repeats the
guards of the actions.  All the rest, who moves on, who cannot move back, and which step of one thread leaves the other
where it is, is proved for every value of the constants.

* `CallsDoReturn` (`CallsReturn`, from `OnlyMutexBlocks`): in `copy` and `store` a
  call goes on by weak fairness and nobody else moves it; so the mutex is free
  again and again, and by strong fairness a thread in `lock` gets it.
* `WritesReturn` (`WriteReturns`, from `NothingElseBlocks`), in three parts.  A
  write that is out is completed, as the USB thread handles events unless it
  has to wait for the lock (`WriteCompletes`).  A waiter that is not asleep and
  whose write is complete finishes at its next test.  One that is asleep has a
  wake-up ahead of it (`WakeInv`, of the safety part): the USB thread gets the
  lock, which nobody holds, and broadcasts (`WakeEnds`).
* `QuittingEnds` (`QuitEnds`, from `NothingElseBlocks`): `pc` only moves forward
  from `cleanup`; the D is a write, and returns; then `do_exit` is set, and the
  USB thread, wherever it is, comes to its test and ends (`ThreadEnds`), so that
  the join returns.
* `PollsDoFind` (`PollsFind`, from `NothingElseBlocks`): polling and being plugged
  in are stable until the M8 is unplugged or found, or `run` stored, and each of
  them is one of the ends `PollsFind` allows.
* `DeliversAgain` (`KeepsDelivering`): from any state of encoder and decoder, the
  first END that arrives after the last loss ends the damage (`LinkInv`, which
  has the decoder in step after an END), and each END after it delivers a whole
  message.  It assumes that bytes arrive and that messages end; in `slip_link`
  the fairness of `Feed` and the lengths of the messages give both.

Only model-checked:

* `AllShown`, that every burst ends when the packets do, and `PlaysAgain`, that the
  ring buffer is filled again: both count, packets or bytes, and the prover has
  no induction for temporal formulas.
* The fairness in `IsLifecycle`: that the fairness of `BulkFairSpec` implies that
  of `Lifecycle` under the mapping is about `ENABLED` of the mapped actions.
* `NothingElseBlocks` itself, as said.
* `TextSaysFile`, what the INI reader finds in a text: its loops are recursive
  operators over the text, and their result is a matter of induction over data.
  With it goes what `ReadBack` is: the theorems of `ConfigProofs` take any.

## 5. Assumptions of the models

* Cursors are natural numbers: `writeCursor` is an `int` that overflows after
  2^31 packets, weeks of traffic away.
* `command` and `command_sizes` come zeroed from `malloc` (they are large enough
  to be fresh pages); if they did not, `free` would get garbage at once.
* `CommandQueue`: plain `int`s on ARM promise no order between the stores of
  `pullCommand`, so they become visible in any order; `ordered` remembers whether
  it was that of the program.  The stores of one call are visible before the
  next call stores: in between `pullCommand` calls `free` and `malloc`, which take
  a lock.
* `Lifecycle` names four faults: `initialize_sdl` fails, `init_interface` fails on an
  open device, `SDL_CreateThread` returns no thread, `libusb_handle_events`
  returns an error.  `faulted` remembers the last three, after which a write may
  wait for ever; `WriteIsServed` and `QuitEnds` except them.
* `Lifecycle` ends where `serial_buf` is freed.  `Cleanup` is one step: it crashes
  when audio was never set up, and otherwise goes on or crashes, since
  `audio_destroy` may free what libusb still uses (`UsbAudio`).
* `conf.audio_enabled` is always 1: `init_config` sets it and `read_audio_config`
  (config.c:171-176) sets 1 for every value.
* A key's kind (with or without ALT) is fixed.  `ButtonsAgree` speaks of users
  whose keys have different buttons (`OneKeyEach`): of two keys of one button the
  release of either clears the bit, as the code has it.
* `Input`: SDL hands out every event while the program waits for the M8; when the
  M8 is found is left open (`Found`), `Lifecycle` has what leads to it.
* `Config`: no device name is empty, blank or `Default`, nor becomes so by losing
  its quotes, and none has a newline in it.
* `Config`: the user edits the file while the program does not run.  All lines
  of the file fit into one buffer of stdio, so they are written or not written
  together.
* `Display`: a rectangle or a character covers a place or does not touch it;
  a larger or partial one is a sequence of such.
* The last column beside the lower corner stands for that beside the upper one.
  The lines of the cube lie between the places.
* `Display`: the name of the hardware, which `SystemInfo` takes from an array of
  three with a byte of the M8 that is not tested (command.c:154), is only logged,
  and left out.
* `UsbAudio`: `cb_xfr` may be called back after `audio_destroy`; that it then pushes
  into a ring buffer that was freed, and frees packets again, is in the model, its
  effect on the heap is not.
* `Ini`: a word stands for all spellings of it in upper and lower case.  No text
  of the run has an entry without a name (`=value`): the reader takes its value
  for the next key, and so on to the end of the file.

## 6. Where code and comments disagree

Shown by the runs that expect a violation:

* `slip_broken`: after an unknown escape or an overflow the decoder resets its
  buffer but goes on with the rest of the frame, which it hands over at the END
  as if it were a packet (slip.c:103, main.c:155-156 "the function where
  complete slip packets are processed further").
* `lifecycle_unplugged`: `zerobyte_packets` is "used to detect device
  disconnection" (main.c:31), but an unplugged M8 makes reads fail, and the
  branch for failed reads (main.c:67-72) returns before the counter; moreover
  `check_serial_port` always answers yes.
* `input_quit`: "Handle SDL quit events (for example, window close)"
  (input.c:238), but `prev_input` (main.c:295) is shared with buttons: a quit
  message has the value of the edit button and is dropped after it.
* `usb_audio_packets`: "exit, clean up" (main.c:329), but `audio_destroy` frees the
  packets right after `libusb_cancel_transfer` (usb_audio.c:170-174), which only
  asks for the end: their transfers are still to be called back, and `cb_xfr`
  frees them a second time when a transfer cannot be submitted again.

Met while modelling, and visible in the models without a run of their own:

* `pullCommand` never looks at `readCursor`.  An M8 that is `command_size`
  packets ahead frees the buffer that is being drawn (`Lapped`).
* Nothing orders the stores of `pullCommand` for the main thread: a slot may be
  read before it is filled (`reader.early`).
* The inner loop of `main()` (main.c:316) ends only when the queue is empty: as long
  as packets come faster than they are drawn, the input waits.
* `main()` overwrites a `QUIT` that was stored just before main.c:194, 200 or
  244, by `intHandler` or, at the first two, by its own reaction to a failed
  `initialize_sdl` (main.c:179-180): the program goes on.
* A program that quits while it waits for the M8 calls `audio_destroy` with
  nothing set up, and crashes (`Cleanup`).
* When the M8 opens at the start but does not take the first write,
  `port_inited` stays 1 and the wait loop never polls (`PollsFind` excludes it).
* The result of `SDL_CreateThread` is not looked at (usb.c:158): without a thread
  the first write waits for ever (`faulted`).
* After a failure in `init_interface` the handle stays open, the next
  `init_serial` succeeds without a USB thread, and `bulk_transfer` waits for
  ever (`WriteIsServed` excludes it by `faulted`).
* A special message leaves its number in `keycode` as buttons (`ButtonsAgree`
  excludes it by `"special"` in `disturbed`); so does a note when ESC is pressed
  during it, and the note hangs (`"meaning"`).
* A note whose byte is what ESC sends next, 0 with the lowest note of octave 0,
  hides a button: with edit held and keyjazz on, play that note, release it and
  edit, and switch keyjazz off.  `prev_input` is 0 already, so nothing is sent,
  and the M8 keeps edit held until the next change (`"byte"`).  No test of a few
  keys had shown it: the attempt to prove `ButtonsAgree` did.
* `SDL_PollEvent` may leave the last event on the stack, and it is handled again
  (`StaleEvent`): a press of ESC may toggle keyjazz several times.  The buttons
  and notes survive this, as `input` shows.
* A callback that comes after `audio_destroy` pushes into a ring buffer that was
  freed (`RingOutlivesPlayer` excepts it).
* The result of `SDL_OpenAudio` is ignored: without a device the program runs on
  and pauses and starts a device that is not there.
* When the M8 does not take the D, `disconnect` returns at once, the USB thread
  runs on, and `main()` frees `serial_buf` under a read that is still
  submitted.
* Quitting may take 60 seconds: when the USB thread has tested `do_exit` just
  before it is set, it comes back from `libusb_handle_events` only after its
  time limit.
* A `config.ini` without `fullscreen` crashes every start (`ReadFault`), since
  `read_graphics_config` does not test that one for `NULL`.
* `audio_enabled=false` is read as 1 and written back as `true`.
* A device name of more than 30 characters is cut and takes the keyboard
  section with it at the next start (`Renamed`).
* `write_config` empties the file before it writes it: after a kill or with a
  full disk the next start has the defaults (`lost`).
* "it's already been cleared" (render.c:180) is not so when the size of the
  waveform has shrunk before (`narrowed`), or before the first background,
  whose alpha is 0: a part of the waveform stays.
* The overlay stays when the font changes while it is shown (`moved`); its first
  character is drawn uninitialised (render.c:277), and what of that goes beyond
  the 45 columns that hiding paints stays as well.
* `prepare_inline_font` sets the colour to white and leaves `previous_fgcolor`:
  text of the same colour as the last one is white after a change of the font
  (`TextColored` admits it).
* `write_config` writes a device name as it is: one that begins with a quote, or
  begins or ends with a blank, is read differently at the next start
  (`Renamed`; `Becomes` says as what).
* `read_config` asks for the working directory and overwrites it with `m8c`:
  the file is `m8cconfig.ini` in the directory the program is started from.

## 7. Plan

Done in this order, most important first: the ring buffer and its proofs, the
SLIP link and its proofs, the command queue and its proofs, the life of the
program, input, audio, the configuration, the display, the failures of `audio_init`, the writes of
`BulkTransfer`, the INI reader, text.

Left for later:

1. A composition of the SLIP link, the queue and the display: what the M8 sent
   is on the screen.
2. Lemmas about the functions of `Ini` that do not recurse, in a module without
   those that do.
