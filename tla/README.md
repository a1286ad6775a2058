# A TLA+ model of the Pico W CO2 sensor firmware

These modules model the firmware in `app/`: four FreeRTOS tasks, the lwIP
callbacks, the connection pool behind them, the watchdog, the boot, the sensor's driver
with its checksum, and the display from the frame buffer to the panel. TLC checks them on small
instances; TLAPS proves the central theorems for every value of the constants.

    tlc -workers 2 -config Firmware.cfg MCFirmware
    tlapm FirmwareProofs.tla

## 1. Inventory

| part | sources | its state | operations | interacts through |
|---|---|---|---|---|
| boot | `main.c`, `init_i2c`, `i2c_scan`, `oled_init`, `fb_init` | messages in `log_queue`, the tasks created | one pass through `main()` | `u_log` before the scheduler runs |
| reading task | `read_data_task.c` | newest sample | initialise, poll, measure, publish, delay | `display_queue`, `network_queue` |
| display task | `update_display_task.c` | `display_on`, `receivedCommand`, the drawing | wait for a command, carry it out, wait for a sample, draw | notification, `display_queue`, the OLED |
| network task | `network_task.c` | `tcp_pcb`, the sample in hand, the watchdog | receive, lock, send or reconnect, unlock | `network_queue`, the lwIP lock |
| lwIP callbacks | `network_task.c` | the connection blocks and `tcp_pcb` | connected, sent, received, error | run in an interrupt; `xTaskNotify`, `u_log`, `vTaskDelay` |
| log | `logging.c` | `log_queue` | `u_log` in every context, `udp_log_task` | blocks its callers; the lwIP lock |
| SCD40 driver | `scd40.c`, `i2c.c` | none; the sensor keeps its mode | stop, reinit, altitude, start, ready, read | the I2C bus, `vTaskDelay` |
| CRC and framing | `i2c.c` | the receive buffer | check and compact a frame in place | the driver |
| frame buffer, drawing | `framebuffer.c`, `display.c` | 1024 bytes | pixels, texts, bars | the display task |
| panel | `ssd1306.c`, `display.c` | none; the panel keeps its windows | commands, frames | the I2C bus |
| font, build and configuration files | `font8x8_basic.h`, `CMakeLists.txt`, `config/` | - | - | - |

What is hard here:

- every context may block in `u_log`, callbacks in an interrupt included
  (`logging.c:63`), and the one task that empties the queue has the lowest
  priority, needs the lwIP lock, and stops the kernel when a send fails;
- the lwIP lock keeps callbacks out but not the other task, because it is
  recursive and owned by the core;
- two queues drop samples independently, and a reset comes at any moment;
- commands overwrite each other, and the display task's start-up overwrites
  the flag they set;
- the sensor and the panel keep state the firmware cannot read: a reset of the
  board, a lost byte or a short delay leaves them in a state the code must get
  them out of;
- `tcp_pcb` is one pointer for a pool of blocks: attempts are overwritten
  before they are over, and ended ones are still pointed to;
- `main()` logs while nothing empties the queue.

The hazards are listed one by one, at their lines, in `PROJECT.json`. The
repository has no tests and two documents, `README.md` and the comments.

What makes each part correct:

- *log*: a full queue is drained unless the system is stopped for a reason the
  model names (`Stopped`); the tasks never all wait for each other.
- *samples*: each consumer sees the samples in order, each at most once, and
  loses one only where the code gives one up.
- *commands*: the display ends in the state the last command asked for.
- *lock*: no callback interrupts a task that took the lock, or puts it to
  sleep. The first attempt to connect takes none; of it only the last step,
  `tcp_connect`, can be interrupted.
- *connections*: samples go to a live connection; one that is up is given up
  only after the error of some connection, possibly an older one; after a
  break the task is connected again.
- *watchdog*: whatever stops the firmware, it is armed by then, except while the
  network task starts; it does not reset a board whose rounds bring samples.
- *boot*: it ends, or wedges only with a number of messages that can be named.
- *sensor*: when polled it measures, as configured; no sample counts twice; it
  has the time it needs, up to a tick.
- *frames*: no word that failed its check, and no word in the wrong place,
  becomes a sample.
- *drawing*: no store leaves the buffer; a pixel is a pixel; nothing is drawn
  off the screen.
- *panel*: it shows the last frame; after lost bytes its memory recovers, the
  first row it shows does not always.

## 2. Modules

| module | models | of |
|---|---|---|
| `Kernel` | priorities, blocking, delays, notification, queues, the lwIP lock, `u_log` | FreeRTOS and lwIP as the code uses them; `logging.c` |
| `UdpLogTask`, `ReadDataTask`, `UpdateDisplayTask`, `NetworkTask` | one task each, an action per step between two blocking points; `NetworkTask` also the callbacks' messages, delays and notifications | the task's file |
| `Firmware` | their composition, the watchdog's reset, properties, fairness | `main.c` |
| `SampleFeed` | the abstract promise to a consumer of samples; `Firmware` refines it twice | - |
| `Reading` | the rounds in which samples are taken; `Firmware` and `Scd40` both refine it | - |
| `Answer` | a reading call of the driver: all the words as sent, or none; `I2cFrame` refines it | - |
| `Boot` | `main()` up to the scheduler | `main.c`, `i2c.c`, `ssd1306.c`, `framebuffer.c` |
| `TcpClient` | the pool of connection blocks and `tcp_pcb` | `network_task.c` |
| `Scd40` | the driver and the sensor | `scd40.c`, `read_data_task.c` |
| `Watchdog` | `Scd40` with the time since the watchdog was fed | `network_task.c`, `read_data_task.c` |
| `Crc8`, `I2cFrame` | the checksum; the in-place check of a frame | `i2c.c` |
| `Display` | one drawing call after another on a frame buffer | `display.c`, `framebuffer.c` |
| `Screen`, `Panel` | what a value draws; the writes to the panel, any of them lost | `update_display_task.c`, `display.c`, `ssd1306.c` |
| `MC...` | values of constants for TLC | - |
| `...Proofs` | theorems and proofs | - |

How state and actions correspond to the code in the core:

- `pc[t]` is the place of a task between two points where it may lose the core;
  `owe[t]` is the number of `u_log` calls it still has to make before it goes
  on. An action `Goto(t, from, to, n)` is the code from one such point to the
  next, with the `n` messages it logs, and `ULog` puts one message of a context
  into the queue or keeps it waiting. The text of a message is abstracted.
- Samples are numbers in the order they were measured. `InHand` is a sample
  between `xQueueReceive` and its drawing or sending.
- A callback is the interrupt context `"lwip"`: it starts when no task holds
  the lock (`LwipMayRun`), and while it is active no task runs. Before the
  first `tcp_connect` there is no connection to call back; from then on the
  model leaves open which callbacks a connection can have in its state, so it
  has more of them than lwIP.
- In `TcpClient` a call or a callback is one step, since the task's calls run
  under the lwIP lock (`LwipExclusion`). The first attempt does not, but a
  callback can interrupt only its `tcp_connect`, after which it touches nothing
  of this file's state. `NetworkTask` leaves open whether a try finds a
  connection, and which one a callback is about.
- `DispDraw` counts a sample as shown once it is drawn and `fb_show` was called,
  even if writes of the frame failed: what `DisplayInOrder` says of losses
  reaches as far as the drawing, and `Panel` goes on from there. In the same way
  `LastCommandWins` is about `display_on`; whether the brightness writes reached
  the panel is a matter of `Panel`.
- `Reset` starts `main()` over. What reached the screen or the server stays.
- The reading task is modelled twice: in `ReadDataTask` each driver call is one
  step with any outcome, among the other tasks; in `Scd40` it is the driver's
  code against a sensor, alone. `Reading` is what the two have in common, and
  both are shown to implement it. In the same way `Scd40` takes an answer to
  arrive as sent or to fail, and `I2cFrame` is shown to implement that (`Answer`).

Decisions about what is not in the repository:

- One core, fixed priorities with preemption, time slices between equals
  (`FreeRTOSConfig.h`, ARM_CM0 port).
- `pico_cyw43_arch_lwip_threadsafe_background`: callbacks run in the
  lowest-priority interrupt and are deferred while the lwIP lock is held. The
  lock is recursive and its owner is the core, so a second task enters it.
- `u_log` in a callback on a full queue waits inside the interrupt: nothing but
  the watchdog ends it (`Frozen`).
- `vTaskDelay` in a callback delays the task that was interrupted. If that was
  the idle task the kernel may or may not survive (`halted' \in BOOLEAN`).
- The RP2040's watchdog holds 24 bits and counts two for each microsecond, and
  `watchdog_enable` cuts a longer time to that: the 40000 ms of
  `network_task.c:20` are 8388 on the chip (`WATCHDOG_COUNTER_MS`).
- A task function that returns stops the kernel: the port disables interrupts
  and spins (`halted`).
- `u_log` on a full queue before the scheduler runs never returns
  (`"wedged"`). A write through a null frame buffer is a fault.
- The SCD40 takes only stop, ready and read while it measures; a command that
  it does not take is reported by `i2c_write`. It keeps its state when the
  board is reset. `vTaskDelay(n)` ends at the n-th tick interrupt.
- lwIP has 5 blocks (its default; `lwipopts.h` does not set the number). A freed
  block keeps its state field until it is used again. When all are in use,
  `tcp_new` aborts one that waits for the last acknowledgement and calls its
  error callback, which is `tcp_error_callback` and calls `tcp_client_init`
  in turn (`Reenter`). lwIP gives up a block without an answer after its
  retries, and then calls the error callback of an established one; a block
  that never came up has none, because it is registered in
  `tcp_connected_callback`. It calls the connected and receive callbacks with
  `ERR_OK` only, so the branches for other errors are never taken
  (`NetworkTask` allows the message of one all the same).
- The SSD1306 takes a byte as the argument an earlier command still expects,
  whatever it was meant to be, and a byte it takes for a command it obeys: 127,
  the last column, then sets the start line. `oled_init` is taken to have
  succeeded in `Panel` (its failures are in `Boot`).

Definitions marked *Used by a mutant only* are wrong variants of the definition
after them. Each property is broken by one of them; the pairs are listed in
`PROJECT.json`.

## 3. Runs

| run | instance | properties |
|---|---|---|
| `Firmware` (`MCFirmware`) | log queue 2, other queues 1, 2 samples, 1 failing write per frame, 1 reset; 3.3 million states | `TypeOK`, `LwipExclusion`, `LastCommandWins`, `SomeTaskRuns`, `OnlyNewer`, `StopsAreGuarded`, `DisplayInOrder`, `NetworkInOrder` (refinement of `SampleFeed`), `InRounds` (of `Reading`) |
| `FirmwareLiveness` (`MCFirmware`) | log queue 2, other queues 1, 1 sample, no reset; 106 thousand states | `LogDrains`, `SampleShown`, `CommandTaken` |
| `Boot` | the code's own 25 slots and 25 commands, 10 devices a bus, 1 reboot; 76 thousand states | `BootTypeOK`, `WedgedOnlyWhenCrowded`, `BacklogAtStart` |
| `Scd40` (`Watchdog`) | a tick in 3 parts, 3 samples; 6 thousand states | `ScdTypeOK`, `MeasuringWhenPolled`, `FreshOnly`, `AtMostATickEarly`, `BitesAfterFailure`, `InRounds` (refinement of `Reading`) |
| `Scd40Early` | `Scd40` alone, the same constants | `MillisecondKept`, violated |
| `I2cFrame` (`MCI2cFrame`) | frames of 1 and 3 words, all errors of up to 3 bits and all bursts of up to 8 bits in a word and its CRC; 309 thousand states | `FrameTypeOK`, `OnlyChecked`, `Uncorrupted`, `AllOrNothing` (refinement of `Answer`) |
| `Display` (`MCDisplay`) | 3 by 16 pixels, ADD and INVERT, coordinates around all edges; 2 thousand states | `DisplayTypeOK`, `NoStrayStore`, `PixelsExact` |
| `DisplaySubtract` | with SUBTRACT | `SubtractClears`, violated |
| `Panel` (`MCPanel`) | 2 CO2 values, any writes lost; 3.7 million states | `PanelTypeOK`, `NothingOffScreen`, `MemoryRecovers`, `Follows` |
| `PanelBar` | values up to 6500 | `BarFull`, violated |
| `TcpClient` | a pool of 4; 36 thousand states | `TcpTypeOK`, `WritesToLive`, `OnlyErrorsAbandon`, `ReportsResume` |
| `TcpClientResumes` | a pool of 3 | `MeasurementsAreSent`, violated |

Why the bounds are enough:

- A queue of one or two slots is empty, partly filled and full within a few
  steps, and boot leaves the log queue nearly empty or full
  (`MCBootMessages`). Two slots of the log queue are what the error callback
  needs to get through and delay a task; with one it would always block. With
  queues of one, the second sample is dropped while the first waits, for one
  consumer or for both. One reset lies between any two steps. Longer queues and
  more samples are covered by the proofs.
- One failing write per frame (`FRAME_WRITES`) is enough for the display task to
  block in the middle of a drawing; seven would only make it block more often.
- The sensor's durations are the documented ones. Three parts of a tick make
  a delay end early by one part, by two, or not at all.
- A pool of three or four blocks holds one in use, one that connects late and one
  that closes, and is exhausted within a few attempts; the safety properties are
  proved for every size.
- `Watchdog` stops counting the time at the timeout and the failed rounds at
  one, where `BitesAfterFailure` has its answer. The margin is small: with no
  round failed, the longest way between two feedings goes through the
  initialisation, its five seconds and the first sample, 7533 of the chip's 8388
  ms. A single failed round may use it up.
- Errors on the wire: the check's outcome does not depend on the word
  (`CheckIgnoresWord`), so two words are enough. The run takes errors of up to
  three bits and bursts in one of the words; that every error of an odd number
  of bits, of two bits or in a burst is caught, in any number of words, is
  proved (`DetectableCaught`). Errors the checksum misses are out of scope.
- The frame buffer needs more than one page of eight rows and a width that is
  neither a power of two nor the height.
- `Panel` starts the counter of frames over with every lost write, so two
  frames without a loss are found behind every state of confusion.

`CHECK_DEADLOCK FALSE` is set for `Firmware` (the kernel can halt) and `Boot`
(it ends); everywhere else deadlock is checked.

### Fairness

`FairSpec` assumes strong fairness for each task: the scheduler gives the core
to a ready task again and again, but its being ready is interrupted by
callbacks and by tasks of higher priority. Handlers and delays end. The
reading task sleeps at least a second after every round, which is long enough
for the others to run until each waits for something or sleeps (`PatientNext`):
a callback may have put one of them to sleep for longer. Without that a reading
task that never sleeps would starve them all. Nothing is assumed
of the sensor, the server, the network or the watchdog: a sample, a command, a
connection or a reset may never come.

`TcpClient` assumes that samples keep coming (a failed attempt is repeated at
the next one), that lwIP ends what it began (a connection attempt or a last
acknowledgement is answered or times out), and that an attempt comes through
now and then: `tcp_connect` sends and the server answers in time. Nothing makes
the server close or reset a connection.

### What the four violated runs show

- `DisplaySubtract`: `SUBTRACT` is documented as "Set pixel off, regardless of
  state" (`display.h:12`). It ANDs the byte with the pixel's own mask
  (`display.c:26`): the pixel stays, its seven neighbours are cleared. `main()`
  uses `ADD` only.
- `PanelBar`: "Adjust fill level if it exceeds the bar's width"
  (`update_display_task.c:75`) comes after the cast to `uint8_t`, so 6500 ppm
  fills one column.
- `Scd40Early`: "1ms duration" (`scd40.h:15,17,18`) is waited for with a delay
  of one tick, which may be over at once. `AtMostATickEarly` says how far it
  can go, in all delays of the driver.
- `TcpClientResumes`: "Measurements are sent to a server via tcp"
  (`README.md:10`). The result of `tcp_connect` is ignored
  (`network_task.c:67`). When it fails, the block it was given stays allocated
  and CLOSED, nothing will ever report it, and the attempt of the next sample
  overwrites `tcp_pcb` with another block (`network_task.c:51,147`). In the
  trace every block is left behind like this; then `tcp_new` returns NULL and
  nothing is sent any more, though attempts would succeed again and the
  watchdog is fed with every sample. A block that was overwritten while it was
  still connecting, came up later and stays up is used up in the same way.
  `ReportsResume` says that this exhaustion, by blocks in use that `tcp_pcb`
  does not point to, is the only way to fail.

## 4. Proofs

Each theorem holds for all values of the constants within their assumptions:
queue lengths of at least one, any size of the connection pool, any number of samples and resets, any screen
with a height in whole pages, any length of a frame, any division of a tick,
any set of `uint16_t` values.

- `FirmwareProofs`: `TypeOK` is not inductive, since `lwip_depth` must not go
  below zero. `IInv` adds `LockInv`: the depth is the number of tasks inside
  the lock, and the interrupt is idle unless it is zero. For `LwipExclusion`,
  `DelayInv` adds that no task asleep by a callback's delay has the lock, and
  `StartInv` where the network task is while a callback is active and until the
  watchdog is armed. `StopsAreGuarded` follows from `StartInv`, which also says
  that before any callback only the end of the log task halts the kernel.
  `CommandInv` says, at each place of the display task, what relates
  `display_on` to the pending, the taken and the last command, and gives
  `LastCommandWins`. `LogInv` says that the log task never owes a message, so
  that with a full queue it is the one that can run (`SomeTaskRuns`).
  `ReadingInRounds` maps the places of the
  reading task to those of `Reading`; all other steps leave them alone.
- `FeedProofs`: step by step, the firmware implements `SampleFeed` for both
  consumers, with the sample in hand and the queue mapped to `waiting`, given
  `HandInv` (a task has a sample in hand exactly at the places where it should).
  `OnlyNewer` is not inductive: the next sample in hand comes from the queue. Its
  strengthening `Ordered` says of the sample in hand and the queue together that
  each sample is newer than those before it and than the one delivered last,
  and none is newer than the newest taken. It is kept by every step of
  `SampleFeed`, so one lemma per abstract step serves both consumers, through
  the refinement: what the code drops, loses or clears is `Drop`, `Lose`, `Crash`.
- `BootProofs`: the queue holds the messages counted so far, at each stage.
- `I2cFrameProofs`: the checksum is affine, step by step through the shifts, so
  an error is caught on all words or on none, and one is missed exactly if its
  own bits form a word with its checksum. `DetectableCaught` shows that none of
  the errors an eight-bit checksum is chosen for is of that form. The bits of
  `ShiftByte` are written out as sums of bits (`ShiftByteBits`), which turns
  "missed" into eight equations over the 24 bits of a frame
  (`MissedCodeword`). Their sum is the parity of the frame, so no odd error
  satisfies them (`OddNoCodeword`, since the polynomial is divisible by x + 1);
  a burst leaves 16 of the bits zero (`BurstNoCodeword`), two bits all but two
  (`PairNoCodeword`). The loop invariant of the compaction: words in front of `j`
  are checked, those behind `i` untouched; it also bounds the accesses
  (`FrameTypeOK`). `Uncorrupted` and `AllOrNothing` assume that the CRC catches
  the wire's errors (`ErrorsCaught`), without which they would be false;
  `DetectableAllOrNothing` replaces this by an assumption on the wire alone
  (`DetectableOnly`), which the run's wire satisfies. In the refinement of `Answer` the loop stutters, and
  `Decode` gives the words only when all of them were checked.
- `DisplayProofs`: offset and bit of a pixel determine it, so a store changes
  one pixel; the offset of a pixel on the screen is inside the buffer.
- `PanelProofs`: every item lies on the screen for all 65536 values. `BarLimit`
  says how far the finding of `PanelBar` reaches: the bar is right up to
  6464 ppm, and 6465 is the first value that wraps. For
  `Follows`, `Synced` says what the parser expects and the windows hold after
  each write of a sequence none of which was lost. For `MemoryRecovers`,
  `Regaining` follows the two frames: the first brings the parser back into step,
  wherever it was, and the windows to the whole screen; the second finds both
  pointers at their start. The start line is 0 or 63, since of all bytes the
  program sends only 127 is a command that sets it.
- `Scd40Proofs`: an inductive invariant in four parts, for the sensor's
  configuration, for what its reply means at each place, for the samples
  (fresh means newer than all published), and for the time left (`BusyInv`).
  `TimeInv` bounds the time since the watchdog was fed by the place of the
  reading task: during the initialisation whatever happened before, and in the
  rounds after it by 7533 ms as long as none has failed. `DriverInRounds` carries over to
  `WdSpec` because the watchdog's clock restricts the driver and adds no step.
- `TcpClientProofs`: an outcome of `tcp_client_init`, re-entered or not, leaves
  `tcp_pcb` NULL or on a fresh attempt, and other blocks as they were. `BlockInv`:
  watched blocks are live, a live established block is watched, and if the block
  of `tcp_pcb` says it is established, it is live; a freed one that kept its
  state could break the last part, had lwIP not called the error callback.

Only model-checked: the four liveness properties (`LogDrains`, `SampleShown`,
`CommandTaken`, `ReportsResume`), since they need fairness, which is out of the
prover's reach. Every other property of a passing run is a theorem.

## 5. Not modelled

- Pixel shapes of glyphs and marks, the text of messages, the conversion of
  temperature and humidity: no property tells their values apart.
- Real time across the tasks, beyond the delays `Watchdog` counts: it has no
  callbacks, so neither the five seconds one may make a task sleep nor one that
  waits for a slot of `log_queue`. The comment at `network_task.c:20` calls the
  timeout 10 s, the value is 40000 ms and the chip waits 8.4 s;
  `BitesAfterFailure` holds for each of the three.
- What an interrupted `tcp_connect` does inside lwIP, in the first attempt, which
  takes no lock.
- How commands fall into TCP segments (`network_task.c:115`): a segment is one
  command. The contents of buffers, such as the terminator written behind a
  segment's last byte.
- In lwIP, whatever happens between its callbacks: its allocators, and a reset
  received by a block while that very block is aborted and taken again. The
  messages a re-entered error callback adds to one try of `tcp_new` are in
  neither `NetworkTask` nor `TcpClient`.
- Memory next to variables: `display_queue` copies `sizeof(int)` bytes of a
  `uint16_t`.
- Functions without a caller: `flash_display`, `set_page_start`, `set_column`,
  `display_set_orientation`, `fb_destroy`, `send_udp_message`.
- The font, the build files and the library options.

`NetworkTask` needs no proof against `TcpClient`, as the reading task has against
the driver: it allows every outcome of a try at any time.
