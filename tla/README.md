# Verification of the linux-drive drivers

The repository is a collection of Linux 2.6/3.4/4.x drivers for the JZ2440 board (Samsung
S3C2440): an I2C bus adapter and its EEPROM clients, key drivers, touch screen drivers, an
ALSA playback path, an OV7740 camera driver, and small LED, MTD and USB drivers, and a
DM9000 network driver. This directory holds TLA+ models of the drivers whose logic is
concurrent, TLC configurations that check them on small instances, and proofs, checked by
TLAPS, of what matters most for every value of the constants.

Run, in this directory:

    tlc -config I2cBus.cfg MCI2cBus.tla       # one run; the others alike
    tlapm I2cBusProofs.tla                    # the proofs of one module

`PROJECT.json` lists the components, the runs, for each property a mutant of the code's
model that breaks it, for each definition the source lines it models, the disagreements
found, the hazards and the theorems.

## Inventory

For each component: the state it keeps, its operations, what it interacts with, what is
hard about it, and what makes it correct.

| Component (source) | State | Operations | Interacts with | Hard |
|---|---|---|---|---|
| I2C adapter (`i2c/6th_i2c_bus/i2c_bus_s3c2440.c`) | `s3c2440_i2c_xfer_data`: cursor into the messages, state machine, error; the controller's registers | `xfer`, its interrupt | called by the i2c core; wakes its caller | unprotected set-up of a call, 5 s timeout against a late interrupt, NACKs, empty messages, the last byte of a read |
| Key driver with timer (`Button/timer/buttondrv.c`) | semaphore, `irq_dev_id`, `buttons_timer`, `key_val`, `ev_press`, `button_async` | open, read, poll, fasync, release, key interrupts, timer | processes, four interrupts, a timer, SIGIO | lost wake-ups, lost events, two openers, bounce, signals, state that outlives a close |
| Key drivers without timer (`Button/{Query,Interrupt,Poll,fasync,mutex,input_event}`, `device_tree/Button`) | subsets of the above | the same | the same | no lock in four of them: one close frees the interrupts of all |
| Touch screen (`TouchScreen/s3c_touch_screen.c`, `device_tree/ts/s3c_ts.c`) | `x[4]`, `y[4]`, `cnt`, the timer, register `adctsc` | pen interrupt, conversion interrupt, timer function, init, exit | the A/D converter, the input core | three handlers start and end chains of conversions; the pen lifts between any two; exit unmaps what the timer uses |
| ALSA platform (`ALSA/platform/s3c2440_dma.c`, `s3c2440_iis.c`) | `s3c2440_dma_info`, the DMA channel, IISCON | open, hw_params, prepare, trigger, pointer, DMA interrupt | the ALSA core under its stream lock, the IIS controller | triggers while the interrupt is due, restart of each period by hand, wrap, underrun |
| ALSA codecs (`ALSA/codec/uda1341.c`, `wm8976.c`), IIS clock (`s3c2440_iis.c`) | register caches, three GPIO lines, the prescaler | write_reg, get and put volume, probe, hw_params | the codecs over three lines, the core's control and register calls | bit-serial writes that may overlap, 8-bit caches of 9-bit registers |
| Camera (`cmos_ov7740/cmos_ov7740_drv.c`) | four DMA buffers, format, scaler factors, `ev_cam`, the camera interface's registers | s_fmt, reqbufs, streamon, streamoff, read, preview interrupt, probe, remove | V4L2, the camera interface's DMA | ioctls in any order that nothing serialises, allocations that sleep or fail, arithmetic at the limits of fields, teardown under a running channel |
| I2C EEPROM clients (`i2c/1th` to `5th`) | an `i2c_client` | read, write over SMBus | the adapter | error values truncated to a byte |
| USB mouse as keys (`usb/usbmouse_as_key.c`) | last report | URB completion | the input core | several buttons in one report |
| LED (`led_device_tree/*`) | mapped registers | open, write, release | none | one mapping shared by all openers |
| DM9000 (`device_tree/dm9000/dm9dev9000c.c`) | `tx_pkt_cnt`, `cont_rx_pkt_cnt`, `Speed`, the queue, the timer; the chip's status, mask and index port | open, stop, transmit, interrupt, timer, watchdog, set_rx_mode, ioctl, ethtool | the network core, the chip | an edge-triggered interrupt on top of softirqs on top of processes, an index port and a PHY shared by all, a packet count nobody locks |
| MTD, virtual network card (`mtd_driver`, `net_driver`), ALSA machine | tables | probe, transmit | MTD, network core, ASoC | little |
| LCD, `i2c-dev.h` | vendored | | | |

Correctness, in one sentence each:

* **I2C**: a call carries the bytes of its messages in order, each once, tells the truth
  about it, returns, and touches no memory but the caller's; claimed of clean calls, those
  that begin on an idle bus.
* **Keys**: one process holds the device, its interrupts stay requested while it does, no
  reader sleeps over a reported key, a driver with an event flag gives no value twice, and
  when all is quiet the value offered is the key's real level.
* **Touch screen**: a chain of conversions is carried through or dropped whole, a reported
  point belongs to one stroke, a reported touch is watched and in the end reported as
  released.
* **ALSA**: the channel transfers the period that is due and that the pointer names; DMA
  and IIS are on exactly while the stream runs; a running stream never stalls; what is
  written is played.
* **ALSA codecs**: a register write arrives at its register and no other, whatever earlier
  ones left on the lines; the volume shown is the one heard, on the channel the drivers
  look at; the sample rate is the nearest there is.
* **DM9000**: no interrupt edge and no received packet is forgotten; what is masked is
  unmasked in time; the packet count covers the packets under way; a register access goes
  to the register selected, and a PHY access to the PHY register asked for, as far as a
  missing lock lets it; a stopped queue wakes.
* **Camera**: DMA goes only into allocated buffers large enough for a frame, buffers are
  freed once, bursts are of lengths the interface knows and tile the lines, ratios fit
  their register fields, a sleeping reader is woken; each where the code gives it, see the
  disagreements below.

## Modules

| Module | Models | Composes |
|---|---|---|
| `I2cTransfer` | abstract: what a caller of `xfer` is promised | |
| `I2cBus` | the adapter driver, statement by statement | implements `I2cTransfer` |
| `ButtonDrivers` | the key drivers `Interrupt`, `Poll`, `fasync`, `mutex`, `timer` and `device_tree/Button` | |
| `TouchScreen` | both touch screen drivers (`ReportsRelease`) | |
| `AlsaDma` | the DMA platform driver and its channel | |
| `AlsaPlayback` | a playback stream | `AlsaDma`, the IIS trigger, the ALSA core |
| `AlsaCodec` | the codec drivers over their three lines, and the clock of the IIS controller | |
| `Dm9000` | the DM9000 network driver and its chip | |
| `CamifScaler` | the camera driver's arithmetic | |
| `Camera` | the camera driver | `CamifScaler` |
| `MC*` | instances of the above for TLC | |
| `*Proofs` | theorems and proofs | |

### I2cBus

`s3c2440_i2c_xfer` runs in the caller's context and may be interrupted between any two
statements, so each of its five assignments (lines 120 to 124), the two halves of
`s3c2440_i2c_start`, and the parts of `wait_event_timeout` are actions (`SetMsgs` ...
`SetErr`, `StartState`, `StartBus`, `WaitDone`, `WaitSleep`, `WaitTimeout`).
`s3c2440_i2c_xfer_irq` is not preempted: `AnIrq` is one action, a disjunct per case of its
state machine (`StartCase`, `WriteCase`, `ReadCase`, `NackCase`, `OtherCase`). The i2c
core serialises the calls, so there is one caller. A byte's content is abstracted to its
place: message and index. `flying` is the place of the byte on the wire, `done` the set of
places carried and acknowledged. After a timeout the driver leaves the controller and
`state` as they are: the interrupt of the call that timed out may still come, during the
next call or between two calls, or never (`WaitTimeout`). `tainted` marks the calls that
began while it could; through a stale `msgs` the handler may then read any message of
`Strays`.

`I2cTransfer` promises a clean call that its bytes are carried in order, each once, and
that "ok" means all of them; of any other call (`clean` false) only that it returns. The
refinement maps `clean` to `~tainted`.

### ButtonDrivers

The six drivers repeat one design with parts left out. `drv`, chosen in `Init`, is the
record of the parts the loaded driver has: an event flag with a wait queue, `poll`,
`fasync`, the semaphore, a timer. Three of `Button/` and `mutex` read the pin in the
interrupt handler; `timer` and the device-tree driver read it in a timer, the latter
checks `irq_pd` for NULL, and its `read` waits for nothing. The timer of `Button_init` in
`Button/timer` has `expires = 0` and may run before any interrupt, with `pin_desc` still
NULL: the kernel then crashes (`Button_timer_handler_Null`), after which nothing happens;
this is why deadlock is not checked there.

Each process runs through open, reads, polls and release, with a step between any two
statements that touch shared data; handlers and the timer function are atomic among
themselves. A signal ends `wait_event_interruptible`, whose result the drivers ignore: the
read goes on (`Interrupted`). `open` and `release` go through `pins_desc` one key at a
time (`RequestIrq`, `FreeIrq`), since without a semaphore an open and a close may
interleave: an interrupt that is already requested is not requested again, and `free_irq`
frees it whoever requested it. A read copies (`copy`) in a step of its own and clears the
flag (`clear`) in another; the device-tree driver, which has no flag, copies whatever is
there. The look at the flag and the sleep are one step, as `wait_event_interruptible` and
`poll_wait` guarantee. `shared` is history: two processes have been in the driver at once
since it was last empty. `key_val` is the key and its level. Interrupts are assumed to
fire on both edges; the device tree decides it for its driver.

### TouchScreen

`mode` is what `adctsc` selects, `buf` the samples of the present chain (`x`, `y` and the
static `cnt`). The pen moves at any time. Both interrupts are sub-interrupts of one parent
line and do not nest; either can preempt the timer function, which therefore reads the pen
in one step (`TimerReads`) and acts on it in another. `s3c_ts_init` and `s3c_ts_exit` are
split where a handler can come between, the two `free_irq` calls included.
`ReportsRelease` is the one difference in the interrupt handlers of the two drivers:
`device_tree/ts/s3c_ts.c` reports the release when a conversion finds the pen up,
`TouchScreen/s3c_touch_screen.c` does not.

### AlsaDma, AlsaPlayback

Positions are counted in periods: `dma_ofs` is the index of a period in the buffer,
`disrc` the source loaded, `current` the period in transfer. A channel turned off gives up
the transfer in progress. The ALSA core is external: it calls the platform's trigger and
then the IIS controller's, under the stream lock with interrupts off; an interrupt that
becomes pending meanwhile is taken right after (`Locked`, `Unlocked`). `hw`, `appl` and
`content` are the core's positions and what each part of the buffer holds. An underrun
found by `snd_pcm_period_elapsed` stops the stream from within the interrupt. Since the
IIS trigger answers -EINVAL to every stop, a pause is undone by the core: the model
follows it. `Open` may fail at `request_irq`, which leaves the stream closed. Of
`s3c2440_dma_new` the zeroed structure is modelled, not the allocation of the buffer.

### AlsaCodec

A register write is the sequence of settings of the three lines that `l3_write` (uda1341)
or `wm8976_write_reg` makes, computed by pure operators (`sendbyte`, `uda1341_write_reg`,
...) and carried out one line at a time (`SetLine`). The chips are external: a receiver
that shifts in the data line when the clock rises, starts a byte at each edge of the mode
line (uda1341) or takes the last sixteen bits when csb rises (wm8976). The write goes into
the cache, an array of bytes, before it goes out (`SaveInCache`). The lines start in any
state. The control core of these kernels does not serialise puts and the drivers have no
lock: while calls overlap their bits are not followed; they leave lines and receiver in
any state (`Overlap`, `Garble`), and nothing is claimed of a register until a call that is
alone writes it (`settled`). The volume the drivers use is the first value of the control:
uda1341 advertises a second (line 166), ignores it in `put_vol` and shows the first in its
place in `get_vol`. `Prescaler` is the search of `s3c2440_i2s_hw_params`; the rest of that
function, which clears bit 0 of IISCON, is part of `AlsaPlayback`.

### Dm9000

One processor with three levels: the interrupt handler (`irq`) runs on top of a softirq
(`soft`: transmit, timer, watchdog), which runs on top of a process (`proc`: open, stop,
ethtool). Each is cut where another level or the chip can come between two accesses to
shared data; the chip receives, completes and changes its link at any time. The lock
`db->lock` has no effect on one processor beyond the interrupts it turns off:
`dm9000_hash_table`, `dmfe_do_ioctl` and the settings are one step each. `dmfe_get_link`
and `dmfe_nway_reset` take no lock, and each of their accesses to a register is an index
write (`PhySelect`) and a data access (`PhyAccess`), which goes to whatever is selected by
then: to the interrupt mask or the transmit command, if a softirq came between (`Stray`).
A PHY register is reached in a transaction of several accesses (`phy_read`: ask in EPAR,
command, take EPDRL and EPDRH; `phy_write`: ask, low byte, high byte, command); `step` is
where the process is in it, `Needs` what the step counts on, and `held` which of the three
registers still hold what the process put or asked for. The link interrupt, a reset and
the locked ioctl use the same three (`PhyUsed`) and make the transaction `lost`; it then
goes on with their values. `idx` is followed only while a process is between index write
and access. `isr`, `imr` and `pend` are status, mask and the latched edge (`Lines`): the
driver asks for IRQF_TRIGGER_RISING. The increment of `tx_pkt_cnt` is a load and a store.
`flight` is what the transmit memory holds, `nsr` the completions not yet read. `mishap`
is history: what unlocked accesses and zeroed counters have put out of order and not yet
been put right; the properties except it, and its clearing shows that it is put right.
`dmfe_open` may fail with -EAGAIN; in `dmfe_stop` the queue is stopped before the
interrupt is freed, and a link interrupt in between wakes it again.

### CamifScaler, Camera

The arithmetic (bytes per line, frame size, DMA bursts, the two scaler stages) is a module
of pure operators, on words of `Uint` values (2^32). `Camera` is the driver: a register it
ORs into is the set of its bits, so that the bits of earlier calls stay, as they do in the
code, and the size fields of CIPRTRGFMT keep what is below `Field` (2^13); the flip bits
are left out. The ioctls are not serialised, and the four `__get_free_pages` of `reqbufs`
may sleep: each call of it is a process of its own (`next` is the buffer it allocates for,
`order` its local variable) that does one allocation a step, and other ioctls, another
`reqbufs` among them, come in between. All calls share `img_buff`. An allocation may fail;
the labels `error3` to `error1` then free what `img_buff` names by now, which may be
another call's, and leave the address in `virt_address`. The allocator hands out the least
free block. `met` and `crossed` are history: two calls have been under way at once; one of
them failed. Ioctls come in any order while a file is open, also while the channel runs;
the interrupt may come between any two. In `cmos_ov7740_remove` the unmapping, the release
of the interrupts and `cmos_ov7740_release` are three steps, taken when no file is open
(the module is in use otherwise). An interrupt between the first two accesses unmapped
registers (`fault`), after which nothing happens; deadlock is not checked because the
driver may stop there or be gone. `get_order` answers 0 bytes, and more than the greatest
block, with an order that cannot be allocated, so a request without a format fails. A
division by zero yields 0, as the kernel's `__div0` does.

## Runs

| Run | Bounds | What it shows |
|---|---|---|
| `I2cBus` | every request of one or two messages of 0 to 2 bytes, one of three messages; late answers; stale pointers up to index 3 | a call that began on an idle bus returns and is carried as `I2cTransfer` promises, whatever happened to earlier ones; reads end on an unacknowledged byte; no access outside the caller's messages |
| `I2cBusZero` (violation) | the same | a late interrupt makes the next call return 0 with nothing carried |
| `ButtonDrivers` | six drivers, two keys, a blocking and a non-blocking process | with the lock one holder, which keeps every interrupt; without it only a process that met no other does; no reader or poller sleeps over a reported key; a driver with an event flag copies no value twice to a process that no other met; the settled level is offered |
| `ButtonTimerLost` (violation) | six drivers, one key, one process | a key reported between `copy_to_user` and `ev_press = 0` is lost; TLC's trace is of a driver with `poll`, and the statements are the same in `Poll`, `fasync`, `mutex` and `timer` |
| `TouchScreen` | three points, two of them within `ERR_LIMIT`; device-tree driver | no chain is abandoned, no stroke is mixed, every touch is watched and its release reported |
| `TouchScreenStuck` (violation) | the same; older driver | a press that ends during a conversion is never reported as ended |
| `AlsaPlayback` | buffers of two and three periods, seven periods written | the period due is transferred; devices are on exactly while the stream runs, which never stalls; written is played |
| `AlsaPause` (violation) | the same | a pause while the interrupt is due is refused by the IIS and undone by the core, which starts the period just played again; the handler moves `dma_ofs` on under it |
| `AlsaCodec` | both codecs, two callers, three volumes, two extended registers, seven rates at a 50 MHz PCLK | writes made alone arrive, also after overlapping ones; the volume put in the first value is shown and heard; no prescaler is nearer |
| `Dm9000` | a receive memory of one packet, RX masked after two in a row; chip revision with a limit of one packet at 10 Mbit; a process begins a PHY transaction when the mask and the count are in order (`Again = FALSE`) | no edge, no packet forgotten; masks timed; the count covers the packets; an unlocked PHY transaction survives packets, completions, transmits and timers (not link changes, resets, or a softirq within an access); a stopped queue wakes |
| `Camera` | two resolutions, eight blocks, two requests that may overlap, three settings, one reader; words of 18 bits, size fields of 8 | DMA stays in buffers that hold a frame, buffers are freed once, bursts and ratios fit, a sleeper is woken |
| `CameraStreamoff` (violation) | the same | `streamoff` does not stop the channel |

Why the bounds suffice. *I2C*: two messages of two bytes have a first, middle and last
byte, every change of direction, and empty messages in each place; the proofs cover all
others. *Keys*: two keys displace each other in `irq_dev_id`; two processes compete for
the semaphore. *Touch screen*: two near points and a far one make the filter accept and
refuse. *ALSA*: seven periods wrap a buffer of three twice; two periods are the least a
stream can have. *AlsaCodec*: the volumes are the ends of the scale and two between; two
callers overlap, a third adds nothing to "anyhow"; an overlap leaves 0 or 7 bits in the
receiver, the least and the most. *Dm9000*: the code lets two packets be under way, so
`flight` ends at 3 (one lost count) and `nsr` at its two bits; with two packets in a row
the mask is reached although a packet's place is free at once. `Again` only says how soon
a second misdirected access may follow a first; the theorems hold for both values.
*Camera*: 88 x 50 is prescaled by 4 and by 8, with a ratio left for the main scaler; 404 x
7 is too wide for its field, and lower than the sensor's picture by more than 64, where
the factor computation returns early. Their lines take main bursts of 4, 8 and 16 words
and end in 2, 4 and 8. Words and fields are scaled down together to what TLC computes
with, and the theorems hold for the real ones and for every size below 2^16, those of odd
words and of wrapping products among them. Eight blocks are two successful requests, so a
second request leaks the first; two requests are enough to overlap. One reader suffices
for the wake-up, which wakes all.

Fairness. *I2C*: the caller is scheduled and a byte in flight ends; nothing forces a
timeout or a new call. *Touch screen*: a conversion ends, a pending interrupt is taken, an
armed timer expires. *ALSA*: the codec clocks the samples out and pending interrupts are
taken. *Camera*: frames come while the channel is on and pending interrupts are taken.
*Dm9000*: a handler or softirq that has begun goes on, the transmitter ends what it has
begun, `dev_watchdog` finds a queue that stays stopped; `QueueWakes` is claimed of
behaviours in which interrupts leave time for other things again and again (`[]<>NoIrq`),
since a storm of link changes would starve the softirqs. In each the hardware and the
interrupt controller do this of themselves; no application is assumed to make any call.

## Proofs

For every value of the constants, from the named assumptions in the modules.

* **`I2cBusProofs`**. `IInv` says, on top of the types: a clean call (one that began on an
  idle bus) owns `msgs`; while it works, its cursor is on the wire and what is done is
  what comes before. The safety properties alone are not inductive, since they do not say
  that the set-up of a call has already replaced the previous one's fields; the invariant
  ties each field to the place the caller has reached. Lemmas about `Places` (the next
  byte, the next address, the last place) reduce the cases of the handler to one step in
  the order of places. `CleanResultHolds`, `CursorOnWireHolds`, `NoStrayAccessHolds` and
  `StoppedBusIsIdleHolds` follow. `LastReadNotAckedHolds` needs one part more (`AckInv`):
  while a byte is awaited the ACK bit says whether it is the last of its message.
  `Refinement`: `Spec` implements `I2cTransfer`, late answers included.
* **`ButtonDriversProofs`**. `IInv` says that whoever is in the driver while nobody else
  came is alone in it (`Alone`), that the lock keeps it so (`LockInv`), which keys an
  unfinished open has already requested (`Requested`), and that only a driver with an
  event flag has sleepers. The properties alone are not inductive: an open that has
  requested half its keys is inside no property. All five safety properties of the run
  follow for all six drivers (`ReadIsFresh` speaks of the five with an event flag); it and
  `SettledLevel` rest on what a set flag and a pending timer imply of `key_val`.
* **`TouchScreenProofs`**. `Inv` says which outstanding events each `mode` implies; it is
  needed because a chain is alive only by way of the mode the last handler left.
  `ChainIsAliveHolds`, `OneStrokeHolds` and `FaultOnlyInExitHolds` hold for both drivers,
  `TouchIsWatchedHolds` for the one that reports the release.
* **`AlsaPlaybackProofs`**. `InStep` ties the driver's offset, the registers of the
  channel and the core's positions together: `hw` modulo the buffer is `dma_ofs`, DISRC
  and the transfer are there too, and the parts of the buffer from `hw` to `appl` hold
  what was written. `PlaysWhatIsDue` says this of the moment of a transfer only, and so is
  not inductive: the agreement has to last while the stream is suspended or an interrupt
  is due. The lemmas on remainders (`NextRemainder`, `OnePeriod`, `DifferentParts`) carry
  it around the end of a buffer of any size. `TypeCorrect`, `RunningIsOnHolds`,
  `PlaysWhatIsDueHolds`.
* **`Dm9000Proofs`**. Every safety property of the run, for both revisions, any receive
  memory (`MaxRx`) and any bound on packets in a row. `IInv` says who may be where in each
  phase of the handler (`Levels`), that an edge is latched at each of its steps
  (`EdgeLatched`), what the two counts are worth between the load and the store of an
  increment (`Counters`, `CountInv`), where the mask and the index register are meanwhile
  (`MaskInv`, `IndexInv`), what the registers of the PHY hold for the step of a
  transaction that is not lost (`PhyInv`), which packets the handler has still to see
  (`PacketInv`) and what a stopped queue waits for (`StopInv`). The properties speak of
  the moments between handlers and are not inductive: each depends on what the handler has
  promised to do before it returns.
* **`CameraProofs`**. `BurstsTile`: for every line of a word or more the two bursts tile
  it; `BurstsAllowed`: of an even number of words, with lengths line 547 allows. `NoWrap`:
  for sizes the fields hold no product wraps. `FactorFits`: for every source less than 64
  times the target, the prescaler does not shrink below the target and leaves a main ratio
  below 512, which fits the nine bits of its field. `StreamonFitsAlways` concludes the
  action property for every set of resolutions; that CIPRSCCTRL holds the ratios of the
  one resolution streamed so far is an invariant of its own (`RatiosKept`).
  `ReleaseFreesOnceHolds` and `DmaInBuffersHolds`, for any number of blocks and of
  requests that sleep, overlap and fail: `BlocksKept` says what the DMA and each call
  under way may count on until a call fails that had met another, `OrdersKept` which
  orders `img_buff` holds while none have met, `FirstKept` that the first call loses no
  block. `DmaInBuffersHolds` needs in addition that target and size of the buffers are
  those of one format (`FormatInUse`) and that buffers requested for the present format
  hold what it needs (`BuffersFit`). `TypeCorrect` keeps the types in eight parts, one for
  each group of fields that is written together.
* **`AlsaCodecProofs`**. Every safety property of the run, for both codecs, any number of
  callers, all volumes and all values of the extended registers. A property such as
  `ChipFollowsCache` speaks of writes that are over and says nothing of the hundred
  settings of the lines before: `IInv` adds where a write stands after each of them.
  `InStep` says of the one call that is alone that the settings left are the tail of its
  script; of the uda1341 (`UdaStep`, `L3Place`), which bits of which byte have been
  received and what has been selected with them, of the wm8976 (`WmStep`, `WmPlace`), that
  the last bits received are the first of the word. `Idle` is what the end of a write
  leaves and the next one starts from; after an overlap nothing of it is known, and the
  proof shows that the first settings of a write, the second edge of the mode line for the
  uda1341 and sixteen new bits for the wm8976, are enough without it. `Wanted` says that
  each register of the volume put last holds its value or is still to be written with it,
  and that no write still to come gives it another. The lemmas on bits (`ValueOfByte`,
  `WordOfBits`) say that what the receiver adds up from the bits that are sent one by one
  is the byte or word they were taken from. `NearestRateHolds` goes by induction over the
  search: the distance kept is the least so far. `ReachAssumption` (some prescaler comes
  within 65535 Hz) is what the code starts from; it holds for the rates of the DAIs at any
  clock below 800 MHz.
* **`SetInduction`**. Induction over the naturals, stated for the set of the numbers that
  have a property, and that a set of naturals has a least member: for the free blocks in
  `CameraProofs`, the search and the bits in `AlsaCodecProofs`.

Only model-checked: liveness (`XferReturns`, `ReleaseReported`, `WrittenIsPlayed`,
`ReaderIsWoken`, `QueueWakes`), which is out of the prover's reach. Every invariant and
every action property of a passing run is a theorem, and so is the refinement of
`I2cTransfer`. What the theorems leave to the model is the same as for the runs: the cut
of the code into steps, and the hardware and the kernel's core as the drivers use them.

## Disagreements between code and text

Shown by a run: `I2cBusZero`, `ButtonTimerLost`, `TouchScreenStuck`, `AlsaPause`,
`CameraStreamoff` (see "findings" in `PROJECT.json`). Met while modelling, part of the
models, and not shown by a run of their own:

* I2C: a NACK ends the transfer whatever the message's flags (line 197), while line 150
  advertises `I2C_FUNC_PROTOCOL_MANGLING`.
* Keys: of two keys within one debounce time only the second is reported (`irq_dev_id`,
  line 64); a signal makes a sleeping read return an old value (line 115); what was
  reported before a close is still offered after the next open; the device-tree driver's
  read returns the last value however often it was read
  (`device_tree/Button/buttons.c:74`). `Button_exit` of `Button/timer` does not delete the
  timer; unloading is not modelled.
* ALSA: `SNDRV_PCM_INFO_PAUSE` is advertised (`s3c2440_dma.c:58`), but the IIS trigger
  answers -EINVAL to a pause (`s3c2440_iis.c:120`). A suspend and a resume with the
  interrupt due in between repeat a period as the pause of `AlsaPause` does.
* Camera: RGB565 cannot take back bit 30 that RGB24 has set (line 427), and the main
  ratios accumulate in `CIPRSCCTRL` (line 760), which mixes those of two resolutions. The
  comment at line 547 allows remaining bursts of 2, 4, 8 and 16 words, but a line of an
  odd number of words gets one of 1 or 3, and a line that is no multiple of four bytes
  loses its last half word (`hSize/4`). Of two overlapping requests, one that fails frees
  blocks that the other counts on or the DMA writes to, and `release` then frees with the
  order that the other left; after a failed last request `release` frees blocks a second
  time; a second request leaks the first one's blocks. At a source of 64 times the target
  the factors of an earlier call are used, or a division by zero. The size of a frame
  wraps at 32 bits, and sizes of 8192 and more do not fit CIPRTRGFMT (line 456): then the
  buffers are those of another size than the frame. `remove` unmaps registers before it
  frees the interrupt. The properties of `Camera` state their exceptions for these.
* Codecs: the wm8976 shows a volume of 0 until the first put, whatever the chip starts
  with (`wm8976_get_vol` reads the cache of zeros, line 55); a volume beyond 63 is not
  refused by the drivers and would run into the register's other bits. The volume control
  of the uda1341 advertises two channels (`info_vol`, line 166), but `put_vol` drops the
  second value and `get_vol` shows the first twice: after a put of 0 and 63 it shows 0 and
  0. `VolumeArrives` speaks of the first.
* DM9000: the help text of `mode` (line 1892) gives 1 for 10MFD and 4 for 100MHD, the
  enumeration that the switch of line 1952 uses (lines 209 to 216) has them the other way
  round; "tx_pkt_cnt ERROR!!" (line 1010) is reached by regular steps, when an increment
  and a completion cross (line 846) or the watchdog has zeroed the count under packets on
  their way; a reset writes RXCR without the promiscuous and all-multicast bits that
  `dm9000_hash_table` has just set (line 797); `get_link` and `nway_reset` (lines 1790 to
  1803) use the ports without the lock their neighbours take, so that a transmit in
  between sends their access to the interrupt mask; and a link interrupt (its `phy_read`,
  lines 1068 to 1077) or a reset (`set_PHY_mode`) in between leaves another PHY register
  and other data in EPAR and EPDR, so that `get_link` reads, or `nway_reset` writes, the
  wrong ones. A count that is zeroed under a packet in the middle of `dmfe_start_xmit`
  lets a third packet into the memory of two; `dmfe_open` zeroes the counter of packets in
  a row after it has enabled the interrupts (line 549), and RX may then stay masked until
  the next transmit.

## Not modelled, and the plan

Not modelled: the LCD driver and `i2c-dev.h` (vendored), device trees, the test programs
(they are the environment of the models), module tables and logging, the MTD drivers and
the ALSA machine driver (tables), the drivers that only probe. Of the DM9000: the contents
of packets and of the multicast table, checksum settings, EEPROM and PHY tables, probing.

Next, in this order:

1. `At24cxx`: the EEPROM client over SMBus as a user of `I2cTransfer`; the byte that is
   read back is the one written, errors are not taken for data.
2. `UsbMouse` (the decoder of reports into key events), `LedDrv` (register mapping shared
   by openers), `VirtNet` (the reply to a ping).
3. Proofs about these as they come; of the modules there are, no safety property is left.

The components of 1 and 2 are small; each is composed into a run of the component it
belongs to (the EEPROM into the I2C run), or shares one with its like.
