# Verification of the caniot device firmware

This directory is a formal development of the CANIOT device firmware of this
repository (`src/`): TLA+ modules translated from its C and C++ code, TLC
configurations that check them on small instances, and theorems about them
proved with TLAPS for every value of the constants. `PROJECT.json` links every
definition to the lines it models, every property to the run that checks it and
to a mutation of the code that breaks it, and every hazard of the code to the
properties aimed at it.

To check a run, `tlc -config devices.cfg MCDevices.tla`; to check the proofs of a
module, `tlapm NodeProofs.tla`.


## 1. The system

An AVR node on a CAN bus. A frame from the controller carries a command, an
attribute access or a telemetry request; the main loop handles it and the
drivers move the hardware. Everything runs on AVRTOS, a small cooperative kernel
with a timer interrupt. AVRTOS and the `caniot` protocol library are git
submodules whose code is not part of this repository: they are modelled from how
`src/` uses them and marked external in `PROJECT.json`.

Three contexts interleave:

- the **main thread** (`src/src/main.c`): the process loop, every command handler;
- the **system workqueue**: work items submitted by interrupts, run one at a
  time. Main thread and workqueue only switch where one of them blocks;
- **interrupts**: the timer, which runs the handlers of kernel events, the CAN
  controller, the port expander, the inputs and the serial line. They come
  between any two instructions of the others.

### Components

| Component | State | Operations | Interacts with |
|---|---|---|---|
| Heater driver, `devices/heater.c`, under `nodes/heating-controller/dev.c` | mode, phase, event and work item of each heater; its two outputs | `heater_set_mode`, `event_cb`, `work_cb` / `heater_ev_cb`, command handler | commands (main thread), timer interrupt, workqueue |
| Shutter driver, `devices/shutter.c`, under `nodes/shutters-controller/dev.c` | openness, direction, duration, event and work item of each shutter; running flags, powered flag, shared power output | `shutter_set_openness`, `event_cb`, `work_cb` / `shutter_event_handler` | as above; shutters share the power |
| Pulses, `devices/gpio_pulse.c`, and pin commands, `devices/gpio_xps.c` | slab of blocks, time queue, per pin a pointer to a block and a reset state | trigger, cancel, process, remaining; seven commands | board-level control, main loop |
| Board-level control, `class/class0.c`, `class/class1.c` | pin tables, configuration | command frame, configuration applied | pulses, settings |
| Main loop, `main.c`, and device core, `dev.c` | process signal, telemetry requests, poll timeout | turn: watchdog, pulses, application, frames, telemetry | everything |
| Multi-instance devices, `dev.c` | one receive slot per instance, map of a round | receive for others, round of instances | CAN, main loop |
| Settings, `settings.c` | one RAM configuration, a block with checksum per instance in EEPROM | boot, read, write, restore | device core, EEPROM |
| CAN, `can.c` | transmit queue, error streak | queue, send, receive | main thread, interrupts |
| Platform, `platform.c` | delayed messages, deferred reset | send later, reset, watchdog on and off | CAN, watchdog |
| Watchdog, `watchdog.c` | threads still to report | feed | main thread |
| Reset diagnostics, `diag.c` | RAM context that survives warm resets; EEPROM counters and ring of contexts | boot, uptime update, clears | resets, shell |
| One-wire sensors, `devices/ow_ds_meas.c` over `ow_ds_drv.cpp`, started by `temp.c` | array of slots, current one, time to the next search, event, work item, semaphore | search, measure, start | timer, workqueue, the bus |
| Pins and port expander, `bsp/bsp.cpp`, `bsp/tiny/tiny.cpp`, `devices/pcf8574.cpp` | directions and levels, state kept of the expander, read buffer | set up, write, toggle, read, interrupt | I2C, main loop |
| Shell, `shell.c` | queue of characters, semaphore, work item | receive, carry out | settings, diagnostics, reset |
| Power-cut monitor, `nodes/heating-controller/pcc.c` and `dev.c` | edge counters, frequency, power status | edge and second interrupts, comparison, telemetry | main loop |
| Nodes, converters, utilities | tables, default configurations | set-up, conversions | all of the above |

### What is hard in it, and what correct means

- **Heaters and shutters** split each step over a command, an interrupt and a
  work item; a command may come between the interrupt and its work item, and
  scheduling an event that is already scheduled silently does nothing. Correct:
  a pulsed heater never stalls; a steady mode is never disturbed by the mode
  before it; no motor is driven before its power settled, thrown from one
  direction into the other, or left running; the power goes off with the last
  shutter; the reported position is as close to the real one as latency allows.
- **Pulses** share few blocks among many pins and identify a pulse by the
  pointer to its block, which outlives the pulse. Correct: blocks are conserved,
  one pin's command leaves other pins' pulses alone, a pulse takes the time it
  was asked for, up to the granularity of the loop. The code keeps the first two
  only while pins are commanded before their pulses end.
- **The node as a whole** sleeps on a signal that interrupts raise and the loop
  clears, while the controller interrupts once for several frames; its queue
  and slab are small, its sends may fail, and it may be told to disable the
  watchdog that carries out its resets. Correct: it never sleeps on work, loses
  no message it accepted but to a failed send or a full queue, is never reset
  unasked, and a reset asked for comes, after the answer.
- **Multi-instance devices** pop each other's frames into slots that hold one.
  Correct: what the slots do is a mailbox, and no frame waits for ever.
- **Diagnostics and settings** must survive a reset at any instruction, the
  middle of an EEPROM write included; settings are written for each instance
  through one copy in RAM. Correct: the ring of contexts is a log, counters and
  sums account for every run; each instance keeps its own settings, whole.
- **One-wire sensors** come, go and fail while they are searched and measured in
  turn. Correct: one measurement at a time, one slot per sensor, and each sensor
  that is there is measured again.
- **The port expander** is written whole from a copy and read through a buffer
  an interrupt invalidates, over a bus that fails. Correct: the copy is what
  the pins are, and the buffer is no older than the last interrupt.
- **The shell** submits its work under a semaphore the work gives back while it
  runs. Correct: no character waits for the next one.
- **The power-cut monitor** reads twice, for one comparison, what an interrupt
  writes every second, from counters that wrap. Correct: the status is that of
  the last second, and the controller is told when it changes.

Each is listed at its line in `PROJECT.json` under `hazards`.


## 2. The modules

| Module | What it is |
|---|---|
| `KernelEvents` | AVRTOS events and work items, as the drivers use them (external) |
| `PilotWire` | abstract: what the heater driver promises of the pilot wires |
| `Heater`, `HeaterProofs` | heater driver and heating controller commands, shown to implement `PilotWire`; theorems |
| `Shutter`, `ShutterProofs` | shutter driver and shutters controller commands; theorems |
| `GpioPulse` | pulses and pin commands, as operators on one record |
| `BoardControl`, `BoardControlProofs` | frames and configuration of class 0 and class 1 devices over `GpioPulse`, under the main loop; theorems |
| `Node`, `NodeProofs` | a board with one device: main loop, processing, transmission, delayed answers, reset, watchdog; theorems |
| `Mailbox` | abstract: what a multi-instance device promises of the frames it is sent |
| `MultiDevice`, `MultiDeviceProofs` | receive slots and rounds of instances, shown to implement `Mailbox`; theorems |
| `ResetLog` | abstract: what the persistent diagnostics promise |
| `ResetDiag`, `ResetDiagProofs` | the reset diagnostics, shown to implement `ResetLog`; theorems |
| `Settings` | blocks of settings in EEPROM and the copy in RAM |
| `BoardPins` | pins of a Tiny board and of its expander |
| `Shell` | characters from the serial line to the shell |
| `PowerMonitor` | power status of the heating controller |
| `StoresProofs` | theorems about `Settings`, `BoardPins`, `Shell` and `PowerMonitor`, and about `MCStores` |
| `OneWire`, `OneWireProofs` | measurements of the sensors of a one-wire bus; theorems, also about `MCDevices` |
| `MCHeater`, `MCShutter`, `MCBoardControl`, `MCNode`, `MCOneWire` | instances for TLC of one module each |
| `MCDevices` | instances of `Heater`, `MultiDevice`, `OneWire` |
| `MCActuators` | instances of `Shutter`, `BoardControl` |
| `MCStores` | instances of `ResetDiag`, `Settings`, `BoardPins`, `Shell`, `PowerMonitor` |

`MCDevices`, `MCStores` and `MCActuators` put parts of a board side by side that
share no state: a variable `part`, chosen at the start, says which of them moves, and the others
stay as they are at boot. Every behaviour of each part alone is a behaviour of
the composition and nothing else is, so a property of a part holds of one exactly
if it holds of the other, and the state space is the sum of the parts', not the
product.

Each definition keeps the name of the function it models where it can, and a
comment naming it where it cannot. An operator whose comment begins with `Bug:`
is a mutated form of the operator after it; no specification uses it.

### Heater and PilotWire

`hs[h]` is `struct heater` of heater `h` with the level of its two outputs:
`mode`, `active` (the phase), `ev` (ticks until the event expires, or
`Unscheduled`), `work` (ticks the work item has been queued, or `Idle`), `pos`,
`neg`. `SetMode` is `heater_set_mode` with the order of the code: the event is
cancelled first, then the mode is looked at, and refused if it is none.
`EventCb`, `WorkCb` and `NextPhase` are `event_cb`, `work_cb` and
`heater_ev_cb`. The actions are one frame for all heaters (`AppCommand`), one
interrupt (`EventFires`), one work item (`WorkRuns`) and `Tick`. Time cannot
pass an expired event, and a work item waits at most `MaxLatency` ticks; within
that, any order goes. The ghosts `quiet` and `held` measure how long a heater
has been left alone and how long its signal has lasted.

`PilotWire` knows of each heater the mode it was last told and the signal on its
wire, one of four. `Told` is a command for any of the heaters: a steady mode has
its signal at once, a pulsed one keeps the signal it finds. `Pulse` is what a
pulsed heater does then: no signal and the complete one in turn, the complete one
first. `Heater` implements it with the mode it holds and the two outputs read as
a signal; events, work items and time map to nothing, so `PilotWire` says which
signals may follow each other and not how long each lasts, which is `DutyCycle`.

### Shutter

`sh[s]` is `struct shutter` with the shutter's bit of the flags and its outputs;
`powered` is the flag and `power` the output, which differ between boot or a
command and the first work item. `SetOpenness` is `shutter_set_openness`, with
the conversion of the relative move to `int8_t` and of the duration to
`uint16_t`. `Checks` is `CONFIG_CHECKS`: `src/platformio.ini` sets it to 0 for
the shutters controller, so the busy test and the range test are not in the
shipped build. `WorkRuns` is `work_cb`: the handler, then the power. Ghosts:
`settle` (how long the power has been on), `real` (where the shutter truly is,
which the firmware cannot know; a motor turns when powered and driven one way,
and stops at its ends) and `slack` (the error the latency may have added since
the last full move). At boot every output is driven low, its active level, so
the power is on and both directions are active until the first work item.

### GpioPulse and BoardControl

`io` holds the slab (`free`, last freed first), the events (`event`), the pins
and their contexts. `CommandXps`, `PulseTrigger`, `PulseCancel`, `PulseProcess`
and `PulseRemaining` are the C functions. `BoardControl` composes them as a
node of either class (`class`): a frame is carried out pin by pin in the order of
the handler (`Command`), in class 1 only for outputs that are not self-managed;
the configuration changes durations and, in class 1, reset states
(`WriteConfig`); and the main loop sleeps until its poll times out or a signal
comes (`Sleep`, `Wake`). Pulses are counted down at `Wake` by the time since the
last one. Frames may come in any order and at any pace. A pin is not told that its
pulse ended: it remembers the block (`pev`), which may be free, or another pin's,
when the pin is commanded again. `Owned` says that what a pin remembers is a
pending pulse of its own, `HasPulse` that it has a pending pulse at all. A double
free or a double insertion corrupts the kernel's lists, whose code is not part of
the repository: `corrupt` records it and the model stops. The time left of an
event that is not queued means nothing, and is kept at 0. The ghosts `due` and
`age` are the pulse each pin was promised, and since when; `refused` are the pins
with a pending pulse that the last frame failed to renew.

### Node

`stage` is where the main thread is: on its way into the poll (`TURN`), in it
(`POLL`), between the test and the clearing of the signal (`CHECK`, `CLEAR`),
before `dev_process` (`ALIVE`), in it (`PROCESS`), in its `k_yield` or `k_sleep`
(`YIELD`, `SLEEP`), or in the endless loop of `reset_now` (`SPIN`). Interrupts
come in every stage but the last; the workqueue runs only in the stages where
the main thread blocks. `rx` is the controller, whose interrupt comes with the
first of the frames it holds; `signal` and `telem` are what the loop is woken by
and looks at. `Send` is `platform_caniot_send`: `txq` and its work item, or a
block of the slab (`delay`, `held`, `free`) whose timer calls `DelayedSend`, the
`dmsg_handler`. `TxDrain` is `can_tx_wq_cb`: it empties the queue, and
`Failures` says how many frames at its end may have failed to be sent, from none
to all of them after those before. `reset` and `syswork` are the delayable work
of `platform_reset`; `wdt` is the time the hardware watchdog has left, or
`Unscheduled` while it is off. `Restart` is the watchdog's reset. What the
library makes of a frame is open, but for the answer it sends, its delay, and
the commands of `dev_apply_blc_sys_command`.

### MultiDevice and Mailbox

`round` is `do_run_map`, empty while the main loop sleeps; `slot` is
`devices_rx_frames` with its status bits. `Recv` is `multi_caniot_recv`: a frame
popped from the controller for another instance overwrites that instance's
slot, and the slot of the instance at hand is looked at only if the controller
was empty. `ProcessNext` is one pass of the loop of `dev_process`, `ReceiveFails`
one that ends in an error of the controller. Frames are
numbered as they arrive, so that it can be told which are handled, and by whom.
`Mailbox` knows neither controller nor slots nor rounds: a frame that waits for
an instance is handled by it, once, or gives way to a later one for it. It
promises no order, for the code keeps none: an instance's next frame may be
popped by itself while an older one is in its slot.

### ResetDiag and ResetLog

`stage` is how far the boot is; each assignment of `reset_context_init` is a
step, `Reset` may come between any two, and in stage `WRITE` it leaves the old
EEPROM image, the new one, or a mix (`Torn`). RAM survives, except that it may
be lost when the reason is a power-on or a brown-out. `ContextSave` and
`ReadLast` are the ring with its end marker. `ContextUpdate` writes the uptime of
the run as it is, not what was added since the last turn: after a clear from the
shell in the middle of a run (`ContextClear`), the next turn puts the whole run's
uptime into the context again. The ghost `streak` has the runs and the uptime since
RAM was lost or cleared, and what the run of the clear had lasted `before` it.
`ResetLog` knows no ring: a log of
the last `Depth` contexts and a counter per reason, to which a reset adds one
entry whole. `ImplementsLog` is the refinement, with the log obtained through
`ReadLast` as any reader obtains it.

### Settings

`blocks[i]` is the block of instance `i`: its configuration and the one its
checksum is of, either of which may be `Damaged`. `rambuf` is the one
configuration in RAM. `job`, `at` and `step` are what is being done (the boot, a
write, a restore of all instances), to which instance, and how far it is: a
write changes the configuration (`WriteBlock`), then the checksum, then applies
it (`WriteChecksum`). `Cut` is a reset between or in the middle of these; RAM is
not initialised after it. The ghost `asked` keeps, per instance, the
configuration asked for last, the one before it, and whether a reset cut the
change short; `driven` counts how often the outputs were driven to their
defaults.

### BoardPins

`state` is `extio_device.state`, `latch` what the expander has: they are two
because `pcf8574_set` does not look at the result of its transfer, and because
the expander keeps its latches over a reset of the board. `low` is what is
connected to its pins. `ReadBegin` and `ReadEnd` are `pcf8574_get`, in the
middle of which inputs change and `ExtInterrupt` (`BSP_PCF_INT_vect`) comes;
`line` and `flag` are the expander's interrupt line and its pending edge. Ghosts
record what was asked of each pin, whether the last transfer failed, whether an
interrupt came during the last read, and what was written since.

### Shell

`chars` is the queue of the serial interrupt (`Type`), `submitted` the work item
and `idle` the semaphore. `ShellBegin`, `ShellGet`, `ShellDone` are the
`shell_process` loop with its `k_yield`. `Offloaded` chooses between the work
item and the main loop's call.

### PowerMonitor

`counter`, `last_counter` and `freq` are those of `pcc.c`, written by `PowerEdge`
and `PowerSecond`, the two interrupts, which do not nest. `LookLow` and `LookHigh`
are the two reads of the volatile frequency in `pcc_get_power_status`, the second
of which is made only if the first found the frequency above the lower limit; the
rest of `app_process` (`Judge`) goes with the look that ends the comparison.
`requested` is the telemetry's bit, which `PowerTelemetry` takes, and which it may
do at any time, since the controller may ask for one too. Ghosts: the edges truly
counted in the last second, the frequency at each look, whether a second has ended
since, and the status last sent.

### OneWire

`sensors[k]` is slot `k` of the array: its sensor, whether it is active, valid,
in progress, and its error counter modulo `ErrorModulus` (four bits). `Discover`
is a search of the bus with `ds_discovered_cb` for each sensor it meets.
`StartDiscover`, `StartMeasure` and `MeasStart` are the steps of `temp_start`;
`MeasTimer` and `MeasHandler` are the timer's handler and the work item: count
down to the next search (`SearchIfDue`), start a conversion (`Begin`) or read its
result (`End`), and go on to the next slot (`Proceed`). The bus answers as the
driver lets it: with no sensor there is no presence pulse, a sensor that is gone
reads as nothing or garbled, one that is there may be misread or missed by a
search. `Plug` is a sensor that comes or goes. `MeasStop` is `ds_meas_stop`, part of
the driver's interface that no build calls; no hazard is made of it.


## 3. The runs

| Run | Module, configuration | Instance | Shows |
|---|---|---|---|
| `devices` | `MCDevices`, `devices.cfg` | 1 heater, all six modes, phases of 1 and 2 ticks in a period of 5, latency 1; or 3 instances, 2 receive buffers, 3 frames, 1 telemetry request, 1 failed reception a round; or 3 sensors for 2 places, one of them registered, 2 faults, 1 stop | heaters implement their pilot wires, never stall and regain their duty cycle; slots implement a mailbox and frames settle; sensors are served |
| `stores` | `MCStores`, `stores.cfg` | 3 slots, counters modulo 3, 3 resets after the first; or 2 instances with 2 attributes of 2 values, 2 resets; or 1 pin of the microcontroller and 2 of the expander, 1 failure; or an offloaded shell with a queue of 3; or counters modulo 16, at most 15 edges a second, limits that only a frequency of 2 is within | what is kept survives resets, failures and interrupts; the ring implements a log; the power status is that of the last second |
| `node` | `MCNode`, `node.cfg` | 2 receive buffers, a queue of 1, 1 block, delays up to 1, 2 errors allowed, poll 2, watchdog 5, reset 3, latency 1, 2 frames and 2 triggers | signal, watchdog, queue, reset in time |
| `actuators` | `MCActuators`, `actuators.cfg` | 2 shutters, checks, openness 0, 1, 4 and 5 of 4; or both classes, 3 pins, 2 blocks, any sequence of 15 frames and 2 configurations | shutters under the checks, position and duration of a move included; pulses until a block is freed twice, and what it takes to free one twice |
| `shutter_shipped` | `MCShutter`, `shutter_shipped.cfg` | 2 shutters, no checks | what holds as shipped: tracked motors, moves that end, power off after the last |
| `heater_invalid` | `MCHeater`, `heater_invalid.cfg` | 1 heater, with values above the last mode | `NeverStalls` is **violated** |
| `shutter_unchecked` | `MCShutter`, `shutter_unchecked.cfg` | 1 shutter, no checks | `PowerSettledInHandler` is **violated** |
| `board_shared` | `MCBoardControl`, `board_shared.cfg` | 2 pins, 2 blocks, one pulse at a time | `PulseKept` is **violated** |
| `board_twice` | `MCBoardControl`, `board_twice.cfg` | 1 pin, 2 blocks, one pulse at a time | `FreedOnce` is **violated** |
| `multi_leaves` | `MultiDevice`, `multi_leaves.cfg` | 2 instances, 2 frames | `LeavesDrained` is **violated** |
| `onewire_errors` | `MCOneWire`, `onewire_errors.cfg` | 2 registered sensors, the limits of the code (4 errors, a field of 4 bits), one unplugged | `ErrorsBounded` is **violated** |
| `extio_inputs` | `BoardPins`, `extio_inputs.cfg` | 2 pins of the expander, no failures | `InputsReleased` is **violated** |

### What the properties say

- *Heater*: `ImplementsPilotWire`, `NeverStalls`, `KeepsPulsing` and, once commands
  stop, `DutyCycle`: no phase too long, none cut short.
- *Shutter*: `OneStepAhead`, `DrivenOnlySettled`, `PowerSettledInHandler`,
  `NoReversal`, `PositionDrift`; `PowerTracked` (a motor that runs is tracked and
  powered, and with none running the power is off), which holds without the checks
  too; `MoveInTime` (a motor runs no longer than its start-up delay, a full move and
  what its two work items may wait, whatever is commanded) and, as shipped, where a
  command may begin the move again, `EveryMoveEnds`.
- *Pulses*: until a block is freed twice, `PulsesOwned` (blocks and pending pulses
  belong together one to one, and a pulse to the pin that remembers it),
  `PulseNotLate` and `RetriggerSucceeds` (a pulse commanded on a pin whose pulse is
  pending takes place, even with the slab exhausted). `PulseStays`: a pending pulse
  goes only when its time is over, by a command for a pin that remembers its block,
  or where a block is freed twice. `FreedTwiceAfterEnd`: that happens only by a
  pulse, cancel or reset of a pin that remembers a block without a pending pulse of
  its own, that is, after its last pulse ended or was taken from it. `PulseNotShort`.
  What the documentation expects and the code does not keep is `FreedOnce` (no block
  is freed twice) and `PulseKept` (no pin's pulse goes by another pin's command).
- *Node*: `SleepsDrained` (the thread never sleeps, unsignalled, on a frame or a
  request), `WatchdogPatient` (the watchdog runs out only in `reset_now`),
  `NothingStranded` (what is queued has its work submitted, and a block of the
  slab is free or its timer runs), `AckBeforeReset` (when the reset comes, the
  answer to the command that ordered it has left the queue), `ResetInTime` (a reset
  that was ordered is due within its delay, the latency of the workqueue and the
  timeout of the watchdog; every tick brings it nearer, and nothing, the command
  that disables the watchdog included, delays it or calls it off), `ResetComes` (it
  comes).
- *Multi-instance*: `ImplementsMailbox`, `FramesSettle`.
- *Diagnostics*: `StoreHasEnd`, `BootRecorded`, `ImplementsLog`, and `StreakRight`:
  no uptime since RAM was lost or cleared is left out, and unless a boot was reset
  while it added up, none is counted twice and none from before, but for the run of
  a clear, which is counted from the clear until the next turn's update and from its
  own start afterwards.
- *Settings*: `SettingsSound`: once booted, every instance has whole settings of
  its own, those asked for last unless a reset cut the change short; the device
  runs with what an instance has stored; later settings move no output.
- *Pins*: `PinsSound`: after a transfer that succeeded the expander is as the
  board takes it to be and every pin as it was last told, and a valid buffer is
  fresh, but for an interrupt that came in the middle of its read.
- *Power status*: `PowerSound`: it is that of the edges of the last second, and a
  status the controller does not know of has its telemetry requested. A second
  that ends between the two looks can mislead the comparison in one way: a
  frequency above the limits followed by one below them passes for power that is
  on, for one turn of the loop.
- *Shell*: `ShellWakes`. *One-wire*: `MeasurementsSound` (one measurement at a
  time, of the current sensor, one slot per sensor) and `SensorsServed`.
- `ActuatorsTypeOK`, `NodeTypeOK`, `DevicesTypeOK`, `StoresTypeOK`: the types, which
  include the bounds of queues, counters and indices.

### Why the bounds are enough

- *Heaters* share nothing, so one is enough for what happens inside a heater;
  the proofs are for any set. Two different phase lengths within a period leave
  each mode with a phase of one and of several ticks, and a latency of one tick
  lets commands and further interrupts come while an item is queued.
- *Shutters* share the power, so two are needed: one may stop, start or be
  waiting for the power while the other does. With `Full = 4` and `MinDiff = 2`
  there is a move that is too short, a relative one, both full ones, and a value
  out of range. `shutter_shipped` uses a travel of one tick and no latency to
  stay small; its invariants are proved without those bounds.
- *Pulses*: three pins for two blocks so that the slab runs out; any command on
  the first pin and pulses or cancels on the others, and frames with several
  pulses. A pulse of two ticks, a busy turn of one, a late wake-up of one, and a
  poll interval equal to the pulse give every order of expiry, turn and command.
  Nothing bounds the number of frames: pins are commanded again while their pulse is
  pending, after it ended with its block free (where the run stops), and with its
  block another pin's.
  A pulse of no duration, outputs that rest high, a self-managed pin and an input
  are in the configurations.
- *Node*: a queue of one and a single block run out with two frames; a command
  that resets, one that turns the watchdog off, one that does neither and one
  that does both ways meet each other, unreadable frames, failed sends up to the
  limit and past it, and telemetry. The safety properties are proved for all
  bounds, and for any number of frames.
- *Multi-instance*: with three instances and three frames a slot is overwritten
  by a frame popped by a third instance, and an instance finds frames in the
  controller and in its slot. One reception fails in any round, so that the order
  of the instances shifts; the theorems are for any number of failures.
- *Diagnostics*: with three slots and four boots the ring is filled, wraps and
  loses its oldest context; counters and run counts wrap at three; one tick of
  uptime is enough for sums to differ.
- *Settings*: two instances whose defaults differ, two attributes so that a write
  of one must keep the other, and two resets, so that a boot that repairs a
  damaged block is cut itself.
- *Expander*: two pins, so that writing one may disturb the other, and one failure
  anywhere. *Shell*: a queue of three fills and drops. *Power monitor*: counters
  modulo 16 wrap every second or two, and a frequency may be below, within or above
  its limits.
- *One-wire*: more sensors than places, a registered and a free place, and two
  faults: a sensor may leave and return, be missed by a search and misread.

`CHECK_DEADLOCK FALSE` is set for `actuators`, `board_shared` and `board_twice`,
whose models stop where a block was freed twice. Bounds that cut behaviours off, all
named in the guards: `MaxResets` and `MaxUptime` (`ResetDiag`), `MaxCuts`
(`Settings`), `MaxFailures` (`BoardPins`), `MaxFaults` and `MaxStops` (`OneWire`),
`MaxFrames`, `MaxTriggers` and `MaxRxErrors` (`MultiDevice`), `MaxInputs` (`Node`).
`MaxLatency`, `MaxBusy`, `MaxLate` and `MaxDelay` are not bounds on the exploration
but on the system.

### The violations

- `heater_invalid`: the command handler passes the frame's value minus one on
  without a test. For a value above the last mode, `heater_set_mode` cancels the
  event of a pulsed heater and only then returns `-EINVAL`: the heater stays in
  its mode with no next phase, until another mode is commanded.
- `shutter_unchecked`: the handler's comment says the power was "necessarily"
  on for the start-up delay. Without `CONFIG_CHECKS`, a command that reaches a
  shutter whose work item is queued may power the motors just before the item
  runs.
- `board_shared`: a pin keeps the pointer to the block of a pulse that ended.
  Once the block is another pin's, the next pulse command on the first pin
  cancels that other pulse without resetting its pin. A garage door relay then
  stays closed.
- `board_twice`: if the block is still free, the second pulse on the pin frees it
  again: one pin, two pulses, the first one over. This is the documented use of a
  garage door (a pulse for every press), so what the kernel's slab makes of a block
  that its free list holds twice decides whether later pulses share a block.
- `multi_leaves`: an instance that pops another's frame is told there is none,
  and leaves the round with its own slot full. The next turn gets to it, which is
  what `FramesSettle` shows; but until then it waits for the poll.
- `onewire_errors`: only `-OW_DS_DRV_SENS_MEAS_FAILED` gives a sensor up, and the
  driver never returns it to the handler. The slot of a sensor that was unplugged
  stays active, is tried for ever, and counts as present for the next search;
  the limit of four errors has no effect.
- `extio_inputs`: the start-up of the board sends the expander its initial state,
  zero, where the comment says "inputs": all its pins are driven low until the
  configuration is applied.

`FreedTwiceAfterEnd` and `PulseStays` bound the two faults of the pulses from the
other side, for any frames: the first one cannot come of anything else, nor can the
second, and everything else that is stated of the pulses holds up to the step that
frees a block twice.

### Fairness

`Tick` is weakly fair because the timer runs; an expired event's interrupt is
weakly fair because interrupts are enabled; a queued work item of the drivers is
weakly fair because the kernel is cooperative and every thread, the main loop
included, blocks or yields once per turn. In `Node` the main thread's own steps
are part of the model, so that a work item is enabled only while that thread
blocks, again and again: there it is strongly fair. The main thread is weakly
fair when it can run, the polls of `MultiDevice` end because they have a timeout
and its receptions fail a bounded number of times in a round,
and the watchdog resets when it has run out. No command, frame, trigger, plugged
sensor or character is assumed ever to come, or ever to stop coming. `stores`
and `actuators` state no liveness and use no fairness.


## 4. The theorems

All proofs are for any value of the constants - sets of heaters, shutters, pins,
commands; durations, latencies, sizes of queues, slabs and rings, numbers of
instances and resets - under the named `ASSUME`s of the modules, which TLC
evaluates on every run.

**`HeaterProofs`.** `TypeCorrect`. `PilotWireImplemented`, the refinement: the
initial state maps to the initial state of `PilotWire`, a frame of commands to
`Told`, a work item that runs to `Pulse` or, if its heater left the pulsed modes
meanwhile, to a stutter, and everything else to a stutter. It needs `SteadyOutputs`
(a steady mode has its signal) and `PhaseMatchesOutputs` (a pulsed heater's outputs
are those of its phase), which are inductive with the type invariant, since a change
of mode resets the phase with the mode. `PulseAlive`, that `NeverStalls` (and that a
half-phase signal left on the wire is due to end now) holds *if* frames carry modes
only, the condition the violation above shows to be needed; it is inductive under
that condition. What every operation does to a heater's record is a lemma of its
own. `PulseInTimeHolds`, under the same condition: a pulsed heater changes its phase
within a period and the latency, a time every tick shortens and no command for
either pulsed mode lengthens. `DutyCycleHolds`, under the same condition, from
`CycleInv`, which says where in its cycle a pulsed heater is: a command waits for the
phase it found to end (`Starting`: the event it meant to schedule may run already);
the phase that follows may keep a signal that is older than the phase (`FirstPhase`),
hence the quiet time; in any later one (`LaterPhase`) the time the signal was held
and what is left of the event, or what the work item waited, add up to the phase.

**`ShutterProofs`.** `TypeCorrect`, with durations in 16 bits whatever is
commanded; `PowerTrackedHolds`, from `RunningIsTrackedHolds` and
`IdleMeansUnpoweredHolds`, with or without the checks. Their invariant
(`TrackInv`) adds two facts: a shutter about to be moved counts as one that is,
and the flag `powered`, which lags behind the output `power`, is set only while a
shutter runs. Under the checks: `OneStepAheadHolds`, `DrivenOnlySettledHolds`,
`PowerSettledInHandlerHolds` and `NoReversalHolds`. Their invariant (`CheckedInv`)
is about time: until the driver knows the power to be on, what is left of each
shutter's event covers the rest of the start-up delay, so that the first work item
to run finds the power settled for all; and a shutter that is driven has nothing
but its stop ahead, so that the other direction has to wait for it.
`PositionDriftHolds`, from `DriftInv`, which says where a shutter is with respect
to where it was told to go: there, about to leave, or on its way. A full move
arrives wherever it started from; a partial one arrives within the bound, which
grows by the ticks its stop comes late. `MoveInTimeHolds`, also under the checks:
the bound on what is left of a move is an invariant on its own, and a shutter that
runs is busy, so that no command touches it. `MoveRunsOut` needs no checks: what is
left of a move never grows but by a command to that very shutter, and time takes
from it.

**`NodeProofs`.** `TypeCorrect`, with the bounds of the queue and of the
controller. `NothingStrandedHolds`, from `Kept`, which also holds in the spin.
`SleepsDrainedHolds`, from `Signalled`: from the end of a turn on, not only in the
poll, a frame that came has left its signal; the turn's last look at the
controller found it empty, and the edge of the next frame raises the signal.
`WatchdogPatientHolds`, from `InTime`: what is left of the watchdog, with the time
the thread has been late, covers what is left of the sleep and the latency; the
assumption is that the timeout exceeds the poll, and the sleep after an error, by
twice the latency. `ResetInTimeHolds`, from `ResetBounded`: in the spin the watchdog is on and within
its timeout, and before it the delay and the work item are within theirs; each step
of the node either leaves the three alone or moves the reset to its next stage,
which never takes longer than what was left of the one before.
`AckBeforeResetHolds`, from `AckAhead`: while the answer is
delayed or queued, what is left of the reset's delay exceeds what is left of the
answer's delay and of the workqueue's latency; the assumption is `MaxDelay +
MaxLatency < ResetDelay`.

**`StoresProofs`.** `SettingsSoundHolds`, from `Stored`: block by block, what a
boot has come to is good, what it has not come to is good or damaged by a cut,
and the one being written is known from the step of its write; `Driven` ties the
count of drives to the flag that allows one. `PinsSoundHolds`, from `StateAgrees`
and `ReadAgrees`, which says of the sample of a read under way what `PinsSound`
says of the buffer, and that the interrupt line stays low without a pending edge
only if an interrupt came in the middle of a read. `ShellWakesHolds`, from
`Woken`: a semaphore that is taken has a character ahead that gives it back.
`PowerSoundHolds`, from `Counts`: the counter is ahead of its last value by the
edges of the second, wrapped or not, which needs the assumption of the source's
comment that a second's edges fit the counter. `StoresTypeCorrect`, the type
invariant of the composition `MCStores`, from those of its parts: a part moves as it
does alone, or not at all.

**`ResetDiagProofs`.** `TypeCorrect`. `StoreHasEndHolds`: the image being
written, which a reset may make the stored one, needs the same invariant
(`Ends`). `BootRecordedHolds`: from a lemma on the ring for any number of slots
(`ContextSaved`), whose core is that the slot just written is the one found
before the new end, wrapped around or not; that the end exists rests on the well
ordering of the naturals. `StreakRightHolds`, from `StreakExactHolds` and
`StreakNeverShortHolds`: from `Accounts`, which says for every stage of the boot
what the RAM context already accounts for: the uptime since RAM was lost or cleared,
with or without what the run of the clear had lasted before it. In the middle of the
boot the same sum is held in other fields; the turn that brings the run's first
part back is the only step that goes from without to with (`UptimeSeen`: until then
the context has no uptime of its run, as of a clear). `LogImplemented`, the
refinement of `ResetLog`: from `LogInv`, that the store can be read as a log (`Store`: it has an end, and of the
slots after it all hold a context or none does) and that what is being written is
what is read with this reset added, with counters cleared, or nothing. `ReadLastIs`
then gives what is read back of every age, and `SaveLog` that saving a context puts
it before those, of which the oldest goes when the ring is full.

**`OneWireProofs`.** `OwTypeCorrect` and `MeasurementsSoundHolds`, from `OwInv`,
both of them with the fact that a conversion is under way only for an active
sensor, which the search, that resets it, keeps. A search is a recursion over the sensors of the
bus: that its states exist is shown by the least sensor at which they would not,
and that each of them is sound (one slot per sensor) by the least at which it
would not be. `TurnComesHolds`: the runs of the work item until the measurement of a
slot is over (`RunsLeft`) are less than two for each slot, grow only when that
measurement ends, and each run that does not search the bus takes one off.
`DevicesTypeCorrect`, the type invariant of the composition `MCDevices`, as for
`MCStores`.

**`MultiDeviceProofs`.** `MultiTypeCorrect`, and `MailboxImplemented`, the
refinement: every step of the instances maps to a delivery, a handling, an
overwriting or a stutter of `Mailbox`. It needs one fact: the frames in the
controller are numbered in order and above those already popped, so that a slot
never holds the frame that is being popped. `TurnShortensHolds`: the measure
`TurnLeft` counts two for a frame in the controller, which may have to be put aside
first, one for a frame that was, for a telemetry request and for an instance that is
to leave the round; every pass that does not fail makes it smaller, and only a frame,
a request or the next round makes it larger. That a pass is for an instance still in
the round rests on the arithmetic of the search for the next index (`NextIndexIn`).

**`BoardControlProofs`.** All properties of the pulses, for any frames at any pace.
The invariant `BoardInv` is the types, which hold whatever happens, and, until a
block was freed twice, `InOrder`: `Slab`, that blocks are free or pending, each once,
and a pending block is the one its pin remembers (but not the converse: a pin may
remember a block that is free or another's); `Owes`, for a pin with a pulse, that the
age of the pulse and what it has left, less the time not yet taken off the queue, make
up its duration to within the turn that began it; and `InTime`, that a sleep does not
outlast the first pulse. A frame is a recursion over the pins, and each pin's command
may touch another pin's pulse through the block it remembers. What is carried from pin
to pin is what a command does to its own pin (`Done`), that it gives no other pin a
pulse (`Back`), and that it takes a pulse only from a pin that remembers the same block
(`Others`, `Kept`). A frame that commands pulses only of pins that own what they
remember (`Clean`) frees no block twice, which is `FreedTwiceAfterEndHolds`; one that
commands no pin that remembers a pulse's block (`Spared`) leaves the pulse as it is,
which is `PulseStaysHolds`.

**Only model-checked.** Liveness (`KeepsPulsing`, `EveryMoveEnds`, `ResetComes`,
`FramesSettle`, `SensorsServed`): it rests on fairness and thus on `ENABLED`, which
TLAPS does not reason about. What is proved of each is its safety half, a bound or a
measure that the steps towards the event make smaller and that nothing sets back but
what the theorem names: `PulseInTimeHolds`, `MoveInTimeHolds` and `MoveRunsOut`,
`ResetInTimeHolds`, `TurnShortensHolds`, `TurnComesHolds`. What TLC adds is that
ticks, passes and runs of the work item keep coming. Every other property of a
passing run is stated by a theorem, but for `ActuatorsTypeOK`, which is two: the
`TypeCorrect` of `ShutterProofs` and of `BoardControlProofs`.


## 5. What is abstracted

- Time is in ticks; the ratio of the durations is kept, their values are not.
- What the `caniot` library does with a frame is open in `Node` and `MultiDevice`,
  but for its answer and the calls it makes back into `dev.c`. In `MultiDevice` an
  error it reports after a frame was taken keeps the instance in the round, as
  success does, so that the two are one step.
- `TxDrain` sends a whole queue in one step: nothing else runs in between but
  interrupts, and a frame one of them queues is as if queued after. The build
  that sends from a thread of its own is woken by the same calls.
- The one critical thread of the watchdog is the main thread: no other registers.
- `BoardControl` handles frames at any time of a turn and leaves telemetry to
  `Node`.
- The kernel's queue of events with equal expiry has no order in the models.
- The checksum of an EEPROM image is taken to detect any mix of two images: the
  eight bits leave a chance of 1 in 256 that is not modelled. A RAM field of
  several bytes is written in one step.
- `diag_reset_get_last_reason` answers for earlier resets from a log that skips
  resets of unknown reason, so its ages shift; the log itself is what is checked.
- Sensors are identified by their address; temperatures, times of conversion and
  the type byte of an address are left out.
- Telemetry payloads, logging, LEDs and the shell's output.


## 6. Not modelled

- *Temperature conversions* (`devices/temp.c`, `tcn75.cpp`) and *converter*
  (`mcp3008.c`): arithmetic and one exchange on a bus, without state.
- *Nodes* (garage door, alarms, development boards): default configurations, and
  telemetry on input changes, which `Node` has as `TriggerTelemetry`.
- *Board support*: register access and pin tables; of the two boards, the pins of
  the Tiny one and its expander are modelled, and the input interrupts of the
  other.
- *Attribute tables* of `dev.c`: reads and writes of the clock, the uptime and the
  identity through the library.
- *Monitor and utilities*: debug output, dumps, checksums and filters.


## 7. What is left

- An abstract reset command for `Node` to implement: what the controller sees of a
  reset, without the queue, the slab and the watchdog.
- The conversions of temperatures as operators checked against their definition.
