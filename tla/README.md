# Formal model of mame-sbc

mame-sbc is MAME with a set of single-board computers (EMUZ80, sbc8080, sbc6800
and others) that talk to the host terminal through one UART device. The
repository is MAME's emulation core plus those boards; this directory holds TLA+
modules of the parts the boards run on, TLC configurations that check them, and
proofs that TLAPS checks.

Paths below are relative to `src/` of the repository (so MAME's own source is
under `src/src/`).

## 1. The system

| Component | Source | State | Operations |
|---|---|---|---|
| Terminal UART | `src/devices/machine/uart_tty.cpp` | receive and transmit registers, status bits, two one-shot timers with a phase each, RxRDY line, input descriptor | `data_r`, `data_w`, `status_r`, `update_timer_rxd`, `update_timer_txd`, `device_reset`, `kbhit`, `getch`, `putch` |
| Polled terminal link | `src/sbc8080/sbc8080.cpp` and the other boards, their ROMs | the status byte a program last read | status poll, read, write |
| Executing devices | `src/emu/diexec.cpp`, `.h` | reasons for suspension (`m_suspend`, `m_nextsuspend`), eat-cycles flags, trigger, spin timer | `suspend`, `resume`, `yield`, `spin`, `spin_until_*`, `trigger`, resets, clock changes |
| Input lines | `src/emu/diexec.cpp` (`device_input`) | queue of 32 events per line, its timers, current line state | `set_state_synced`, `empty_event_queue`, `default_irq_callback` |
| Scheduler | `src/emu/schedule.cpp` | base time, execute list, timer lists, quantum list, callback in progress | `timeslice`, `execute_timers`, `adjust`, `enable`, `timer_set`, `synchronize`, `apply_suspend_changes`, `postload` |
| Machine run loop | `src/emu/machine.cpp` | paused, pending exit and resets, scheduled save or load | `run`, `schedule_*`, `immediate_*`, `toggle_pause`, `handle_saveload` |
| Rewinder | `src/emu/save.cpp` | bounded list of states, current and first invalid index | `capture`, `step`, `invalidate`, `check_size` |
| Work queues | `src/osd/osdsync.cpp` | listed items, their counter, free items, worker threads, events | `osd_work_item_queue_multiple`, `osd_work_queue_wait`, `osd_work_item_wait`, `osd_work_item_release`, `osd_work_queue_free`, worker loop |
| CHD compressor | `src/lib/util/chd.cpp` | ring of work items | read, compress, write hunks over two work queues |
| Serial interface, i8251 | `src/emu/diserial.cpp`, `src/devices/machine/i8251.cpp` | shift registers, mode and command | bit clocks, register accesses |
| Attotime | `src/emu/attotime.cpp`, `.h` | (a value) | add, multiply, divide, compare |
| Z80 daisy chain | `src/devices/machine/z80daisy.cpp` | per device interrupt state | acknowledge, `reti` |
| CPU cores | `src/devices/cpu/` | registers, icount | `execute_run` |
| Board drivers | `src/emuz80/`, `src/sbc8080/`, `src/sbc6800/`, `src/sbc6809/`, `src/pldr6502/` | none of their own | address maps, ROM loading |
| Frontend, debugger, Lua, netlist, 3rdparty | `src/frontend/`, `src/lib/`, `3rdparty/` and others | | outside this project |

**How they interact.** One emulation thread does everything but work items. The
run loop calls `timeslice`; that runs each executing device for a slice of
cycles and then calls the timers that are due. An instruction may access a
device (`data_r`, `data_w`), and a device's handler or a timer callback may call
back into the scheduler (`adjust`, `suspend`, `trigger`, `synchronize`) while
`timeslice` holds values it computed before the call. A device raises another's
interrupt line through an input line, whose events are queued and delivered by a
temporary timer, so that both devices see the change at the same time. The UART
uses two scheduler timers and the host's `select`/`read`/`write`.

**Where it is hard.**

- *Re-entrance instead of threads.* The target of a pass, the cycle counts of a
  slice, the execute list and the timer being called back are all in use while
  arbitrary handlers run and change what they were computed from.
- *Two-step changes.* Suspension is asked for in `m_nextsuspend` and applied
  later; a pending flag, the execute list and, when a device suspends itself, the
  end of its slice must agree with it.
- *One-shot timers.* The receiver, the transmitter and spin timers are armed
  once at a time. One path that forgets to arm them stops the device for ever.
- *Resets and save states between any two steps*; not all of the state is saved.
- *Parts that are not saved.* A line's event queue and the temporary timer that
  empties it are in no save state; `can_save` has to keep saves and loads away.
- *Threads.* Work queues have workers, and a caller that works too, synchronised by
  two events that are reset as well as set, and by counters read without a lock.
- *Time is an approximation*: devices stop on instruction boundaries, so they are
  ahead of or behind the base time, and time is kept as seconds and attoseconds.

**What makes each component correct.**

- UART: no character lost, duplicated, reordered or overrun for a program that
  looks at the status; the line's pace is kept; neither direction gets stuck.
- Executing devices: a request is in force at the latest in the next pass, one a
  device makes of itself ends its slice, no suspension outlives its reason, the list
  agrees with the flags, a save state restores all of it.
- Scheduler: bounded drift between devices, callbacks in order and not late, no
  cycle lost or invented, time never goes back, every armed timer fires.
- Input lines: a line ends in the state it was asked to have last, also when the
  queue overflows and over save and load; its queue always has a timer.
- Run loop: every request is answered, at a point where no temporary timer is
  outstanding.
- Rewinder: bounded memory, indices inside the list, rewinding goes back.
- Work queues: every item runs once and is released only when it is done, the
  counter is right when it is read, no wake-up is lost, every call returns.
- Serial and i8251: what is shifted out is shifted in; status follows the mode.
- Attotime: exact against rational arithmetic, saturating at `never`.
- Daisy chain: the highest-priority request is acknowledged, and only once.

## 2. Modules

| Module | What it is |
|---|---|
| `Uart` | the UART under any order of accesses, expiries, key presses, resets |
| `UartPolled` | `Uart` with a program that polls as the ROMs do |
| `TerminalLink` | abstract specification of what that composition promises |
| `ExecSuspend` | suspension of executing devices, and the scheduler's part in it |
| `TimerLists` | operators: the ordered timer list |
| `Scheduler` | the time-slice loop, cycle accounting, timers |
| `InputLines` | the lines' variables and operations |
| `Machine` | the run loop with save states over `InputLines` |
| `MachineRewind` | `Machine` with a rewind state captured and loaded by the debugger |
| `Rewinder` | the rewinder's list, indices and capacity |
| `WorkPool` | abstract specification: queued, run once, done, free |
| `WorkQueue` | the threaded work queue, which implements `WorkPool` |
| `MC...` | finite instances |
| `..._proofs` | theorems and proofs about the module before the underscore |
| `SchedulerTime_proofs` | theorems about `Scheduler`'s clocks, over `Scheduler_proofs` |

A definition commented as a *faulty variant* is a plausible mistake in the
definition after it. Nothing refers to it; substituting it makes one of the
properties fail, which shows what that property guards against.

### Uart

Variables carry the names of the members (`data_r_ready` is `m_data_r_ready`);
`timer_rxd` and `timer_txd` are the time left on the emu_timers, `Never` when
disabled. One action per handler: `DataR`, `DataW`, `UpdateTimerRxd` (its three
paths are `Receive`, `PollAgain`, `EndOfCharacter`), `UpdateTimerTxd`,
`DeviceReset`; `status_r` only reads here and becomes an action in `UartPolled`.
`kbhit`, `getch` and `putch` are the operators `KbHit`, `GetCh`, `PutCh`:
Ctrl-O opens a file and itself reads as NUL, DEL reads as backspace, the end of
the file reads as NUL and gives the terminal back. If the file cannot be opened
the descriptor is -1, and `FD_SET` on it is undefined, so `KbHit` may answer
either way. With `TtyFails` the terminal itself may be at its end or fail whenever no
key waits: it is then readable, and `GetCh` gives a NUL. `m_phase_txd` is not initialised before the first write, so `Init`
leaves it open. `Type` and `Elapse` are the environment. `Elapse` is disabled
while a timer is due: the scheduler calls due timers before time moves on.
`sinceRise`, `sincePut` are ghost stopwatches for the properties
about pace; `typed` and `resets` count against the bounds.

### UartPolled and TerminalLink

`StatusR` stores the two status bits; `ReadChar` and `WriteChar` use a bit and
drop it, so any number of timer expiries, keys or a reset come between status
and data. `TerminalLink` has one queue of incoming characters, read in order,
and a printed text that follows the written one. The refinement maps `incoming`
to: the unread character, then what is left of the file and its closing NUL,
then what each waiting key will become (`Arrives`). A reset may drop the head of
`incoming`, nothing else. `LinkSpec` is the whole of `TerminalLink`, `LinkSafe` all of
it but its fairness, that what arrives is read.

### ExecSuspend

A set of reasons stands for the bit mask; `nextsuspend`, `suspend`, `eat`,
`nexteat`, `trigger`, `pending` are the members of the same names. Requests
(`HaltLine`, `ResetLine`, `Yield`, `SpinUntilInterrupt`, `SpinUntilTime`,
`InterruptTrigger`, `PreReset`, `ClockChanged`) come from the executing device
or, between passes, from a callback. `StartPass` is `apply_suspend_changes`
included; `Visit`, `EndSlice`, `EndPass` walk the list. The list is represented
by `front`, the devices that were active when it was built: both parts are in
enumeration order, so `front` determines it. `Save` and `Load` copy exactly the
items registered for saving; `Load` does what `postload` rebuilds. `sliceOver`
records that `abort_timeslice` took the remaining cycles (`Scheduler` has the
arithmetic). That call does nothing for a device that is not the executing one
(`diexec.cpp:97`), so `Abort` and `Changed` name their device: a request for another
device leaves the slice under way alone and waits for the next pass. `atPass` and `atSlice` are ghosts.

### Scheduler and TimerLists

`phase` is the place in `timeslice`/`execute_timers`. A pass is `StartPass`
(target, suspend changes), then `SkipCpu`, `EatCpu` or `RunCpu` for each device
in list order, then `EndPass`; timers are `CallBack`, `CallbackDone`. A core is
any program whose instructions take up to `MaxInstr` cycles, split in two around
the calls it makes (`StartInstruction`, `FinishInstruction`). Calls (`Adjust`,
`Enable`, `SetTimer`, `SuspendResume`) happen inside an instruction or a callback.
`ran`, `running`, `icount`, `stolen` are `m_cycles_running` and companions and
`StealCycles` is `abort_timeslice`. Time is a natural number, but `Delta` takes
seconds and the rest apart as `timeslice` does. How suspension is decided is
left to `ExecSuspend`: here a device's next mode is run, eat its cycles, or
stall. `owed`, `worked` and `stalled` are ghosts: when a timer's callback is due, the cycles a
device has really spent, and the devices whose clock has stood still. A timer is
never owed before those in front of it on the list. That matters because `enable`,
unlike `adjust` and `timer_set`, does not end the slice: a timer it puts at the head
waits for the slice's old target, and a timer set behind it later in the slice is
not the head, so it does not end the slice either and waits as well.

### InputLines, Machine and MachineRewind

`InputLines` has, for each line, `m_queue` up to `m_qindex`, the number of its
temporary timers (an overflow flushes the queue and leaves its old timer, so there may
be several), `m_curstate` and the level of the CPU's input; `wanted` is a ghost. All
events of a queue are applied at one moment and nothing can look in between, so
`EmptyEventQueue` leaves the last one's state. The code gives the CPU each of them
(`execute_set_input`), so what a core that looks for edges makes of those before the last
is not modelled, and no property is about it. Vectors are left out.

`Machine` is the loop of `run_machine`: `Enter` is the loop's condition and the
choice between `timeslice` and `frame_update`, `EndSlice` their end with
`handle_saveload`. In a slice devices change lines (`Send`), timers expire
(`LineTimer`, `Synchronize`, `SoftReset`), the CPU takes interrupts; in slices and frames
the user makes requests. Other devices' temporary timers are one flag, `anon`. A
snapshot holds what is registered with `save_item`. A load restores it and drops the
temporary timers, as `postload` does, or finds no usable file, or stops half way
(`Tear`: any of the variables loaded, no `postload`). A save writes the file, or
fails and removes it, or cannot open it. Emulated time is counted in timeslices;
a second is `Patience` of them.

`MachineRewind` adds the debugger's captures and rewinds, which do the same without
asking `can_save`.

### Rewinder

`list` is `m_state_list` with each state's time and validity, `cur` and `firstInvalid`
are the indices (-1 for none), `now` is the machine's time. `CheckSize` is `check_size`
and the increment its caller makes of the answer. `SingleStep` and `Go` are the debugger's
commands, each followed by running on. `CaptureFails` and `StepFails` are states that
cannot be saved or loaded.

### WorkQueue and WorkPool

An action is an access to shared memory, a critical section of `queue->lock`, or a few
such where no other thread reads what is between them; `pc` is each thread's place, thread 0 calls and the others work. `Enqueue`, `AddItems`,
`WakeWorkers` are `osd_work_item_queue_multiple`; `Pull` to `Tell` are
`worker_thread_process`, run by workers, by a caller that helps and by one without
workers; `Idle` to `Retire` are `worker_thread_entry`; `QueueWait` to `Leave` are
`osd_work_queue_wait`; `ItemWait`, `Release`, `Await` to `Dispose` are
`osd_work_item_wait` and `osd_work_item_release`; `Free` and `Join` are
`osd_work_queue_free`. Merged into one step, as nothing in between is read together:
`--items` with `done = true`, taking free items with listing them, looking at all
wake events. An event that does not exist yet is one that is not set. Calls on a queue
come one at a time. The 100 seconds of `osd_work_item_release` never run out; all
other timeouts may, at any time.

The refinement maps an item to `queued`, `running`, `free` or `done`, by where it is.

## 3. What is checked

| Run | Checks | What it shows |
|---|---|---|
| `uart` | `TypeOK`, `TxTimerCoherent`, `ReceiverCoherent`, `NoRxOverrun`, `RxPaced`, `TxPaced`, `TxDrains`, `KeysAreRead` | neither direction gets stuck, nothing is overrun, the line's pace is kept whatever the program does; a program that reads gets every key, also after a file |
| `uart_polled` | `StatusStillTrue`, `LinkSpec` | a status bit is still true when it is used; the polled UART implements `TerminalLink` |
| `exec_suspend` | `TypeOK`, `Settled`, `ListMatchesSuspend`, `PassRunsWhatWasAsked`, `RequestEndsSlice`, `SpinTimerArmed`, `YieldEnds`, `ResumeWorks`, `SpinningEnds` | the scheduler's view of suspension is never older than a pass, over saves and loads; a device that suspends or wakes itself loses the rest of its slice; no wait outlives its reason |
| `scheduler` | `TimersListed`, `DevicesKeepTogether`, `CalledBackInTime`, `CyclesAccounted`, `SliceAsserts`, `DeltaOfRunners`, `TimeMovesForward` | bounded drift, timely callbacks, exact accounting, also beside a device whose clock stood still |
| `sched_order` | `CallbacksInOrder`, `TimersFire` | callbacks come in order, and they come |
| `save_load` | `QueueTimed`, `LineAgrees`, `EventsDelivered`, `RequestsAnswered` | saves and loads, failing ones too, neither lose line changes nor leave a line dead; saves, loads, exits and resets are answered |
| `rewinder` | `IndicesInRange`, `MemoryBounded`, `CapturedIsKept` | cutting and turning the list keeps indices, memory and the newest state |
| `work_queue` | `CountsAddUp`, `NoSignalLost`, `PoolSpec`, `ItemsRun`, `CallsReturn` | every item runs once, none is forgotten, nobody sleeps while nobody is on the way to wake them, every call returns without its timeout |
| `sched_stall`, `work_reuse`, `rewind_lines`, `rewind_back` | one property each, violated | see Findings |

### Bounds

- **UART.** A tick (`get_tick()`) is 2 units, so an access can fall before, between
  and on expiries; the delay after a line end is 1 unit (any delay makes the
  same distinction: longer than a tick); 2 key presses, which is a key waiting
  behind Ctrl-O or behind an unread one; a file of a plain byte and a line end; 2
  printed characters, which is one after another or one into a busy
  transmitter; 1 reset. `uart` has a terminal that may end or fail (`TtyFails`), which a
  link that loses and invents nothing cannot have. With the polling program a tick is 1 unit: the program's
  own steps are already separate from time.
- **ExecSuspend.** 2 devices, one of them configured as disabled; 3 requests, saves
  and loads together. Spin trigger ids wrap at 2 instead of
  256, so that a wrap happens within the bound.
- **Scheduler.** Cycles of 2 and 3 units, so devices meet only at multiples of 6;
  instructions of up to 2 cycles; one permanent and one temporary timer; delays
  0, 3 and never. `scheduler` has a quantum of 7, longer than the longest
  instruction (a slice that is wrongly not cut short is then seen to be late)
  and a multiple of neither cycle; a second of 11, longer than a quantum and the
  lag of a device together, as in the code, and short enough to roll over;
  passes that start before 6; 3 calls; all ways of being suspended. `sched_order` and
  `sched_stall` have a quantum of 5, a second of 8, passes that start before 8 and
  12, and 2 calls. `Horizon` stops the loop, which is why these runs, like those
  below that come to an end, say `CHECK_DEADLOCK FALSE`.
- **`sched_order`** also assumes that nobody calls `enable()` on a disabled timer whose
  expiry is past (`EnablePast = FALSE`): such a timer is due at once, at its old
  expiry, and `time()` steps back for its callback. `scheduler` runs without that
  assumption.

- **Machine.** 1 line (lines do not touch each other); a queue of 2, so the third
  change overflows it; a second of 2 timeslices; 3 changes and 3 requests, which is
  a save, a load and a pause or exit around an overflow. It ends at its exit.
- **Rewinder.** States of 2 in a capacity of 7: neither a whole number of states nor a
  tight one; 7 units of time, so that the list fills, is cut and is turned several
  times. `rewind_back` has room to spare, and every save and load succeeds in it
  (`MayFail = FALSE`): neither turning nor a failure is needed for it.
- **WorkQueue.** 2 items, queued one by one or together and used again; 5 queues:
  none, one and two workers, with and without `MULTI` and `HIGH_FREQ`, items that are
  released by the worker or by the caller. Two workers, a helping caller and a batch of
  two is the smallest instance in which a thread drains the list while another runs an
  item. It ends when the queue is freed.

### Fairness

- Timer expiries and the passing of time are weakly fair: the run loop calls
  `timeslice` without end, and `timeslice` ends only when due timers have been
  called. This is `Fairness` of `Uart`, `WF(Slice)` of `ExecSuspend`,
  `WF(Timeslice)` of `Scheduler`. Instructions take a cycle at least, so slices end.
- Spin timers are strongly fair (`SpinEnds`): they are disabled during each pass, and
  passes go on for ever.
- `Machine`: the run loop is weakly fair; line timers are strongly fair
  (`LineTimer`), as they expire only inside slices, and a slice calls those that
  are due. Nothing makes the user resume a paused machine, so the properties except it.
- `WorkQueue`: every thread is weakly fair, which is the host's scheduler. Nobody
  makes the caller call, and no timeout is fair: calls return by themselves.
- `KeysAreRead` assumes a program that reads what is ready (`ProgramReads`), and
  `LinkSpec` one that keeps polling (`PFairness`), which is what the monitors and
  BASICs on these boards do when they wait for input. Nothing is assumed of the
  user.

### Findings

1. `sched_stall`: a device suspended without eating cycles for a second or more
   breaks the sub-second arithmetic of `timeslice`, against the assertion in
   `schedule.cpp:432`.
2. `work_reuse`: a worker marks an item as done and sets its event later. The queuer may
   see the mark, release the item, queue it again and wait for it in between; the
   late set ends that wait, and `osd_work_item_release` puts an item on the free list
   that is queued or running, though it is to "make sure we're done first"
   (`osdsync.cpp:624`). `work_queue` runs with `LateReuse = FALSE`, without that window.
3. `rewind_lines`: the debugger captures and loads rewind states without asking
   `can_save`. A load drops the timer of a queue that is not empty, and as only the first
   event of a queue arms one, the line is dead until its queue overflows.
4. `rewind_back`: `rewinder::step` goes by its two indices and never looks at `m_valid`.
   The run's trace, in which nothing fails: step, go, step, rewind, step, step, rewind.
   The first step after the rewind captures over the current state and invalidates the
   one ahead, of the run that was given up; the second captures behind that state, which
   stays in place, and clears `m_first_invalid_index` (`save.cpp:777`). The last rewind loads
   it, though it is invalid, and is not back in time (one more go before, and it is ahead
   in time). The debugger's help says "go back in time by loading the most recent rewind state"
   (`debughlp.cpp:80`).

What each of the four takes away is a theorem's assumption (section 4), which says that
nothing else is wrong there: `DeltaIsAlwaysRight`, `ItemsRunOnce`, `AskedRewinds`,
`ValidGoesBack`.

Other divergences met while modelling; no run is spent on them:

- `device_reset` of the UART clears the ready flag but not the RxRDY line, so after a
  reset with an unread character line and status register disagree.
- The pause between received characters is counted from the rise of RxRDY; `LOG.md:3049`
  asks for one after the read.
- `uart_tty.cpp:290` says that read errors are ignored; each delivers a NUL.
- `apply_suspend_changes` compares the masks, then removes `TIMESLICE`, then may lower
  the pending flag: a device yielded by *somebody else* in two passes on end stays
  suspended, for which theorem `SettledIsRight` needs `~OthersYield`.
- `osdcore.h:227` says that `osd_work_queue_free` waits for all items; it waits for the
  workers, and deletes the items that are still listed.
- `osd_work_queue_wait` may return false before its timeout, when a thread drains the
  list while another still runs an item; `osdcore.h:220` says only the timeout does that.
- The rewinder: `save.h` says that all states before `m_first_invalid_index` are valid,
  and of the check in `check_size` that it should not trigger; turning the list
  refutes the first, reaching the capacity the second. Directly after the first capture
  `step` reports that there is nothing to load.

## 4. What is proved

All theorems hold for every value of the constants that the named assumptions
allow: any alphabet, file, tick length and line delay of the UART
(`CharAssumption`, `TimeAssumption`, `BoundAssumption`); any set of devices, any
subset of them disabled, and any number of trigger ids and requests
(`DevAssumption`, `SwitchAssumption`, `BoundAssumption`); any devices, clock
periods, timers, quantum, longest instruction and horizon of the scheduler
(`CpuAssumption`, `TimerAssumption`); any number of threads, items and kinds of queue
(`ThreadAssumption`, `QueueAssumption`, `ItemAssumption`).

**`Uart_proofs`.** `TypeCorrect` first. The receiver's theorems (`ReceiverIsCoherent`,
`ReceiverPaced`) rest on `RxInv`, which says that the age of
the last rise plus the time left on the timer is at least the rest of the
character time: one period in phase 1, two in phase 0. `RxPaced` alone is not
inductive, because nothing in it relates the stopwatch to the timer. `NoOverrun`
follows from types and guards. `TransmitterCoherent` and `TransmitterPaced`
rest on `TxInv`: busy means timer armed, phase 1, and age plus time left at
least a period; it also needs that `m_data_w_ready` is never set, which makes
the second-character branch of `update_timer_txd` dead.

**`UartPolled_proofs`.** `StatusIsStillTrue`: inductive only with `TxInv`, since an expiry
that found a character in `m_data_w_ready` would fill the transmitter again.
`PollingIsALink`: every step of the polled UART is one of `TerminalLink` or changes
nothing the link shows. The mapping joins what every waiting key stands for, with
`FlattenSeq`, which is recursive. Its laws (`FlattenAppend` for a key pressed,
`FlattenHead` for one read) are inductions, and no induction theorem of the library can
be instantiated by the installed provers; they are proved from the least counterexample
instead (`Smallest`, `FirstBad`), which exists because inclusion of finite sets is well-founded.
Receiving moves the first character of `incoming` to `m_data_r` (`KeyArrives`,
`ByteArrives`, `ReceiveKeeps`) and so is not seen. It assumes `FilePresent` and `~TtyFails`: when
`open` fails, or the terminal does, NULs that nobody sent arrive, and no link does that. `CharAssumption`
says that Ctrl-O and DEL are different keys, as they are (0x0f and 0x7f).

**`ExecSuspend_proofs`.** `TypeCorrect`; then three inductive invariants.
`ListInv` (with `ExecutingRuns`: the executing device is inside a pass and not
suspended) gives `ListIsRight` and `SlicesEnd`; the latter because every request that
changes the executing device's own reasons takes its cycles (`SliceCut`, `OneCut`), and
no other gives them back. `PassInv` gives `SettledIsRight` and
`PassIsRight`, under the assumption `~OthersYield`, without which they are false
(see above); its strengthening is that a time-slice wait which is
asked for is new, never one already in force, so applying it always finds a
difference. `SpinInv` gives `SpinIsRight`: nobody waits for an id no timer will fire,
in the present state *and* in the save state, since a load makes the second
into the first. All requests are reduced to one shape (`AskedShape`) before the
invariants are shown to be preserved.

**`Machine_proofs`** holds for any set of lines, size of queue and bounds. `TypeCorrect`;
then `QueuesAreTimed`: inductive because `can_save` is asked in the state in which a load
would drop timers, so that every queue is then empty, and because a torn load, which
touches neither queues nor timers, has no `postload`. `LinesStayAgreed` needs more: the
*saved* state must agree with itself as well, with every line's queue empty at that time,
which is again `can_save`; a torn load sets the ghost that excuses it. `AskedRewinds` is
about `MachineRewind`: if captures and rewinds asked `can_save`, the same invariant, with
the rewind state agreeing like the saved one, would hold over them. The source does not
ask, which is run `rewind_lines`. Both have to: TLC finds that asking in `rewind_step`
alone keeps the queues timed, and loads states in which lines disagree.

**`Rewinder_proofs`** holds for any capacity and size of a state. Neither property is
inductive alone: `IndicesStayInRange` needs `MemoryStaysBounded`, as the list is turned
only with the index at its end, and a list that is a state over the capacity is
full. `CheckSizeIs` is the argument: at most one state is over, so the quotient is 0 or
1, and if it is 1 the list is turned. `CaptureIsKept` follows from it: with room for two
states, a list that is turned has three (`TurnsThree`), so the new one is neither dropped
nor turned. `ValidGoesBack` is about the behaviours in which every state loaded is valid,
captures and loads failing as they like: in these the valid states are in the order of
time, and those before the current one are in the machine's past (`PastInv`). Run
`rewind_back` is what happens in the others.

**`Scheduler_proofs`.** `TypeCorrect` and `AssertsHold` (the asserts of `timeslice`)
share one invariant, `Typed`: besides types it says where the base time and the target
lie (`Bounded`, without which nothing shows that `timeslice`'s difference of times, a
difference of naturals, is not negative) and that the cycles running and stolen are the
cycles given (`SliceCounts`). `ListsAreRight` rests on lemmas about `TimerLists`, given
for any list and tables: `InsertIs` and `RemoveIs` say what is in the result and that it
is in order, `SameOrder` that changing a timer that is not listed disturbs nothing. The
invariant, `Listed`, also says what the timer being called may be, as
`timer_callback` changes its time before it takes it off.

**`SchedulerTime_proofs`.** Products of two variables are beyond the solver, so
`Distribute`, `Monotone` and `Quotient` come first.
- `CyclesAreAccounted`: `Accounted` adds the cycles of the slice in progress, which
  are in no total yet. `TimeGoesForward` needs no more than `Typed`.
- `DevicesAreTogether`, `DeltaIsRight`: `Together`. A device that has had its turn in a
  pass is within a cycle of the *target*, which a later device may pull back; at the end
  of the pass the target becomes the base time. Both assume `SecondIsLong`, that a
  quantum and a cycle fit in a second: `timeslice` looks at sub-seconds only, and run
  `sched_stall` shows what it makes of a device a second behind. `DeltaIsAlwaysRight` is
  the other half: the assertion holds where nobody is suspended without eating cycles.
- `TimersAreInTime`: `Owing`. While a device runs, each timer's owed time is either not
  before the target by more than the longest instruction (`Near`), or the slice has been
  cut short so that it ends there (`Ends`). It assumes that there is a device and that
  there are finitely many, as the longest instruction is the largest of a set.
- `CallbacksAreInOrder`: `Ordered`, and `KeepsTime` for the timer being called. It
  assumes `Orderly`: besides the above, no device stalled and no timer enabled after its
  time has passed. Either brings a callback out of order.

**`WorkQueue_proofs`.** `TypeCorrect`; then `CounterIsRight`: `CountsAddUp` is inductive,
the proof is that each step changes the number of threads in a callback by
its own thread only (`RanChanges`). `ItemsRunOnce`: the work queue implements `WorkPool`, for any
number of workers. The invariant `PoolInv` says who may touch an item: a listed item is
listed once and in nobody's hand, an item being run is in one thread's hand only, an
item with auto-release belongs to the worker that ran it until it is free, an item
without belongs to the caller. It assumes `~LateReuse`; without it the theorem is false,
which is run `work_reuse`.

`SignalsAreKept` is the safety half of this module's liveness, for any number of workers:
whoever sleeps has its signal, or somebody awake is on the way to send it. It has four
parts, each with its invariant. `WorkIsAlwaysSeen` (`SeenInv`): a worker goes to sleep only
while the list is empty, and whoever fills the list wakes a sleeper or finds everybody up;
the latter needs that `livethreads` counts the workers that are up (`CrewInv`,
`WakeReaches`). `WaitIsAlwaysAnswered` (`WaitInv`): the caller looks at the counter after it
has announced itself, and what is counted is listed or in a callback, by `CounterIsRight`.
`ExitIsAlwaysSeen`: who looks after `osd_work_queue_free` has set `exiting` does not sleep.
These three need no assumption on reuse. The fourth, of a caller blocked on an item, rests
on `PoolInv` (nobody else resets that item's event) and on `Pending` (what is not done is
listed or running). That the threads do get there is fairness, which `ItemsRun` and
`CallsReturn` check.

**Only model-checked:** liveness (`TxDrains`, `KeysAreRead`, `YieldEnds`,
`ResumeWorks`, `SpinningEnds`, `TimersFire`, `EventsDelivered`, `RequestsAnswered`,
`ItemsRun`, `CallsReturn`) and the fairness of `LinkSpec`, that every character that
arrives is read, which are out of the prover's reach. Every other property of a passing
run is a theorem.

## 5. Not modelled, and why

- *Most of the repository by lines*: `src/` holds all of MAME's CPU cores, sound chips,
  tables, vendored libraries and netlists, some 730 thousand lines of implementation.
  The boards run a few hundred of them, with the core around them; only what has a
  protocol worth checking is modelled, so the share of lines stays far below 30 percent.
- *CHD compressor*: its two queues are instances of `WorkQueue`. Its ring of items is
  not modelled; one hazard of it is known: `async_read` assigns `m_osd` after queueing,
  and the consumer copes ("sometimes code can get here with .m_status == WS_READY and
  .m_osd != nullptr"). Two threads call on its work queue; `WorkQueue` has one.
- *Serial interface and i8251, daisy chain*: no board attaches them.
- *Attotime*: 64-bit arithmetic on values, no state; `Scheduler` keeps the seconds
  apart where the code does.
- *Quantum list*: `Scheduler` takes the quantum in force as a constant.
- *Devices without a clock period*: `timeslice` leaves them suspended.
- *Start-up, notifiers, NVRAM, file format*: not part of the loop's protocol.
- *CPU cores*: instruction semantics; abstracted to cycles and calls.
- *Board drivers*: address maps; no state changes of their own.
- *Frontend, debugger, Lua, netlist, 3rdparty*: outside the emulation core, except
  for the debugger's rewind commands.
- *Interrupt-driven use of the UART*: the boards' programs poll; the line's level
  is in `Uart`, how a level reaches the CPU is in `InputLines`.

## 6. What could come next

The CHD compressor's ring over two instances of `WorkQueue`; the quantum list; a proof that
asking `can_save` in `rewind_step` alone keeps the queues timed. Experience so far: sums of
primed variables and sizes that are products need lemmas of their own, equalities between
Booleans go to Zenon, and induction goes by the least counterexample.
