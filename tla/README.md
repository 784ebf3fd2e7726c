# LUPOS in TLA+

LUPOS is a bare-metal Lua machine for the Raspberry Pi: a kernel on
circle-stdlib boots into `lua_interface`, which runs `hello.lua`, whose REPL is
the user interface. This directory models what stands between a key on the USB
keyboard and a line of Lua that is executed, from the tree of USB devices to the
loop of the REPL; how the machine gets an address and finds other hosts; and the
cooperative scheduler all of it runs on. The modules are checked with TLC on
small instances, and for all of them the safety properties are proved with
TLAPS for all instances.

`PROJECT.json` has, for every definition, the source lines it stands for, and
for every property a changed form of the code under which it fails.

## 1. The system

### Components, their state and operations

| Component | Source | State | Operations | Modules |
|---|---|---|---|---|
| Scheduler, tasks, events | `circle/lib/sched/*` | table of tasks `m_pTask`, state and wake time of each task, state and waiter of each event | create, `Terminate`, `Yield`/`GetNextTask`, `Sleep`, `Wait`, `Set`, `Clear`, `WaitForTermination` | `Scheduler` |
| Keyboard buffer | `circle/lib/input/keyboardbuffer.cpp` | ring of 64 characters | `KeyPressedHandler` (interrupt), `Read` | `KeyQueue`, `KeyboardBuffer` |
| Console | `circle/lib/input/{console,linediscipline}.cpp`, `io.cpp` of libgloss, `lconsole.cpp` | options, mode and line of the line discipline, the attached keyboard | `Read`, `SetOptions`, `UpdatePlugAndPlay`, removal | `Console` |
| USB keyboard, kernel timers | `circle/lib/usb/usbkeyboard.cpp`, `circle/lib/input/keyboardbehaviour.cpp`, `circle/lib/timer.cpp` | last report, repeating key and its timer; ordered list of timers | `ReportHandler`, `KeyPressed`/`KeyReleased`, `TimerHandler`, `StartKernelTimer`, `CancelKernelTimer`, `PollKernelTimers` | `KernelTimers`, `Keyboard` |
| REPL | `luacode/repl.lua` | line and cursor, history, nested loops | one per key, execution, ^R, end of a loop | `LineEditor`, `Repl` |
| Shell | `luposapp.h`, `kernel.cpp`, `luaint.cpp`, `main.cpp` | boot progress, `mShutdownMode` | `Initialize`, `Run`, `lua_interface`, `CtrlAltDelete` | `Shell` |
| USB device tree and names | `usbstandardhub.cpp`, `usbdevice.cpp`, `usbhostcontroller.cpp`, `devicenameservice.cpp`, `numberpool.cpp` | devices at the ports, status change requests and events, names, numbers, addresses | enumerate ports, configure, handle a status change, remove | `UsbTree` |
| ARP | `circle/lib/net/arphandler.cpp` | table of entries with their frames, timers and counts | `Resolve`, `Process`, `TimerHandler` | `AddressResolution`, `Arp` |
| DHCP client | `circle/lib/net/dhcpclient.cpp` | lease and its times, transaction ID, configuration of the network | discover, request, renew, rebind, halt | `Dhcp` |
| File system commands | `lfilesystem.cpp`, `luacode/{fscmds,copy,del,dir,go,rename}.lua` | volume, current directory | copy, delete, rename, list | planned |
| File table of newlib | `io.cpp` of libgloss | slots of open files | open, close, read, write | planned |
| Key decoder | `luacode/plterm.lua` | coroutine, characters held back | `term.input` | planned |
| TCP, UDP, NTP | `circle/lib/net/*` | connections, timers | connect, send, retransmit | not modelled; the timers of a connection are the "others" of `Keyboard` |
| Editor | `luacode/edit.lua` | text buffer | editing | not planned: of the kind `Repl` shows |
| Host controllers, SD card, FatFs, screen, serial line, WLAN, Lua, newlib, start-up code | vendored or register level | | | not modelled, see section 7 |

### How they interact

* Everything in C++ and Lua that is not an interrupt is a task. A task keeps the
  core until it calls the scheduler: `lupos_yield` (from the Lua interpreter),
  `Sleep`, `Wait`. Between two such calls only interrupts intervene.
* The completion interrupt of the keyboard calls `ReportHandler`, which calls
  `KeyPressedHandler` of the keyboard buffer or the handler for Ctrl-Alt-Del;
  the timer interrupt does the same for the repetition of a held key.
* The line discipline takes characters one at a time from the buffer while the
  interrupt puts more in. `CGlueConsole::Read` calls it in a loop, and updates
  the USB device tree between two turns: there keyboards come and go.
* A hub reports a change by an interrupt, which puts an event into a list; the update
  takes the events from it, at task level, and calls the hubs they are of.
* The REPL reads single characters of stdin in raw mode and puts keys together from
  them (`term.input` of `plterm.lua`), the prompt of `lua_interface` reads lines.
* The task `net` calls `CARPHandler::Process` again and again, other tasks `Resolve` when
  they send; the timer interrupt calls `TimerHandler`. The DHCP client is a task.
* `mShutdownMode` is written by the interrupt and read by the loop of
  `lua_interface`.

### What is hard in it

An interrupt between two statements of a task; handles and objects that are
used again at the same address; a table that is scanned by the task that is
removed from it; clocks that wrap; a mode or a device that changes while a line
is half typed or half delivered; full rings, tables and histories; transfers that
fail in the middle of an enumeration; packets that come late, twice or never.
`PROJECT.json`
lists these under `hazards`, each at its line with the property that covers it
or the reason why none does. What makes the components correct:

* scheduler: no wakeup is lost, ready tasks run, sleepers wake, not too early,
  the table holds the tasks that exist, who waits for a task has an object to return into;
* keyboard buffer: it is a bounded queue although neither side is atomic;
* console: a caller gets the line that was typed, and the screen shows it;
* keyboard: each press is heard, a key repeats at its pace while it is held, a
  handle belongs to the timer it was given for;
* REPL: a key edits the text at the cursor, executed lines are put into the history;
* shell: Ctrl-Alt-Del is answered, once, and only there where it was pressed;
* USB tree: a hub is watched until a request of its own fails, what happens at one port
  leaves the others alone, numbers and names are those of the devices there are, and
  the console has the keyboard there is;
* ARP: a frame goes to the host it is for or is reported, after all attempts, and
  no entry waits for ever;
* DHCP: an address is used while it is held, given up for a reason, and got again.

## 2. The modules

Names are those of the code where there are any. A "plausible slip" in a module
is a changed form of the definition after it; it is part of no specification,
and shows that the property named in `PROJECT.json` depends on that code.

**Scheduler.** The variables `m_pTask`, `m_nTasks`, `m_nCurrent`, `m_pCurrent`,
`m_State`, `m_nWakeTicks`, `m_bState`, `m_pWaitTask` are the members of the three
classes; `pc` is the place inside the scheduler the running task has reached,
`waitsOn` the event in whose `Wait` a task's stack is. One call of `GetNextTask`
is one step (`Idle`, `Switch`, `Reap`), since no interrupt reads or writes the
table; `Wait` is four steps (`Wait`, `BlockStore`, `BlockState`, `WaitReturns`),
since an interrupt may call `Set` between them (`InterruptSet`). `Sleep` cuts long
times into pieces as the code does; the clock is counted modulo `ClockMod`. The
roles of tasks (who waits for which event, who ends, who sleeps) are constants.
An assertion or panic that fails stops the system in `failed`. The history
`overtaken` records whether `GetNextTask` has deleted a task, which makes
it start its scan again at slot 1, while somebody was waiting for another one that had
ended.

**KeyQueue, KeyboardBuffer.** `KeyQueue` is what the buffer promises: a key
puts its string behind what is there, as far as there is room, and a read takes
what there is, both at once. `KeyboardBuffer` has the ring with its two indices,
memory that is not initialised, and one step per turn of the two loops under the
spin lock. It implements `KeyQueue`, under a mapping in which a call takes effect
when the lock is let go.

**Console.** `pc` is where the reading task is in `CGlueConsole::Read` and
`CLineDiscipline::Read`, one step per character; the keyboard buffer is the queue
that `KeyQueue` specifies. Keys, `Plug` and `Unplug` come between any two steps.
`m_Line` is `m_Buffer` up to `m_pInPtr`, `m_nOut` the distance of `m_pOutPtr`.
`keys`, `got` and `shown` are history: the keys of the line, what callers have
got of it, what is on the screen. `Edited` says what keys spell without following
the line discipline: a character stays unless some stretch of keys from it on has
as many erasures as characters. A Lua number is an integer or a float, because
`lua_conmode` treats the two differently.

**KernelTimers, Keyboard.** `KernelTimers` has the ordered list with insertion,
cancellation and the poll, as operators that the actions of its clients use: `Find`
is the search for a handle, `Put` the insertion before the first timer that elapses
later, `Cancel` the removal of a handle if it is there.
`Keyboard` has `ReportHandler` with its two loops step by step, over the keys of the
last report and over those of the new one, the key that
repeats and its timer, and other clients of the kind `CTCPConnection` is.
A handle is an address, free again (`Free`) when its timer is deleted. `StartKernelTimer`
computes the time before it locks the list, so that a tick can come between.
`Unplug`, `Delete` and `Create` put another keyboard in the memory of the first.

**LineEditor, Repl.** `LineEditor` is an abstract editor: the text to the left
and to the right of the cursor. `Repl` has the string `buf` and the cursor `pos` of
`repl.lua` with the branches of `repl_loop`, the history `hist`, `hpos` with the line
being typed as its last entry, and the loops that run inside of executed lines.
`EditsLine` says that it implements `LineEditor`.

**Shell.** `phase` is where the main task is, from the steps of `Initialize` over
`Run` to the loop of `lua_interface`. `CtrlAltDelete` comes between any two steps.
What Lua code does is left open: it ends, it fails, it calls `reboot`, or never
ends. `ShellInit`, `ShellSpec` and the like have the
prefix because `PromptProofs` extends `Repl` too.

**UsbTree.** A place in the tree is the sequence of ports that leads to it;
`m_pDevice` and `m_bPortConfigured` are the members of all hubs, by place. `plugged`,
`answers` and `change` are the devices themselves: where they are, the address
they answer at, and the change bits of the hubs. `stack` is where task level is in
`HandlePortStatusChange` and the loops of `EnumeratePorts`, which call each other
for hubs behind hubs; each port is a step, and moves of the user and interrupts
(`StatusChange`, `RequestFails`) come between any two. A transfer fails when its
device is gone, or because of `Fault`: also the status request of a hub, when it ends
(`RequestFails`) or when it is made (`HubFails`, `PortsDone`). A hub whose request has
ended with an error is not asked again until it is plugged in anew: `deaf` is the
history of that. `pools` and `names` are `CNumberPool` and `CDeviceNameService`,
`m_pInputDevice` what `CConsole` has taken of them. `spoiled` is history: where
something failed, or a device replaced another one unnoticed.

**AddressResolution, Arp.** `AddressResolution` is what the link layer is promised:
frames for an address that is not known are kept, and leave together, to the
address or back. `Arp` has the table with one function per field, `Process` with a
step per packet and per entry (`pc`, `nEntry`), and the timer interrupt between any
two steps. A host is its IP and its MAC address; a frame is the host it is for.
Times are left out: a running timer may fire at once. `running` has the timers by
handle, a handle is free when its timer has fired, and cancelling a stale one
cancels the timer that has it now (`stolen`). `Resolve` runs only between two calls of
`Process`, which does not yield. The run checks that `Arp` implements
`AddressResolution`.

**Dhcp.** `pc` is where the task waits: for an OFFER, an ACK, an answer to a renewal,
in the bound state, before a restart or a renewal. Time passes by `Tick`, while it
waits. The addresses are named by their servers, `leaseLeft` is how long a server
keeps the address, counted by the server. `net` has the answers to the current
transaction: a new transaction ID drops the others, as `ReceiveMessage` would.
`CheckConfig` computes the times that a message leaves out modulo `Width`.

The proofs are in `SchedulerProofs`, `KeyboardBufferProofs`, `ConsoleProofs`,
`KeyboardProofs`, `PromptProofs` (`Repl` and `Shell`), `UsbTreeProofs`, `ArpProofs` and
`DhcpProofs`; the modules
`MC*` give the constants values for TLC.

The components are put together through what they promise: `Console` uses the
queue that `KeyboardBuffer` is proved to implement, its fairness and that of `UsbTree`,
`Arp` and `Dhcp` is what `Scheduler` is checked to guarantee (`ReadyRuns`), the
keyboard that comes and goes in `Console` is the one that `UsbTree` calls "ukbd1",
and the keys of `Repl` are those that `term.input` makes of the characters of stdin. A
product of them all would be too large to check and would show nothing more.

## 3. The runs

| Run | Instance | States | Checked |
|---|---|---|---|
| `sched_tasks` | 4 tasks, table of 3 slots, 2 events, one of them set by interrupts too | 7 258 | `NoLostWakeup`, `NoAssertion`, `TableOK`, `ReadyRuns` |
| `sched_sleep` | 3 tasks, 2 sleepers, 2 that end, one of them waited for; clock of 6 ticks | 596 874 | `NeverEarly`, `SleepEnds`, `JoinedObjectLives` |
| `key_buffer` | ring of 4, keys of 1 and 3 characters | 61 064 | `ImplementsKeyQueue` |
| `console_input` | lines of 2, queue of 2, 3 keys per line | 727 920 | `LineEdited`, `Delivered`, `EchoTrue`, `OptionsApplied`, `ReadEnds` |
| `key_repeat` | 6 reports, 1 other timer, 4 addresses, clock of 12 ticks | 1 829 172 | `TypeOK`, `HandlesFresh`, `RepeatsHeld`, `PressHeard`, `Paced` |
| `repl_loop` | lines of 2, history of 3, 1 nested loop | 1 823 642 | `TypeOK`, `EditsLine`, `HistoryChanges` |
| `shell` | all network devices | 630 | `OneMoreLine`, `LeftForPress` |
| `usb_tree` | 2 ports, 1 external hub with 1 port, 2 keyboards, 2 moves, 1 failure | 305 645 | `TypeOK`, `PoolsExact`, `Watched`, `ConsoleTrue`, `AddressesApart`, `Undisturbed`, `Served` |
| `arp` | 3 hosts, 2 entries, 2 timer addresses, 3 attempts | 169 260 | `EntriesRight`, `RightHost`, `TimerRuns`, `FailsAfterAllAttempts`, `ResolveEnds`, `ImplementsResolution` |
| `dhcp` | 2 servers, 2 tries, lease of 8 | 103 235 | `LeaseHeld`, `HaltJustified`, `GetsAddress` |

and those that show where the code does not do what is said of it (section 5):
`sched_irq_wakeup` and `usb_removal`.

The type invariants that are proved (section 4) are not model-checked in these
runs, and neither are `TimesInOrder` and `GivenUpInTime` of `Dhcp`.

### The bounds, and why they are enough

* Scheduler: three slots for four tasks fill the table and leave holes in it;
  two tasks can end in the same round while a third is created. `ClockMod` = 6
  with sleeps of up to 3 in pieces of 2 lets every sleep cross the wrap and need
  a second piece. In `sched_sleep` the task that is waited for and another one end,
  also in one round, so that the deletion of the other overtakes the main task.
  `MaxBusy` bounds how long a task computes between two scheduler calls: without a
  bound of half the clock's range the signed comparison could not work, on the
  machine either (35 minutes).
* Keyboard buffer: a ring of 4 holds 3, less than the longest key and what may
  be there before it; both indices wrap within one key.
* Console: `LD_MAXLINE` = 3 holds two characters and the end of the line, so a third
  key finds it full; a queue of 2 is full while the reader is at the first
  character; pieces of 1 and 4 are less and more than a line. `MaxKeys` bounds the
  history variable `keys` to three keys in a line. The modes of the run are raw and
  sane; that ECHO and ICANON are independent is covered by the proofs, which are
  for any options.
* Keyboard: a repetition delay of 3 and rate of 2 against other timers of 1 and 4
  put the other timer before the repetition, and the repetition before one that was
  started earlier; `ClockMod` = 12 lets all of them cross the wrap, and is as small as
  the signed comparison allows for a delay of 4 when an insertion may be late.
  `late` lets one tick come between the time and the insertion: the code in between
  is a few instructions. `MaxRemovals` = 1 is one replacement. Four addresses
  suffice for two running timers, one being started, and one of a deleted
  keyboard. Addresses are symmetric, and all properties of the run are safety.
* REPL: `MaxLine` = 2 is a cursor before, in and behind a line; three entries can be
  full, with the position in the middle; `MaxLoops` = 1 is a loop in a line of another.
  A line of three or more has a character on both sides of an edit: that case is
  covered by the proof of `LoopEditsLine`.
* Shell: `NetTimeout` is 30 seconds in the code, 3 in the run.
* USB tree: `MaxMoves` = 2 is pulling out a device and plugging in another one, at the
  same port or behind it, or two at once, between any two steps, the enumeration at
  the start included; all ways to begin with up to three devices plugged in come
  before that. `MaxFaults` = 1 lets any one transfer fail, status requests of hubs included. Two ports and a hub of one
  port are a port before and one behind every port that matters, and a loop within
  a loop.
* ARP: two entries for three hosts make the table full, entries be replaced, and
  the assertion fail; two timer addresses are reused by every second timer.
  `MaxQueue` = 2 frames of one address, `MaxRx` = 1 packet for each call of `Process`:
  any sequence of packets can still arrive.
* DHCP: two tries are the first and the last one; a lease of 8 units with a shortest
  sleep of 3, as long as all tries, puts every stage on either side of every time.
  The pairs of T1 and T2 leave both out, leave one out, and give one that makes T1
  wrap around. `Width` = 64 stands for 2^32. `MaxNet` = 1: answers replace each other
  on their way only by being received or dropped.

Deadlock is checked except where the system may stop: `sched_tasks` (every task
may wait for an event nobody sets), `sched_sleep` (the assertion of a task that has
lost the object it waits in), `repl_loop` (the state `failed`), `shell`
(`halted`, `rebooted`), `usb_tree` (nothing more to do, or stopped) and `arp` (the
assertion of `ResolveFull`).

### Fairness

* `Scheduler!FairSpec` has weak fairness of the steps inside the scheduler, of `Yield`
  and of `Tick`. The first is the processor going on; the second says that tasks
  come back to the scheduler, which cooperative tasks must, and which LUPOS sees to
  by the call of `lupos_yield` in the Lua interpreter; the third is the hardware
  clock. Nothing is assumed about when clients call `Set`, `Wait` or `Clear`.
* `Console!Spec` has weak fairness of `Reading`, the loops of the reading task: it
  is what `ReadyRuns` guarantees that task. Keys, plugging and the program are not fair.
* `UsbTree!Fairness`: task level goes on, and each hub that has an outstanding request
  reports a change in time. That `CGlueConsole::Read` updates the tree as long as
  it has no input is the code's; without a reader nothing is updated
  (section 5). Nothing is assumed of the user and of failures: `RequestFails` need not
  happen, and a hub that it has made deaf reports nothing any more.
* `Arp!Fairness`: the task `net` calls `Process` for ever (`nettask.cpp:34-43`), and a running
  timer fires. Nothing is assumed of packets: `ResolveEnds` holds if none arrives.
* `Dhcp!Fairness`: weak fairness of the task and of time; strong fairness of one way
  through the network (DISCOVER and OFFER, REQUEST and ACK with times that fit), and
  of `SelectSent`, sending from time to time. It is what `GetsAddress` needs: a network
  that always drops the same message can keep every client from its address.
* The other modules state safety only and assume no fairness.

## 4. What is proved

All theorems hold for every value of the constants that satisfies the assumption
in the component's module, which demands no more than the code does: at least one
slot, a ring of two or more, a longest piece of a sleep below half the clock.

* **Scheduler.** `TypeCorrect`: an inductive type invariant `TypeInv`, which adds to
  `TypeOK` what the positions `pc` imply. `TableCorrect`: `TableOK` is inductive
  together with `TypeInv`; the cases are `NewTask`, which fills a free slot, and
  `Reap`, which empties one and shrinks `m_nTasks` for the last. `NobodyEarly`: `SleepInv`
  says that what a task has still to sleep (`due`) is left in `nSeconds`, and while it
  sleeps in its wake time too, which is at most `nSleepMax` away; `UntilTick` and `UntilNew`
  are the arithmetic of the clock that wraps. The other three hold for
  any number of tasks that end and are waited for, up to the first deletion that has
  overtaken somebody (`overtaken`; section 5 shows what may follow). Without anybody who
  calls `WaitForTermination`, as in LUPOS, there is none. Interrupt
  handlers may do what they like. `NoLostWakeup` and `NoAssertion` are not inductive:
  `WakeInv` adds who may be a waiter (`Home`, `Inside`), that who is registered is inside
  that `Wait`, and what holds between the test and the block. A deleted task must have
  no waiter, which is a fact about the order of the slots: `JoinerFirst` says that the
  scan meets the one who waits before the one who has ended, which a step that deletes
  some other task breaks only if it overtakes. `RoundScan` relates
  slots and rounds of `GetNextTask`. `NoWakeupLost`, `NoAssertionFails` and
  `JoinedObjectsLive` follow.
* **Keyboard buffer.** `BufferIsQueue`: the ring implements `KeyQueue`. The lemmas are
  about `Contents`, the sequence between the two indices: what storing and taking a
  character do to it, and when the ring is full. `CallInv` relates a loop that is
  under way with the queue at its start; with it each step maps to a step of
  `KeyQueue` (the one that lets the lock go) or to none.
* **Console.** `LinesDelivered`, `EchoIsLine`, `OptionsKept`, `ConsoleTypes` follow from one
  inductive invariant, `TypeOK` with `LineInv`: mode and options agree, `got` is the
  delivered part of the line, `shown` is the line. One lemma per group of actions.
  `LineIsEdited` needs more than that the line is `Edited(keys)`: which letter an erasure
  takes depends on how many erasures each of them survives. `TextInv` therefore has
  places `p` of the letters in `keys` (`Placed`): they are the survivors in their order,
  and from `p[k]` on there are as many more characters than erasures as there are
  letters from `k` on. Then an erasure takes the last one and no other
  (`SurvivesMore`, `PlacedErasure`); no induction over the keys is needed, because
  the steps of the system add them one by one. `PlacedEdited` counts the survivors.
* **Keyboard.** `KeyboardTypes`, `HandlesAreFresh`, `RepeatsWhatIsHeld`, `PressesAreHeard`
  and `RepetitionIsPaced` from one inductive invariant of six parts, for any keys, reports,
  delays, addresses and other timers. `ListInv`: no address is in the list twice, the one
  of a timer being started is not in it, and the poll looks at one that is, because
  the element behind was determined before the handler ran. `HandleInv`: a timer has the handle
  that its client holds, and the keyboard holds one exactly while a key
  repeats; without the second, a press could leave an old timer behind. `ReportInv`:
  in the middle of a report the last key code may still be a key that was let go, but
  then the release loop has it before it; and a key that the press loop leaves out because it
  is the last key code was heard in this report or held in the last.
  `OrderInv`: counted from now (`Ahead`, the arithmetic of `(int)` over the wrap), the list
  is in order, less than half a turn long, and what is in front of the poll
  has not elapsed; a timer inserted a tick late still goes to its place. `PaceInv`: the
  keyboard's timer elapses when the key is due. `HandleInv` and `PaceInv` hold until a
  keyboard is deleted while its timer runs (`orphan`), the rest always. The assumption
  keeps all delays below half the range of the ticks, as `(int)` needs it, with one tick
  of room for the insertion that is late, and makes the rate no longer than the delay.
* **REPL.** `BoundsKept` (`TypeOK` is inductive) and `LoopEditsLine`, the refinement of
  `LineEditor`: the lemmas `Part`, `Whole` and `Cut` say what `SubSeq` and
  concatenation do to the two sides of the cursor, and there is one lemma per key.
  In `TypeOK` the position is in the history until ^R is used for an entry that is not
  there. `ChangesOfHistory`: a line that was executed is the last entry afterwards, and of
  the others only the oldest is lost, when the history is full; no other step changes
  the history, but that Up and Down overwrite the entry that was edited.
  The assumption says that the keys of the editor are no characters.
* **Shell.** `AnsweredAfterOneLine`, `LeftOnlyForPress`, `ShellTypes` from
  `ShellTypeOK` and `LoopInv`: in the loop the mode is `Reboot` exactly when the handler was
  called there, and a line is counted only until the next look at the mode.
* **USB tree.** For any tree, any failures and any moments of pulling and plugging.
  `ConsoleHasKeyboard`: the console's keyboard
  is one with the name "ukbd1" (`Attached`), outside of an update there is none without
  the console having it (`Found`), and work on the tree happens in updates only
  (`Updates`). The heart is `DeleteKeeps`: the name and the console's pointer go together.
  The others follow from `TreeInv`. `Wired` and `Shape` say that the objects are a tree
  under the board; `FramesLive` and `InPlace` that every call under way works on objects
  that exist, at the place in them that its caller has reached; `EventsFit` and `Requests`
  relate events and requests with the hubs they belong to, and `OneWatch` says that no
  hub has both or has two, and that each has one unless a request of its own failed (`deaf`). `AddressesExact` and `NamesExact` compare the two pools with
  the objects and with the calls that have taken a number and not stored it yet. Each
  part needs the others, because a failure unwinds through all of them.
  `TypeCorrect`, `PoolsStayExact`, `HubsAreWatched` and `OthersUndisturbed` are its
  consequences. `AddressesStayApart` adds `Owned`: without failures a device answers at the
  address of its object only, and nothing fails but a device that is gone.
  The assumption adds that `NULL` and the numbers of the pools are no devices.
* **ARP.** Two inductive invariants. `TableInv` has `OneEntry`, `QueuesRight` and
  `RightHost`, and adds that used slots are below `m_nEntries` and that the MAC address
  of an answered entry is that of its host: the step that takes the oldest entry for a
  new address (`TableBegin`) needs them all at once. With
  `TypeCorrect`, which comes first, it gives `EntriesAreRight` and `AlwaysRightHost`. `TimerInv` relates running timers,
  entries and counts: `nAttempts` is the number of timeouts and one more while a timer
  runs. It gives `TimersRun` and `FailsLate`. `Refines`: ARP implements `AddressResolution`;
  with one entry for each address (`OneEntry`), the entry that the mapping chooses is the
  one that a step changes. The assumption is at least one slot, one
  attempt and room for one frame.
* **DHCP.** `TypeCorrect`, with the arithmetic of `CheckConfig` modulo `Width`;
  `TimesOrdered` and `HaltsJustified` from what is known where the task waits (`InUse`,
  `Ordered`); `GivenUp` from `WaitEnds`, which bounds the end of each wait by the limit of
  its stage; `LeaseIsHeld` from `LeaseInv`: an ACK under way
  belongs to the current transaction, so that it is not older than its first request
  (`Age`), and the server of the address in use has counted no further than the client,
  but for the time the ACK took. The assumption
  orders the tries, and keeps the times below `Width`.

Only model-checked is

* liveness (`ReadyRuns`, `SleepEnds`, `ReadEnds`, `ResolveEnds`, `GetsAddress`, `Served`): fairness
  and ENABLED are outside of what the prover handles.

Every safety property of a passing run is a theorem, `NoLostWakeup` and `NoAssertion` up
to the first deletion that overtakes a task that waits for another, which is what
`JoinedObjectLives` says of itself.

## 5. Where code and documents differ

Two of these are the counterexamples of runs.

* **A wakeup from an interrupt can be lost** (`sched_irq_wakeup`).
  `synchronizationevent.h:37` says that `Set` can be called from interrupt context.
  `Wait` tests `m_bState` and `BlockTask` stores the waiter with interrupts enabled: a
  `Set` in between finds no waiter, and the task blocks on an event that is set. Every
  later `Set` returns early. One statement later the same interrupt makes the assertion
  of `WakeTask` fail; `NoAssertion` in `sched_tasks` shows that nothing else can.
* **An event outlives its hub** (`usb_removal`). `usb-plug-and-play.txt:87` of Circle says
  that pulling out a device leads to error messages that can be ignored. An event in
  `m_HubList` keeps a pointer to its hub. When a hub is pulled out while an event of it
  waits behind one of the on-board hub, the first event deletes the object and the
  second is handled by it (`usbhostcontroller.cpp:164-165`).

Others were met while modelling. Where the models contain the behaviour, the
definition is named; no run is spent on it.

Scheduler and console:

* The `Yield` of a task that has terminated runs `GetNextTask`, which deletes terminated
  tasks, also the one that is running, if the scan comes to it first: the scan goes on
  on a stack that has been freed (`scheduler.cpp:249-256`; `Reap`).
* When two tasks end in the same round, deleting the first makes `GetNextTask` start
  again at slot 1 (`scheduler.cpp:256`). It may then meet the second before the task that
  waits for it with `WaitForTermination`, which returns into a deleted event. The run
  `sched_sleep` has these executions; `JoinedObjectLives` holds up to the deletion that
  overtakes (`Overtakes`). Nobody in LUPOS calls `WaitForTermination`.
* `console.mode` returns a float and accepts only integers, so that
  `restoremode(savemode())` of `plterm.lua` does nothing: after the REPL the console stays
  raw until `hello.lua` sets `sane` (`lconsole.cpp:77-83`; `ReplEnd`).
* The device tree is updated only while somebody reads stdin (`io.cpp:142`; the call at
  `luaint.cpp:83` is commented out): a program that computes, or polls
  `console.readkey`, never sees a keyboard come or go.
* ^R with the number of an entry that does not exist sets `hpos` to it, makes `buf` nil
  and ends the REPL (`repl.lua:107-110`): the position stays outside of the history until
  a line is executed. In `Repl` that is `failed`, which is not followed further.

Keyboard and USB:

* A keyboard that is pulled out with a key held leaves its repetition timer running. It
  fires into the freed object, or into the next keyboard at that address, where the
  assertion of `TimerHandler` fails (`orphan`). `HandlesFresh` and `Paced` are therefore
  stated for as long as no keyboard was deleted with its timer running.
* A device that is pulled out and replaced between two updates of the hub is not
  noticed: `HandlePortStatusChange` only looks at whether something is connected
  (`usbstandardhub.cpp:604-613`). In `Console` that keyboard is `stale`, in `UsbTree` the
  place is `spoiled`; `Served` leaves it out.
* A status change request of a hub that ends with an error other than a frame overrun is
  only logged, and is not made again (`usbstandardhub.cpp:509-515`); nor is one that cannot
  be made after an event was handled (`627-630`). Such a hub reports nothing any more
  until it is plugged in anew, and the on-board hub for good (`RequestFails`,
  `PortsDone`). `Watched` says that no other hub is without a request or an event, and
  `Served` leaves out what is at the ports of one that is `deaf`.
* A port whose device cannot be configured stays marked as configured, and a GET_STATUS
  that fails ends the first loop of `EnumeratePorts` with the ports before it
  initialised but not configured (`usbstandardhub.cpp:340-358`, `403-414`). `Served`
  leaves these places out.
* A device that fails after SET_ADDRESS is deleted and its address is free, but it still
  answers there: the next device may get the same one (`usbdevice.cpp:239-258`).
  `AddressesApart` is stated without failures.
* A hub with an event in the list whose GET_STATUS fails, because it no longer answers or
  for a failed transfer, stops the system: `HandlePortStatusChange` calls `LogPanic`
  (`usbstandardhub.cpp:553-559`; `StatusFails`).
* With "ukbd1" gone and "ukbd2" still there the console has no keyboard
  (`console.cpp:134-135`).

Network and shell:

* When all entries of the table wait for a reply, one more address to look up makes the
  assertion on the oldest entry fail (`arphandler.cpp:285`; `ResolveFull`).
* A reply cancels the timer of its entry by a handle that may be stale: another entry's
  timer at that address is cancelled, and its frames wait for ever
  (`arphandler.cpp:330`; `stolen`).
* A renewal that changes the configuration is refused only if address, netmask, router
  and DNS server all differ (`&&` at `dhcpclient.cpp:406`).
* With T2 below half of the lease and no T1, T1 wraps around and the lease is refused
  (`dhcpclient.cpp:826`; `T1Of`). The shortest sleep of a minute, also when less is left,
  uses the address longer than it is held (`dhcpclient.cpp:372`): by `Slack` at most.
* After a syntax error in `hello.lua` `lua_interface` returns without closing its Lua
  state, and is called again: a state is lost at every round (`luaint.cpp:69-72`;
  `LoadFails` is that return). No document promises otherwise, and the models do not
  count Lua states.
* `luposapp.h:211` says that booting waits up to 10 seconds for the network; the loop
  waits 30. The time daemon is started only if the network runs by then
  (`kernel.cpp:70`).

## 6. What the models leave out

* Scheduler: registers, user data, the task switch handlers nobody registers. `MsSleep`
  and `usSleep` are the last piece of `Sleep`; their own overflow for long times
  (`scheduler.cpp:98`) is not modelled.
* Console: the alternate device of the QEMU build, the character 0, output and LEDs.
* Keyboard: the key map, Caps Lock and LEDs, the raw handler, transfer errors without
  a removal, the calendar.
* REPL: the screen, the listing of the history, numbers shown in the prompt; a fraction
  typed for ^R, which fails as the number of a missing entry does; and all that comes
  after such a failure.
* Shell: the text of lines, the Lua state and its stack. No document says that a
  keyboard that is replaced keeps the handler for Ctrl-Alt-Del, which `Run` registers
  only once (`KeyboardRemoved`).
* USB tree: the build for the Raspberry Pi 4, whose controller gives the addresses; hubs
  behind external hubs, other devices than keyboards and hubs, the root port, over-current
  of hubs and of single ports. A device is a keyboard or a hub as a whole: its descriptors and
  functions are one step, which fails or not.
* ARP: packets that are not for this machine, a change of its own address, times. Hosts
  tell the truth and keep their MAC address; the handles are those of ARP's own timers.
* DHCP: errors of the socket that end the task, the format and the options of messages,
  ACKs without a server identifier, and addresses other than the one a server keeps.

## 7. The plan

Done, in this order, the part everything depends on first: scheduler; keyboard
buffer; console; keyboard and timers; REPL; shell; USB device tree; ARP; DHCP. Next:

1. **File system commands** with the file table of `io.cpp`: a volume as a function
   from paths to contents; copy, delete and rename as sequences of FatFs calls, each
   of which may fail. Properties: a failed copy is reported and closes its files
   (`lua_fcopy`, `lfilesystem.cpp:240-266`, does neither), no slot of the file table
   is lost, a rename keeps the contents.
2. **Key decoder**: `term.input` of `plterm.lua` between `KeyQueue` and the keys of `Repl`;
   an abstract decoder of whole sequences, and what a truncated one does to it.
3. **TCP**: a connection with its retransmission timer on `KernelTimers`, against a
   network that loses, repeats and reorders segments.

### Not modelled

FatFs, the SD card, the host controllers, WLAN, the screen, Lua, newlib
and mbed TLS are vendored or at register level, and pure output has no state that
matters here; `edit.lua` is an editor adopted from another project; the source of
the graphics library for Lua is not in the repository; the start-up code runs
before there is anything concurrent.
