# AMDC firmware: specifications, model checks and proofs

This directory models the AMDC firmware: the C programs of the two cores of
the Zynq (CPU1 runs the control code, CPU0 the network), the FPGA logic that
clocks them and drives the power stage, the single-core legacy firmware, and
the host scripts where they parse what the firmware sends.  The modules are
translated from the source; `PROJECT.json` names for each definition the lines
it stands for.  Paths below are relative to `src/`; `cpu1` is
`sdk/app_cpu1/common`, `cpu0` is `sdk/app_cpu0/src`, `basic` is `sdk/basic`.

## The system

    host A --TCP--+                             +-- PWM core -> legs
    host B --TCP--+                             |      | carrier
                  v                             v      v
      CPU0: lwIP, socket manager          FPGA: timing manager, AMDS, sensors
            | ^                                 | interrupt
      CH0   v |  CH0, CH1..CH4                  v
      on-chip memory: inter-core channels  CPU1: scheduler -> tasks
            | ^                               (parse, exec, log, icc_tx,
            +-+----------------------------->  serial, control, injection)
                                                  ^ |
                                          UART ---+ v

CPU0 and CPU1 run at the same time and share only the on-chip memory.  On
CPU1 everything but the timing manager interrupt runs in one loop: the
scheduler calls the callbacks of registered tasks one after the other, one
pass per tick (a *slice*).  There is no preemption between tasks, so the hard
behaviours are: the interrupt against the loop, the two cores against each
other, and work that is spread over many slices against everything that runs
in between.

The legacy firmware (`basic`) has neither scheduler nor second core: a main
loop serves lwIP and the command line, and timer interrupts sample, count and
walk the list of controllers between any two stores of the loop.

### Components

| Component | State | Operations | Talks to | What makes it correct |
|---|---|---|---|---|
| Inter-core channels (`cpu1/sys/icc.h`, `icc_tx.c`, `cpu0/icc.c`, `icc_rx.c`) | six rings with free running `uint32_t` counts; CPU1's ring in front of channel 0 | test, store, publish; test, load, release; log stream packets | both cores | no unread byte is overwritten, bytes arrive once and in order, counts may wrap |
| Scheduler (`cpu1/sys/scheduler.c`) | linked list of tasks, `is_registered`, `last_run_usec`, `elapsed_usec`, `scheduler_idle`, `running_task` | register (at either end), unregister, `scheduler_run`, `scheduler_tick` | interrupt; all tasks | every due task runs once in a slice although callbacks edit the list, bounded lateness, nobody starves |
| Command line parser (`cpu1/sys/commands.c`) | circular receive buffer, ring of pending commands, parser state | take a character, run the oldest command | UART, channel 0; executor | each line runs once, in order, with the arguments it was typed with, or is rejected for the right reason |
| Command executor and responders (`commands.c`, `cmd/cmd_help.c`, `log.c`) | `current_cmd_source`, contexts of the state machine tasks | execute, answer at once or over slices | scheduler, output rings | every line gets one answer, on its own stream |
| Variable logging (`log.c`, `cmd/cmd_log.c`) | slots: rate, ring of samples, streaming; contexts of the dumps | sample, stream, register, unregister, start, stop, empty, dump, synctime | scheduler, responders, channels 1..4 | the ring holds the latest samples of its variable without a hole, a dump is what it announced, streams stay aligned |
| Signal injection (`injection.c`, `cmd/cmd_inj.c`) | list of contexts, waves and their time | register, unregister, clear, inject, list | commands, control tasks | list intact, listing ends, waves stay in their range |
| UART output (`serial.c`, `drv/uart.c`) | output ring, mark, amount | append, send | responders | characters leave in order; the ring has no overflow test |
| Task statistics (`task_stats.c`, `statistics.c`) | running sums | push, print | scheduler | arithmetic on doubles |
| Timing manager driver (`drv/timing_manager.c`) | registers, expected tick | interrupt handler, configuration | scheduler, FPGA | each interrupt is one tick |
| Timing manager IP (`ip_repo/amdc_timing_manager_1.0/src`) | event count, queued trigger, interrupt latch | count, trigger, detect done, interrupt | PWM carrier, sensors, CPU1 | no trigger while a sensor is busy; interrupts never stop |
| AMDS receiver IP (`ip_repo/amdc_amds_1.0`) | packet state machine, valid bits, counters | receive a byte | timing manager | done always comes back; only whole packets of the last transmission are valid |
| AMDS driver (`drv/amds.c`) | - | read registers | AMDS IP | decoding |
| PWM driver and inverter IP (`drv/pwm.c`, `ip_repo/amdc_inverters_1.0`) | carrier, duty latch, leg switch, registers | configure, enable, set a duty | control tasks | dead time in every leg, one pulse a period, ratios that fit the carrier |
| Socket manager (`cpu0/socket_manager.c`, `ringbuf.c`) | sockets, types, receive rings | put, remove, receive, process, broadcast | lwIP, channels | bytes of a socket in order; responses reach every command socket |
| CPU0 main loop, lwIP glue (`cpu0/main.c`, `lwip_glue.c`) | connections | accept, receive, disconnect, poll | lwIP | the callbacks reach the socket manager in the right order |
| CPU1 start-up (`cpu1/main.c`, `platform.c`) | - | initialise, start the first tasks and the help | all | order of the initialisations |
| Sensor and actuator drivers (`cpu1/drv`) | registers | read, write, convert | FPGA | conversions |
| Watchdog (`drv/watchdog.c`) | - | reset, configure | vendor driver | - |
| Math helpers (`transform.c`, `crc32.c`) | - | compute | - | arithmetic |
| Sensor, converter and multiplexer IP (`ip_repo`) | shift registers | sample, shift | timing manager | done after trigger |
| Current control and drive tasks (`sdk/app_cpu1/user/usr/beta_labs`) | tasks, references, legs, injection contexts | start, stop, set, clear | scheduler, PWM driver, injection | what is stopped is at rest, whoever commanded it |
| Demo current controllers (`cpu1/usr/demo`) | contexts: channels, mode, angle | start, stop, configure | scheduler, PWM driver | stopped channels at 0 V, bounded angles |
| Other user applications (`cpu1/usr`) | their own | tasks and commands | scheduler, commands | - |
| Legacy control applications (`basic/src/control.c`, `basic/control_apps`) | linked list of controllers, references, forced currents | start, stop, init; the interrupt | command line | list walkable at every store, everybody served, pairs belong together |
| Legacy logging and streaming (`basic/src/Log.c`, `commands.c`, `lwip_glue.c`) | log rings, stream port and FIFO | sample, set up, start, read, stream | lwIP, timer interrupt | lost samples show, streams keep flowing to the host that asked |
| Legacy PWM and inverter commands (`basic/bsp/pwm.c`, `io_pecb.c`, `commands.c`) | ramp, legs | H bridge, inverter, switching commands, periodic tick | timer interrupt | a ramp stays between its ends and arrives |
| Legacy start-up and timers (`basic/src/main.c`, `prog_timer.c`) | dividers, flags | bring up, count | all | nothing is served before it is set up; network timers run |
| Host scripts (`scripts`) | receive buffer | find packets | TCP | the plot is what was sampled |
| Hardware project (`hw`) | - | - | - | wiring |

The hazards of this code, each at its line, and the properties that watch
them, are listed in `PROJECT.json`.

## What is modelled, and how it corresponds to the code

Definitions marked `mutant` are wrong on purpose: each replaces the definition
it precedes to show that a property notices.  Variables marked history are not
in the code: they remember what happened, for a property to compare with.  The
modules do not restate formatting, the text of responses, the values that are
sampled, or register addresses.

### Between the cores, and out of CPU1

**`Icc`** is one channel.  A step is one access of a core to shared memory:
the producer tests for full, stores the byte, stores its count; the consumer
tests for empty, loads the byte, stores its count.  The counts wrap at
`CountWrap`, which stands for 2^32.  `producer` and `consumer` are program
counters, `pendingByte` and `readByte` the locals `c` of the two loops.
Memory is sequentially consistent; on the producing side the code has a `dmb`
between the two stores that makes it so.  The consuming side has none between
load and count, and relies on the uncached memory of `platform.c`.
The consumer of CPU0's channel 0 takes nothing while TCP has no room on socket
0: `hasRoom` is that room, which the host's acknowledgements bring back
(`SocketZero`, external).  The other consumers have no such test.
**`BoundedFifo`** is what a channel promises: a bounded queue, a step of which
puts a byte at the end or takes one from the front.

**`SerialOut`** and **`IccTx`** are the two rings of responses, towards the
UART and towards channel 0.  Neither tests for room.  Their properties say
that the amount equals the bytes owed and that the next byte out is the oldest
one not overwritten: after an overrun the overwritten bytes are replaced cell
by cell, and order returns when the ring is drained.  A slice of `icc_tx`
moves one byte more than `MAX_NUM_BYTES_TO_TRY`, as the code does.

**`LogStream`** follows a packet from `icc_tx_log_stream`, which drops the
rest of it when the channel is full, over CPU0 and TCP into the parser of
`AMDC_LivePlot.py`, which looks for header and footer at any offset of what
it received.  The fields between are assumed not to look like a header or a
footer.  `PlotsWhatWasSampled`: the plot is the samples that were written
whole, in order and once, however the segments are cut.  It is stated while
TCP has room on CPU0: there single bytes are dropped for lack of it, and a
packet may then mix two samples.  The parser leaves the last packet in its
buffer until one more byte arrives.

### CPU1

**`Scheduler`** is the task list, the loop and the interrupt.  The loop is cut
at every point where an interrupt could change what it sees: before it reads
`elapsed_usec`, before the walk, before and after each callback, around
`tasks_running = false` and `scheduler_idle = true`.  The list is the sequence
`tasks`; the next pointer of a node is its successor in it, and the next
pointer an unlinked task still has is `gone`, which the walk follows when a
task unregistered itself in its callback.  A callback of a task in
`Controller` makes up to `MaxOps` API calls, as the command tasks do; one of
any other task may stop itself.  Time is counted in ticks.  As only
differences matter to the code, a tick at the end of the window `Horizon`
moves all stored times back instead.  `quantum_checking` is the build option
of that name, both values are covered.  `owed`, `ran` and `fresh` are history.

**`CmdParser`** is one stream's context: the parser's three states, the ring
of pending commands, the circular receive buffer as the set of its cells that
hold NUL.  `argv` holds cell indexes, and the length of an argument is read
off the buffer when it is needed, as the handler would.  The environment types
lines of letters, spaces and newlines; it keeps no more than `Window` lines
unanswered and no more text in flight than the buffer holds, which the code
needs and does not check.

**`Commands`** is the execution and the answers.  A line is a command; the
parser is a queue in front.  Commands answer at once (`Quick`), start a task
that a second command restarts (`Restartable`: help, the dumps), or start a
task that refuses a second command (`Guarded`: log info).  The slice runs the
exec tasks, then the responders in list order, as registered by `main.c`.
`main` executing help at start-up is the initial state.

**`Injection`** is the list of contexts with the next pointers they keep after
they left it, the waves as integers with their time, and the listing, one name
a slice.  The commands refuse negative periods only, so `Periods` has 0 and
periods shorter than a step, of which the code takes off no more than one per
call.  **`BetaLabs`** extends it with the tasks of that application: current
control, motion control, voltage source and dead time test share legs and hand
each other references; a quantity is at rest or may not be.  `Careful` is the
user who stops a voltage task before giving it other legs, which the code
needs and does not check.  **`MCCommandPath`** composes the parser, two
streams of answers and these tasks, one per session.

**`Log`** is the logging engine.  A sample is the tick it was taken at and the
variable it was taken of.  Commands come at any time between two slices, also
while a dump is under way.  The truncation of rates and times to microseconds
is kept: a tick takes `TickNum / TickDen` microseconds.  `kept`, `active`,
`synced`, `streamed`, `announced`, `disturbed` and `mixed` are history.  The
Ethernet form of the dump is the binary dump with a larger batch.

**`Inverter`** is a leg of the inverter core clock by clock: the triangle
carrier, the latching of the duty ratio at the points its mode names, the
comparison, and the state machine of `single_leg_switch.v` with its dead time
counter.  **`PwmDrv`** adds the driver: a call is its sequence of bus writes
(`todo`), which reach the core some clocks apart (`BusGap` is the least), so a
frequency that is written before the duty ratios that fit it is a state of the
model.  A reversed or re-enabled leg starts where the counter stood:
`DeadtimeKept` and `PulsesAsAsked` say what survives that.  Each of the two
command streams runs at most one command per slice, so `hw pwm on` may follow
`hw pwm off` at once, one from either stream, but with a configuration between
them it comes a slice later: `slice` counts the clocks left of the slice in
which PWM was turned off, and `configured` says that a command ran since.

**`DemoCc`** is the demo's pair of current controllers: contexts that all start
with channel 0, are given channels, modes and speeds while they run or not,
and wrap their angle once per callback.  Angles are counted in parts of which
`Turn` make 2 pi.

### CPU0

**`RingBuf`** is the byte ring of `ringbuf.c` as operators on a record of
cells, head and tail: a copy into it is where the bytes end up and which of
the oldest are lost, not the two-part `memcpy`.  **`SocketManager`** is CPU0:
the main loop with its program counter `cpu0`, one action per pass through a
callback or a loop body, the slots, and the ends of the channels on this core
(`BoundedFifo` is what `Icc` shows a channel to be).  CPU0 has one thread and
takes no interrupt that touches this state, so the only steps in between are
those of CPU1.  lwIP is external: it opens connections, reusing the addresses
of control blocks, delivers segments, reports close and error, and frees send
buffers; hosts do all of it in any order.  A byte carries the connection and
the place it was sent at, so that a stale or reordered byte is told from the
right one.  Two reads of undefined memory are kept as choices: the type of a
socket that has received one byte, and the room of socket 0 without a
connection.  `host` is history.  **`Forwarding`** is what its receiving side
promises: how many bytes wait in each ring and in channel 0, without saying
which ones, so that hosts can connect, send and leave for ever in it.
`SocketManager` is shown to implement it, and who is served in the long run is
asked of `Forwarding`.

### FPGA

**`TimingManager`** is `timing_manager.v`: an operator per register says what
the register is after a clock edge, given the wires it depends on.
**`Sensor`** is what the timing manager relies on from every sensor interface:
done falls with a trigger to an enabled sensor, and comes back.
**`Acquisition`** composes the timing manager, some sensors (instances of
`Sensor`), the PWM carrier and the driver on CPU1.  A step is a clock edge of
the FPGA, which changes all its registers together, or a step of CPU1: the
initialisation, the interrupt handler and its acknowledgement, or the write of
a configuration register, of which the bus brings at most one per clock.  The
carrier gives an event of one clock (the divisor is always 0), at least
`EventGap` clocks apart.

**`AdcUartRx`** is the receiver of one AMDS data line as a record of its
registers; **`Amds`** the interface with its lines, timeouts, valid bits and
data registers; **`AmdsOpen`** puts it under a timing manager that triggers
whenever it may and is enabled and disabled at any time, and is shown to
implement `Sensor`.  The AMDS is external: an answer begins or not, its
packets come in the order of the channels, bytes are damaged, and the line may
fall silent at any point.  A byte is its channel and the packet number it
would have as a header.  A started byte receiver has its result at the next
clock; in hardware that takes about a hundred, but triggers, timeouts and CPU1
may come between any two bytes in both.  Lost alignment is modelled only as it
follows from an answer that came too late, not from missed start bits.
`late`, `withdrawn` and the value `Old` are history.

### Legacy firmware

**`BasicControl`** is the list of controllers that the control timer walks,
and the four applications on it.  Starting and stopping are the stores of the
code one by one (the sequence of what is left to do), with the interrupt
between any two.  The interrupt is one step: it follows the pointers it finds,
runs the callbacks, and hands references on.  `build` is which application the
firmware was built with.  `MayStart` is a host that does not start what is
running: a second start makes the list a cycle in the code.

**`BasicLog`** is a log ring as operators on a record with the fields of
`TheLog`, cut where the interrupt may come; **`BasicStream`** the commands that
set up, start, stop and read logs, the connections, and the chain of *sent*
callbacks that keeps a stream flowing.  lwIP and the hosts are external, as in
`SocketManager`.  Sequence numbers, flags and the splitting of a packet over
the available send buffer are kept.

**`BasicPwm`** is the power stage without a control application: leg, H bridge
and inverter commands, the one that writes a duty ratio, and the tick that the
main loop runs per 100 us flag, with the ramp of frequency and voltage.  Integer truncation and
the 16-bit wrap of the switching registers are kept.  **`BasicBoot`** is
`main()` as a list of steps, any of which but the first may fail, with the
timer interrupt from the moment it is enabled, its dividers, and the network
timers of the main loop, which may be late by any number of periods.  Enabling
the interrupt of a timer and starting the timer, which the same function does
last and which cannot fail, are one step: no interrupt comes in between.

## Runs

Parts that share no state and never meet are checked in one run as *sessions*:
a variable `session` is chosen at first and says which of the specifications
takes the steps, so that the states of a run are the sum, not the product, of
its parts.

| Run | Module | Shows |
|---|---|---|
| `icc` | `MCIcc` | A channel of four cells under every interleaving of the two cores: `CoresApart`, delivery if the host on socket 0 keeps reading (`EventuallyDelivered`) and the refinement of `BoundedFifo` (`ImplementsFifo`). The two rings of responses with texts longer than they are (`OutputsInOrder`). Three stream packets cut anywhere by a full channel (`PlotsWhatWasSampled`). |
| `sched` | `MCScheduler` | A command task, a task of every tick and one of every second tick, started and stopped in all orders, interrupted everywhere: the list agrees with the flags, slices are complete, nothing runs twice or unregistered, lateness is bounded, every task keeps running. |
| `sched_lost_tick` | `MCScheduler` | Counterexample: an interrupt between the end of the walk and `scheduler_idle = true` is slept through. |
| `commands` | `MCCommandPath` | All ways to type two lines into a buffer of six cells and a ring of three commands (`RingHoldsVerdicts`, `RunsWhatWasTyped`). Two streams: each line is answered once, in time, on its stream (`AnswersReachTheirLine`, `EveryLineIsAnswered`). Five commands that start, stop, inject and list in any order (`InjectionSound`, `StoppedIsAtRest`, `ListingEnds`). |
| `cmd_wrong_stream` | `MCCommands` | Counterexample: a command of one stream redirects the running response of the other. |
| `cpu1` | `MCCpu1` | Five log commands over four ticks of 3 1/3 us: the buffer, both dumps and the streams (`HoldsItsLatest`, `NoSampleMissed`, `DumpIsWhatWasAnnounced`, `StreamsAligned`). The PWM driver over clocks of the inverter core: dead time and pulses. Two demo controllers over three channels: stopped channels and angles. |
| `log_saturated` | `Log` | Counterexample: beyond the range of `uint32_t` nothing is sampled any more. |
| `ethernet` | `MCSocketManager` | Three connections for two slots, broken and reused at any point: slots are the connections the hosts have (`SlotsHoldTheirConnection`), bytes stay in order and socket 0 hears every response byte (`BothWaysInOrder`), and what is handed on to CPU1 is handed on as in `Forwarding`, its fairness included. In that module the hosts of three sockets connect, send and leave for ever: as long as one has something to forward something is forwarded, and one that waits goes on as soon as the others receive no more (`CommandsFlow`, which is both). |
| `fpga` | `MCFpga` | Two sensors, both interrupt sources, four register writes at any clock: no trigger during an acquisition, interrupts never stop for good. The AMDS interface with damaged, missing and late bytes: valid data is whole and new, and it implements `Sensor`, its liveness included. |
| `amds_stale_header` | `MCAmdsOpen` | Counterexample: after a damaged header a channel that is marked valid holds the value of the next channel. |
| `basic` | `MCBasic` | Control applications started, stopped and initialised again with the interrupt between any two stores: `ListIntact`, `EveryInterruptServes`, `AxesAgree`. Logs sampled by an interrupt and streamed to one of two hosts: `StreamIsFaithful`, `StreamReachesTheAsker`. |
| `basic_live` | `MCBasicLive` | The ramp under up to three commands between ticks: `VoltageBetween`, `RampArrives`. Start-up with failures and early interrupts: `BootOrder`, `LwipTimersRun`. |

The counterexamples are the `findings` of `PROJECT.json`, with the comment or
message of the code that each one contradicts.

More behaviours of the code came up that properties had to step around; each
exception is stated in the property or in a named constant:

* Disabling an AMDS interface that waits for its first edge (`hw tm
  disable_all`) stops its timeout but not its wait: done stays low, and the
  timing manager does not trigger again.  `withdrawn` marks it in `Sensor`.
* A manual trigger that is still queued when the mode becomes automatic makes
  two triggers in successive clocks, the second during an acquisition, which
  the README of the IP excludes.  `Patient = FALSE` in `MCFpga.cfg` shows it.
* An argument that fills the last cell of `recv_buffer` has its NUL in cell 0,
  so it runs on behind the buffer (`Unterminated` in `RunsWhatWasTyped`).
* Between two callbacks `running_task` is NULL, and the overrun message of
  `scheduler_tick` follows it; the theorem `NamesNoOther` admits NULL.
* `vsi legs` while the task runs leaves the old leg at its last duty ratio
  (`Careful` in `BetaLabs`), as `cc pwm` does in the demo (`Careful` in
  `DemoCc`).  `omega` is accepted far beyond a turn per callback, where one
  subtraction no longer wraps the angle (`DemoAssumption`).
* Periods of 0 and periods shorter than a step are accepted by the `inj`
  commands.  A square wave keeps its range with them, a triangle and a ramp do
  not (`Outruns`): `TriangleInRange`, which quotes the comment of `_triangle`,
  is defined in `Injection` and not satisfied.  Noise and chirp are not
  installed in the model, and what `strtod` makes of "nan" and "inf" is not in
  it either: both pass the test for a negative period.
* A pass of the socket manager starts at slot 0 and stops sending where channel
  0 is full.  If the host of slot 0 always sends more than CPU1 takes, a later
  slot may never have its turn: TLC finds that behaviour of `Forwarding` when
  `OthersSilent` is dropped from `CommandsFlow`.
* CPU0 takes nothing from channel 0 while socket 0 has no room, so a host there
  that does not read stops the responses to everybody (`KeepsReading` in `Icc`).
* `LM` for a log that is logging leaves samples of the interrupts that came
  between the stores of `SetupLogVariable` in it, perhaps of the variable
  before: `SamplesOfItsVariable` admits as many, and `GapsShow` says nothing of
  such a log (`raced`).
* A listing of an empty list of injection contexts is never answered
  (`injection.c:442`).
* The register that reverses a leg turns the outputs around without a dead
  time.  What keeps the leg from shoot-through is that it is only written while
  PWM is off and that the command that turns PWM on again comes a slice later,
  which is longer than any dead time (`Slice`, `PwmAssumption`).
* Starting a legacy controller that is started makes its list a cycle
  (`MayStart`).  The stop commands of the position controllers and of the
  torque inverter unregister other indices than the start commands registered:
  `StopStopsAll`, which quotes the comment, is defined in `BasicControl` and
  not satisfied.
* The port of a legacy stream is not cleared when its host closes
  (`lwip_glue.c:256`), although the comment says so: `StreamStopsWithItsPort`
  is defined in `BasicStream` and not satisfied; `orphan` marks such a stream.
* The overrun flag of a legacy log is read and cleared in two steps: a sample
  dropped between them is never told.  That takes a main loop slower than the
  samples of a packet (`InTime` in `BasicProofs`).
* The counter behind the legacy network timers is never reset, so they run
  every 25 ms instead of every 250 ms.  The first `VSI` without a ramp keeps
  the voltage of before, 0 at first.  `VoltageBetween` admits both ends.

Two things the AMDS properties do not promise because the code does not: when
no answer begins, the valid bits of the acquisition before stay set; and a
ratio of 0, which `hw tm ratio` accepts, makes every clock a trigger (`Ratios`
starts at 1).

### Bounds

* `MCIcc`: four cells are full, empty and partly filled at every offset of the
  ring; eight is the smallest count range that is a multiple of the ring and
  larger, so both the wrap of the ring and of the counts happen, out of step.
  Two values of a byte tell a wrong byte from the right one.  The response
  rings have three cells and texts up to four, one more than fits.  Header,
  middle and footer of a packet are two bytes each (4, 12 and 4 in the code),
  over a channel of eight and a TCP buffer of seven, so that packets are
  cut at any byte; the third packet follows a cut one (the sizes are constants,
  given in `MCIcc.cfg`).
* `MCScheduler`: three tasks give a first, an inner and a last node, and a
  node of which both neighbours change; two API calls in a callback make
  unregister-then-register and the opposite possible; one extra tick in a
  slice (`MaxOverrun`) is enough to interrupt each point; the window has to
  exceed the largest interval plus twice the overrun, which `SchedAssumption`
  asks for and the model then repeats for ever.
* `MCCommandPath`: three slots make the ring wrap with two lines in flight;
  two arguments and one character are the limits of the code scaled down, and
  the lines go one beyond both; six cells make every argument start at every
  cell.  One responder of two callbacks and one of three overlap in every way
  with the next line; four lines are more than the responders.  Six contexts
  are all those the tasks own; with a step of two, periods of 0, 2 and 5 are one
  that no step brings back, one that each step brings back, and one that is no
  multiple of a step, whose time the next wave must not inherit; the time of
  waves that outrun their period is kept at `MaxTime`, where they have left
  their range; five commands start two tasks, inject, stop and list.
* `MCCpu1`: a ring of two wraps with three samples; four ticks at every tick
  and every second tick cover an interval that is truncated and one that is
  not (3 and 6 out of 3 1/3 and 6 2/3); five commands are enough to register,
  start, stop, dump and change the slot under the dump.  Slots do not
  interact, and `StreamsAligned` fixes the slice each one streams in, so one
  slot stands for all.  The carrier goes up to 2 or 3 and wraps at 5, the dead
  time is one or two clocks: ratios below, at and above the maximum, and dead
  times longer and shorter than a pulse; a slice of three clocks is the
  shortest that is longer than both.  Two controllers and three channels
  leave a channel to move to; a turn of two parts and speeds of a full turn in
  either direction meet both bounds of the angle.
* `MCSocketManager`: two slots and three control blocks make one connection
  too many and let an address come back while its old slot is in use by
  somebody else; a ring of three cells holds two bytes, so the second of two
  segments overflows it;
  a channel of one byte is full after each byte, and a send buffer of one byte
  after the number of the socket or one response.  `MaxTry` is 1, so each stage
  ends after a byte and every order of stages occurs.  `MaxConnections` and
  `MaxSegments` bound what hosts do over a behaviour.
* Its session of `Forwarding`: a slot before and one behind the one that waits, rings of up
  to three bytes (a type and one more, or a byte left when the channel of two is
  full).  Hosts have no bound there.
* `MCFpga`: two sensors are done in either order; a counter of four
  values and ratios 1 and 2 let it pass the ratio and wrap; an event every
  fourth clock is the densest at which a trigger has reached the sensors before
  the next event, as always in hardware; four writes are what the double
  trigger above needs (a sensor, manual mode, a trigger, automatic mode).  Two channels make a packet follow
  a packet; the line without channels is done at once, the other at any time; a
  timeout after two clocks is met, missed and met in the same clock by an
  answer.  One damaged byte per reception gives each kind of bad packet, and
  the answer may end anywhere besides.
* `MCBasic`: intervals of four and six timer ticks lie on both sides of the
  five of the code, as jitter puts them; three starts or stops give a list of
  up to all loops of both applications, and one of them started again in
  front of the other; three inverters and three bridges are those the
  applications use and stand for the five and six of the board; a log of
  three entries (two samples and a free one) runs over while packets of one
  are read; two hosts, one log and three commands set up, start and stream,
  and let the other host read; a send buffer of two holds a packet and an
  answer. `MaxBurst` is 1, no more than `Packet`: the main loop takes less
  time over a packet than its samples do, as with the packets of up to 16 KB
  that hosts ask for. With 2 TLC finds a sample that nobody is told of:
  `ReadLogFlags` reads the flag and clears it in two steps, the samples that
  come meanwhile fill what the packet has freed and more, and the flag they
  set is cleared unread. Logs share only the stream, which the theorems take
  for any number of them. Samples lost before the stream began may have been
  told to whoever read then: a new stream is not owed them (`Incomplete`).
* `MCBasicLive`: leg number 0, which the code turns into index 255, and two
  real ones; voltages of 0, 80 and far above 100 percent; frequencies
  of both signs; a ramp of no tick and of several; switching frequencies and
  dead times on both sides of the 16-bit wrap.  Three commands change a ramp
  twice.  A divider of two and a limit of two reach every phase of the counters.

### Fairness

* `Icc`: weak fairness of the consumer only.  CPU0 polls in its main loop,
  CPU1 in its parse task; both loop for ever.  The producer may stop.  On CPU0's
  channel 0 that alone delivers nothing, as the consumer waits for room on
  socket 0: `EventuallyDelivered` assumes that room comes back again and again
  and stays until the consumer uses it (`KeepsReading`), and TLC refutes
  delivery without that.
* `Scheduler`: weak fairness of the loop and of the interrupt.  CPU1 executes
  on, callbacks return, the FPGA keeps interrupting.  Within a slice the
  number of interrupts is bounded by `MaxOverrun`: slices take bounded time.
* `CmdParser`, `Commands`, the listing of `BetaLabs`: weak fairness of the
  task steps, which is what `EveryTaskRuns` of `Scheduler` gives.  Hosts owe
  nothing.
* `SocketManager`, `Forwarding`: weak fairness of the main loop and of CPU1
  taking bytes from channel 0, as its parse task does.  The loop leaves the network stage
  at some point (lwIP returns); hosts owe nothing, not even to read.
* `Acquisition`: weak fairness of the clock, of a clock that brings a PWM event
  (the carrier oscillates), and of CPU1; sensors keep `DoneReturns` of
  `Sensor`, which `fpga` shows for the AMDS.
* `AmdsOpen`: weak fairness of the clock and, per line with channels, of a
  clock in which a started byte receiver has a result: its timer of 2.5 us
  gives it one.  The AMDS itself owes nothing.
* `BasicPwm`, `BasicBoot`: weak fairness of the timer interrupt, of each step
  of `main()`, and of the main loop's look at each of its flags.
* `icc`, `cpu1`, `basic` and `basic_live` bound what the environment does over
  a behaviour, so deadlock is not checked there.  `Scheduler` stops in the
  code when the quantum check hangs.

## Theorems

TLAPS proves the following for every value of the constants that the named
assumptions admit.  Each rests on an inductive invariant of its proof module;
the invariants the runs check are not inductive as they stand.

`IccProofs` assumes that the buffer size divides the count range and is
smaller (`SizeAssumption`, as the comment in `icc.h` asks).  The inductive
invariant `IInv` adds to the types that the fill level is the difference of
the counts, that a core past its test keeps what it tested (only the other
core can change it, and only in the right direction), and that the bytes in
locals are the ones of the ring.  From it follow `TypeCorrect`,
`CoresNeverMeet`, `UnreadStable`; `Refinement` shows that under the mapping of
the unread cells to a sequence every step is a step of `BoundedFifo` or a
stutter.  The work is in modular arithmetic: cells of distinct unread bytes
are distinct because the size divides the range.

`SchedulerProofs` assumes `SchedAssumption` (intervals are natural numbers,
the time window is longer than they are).  Three layers:

* `ListInv`: the list holds each registered task once; the loop stands on a
  registered task, or, when that stopped itself, the pointer it will follow
  leads to one.  It rests on lemmas about sequences (append, prepend, cut) and
  on the fact that no command stops a command task, which is why a callback
  that edits the list still stands on a node of it.  It gives `TypeCorrect`,
  `ListNeverCorrupt` and `NamesNoOther`.
* `SliceInv`: what the slice owes lies ahead of the walk and is still due, and
  what it has run lies behind.  `Ahead` is the set of nodes from the loop's
  position to the end.  Each list edit changes it by at most the task edited;
  the moving time window keeps a due task due because a slice sees at most
  `MaxOverrun` ticks.  It gives `SlicesComplete` and, with `ListInv`,
  `RunsRight`.
* `LateInv`: behind the walk and between slices a task is less than its
  interval behind the slice's time, before it is run it may be the overrun and
  a tick further, and the slice's time is at most the overrun and a tick behind
  the timer's.  The layer below says that a task the slice has passed was not
  due or was run.  It gives `NeverTooLate`.

`CommandProofs` is about the path of a command, from characters to answers and
to the tasks it starts.

* `VerdictsAreRight` and `CommandsSeeTheirArguments`, for any sizes of buffer,
  ring and lines, if the host keeps fewer lines in flight than the ring has
  slots (`Window < MaxPending`).  `RingInv` relates the parser to the host's
  line: its state mirrors the last character (`Follows`), the slot at
  `write_idx` has the count and the length of the current argument until its
  first error (`Filling`), and the slots from `read_idx` on are the lines in
  flight with their verdicts (`InRing`).  `TextInv` is about the text behind
  them.  It counts the cells of the buffer back from the one written next
  (`Ago`), which makes a line that wraps like one that does not: each line in
  flight begins where the one before it ends (`Begins`), an argument that ended
  has a NUL behind it and none in it (`Stored`), the one being typed reaches to
  the last cell written (`Growing`).
* `AnswersReach`, for any streams, commands and responders whose hosts keep out
  of each other's way (`Polite`; without it `cmd_wrong_stream` is the
  counterexample).  `AnswersInv` counts: of each line, as many wait for an
  answer as wait to be run, and one more if a responder is at work on it
  (`Owed`).
* `InjectionStaysSound`, for any contexts.  What the list looks like is said by
  a numbering of the registered contexts in which each points to the next one
  (`Numbered`), whatever the pointers of the unlinked ones are; the walk then
  meets the numbered contexts and no other.  `WavesInv` says that the time of a
  wave no shorter than a step is within its period, and so its value in range.
* `StoppedStaysAtRest`, for users that are `Careful`: `StoppedIsAtRest` is
  inductive as it stands.

`IccProofs` also has `OutputsComeInOrder`, for any lengths of the response
rings: a ring holds the end of the text that is owed (`RingHolds`), also after
an overrun; `SerialInv` and `RespondInv` keep that for the two outputs.
`PlotsWhatWasSampledAlways` is for any lengths of header, middle and footer and
any channel.  What is between the log task and the plot is a chain of packets
cut anywhere, each byte either the first of a packet or the one that follows
(`Chain`), and the last byte is the one before that which the log task writes
next; `PlotInv` says that what is plotted, with the whole packets of that chain
in their order, is what was sampled.  A window of the chain has header and
footer in place exactly where a whole packet is (`LooksIs`), and what is left
behind a packet is a chain again (`CutIs`), because the parser stops short of
the last window.

`SocketManagerProofs`, under `SocketsAssumption` (numbers of sockets, control
blocks and sizes of channels): `SlotsHoldTheirConnectionAlways` and
`BothWaysInOrderAlways`, for any number of slots, connections and bytes.
`SocketInv` says that a used slot and its control block point at each other,
that open connections have distinct numbers, that the ring of a slot, counted
back from its head (`Back`, `Waits`), holds the last bytes that arrived
(`RingInv`), and that of the bytes that CPU0 handed on those in channel 0 are
in order and above those CPU1 has taken (`OrderInv`).

`AcquisitionProofs`: `TriggersOnlyWhenDone`, for any set of sensors, any ratio
and counter, if the user waits for his manual trigger before he changes the
mode (`Patient`) and events are more than one clock apart.  `TrigInv` follows
a trigger from the event to the registers of the sensors: as long as it is on
its way all of them are done, and no second one is.  `AmdsDataIsFresh`, for any
lines and channels: `AmdsInv` says for each line what its receiver holds
(`RxInv`, `LineInv`), that nothing moves when the interface is done (`Quiet`),
and that a byte taken is one of this transmission unless it came late
(`FreshData`).  `AmdsIsASensor`: the AMDS interface takes only steps that
`Sensor` allows, the safety half of `ImplementsSensor`.

`Cpu1Proofs`: `DemoControllersBounded`, for any number of contexts, phases and
channels, under `DemoAssumption` (speeds of at most a turn per callback) and
for users that move no phase of a running controller (`Careful`).
`PulsesStayAsAsked` and `DeadtimeIsKept`, for any carrier, ratios, dead times
and pace of the bus that `PwmAssumption` admits.  `PwmInv` has four parts:

* `CallInv`: the calls go through the phases `On`, `Stopping`, `Off`,
  `Starting`, `PinOn`, and what the present call has still to write makes
  ratios and carrier fit when it is over (`Plans`).
* `RestInv`: when PWM is turned on after a configuration, all outputs have been
  off for a slice.
* `LegInv`: the switch that is on is that of the last output, or it came on
  after a dead time (`After`); a configuration that turns the leg around is the
  exception, which `RestInv` makes up for.
* `PulseInv`: while ratios are taken over at the peaks and valleys only, how
  often the leg rose since the peak follows from where the carrier is
  (`FromThePeak`).

Its part about the log is for any depth, rates and number of slots.  `BuffersHoldTheLatest`:
`LogInv` says that the ring behind `buffer_idx` is what was sampled since the
slot was emptied, as far as it fits, that unregistered slots are empty, and
that names agree unless a slot was registered again with samples in it.
`NoSampleIsMissed` and `StreamsStayAligned`, as long as the microseconds fit
their 32 bits (`TimeFits`; `log_saturated` shows what happens then): intervals
and times are rounded down, and `TimeInv` says that an interval of n ticks has
passed after n of them and not before, so that the last sample of a slot is
less than its interval old (`TimesOf`) and a stream runs in the ticks that
`synctime` fixed (`SyncOf`).  `DumpsAreWhatTheyAnnounce`: `DumpInv` says for
each state of a dump what it has sent of what it announced, unless the slot
was changed under it.

`BasicProofs`: `BootIsOrdered`, for any dividers: an invariant over the
list of steps of `main()` that says which parts are up at which step.
`VoltageStaysBetween`, for any voltages, frequencies and ramp times: `RampInv`
says that the line in use joins the voltages of the last two commands and that
the frequency is between its ends, from where `RampStays` lets no tick escape;
the rest is that a mixture of two voltages is between them.
`StreamGoesToTheAsker` and `StreamIsWhole`, for any number of logs, rings,
packets, connections and send buffers; `LoggedVariable` is the part of the
latter that needs no bound on time.  They share `BaseInv` (the shapes that the
steps left to do can have; what the read in progress holds is still in the
ring, because the interrupt writes only behind it) and add:

* `AskInv`: the connection of the stream is that of the asker as long as the
  host has not closed it, and between packets the stream is primed or
  something on its way will prime it.
* `LogInv`: what waits is of the log's variable (`HoldInv`), and what
  `SetupLogVariable` has stored so far of a log that is being set up (`SetInv`).
* `LateInv`: the same of a log that was logging meanwhile: behind the samples of
  the interrupts that came between the stores, at most `MaxBurst`, all are of
  the variable.
* `WindowInv`: how many samples may have come since a step of the read.  This is
  where `InTime` is needed (`MaxBurst` at most `Packet` and less than a ring).
* `GapsInv`: what was sent, what is taken out and what waits are samples of one
  interrupt after the other up to the present one, or the log's flag is set, or
  the host has been told (`Told`: a flag or a number that is missing).

`ControlProofs`: `ListStaysIntact`, `InterruptsServe` and `AxesStayTogether`,
for any number of inverters (three or more, as the code's indices need) and of
H bridges, any currents, and interrupts that come a tick early or late
(`BasicControlAssumption`: with less than four ticks between them the loops
take the measurement of the last interrupt for their own).  A command is a list
of operations that the main loop does store by store, so what holds in the
middle of one is said by what is left of it:

* `Roster` is the list and what the applications are set up with, without the
  pointers; `Good` is what holds of it between any two operations.  Its parts
  are that what is in the list is set up (`ListGood`), that an application that
  was answered has what it needs in the list (`AppGood`), that the code's tests
  for starting twice find all loops of an inverter or none (`FirstGood`,
  `ZeroGood`), and that the loop of an inverter which is started last comes
  last (`OrderGood`).
* Each operation, `Does`, keeps `Good`; so each start and each stop, over the
  loops that make its operations, leads (`Leads`) from any good state to one
  where it may be answered.
* A change of the list is two groups of stores.  Between them the links are
  already those of the new list, while flag and back pointer of one item are
  not (`Halfway`).  `ListInv`: the main loop stands at or halfway behind a good
  state, from where what is left leads to a state without a command.
* The walk visits what is linked, as no item is linked twice and there are
  finitely many (`WalkIs`).  The interrupt is a fold over it, and what one
  controller leaves to the next is an invariant of the fold: `LoopsPass` for the
  pairs of an inverter, `LastPass` for the flags that the last loop leaves,
  `CurrentsPass` for the position controllers, `TellPass` for the references.
* `FlagInv`: an application that was never stopped finds the flag of its last
  loops cleared at every interrupt, so a pair completes only with all of one
  interrupt.  `SinceInv`: after one interrupt the currents are what was sent,
  after two all bridges have been told.

A fold is a recursive function here, and an invariant of it follows from the
least step at which it fails (`Along`), which needs no induction principle.

Only model-checked is all liveness, which the provers do not do:
`EventuallyDelivered`, `EveryTaskRuns`, `EveryLineIsAnswered`, `ListingEnds`,
`CommandsFlow` with its refinement of `Forwarding`, `TicksComeInSession`, `RampArrives`, `LwipTimersRun`, and the
other half of `ImplementsSensor`.  Every invariant of the runs that pass is
proved.

## Not modelled

* Arithmetic on doubles (control laws, statistics, transforms, conversions of
  sensors): TLC and the provers have no reals.  Where control depends on it
  (angles, ramps, waves) integers stand for it; elsewhere a quantity is at
  rest or not.
* Register drivers and generated AXI wrappers: plain I/O.  Sensor IP other than
  the AMDS, its bits of a byte, and the time stamps and statistics of the
  timing manager.
* Task statistics, the watchdog, and the applications that are examples of
  tasks and commands: without state that outlives a callback or that anything
  else depends on.
* The order in which weakly ordered memory lets the consumer's load and count
  store become visible: `Icc` takes the memory as the code does.
* Hosts that do not wait for one answer before they ask again (`Polite` off)
  beyond the counterexample of `cmd_wrong_stream`: the code loses the answer of
  a help or dump that is restarted, and `AMDC.py` takes an answer that comes
  after its timeout for that of the next command.
* A `tcp_write` that fails although the send buffer has room, and segments that
  lwIP delivers as a chain of pbufs (the code copies the first one of them).
* The multiplexer behind the inverter core and its clock divider, which the
  driver leaves at 0; more than one leg, as legs share only the carrier.
* Legacy commands that only print, and its encoder, converter and benchmark
  commands.

## Plan

1. Done: `Icc` over `BoundedFifo`, `SerialOut`, `IccTx`, `LogStream`;
   `Scheduler`; `CmdParser`, `Commands`, `Injection`, `BetaLabs`; `Log`;
   `Inverter`, `PwmDrv`, `DemoCc`.
2. Done: `RingBuf`, `SocketManager` and `Forwarding`.
3. Done: `TimingManager`, `Sensor`, `Acquisition`; `AdcUartRx`, `Amds`,
   `AmdsOpen`.
4. Done: the legacy firmware, `BasicControl`, `BasicLog`, `BasicStream`,
   `BasicPwm`, `BasicBoot`.
5. Left: the encoder, converter and eddy current interfaces as implementations
   of `Sensor`, the bits of a byte (`uart_rx.v`), and the state machine that
   prints task statistics, another one like those of `Commands`.
6. Done: the theorems above, which leave no invariant of a passing run without
   one.
