-------------------------------- MODULE Log --------------------------------
(***************************************************************************)
(* The logging engine of CPU1 (log.c and its commands in cmd_log.c): the   *)
(* log task samples registered variables into a circular buffer per slot   *)
(* and streams them to sockets; the log commands register, start, stop,    *)
(* empty and stream; two state machine tasks dump a slot, as text or       *)
(* binary, over many slices.                                               *)
(*                                                                         *)
(* A sample is the tick it was taken at and the variable it was taken of.  *)
(* Slices are the ticks: the log task runs once in each, commands and      *)
(* dumps run between two of them.                                          *)
(***************************************************************************)
EXTENDS Integers, Sequences

CONSTANTS
  Slot,             \* 0 .. LOG_MAX_NUM_VARIABLES - 1
  Name,             \* the variables that get registered
  Depth,            \* LOG_SAMPLE_DEPTH_PER_VARIABLE
  Socket,           \* socket_id of a stream
  TickNum, TickDen, \* a tick takes TickNum / TickDen usec
  Every,            \* sampling rates: every n-th tick
  MaxUsec,          \* the largest uint32_t
  EthBatch,         \* samples one callback dumps to Ethernet
  MaxTicks, MaxCmds,\* bounds: ticks, commands
  NULL

ASSUME LogAssumption ==
  /\ Depth \in Nat \ {0} /\ EthBatch \in Nat \ {0}
  /\ TickNum \in Nat \ {0} /\ TickDen \in Nat \ {0} /\ TickNum >= 2 * TickDen
  /\ Every \subseteq Nat \ {0}
  /\ MaxUsec \in Nat /\ MaxTicks \in Nat /\ MaxCmds \in Nat
  /\ NULL \notin Name \cup Socket

Format == {"ascii", "binary"}
Index == 0 .. Depth - 1

VARIABLES
  is_log_running,
  vars,        \* the slots
  dump,        \* the state machine context of each format
  ticks,       \* slices so far
  cmds,        \* commands so far
  kept,        \* history: the samples a slot ought to hold, oldest first
  active,      \* history: the tick since which a slot samples, or sampled last
  synced,      \* history: the first tick a slot streams after synctime
  streamed,    \* history: the slots streamed in the last slice
  announced,   \* history: the samples of the dump when it wrote their number
  disturbed,   \* history: dumps whose slot changed while they were under way
  mixed        \* history: slots registered anew without being unregistered

history == <<kept, active, synced, streamed, announced, disturbed, mixed>>
logVars == <<is_log_running, vars, dump, ticks, cmds, history>>

NoDump == [state |-> "off", var_idx |-> NULL, sample_idx |-> 0, batch |-> 1, sent |-> << >>]
EmptySlot ==
  [is_registered |-> FALSE, name |-> NULL, every |-> 1, log_interval |-> 0, last_logged |-> 0,
   num_samples |-> 0, buffer |-> [i \in Index |-> NULL], buffer_idx |-> 0,
   is_streaming |-> FALSE, socket_id |-> NULL, last_streamed |-> 0]

Init ==
  /\ is_log_running = FALSE
  /\ vars = [s \in Slot |-> EmptySlot]
  /\ dump = [f \in Format |-> NoDump]
  /\ ticks = 0 /\ cmds = 0
  /\ kept = [s \in Slot |-> << >>]
  /\ active = [s \in Slot |-> NULL] /\ synced = [s \in Slot |-> NULL]
  /\ streamed = {} /\ announced = [f \in Format |-> << >>]
  /\ disturbed = {} /\ mixed = {}

-----------------------------------------------------------------------------
(* The log task.                                                           *)

(* usec after n ticks, truncated; a double that is too large saturates.    *)
Saturated(usec) == IF usec > MaxUsec THEN MaxUsec ELSE usec
Usec(n) == Saturated((n * TickNum) \div TickDen)

RoundedUp(n) == (n * TickNum + TickDen - 1) \div TickDen   \* mutant
IntervalOf(n) == (n * TickNum) \div TickDen

SampleDue(v, now) == is_log_running /\ v.is_registered /\ now - v.last_logged >= v.log_interval
StreamDueLate(v, now) == \* mutant: > for >=
  v.is_registered /\ v.is_streaming /\ now - v.last_streamed > v.log_interval
StreamDue(v, now) ==
  v.is_registered /\ v.is_streaming /\ now - v.last_streamed >= v.log_interval

Wrapped(i) == IF i >= Depth THEN 0 ELSE i

Sampled(v, n) ==
  IF ~SampleDue(v, Usec(n)) THEN v
  ELSE [v EXCEPT !.last_logged = Usec(n),
                 !.buffer[v.buffer_idx] = [at |-> n, name |-> v.name],
                 !.buffer_idx = Wrapped(@ + 1),
                 !.num_samples = IF @ < Depth THEN @ + 1 ELSE @]
Streamed(v, n) == IF StreamDue(v, Usec(n)) THEN [v EXCEPT !.last_streamed = Usec(n)] ELSE v

Latest(q) == SubSeq(q, IF Len(q) > Depth THEN 2 ELSE 1, Len(q))

Dumping(S) == {f \in Format : dump[f].state # "off" /\ dump[f].var_idx \in S}
Disturb(S) == disturbed' = disturbed \cup Dumping(S)

LogCallback ==
  /\ ticks < MaxTicks
  /\ ticks' = ticks + 1
  /\ vars' = [s \in Slot |-> Streamed(Sampled(vars[s], ticks'), ticks')]
  /\ LET due == {s \in Slot : SampleDue(vars[s], Usec(ticks'))}
     IN  /\ kept' = [s \in Slot |->
              IF s \in due THEN Latest(Append(kept[s], [at |-> ticks', name |-> vars[s].name]))
                           ELSE kept[s]]
         /\ active' = [s \in Slot |-> IF s \in due THEN ticks' ELSE active[s]]
         /\ Disturb(due)
  /\ streamed' = {s \in Slot : StreamDue(vars[s], Usec(ticks'))}
  /\ UNCHANGED <<is_log_running, dump, cmds, synced, announced, mixed>>

-----------------------------------------------------------------------------
(* The commands, which the code accepts at any time, also during a dump.   *)
Command ==
  /\ cmds < MaxCmds /\ cmds' = cmds + 1
  /\ UNCHANGED <<ticks, streamed>>
Activate(S) == active' = [s \in Slot |-> IF s \in S THEN ticks ELSE active[s]]
Emptied(v) == [v EXCEPT !.buffer_idx = 0, !.last_logged = 0, !.num_samples = 0]

LogStart ==
  /\ Command
  /\ ~is_log_running
  /\ is_log_running' = TRUE
  /\ Activate({s \in Slot : vars[s].is_registered})
  /\ UNCHANGED <<vars, dump, kept, synced, announced, disturbed, mixed>>

LogStop ==
  /\ Command
  /\ is_log_running
  /\ is_log_running' = FALSE
  /\ UNCHANGED <<vars, dump, kept, active, synced, announced, disturbed, mixed>>

Register(s, name, n) ==
  /\ Command
  /\ vars' = [vars EXCEPT ![s] = [@ EXCEPT !.name = name, !.every = n,
                                          !.log_interval = IntervalOf(n), !.last_logged = 0,
                                          !.is_registered = TRUE]]
  /\ Activate({s})
  /\ synced' = [synced EXCEPT ![s] = NULL]
  /\ mixed' = IF vars[s].is_registered THEN mixed \cup {s} ELSE mixed
  /\ UNCHANGED <<is_log_running, dump, kept, announced, disturbed>>

KeepSamples(v) == [v EXCEPT !.is_registered = FALSE]   \* mutant: the slot is not emptied
Unregistered(v) == Emptied([v EXCEPT !.is_registered = FALSE])

Unregister(s) ==
  /\ Command
  /\ vars' = [vars EXCEPT ![s] = Unregistered(@)]
  /\ kept' = [kept EXCEPT ![s] = << >>]
  /\ Disturb({s}) /\ mixed' = mixed \ {s}
  /\ UNCHANGED <<is_log_running, dump, active, synced, announced>>

Empty(S) ==
  /\ Command
  /\ vars' = [s \in Slot |-> IF s \in S THEN Emptied(vars[s]) ELSE vars[s]]
  /\ kept' = [s \in Slot |-> IF s \in S THEN << >> ELSE kept[s]]
  /\ Disturb(S) /\ mixed' = mixed \ S
  /\ UNCHANGED <<is_log_running, dump, active, synced, announced>>

Stream(s, enable, socket) ==
  /\ Command
  /\ vars[s].is_registered /\ vars[s].is_streaming # enable
  /\ vars' = [vars EXCEPT ![s] = [@ EXCEPT !.is_streaming = enable, !.last_streamed = 0,
                                          !.socket_id = socket]]
  /\ synced' = [synced EXCEPT ![s] = NULL]
  /\ UNCHANGED <<is_log_running, dump, kept, active, announced, disturbed, mixed>>

Streaming == {s \in Slot : vars[s].is_registered /\ vars[s].is_streaming}

(* synced: a slot streams in the next slice, once an interval has passed   *)
(* since power on.                                                         *)
FirstAfterSync(s) == IF ticks + 1 >= vars[s].every THEN ticks + 1 ELSE vars[s].every

SyncTime ==
  /\ Command
  /\ vars' = [s \in Slot |-> IF s \in Streaming THEN [vars[s] EXCEPT !.last_streamed = 0]
                                                ELSE vars[s]]
  /\ synced' = [s \in Slot |-> IF s \in Streaming THEN FirstAfterSync(s) ELSE synced[s]]
  /\ UNCHANGED <<is_log_running, dump, kept, active, announced, disturbed, mixed>>

DumpVar(s, f, batch) ==
  /\ Command
  /\ ~is_log_running
  /\ vars[s].is_registered
  /\ dump' = [dump EXCEPT ![f] = [NoDump EXCEPT !.state = "title", !.var_idx = s,
                                               !.batch = batch]]
  /\ announced' = [announced EXCEPT ![f] = << >>]
  /\ disturbed' = disturbed \ {f}
  /\ UNCHANGED <<is_log_running, vars, kept, active, synced, mixed>>

-----------------------------------------------------------------------------
(***************************************************************************)
(* The dump state machines.  States that only write are one with the next. *)
(***************************************************************************)
Goto(f, state) == dump' = [dump EXCEPT ![f].state = state]
FirstSampleState(f) == IF f = "ascii" THEN "timestamp" ELSE "sample"

DumpTitle(f) == dump[f].state = "title" /\ Goto(f, "num_samples") /\ UNCHANGED announced

DumpNumSamples(f) ==
  LET v == vars[dump[f].var_idx]
  IN  /\ dump[f].state = "num_samples"
      /\ announced' = [announced EXCEPT ![f] = [i \in 1 .. v.num_samples |-> v.buffer[i - 1]]]
      /\ Goto(f, "header")

DumpHeader(f) ==
  /\ dump[f].state = "header"
  /\ Goto(f, IF vars[dump[f].var_idx].num_samples = 0 THEN "footer" ELSE FirstSampleState(f))
  /\ UNCHANGED announced

DumpTimestamp(f) == dump[f].state = "timestamp" /\ Goto(f, "sample") /\ UNCHANGED announced

LeaveOneOut(d, v) == d.sample_idx + 1 >= v.num_samples   \* mutant
AllSent(d, v) == d.sample_idx >= v.num_samples

(* d after n samples, fewer if they run out: only then is more asked for.  *)
SendUpTo(d, v, n) ==
  LET left == v.num_samples - d.sample_idx
      k == IF n <= 1 \/ n <= left THEN n ELSE IF left < 1 THEN 1 ELSE left
  IN  [d EXCEPT !.sent = @ \o [i \in 1 .. k |-> v.buffer[d.sample_idx + i - 1]],
                !.sample_idx = @ + k]

(* A binary dump sends what the output buffer has room for, if anything.   *)
DumpSample(f, n) ==
  LET v == vars[dump[f].var_idx]
      d == SendUpTo(dump[f], v, n)
  IN  /\ dump[f].state = "sample"
      /\ n <= dump[f].batch /\ (f = "ascii" => n = 1)
      /\ dump' = [dump EXCEPT ![f] =
           IF n > 0 /\ AllSent(d, v) THEN [d EXCEPT !.state = "footer"]
           ELSE [d EXCEPT !.state = FirstSampleState(f)]]
      /\ UNCHANGED announced

DumpFooter(f) == dump[f].state = "footer" /\ Goto(f, "remove") /\ UNCHANGED announced

DumpRemove(f) ==
  /\ dump[f].state = "remove"
  /\ dump' = [dump EXCEPT ![f] = NoDump]
  /\ announced' = [announced EXCEPT ![f] = << >>]

DumpCallback ==
  /\ \E f \in Format :
       \/ DumpTitle(f) \/ DumpNumSamples(f) \/ DumpHeader(f) \/ DumpTimestamp(f)
       \/ (\E n \in 0 .. EthBatch : DumpSample(f, n))
       \/ DumpFooter(f) \/ DumpRemove(f)
  /\ UNCHANGED <<is_log_running, vars, ticks, cmds, kept, active, synced, streamed, disturbed,
                 mixed>>

LogCommand ==
  \/ LogStart \/ LogStop \/ SyncTime \/ Empty(Slot)
  \/ \E s \in Slot :
       \/ \E name \in Name, n \in Every : Register(s, name, n)
       \/ Unregister(s) \/ Empty({s})
       \/ \E enable \in BOOLEAN, socket \in Socket : Stream(s, enable, socket)
       \/ \E f \in Format, batch \in {1, EthBatch} : DumpVar(s, f, batch)

Next == LogCallback \/ LogCommand \/ DumpCallback

Spec == Init /\ [][Next]_logVars

-----------------------------------------------------------------------------
TypeOK ==
  /\ is_log_running \in BOOLEAN
  /\ \A s \in Slot : /\ vars[s].num_samples \in 0 .. Depth
                     /\ vars[s].buffer_idx \in Index
                     /\ DOMAIN vars[s].buffer = Index
                     /\ vars[s].last_logged \in 0 .. Usec(ticks)
                     /\ vars[s].last_streamed \in 0 .. Usec(ticks)
  /\ \A f \in Format : dump[f].sample_idx \in 0 .. Depth

(***************************************************************************)
(* The circular buffer of a slot holds the latest samples, oldest at       *)
(* buffer_idx once it has gone round, through any sequence of starts,      *)
(* stops, registrations and empties.  "So when variable is rereg the next  *)
(* time, previous samples aren't still stored": a slot that is             *)
(* unregistered or emptied before it is registered anew holds samples of   *)
(* the variable registered in it only.                                     *)
(***************************************************************************)
Stored(v) ==
  [i \in 1 .. v.num_samples |-> v.buffer[(v.buffer_idx - v.num_samples + i - 1) % Depth]]
HoldsItsLatest ==
  \A s \in Slot :
    /\ Stored(vars[s]) = kept[s]
    /\ s \in mixed \/ \A i \in DOMAIN Stored(vars[s]) : Stored(vars[s])[i].name = vars[s].name

(***************************************************************************)
(* "We do not expect any samples to get missed when logging even when      *)
(* running at not-nice frequencies": a slot that is to be sampled every    *)
(* n-th tick never goes n ticks without a sample.                          *)
(***************************************************************************)
NoSampleMissed ==
  \A s \in Slot : is_log_running /\ vars[s].is_registered
                    => ticks - active[s] < vars[s].every

(***************************************************************************)
(* A dump sends as many samples as it announced, and the announced ones,   *)
(* in buffer order, however the room in the output buffer splits it, as    *)
(* long as its slot does not change meanwhile.                             *)
(***************************************************************************)
DumpIsWhatWasAnnounced ==
  \A f \in Format \ disturbed : dump[f].state \in {"footer", "remove"} => dump[f].sent = announced[f]

(***************************************************************************)
(* "Resets stream timing to align output": after synctime a slot streams   *)
(* in the next slice and then every n-th one, so that slots with the same  *)
(* rate stream in the same slices for ever.                                *)
(***************************************************************************)
StreamsAligned ==
  \A s \in Slot : synced[s] # NULL /\ ticks >= synced[s] /\ s \in Streaming
    => (s \in streamed <=> (ticks - synced[s]) % vars[s].every = 0)
=============================================================================
