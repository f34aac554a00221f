----------------------------- MODULE Scheduler -----------------------------
(***************************************************************************)
(* The cooperative scheduler of CPU1 (scheduler.c): the list of registered *)
(* tasks, the endless loop of scheduler_run, and the timing manager ISR    *)
(* that interrupts it at any point and calls scheduler_tick.               *)
(*                                                                         *)
(* A step is what the loop does between two points where an interrupt can  *)
(* change what it sees.  The ISR never touches the list, so one call of    *)
(* the list API is one step.                                               *)
(*                                                                         *)
(* Time is counted in ticks (the double elapsed_usec, the tolerance of     *)
(* 0.06 us being far below a tick) and looked at through a window: once    *)
(* elapsed_usec reaches Horizon, a tick moves every stored time one back   *)
(* instead.  Only differences of times matter to the code.                 *)
(***************************************************************************)
EXTENDS Integers, Sequences

CONSTANTS
  Task,             \* the task control blocks
  Interval,         \* [Task -> ticks]: interval_usec
  Controller,       \* tasks whose callback executes commands and calls the API
  NULL,
  MaxOps,           \* bound: API calls one callback makes
  MaxOverrun,       \* bound: ticks that arrive while one slice runs
  Horizon           \* bound: length of the time window

ASSUME SchedAssumption ==
  /\ Interval \in [Task -> Nat]
  /\ Controller \subseteq Task
  /\ NULL \notin Task
  /\ MaxOps \in Nat /\ MaxOverrun \in Nat
  /\ Horizon \in Nat /\ \A x \in Task : Horizon > Interval[x] + 2 * MaxOverrun + 1

VARIABLES
  quantum_checking, \* USER_CONFIG_ENABLE_TIME_QUANTUM_CHECKING of the build
  tasks,           \* the linked list, in order
  is_registered,
  last_run,        \* last_run_usec
  elapsed,         \* elapsed_usec
  my_elapsed,      \* the slice's copy of it
  tasks_running, scheduler_idle, running_task,
  pc,              \* where scheduler_run is
  t,               \* its local t
  gone,            \* the next pointer of t once t unregistered itself
  ops,             \* API calls made by the running callback
  reported,        \* the running_task the overrun message dereferences
  owed, ran, fresh \* history, see EnterSlice, RunTask and TcbInit

listVars == <<tasks, is_registered>>
isrVars == <<quantum_checking, elapsed, scheduler_idle, reported>>
history == <<owed, ran, fresh>>
vars == <<listVars, last_run, isrVars, my_elapsed, tasks_running, running_task, pc, t,
          gone, ops, history>>

Registered == {x \in Task : is_registered[x]}
hung == pc = "hung"

(* The first node of the list, and the next pointer of a node in it. *)
First(list) == IF list = << >> THEN NULL ELSE Head(list)
Position(x) == CHOOSE i \in DOMAIN tasks : tasks[i] = x
Successor(x) == IF Position(x) = Len(tasks) THEN NULL ELSE tasks[Position(x) + 1]
NextFromHead(x) == IF is_registered[x] THEN Successor(x) ELSE First(tasks)  \* mutant
NextOf(x) == IF is_registered[x] THEN Successor(x) ELSE gone
DueLate(x) == my_elapsed - last_run[x] > Interval[x]     \* mutant: off by one
DueExactly(x) == my_elapsed - last_run[x] = Interval[x]  \* mutant: equality
Due(x) == my_elapsed - last_run[x] >= Interval[x]

Init ==
  /\ quantum_checking \in BOOLEAN
  /\ tasks = << >>
  /\ is_registered = [x \in Task |-> FALSE]
  /\ last_run = [x \in Task |-> 0]
  /\ elapsed = 0 /\ my_elapsed = 0
  /\ tasks_running = FALSE /\ scheduler_idle = FALSE
  /\ running_task = NULL /\ reported = NULL
  /\ pc = "boot" /\ t = NULL /\ gone = NULL /\ ops = 0
  /\ owed = {} /\ ran = {} /\ fresh = {}

-----------------------------------------------------------------------------
(***************************************************************************)
(* The list API.  main() registers the first tasks, then the callbacks of  *)
(* the command tasks do what a command asks for.  Every caller initialises *)
(* a tcb right before it registers it, so both calls are one action; the   *)
(* registration of a tcb that is registered fails silently, but the tcb    *)
(* has been initialised all the same.                                      *)
(***************************************************************************)
InCommand == pc = "callback" /\ running_task \in Controller /\ ops < MaxOps
CanStart(x) == x # running_task /\ (pc = "boot" \/ InCommand)
CountCall == ops' = IF pc = "boot" THEN 0 ELSE ops + 1

TcbInit(x) == /\ last_run' = [last_run EXCEPT ![x] = 0]
              /\ fresh' = fresh \cup {x}

AddTwice(x, list) ==   \* mutant: the is_registered test is missing
  tasks' = list /\ is_registered' = [is_registered EXCEPT ![x] = TRUE]
Add(x, list) ==
  IF is_registered[x]
  THEN UNCHANGED listVars
  ELSE tasks' = list /\ is_registered' = [is_registered EXCEPT ![x] = TRUE]

Start(x, list) ==
  /\ CanStart(x)
  /\ TcbInit(x)
  /\ Add(x, list)
  /\ CountCall
  /\ UNCHANGED <<isrVars, my_elapsed, tasks_running, running_task, pc, t, gone, owed, ran>>

Register(x) == Start(x, Append(tasks, x))
RegisterHighPriority(x) == Start(x, <<x>> \o tasks)

Without(i) == SubSeq(tasks, 1, i - 1) \o SubSeq(tasks, i + 1, Len(tasks))

UnlinkClearing(x, after) ==   \* mutant: next is cleared too
  /\ tasks' = Without(Position(x))
  /\ is_registered' = [is_registered EXCEPT ![x] = FALSE]
  /\ gone' = NULL
  /\ owed' = owed \ {x}
  /\ ran' = ran \ {x}
Unlink(x, after) ==
  /\ tasks' = Without(Position(x))
  /\ is_registered' = [is_registered EXCEPT ![x] = FALSE]
  /\ gone' = after
  /\ owed' = owed \ {x}
  /\ ran' = ran \ {x}

(* A command stops another task; no command stops a command task. *)
Unregister(x) ==
  /\ InCommand
  /\ x \notin Controller
  /\ is_registered[x]
  /\ Unlink(x, gone)
  /\ CountCall
  /\ UNCHANGED <<isrVars, last_run, my_elapsed, tasks_running, running_task, pc, t, fresh>>

(***************************************************************************)
(* A state machine task that is done stops itself: the last call its       *)
(* callback makes.  The loop then follows the next pointer the unlinked    *)
(* tcb still has.                                                          *)
(***************************************************************************)
UnregisterSelf ==
  /\ pc = "callback"
  /\ running_task \notin Controller
  /\ is_registered[running_task]
  /\ Unlink(running_task, Successor(running_task))
  /\ UNCHANGED <<isrVars, last_run, my_elapsed, tasks_running, running_task, pc, t, ops, fresh>>

-----------------------------------------------------------------------------
(* scheduler_run, from one point an interrupt can matter at to the next.   *)

StartRun ==
  /\ pc = "boot"
  /\ pc' = "top"
  /\ UNCHANGED <<listVars, last_run, isrVars, my_elapsed, tasks_running, running_task, t,
                 gone, ops, history>>

ReadElapsed ==
  /\ pc = "top"
  /\ my_elapsed' = elapsed
  /\ pc' = "enter"
  /\ UNCHANGED <<listVars, last_run, isrVars, tasks_running, running_task, t, gone, ops,
                 history>>

(* owed: due at the start of the slice, registered ever since, not run yet. *)
EnterSlice ==
  /\ pc = "enter"
  /\ tasks_running' = TRUE
  /\ t' = First(tasks)
  /\ pc' = "walk"
  /\ owed' = {x \in Registered : Due(x)}
  /\ ran' = {}
  /\ UNCHANGED <<listVars, last_run, isrVars, my_elapsed, running_task, gone, ops, fresh>>

(* ran: run in this slice and registered ever since. *)
RunTask ==
  /\ pc = "walk" /\ t # NULL
  /\ Due(t)
  /\ running_task' = t
  /\ pc' = "callback"
  /\ ops' = 0
  /\ owed' = owed \ {t}
  /\ ran' = ran \cup {t}
  /\ UNCHANGED <<listVars, last_run, isrVars, my_elapsed, tasks_running, t, gone, fresh>>

SkipTask ==
  /\ pc = "walk" /\ t # NULL
  /\ ~Due(t)
  /\ t' = NextOf(t)
  /\ UNCHANGED <<listVars, last_run, isrVars, my_elapsed, tasks_running, running_task, pc,
                 gone, ops, history>>

ClearRunning == running_task' = NULL

(* fresh: initialised and not run since. *)
FinishTask ==
  /\ pc = "callback"
  /\ ClearRunning
  /\ last_run' = [last_run EXCEPT ![t] = my_elapsed]
  /\ t' = NextOf(t)
  /\ pc' = "walk"
  /\ fresh' = fresh \ {t}
  /\ gone' = NULL
  /\ UNCHANGED <<listVars, isrVars, my_elapsed, tasks_running, ops, owed, ran>>

EndWalk ==
  /\ pc = "walk" /\ t = NULL
  /\ tasks_running' = FALSE
  /\ pc' = "goIdle"
  /\ UNCHANGED <<listVars, last_run, isrVars, my_elapsed, running_task, t, gone, ops, history>>

GoIdle ==
  /\ pc = "goIdle"
  /\ scheduler_idle' = TRUE
  /\ pc' = "wait"
  /\ UNCHANGED <<quantum_checking, listVars, last_run, elapsed, my_elapsed, tasks_running,
                 running_task, t, gone, ops, reported, history>>

Wake ==
  /\ pc = "wait" /\ ~scheduler_idle
  /\ pc' = "top"
  /\ UNCHANGED <<listVars, last_run, isrVars, my_elapsed, tasks_running, running_task, t,
                 gone, ops, history>>

-----------------------------------------------------------------------------
(* The ISR.                                                                *)

Back(time) == IF time = 0 THEN 0 ELSE time - 1

AdvanceTime ==
  IF elapsed < Horizon
  THEN elapsed' = elapsed + 1 /\ UNCHANGED <<my_elapsed, last_run>>
  ELSE /\ my_elapsed' = Back(my_elapsed)
       /\ last_run' = [x \in Task |-> Back(last_run[x])]
       /\ UNCHANGED elapsed

(* The bound MaxOverrun on the ticks one slice takes. *)
TickAllowed == \/ pc = "boot"
               \/ elapsed - my_elapsed < IF pc = "wait" THEN MaxOverrun + 1 ELSE MaxOverrun

OverrunSeen == quantum_checking /\ tasks_running

Tick ==
  /\ ~hung /\ ~OverrunSeen
  /\ TickAllowed
  /\ AdvanceTime
  /\ scheduler_idle' = FALSE
  /\ UNCHANGED <<quantum_checking, listVars, tasks_running, running_task, pc, t, gone, ops,
                 reported, history>>

(***************************************************************************)
(* The first interrupt after the sensors were enabled comes within 22 us   *)
(* of the last one: it is not checked and advances no tick.                *)
(***************************************************************************)
ShortTick ==
  /\ ~hung
  /\ scheduler_idle' = FALSE
  /\ UNCHANGED <<quantum_checking, listVars, last_run, elapsed, my_elapsed, tasks_running,
                 running_task, pc, t, gone, ops, reported, history>>

(* The slice overran its time quantum: report the running task and hang. *)
Overrun ==
  /\ ~hung /\ OverrunSeen
  /\ reported' = running_task
  /\ pc' = "hung"
  /\ UNCHANGED <<quantum_checking, listVars, last_run, elapsed, scheduler_idle, my_elapsed,
                 tasks_running, running_task, t, gone, ops, history>>

ListStep == \/ \E x \in Task : Register(x) \/ RegisterHighPriority(x) \/ Unregister(x)
            \/ UnregisterSelf
LoopStep == \/ StartRun \/ ReadElapsed \/ EnterSlice \/ RunTask \/ SkipTask \/ FinishTask
            \/ EndWalk \/ GoIdle \/ Wake
Interrupt == Tick \/ ShortTick \/ Overrun

Next == ListStep \/ LoopStep \/ Interrupt

Spec == Init /\ [][Next]_vars

(***************************************************************************)
(* CPU1 keeps executing, callbacks return, and the timing manager of the   *)
(* FPGA interrupts for ever.                                               *)
(***************************************************************************)
FairSpec == Spec /\ WF_vars(ListStep \/ LoopStep) /\ WF_vars(Tick \/ Overrun)

-----------------------------------------------------------------------------
TypeOK ==
  /\ quantum_checking \in BOOLEAN
  /\ tasks \in Seq(Task)
  /\ is_registered \in [Task -> BOOLEAN]
  /\ last_run \in [Task -> 0 .. Horizon]
  /\ elapsed \in 0 .. Horizon /\ my_elapsed \in 0 .. Horizon
  /\ tasks_running \in BOOLEAN /\ scheduler_idle \in BOOLEAN
  /\ running_task \in Task \cup {NULL} /\ reported \in Task \cup {NULL}
  /\ t \in Task \cup {NULL} /\ gone \in Task \cup {NULL}
  /\ pc \in {"boot", "top", "enter", "walk", "callback", "goIdle", "wait", "hung"}
  /\ ops \in 0 .. MaxOps
  /\ owed \subseteq Task /\ ran \subseteq Task /\ fresh \subseteq Task

(***************************************************************************)
(* The list holds every registered task once and no other: the flag each   *)
(* tcb carries and the list never disagree.                                *)
(***************************************************************************)
ListMatchesFlags ==
  /\ \A i, j \in DOMAIN tasks : tasks[i] = tasks[j] => i = j
  /\ {tasks[i] : i \in DOMAIN tasks} = Registered

(***************************************************************************)
(* A slice is complete: when it ends, each task that was due at its start  *)
(* and stayed registered has run, whatever the callbacks started and       *)
(* stopped meanwhile.                                                      *)
(***************************************************************************)
SliceIsComplete == pc = "goIdle" => owed = {}

(***************************************************************************)
(* A slice runs a task at most once, unless the task was unregistered in   *)
(* between: initialising a tcb again does not make it run again.           *)
(***************************************************************************)
AtMostOncePerSlice == [][pc = "walk" /\ pc' = "callback" => t \notin ran]_vars

(* A task whose tcb is not registered does not run. *)
RunsOnlyRegistered == [][pc' = "callback" /\ pc # "callback" => is_registered[running_task']]_vars

(* Both: a callback starts at most once in a slice, and of a task that is  *)
(* registered when it starts.                                              *)
RunsOnceIfRegistered == AtMostOncePerSlice /\ RunsOnlyRegistered

(***************************************************************************)
(* With at most MaxOverrun ticks in a slice, a periodic task is never more *)
(* than twice that later than its interval; without overruns, never late.  *)
(* An interval of 0 means every tick.                                      *)
(***************************************************************************)
Period(x) == IF Interval[x] = 0 THEN 1 ELSE Interval[x]
LatenessBounded ==
  \A x \in Registered \ fresh : elapsed - last_run[x] <= Period(x) + 2 * MaxOverrun

(***************************************************************************)
(* A task that stays registered runs again and again, unless the quantum   *)
(* check hangs the program.                                                *)
(***************************************************************************)
EveryTaskRuns ==
  \A x \in Task : <>[](is_registered[x] /\ ~hung) => []<>(running_task = x)

(***************************************************************************)
(* Wherever the interrupt lands, the overrun message never names another   *)
(* task than the one the loop stands on.                                   *)
(***************************************************************************)
OverrunNamesNoOther == hung => reported \in {t, NULL}

(* What scheduler_tick promises: a tick moves the scheduler out of idle. *)
NoTickSleptThrough == pc = "wait" /\ scheduler_idle => elapsed = my_elapsed
=============================================================================
