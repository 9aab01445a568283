--------------------------- MODULE WorkflowContext ---------------------------
(***************************************************************************)
(* sdk/workflow/context.go under executeWorkflowTask of sdk/worker.go: a   *)
(* workflow function is run again from its beginning for every workflow    *)
(* task, over a copy of the history, with counters that say which call     *)
(* this is; a call without an answer unwinds the function, and what it has *)
(* asked for is reported.  The worker may die at any step, and the engine  *)
(* appends events at any moment, while the function runs too.              *)
(*                                                                         *)
(* One replay is under way at a time: one worker, with its one loop for    *)
(* workflow tasks.  (Several are the subject of module System.)            *)
(***************************************************************************)
EXTENDS Replay

CONSTANTS
  Functions,     \* workflow functions, as sequences of their calls
  MaxArrivals    \* BOUND: outcomes, fired timers and signals of the run

ASSUME FunctionsAssumption ==
  /\ \A f \in Functions : WellFormed(f)
  /\ "" \notin Names

VARIABLES
  fn,                 \* the run's function
  status,             \* of the run, in workflow_executions
  events,             \* its rows of events, as GetEvents orders them
  state,              \* of the worker: "idle", "running", and how fn ended
  history, commands,  \* Context.history, Context.commands
  activityCallCount, timerCallCount, signalConsumed,   \* of the Context
  futures,            \* ActivityFutures made so far
  pc,                 \* the call that fn makes next
  furthest,           \* auxiliary: the replay that got furthest
  overtaken           \* auxiliary: some event was read before one like it
                      \* that had been committed earlier

context == <<history, commands, activityCallCount, timerCallCount,
             signalConsumed, futures, pc>>

vars == <<fn, status, events, state, context, furthest, overtaken>>

Ended == {"paused", "returned", "failed"}

Future == [activityName : Names, callIndex : Nat]

TypeOK ==
  /\ fn \in Functions
  /\ status \in {"Running", "Completed", "Failed"}
  /\ events \in Seq(HistoryEvent)
  /\ state \in {"idle", "running"} \cup Ended
  /\ history \in Seq(HistoryEvent)
  /\ commands \in Seq(WorkflowCommand)
  /\ activityCallCount \in Nat /\ timerCallCount \in Nat
  /\ signalConsumed \in [Names -> Nat]
  /\ futures \in Seq(Future)
  /\ pc \in 1..(Len(fn) + 1)
  /\ furthest \in [pc : Nat, state : {"idle"} \cup Ended]
  /\ overtaken \in BOOLEAN

Event(type, name, index, good) ==
  [type |-> type, name |-> name, index |-> index, good |-> good]

Init ==
  /\ fn \in Functions
  /\ status = "Running"
  /\ events = <<Event("WorkflowStarted", "", 0, TRUE)>>
  /\ state = "idle"
  /\ history = <<>> /\ commands = <<>>
  /\ activityCallCount = 0 /\ timerCallCount = 0
  /\ signalConsumed = [n \in Names |-> 0]
  /\ futures = <<>>
  /\ pc = 1
  /\ furthest = [pc |-> 1, state |-> "idle"]
  /\ overtaken = FALSE

-----------------------------------------------------------------------------
(* The worker *)

\* A workflow task has been polled: workflow.New, and the function is called.
\* There may be one more of them after the run has closed.
New ==
  /\ state = "idle"
  /\ state' = "running"
  /\ history' = events /\ commands' = <<>>
  /\ activityCallCount' = 0 /\ timerCallCount' = 0
  /\ signalConsumed' = [n \in Names |-> 0]
  /\ futures' = <<>>
  /\ pc' = 1
  /\ UNCHANGED <<fn, status, events, furthest, overtaken>>

Calls(op) == state = "running" /\ pc \in DOMAIN fn /\ fn[pc].op = op

\* The call returns with event e: the function goes on or gives up.
Returns(e) ==
  IF GoesOn(fn[pc], e) THEN pc' = pc + 1 /\ state' = state
  ELSE pc' = pc /\ state' = "failed"

\* panic(ErrPendingActivity), recovered in executeWorkflowTask.
Pause == pc' = pc /\ state' = "paused"

\* Mutation: only calls that schedule something are counted.
ExecuteActivityCountedOnce ==
  LET name == fn[pc].name
      new  == ~IsScheduled(history, name, activityCallCount) IN
  /\ Calls("Execute")
  /\ activityCallCount' = IF new THEN activityCallCount + 1 ELSE activityCallCount
  /\ commands' = IF ~new THEN commands
                 ELSE Append(commands, [type |-> "ScheduleActivity", name |-> name,
                                        index |-> activityCallCount])
  /\ futures' = Append(futures, [activityName |-> name,
                                 callIndex |-> activityCallCount])
  /\ pc' = pc + 1
  /\ UNCHANGED <<fn, status, events, state, history, timerCallCount,
                 signalConsumed, furthest, overtaken>>

ExecuteActivity ==
  LET name == fn[pc].name IN
  /\ Calls("Execute")
  /\ activityCallCount' = activityCallCount + 1
  /\ commands' = IF IsScheduled(history, name, activityCallCount) THEN commands
                 ELSE Append(commands, [type |-> "ScheduleActivity", name |-> name,
                                        index |-> activityCallCount])
  /\ futures' = Append(futures, [activityName |-> name,
                                 callIndex |-> activityCallCount])
  /\ pc' = pc + 1
  /\ UNCHANGED <<fn, status, events, state, history, timerCallCount,
                 signalConsumed, furthest, overtaken>>

\* Mutation: the last outcome in the history is the one that counts.
GetLast ==
  LET f == futures[fn[pc].future + 1]
      found == Outcomes(history, f.activityName, f.callIndex) IN
  /\ Calls("Get")
  /\ IF found = {} THEN Pause ELSE Returns(history[Max(found)])
  /\ UNCHANGED <<fn, status, events, history, commands, activityCallCount,
                 timerCallCount, signalConsumed, futures, furthest, overtaken>>

\* ActivityFuture.Get: the first outcome of the future's activity.
Get ==
  LET f == futures[fn[pc].future + 1]
      found == Outcomes(history, f.activityName, f.callIndex) IN
  /\ Calls("Get")
  /\ IF found = {} THEN Pause ELSE Returns(history[Min(found)])
  /\ UNCHANGED <<fn, status, events, history, commands, activityCallCount,
                 timerCallCount, signalConsumed, futures, furthest, overtaken>>

\* Mutation: the second loop, over TimerStarted, is left out.
SleepAgain ==
  LET fired == HasTimer(history, "TimerFired", timerCallCount) IN
  /\ Calls("Sleep")
  /\ timerCallCount' = timerCallCount + 1
  /\ commands' = IF fired THEN commands
                 ELSE Append(commands, [type |-> "StartTimer", name |-> "",
                                        index |-> timerCallCount])
  /\ IF fired THEN pc' = pc + 1 /\ state' = state ELSE Pause
  /\ UNCHANGED <<fn, status, events, history, activityCallCount,
                 signalConsumed, futures, furthest, overtaken>>

Sleep ==
  LET fired   == HasTimer(history, "TimerFired", timerCallCount)
      started == HasTimer(history, "TimerStarted", timerCallCount) IN
  /\ Calls("Sleep")
  /\ timerCallCount' = timerCallCount + 1
  /\ commands' = IF fired \/ started THEN commands
                 ELSE Append(commands, [type |-> "StartTimer", name |-> "",
                                        index |-> timerCallCount])
  /\ IF fired THEN pc' = pc + 1 /\ state' = state ELSE Pause
  /\ UNCHANGED <<fn, status, events, history, activityCallCount,
                 signalConsumed, futures, furthest, overtaken>>

\* The signals of that name that this replay has not consumed yet.
Unconsumed(name) ==
  {j \in Signals(history, name) :
     Cardinality({k \in Signals(history, name) : k < j}) >= signalConsumed[name]}

ReceiveSignal ==
  LET name == fn[pc].name IN
  /\ Calls("Receive")
  /\ IF Unconsumed(name) = {}
     THEN Pause /\ UNCHANGED signalConsumed
     ELSE /\ Returns(history[Min(Unconsumed(name))])
          /\ signalConsumed' = [signalConsumed EXCEPT ![name] = @ + 1]
  /\ UNCHANGED <<fn, status, events, history, commands, activityCallCount,
                 timerCallCount, futures, furthest, overtaken>>

\* The function returns nil.
Return ==
  /\ state = "running" /\ pc = Len(fn) + 1
  /\ state' = "returned"
  /\ UNCHANGED <<fn, status, events, context, furthest, overtaken>>

\* The end of executeWorkflowTask: the last command says how fn ended.
Closing ==
  CASE state = "returned" -> <<[type |-> "CompleteWorkflow", name |-> "", index |-> 0]>>
    [] state = "failed"   -> <<[type |-> "FailWorkflow", name |-> "", index |-> 0]>>
    [] OTHER              -> <<>>

Recorded == [ScheduleActivity |-> "ActivityScheduled",
             StartTimer       |-> "TimerStarted",
             CompleteWorkflow |-> "WorkflowCompleted",
             FailWorkflow     |-> "WorkflowFailed"]

\* Mutation: the engine stores the type of the command.
EventsAsCommanded(cmds) ==
  [i \in 1..Len(cmds) |-> Event(cmds[i].type, cmds[i].name, cmds[i].index, TRUE)]

EventsOfCommands(cmds) ==
  [i \in 1..Len(cmds) |->
     Event(Recorded[cmds[i].type], cmds[i].name, cmds[i].index, TRUE)]

\* How far this replay got, if no earlier one got further.
Furthest ==
  IF pc >= furthest.pc /\ furthest.state \notin {"returned", "failed"}
  THEN [pc |-> pc, state |-> state] ELSE furthest

\* Mutation: the error that the function returned is not looked at.
StatusIgnoringError ==
  IF state \in {"returned", "failed"} THEN "Completed" ELSE status

StatusAfterwards ==
  CASE state = "returned" -> "Completed"
    [] state = "failed"   -> "Failed"
    [] OTHER              -> status

\* RespondWorkflowTaskCompleted: the engine records the commands of a run
\* that is open and drops the others.  Where among later events theirs come
\* to be read makes no difference to any call.
Respond ==
  /\ state \in Ended
  /\ IF status = "Running"
     THEN /\ events' = events \o EventsOfCommands(commands \o Closing)
          /\ status' = StatusAfterwards
     ELSE UNCHANGED <<events, status>>
  /\ state' = "idle"
  /\ furthest' = Furthest
  /\ UNCHANGED <<fn, context, overtaken>>

\* The worker dies, or its answer does not get to the engine.
Crash ==
  /\ state # "idle"
  /\ state' = "idle"
  /\ furthest' = IF state \in Ended THEN Furthest ELSE furthest
  /\ UNCHANGED <<fn, status, events, context, overtaken>>

-----------------------------------------------------------------------------
(* The engine *)

ArrivalTypes == ActivityOutcomes \cup {"TimerFired", "SignalReceived"}

\* Events among which a call looks for the first, or for the n-th.
Alike(d, e) ==
  /\ d.name = e.name
  /\ \/ {d.type, e.type} \subseteq ActivityOutcomes /\ d.index = e.index
     \/ {d.type, e.type} = {"SignalReceived"}

\* The event is committed, and comes to be read after the event at position
\* cause: at the end, or before others whose handlers read a longer history.
Arrive(cause, e) ==
  /\ Cardinality({i \in DOMAIN events : events[i].type \in ArrivalTypes})
       < MaxArrivals                                                \* BOUND
  /\ \E at \in (cause + 1)..(Len(events) + 1) :
       /\ events' = InsertAt(events, at, e)
       /\ overtaken' = (overtaken \/ \E i \in at..Len(events) : Alike(events[i], e))
  /\ UNCHANGED <<fn, status, state, context, furthest>>

\* CompleteActivityTask or FailActivityTask; a second time for an activity
\* whose lease expired while both workers were in the handler.
FinishActivity ==
  \E i \in DOMAIN events, type \in ActivityOutcomes, good \in BOOLEAN :
    /\ events[i].type = "ActivityScheduled"
    /\ type = "ActivityFailed" => ~good
    /\ Arrive(i, Event(type, events[i].name, events[i].index, good))

\* ScanTimers: once for each row of timers.
FireTimer ==
  \E i \in DOMAIN events :
    /\ events[i].type = "TimerStarted"
    /\ ~HasTimer(events, "TimerFired", events[i].index)
    /\ Arrive(i, Event("TimerFired", "", events[i].index, TRUE))

SignalNames == {fn[i].name : i \in {j \in DOMAIN fn : fn[j].op = "Receive"}}

\* The status is read before the commit: a signal may land after the close.
SignalWorkflow ==
  \E name \in SignalNames, good \in BOOLEAN :
    Arrive(1, Event("SignalReceived", name, 0, good))

Next ==
  \/ New \/ ExecuteActivity \/ Get \/ Sleep \/ ReceiveSignal \/ Return
  \/ Respond \/ Crash
  \/ FinishActivity \/ FireTimer \/ SignalWorkflow

Spec == Init /\ [][Next]_vars

-----------------------------------------------------------------------------
(* Properties *)

\* However often the function is run again, after whatever crashes, each of
\* its ExecuteActivity calls is in the history once, and each of its Sleeps:
\* a replay has the counters say which call it is making, and looks it up.
CommandedOnce(type) ==
  \A i, j \in DOMAIN events :
    /\ events[i].type = type /\ events[j].type = type
    /\ events[i].index = events[j].index
    => i = j

ScheduledOnce == CommandedOnce("ActivityScheduled")

TimersStartedOnce == CommandedOnce("TimerStarted")

\* Replay must be deterministic (README.md:77): the counters and loops of the
\* Context come to what the function and the history alone determine.
AgreesWithReplay ==
  state \in Ended =>
    /\ commands \o Closing = Commands(fn, history)
    /\ pc = StopsAt(fn, history)

\* "replays to exactly where it left off" (README.md:19): no replay stops
\* before an earlier one of the run did, and one that has returned, or has
\* failed, does so again in the same place.
ResumesWhereItLeftOff ==
  state \in Ended =>
    /\ pc >= furthest.pc
    /\ furthest.state \in {"returned", "failed"} =>
         pc = furthest.pc /\ state = furthest.state

\* What is true of that: whatever else comes in, in whatever order it comes
\* to be read, a replay goes elsewhere than the ones before it only after an
\* outcome was read before an earlier one of its activity, or a signal before
\* an earlier one of its name.
ResumesUnlessOvertaken == ~overtaken => ResumesWhereItLeftOff

\* Then a closed run is one whose function did end that way, although the
\* answer of a replay that has returned may be lost and another one counts.
ClosedAsItEnded ==
  status # "Running" /\ ~overtaken =>
    furthest.state = (IF status = "Completed" THEN "returned" ELSE "failed")

=============================================================================
