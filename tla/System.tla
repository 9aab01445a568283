------------------------------- MODULE System -------------------------------
(***************************************************************************)
(* The engine (History) with workers that replay a workflow function       *)
(* (Replay): one deployment, in which faults come finitely often and all   *)
(* that the loops of the code do is eventually done.                       *)
(*                                                                         *)
(* sdk.Worker.Run starts a loop for workflow tasks and one for activity    *)
(* tasks, which run concurrently, in each worker process.  A handler that  *)
(* goes on after its caller has gone (a deadline, a lost connection) is in *)
(* the state of a loop that is still at that task, and counts as one more. *)
(***************************************************************************)
EXTENDS History

CONSTANTS
  WorkflowLoops, ActivityLoops,  \* Workers by the tasks that they poll
  Names,      \* of activities and signals
  Function,   \* the workflow function, a sequence of calls
  SignalName, \* of the signals that clients send
  MaxSignals, \* BOUND: signals to a run
  Faults      \* BOUND: crashes, lost answers and leases that expire early

W == INSTANCE Replay

ASSUME LoopsAssumption == WorkflowLoops \cup ActivityLoops = Workers
ASSUME FunctionAssumption == W!WellFormed(Function)
ASSUME SignalNameAssumption == SignalName \in Names
ASSUME BudgetAssumption == Faults \in Nat /\ MaxSignals \in Nat

VARIABLE faults    \* still to come

systemVars == <<vars, faults>>

-----------------------------------------------------------------------------
(* Decides: what the worker makes of the history it was given *)

\* The k-th call of one kind, counted from 0.
NthCall(op, k) ==
  CHOOSE i \in DOMAIN Function : Function[i].op = op /\ W!Before(Function, i) = k

NameOf(e) ==
  CASE e.type \in {"ActivityScheduled"} \cup ActivityOutcomes ->
         Function[NthCall("Execute", e.key)].name
    [] e.type = "SignalReceived" -> SignalName
    [] OTHER -> ""

\* marshalEvents.  All outcomes carry the data that the function hopes for.
Marshal(e) ==
  [type |-> e.type, name |-> NameOf(e), index |-> e.key, good |-> TRUE]

\* What the worker is sent: GetEvents has ORDER BY event_id, and rows with
\* the same id come in either order.  (SubSeq has TLC evaluate it once.)
PolledHistory(h, lastFirst) ==
  LET precedes(j, i) ==
        \/ h[j].id < h[i].id
        \/ h[j].id = h[i].id /\ (IF lastFirst THEN j > i ELSE j < i)
      position(i) == 1 + Cardinality({j \in DOMAIN h : precedes(j, i)})
  IN  SubSeq([n \in DOMAIN h |->
                Marshal(h[CHOOSE i \in DOMAIN h : position(i) = n])], 1, Len(h))

\* unmarshalCommands
Unmarshal(cmds) ==
  [i \in DOMAIN cmds |-> [type |-> cmds[i].type, key |-> cmds[i].index]]

ReplayDecides(h, c) ==
  \E rows \in {h} :
    \E p \in {PolledHistory(rows, lastFirst) : lastFirst \in BOOLEAN} :
      c = Unmarshal(W!Commands(Function, p))

-----------------------------------------------------------------------------
(* Steps that the code takes, and faults *)

\* task_type = $2 in PollTask: each loop asks for one type.
Serves(w, t) ==
  w \in (IF t.kind = "workflow" THEN WorkflowLoops ELSE ActivityLoops)

WorkerStep(w) ==
  \/ \E t \in tasks : Serves(w, t) /\ Poll(w, t)
  \/ FetchHistory(w)
  \/ \E cmds \in CommandLists : CheckRunning(w, cmds)
  \/ DiscardWorkflowTask(w) \/ ReadEvents(w) \/ CommitWorkflowTask(w)
  \/ \E ok \in BOOLEAN : GetTask(w, ok)
  \/ CommitRetry(w) \/ CommitActivityTask(w)

ClientStep(c) ==
  \/ StartCheck(c) \/ StartCommit(c)
  \/ SignalCheck(c) \/ SignalRead(c) \/ SignalEnqueue(c) \/ SignalCommit(c)

\* Signals under way and received.
SignalsTo(r) ==
  Cardinality({c \in Clients : client[c].run = r /\ client[c].pc \in
                 {"resolved", "running", "read", "enqueued"}})
    + Cardinality(EventsAbout(r, {"SignalReceived"}, 0))

ClientCalls(c) ==
  \E wf \in Workflows :
    \/ StartBegin(c, wf)
    \/ /\ SignalWorkflowID(c, wf)
       /\ SignalsTo(client'[c].run) < MaxSignals                    \* BOUND

ScannerStep(s) ==
  \/ \E due \in SUBSET timers : ScanSelect(s, due)
  \/ \E t \in scanner[s].due : ScanTimer(s, t)
  \/ ScanCommit(s)

Held(t) == \E w \in Workers : worker[w].pc # "idle" /\ worker[w].task.id = t.id

\* Mutation: reclaimLoop is not started.
NoLease == {}

\* A crashed worker leaves its lease behind; now() passes lease_expires_at.
OrphanedLeases == {t \in tasks : t.leased /\ ~Held(t)}

ReclaimOrphan == \E t \in OrphanedLeases : ReclaimExpiredLeases({t})
SomeBackoffElapses == \E t \in tasks : BackoffElapses(t)
SomeTimerDue == \E t \in timers : TimerDue(t)

Fault ==
  \/ \E w \in Workers : Abandon(w)
  \/ \E s \in Scanners : ScanAbort(s)
  \/ \E c \in Clients : ClientAbort(c)
  \/ \E t \in tasks : t.leased /\ Held(t) /\ ReclaimExpiredLeases({t})

Step ==
  \/ \E w \in Workers : WorkerStep(w)
  \/ \E c \in Clients : ClientCalls(c) \/ ClientStep(c)
  \/ \E s \in Scanners : ScannerStep(s)
  \/ ReclaimOrphan \/ SomeBackoffElapses \/ SomeTimerDue

SystemInit == Init /\ faults = Faults

SystemNext ==
  \/ Step /\ UNCHANGED faults
  \/ Fault /\ faults > 0 /\ faults' = faults - 1                    \* BOUND

\* The poll loops, the handlers, the tickers of cmd/engine and the clock go
\* on; a client need not call.
Fairness ==
  /\ \A w \in Workers : WF_systemVars(WorkerStep(w) /\ UNCHANGED faults)
  /\ \A c \in Clients : WF_systemVars(ClientStep(c) /\ UNCHANGED faults)
  /\ \A s \in Scanners : WF_systemVars(ScannerStep(s) /\ UNCHANGED faults)
  /\ WF_systemVars(ReclaimOrphan /\ UNCHANGED faults)
  /\ WF_systemVars(SomeBackoffElapses /\ UNCHANGED faults)
  /\ WF_systemVars(SomeTimerDue /\ UNCHANGED faults)

SystemSpec == SystemInit /\ [][SystemNext]_systemVars /\ Fairness

-----------------------------------------------------------------------------
(* Properties *)

\* The point of the engine: a function that waits for activities and timers
\* only comes to its end, although workers crash, answers get lost, leases
\* expire under a worker that is still at it, scans fail and activities do.
EventuallyCloses == \A r \in Runs : IsRunning(r) ~> ~IsRunning(r)

\* The status tells what became of the activities: a Completed run of a
\* function that heeds the errors of its futures has a success for each, and
\* a Failed one has a failed activity, whichever workers raced to report.
OutcomeOf(r, type, k) ==
  \E i \in DOMAIN events[r] : HasType(r, i, {type}) /\ events[r][i].key = k

StatusHasReason ==
  \A r \in Runs :
    /\ execs[r].status = "Completed" =>
         \A i \in DOMAIN Function :
           Function[i].op = "Get" /\ Function[i].heeds # "nothing" =>
             OutcomeOf(r, "ActivityCompleted", Function[i].future)
    /\ execs[r].status = "Failed" =>
         \E k \in Keys : OutcomeOf(r, "ActivityFailed", k)

\* "if this call (keyed by ActivityName + a per-call ActivityIndex) was
\* already scheduled, it does nothing new" (README.md:65): a call of
\* ExecuteActivity is scheduled once.  Not so when two answers overlap.
ScheduledOnce ==
  \A r \in Runs, k \in Keys :
    Cardinality(EventsAbout(r, {"ActivityScheduled"}, k)) <= 1

\* What is true of that with any number of loops that hold one run's tasks,
\* of handlers that outlive their calls and of leases that end early: no
\* answer schedules an activity, or starts a timer, that the history it is
\* based on has asked for already.  A call is asked for twice only by answers
\* neither of which was based on the other.
Asks == {"ActivityScheduled", "TimerStarted"}

AnswerCommits(w) ==
  worker[w].pc = "ready" /\ worker[w].task.kind = "workflow" /\ worker'[w].pc = "idle"

AsksAgain(w) ==
  LET r == worker[w].task.run IN
  \E i \in 1..worker[w].seen, j \in (Len(events[r]) + 1)..Len(events'[r]) :
    /\ events'[r][j].type \in Asks /\ events[r][i].type = events'[r][j].type
    /\ events[r][i].key = events'[r][j].key

AsksForNothingAgain ==
  [][\A w \in Workers : AnswerCommits(w) => ~AsksAgain(w)]_systemVars

=============================================================================
