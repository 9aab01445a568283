---------------------------- MODULE Persistence ----------------------------
(***************************************************************************)
(* The four PostgreSQL tables of the engine and the statements that        *)
(* internal/persistence issues on them.  The tables are the only state the *)
(* engine keeps: every handler of internal/history reads them through the  *)
(* connection pool, OUTSIDE its own transaction and so at READ COMMITTED,  *)
(* and writes them in a transaction whose effects appear at its commit.    *)
(*                                                                         *)
(* Only what some decision depends on is kept of a row: payloads, names of *)
(* queues and types, and time stamps are left out.  now() is not modelled  *)
(* as a clock: "hidden", "leased" and a timer's "waiting" state end in     *)
(* steps of their own, at any moment after they began.                     *)
(***************************************************************************)
EXTENDS Integers, Sequences, FiniteSets

CONSTANTS
  Workflows,    \* workflow ids a client may start
  NoWorkflow,   \* the workflow of a run that has no row yet
  MaxRuns,      \* BOUND: number of StartWorkflow transactions ever begun
  Keys,         \* activity / timer indices a workflow function may use
  MaxAttempts,  \* DefaultRetryPolicy.MaxAttempts
  MaxEvents     \* BOUND: number of events in the history of one run

ASSUME WorkflowsAssumption == NoWorkflow \notin Workflows
ASSUME BoundsAssumption ==
  MaxRuns \in Nat \ {0} /\ MaxEvents \in Nat \ {0}
ASSUME KeysAssumption == Keys \subseteq Nat /\ 0 \in Keys
ASSUME AttemptsAssumption == MaxAttempts \in Nat \ {0}

VARIABLES
  execs,    \* workflow_executions, by run
  events,   \* events of each run, in the order their transactions committed
  tasks,    \* rows of tasks
  timers,   \* rows of timers
  serial    \* the BIGSERIAL sequences: ids handed out so far

tables == <<execs, events, tasks, timers, serial>>

-----------------------------------------------------------------------------
(* Rows *)

\* A run is named by the order in which its StartWorkflow transaction began:
\* that is what started_at (DEFAULT now(), the transaction's start) records.
Runs == 1..MaxRuns

Closed == {"Completed", "Failed"}

Execution == [workflow : Workflows \cup {NoWorkflow},
              status   : {"Absent", "Running"} \cup Closed]

\* Outcomes of an activity, in the history.
ActivityOutcomes == {"ActivityCompleted", "ActivityFailed"}

\* Events written for the workflow function to react to, except signals:
\* each comes with a workflow task inserted by the same transaction.
WakeTypes == {"WorkflowStarted", "TimerFired"} \cup ActivityOutcomes

ClosingTypes == {"WorkflowCompleted", "WorkflowFailed"}

EventTypes == {"ActivityScheduled", "TimerStarted", "SignalReceived"}
                \cup WakeTypes \cup ClosingTypes

\* id is the column event_id; key is activity_index or timer_index.
Event == [id : Nat, type : EventTypes, key : Keys]

\* leased: lease_owner is set; hidden: visibility_time is still to come.
Task == [id : Nat, kind : {"workflow", "activity"}, run : Runs, sched : Nat,
         key : Keys, attempt : 0..MaxAttempts, hidden : BOOLEAN,
         leased : BOOLEAN]

Timer == [id : Nat, run : Runs, key : Keys,
          state : {"waiting", "due", "fired"}]

WorkflowTask(n, r, s) ==
  [id |-> n, kind |-> "workflow", run |-> r, sched |-> s, key |-> 0,
   attempt |-> 0, hidden |-> FALSE, leased |-> FALSE]

ActivityTask(n, r, s, k, a, h) ==
  [id |-> n, kind |-> "activity", run |-> r, sched |-> s, key |-> k,
   attempt |-> a, hidden |-> h, leased |-> FALSE]

TimerRow(n, r, k) == [id |-> n, run |-> r, key |-> k, state |-> "waiting"]

TablesTypeOK ==
  /\ execs \in [Runs -> Execution]
  /\ events \in [Runs -> Seq(Event)]
  /\ tasks \subseteq Task
  /\ timers \subseteq Timer
  /\ serial \in Nat

TablesInit ==
  /\ execs = [r \in Runs |-> [workflow |-> NoWorkflow, status |-> "Absent"]]
  /\ events = [r \in Runs |-> <<>>]
  /\ tasks = {}
  /\ timers = {}
  /\ serial = 0

-----------------------------------------------------------------------------
(* Queries *)

\* GetLatestExecution: the row of workflow wf with the greatest started_at.
IsLatestExecution(r, wf) ==
  /\ execs[r].workflow = wf
  /\ \A q \in Runs : execs[q].workflow = wf => q <= r

\* GetWorkflowExecution, of which the handlers look at the status.
IsRunning(r) == execs[r].status = "Running"

\* Mutations: ids that start one too high, or at 0.
EventIDTooHigh(r) == Len(events[r]) + 2
EventIDFromZero(r) == Len(events[r])

\* len(events) + 1, computed by every handler from GetEvents.
NextEventID(r) == Len(events[r]) + 1

\* GetTask by primary key; ErrNotFound when there is no row.
TaskExists(id) == \E t \in tasks : t.id = id

\* The rows PollTask may return.  ORDER BY id picks the first row that no
\* other transaction has locked; which rows those are is not visible here,
\* so any eligible row may be the one.
Pollable == {t \in tasks : ~t.leased /\ ~t.hidden}

\* The sub-select of InsertWorkflowTaskIfNotExists.
WorkflowTaskExists(r) == \E t \in tasks : t.kind = "workflow" /\ t.run = r

-----------------------------------------------------------------------------
(* Statements: the value of a table after the statement, at commit time *)

InsertWorkflowExecution(r, wf) ==
  execs' = [execs EXCEPT ![r] = [workflow |-> wf, status |-> "Running"]]

\* The status of the row is set whatever it was before.
UpdateWorkflowStatus(r, status) == execs' = [execs EXCEPT ![r].status = status]

\* new gives the events to add to each run.
InsertEvents(new) ==
  /\ \A r \in Runs : Len(events[r]) + Len(new[r]) <= MaxEvents   \* BOUND
  /\ events' = [r \in Runs |-> events[r] \o new[r]]

EventsOf(r, seq) == [q \in Runs |-> IF q = r THEN seq ELSE <<>>]

\* DELETE of a row that is already gone deletes nothing and is no error.
CompleteTask(id) == {t \in tasks : t.id # id}

SetLease(rows, b) ==
  {IF t \in rows THEN [t EXCEPT !.leased = b] ELSE t : t \in tasks}

MarkTimerFired(ids) ==
  {IF t.id \in ids THEN [t EXCEPT !.state = "fired"] ELSE t : t \in timers}

=============================================================================
