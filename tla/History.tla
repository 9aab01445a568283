------------------------------ MODULE History ------------------------------
(***************************************************************************)
(* internal/history: the transactions of the engine, as they interleave.   *)
(*                                                                         *)
(* A handler takes one step for every read it makes and one for its        *)
(* commit, because that is what other transactions can come between: the   *)
(* reads go through the pool and see whatever is committed at that moment, *)
(* the writes are seen together at the commit.  Row locks make no more of  *)
(* a difference: a blocked DELETE or UPDATE takes effect after the         *)
(* transaction that blocks it, which is the order of the commits.          *)
(*                                                                         *)
(* Three kinds of process run handlers:                                    *)
(*   Workers   poll loops of sdk/worker.go: poll a task, run the workflow  *)
(*             or activity function, report; the RPC is synchronous, so    *)
(*             the poller's state includes that of the handler it calls;   *)
(*   Clients   callers of StartWorkflow and SignalWorkflow;                *)
(*   Scanners  the scanTimers loops, one per engine process.               *)
(* Any of them may stop short at any step (a crash of the worker or the    *)
(* engine, a lost connection, a database error): the open transaction      *)
(* rolls back and the process starts again from its idle state.            *)
(***************************************************************************)
EXTENDS Persistence

CONSTANTS
  Workers, Clients, Scanners,
  CommandLists,       \* lists of commands a workflow function may return
  Decides(_, _),      \* Decides(h, c): it may return c on history h
  ScanLimit           \* LIMIT of GetDueTimers

CommandTypes ==
  {"ScheduleActivity", "StartTimer", "CompleteWorkflow", "FailWorkflow"}

Command == [type : CommandTypes, key : Keys]

ASSUME CommandsAssumption ==
  CommandLists \subseteq Seq(Command) /\ <<>> \in CommandLists
ASSUME ScanLimitAssumption == ScanLimit \in Nat \ {0}

VARIABLES
  lastRun,   \* StartWorkflow transactions begun so far
  worker,    \* state of each poll loop
  client,    \* state of each client call
  scanner,   \* state of each timer scan
  decided    \* auxiliary: how much of a run's history the most complete
             \* replay had before it among those whose commands committed

vars == <<execs, events, tasks, timers, serial,
          lastRun, worker, client, scanner, decided>>

-----------------------------------------------------------------------------
(* Process states *)

NoTask == WorkflowTask(0, 1, 0)

\* "polled": leased, the history is not read yet;  "working": the function
\* runs;  then inside the completing handler: "running" / "closed" after the
\* status was read, "found" / "retry" after the task row was read, "ready"
\* after the events were read.
WorkerState ==
  [pc   : {"idle", "polled", "working", "running", "closed", "found",
           "retry", "ready"},
   task : Task,              \* the row PollTask returned
   seen : Nat,               \* number of events in the history it was given
   cmds : CommandLists,      \* what it answers, for a workflow task
   ok   : BOOLEAN,           \* and for an activity task
   next : Nat]               \* nextEventID

IdleWorker == [pc |-> "idle", task |-> NoTask, seen |-> 0, cmds |-> <<>>,
               ok |-> TRUE, next |-> 0]

\* "begun", "checked": StartWorkflow;  "resolved" (run known), "running"
\* (status read), "read" (events read), "enqueued": SignalWorkflow.
ClientState ==
  [pc : {"idle", "begun", "checked", "resolved", "running", "read",
         "enqueued"},
   workflow : Workflows \cup {NoWorkflow}, run : 0..MaxRuns, next : Nat,
   insert : BOOLEAN]         \* InsertWorkflowTaskIfNotExists inserts a row

IdleClient == [pc |-> "idle", workflow |-> NoWorkflow, run |-> 0, next |-> 0,
               insert |-> FALSE]

\* due: timers returned by GetDueTimers and not handled yet; fired, batch
\* and wakes: the rows updated and inserted so far, not committed.
ScannerState ==
  [pc : {"idle", "scanning"}, due : SUBSET Timer, fired : SUBSET Nat,
   batch : [Runs -> Seq(Event)], wakes : SUBSET Task]

IdleScanner == [pc |-> "idle", due |-> {}, fired |-> {},
                batch |-> [r \in Runs |-> <<>>], wakes |-> {}]

Init ==
  /\ TablesInit
  /\ lastRun = 0
  /\ worker = [w \in Workers |-> IdleWorker]
  /\ client = [c \in Clients |-> IdleClient]
  /\ scanner = [s \in Scanners |-> IdleScanner]
  /\ decided = [r \in Runs |-> 0]

-----------------------------------------------------------------------------
(* StartWorkflow *)

\* The transaction begins: its start time orders the run among the others.
StartBegin(c, wf) ==
  /\ client[c].pc = "idle"
  /\ lastRun < MaxRuns                                          \* BOUND
  /\ lastRun' = lastRun + 1
  /\ client' = [client EXCEPT ![c] =
        [IdleClient EXCEPT !.pc = "begun", !.workflow = wf, !.run = lastRun + 1]]
  /\ UNCHANGED <<tables, worker, scanner, decided>>

AlreadyRunning(wf) ==
  \E r \in Runs : IsLatestExecution(r, wf) /\ IsRunning(r)

StartCheck(c) ==
  /\ client[c].pc = "begun"
  /\ client' = [client EXCEPT ![c] =
        IF AlreadyRunning(client[c].workflow) THEN IdleClient
        ELSE [@ EXCEPT !.pc = "checked"]]
  /\ UNCHANGED <<tables, lastRun, worker, scanner, decided>>

StartCommit(c) ==
  LET r == client[c].run IN
  /\ client[c].pc = "checked"
  /\ InsertWorkflowExecution(r, client[c].workflow)
  /\ InsertEvents(EventsOf(r,
        <<[id |-> 1, type |-> "WorkflowStarted", key |-> 0]>>))
  /\ tasks' = tasks \cup {WorkflowTask(serial + 1, r, 1)}
  /\ serial' = serial + 1
  /\ client' = [client EXCEPT ![c] = IdleClient]
  /\ UNCHANGED <<timers, lastRun, worker, scanner, decided>>

-----------------------------------------------------------------------------
(* SignalWorkflow *)

Resolve(c, r) ==
  /\ client[c].pc = "idle"
  /\ client' = [client EXCEPT ![c] =
        [IdleClient EXCEPT !.pc = "resolved", !.run = r]]
  /\ UNCHANGED <<tables, lastRun, worker, scanner, decided>>

\* The caller names the workflow only: the latest execution is the target.
SignalWorkflowID(c, wf) == \E r \in Runs : IsLatestExecution(r, wf) /\ Resolve(c, r)

\* The caller names a run, which it learned from a StartWorkflow response; 0
\* stands for an id that no execution has.
SignalRunID(c, r) == (r # 0 => execs[r].status # "Absent") /\ Resolve(c, r)

SignalCheck(c) ==
  /\ client[c].pc = "resolved"
  /\ client' = [client EXCEPT ![c] =
        IF client[c].run # 0 /\ IsRunning(client[c].run)
        THEN [@ EXCEPT !.pc = "running"]
        ELSE IdleClient]
  /\ UNCHANGED <<tables, lastRun, worker, scanner, decided>>

SignalRead(c) ==
  /\ client[c].pc = "running"
  /\ client' = [client EXCEPT ![c].pc = "read",
                              ![c].next = NextEventID(client[c].run)]
  /\ UNCHANGED <<tables, lastRun, worker, scanner, decided>>

\* The INSERT ... WHERE NOT EXISTS looks at the task rows committed so far.
SignalEnqueue(c) ==
  /\ client[c].pc = "read"
  /\ client' = [client EXCEPT ![c].pc = "enqueued",
                              ![c].insert = ~WorkflowTaskExists(client[c].run)]
  /\ UNCHANGED <<tables, lastRun, worker, scanner, decided>>

SignalCommit(c) ==
  LET me == client[c] IN
  /\ me.pc = "enqueued"
  /\ InsertEvents(EventsOf(me.run,
        <<[id |-> me.next, type |-> "SignalReceived", key |-> 0]>>))
  /\ IF me.insert
     THEN /\ tasks' = tasks \cup {WorkflowTask(serial + 1, me.run, me.next)}
          /\ serial' = serial + 1
     ELSE UNCHANGED <<tasks, serial>>
  /\ client' = [client EXCEPT ![c] = IdleClient]
  /\ UNCHANGED <<execs, timers, lastRun, worker, scanner, decided>>

\* Rollback: the caller gave up, or a statement or the commit failed.
ClientAbort(c) ==
  /\ client[c].pc # "idle"
  /\ client' = [client EXCEPT ![c] = IdleClient]
  /\ UNCHANGED <<tables, lastRun, worker, scanner, decided>>

-----------------------------------------------------------------------------
(* Polling *)

\* PollTask leases the row; the handler of PollWorkflowTask reads the
\* history after that transaction has committed.
Poll(w, t) ==
  /\ worker[w].pc = "idle"
  /\ t \in Pollable
  /\ tasks' = SetLease({t}, TRUE)
  /\ worker' = [worker EXCEPT ![w] = [IdleWorker EXCEPT
        !.pc = IF t.kind = "workflow" THEN "polled" ELSE "working",
        !.task = t]]
  /\ UNCHANGED <<execs, events, timers, serial, lastRun, client, scanner,
                 decided>>

FetchHistory(w) ==
  /\ worker[w].pc = "polled"
  /\ worker' = [worker EXCEPT ![w].pc = "working",
                              ![w].seen = Len(events[worker[w].task.run])]
  /\ UNCHANGED <<tables, lastRun, client, scanner, decided>>

\* The worker crashes, loses a response, has no function of that name, or
\* the handler fails: the lease stays until it expires.
Abandon(w) ==
  /\ worker[w].pc # "idle"
  /\ worker' = [worker EXCEPT ![w] = IdleWorker]
  /\ UNCHANGED <<tables, lastRun, client, scanner, decided>>

\* reclaimLoop: one UPDATE frees every lease that has expired by now.
ReclaimExpiredLeases(expired) ==
  /\ expired # {}
  /\ tasks' = SetLease(expired, FALSE)
  /\ UNCHANGED <<execs, events, timers, serial, lastRun, worker, client,
                 scanner, decided>>

-----------------------------------------------------------------------------
(* CompleteWorkflowTask *)

\* The function has returned or paused; the handler reads the status.
CheckRunning(w, cmds) ==
  LET me == worker[w] IN
  /\ me.pc = "working" /\ me.task.kind = "workflow"
  /\ Decides(SubSeq(events[me.task.run], 1, me.seen), cmds)
  /\ worker' = [worker EXCEPT ![w].cmds = cmds, ![w].pc =
        IF IsRunning(me.task.run) THEN "running" ELSE "closed"]
  /\ UNCHANGED <<tables, lastRun, client, scanner, decided>>

\* The run is over: the answer is dropped with its task.
DiscardWorkflowTask(w) ==
  /\ worker[w].pc = "closed"
  /\ tasks' = CompleteTask(worker[w].task.id)
  /\ worker' = [worker EXCEPT ![w] = IdleWorker]
  /\ UNCHANGED <<execs, events, timers, serial, lastRun, client, scanner,
                 decided>>

\* GetEvents, in the handlers of both kinds of task.
ReadEvents(w) ==
  /\ worker[w].pc \in {"running", "found"}
  /\ worker' = [worker EXCEPT ![w].pc = "ready",
                              ![w].next = NextEventID(worker[w].task.run)]
  /\ UNCHANGED <<tables, lastRun, client, scanner, decided>>

Recorded == [ScheduleActivity |-> "ActivityScheduled",
             StartTimer       |-> "TimerStarted",
             CompleteWorkflow |-> "WorkflowCompleted",
             FailWorkflow     |-> "WorkflowFailed"]

\* Mutation: nextEventID++ before the event is inserted, not after.
EventIDAfterCommand(next, cmds, i) ==
  next + Cardinality({j \in 1..i :
                        cmds[j].type \in {"ScheduleActivity", "StartTimer"}})

\* nextEventID when the loop reaches command i: only the commands that are
\* not closing ones advance it.
EventID(next, cmds, i) ==
  next + Cardinality({j \in 1..(i - 1) :
                        cmds[j].type \in {"ScheduleActivity", "StartTimer"}})

CommandsOf(type, cmds) == {i \in 1..Len(cmds) : cmds[i].type = type}

\* Mutations: FailWorkflow inserts its event without the status update, and
\* every answer writes back the status that was read.
StatusAfterWithoutFail(status, cmds) ==
  IF CommandsOf("CompleteWorkflow", cmds) # {} THEN "Completed" ELSE status

StatusWrittenBack(status, cmds) ==
  IF CommandsOf("CompleteWorkflow", cmds) # {} THEN "Completed"
  ELSE IF CommandsOf("FailWorkflow", cmds) # {} THEN "Failed" ELSE "Running"

\* The last status update of the loop is the one that stays.
StatusAfter(status, cmds) ==
  LET closing == CommandsOf("CompleteWorkflow", cmds)
                   \cup CommandsOf("FailWorkflow", cmds)
  IN  IF closing = {} THEN status
      ELSE IF \E i \in CommandsOf("CompleteWorkflow", cmds) :
                \A j \in closing : j <= i
           THEN "Completed" ELSE "Failed"

CommitWorkflowTask(w) ==
  LET me   == worker[w]
      r    == me.task.run
      id(i) == EventID(me.next, me.cmds, i)
  IN
  /\ me.pc = "ready" /\ me.task.kind = "workflow"
  /\ InsertEvents(EventsOf(r, [i \in 1..Len(me.cmds) |->
        [id |-> id(i), type |-> Recorded[me.cmds[i].type],
         key |-> me.cmds[i].key]]))
  /\ UpdateWorkflowStatus(r, StatusAfter(execs[r].status, me.cmds))
  /\ tasks' = CompleteTask(me.task.id) \cup
        {ActivityTask(serial + i, r, id(i), me.cmds[i].key, 1, FALSE) :
           i \in CommandsOf("ScheduleActivity", me.cmds)}
  /\ timers' = timers \cup
        {TimerRow(serial + i, r, me.cmds[i].key) :
           i \in CommandsOf("StartTimer", me.cmds)}
  /\ serial' = serial + Len(me.cmds)
  /\ decided' = [decided EXCEPT ![r] = IF me.seen > @ THEN me.seen ELSE @]
  /\ worker' = [worker EXCEPT ![w] = IdleWorker]
  /\ UNCHANGED <<lastRun, client, scanner>>

-----------------------------------------------------------------------------
(* CompleteActivityTask (ok) and FailActivityTask *)

\* Mutation: attempts compared with <= MaxAttempts.
GetTaskOneRetryTooMany(w, ok) ==
  LET me == worker[w] IN
  /\ me.pc = "working" /\ me.task.kind = "activity"
  /\ worker' = [worker EXCEPT ![w] =
        IF ~TaskExists(me.task.id) THEN IdleWorker
        ELSE [me EXCEPT !.ok = ok, !.pc =
                IF ~ok /\ me.task.attempt <= MaxAttempts
                THEN "retry" ELSE "found"]]
  /\ UNCHANGED <<tables, lastRun, client, scanner, decided>>

\* Mutation: the row is deleted as it is read, before the transaction.
GetTaskDeletingIt(w, ok) ==
  LET t == worker[w].task IN
  /\ worker[w].pc = "working" /\ t.kind = "activity" /\ TaskExists(t.id)
  /\ tasks' = CompleteTask(t.id)
  /\ worker' = [worker EXCEPT ![w].ok = ok, ![w].pc = "found"]
  /\ UNCHANGED <<execs, events, timers, serial, lastRun, client, scanner,
                 decided>>

GetTask(w, ok) ==
  LET me == worker[w] IN
  /\ me.pc = "working" /\ me.task.kind = "activity"
  /\ worker' = [worker EXCEPT ![w] =
        IF ~TaskExists(me.task.id) THEN IdleWorker          \* ErrNotFound
        ELSE [me EXCEPT !.ok = ok, !.pc =
                IF ~ok /\ me.task.attempt < MaxAttempts
                THEN "retry" ELSE "found"]]
  /\ UNCHANGED <<tables, lastRun, client, scanner, decided>>

\* Mutation: the failed attempt is deleted and no other one inserted.
CommitFailedAttempt(w) ==
  LET t == worker[w].task IN
  /\ worker[w].pc = "retry"
  /\ tasks' = CompleteTask(t.id)
  /\ worker' = [worker EXCEPT ![w] = IdleWorker]
  /\ UNCHANGED <<execs, events, timers, serial, lastRun, client, scanner,
                 decided>>

\* The next attempt is a new row, hidden until its backoff has passed.
CommitRetry(w) ==
  LET t == worker[w].task IN
  /\ worker[w].pc = "retry"
  /\ tasks' = CompleteTask(t.id) \cup
        {ActivityTask(serial + 1, t.run, t.sched, t.key, t.attempt + 1, TRUE)}
  /\ serial' = serial + 1
  /\ worker' = [worker EXCEPT ![w] = IdleWorker]
  /\ UNCHANGED <<execs, events, timers, lastRun, client, scanner, decided>>

\* Mutation: outcomes use InsertWorkflowTaskIfNotExists, as signals do.
WakeTaskIfNotExists(r, n) ==
  IF WorkflowTaskExists(r) THEN {} ELSE {WorkflowTask(serial + 1, r, n)}

\* The row that wakes the workflow up for the event with id n.
WakeTask(r, n) == {WorkflowTask(serial + 1, r, n)}

CommitActivityTask(w) ==
  LET me == worker[w]
      t  == me.task IN
  /\ me.pc = "ready" /\ t.kind = "activity"
  /\ InsertEvents(EventsOf(t.run, <<[id |-> me.next, type |->
        IF me.ok THEN "ActivityCompleted" ELSE "ActivityFailed", key |-> t.key]>>))
  /\ tasks' = CompleteTask(t.id) \cup WakeTask(t.run, me.next)
  /\ serial' = serial + 1
  /\ worker' = [worker EXCEPT ![w] = IdleWorker]
  /\ UNCHANGED <<execs, timers, lastRun, client, scanner, decided>>

-----------------------------------------------------------------------------
(* ScanTimers *)

\* Mutation: GetDueTimers without FOR UPDATE SKIP LOCKED.
NoLockedTimers(s) == {}

\* Rows that another scan has selected FOR UPDATE are skipped.
LockedTimers(s) ==
  UNION {{t.id : t \in scanner[z].due} \cup scanner[z].fired :
           z \in Scanners \ {s}}

DueTimers(s) == {t \in timers : t.state = "due" /\ t.id \notin LockedTimers(s)}

ScanSelect(s, due) ==
  /\ scanner[s].pc = "idle"
  /\ due # {} /\ due \subseteq DueTimers(s)
  /\ due = DueTimers(s) \/ Cardinality(due) = ScanLimit
  /\ Cardinality(due) <= ScanLimit
  /\ scanner' = [scanner EXCEPT ![s] =
        [IdleScanner EXCEPT !.pc = "scanning", !.due = due]]
  /\ UNCHANGED <<tables, lastRun, worker, client, decided>>

\* One turn of the loop.  GetEvents does not see the events this scan has
\* inserted itself.  Ids of tasks are relative to the sequence at the commit.
ScanTimer(s, t) ==
  LET me == scanner[s]
      n  == NextEventID(t.run)
      e  == [id |-> n, type |-> "TimerFired", key |-> t.key] IN
  /\ t \in me.due
  /\ scanner' = [scanner EXCEPT ![s] =
       [pc    |-> "scanning",
        due   |-> me.due \ {t},
        fired |-> me.fired \cup {t.id},
        batch |-> [me.batch EXCEPT ![t.run] = Append(@, e)],
        wakes |-> me.wakes \cup
                    {WorkflowTask(Cardinality(me.wakes) + 1, t.run, n)}]]
  /\ UNCHANGED <<tables, lastRun, worker, client, decided>>

ScanCommit(s) ==
  /\ scanner[s].pc = "scanning" /\ scanner[s].due = {}
  /\ InsertEvents(scanner[s].batch)
  /\ timers' = MarkTimerFired(scanner[s].fired)
  /\ tasks' = tasks \cup {[t EXCEPT !.id = serial + @] : t \in scanner[s].wakes}
  /\ serial' = serial + Cardinality(scanner[s].wakes)
  /\ scanner' = [scanner EXCEPT ![s] = IdleScanner]
  /\ UNCHANGED <<execs, lastRun, worker, client, decided>>

ScanAbort(s) ==
  /\ scanner[s].pc = "scanning"
  /\ scanner' = [scanner EXCEPT ![s] = IdleScanner]
  /\ UNCHANGED <<tables, lastRun, worker, client, decided>>

-----------------------------------------------------------------------------
(* The passing of time: visibility_time <= now(), fire_at <= now() *)

BackoffElapses(t) ==
  /\ t \in tasks /\ t.hidden
  /\ tasks' = (tasks \ {t}) \cup {[t EXCEPT !.hidden = FALSE]}
  /\ UNCHANGED <<execs, events, timers, serial, lastRun, worker, client,
                 scanner, decided>>

TimerDue(t) ==
  /\ t \in timers /\ t.state = "waiting"
  /\ timers' = (timers \ {t}) \cup {[t EXCEPT !.state = "due"]}
  /\ UNCHANGED <<execs, events, tasks, serial, lastRun, worker, client,
                 scanner, decided>>

-----------------------------------------------------------------------------
ClientNext(c) ==
  \/ \E wf \in Workflows : StartBegin(c, wf) \/ SignalWorkflowID(c, wf)
  \/ \E r \in 0..MaxRuns : SignalRunID(c, r)
  \/ StartCheck(c) \/ StartCommit(c)
  \/ SignalCheck(c) \/ SignalRead(c) \/ SignalEnqueue(c) \/ SignalCommit(c)
  \/ ClientAbort(c)

WorkerNext(w) ==
  \/ \E t \in tasks : Poll(w, t)
  \/ FetchHistory(w)
  \/ \E cmds \in CommandLists : CheckRunning(w, cmds)
  \/ DiscardWorkflowTask(w) \/ ReadEvents(w) \/ CommitWorkflowTask(w)
  \/ \E ok \in BOOLEAN : GetTask(w, ok)
  \/ CommitRetry(w) \/ CommitActivityTask(w)
  \/ Abandon(w)

ScannerNext(s) ==
  \/ \E due \in SUBSET timers : ScanSelect(s, due)
  \/ \E t \in scanner[s].due : ScanTimer(s, t)
  \/ ScanCommit(s) \/ ScanAbort(s)

EngineNext ==
  \/ \E expired \in SUBSET {t \in tasks : t.leased} :
        ReclaimExpiredLeases(expired)
  \/ \E t \in tasks : BackoffElapses(t)
  \/ \E t \in timers : TimerDue(t)

Next ==
  \/ \E c \in Clients : ClientNext(c)
  \/ \E w \in Workers : WorkerNext(w)
  \/ \E s \in Scanners : ScannerNext(s)
  \/ EngineNext

Spec == Init /\ [][Next]_vars

-----------------------------------------------------------------------------
(* Properties of the engine *)

Absent(r) == execs[r].status = "Absent"
HasType(r, i, T) == events[r][i].type \in T

\* Every variable holds the rows, records and local states of its type.
TypeOK ==
  /\ TablesTypeOK
  /\ lastRun \in 0..MaxRuns
  /\ worker \in [Workers -> WorkerState]
  /\ client \in [Clients -> ClientState]
  /\ scanner \in [Scanners -> ScannerState]
  /\ decided \in [Runs -> Nat]

\* A run's history starts with the WorkflowStarted event that StartWorkflow
\* inserts with id 1.  It has no other one, and since no event is ever
\* deleted, len(events)+1 never gives the id 1 to anything else: replay,
\* which sorts by event_id, always begins with the input of the workflow.
HistoryStartsOnce ==
  \A r \in Runs :
    IF Absent(r) THEN events[r] = <<>>
    ELSE /\ events[r] # <<>>
         /\ \A i \in DOMAIN events[r] :
              IF i = 1 THEN HasType(r, i, {"WorkflowStarted"}) /\ events[r][i].id = 1
              ELSE ~HasType(r, i, {"WorkflowStarted"}) /\ events[r][i].id > 1

\* The id that len(events)+1 computes may be shared with other events and be
\* lower than that of events committed before, never higher than the number
\* of events: an event cannot overtake one that commits after it in the order
\* replay reads them unless their handlers ran at the same time.
EventIDsNeverAhead ==
  \A r \in Runs : \A i \in DOMAIN events[r] : events[r][i].id <= i

\* With whatever interleaving of handlers, replay finds the event that an
\* outcome answers before the outcome: ActivityScheduled before
\* ActivityCompleted and ActivityFailed, TimerStarted before TimerFired.
Causes == [t \in ActivityOutcomes \cup {"TimerFired"} |->
             IF t = "TimerFired" THEN "TimerStarted" ELSE "ActivityScheduled"]

OutcomeAfterCause ==
  \A r \in Runs : \A i \in DOMAIN events[r] :
    HasType(r, i, ActivityOutcomes \cup {"TimerFired"}) =>
      \E j \in DOMAIN events[r] :
        /\ HasType(r, j, {Causes[events[r][i].type]})
        /\ events[r][j].key = events[r][i].key
        /\ events[r][j].id < events[r][i].id

\* Crashes, expired leases, failed attempts and answers that come twice never
\* lose an activity: once scheduled, it has a row some worker can still be
\* given, or its outcome is in the history.  CompleteActivityTask and
\* FailActivityTask delete the row only together with one or the other.
ActivityNotLost ==
  \A r \in Runs : \A i \in DOMAIN events[r] :
    LET e == events[r][i] IN
    e.type = "ActivityScheduled" =>
      \/ \E t \in tasks : /\ t.kind = "activity" /\ t.run = r
                          /\ t.sched = e.id /\ t.key = e.key
      \/ \E j \in DOMAIN events[r] : /\ HasType(r, j, ActivityOutcomes)
                                     /\ events[r][j].key = e.key
                                     /\ events[r][j].id > e.id

\* Each row of timers is one TimerStarted event, and each one that ScanTimers
\* has marked is one TimerFired event: a scan that fails half way, and scans
\* of several engines at once, neither lose a timer nor fire it twice.
EventsAbout(r, T, k) ==
  {i \in DOMAIN events[r] : HasType(r, i, T) /\ events[r][i].key = k}

TimersFireOnce ==
  \A r \in Runs, k \in Keys :
    LET rows == {t \in timers : t.run = r /\ t.key = k} IN
    /\ Cardinality(rows) = Cardinality(EventsAbout(r, {"TimerStarted"}, k))
    /\ Cardinality({t \in rows : t.state = "fired"}) =
         Cardinality(EventsAbout(r, {"TimerFired"}, k))

\* The status of a run agrees with its history: Running until a closing
\* event is committed, and Completed or Failed only with the event that says
\* so.  UpdateWorkflowStatus and InsertEvent are two statements of one
\* transaction, and no other handler writes either.
StatusAgrees ==
  \A r \in Runs :
    LET has(T) == \E i \in DOMAIN events[r] : HasType(r, i, T) IN
    /\ IsRunning(r) => ~has(ClosingTypes)
    /\ execs[r].status = "Completed" => has({"WorkflowCompleted"})
    /\ execs[r].status = "Failed" => has({"WorkflowFailed"})

\* A start, an outcome and a fired timer always get to the workflow function:
\* until some answer based on a history with that event has committed, the
\* run has a workflow task that nobody holds, that is held by a process that
\* has not read the history yet or by one that has read that event.  (Each of
\* these events brings a row of its own; a run that nothing wakes is stuck.)
StaleHolder(t, i) ==
  \E w \in Workers : /\ worker[w].pc \notin {"idle", "polled"}
                     /\ worker[w].task.id = t.id /\ worker[w].seen < i

WakeNotLost ==
  \A r \in Runs : IsRunning(r) =>
    \A i \in DOMAIN events[r] :
      HasType(r, i, WakeTypes) /\ i > decided[r] =>
        \E t \in tasks : /\ t.kind = "workflow" /\ t.run = r
                         /\ ~StaleHolder(t, i)

\* A closed run is never reopened, and no run disappears: a late answer, a
\* late signal or a timer leaves the status closed, although a second answer
\* of the same kind may turn Completed into Failed.
ClosedStaysClosed ==
  [][\A r \in Runs : /\ execs[r].status \in Closed => execs'[r].status \in Closed
                     /\ ~Absent(r) => execs'[r].status # "Absent"]_vars

-----------------------------------------------------------------------------
(* The events and the status of the runs are the log that DurableRun promises. *)

Log == INSTANCE DurableRun WITH
  log <- events,
  status <- [r \in Runs |-> execs[r].status]

\* However the handlers interleave and fail, each commit extends the logs by
\* entries that follow from what was committed before it, and leaves every
\* status as the log has it: workflow_executions and events never tell two
\* stories, although they are written by separate statements on stale reads.
ImplementsDurableRun == Log!LogSpec

-----------------------------------------------------------------------------
(* What the documentation says, and the code does not keep *)

\* "returned by StartWorkflow when an execution for the same workflow ID is
\* already in the Running state" (history.go:15): no two runs of a workflow
\* are Running at once.  The check and the insert of StartWorkflow are not
\* one atomic step, and no constraint of the table stands in for that.
OneRunningPerWorkflow ==
  \A r, q \in Runs :
    IsRunning(r) /\ IsRunning(q) /\ execs[r].workflow = execs[q].workflow => r = q

\* "appends a SignalReceived event out-of-band and enqueues a workflow task"
\* (README.md:94): a signal that a Running workflow's answers have not taken
\* into account yet has a workflow task to bring it to the function.
\* SignalWorkflow enqueues none when it sees one, which may have been leased
\* with a history that ends before the signal.
SignalNotLost ==
  \A r \in Runs : IsRunning(r) =>
    \A i \in DOMAIN events[r] :
      HasType(r, i, {"SignalReceived"}) /\ i > decided[r] =>
        \E t \in tasks : t.kind = "workflow" /\ t.run = r

\* "events -- the append-only history; replay reads these in order"
\* (README.md:301): an event committed later is read later.  Handlers that
\* run at the same time compute the same or an older event_id.
ReplayReadsInCommitOrder ==
  \A r \in Runs : \A i, j \in DOMAIN events[r] :
    i < j => events[r][i].id < events[r][j].id

\* "Duplicate completion protection" (history_test.go:230, which counts one
\* WorkflowCompleted event at line 258): a history closes once.  Two answers
\* that both read the status before either commits both close the run.
ClosedOnce ==
  \A r \in Runs : \A i, j \in DOMAIN events[r] :
    HasType(r, i, ClosingTypes) /\ HasType(r, j, ClosingTypes) => i = j

=============================================================================
