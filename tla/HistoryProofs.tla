--------------------------- MODULE HistoryProofs ---------------------------
(***************************************************************************)
(* Theorems about History, for all values of its constants.                *)
(***************************************************************************)
EXTENDS History, TLAPS, FiniteSetTheorems, SequenceTheorems

-----------------------------------------------------------------------------
(* Rows and statements *)

\* The rows the engine inserts are rows of the table.
LEMMA RowTypes ==
  /\ \A n \in Nat, r \in Runs, s \in Nat : WorkflowTask(n, r, s) \in Task
  /\ \A n \in Nat, r \in Runs, s \in Nat, k \in Keys, a \in 0..MaxAttempts,
        h \in {TRUE, FALSE} : ActivityTask(n, r, s, k, a, h) \in Task
  /\ \A n \in Nat, r \in Runs, k \in Keys : TimerRow(n, r, k) \in Timer
BY KeysAssumption, AttemptsAssumption
   DEF WorkflowTask, ActivityTask, TimerRow, Task, Timer

\* The local states in which the processes start are states of their types.
LEMMA IdleTypes ==
  /\ IdleWorker \in WorkerState /\ NoTask \in Task
  /\ IdleClient \in ClientState
  /\ IdleScanner \in ScannerState
<1>1. NoTask \in Task
  BY RowTypes, BoundsAssumption DEF NoTask, Runs
<1>2. QED
  BY <1>1, CommandsAssumption, BoundsAssumption
  DEF IdleWorker, WorkerState, IdleClient, ClientState, IdleScanner, ScannerState

\* A sequence of events for one run and none for the others.
LEMMA EventsOfType ==
  ASSUME NEW r \in Runs, NEW seq \in Seq(Event)
  PROVE  EventsOf(r, seq) \in [Runs -> Seq(Event)]
BY DEF EventsOf

LEMMA OneEventType ==
  ASSUME NEW r \in Runs, NEW e \in Event
  PROVE  EventsOf(r, <<e>>) \in [Runs -> Seq(Event)]
<1>1. <<e>> \in Seq(Event)
  OBVIOUS
<1>2. QED
  BY <1>1, EventsOfType

\* INSERT INTO events leaves histories that are sequences of events.
LEMMA InsertEventsType ==
  ASSUME events \in [Runs -> Seq(Event)], NEW new \in [Runs -> Seq(Event)],
         InsertEvents(new)
  PROVE  events' \in [Runs -> Seq(Event)]
<1>1. ASSUME NEW r \in Runs PROVE events[r] \o new[r] \in Seq(Event)
  BY ConcatProperties
<1>2. QED
  BY <1>1 DEF InsertEvents

\* UPDATE and DELETE on tasks leave rows of the table.
LEMMA UpdateTypes ==
  ASSUME tasks \subseteq Task, timers \subseteq Timer
  PROVE  /\ \A id : CompleteTask(id) \subseteq Task
         /\ \A rows : SetLease(rows, TRUE) \subseteq Task
         /\ \A rows : SetLease(rows, FALSE) \subseteq Task
         /\ \A ids : MarkTimerFired(ids) \subseteq Timer
<1>1. \A t \in Task, b \in BOOLEAN : [t EXCEPT !.leased = b] \in Task
  BY DEF Task
<1>2. \A t \in Timer : [t EXCEPT !.state = "fired"] \in Timer
  BY DEF Timer
<1>3. QED
  BY <1>1, <1>2 DEF CompleteTask, SetLease, MarkTimerFired

\* len(events) + 1 is a number.
LEMMA NextEventIDType ==
  ASSUME events \in [Runs -> Seq(Event)], NEW r \in Runs
  PROVE  Len(events[r]) \in Nat /\ NextEventID(r) \in Nat
BY LenProperties DEF NextEventID

\* Every command is recorded as an event.
LEMMA RecordedTypes == \A type \in CommandTypes : Recorded[type] \in EventTypes
BY DEF CommandTypes, Recorded, EventTypes, ClosingTypes

LEMMA SeqOfFunction ==
  ASSUME NEW S, NEW n \in Nat, NEW f \in [1..n -> S]
  PROVE  f \in Seq(S) /\ Len(f) = n
BY SeqDef

\* nextEventID grows by at most one with each command of the loop.
LEMMA EventIDBounds ==
  ASSUME NEW next \in Nat, NEW cmds \in Seq(Command), NEW i \in 1..Len(cmds)
  PROVE  /\ EventID(next, cmds, i) \in Nat
         /\ next <= EventID(next, cmds, i)
         /\ EventID(next, cmds, i) <= next + i - 1
<1> DEFINE P == {j \in 1..(i - 1) : cmds[j].type \in {"ScheduleActivity", "StartTimer"}}
<1>1. i \in Nat /\ i >= 1
  BY LenProperties
<1>2. IsFiniteSet(1..(i - 1)) /\ Cardinality(1..(i - 1)) = i - 1
  BY <1>1, FS_Interval
<1>3. P \subseteq 1..(i - 1)
  OBVIOUS
<1>4. IsFiniteSet(P) /\ Cardinality(P) <= i - 1
  BY <1>2, <1>3, FS_Subset
<1>5. Cardinality(P) \in Nat
  BY <1>4, FS_CardinalityType
<1>6. EventID(next, cmds, i) = next + Cardinality(P)
  BY DEF EventID
<1> HIDE DEF P
<1>7. QED
  BY <1>1, <1>4, <1>5, <1>6

-----------------------------------------------------------------------------
(* Types *)

\* What the handlers rely on for their rows to be rows: an attempt is only
\* retried below the maximum, a transaction that writes has found its run, and
\* a scan has inserted finitely many tasks.
LocalOK ==
  /\ \A w \in Workers : worker[w].pc = "retry" => worker[w].task.attempt < MaxAttempts
  /\ \A c \in Clients : client[c].pc \notin {"idle", "resolved"} => client[c].run \in Runs
  /\ \A s \in Scanners : IsFiniteSet(scanner[s].wakes)

TypeInv == TypeOK /\ LocalOK

LEMMA TypeInit == Init => TypeInv
<1> SUFFICES ASSUME Init PROVE TypeInv
  OBVIOUS
<1> USE DEF Init, TablesInit
<1>1. TablesTypeOK
  BY DEF TablesTypeOK, Execution
<1>2. lastRun \in 0..MaxRuns /\ decided \in [Runs -> Nat]
  BY BoundsAssumption
<1>3. /\ worker \in [Workers -> WorkerState]
      /\ client \in [Clients -> ClientState]
      /\ scanner \in [Scanners -> ScannerState]
  BY IdleTypes
<1>4. LocalOK
  BY FS_EmptySet DEF LocalOK, IdleWorker, IdleClient, IdleScanner
<1>5. QED
  BY <1>1, <1>2, <1>3, <1>4 DEF TypeInv, TypeOK

\* A step of a client leaves the types intact.
LEMMA TypeClient ==
  ASSUME TypeInv, NEW c \in Clients, ClientNext(c)
  PROVE  TypeInv'
<1> USE DEF TypeInv, TypeOK, TablesTypeOK
<1>0. /\ client[c] \in ClientState /\ IdleClient \in ClientState
      /\ IdleClient.pc = "idle"
  BY IdleTypes DEF IdleClient
<1>1. ASSUME NEW wf \in Workflows, StartBegin(c, wf)
      PROVE  TypeInv'
  <2>1. lastRun' \in 0..MaxRuns /\ lastRun + 1 \in Runs
    BY <1>1, BoundsAssumption DEF StartBegin, Runs
  <2>2. client' \in [Clients -> ClientState]
    BY <1>0, <1>1, <2>1 DEF StartBegin, ClientState, Runs
  <2>3. LocalOK'
    BY <1>1, <1>0, <2>1 DEF LocalOK, StartBegin, ClientState, tables
  <2>4. QED
    BY <1>1, <2>1, <2>2, <2>3 DEF StartBegin, tables
<1>2. CASE StartCheck(c) \/ SignalCheck(c) \/ ClientAbort(c)
  <2> DEFINE st == client'[c]
  <2>1. \/ st = IdleClient
        \/ st = [client[c] EXCEPT !.pc = "checked"] /\ client[c].pc = "begun"
        \/ st = [client[c] EXCEPT !.pc = "running"] /\ client[c].run # 0
    BY <1>2 DEF StartCheck, SignalCheck, ClientAbort
  <2>2. st \in ClientState
    <3> HIDE DEF st
    <3>1. client[c] \in ClientState
      BY <1>0
    <3>2. /\ [client[c] EXCEPT !.pc = "checked"] \in ClientState
          /\ [client[c] EXCEPT !.pc = "running"] \in ClientState
      BY <3>1 DEF ClientState
    <3>3. QED
      BY <2>1, <3>2, IdleTypes
  <2>3. client' = [client EXCEPT ![c] = st]
    BY <1>2 DEF StartCheck, SignalCheck, ClientAbort
  <2>4. UNCHANGED <<tables, lastRun, worker, scanner, decided>>
    BY <1>2 DEF StartCheck, SignalCheck, ClientAbort
  <2>5. st.pc \notin {"idle", "resolved"} => st.run \in Runs
    BY <1>0, <2>1 DEF LocalOK, ClientState, Runs
  <2> HIDE DEF st
  <2>6. client' \in [Clients -> ClientState]
    BY <2>2, <2>3
  <2>7. LocalOK'
    BY <2>3, <2>4, <2>5 DEF LocalOK
  <2>8. QED
    BY <2>4, <2>6, <2>7 DEF tables
<1>3. ASSUME NEW r \in 0..MaxRuns, Resolve(c, r)
      PROVE  TypeInv'
  <2> USE <1>3 DEF Resolve, tables
  <2>1. client' \in [Clients -> ClientState]
    BY <1>0 DEF ClientState
  <2>2. LocalOK'
    BY <1>0 DEF LocalOK, ClientState
  <2>3. QED
    BY <2>1, <2>2
<1>4. CASE SignalRead(c)
  <2> USE <1>4 DEF SignalRead, tables
  <2>1. NextEventID(client[c].run) \in Nat
    BY NextEventIDType DEF LocalOK
  <2>2. client' \in [Clients -> ClientState]
    BY <1>0, <2>1 DEF ClientState
  <2>3. LocalOK'
    BY <1>0 DEF LocalOK, ClientState
  <2>4. QED
    BY <2>2, <2>3
<1>5. CASE SignalEnqueue(c)
  <2> DEFINE b == ~WorkflowTaskExists(client[c].run)
  <2>1. b \in BOOLEAN
    OBVIOUS
  <2>2. client' = [client EXCEPT ![c].pc = "enqueued", ![c].insert = b]
    BY <1>5 DEF SignalEnqueue
  <2>3. client[c].pc = "read" /\ UNCHANGED <<tables, lastRun, worker, scanner, decided>>
    BY <1>5 DEF SignalEnqueue
  <2> HIDE DEF b
  <2>4. client' \in [Clients -> ClientState]
    BY <1>0, <2>1, <2>2 DEF ClientState
  <2>5. LocalOK'
    BY <1>0, <2>2, <2>3 DEF LocalOK, ClientState
  <2>6. QED
    BY <2>3, <2>4, <2>5 DEF tables
<1>6. CASE StartCommit(c)
  <2> USE <1>6 DEF StartCommit
  <2> DEFINE r == client[c].run
             e == [id |-> 1, type |-> "WorkflowStarted", key |-> 0]
  <2>1. r \in Runs
    BY DEF LocalOK
  <2>2. e \in Event
    BY KeysAssumption DEF Event, EventTypes, WakeTypes
  <2>3. EventsOf(r, <<e>>) \in [Runs -> Seq(Event)]
    BY <2>1, <2>2, OneEventType
  <2>4. events' \in [Runs -> Seq(Event)]
    BY <2>3, InsertEventsType
  <2>5. tasks' \subseteq Task
    BY <2>1, RowTypes
  <2>6. execs' \in [Runs -> Execution]
    BY <1>0, <2>1 DEF InsertWorkflowExecution, Execution, ClientState
  <2>7. client' \in [Clients -> ClientState] /\ serial' \in Nat
    BY <1>0
  <2>8. LocalOK'
    BY <1>0 DEF LocalOK
  <2>9. QED
    BY <2>4, <2>5, <2>6, <2>7, <2>8
<1>7. CASE SignalCommit(c)
  <2> USE <1>7 DEF SignalCommit
  <2> DEFINE r == client[c].run
             e == [id |-> client[c].next, type |-> "SignalReceived", key |-> 0]
  <2>1. r \in Runs /\ client[c].next \in Nat
    BY <1>0 DEF LocalOK, ClientState
  <2>2. e \in Event
    BY <2>1, KeysAssumption DEF Event, EventTypes
  <2>3. EventsOf(r, <<e>>) \in [Runs -> Seq(Event)]
    BY <2>1, <2>2, OneEventType
  <2>4. events' \in [Runs -> Seq(Event)]
    BY <2>3, InsertEventsType
  <2>5. tasks' \subseteq Task /\ serial' \in Nat
    BY <2>1, RowTypes
  <2>6. client' \in [Clients -> ClientState]
    BY <1>0
  <2>7. LocalOK'
    BY <1>0 DEF LocalOK
  <2>8. QED
    BY <2>4, <2>5, <2>6, <2>7
<1>8. QED
  BY <1>1, <1>2, <1>3, <1>4, <1>5, <1>6, <1>7
  DEF ClientNext, SignalWorkflowID, SignalRunID, Runs

\* A step of a worker leaves the types intact.
LEMMA TypeWorker ==
  ASSUME TypeInv, NEW w \in Workers, WorkerNext(w)
  PROVE  TypeInv'
<1> USE DEF TypeInv, TypeOK, TablesTypeOK
<1> DEFINE me == worker[w]
<1>0. /\ me \in WorkerState /\ IdleWorker \in WorkerState
      /\ IdleWorker.pc = "idle"
      /\ me.task \in Task /\ me.task.run \in Runs /\ me.task.id \in Nat
  BY IdleTypes DEF IdleWorker, WorkerState, Task
<1>1. ASSUME NEW t \in tasks, Poll(w, t)
      PROVE  TypeInv'
  <2> USE <1>1 DEF Poll
  <2>1. worker' \in [Workers -> WorkerState]
    BY <1>0 DEF WorkerState
  <2>2. tasks' \subseteq Task
    BY UpdateTypes
  <2>3. LocalOK'
    BY <1>0 DEF LocalOK, WorkerState
  <2>4. QED
    BY <2>1, <2>2, <2>3
<1>2. CASE FetchHistory(w) \/ ReadEvents(w)
  <2>1. Len(events[me.task.run]) \in Nat /\ NextEventID(me.task.run) \in Nat
    BY <1>0, NextEventIDType
  <2>2. CASE FetchHistory(w)
    <3>1. worker' = [worker EXCEPT ![w] =
            [me EXCEPT !.pc = "working", !.seen = Len(events[me.task.run])]]
      BY <2>2 DEF FetchHistory
    <3>2. worker'[w] \in WorkerState
      BY <1>0, <2>1, <3>1 DEF WorkerState
    <3>3. UNCHANGED <<execs, events, tasks, timers, serial, lastRun, client, scanner, decided>>
      BY <2>2 DEF FetchHistory, tables
    <3>4. worker'[w].pc = "working" /\ \A v \in Workers \ {w} : worker'[v] = worker[v]
      BY <1>0, <3>1 DEF WorkerState
    <3>5. LocalOK'
      BY <3>3, <3>4 DEF LocalOK
    <3>6. worker' \in [Workers -> WorkerState]
      BY <3>1, <3>2
    <3>7. TypeOK'
      BY <3>3, <3>6
    <3>8. QED
      BY <3>5, <3>7
  <2>3. CASE ReadEvents(w)
    <3>1. worker' = [worker EXCEPT ![w] =
            [me EXCEPT !.pc = "ready", !.next = NextEventID(me.task.run)]]
      BY <2>3 DEF ReadEvents
    <3>2. worker'[w] \in WorkerState
      BY <1>0, <2>1, <3>1 DEF WorkerState
    <3>3. QED
      BY <1>0, <2>3, <3>1, <3>2 DEF ReadEvents, LocalOK, tables, WorkerState
  <2>4. QED
    BY <1>2, <2>2, <2>3
<1>3. CASE Abandon(w)
  BY <1>0, <1>3 DEF Abandon, LocalOK, tables
<1>4. ASSUME NEW cmds \in CommandLists, CheckRunning(w, cmds)
      PROVE  TypeInv'
  <2>1. worker' \in [Workers -> WorkerState]
    BY <1>0, <1>4 DEF CheckRunning, WorkerState
  <2>2. LocalOK'
    BY <1>0, <1>4 DEF CheckRunning, LocalOK, WorkerState
  <2>3. QED
    BY <1>4, <2>1, <2>2 DEF CheckRunning, tables
<1>5. CASE DiscardWorkflowTask(w)
  <2>1. tasks' \subseteq Task
    BY <1>5, UpdateTypes DEF DiscardWorkflowTask
  <2>2. QED
    BY <1>0, <1>5, <2>1 DEF DiscardWorkflowTask, LocalOK
<1>6. ASSUME NEW ok \in BOOLEAN, GetTask(w, ok)
      PROVE  TypeInv'
  <2> DEFINE st == worker'[w]
  <2>1. \/ st = IdleWorker
        \/ st = [me EXCEPT !.ok = ok, !.pc = "found"]
        \/ st = [me EXCEPT !.ok = ok, !.pc = "retry"] /\ me.task.attempt < MaxAttempts
    BY <1>6 DEF GetTask
  <2>2. st \in WorkerState
    <3>1. [me EXCEPT !.ok = ok, !.pc = "found"] \in WorkerState
      BY <1>0 DEF WorkerState
    <3>2. [me EXCEPT !.ok = ok, !.pc = "retry"] \in WorkerState
      BY <1>0 DEF WorkerState
    <3>3. QED
      BY <1>0, <2>1, <3>1, <3>2
  <2>3. st.pc = "retry" => st.task.attempt < MaxAttempts
    BY <1>0, <2>1 DEF WorkerState
  <2>4. worker' = [worker EXCEPT ![w] = st]
    BY <1>6 DEF GetTask
  <2>5. UNCHANGED <<tables, lastRun, client, scanner, decided>>
    BY <1>6 DEF GetTask
  <2> HIDE DEF st
  <2>6. worker' \in [Workers -> WorkerState]
    BY <2>2, <2>4
  <2>7. LocalOK'
    BY <2>3, <2>4, <2>5 DEF LocalOK
  <2>8. QED
    BY <2>5, <2>6, <2>7 DEF tables
<1>7. CASE CommitRetry(w)
  <2> DEFINE t == me.task
  <2>1. t.attempt + 1 \in 0..MaxAttempts /\ t.sched \in Nat /\ t.key \in Keys
    BY <1>0, <1>7, AttemptsAssumption DEF CommitRetry, LocalOK, Task
  <2>2. ActivityTask(serial + 1, t.run, t.sched, t.key, t.attempt + 1, TRUE) \in Task
    <3>1. serial + 1 \in Nat /\ t.run \in Runs
      BY <1>0
    <3> HIDE DEF t
    <3>2. QED
      BY <2>1, <3>1, RowTypes
  <2>3. tasks' \subseteq Task
    BY <1>7, <2>2, UpdateTypes DEF CommitRetry
  <2>4. serial' \in Nat
    BY <1>7 DEF CommitRetry
  <2>5. worker' = [worker EXCEPT ![w] = IdleWorker]
        /\ UNCHANGED <<execs, events, timers, lastRun, client, scanner, decided>>
    BY <1>7 DEF CommitRetry
  <2>6. QED
    BY <1>0, <2>3, <2>4, <2>5 DEF LocalOK
<1>8. CASE CommitActivityTask(w)
  <2> DEFINE t == me.task
             e == [id |-> me.next, type |-> IF me.ok THEN "ActivityCompleted"
                                            ELSE "ActivityFailed", key |-> t.key]
  <2>1. e \in Event /\ me.next \in Nat
    BY <1>0 DEF WorkerState, Task, Event, EventTypes, WakeTypes, ActivityOutcomes
  <2>2. EventsOf(t.run, <<e>>) \in [Runs -> Seq(Event)]
    BY <1>0, <2>1, OneEventType
  <2>3. events' \in [Runs -> Seq(Event)]
    BY <1>8, <2>2, InsertEventsType DEF CommitActivityTask
  <2>4. WakeTask(t.run, me.next) \subseteq Task
    BY <1>0, <2>1, RowTypes DEF WakeTask
  <2>5. tasks' \subseteq Task
    BY <1>8, <2>4, UpdateTypes DEF CommitActivityTask
  <2>6. QED
    BY <1>0, <1>8, <2>3, <2>5 DEF CommitActivityTask, LocalOK
<1>9. CASE CommitWorkflowTask(w)
  <2> DEFINE r == me.task.run
             n == Len(me.cmds)
             id(i) == EventID(me.next, me.cmds, i)
             new == [i \in 1..n |-> [id |-> id(i), type |-> Recorded[me.cmds[i].type],
                                     key |-> me.cmds[i].key]]
  <2>1. me.cmds \in Seq(Command) /\ me.next \in Nat /\ me.seen \in Nat
    BY <1>0, CommandsAssumption DEF WorkerState
  <2>2. n \in Nat /\ \A i \in 1..n : me.cmds[i] \in Command
    BY <2>1, LenProperties, ElementOfSeq
  <2>3. \A i \in 1..n : id(i) \in Nat
    BY <2>1, EventIDBounds
  <2>4. \A i \in 1..n : new[i] \in Event
    BY <2>2, <2>3, RecordedTypes DEF Command, Event
  <2>5. new \in Seq(Event)
    <3> HIDE DEF n, id
    <3>1. new \in [1..n -> Event]
      BY <2>4
    <3>2. QED
      BY <2>2, <3>1, SeqOfFunction
  <2>6. events' \in [Runs -> Seq(Event)]
    BY <1>0, <1>9, <2>5, EventsOfType, InsertEventsType DEF CommitWorkflowTask
  <2>7. execs' \in [Runs -> Execution]
    <3> DEFINE status == StatusAfter(execs[r].status, me.cmds)
    <3>1. r \in Runs /\ execs \in [Runs -> Execution]
      BY <1>0 DEF WorkerState, Task
    <3>2. status \in {execs[r].status, "Completed", "Failed"}
      BY DEF StatusAfter
    <3>3. execs' = [execs EXCEPT ![r] = [execs[r] EXCEPT !.status = status]]
      BY <1>9, <3>1 DEF CommitWorkflowTask, UpdateWorkflowStatus
    <3> HIDE DEF status, r
    <3>4. [execs[r] EXCEPT !.status = status] \in Execution
      BY <3>1, <3>2 DEF Execution, Closed
    <3>5. QED
      BY <3>1, <3>3, <3>4
  <2>8. CommandsOf("ScheduleActivity", me.cmds) \subseteq 1..n
        /\ CommandsOf("StartTimer", me.cmds) \subseteq 1..n
    BY DEF CommandsOf
  <2>9. \A i \in 1..n :
          /\ ActivityTask(serial + i, r, id(i), me.cmds[i].key, 1, FALSE) \in Task
          /\ TimerRow(serial + i, r, me.cmds[i].key) \in Timer
    <3>1. \A i \in 1..n : serial + i \in Nat /\ me.cmds[i].key \in Keys
      BY <2>2 DEF Command
    <3>2. 1 \in 0..MaxAttempts
      BY AttemptsAssumption
    <3> HIDE DEF n, id, r
    <3>3. QED
      BY <1>0, <2>3, <3>1, <3>2, RowTypes DEF r
  <2>10. tasks' \subseteq Task /\ timers' \subseteq Timer
    BY <1>9, <2>8, <2>9, UpdateTypes DEF CommitWorkflowTask
  <2>11. decided' \in [Runs -> Nat] /\ serial' \in Nat
    <3>1. decided' = [decided EXCEPT ![r] = IF me.seen > @ THEN me.seen ELSE @]
          /\ serial' = serial + n
      BY <1>9 DEF CommitWorkflowTask
    <3>2. r \in Runs
      BY <1>0
    <3> HIDE DEF r, n
    <3>3. QED
      BY <2>1, <2>2, <3>1, <3>2
  <2>12. QED
    BY <1>0, <1>9, <2>6, <2>7, <2>10, <2>11 DEF CommitWorkflowTask, LocalOK
<1>10. QED
  BY <1>1, <1>2, <1>3, <1>4, <1>5, <1>6, <1>7, <1>8, <1>9 DEF WorkerNext

\* So does a step of a timer scan.
LEMMA TypeScanner ==
  ASSUME TypeInv, NEW s \in Scanners, ScannerNext(s)
  PROVE  TypeInv'
<1> USE DEF TypeInv, TypeOK, TablesTypeOK
<1> DEFINE me == scanner[s]
<1>0. /\ me \in ScannerState /\ IdleScanner \in ScannerState
      /\ IsFiniteSet(me.wakes) /\ IsFiniteSet(IdleScanner.wakes)
  BY IdleTypes, FS_EmptySet DEF IdleScanner, LocalOK
<1>1. ASSUME NEW due \in SUBSET timers, ScanSelect(s, due)
      PROVE  TypeInv'
  <2>1. scanner' \in [Scanners -> ScannerState]
    BY <1>0, <1>1 DEF ScanSelect, ScannerState
  <2>2. LocalOK'
    BY <1>0, <1>1 DEF ScanSelect, LocalOK, ScannerState
  <2>3. QED
    BY <1>1, <2>1, <2>2 DEF ScanSelect, tables
<1>2. CASE ScanAbort(s)
  BY <1>0, <1>2 DEF ScanAbort, LocalOK, tables
<1>3. ASSUME NEW t \in me.due, ScanTimer(s, t)
      PROVE  TypeInv'
  <2> DEFINE n == NextEventID(t.run)
             e == [id |-> n, type |-> "TimerFired", key |-> t.key]
             wake == WorkflowTask(Cardinality(me.wakes) + 1, t.run, n)
  <2>1. t.run \in Runs /\ t.key \in Keys /\ t.id \in Nat
    BY <1>0 DEF ScannerState, Timer
  <2>2. n \in Nat /\ e \in Event
    BY <2>1, NextEventIDType DEF Event, EventTypes, WakeTypes
  <2>3. wake \in Task
    BY <1>0, <2>1, <2>2, RowTypes, FS_CardinalityType
  <2>4. [me.batch EXCEPT ![t.run] = Append(@, e)] \in [Runs -> Seq(Event)]
    BY <1>0, <2>1, <2>2 DEF ScannerState
  <2> DEFINE st == [pc    |-> "scanning",
                    due   |-> me.due \ {t},
                    fired |-> me.fired \cup {t.id},
                    batch |-> [me.batch EXCEPT ![t.run] = Append(@, e)],
                    wakes |-> me.wakes \cup {wake}]
  <2>5. /\ scanner' = [scanner EXCEPT ![s] = st]
        /\ UNCHANGED <<tables, lastRun, worker, client, decided>>
    BY <1>3 DEF ScanTimer
  <2>6. IsFiniteSet(me.wakes \cup {wake})
    BY <1>0, FS_AddElement
  <2> HIDE DEF e, n, wake
  <2>7. st \in ScannerState /\ IsFiniteSet(st.wakes)
    BY <1>0, <2>1, <2>3, <2>4, <2>6 DEF ScannerState
  <2> HIDE DEF st
  <2>8. scanner' \in [Scanners -> ScannerState] /\ LocalOK'
    BY <2>5, <2>7 DEF LocalOK
  <2>9. QED
    BY <2>5, <2>8 DEF tables
<1>4. CASE ScanCommit(s)
  <2>1. me.batch \in [Runs -> Seq(Event)] /\ me.wakes \subseteq Task
    BY <1>0 DEF ScannerState
  <2>2. events' \in [Runs -> Seq(Event)]
    BY <1>4, <2>1, InsertEventsType DEF ScanCommit
  <2>3. \A t \in Task : [t EXCEPT !.id = serial + t.id] \in Task
    <3>1. \A t \in Task : serial + t.id \in Nat
      BY DEF Task
    <3>2. \A t \in Task, n \in Nat : [t EXCEPT !.id = n] \in Task
      BY DEF Task
    <3>3. QED
      BY <3>1, <3>2
  <2>4. tasks' \subseteq Task /\ timers' \subseteq Timer
    BY <1>4, <2>1, <2>3, UpdateTypes DEF ScanCommit
  <2>5. serial' \in Nat
    BY <1>0, <1>4, FS_CardinalityType DEF ScanCommit
  <2>6. QED
    BY <1>0, <1>4, <2>2, <2>4, <2>5 DEF ScanCommit, LocalOK
<1>5. QED
  BY <1>1, <1>2, <1>3, <1>4 DEF ScannerNext

\* And so does one of the engine, or of time.
LEMMA TypeEngine ==
  ASSUME TypeInv, EngineNext
  PROVE  TypeInv'
<1> USE DEF TypeInv, TypeOK, TablesTypeOK
<1>1. ASSUME NEW expired, ReclaimExpiredLeases(expired)
      PROVE  TypeInv'
  <2>1. tasks' \subseteq Task
    BY <1>1, UpdateTypes DEF ReclaimExpiredLeases
  <2>2. QED
    BY <1>1, <2>1 DEF ReclaimExpiredLeases, LocalOK
<1>2. ASSUME NEW t \in tasks, BackoffElapses(t)
      PROVE  TypeInv'
  <2>1. [t EXCEPT !.hidden = FALSE] \in Task
    BY DEF Task
  <2>2. QED
    BY <1>2, <2>1 DEF BackoffElapses, LocalOK
<1>3. ASSUME NEW t \in timers, TimerDue(t)
      PROVE  TypeInv'
  <2>1. [t EXCEPT !.state = "due"] \in Timer
    BY DEF Timer
  <2>2. QED
    BY <1>3, <2>1 DEF TimerDue, LocalOK
<1>4. QED
  BY <1>1, <1>2, <1>3 DEF EngineNext

LEMMA TypeStep == TypeInv /\ [Next]_vars => TypeInv'
<1> SUFFICES ASSUME TypeInv, [Next]_vars PROVE TypeInv'
  OBVIOUS
<1>1. CASE Next
  BY <1>1, TypeClient, TypeWorker, TypeScanner, TypeEngine DEF Next
<1>2. CASE UNCHANGED vars
  BY <1>2 DEF vars, TypeInv, TypeOK, TablesTypeOK, LocalOK
<1>3. QED
  BY <1>1, <1>2

\* Typing: at all times the tables hold rows of their types and the
\* processes are in states of theirs, whatever the handlers do.
THEOREM Typing == Spec => []TypeOK
<1>1. Spec => []TypeInv
  BY TypeInit, TypeStep, PTL DEF Spec
<1>2. TypeInv => TypeOK
  BY DEF TypeInv
<1>3. QED
  BY <1>1, <1>2, PTL

-----------------------------------------------------------------------------
(* Event ids *)

\* A number that was 1 + the length of a history when it was read is at most
\* that later on, since histories only grow: this is what every handler that
\* is about to insert relies on.  A scan's own inserts come on top.
ReadsNotAhead ==
  /\ \A w \in Workers : worker[w].pc = "ready" =>
        worker[w].next <= Len(events[worker[w].task.run]) + 1
  /\ \A c \in Clients : client[c].pc \in {"read", "enqueued"} =>
        client[c].next <= Len(events[client[c].run]) + 1
  /\ \A s \in Scanners, r \in Runs : \A i \in 1..Len(scanner[s].batch[r]) :
        scanner[s].batch[r][i].id <= Len(events[r]) + i

IDsNotAhead ==
  \A r \in Runs : \A i \in 1..Len(events[r]) : events[r][i].id <= i

IDInv == TypeInv /\ ReadsNotAhead /\ IDsNotAhead

\* New events whose ids are not ahead of their places keep it so.
LEMMA InsertNotAhead ==
  ASSUME events \in [Runs -> Seq(Event)], IDsNotAhead,
         NEW new \in [Runs -> Seq(Event)], InsertEvents(new),
         \A r \in Runs : \A i \in 1..Len(new[r]) : new[r][i].id <= Len(events[r]) + i
  PROVE  /\ IDsNotAhead'
         /\ \A r \in Runs : /\ Len(events[r]) \in Nat /\ Len(events'[r]) \in Nat
                            /\ Len(events[r]) <= Len(events'[r])
<1> SUFFICES ASSUME NEW r \in Runs
             PROVE  /\ \A i \in 1..Len(events'[r]) : events'[r][i].id <= i
                    /\ Len(events[r]) \in Nat /\ Len(events'[r]) \in Nat
                    /\ Len(events[r]) <= Len(events'[r])
  BY DEF IDsNotAhead
<1> DEFINE old == events[r]
           add == new[r]
<1>1. old \in Seq(Event) /\ add \in Seq(Event) /\ events'[r] = old \o add
  BY DEF InsertEvents
<1>2. Len(old) \in Nat /\ Len(add) \in Nat
  BY <1>1, LenProperties
<1>3. \A i \in 1..Len(old) : old[i].id <= i
  BY DEF IDsNotAhead
<1>4. \A i \in 1..Len(add) : add[i].id <= Len(old) + i
  OBVIOUS
<1> HIDE DEF old, add
<1>5. /\ Len(events'[r]) = Len(old) + Len(add)
      /\ \A i \in 1..Len(old) + Len(add) :
           events'[r][i] = IF i <= Len(old) THEN old[i] ELSE add[i - Len(old)]
  BY <1>1, ConcatProperties
<1>6. ASSUME NEW i \in 1..Len(events'[r]) PROVE events'[r][i].id <= i
  <2>1. i \in Nat /\ 1 <= i /\ i <= Len(old) + Len(add)
    BY <1>2, <1>5
  <2>2. CASE i <= Len(old)
    BY <1>2, <1>3, <1>5, <2>1, <2>2
  <2>3. CASE i > Len(old)
    <3>1. i - Len(old) \in 1..Len(add)
      BY <1>2, <2>1, <2>3
    <3>2. add[i - Len(old)].id <= Len(old) + (i - Len(old))
      BY <1>4, <3>1
    <3>3. events'[r][i] = add[i - Len(old)] /\ Len(old) + (i - Len(old)) = i
      BY <1>2, <1>5, <2>1, <2>3
    <3>4. QED
      BY <3>2, <3>3
  <2>4. QED
    BY <1>2, <2>1, <2>2, <2>3
<1>7. QED
  BY <1>2, <1>5, <1>6 DEF old

\* The numbers that are not ahead of the histories before a step are not
\* ahead of the longer ones after it.
LEMMA ReadsStayBehind ==
  ASSUME TypeInv, TypeInv',
         \A r \in Runs : Len(events[r]) <= Len(events'[r]),
         \A w \in Workers : worker'[w].pc = "ready" =>
            worker'[w].next <= Len(events[worker'[w].task.run]) + 1,
         \A c \in Clients : client'[c].pc \in {"read", "enqueued"} =>
            client'[c].next <= Len(events[client'[c].run]) + 1,
         \A s \in Scanners, r \in Runs : \A i \in 1..Len(scanner'[s].batch[r]) :
            scanner'[s].batch[r][i].id <= Len(events[r]) + i
  PROVE  ReadsNotAhead'
<1> USE DEF TypeInv, TypeOK, TablesTypeOK
<1>1. \A r \in Runs : Len(events[r]) \in Nat /\ Len(events'[r]) \in Nat
  BY LenProperties
<1>2. ASSUME NEW w \in Workers, worker'[w].pc = "ready"
      PROVE  worker'[w].next <= Len(events'[worker'[w].task.run]) + 1
  <2>1. worker'[w].task.run \in Runs /\ worker'[w].next \in Nat
    BY DEF WorkerState, Task
  <2>2. QED
    BY <1>1, <1>2, <2>1
<1>3. ASSUME NEW c \in Clients, client'[c].pc \in {"read", "enqueued"}
      PROVE  client'[c].next <= Len(events'[client'[c].run]) + 1
  <2>1. client'[c].run \in Runs /\ client'[c].next \in Nat
    BY <1>3 DEF ClientState, LocalOK
  <2>2. QED
    BY <1>1, <1>3, <2>1
<1>4. ASSUME NEW s \in Scanners, NEW r \in Runs,
             NEW i \in 1..Len(scanner'[s].batch[r])
      PROVE  scanner'[s].batch[r][i].id <= Len(events'[r]) + i
  <2> DEFINE x == scanner'[s].batch[r][i].id
  <2>1. scanner'[s].batch[r] \in Seq(Event)
    BY DEF ScannerState
  <2>2. scanner'[s].batch[r][i] \in Event /\ i \in Nat
    BY <2>1, ElementOfSeq, LenProperties
  <2>3. x \in Nat /\ x <= Len(events[r]) + i
    BY <2>2 DEF Event
  <2> HIDE DEF x
  <2>4. x <= Len(events'[r]) + i
    BY <1>1, <2>2, <2>3
  <2>5. QED
    BY <2>4 DEF x
<1>5. QED
  BY <1>2, <1>3, <1>4 DEF ReadsNotAhead

LEMMA IDInit == Init => IDInv
<1> SUFFICES ASSUME Init PROVE ReadsNotAhead /\ IDsNotAhead
  BY TypeInit DEF IDInv
<1>1. \A s \in Scanners, r \in Runs : Len(scanner[s].batch[r]) = 0
  BY DEF Init, IdleScanner
<1>2. ReadsNotAhead
  BY <1>1 DEF Init, ReadsNotAhead, IdleWorker, IdleClient
<1>3. \A r \in Runs : Len(events[r]) = 0
  BY DEF Init, TablesInit
<1>4. QED
  BY <1>2, <1>3 DEF IDsNotAhead

\* A step that inserts no event keeps the invariant if the numbers it adds to
\* local states are read from the histories as they are.
LEMMA IDQuiet ==
  ASSUME IDInv, TypeInv', UNCHANGED events,
         \A w \in Workers : \/ worker'[w] = worker[w] \/ worker'[w].pc # "ready"
                            \/ ReadEvents(w),
         \A c \in Clients : \/ client'[c] = client[c]
                            \/ client'[c].pc \notin {"read", "enqueued"}
                            \/ SignalRead(c) \/ SignalEnqueue(c),
         \A s \in Scanners : \/ scanner'[s].batch = scanner[s].batch
                             \/ scanner'[s].batch = IdleScanner.batch
                             \/ \E t \in scanner[s].due : ScanTimer(s, t)
  PROVE  IDInv'
<1> USE DEF IDInv, TypeInv, TypeOK, TablesTypeOK
<1>a. \A r \in Runs : Len(events[r]) \in Nat
  BY LenProperties
<1>b. \A w \in Workers : worker[w] \in WorkerState /\ worker[w].task.run \in Runs
  BY DEF WorkerState, Task
<1>c. worker \in [Workers -> WorkerState]
  OBVIOUS
<1>d. client \in [Clients -> ClientState] /\ \A c \in Clients : client[c] \in ClientState
  OBVIOUS
<1>1. ASSUME NEW w \in Workers, worker'[w].pc = "ready"
      PROVE  worker'[w].next <= Len(events[worker'[w].task.run]) + 1
  <2>1. CASE ReadEvents(w)
    <3>1. worker' = [worker EXCEPT ![w] = [worker[w] EXCEPT
             !.pc = "ready", !.next = NextEventID(worker[w].task.run)]]
      BY <1>c, <2>1 DEF ReadEvents
    <3>2. worker'[w] = [worker[w] EXCEPT
             !.pc = "ready", !.next = NextEventID(worker[w].task.run)]
      BY <1>c, <3>1
    <3>3. worker'[w].task = worker[w].task
          /\ worker'[w].next = NextEventID(worker[w].task.run)
      BY <1>b, <3>2 DEF WorkerState
    <3>4. QED
      BY <1>a, <1>b, <3>3 DEF NextEventID
  <2>2. CASE worker'[w] = worker[w]
    BY <1>1, <2>2 DEF ReadsNotAhead
  <2>3. QED
    BY <1>1, <2>1, <2>2
<1>2. ASSUME NEW c \in Clients, client'[c].pc \in {"read", "enqueued"}
      PROVE  client'[c].next <= Len(events[client'[c].run]) + 1
  <2>1. CASE SignalRead(c)
    <3>1. client' = [client EXCEPT ![c] = [client[c] EXCEPT
             !.pc = "read", !.next = NextEventID(client[c].run)]]
      BY <1>d, <2>1 DEF SignalRead
    <3>2. client'[c] = [client[c] EXCEPT
             !.pc = "read", !.next = NextEventID(client[c].run)]
      BY <1>d, <3>1
    <3>3. client'[c].run = client[c].run
          /\ client'[c].next = NextEventID(client[c].run)
      BY <1>d, <3>2 DEF ClientState
    <3>4. client[c].run \in Runs
      BY <2>1 DEF SignalRead, LocalOK
    <3>5. QED
      BY <1>a, <3>3, <3>4 DEF NextEventID
  <2>2. CASE SignalEnqueue(c)
    <3>1. client' = [client EXCEPT ![c] = [client[c] EXCEPT
             !.pc = "enqueued", !.insert = ~WorkflowTaskExists(client[c].run)]]
      BY <1>d, <2>2 DEF SignalEnqueue
    <3>2. client'[c] = [client[c] EXCEPT
             !.pc = "enqueued", !.insert = ~WorkflowTaskExists(client[c].run)]
      BY <1>d, <3>1
    <3>3. client'[c].run = client[c].run /\ client'[c].next = client[c].next
      BY <1>d, <3>2 DEF ClientState
    <3>4. client[c].pc = "read"
      BY <2>2 DEF SignalEnqueue
    <3>5. QED
      BY <3>3, <3>4 DEF ReadsNotAhead
  <2>3. CASE client'[c] = client[c]
    BY <1>2, <2>3 DEF ReadsNotAhead
  <2>4. QED
    BY <1>2, <2>1, <2>2, <2>3
<1>3. ASSUME NEW s \in Scanners, NEW r \in Runs,
             NEW i \in 1..Len(scanner'[s].batch[r])
      PROVE  scanner'[s].batch[r][i].id <= Len(events[r]) + i
  <2>1. CASE scanner'[s].batch = scanner[s].batch
    BY <2>1 DEF ReadsNotAhead
  <2>2. CASE scanner'[s].batch = IdleScanner.batch
    <3>1. scanner'[s].batch[r] = <<>> /\ Len(<<>>) = 0
      BY <2>2 DEF IdleScanner
    <3>2. QED
      BY <3>1, <1>3
  <2>3. ASSUME NEW t \in scanner[s].due, ScanTimer(s, t)
        PROVE  scanner'[s].batch[r][i].id <= Len(events[r]) + i
    <3> DEFINE b == scanner[s].batch
               e == [id |-> NextEventID(t.run), type |-> "TimerFired", key |-> t.key]
    <3>1. t.run \in Runs /\ b \in [Runs -> Seq(Event)]
      <4>1. scanner[s] \in ScannerState
        OBVIOUS
      <4>2. t \in Timer
        BY <4>1 DEF ScannerState
      <4>3. QED
        BY <4>1, <4>2 DEF ScannerState, Timer
    <3>2. scanner'[s].batch = [b EXCEPT ![t.run] = Append(@, e)]
      BY <2>3 DEF ScanTimer
    <3>3. e.id = Len(events[t.run]) + 1
      BY DEF NextEventID
    <3>4. Len(b[r]) \in Nat /\ \A j \in 1..Len(b[r]) : b[r][j].id <= Len(events[r]) + j
      BY <3>1, LenProperties DEF ReadsNotAhead
    <3> HIDE DEF b, e
    <3>5. CASE r # t.run
      BY <1>3, <3>1, <3>2, <3>4, <3>5
    <3>6. CASE r = t.run
      <4>1. scanner'[s].batch[r] = Append(b[r], e)
        BY <3>1, <3>2, <3>6
      <4>2. /\ Len(Append(b[r], e)) = Len(b[r]) + 1
            /\ \A j \in 1..Len(b[r]) : Append(b[r], e)[j] = b[r][j]
            /\ Append(b[r], e)[Len(b[r]) + 1] = e
        BY <3>1
      <4>3. i \in 1..Len(b[r]) \/ i = Len(b[r]) + 1
        BY <3>4, <4>1, <4>2
      <4>4. CASE i \in 1..Len(b[r])
        BY <3>4, <4>1, <4>2, <4>4
      <4>5. CASE i = Len(b[r]) + 1
        <5>1. scanner'[s].batch[r][i].id = Len(events[r]) + 1
          BY <3>3, <3>6, <4>1, <4>2, <4>5
        <5>2. QED
          BY <1>a, <3>4, <4>5, <5>1
      <4>6. QED
        BY <4>3, <4>4, <4>5
    <3>7. QED
      BY <3>5, <3>6
  <2>4. QED
    BY <2>1, <2>2, <2>3
<1>4. \A r \in Runs : Len(events[r]) <= Len(events'[r])
  BY <1>a
<1>5. ReadsNotAhead'
  BY <1>1, <1>2, <1>3, <1>4, ReadsStayBehind
<1>6. IDsNotAhead'
  BY DEF IDsNotAhead
<1>7. QED
  BY <1>5, <1>6

\* A transaction that inserts events keeps the invariant if their ids are not
\* ahead of their places and its process goes idle.
LEMMA IDInsert ==
  ASSUME IDInv, TypeInv', NEW new \in [Runs -> Seq(Event)], InsertEvents(new),
         \A r \in Runs : \A i \in 1..Len(new[r]) : new[r][i].id <= Len(events[r]) + i,
         \A w \in Workers : worker'[w] = worker[w] \/ worker'[w] = IdleWorker,
         \A c \in Clients : client'[c] = client[c] \/ client'[c] = IdleClient,
         \A s \in Scanners : scanner'[s] = scanner[s] \/ scanner'[s] = IdleScanner
  PROVE  IDInv'
<1> USE DEF IDInv, TypeInv, TypeOK, TablesTypeOK
<1>1. IDsNotAhead' /\ \A r \in Runs : Len(events[r]) <= Len(events'[r])
  BY InsertNotAhead
<1>2. ASSUME NEW w \in Workers, worker'[w].pc = "ready"
      PROVE  worker'[w].next <= Len(events[worker'[w].task.run]) + 1
  <2>1. worker'[w] # IdleWorker
    BY <1>2 DEF IdleWorker
  <2>2. worker'[w] = worker[w]
    BY <2>1
  <2>3. QED
    BY <1>2, <2>2 DEF ReadsNotAhead
<1>3. ASSUME NEW c \in Clients, client'[c].pc \in {"read", "enqueued"}
      PROVE  client'[c].next <= Len(events[client'[c].run]) + 1
  <2>1. client'[c] # IdleClient
    BY <1>3 DEF IdleClient
  <2>2. client'[c] = client[c]
    BY <2>1
  <2>3. QED
    BY <1>3, <2>2 DEF ReadsNotAhead
<1>4. ASSUME NEW s \in Scanners, NEW r \in Runs,
             NEW i \in 1..Len(scanner'[s].batch[r])
      PROVE  scanner'[s].batch[r][i].id <= Len(events[r]) + i
  <2>1. CASE scanner'[s] = scanner[s]
    BY <2>1 DEF ReadsNotAhead
  <2>2. CASE scanner'[s] = IdleScanner
    <3>1. scanner'[s].batch[r] = <<>> /\ Len(<<>>) = 0
      BY <2>2 DEF IdleScanner
    <3>2. QED
      BY <3>1, <1>4
  <2>3. QED
    BY <2>1, <2>2
<1>5. QED
  BY <1>1, <1>2, <1>3, <1>4, ReadsStayBehind

\* Of the events of a single-event transaction.
LEMMA OneEventNotAhead ==
  ASSUME IDInv, NEW r \in Runs, NEW e \in Event, e.id <= Len(events[r]) + 1
  PROVE  \A q \in Runs : \A i \in 1..Len(EventsOf(r, <<e>>)[q]) :
            EventsOf(r, <<e>>)[q][i].id <= Len(events[q]) + i
<1> TAKE q \in Runs
<1>1. Len(<<e>>) = 1 /\ <<e>>[1] = e /\ Len(<<>>) = 0
  OBVIOUS
<1>2. EventsOf(r, <<e>>)[q] = IF q = r THEN <<e>> ELSE <<>>
  BY DEF EventsOf
<1>3. QED
  BY <1>1, <1>2

LEMMA IDStep == IDInv /\ [Next]_vars => IDInv'
<1> SUFFICES ASSUME IDInv, [Next]_vars PROVE IDInv'
  OBVIOUS
<1>0. TypeInv' /\ TypeInv
  BY TypeStep DEF IDInv
<1>1. ASSUME NEW c \in Clients, ClientNext(c)
      PROVE  IDInv'
  <2> client[c] \in ClientState /\ client \in [Clients -> ClientState]
    BY <1>0 DEF TypeInv, TypeOK
  <2>1. CASE StartCommit(c)
    <3> DEFINE r == client[c].run
               e == [id |-> 1, type |-> "WorkflowStarted", key |-> 0]
    <3>1. r \in Runs /\ e \in Event
      BY <1>0, <2>1, KeysAssumption DEF StartCommit, TypeInv, LocalOK, Event, EventTypes, WakeTypes
    <3>2. Len(events[r]) \in Nat
      BY <1>0, <3>1, NextEventIDType DEF TypeInv, TypeOK, TablesTypeOK
    <3>3. e.id <= Len(events[r]) + 1
      BY <3>2
    <3>4. InsertEvents(EventsOf(r, <<e>>)) /\ client' = [client EXCEPT ![c] = IdleClient]
          /\ UNCHANGED <<worker, scanner>>
      BY <2>1 DEF StartCommit
    <3> HIDE DEF r, e
    <3>5. QED
      BY <1>0, <3>1, <3>3, <3>4, OneEventNotAhead, OneEventType, IDInsert
  <2>2. CASE SignalCommit(c)
    <3> DEFINE r == client[c].run
               e == [id |-> client[c].next, type |-> "SignalReceived", key |-> 0]
    <3>1. r \in Runs /\ e \in Event
      BY <1>0, <2>2, KeysAssumption DEF SignalCommit, TypeInv, LocalOK, Event, EventTypes, ClientState
    <3>2. e.id <= Len(events[r]) + 1
      BY <2>2 DEF SignalCommit, IDInv, ReadsNotAhead
    <3>3. InsertEvents(EventsOf(r, <<e>>)) /\ client' = [client EXCEPT ![c] = IdleClient]
          /\ UNCHANGED <<worker, scanner>>
      BY <2>2 DEF SignalCommit
    <3> HIDE DEF r, e
    <3>4. QED
      BY <1>0, <3>1, <3>2, <3>3, OneEventNotAhead, OneEventType, IDInsert
  <2>3. CASE SignalRead(c) \/ SignalEnqueue(c)
    <3>1. \A d \in Clients : d # c => client'[d] = client[d]
      BY <2>3 DEF SignalRead, SignalEnqueue
    <3>2. UNCHANGED <<events, worker, scanner>>
      BY <2>3 DEF SignalRead, SignalEnqueue, tables
    <3>3. QED
      BY <1>0, <2>3, <3>1, <3>2, IDQuiet
  <2>4. ASSUME UNCHANGED <<events, worker, scanner>>,
               \A d \in Clients : client'[d] = client[d]
                                  \/ client'[d].pc \notin {"read", "enqueued"}
        PROVE  IDInv'
    BY <1>0, <2>4, IDQuiet
  <2>5. ASSUME NEW wf \in Workflows, StartBegin(c, wf) PROVE IDInv'
    BY <2>4, <2>5 DEF StartBegin, tables, IdleClient
  <2>6. CASE StartCheck(c)
    BY <2>4, <2>6 DEF StartCheck, tables, IdleClient, ClientState
  <2>7. ASSUME NEW r \in 0..MaxRuns, Resolve(c, r) PROVE IDInv'
    BY <2>4, <2>7 DEF Resolve, tables, IdleClient
  <2>8. CASE SignalCheck(c)
    BY <2>4, <2>8 DEF SignalCheck, tables, IdleClient, ClientState
  <2>9. CASE ClientAbort(c)
    BY <2>4, <2>9 DEF ClientAbort, tables, IdleClient
  <2>10. QED
    BY <1>1, <2>1, <2>2, <2>3, <2>5, <2>6, <2>7, <2>8, <2>9
    DEF ClientNext, SignalWorkflowID, SignalRunID, Runs
<1>2. ASSUME NEW w \in Workers, WorkerNext(w)
      PROVE  IDInv'
  <2> DEFINE me == worker[w]
             r  == me.task.run
  <2>a. me \in WorkerState /\ worker \in [Workers -> WorkerState] /\ r \in Runs
    BY <1>0 DEF TypeInv, TypeOK, WorkerState, Task
  <2>b. Len(events[r]) \in Nat
    BY <1>0, <2>a, NextEventIDType DEF TypeInv, TypeOK, TablesTypeOK
  <2>1. CASE CommitActivityTask(w)
    <3> DEFINE e == [id |-> me.next, type |-> IF me.ok THEN "ActivityCompleted"
                                              ELSE "ActivityFailed", key |-> me.task.key]
    <3>1. e \in Event
      BY <2>a DEF WorkerState, Task, Event, EventTypes, WakeTypes, ActivityOutcomes
    <3>2. e.id <= Len(events[r]) + 1
      BY <2>1 DEF CommitActivityTask, IDInv, ReadsNotAhead
    <3>3. InsertEvents(EventsOf(r, <<e>>)) /\ worker' = [worker EXCEPT ![w] = IdleWorker]
          /\ UNCHANGED <<client, scanner>>
      BY <2>1 DEF CommitActivityTask
    <3> HIDE DEF r, e, me
    <3>4. QED
      BY <1>0, <2>a, <3>1, <3>2, <3>3, OneEventNotAhead, OneEventType, IDInsert
  <2>2. CASE CommitWorkflowTask(w)
    <3> DEFINE n == Len(me.cmds)
               id(i) == EventID(me.next, me.cmds, i)
               seq == [i \in 1..n |-> [id |-> id(i), type |-> Recorded[me.cmds[i].type],
                                       key |-> me.cmds[i].key]]
    <3>1. me.cmds \in Seq(Command) /\ me.next \in Nat
      BY <2>a, CommandsAssumption DEF WorkerState
    <3>2. n \in Nat /\ \A i \in 1..n : me.cmds[i] \in Command
      BY <3>1, LenProperties, ElementOfSeq
    <3>3. \A i \in 1..n : id(i) \in Nat /\ id(i) <= me.next + i - 1
      BY <3>1, EventIDBounds
    <3>4. me.next <= Len(events[r]) + 1
      BY <2>2 DEF CommitWorkflowTask, IDInv, ReadsNotAhead
    <3>5. \A i \in 1..n : seq[i] \in Event /\ seq[i].id = id(i)
      BY <3>2, <3>3, RecordedTypes DEF Command, Event
    <3>6. InsertEvents(EventsOf(r, seq)) /\ worker' = [worker EXCEPT ![w] = IdleWorker]
          /\ UNCHANGED <<client, scanner>>
      BY <2>2 DEF CommitWorkflowTask
    <3>7. DOMAIN seq = 1..n
      OBVIOUS
    <3>8. seq \in [1..n -> Event]
      BY <3>5
    <3> HIDE DEF n, id, seq
    <3>9. seq \in Seq(Event) /\ Len(seq) = n
      BY <3>2, <3>8, SeqOfFunction
    <3>10. EventsOf(r, seq) \in [Runs -> Seq(Event)]
      BY <2>a, <3>9, EventsOfType
    <3>11. ASSUME NEW i \in 1..n PROVE seq[i].id <= Len(events[r]) + i
      <4> DEFINE len == Len(events[r])
                 next == me.next
                 x == seq[i].id
      <4>1. i \in Nat /\ len \in Nat /\ next \in Nat /\ next <= len + 1
        BY <2>b, <3>1, <3>2, <3>4
      <4>2. x \in Nat /\ x <= next + i - 1
        BY <3>3, <3>5
      <4> HIDE DEF len, next, x
      <4>3. x <= len + i
        BY <4>1, <4>2
      <4>4. QED
        BY <4>3 DEF len, x
    <3>12. ASSUME NEW q \in Runs, NEW i \in 1..Len(EventsOf(r, seq)[q])
           PROVE  EventsOf(r, seq)[q][i].id <= Len(events[q]) + i
      <4>1. EventsOf(r, seq)[q] = IF q = r THEN seq ELSE <<>>
        BY DEF EventsOf
      <4>2. Len(<<>>) = 0
        OBVIOUS
      <4>3. CASE q = r
        <5>1. EventsOf(r, seq)[q] = seq
          BY <4>1, <4>3
        <5>2. i \in 1..n
          BY <3>9, <3>12, <5>1
        <5>3. QED
          BY <3>11, <4>3, <5>1, <5>2
      <4>4. CASE q # r
        <5>1. EventsOf(r, seq)[q] = <<>>
          BY <4>1, <4>4
        <5>2. i \in 1..0
          BY <3>12, <4>2, <5>1
        <5>3. QED
          BY <5>2
      <4>5. QED
        BY <4>3, <4>4
    <3>13. QED
      BY <1>0, <2>a, <3>6, <3>10, <3>12, IDInsert
  <2>3. CASE ReadEvents(w)
    <3>1. \A v \in Workers : v # w => worker'[v] = worker[v]
      BY <2>a, <2>3 DEF ReadEvents
    <3>2. UNCHANGED <<events, client, scanner>>
      BY <2>3 DEF ReadEvents, tables
    <3>3. QED
      BY <1>0, <2>3, <3>1, <3>2, IDQuiet
  <2>4. ASSUME UNCHANGED <<events, client, scanner>>,
               \A v \in Workers : worker'[v] = worker[v] \/ worker'[v].pc # "ready"
        PROVE  IDInv'
    BY <1>0, <2>4, IDQuiet
  <2>5. ASSUME NEW t \in tasks, Poll(w, t) PROVE IDInv'
    BY <2>4, <2>5, <2>a DEF Poll, IdleWorker
  <2>6. CASE FetchHistory(w)
    BY <2>4, <2>6, <2>a DEF FetchHistory, tables, WorkerState
  <2>7. ASSUME NEW cmds \in CommandLists, CheckRunning(w, cmds) PROVE IDInv'
    BY <2>4, <2>7, <2>a DEF CheckRunning, tables, WorkerState
  <2>8. ASSUME NEW ok \in BOOLEAN, GetTask(w, ok) PROVE IDInv'
    BY <2>4, <2>8, <2>a DEF GetTask, tables, WorkerState, IdleWorker
  <2>9. CASE DiscardWorkflowTask(w)
    BY <2>4, <2>9, <2>a DEF DiscardWorkflowTask, IdleWorker
  <2>10. CASE CommitRetry(w)
    BY <2>4, <2>10, <2>a DEF CommitRetry, IdleWorker
  <2>11. CASE Abandon(w)
    BY <2>4, <2>11, <2>a DEF Abandon, tables, IdleWorker
  <2>12. QED
    BY <1>2, <2>1, <2>2, <2>3, <2>5, <2>6, <2>7, <2>8, <2>9, <2>10, <2>11 DEF WorkerNext
<1>3. ASSUME NEW s \in Scanners, ScannerNext(s)
      PROVE  IDInv'
  <2>1. scanner \in [Scanners -> ScannerState]
    BY <1>0 DEF TypeInv, TypeOK
  <2>2. ASSUME NEW due \in SUBSET timers, ScanSelect(s, due) PROVE IDInv'
    BY <1>0, <2>1, <2>2, IDQuiet DEF ScanSelect, tables, IdleScanner
  <2>3. ASSUME NEW t \in scanner[s].due, ScanTimer(s, t) PROVE IDInv'
    <3>1. \A z \in Scanners : z # s => scanner'[z] = scanner[z]
      BY <2>1, <2>3 DEF ScanTimer
    <3>2. UNCHANGED <<events, worker, client>>
      BY <2>3 DEF ScanTimer, tables
    <3>3. QED
      BY <1>0, <2>3, <3>1, <3>2, IDQuiet
  <2>4. CASE ScanCommit(s)
    <3>1. scanner[s].batch \in [Runs -> Seq(Event)]
      BY <2>1 DEF ScannerState
    <3>2. InsertEvents(scanner[s].batch) /\ scanner' = [scanner EXCEPT ![s] = IdleScanner]
          /\ UNCHANGED <<worker, client>>
      BY <2>4 DEF ScanCommit
    <3>3. \A r \in Runs : \A i \in 1..Len(scanner[s].batch[r]) :
            scanner[s].batch[r][i].id <= Len(events[r]) + i
      BY DEF IDInv, ReadsNotAhead
    <3>4. QED
      BY <1>0, <2>1, <3>1, <3>2, <3>3, IDInsert
  <2>5. CASE ScanAbort(s)
    BY <1>0, <2>1, <2>5, IDQuiet DEF ScanAbort, tables
  <2>6. QED
    BY <1>3, <2>2, <2>3, <2>4, <2>5 DEF ScannerNext
<1>4. CASE EngineNext
  BY <1>0, <1>4, IDQuiet DEF EngineNext, ReclaimExpiredLeases, BackoffElapses, TimerDue
<1>5. CASE UNCHANGED vars
  BY <1>0, <1>5, IDQuiet DEF vars
<1>6. QED
  BY <1>1, <1>2, <1>3, <1>4, <1>5 DEF Next

\* Ids stay behind: however handlers interleave, the event_id of an event is at
\* most its place in the order of the commits.
THEOREM IDsStayBehind == Spec => []EventIDsNeverAhead
<1>1. Spec => []IDInv
  BY IDInit, IDStep, PTL DEF Spec
<1>2. IDInv => EventIDsNeverAhead
  <2> SUFFICES ASSUME IDInv, NEW r \in Runs PROVE DOMAIN events[r] = 1..Len(events[r])
    BY DEF IDInv, IDsNotAhead, EventIDsNeverAhead
  <2>1. events[r] \in Seq(Event)
    BY DEF IDInv, TypeInv, TypeOK, TablesTypeOK
  <2>2. QED
    BY <2>1, LenProperties
<1>3. QED
  BY <1>1, <1>2, PTL

=============================================================================
