------------------------------ MODULE RunProofs -----------------------------
(***************************************************************************)
(* Theorems about the runs of History: where a history begins, what their  *)
(* status says, and that nothing in it is read before its cause.           *)
(***************************************************************************)
EXTENDS HistoryProofs, WellFoundedInduction

-----------------------------------------------------------------------------
(* What the steps do to local states.  A step of a handler either commits   *)
(* or moves its process on: these are the moves, by the state they lead to. *)

\* Client c goes on and no table changes.
ClientMove(c) ==
  LET old == client[c]
      new == client'[c] IN
  /\ UNCHANGED <<tables, worker, scanner, decided>>
  /\ new \in ClientState /\ \A d \in Clients \ {c} : client'[d] = client[d]
  /\ \/ new.pc = "begun" /\ new.run = lastRun + 1 /\ lastRun' = lastRun + 1
     \/ /\ UNCHANGED lastRun
        /\ \/ new = IdleClient
           \/ new.pc = "checked" /\ old.pc = "begun" /\ new.run = old.run
           \/ /\ new.pc = "resolved"
              /\ \/ new.run = 0
                 \/ ~Absent(new.run)
                 \/ execs[new.run].workflow \in Workflows
           \/ new.pc = "running" /\ old.pc = "resolved" /\ new.run = old.run
              /\ new.run # 0
           \/ /\ new.pc = "read" /\ old.pc = "running" /\ new.run = old.run
              /\ new.next = NextEventID(new.run)
           \/ /\ new.pc = "enqueued" /\ old.pc = "read" /\ new.run = old.run
              /\ new.next = old.next

\* Worker w goes on with the task it has, or gives it up.
WorkerMove(w) ==
  LET old == worker[w]
      new == worker'[w] IN
  /\ UNCHANGED <<tables, lastRun, client, scanner, decided>>
  /\ new \in WorkerState /\ \A v \in Workers \ {w} : worker'[v] = worker[v]
  /\ \/ new = IdleWorker
     \/ /\ old.pc # "idle" /\ new.task = old.task
        /\ \/ /\ old.pc = "polled" /\ new.pc = "working"
              /\ new.seen = Len(events[new.task.run])
           \/ /\ new.seen = old.seen
              /\ \/ /\ old.pc = "working" /\ new.task.kind = "workflow"
                    /\ \/ new.pc = "running"
                       \/ new.pc = "closed" /\ ~IsRunning(new.task.run)
                 \/ /\ old.pc = "working" /\ new.task.kind = "activity"
                    /\ new.pc \in {"found", "retry"}
                 \/ /\ old.pc \in {"running", "found"} /\ new.pc = "ready"
                    /\ new.next = NextEventID(new.task.run)

LEMMA ClientMoves ==
  ASSUME TypeInv, NEW c \in Clients, ClientNext(c)
  PROVE  ClientMove(c) \/ StartCommit(c) \/ SignalCommit(c)
<1>0. /\ client \in [Clients -> ClientState] /\ client[c] \in ClientState
      /\ IdleClient \in ClientState /\ lastRun \in 0..MaxRuns
      /\ MaxRuns \in Nat
  BY IdleTypes, BoundsAssumption DEF TypeInv, TypeOK
<1>1. ASSUME NEW wf \in Workflows, StartBegin(c, wf) PROVE ClientMove(c)
  <2> DEFINE new == [IdleClient EXCEPT !.pc = "begun", !.workflow = wf,
                                       !.run = lastRun + 1]
  <2>1. client' = [client EXCEPT ![c] = new] /\ lastRun' = lastRun + 1
        /\ UNCHANGED <<tables, worker, scanner, decided>>
    BY <1>1 DEF StartBegin
  <2>2. new \in ClientState
    <3>1. lastRun + 1 \in 0..MaxRuns
      BY <1>0, <1>1 DEF StartBegin
    <3>2. QED
      BY <1>0, <3>1 DEF ClientState
  <2>3. new.pc = "begun" /\ new.run = lastRun + 1
    BY <1>0 DEF ClientState
  <2> HIDE DEF new
  <2>4. client'[c] = new /\ \A d \in Clients \ {c} : client'[d] = client[d]
    BY <1>0, <2>1
  <2>5. QED
    BY <2>1, <2>2, <2>3, <2>4 DEF ClientMove
<1>2. CASE StartCheck(c)
  BY <1>0, <1>2 DEF StartCheck, ClientMove, ClientState
<1>3. ASSUME NEW r \in 0..MaxRuns, Resolve(c, r),
             r = 0 \/ ~Absent(r) \/ execs[r].workflow \in Workflows
      PROVE  ClientMove(c)
  <2> DEFINE new == [IdleClient EXCEPT !.pc = "resolved", !.run = r]
  <2>1. client' = [client EXCEPT ![c] = new]
        /\ UNCHANGED <<tables, lastRun, worker, scanner, decided>>
    BY <1>3 DEF Resolve
  <2>2. new \in ClientState
    BY <1>0 DEF ClientState
  <2>3. new.pc = "resolved" /\ new.run = r
    BY <1>0 DEF ClientState
  <2> HIDE DEF new
  <2>4. client'[c] = new /\ \A d \in Clients \ {c} : client'[d] = client[d]
    BY <1>0, <2>1
  <2>5. QED
    BY <1>3, <2>1, <2>2, <2>3, <2>4 DEF ClientMove
<1>4. ASSUME NEW r \in Runs, Resolve(c, r), NEW wf \in Workflows,
             IsLatestExecution(r, wf)
      PROVE  ClientMove(c)
  BY <1>0, <1>3, <1>4 DEF IsLatestExecution, Runs
<1>5. ASSUME NEW r \in 0..MaxRuns, SignalRunID(c, r)
      PROVE  ClientMove(c)
  BY <1>3, <1>5 DEF SignalRunID, Absent
<1>6. CASE SignalCheck(c)
  BY <1>0, <1>6 DEF SignalCheck, ClientMove, ClientState
<1>7. CASE SignalRead(c)
  <2>1. client[c].run \in Runs
    BY <1>7 DEF SignalRead, TypeInv, LocalOK
  <2>2. NextEventID(client[c].run) \in Nat
    BY <2>1, NextEventIDType DEF TypeInv, TypeOK, TablesTypeOK
  <2> DEFINE n == NextEventID(client[c].run)
  <2>3. client' = [client EXCEPT ![c] = [client[c] EXCEPT !.pc = "read", !.next = n]]
    BY <1>0, <1>7 DEF SignalRead
  <2>4. client'[c] = [client[c] EXCEPT !.pc = "read", !.next = n]
    BY <1>0, <2>3
  <2>5. client'[c].pc = "read" /\ client'[c].next = n /\ client'[c].run = client[c].run
    BY <1>0, <2>4 DEF ClientState
  <2>6. client'[c] \in ClientState
    BY <1>0, <2>2, <2>4 DEF ClientState
  <2>7. client[c].pc = "running" /\ UNCHANGED <<tables, lastRun, worker, scanner, decided>>
    BY <1>7 DEF SignalRead
  <2>8. \A d \in Clients \ {c} : client'[d] = client[d]
    BY <1>0, <2>3
  <2>9. QED
    BY <2>5, <2>6, <2>7, <2>8 DEF ClientMove
<1>8. CASE SignalEnqueue(c)
  <2> DEFINE b == ~WorkflowTaskExists(client[c].run)
  <2>1. b \in BOOLEAN
    OBVIOUS
  <2>2. client' = [client EXCEPT ![c] = [client[c] EXCEPT !.pc = "enqueued", !.insert = b]]
    BY <1>0, <1>8 DEF SignalEnqueue
  <2> HIDE DEF b
  <2>3. client'[c] = [client[c] EXCEPT !.pc = "enqueued", !.insert = b]
    BY <1>0, <2>2
  <2>4. /\ client'[c].pc = "enqueued" /\ client'[c].next = client[c].next
        /\ client'[c].run = client[c].run
    BY <1>0, <2>3 DEF ClientState
  <2>5. client'[c] \in ClientState
    BY <1>0, <2>1, <2>3 DEF ClientState
  <2>6. client[c].pc = "read" /\ UNCHANGED <<tables, lastRun, worker, scanner, decided>>
    BY <1>8 DEF SignalEnqueue
  <2>7. \A d \in Clients \ {c} : client'[d] = client[d]
    BY <1>0, <2>2
  <2>8. QED
    BY <2>4, <2>5, <2>6, <2>7 DEF ClientMove
<1>9. CASE ClientAbort(c)
  BY <1>0, <1>9 DEF ClientAbort, ClientMove
<1>10. QED
  BY <1>1, <1>2, <1>4, <1>5, <1>6, <1>7, <1>8, <1>9
  DEF ClientNext, SignalWorkflowID

LEMMA WorkerMoves ==
  ASSUME TypeInv, NEW w \in Workers, WorkerNext(w)
  PROVE  \/ WorkerMove(w)
         \/ \E t \in tasks : Poll(w, t)
         \/ DiscardWorkflowTask(w) \/ CommitWorkflowTask(w)
         \/ CommitRetry(w) \/ CommitActivityTask(w)
<1> DEFINE me == worker[w]
<1>0. /\ worker \in [Workers -> WorkerState] /\ me \in WorkerState
      /\ IdleWorker \in WorkerState /\ me.task.run \in Runs
  BY IdleTypes DEF TypeInv, TypeOK, WorkerState, Task
<1>1. Len(events[me.task.run]) \in Nat /\ NextEventID(me.task.run) \in Nat
  BY <1>0, NextEventIDType DEF TypeInv, TypeOK, TablesTypeOK
<1>2. ASSUME NEW new \in WorkerState, worker' = [worker EXCEPT ![w] = new]
      PROVE  worker'[w] = new /\ \A v \in Workers \ {w} : worker'[v] = worker[v]
  BY <1>0, <1>2
<1>3. CASE FetchHistory(w)
  <2> DEFINE new == [me EXCEPT !.pc = "working", !.seen = Len(events[me.task.run])]
  <2>1. new \in WorkerState
    BY <1>0, <1>1 DEF WorkerState
  <2>2. /\ new.pc = "working" /\ new.seen = Len(events[me.task.run])
        /\ new.task = me.task
    BY <1>0 DEF WorkerState
  <2>3. worker' = [worker EXCEPT ![w] = new] /\ me.pc = "polled"
        /\ UNCHANGED <<tables, lastRun, client, scanner, decided>>
    BY <1>3 DEF FetchHistory
  <2> HIDE DEF new
  <2>4. QED
    BY <1>2, <2>1, <2>2, <2>3 DEF WorkerMove
<1>4. CASE ReadEvents(w)
  <2> DEFINE new == [me EXCEPT !.pc = "ready", !.next = NextEventID(me.task.run)]
  <2>1. new \in WorkerState
    BY <1>0, <1>1 DEF WorkerState
  <2>2. /\ new.pc = "ready" /\ new.next = NextEventID(me.task.run)
        /\ new.task = me.task /\ new.seen = me.seen
    BY <1>0 DEF WorkerState
  <2>3. worker' = [worker EXCEPT ![w] = new] /\ me.pc \in {"running", "found"}
        /\ UNCHANGED <<tables, lastRun, client, scanner, decided>>
    BY <1>4 DEF ReadEvents
  <2> HIDE DEF new
  <2>4. QED
    BY <1>2, <2>1, <2>2, <2>3 DEF WorkerMove
<1>5. ASSUME NEW cmds \in CommandLists, CheckRunning(w, cmds) PROVE WorkerMove(w)
  <2> DEFINE pc == IF IsRunning(me.task.run) THEN "running" ELSE "closed"
             new == [me EXCEPT !.cmds = cmds, !.pc = pc]
  <2>1. worker' = [worker EXCEPT ![w] = new] /\ me.pc = "working"
        /\ me.task.kind = "workflow"
        /\ UNCHANGED <<tables, lastRun, client, scanner, decided>>
    BY <1>5 DEF CheckRunning
  <2>2. pc = "running" \/ (pc = "closed" /\ ~IsRunning(me.task.run))
    BY DEF IsRunning
  <2> HIDE DEF pc
  <2>3. new \in WorkerState
    BY <1>0, <2>2 DEF WorkerState
  <2>4. new.pc = pc /\ new.task = me.task /\ new.seen = me.seen
    BY <1>0 DEF WorkerState
  <2> HIDE DEF new
  <2>5. QED
    BY <1>2, <2>1, <2>2, <2>3, <2>4 DEF WorkerMove
<1>6. ASSUME NEW ok \in BOOLEAN, GetTask(w, ok) PROVE WorkerMove(w)
  <2> DEFINE pc == IF ~ok /\ me.task.attempt < MaxAttempts THEN "retry" ELSE "found"
             new == [me EXCEPT !.ok = ok, !.pc = pc]
  <2>1. \/ worker' = [worker EXCEPT ![w] = IdleWorker]
        \/ worker' = [worker EXCEPT ![w] = new]
    BY <1>6 DEF GetTask
  <2>2. me.pc = "working" /\ me.task.kind = "activity"
        /\ UNCHANGED <<tables, lastRun, client, scanner, decided>>
    BY <1>6 DEF GetTask
  <2>3. pc \in {"retry", "found"}
    OBVIOUS
  <2> HIDE DEF pc
  <2>4. new \in WorkerState
    BY <1>0, <2>3 DEF WorkerState
  <2>5. new.pc = pc /\ new.task = me.task /\ new.seen = me.seen
    BY <1>0 DEF WorkerState
  <2> HIDE DEF new
  <2>6. QED
    BY <1>0, <1>2, <2>1, <2>2, <2>3, <2>4, <2>5 DEF WorkerMove
<1>7. CASE Abandon(w)
  BY <1>0, <1>2, <1>7 DEF Abandon, WorkerMove
<1>8. QED
  BY <1>3, <1>4, <1>5, <1>6, <1>7 DEF WorkerNext

-----------------------------------------------------------------------------
(* What the commits insert *)

StartEvents(c) ==
  EventsOf(client[c].run, <<[id |-> 1, type |-> "WorkflowStarted", key |-> 0]>>)

SignalEvents(c) ==
  EventsOf(client[c].run,
           <<[id |-> client[c].next, type |-> "SignalReceived", key |-> 0]>>)

OutcomeType(ok) == IF ok THEN "ActivityCompleted" ELSE "ActivityFailed"

OutcomeEvents(w) ==
  EventsOf(worker[w].task.run,
           <<[id |-> worker[w].next, type |-> OutcomeType(worker[w].ok),
              key |-> worker[w].task.key]>>)

\* The event of command i of worker w's answer.
Decision(w, i) ==
  [id   |-> EventID(worker[w].next, worker[w].cmds, i),
   type |-> Recorded[worker[w].cmds[i].type],
   key  |-> worker[w].cmds[i].key]

DecisionEvents(w) ==
  EventsOf(worker[w].task.run, [i \in 1..Len(worker[w].cmds) |-> Decision(w, i)])

\* Histories grow at the end.
LEMMA Inserted ==
  ASSUME events \in [Runs -> Seq(Event)], NEW new \in [Runs -> Seq(Event)],
         InsertEvents(new), NEW r \in Runs
  PROVE  /\ Len(events[r]) \in Nat /\ Len(new[r]) \in Nat
         /\ Len(events'[r]) = Len(events[r]) + Len(new[r])
         /\ DOMAIN events[r] = 1..Len(events[r])
         /\ DOMAIN new[r] = 1..Len(new[r])
         /\ DOMAIN events'[r] = 1..(Len(events[r]) + Len(new[r]))
         /\ \A i \in DOMAIN events[r] :
              i \in DOMAIN events'[r] /\ events'[r][i] = events[r][i]
         /\ \A i \in DOMAIN new[r] :
              /\ Len(events[r]) + i \in DOMAIN events'[r]
              /\ events'[r][Len(events[r]) + i] = new[r][i]
         /\ \A i \in DOMAIN events'[r] : i \notin DOMAIN events[r] =>
              \E j \in DOMAIN new[r] : /\ i = Len(events[r]) + j
                                       /\ events'[r][i] = new[r][j]
<1> DEFINE old == events[r]
           add == new[r]
           res == events'[r]
<1>1. old \in Seq(Event) /\ add \in Seq(Event) /\ res = old \o add
  BY DEF InsertEvents
<1>2. Len(old) \in Nat /\ Len(add) \in Nat
  BY <1>1, LenProperties
<1>3. DOMAIN old = 1..Len(old) /\ DOMAIN add = 1..Len(add)
  BY <1>1, LenProperties
<1> HIDE DEF old, add
<1>4. /\ res \in Seq(Event)
      /\ Len(res) = Len(old) + Len(add)
      /\ \A i \in 1..Len(old) + Len(add) :
           res[i] = IF i <= Len(old) THEN old[i] ELSE add[i - Len(old)]
  BY <1>1, ConcatProperties
<1> HIDE DEF res
<1>5. DOMAIN res = 1..(Len(old) + Len(add))
  BY <1>4, LenProperties
<1>6. \A i \in 1..Len(old) : i \in DOMAIN res /\ res[i] = old[i]
  BY <1>2, <1>4, <1>5
<1>7. ASSUME NEW i \in 1..Len(add)
      PROVE  Len(old) + i \in DOMAIN res /\ res[Len(old) + i] = add[i]
  <2> DEFINE j == Len(old) + i
  <2>1. j \in 1..Len(old) + Len(add) /\ ~(j <= Len(old)) /\ j - Len(old) = i
    BY <1>2
  <2> HIDE DEF j
  <2>2. j \in DOMAIN res /\ res[j] = add[i]
    BY <1>4, <1>5, <2>1
  <2>3. QED
    BY <2>2 DEF j
<1>8. ASSUME NEW i \in DOMAIN res, i \notin 1..Len(old)
      PROVE  \E j \in 1..Len(add) : i = Len(old) + j /\ res[i] = add[j]
  <2> DEFINE j == i - Len(old)
  <2>1. j \in 1..Len(add) /\ i = Len(old) + j
    BY <1>2, <1>5, <1>8
  <2> HIDE DEF j
  <2>2. QED
    BY <1>7, <2>1
<1>9. QED
  BY <1>2, <1>3, <1>4, <1>5, <1>6, <1>7, <1>8 DEF old, add, res

\* A transaction that writes one event writes it to one run.
LEMMA OneEvent ==
  ASSUME NEW r \in Runs, NEW e \in Event, NEW new, new = EventsOf(r, <<e>>)
  PROVE  /\ new \in [Runs -> Seq(Event)]
         /\ DOMAIN new[r] = {1} /\ new[r][1] = e
         /\ \A q \in Runs \ {r} : new[q] = <<>> /\ DOMAIN new[q] = {}
         /\ \A q \in Runs : \A i \in DOMAIN new[q] : q = r /\ new[q][i] = e
<1>1. new \in [Runs -> Seq(Event)]
  BY OneEventType
<1>2. \A q \in Runs : new[q] = IF q = r THEN <<e>> ELSE <<>>
  BY DEF EventsOf
<1>3. DOMAIN <<e>> = {1} /\ <<e>>[1] = e /\ DOMAIN <<>> = {}
  OBVIOUS
<1>4. QED
  BY <1>1, <1>2, <1>3

\* The events of the transactions that start, signal and report.
LEMMA CommitEvents ==
  ASSUME TypeInv
  PROVE  /\ \A c \in Clients : client[c].pc \notin {"idle", "resolved"} =>
              client[c].run \in Runs
         /\ [id |-> 1, type |-> "WorkflowStarted", key |-> 0] \in Event
         /\ \A c \in Clients :
              [id |-> client[c].next, type |-> "SignalReceived", key |-> 0] \in Event
         /\ \A w \in Workers :
              /\ worker[w].task.run \in Runs
              /\ [id |-> worker[w].next, type |-> OutcomeType(worker[w].ok),
                  key |-> worker[w].task.key] \in Event
<1>1. ASSUME NEW c \in Clients PROVE client[c].next \in Nat
  BY DEF TypeInv, TypeOK, ClientState
<1>2. ASSUME NEW w \in Workers
      PROVE  /\ worker[w].task.run \in Runs /\ worker[w].next \in Nat
             /\ worker[w].task.key \in Keys
  BY DEF TypeInv, TypeOK, WorkerState, Task
<1>3. QED
  BY <1>1, <1>2, KeysAssumption
  DEF TypeInv, LocalOK, Event, EventTypes, WakeTypes, ActivityOutcomes, OutcomeType

\* The events of an answer: one for each command, in their order.
LEMMA Decisions ==
  ASSUME TypeInv, NEW w \in Workers
  PROVE  LET r == worker[w].task.run
             cmds == worker[w].cmds
             new == DecisionEvents(w) IN
         /\ r \in Runs /\ cmds \in Seq(Command) /\ Len(cmds) \in Nat
         /\ new \in [Runs -> Seq(Event)]
         /\ DOMAIN new[r] = 1..Len(cmds) /\ Len(new[r]) = Len(cmds)
         /\ \A i \in 1..Len(cmds) :
              /\ cmds[i] \in Command
              /\ new[r][i] = Decision(w, i) /\ Decision(w, i) \in Event
              /\ Decision(w, i).type = Recorded[cmds[i].type]
              /\ Decision(w, i).key = cmds[i].key
              /\ worker[w].next <= Decision(w, i).id
         /\ \A q \in Runs \ {r} : new[q] = <<>> /\ DOMAIN new[q] = {}
<1> DEFINE r == worker[w].task.run
           cmds == worker[w].cmds
           n == Len(cmds)
           seq == [i \in 1..n |-> Decision(w, i)]
<1>1. /\ r \in Runs /\ cmds \in Seq(Command) /\ worker[w].next \in Nat
  BY CommandsAssumption DEF TypeInv, TypeOK, WorkerState, Task
<1>2. n \in Nat /\ \A i \in 1..n : cmds[i] \in Command
  BY <1>1, LenProperties, ElementOfSeq
<1>3. \A i \in 1..n : /\ EventID(worker[w].next, cmds, i) \in Nat
                      /\ worker[w].next <= EventID(worker[w].next, cmds, i)
  BY <1>1, EventIDBounds
<1>4. ASSUME NEW i \in 1..n
      PROVE  /\ Decision(w, i) \in Event
             /\ Decision(w, i).type = Recorded[cmds[i].type]
             /\ Decision(w, i).key = cmds[i].key
             /\ worker[w].next <= Decision(w, i).id
  BY <1>2, <1>3, RecordedTypes DEF Decision, Command, Event
<1>5. seq \in [1..n -> Event] /\ DOMAIN seq = 1..n /\ \A i \in 1..n : seq[i] = Decision(w, i)
  BY <1>4
<1>6. DecisionEvents(w) = EventsOf(r, seq)
  BY DEF DecisionEvents
<1> HIDE DEF seq
<1>7. seq \in Seq(Event) /\ Len(seq) = n
  BY <1>2, <1>5, SeqOfFunction
<1>8. EventsOf(r, seq) \in [Runs -> Seq(Event)]
  BY <1>1, <1>7, EventsOfType
<1>9. \A q \in Runs : EventsOf(r, seq)[q] = IF q = r THEN seq ELSE <<>>
  BY DEF EventsOf
<1>10. DOMAIN <<>> = {}
  OBVIOUS
<1>11. QED
  BY <1>1, <1>2, <1>4, <1>5, <1>6, <1>7, <1>8, <1>9, <1>10

-----------------------------------------------------------------------------
(* Where a history begins *)

Busy(w) == worker[w].pc # "idle"
Starting(c) == client[c].pc \in {"begun", "checked"}
Signalling(c) == client[c].pc \in {"running", "read", "enqueued"}

\* The run of a StartWorkflow transaction in progress is its alone, and has no
\* row until it commits.
StartsApart ==
  /\ \A c \in Clients : Starting(c) => client[c].run <= lastRun /\ Absent(client[c].run)
  /\ \A c, d \in Clients :
        Starting(c) /\ Starting(d) /\ client[c].run = client[d].run => c = d
  /\ \A r \in Runs : r > lastRun => Absent(r)

\* Everything that names a run names one that has a row.
RowsKnown ==
  /\ \A r \in Runs : Absent(r) => execs[r].workflow \notin Workflows
  /\ \A t \in tasks : ~Absent(t.run)
  /\ \A t \in timers : ~Absent(t.run)

ProcessesKnown ==
  /\ \A w \in Workers : Busy(w) => ~Absent(worker[w].task.run)
  /\ \A c \in Clients : Signalling(c) => ~Absent(client[c].run)
  /\ \A c \in Clients : client[c].pc = "resolved" =>
        client[c].run = 0 \/ ~Absent(client[c].run)

ScansKnown ==
  /\ \A s \in Scanners : \A t \in scanner[s].due : ~Absent(t.run)
  /\ \A s \in Scanners : \A t \in scanner[s].wakes : ~Absent(t.run)
  /\ \A s \in Scanners, r \in Runs : Absent(r) => scanner[s].batch[r] = <<>>

\* len(events) + 1 is more than 1 by the time anything is appended.
PastStart ==
  /\ \A w \in Workers : worker[w].pc = "ready" => worker[w].next > 1
  /\ \A c \in Clients : client[c].pc \in {"read", "enqueued"} => client[c].next > 1
  /\ \A s \in Scanners, r \in Runs : \A i \in DOMAIN scanner[s].batch[r] :
        /\ scanner[s].batch[r][i].id > 1
        /\ scanner[s].batch[r][i].type = "TimerFired"

RunInv ==
  /\ TypeInv
  /\ StartsApart
  /\ RowsKnown /\ ProcessesKnown /\ ScansKnown
  /\ PastStart
  /\ HistoryStartsOnce

LEMMA RunInit == Init => RunInv
<1> SUFFICES ASSUME Init PROVE RunInv
  OBVIOUS
<1>1. TypeInv
  BY TypeInit
<1>2. \A r \in Runs : Absent(r) /\ execs[r].workflow = NoWorkflow /\ events[r] = <<>>
  BY DEF Init, TablesInit, Absent
<1>3. tasks = {} /\ timers = {}
  BY DEF Init, TablesInit
<1>4. \A w \in Workers : worker[w].pc = "idle"
  BY DEF Init, IdleWorker
<1>5. \A c \in Clients : client[c].pc = "idle"
  BY DEF Init, IdleClient
<1>6. \A s \in Scanners : /\ scanner[s].due = {} /\ scanner[s].wakes = {}
                          /\ \A r \in Runs : scanner[s].batch[r] = <<>>
  BY DEF Init, IdleScanner
<1>7. DOMAIN <<>> = {}
  OBVIOUS
<1>8. RowsKnown /\ ProcessesKnown /\ ScansKnown
  BY <1>2, <1>3, <1>4, <1>5, <1>6, WorkflowsAssumption
  DEF RowsKnown, ProcessesKnown, ScansKnown, Busy, Signalling
<1>9. StartsApart /\ PastStart
  BY <1>2, <1>4, <1>5, <1>6, <1>7 DEF StartsApart, PastStart, Starting
<1>10. HistoryStartsOnce
  BY <1>2 DEF HistoryStartsOnce
<1>11. QED
  BY <1>1, <1>8, <1>9, <1>10 DEF RunInv

\* A run with a row has a history, so the next id is at least 2.
LEMMA NextPastStart ==
  ASSUME RunInv, NEW r \in Runs, ~Absent(r)
  PROVE  /\ NextEventID(r) \in Nat /\ NextEventID(r) > 1
         /\ events[r] # <<>> /\ 1 \in DOMAIN events[r]
<1>1. events[r] # <<>> /\ events[r] \in Seq(Event)
  BY DEF RunInv, HistoryStartsOnce, TypeInv, TypeOK, TablesTypeOK
<1>2. Len(events[r]) \in Nat /\ Len(events[r]) # 0 /\ DOMAIN events[r] = 1..Len(events[r])
  BY <1>1, LenProperties, EmptySeq
<1>3. QED
  BY <1>1, <1>2 DEF NextEventID

\* Appending events that are no starts to histories that have begun.
LEMMA AppendedStartsOnce ==
  ASSUME TypeInv, HistoryStartsOnce, NEW new \in [Runs -> Seq(Event)], InsertEvents(new),
         \A r \in Runs : Absent(r)' <=> Absent(r),
         \A r \in Runs : Absent(r) => new[r] = <<>>,
         \A r \in Runs : \A i \in DOMAIN new[r] :
            new[r][i].type # "WorkflowStarted" /\ new[r][i].id > 1
  PROVE  HistoryStartsOnce'
<1> SUFFICES ASSUME NEW r \in Runs
             PROVE  IF Absent(r)' THEN events'[r] = <<>>
                    ELSE /\ events'[r] # <<>>
                         /\ \A i \in DOMAIN events'[r] :
                              IF i = 1 THEN HasType(r, i, {"WorkflowStarted"})' /\ events'[r][i].id = 1
                              ELSE ~HasType(r, i, {"WorkflowStarted"})' /\ events'[r][i].id > 1
  BY DEF HistoryStartsOnce
<1>0. events \in [Runs -> Seq(Event)]
  BY DEF TypeInv, TypeOK, TablesTypeOK
<1>1. CASE Absent(r)
  <2>1. events[r] = <<>> /\ new[r] = <<>> /\ events'[r] = events[r] \o new[r]
    BY <1>0, <1>1 DEF HistoryStartsOnce, InsertEvents
  <2>2. events'[r] = <<>>
    BY <2>1
  <2>3. QED
    BY <1>1, <2>2
<1>2. CASE ~Absent(r)
  <2>1. events[r] # <<>> /\ events[r] \in Seq(Event)
    BY <1>0, <1>2 DEF HistoryStartsOnce
  <2>2. Len(events[r]) # 0
    BY <2>1, EmptySeq
  <2>3. 1 \in DOMAIN events[r] /\ 1 \in DOMAIN events'[r]
    <3>1. /\ Len(events[r]) \in Nat /\ DOMAIN events[r] = 1..Len(events[r])
          /\ \A i \in DOMAIN events[r] : i \in DOMAIN events'[r]
      BY <1>0, Inserted
    <3>2. QED
      BY <2>2, <3>1
  <2>4. events'[r] # <<>>
    BY <2>3
  <2>5. ASSUME NEW i \in DOMAIN events'[r]
        PROVE  IF i = 1 THEN HasType(r, i, {"WorkflowStarted"})' /\ events'[r][i].id = 1
               ELSE ~HasType(r, i, {"WorkflowStarted"})' /\ events'[r][i].id > 1
    <3>1. CASE i \in DOMAIN events[r]
      <4>1. events'[r][i] = events[r][i]
        BY <1>0, <3>1, Inserted
      <4>2. QED
        BY <1>2, <3>1, <4>1 DEF HistoryStartsOnce, HasType
    <3>2. CASE i \notin DOMAIN events[r]
      <4>1. PICK j \in DOMAIN new[r] : events'[r][i] = new[r][j]
        BY <1>0, <3>2, Inserted
      <4>2. QED
        BY <2>3, <3>2, <4>1 DEF HasType
    <3>3. QED
      BY <3>1, <3>2
  <2>6. QED
    BY <1>2, <2>4, <2>5
<1>3. QED
  BY <1>1, <1>2

\* Moves of a client.
LEMMA RunClientMove ==
  ASSUME RunInv, TypeInv', NEW c \in Clients, ClientMove(c)
  PROVE  RunInv'
<1> USE DEF RunInv
<1>1. /\ UNCHANGED <<execs, events, tasks, timers, worker, scanner>>
      /\ \A d \in Clients \ {c} : client'[d] = client[d]
      /\ lastRun \in Nat /\ lastRun' \in Nat /\ lastRun <= lastRun'
  <2>1. lastRun \in Nat /\ lastRun' \in Nat
    BY BoundsAssumption DEF TypeInv, TypeOK
  <2>2. QED
    BY <2>1 DEF ClientMove, tables
<1>2. \A r \in Runs : Absent(r)' <=> Absent(r)
  BY <1>1 DEF Absent
<1>3. \A d \in Clients : client[d].run \in 0..MaxRuns /\ client'[d].run \in 0..MaxRuns
  BY DEF TypeInv, TypeOK, ClientState
<1>4. StartsApart'
  <2>1. ASSUME NEW d \in Clients, Starting(d)'
        PROVE  client'[d].run <= lastRun' /\ Absent(client[d].run)'
               /\ (\/ Starting(d) /\ client'[d].run = client[d].run
                   \/ d = c /\ client'[d].run = lastRun + 1)
    <3>1. CASE d # c
      <4>1. Starting(d) /\ client'[d] = client[d]
        BY <1>1, <2>1, <3>1 DEF Starting
      <4>2. client[d].run <= lastRun /\ Absent(client[d].run)
        BY <4>1 DEF StartsApart
      <4>3. QED
        BY <1>1, <1>3, <4>1, <4>2 DEF Absent
    <3>2. CASE d = c /\ client'[c].pc = "begun"
      <4>1. client'[c].run = lastRun + 1 /\ lastRun' = lastRun + 1
        BY <3>2 DEF ClientMove, IdleClient
      <4>2. lastRun + 1 \in Runs /\ lastRun + 1 > lastRun
        BY <1>1, <1>3, <4>1 DEF Runs
      <4>3. Absent(lastRun + 1)
        BY <4>2 DEF StartsApart
      <4>4. QED
        BY <1>1, <3>2, <4>1, <4>3 DEF Absent
    <3>3. CASE d = c /\ client'[c].pc = "checked"
      <4>1. client[c].pc = "begun" /\ client'[c].run = client[c].run /\ lastRun' = lastRun
        BY <3>3 DEF ClientMove, IdleClient
      <4>2. client[c].run <= lastRun /\ Absent(client[c].run)
        BY <4>1 DEF StartsApart, Starting
      <4>3. QED
        BY <1>1, <3>3, <4>1, <4>2 DEF Absent, Starting
    <3>4. QED
      BY <2>1, <3>1, <3>2, <3>3 DEF Starting
  <2>2. ASSUME NEW d \in Clients, NEW e \in Clients, Starting(d)', Starting(e)',
               client'[d].run = client'[e].run
        PROVE  d = e
    <3>1. \A f \in Clients : Starting(f) => client[f].run <= lastRun
      BY DEF StartsApart
    <3>2. CASE Starting(d) /\ client'[d].run = client[d].run
      <4>1. CASE Starting(e) /\ client'[e].run = client[e].run
        BY <2>2, <3>2, <4>1 DEF StartsApart
      <4>2. CASE client'[e].run = lastRun + 1
        <5>1. client[d].run <= lastRun /\ client[d].run = lastRun + 1
          BY <2>2, <3>1, <3>2, <4>2
        <5>2. client[d].run \in Nat
          BY <1>3
        <5>3. QED
          BY <1>1, <5>1, <5>2
      <4>3. QED
        BY <2>1, <2>2, <4>1, <4>2
    <3>3. CASE d = c /\ client'[d].run = lastRun + 1
      <4>1. CASE Starting(e) /\ client'[e].run = client[e].run
        BY <1>1, <1>3, <2>2, <3>1, <3>3, <4>1
      <4>2. CASE e = c
        BY <3>3, <4>2
      <4>3. QED
        BY <2>1, <2>2, <4>1, <4>2
    <3>4. QED
      BY <2>1, <2>2, <3>2, <3>3
  <2>3. \A r \in Runs : r > lastRun' => Absent(r)'
    BY <1>1, <1>2 DEF StartsApart, Runs
  <2>4. QED
    BY <2>1, <2>2, <2>3 DEF StartsApart
<1>5. RowsKnown' /\ ScansKnown'
  BY <1>1, <1>2 DEF RowsKnown, ScansKnown, Absent
<1>6. ProcessesKnown'
  <2>1. \A w \in Workers : Busy(w)' => ~Absent(worker[w].task.run)'
    BY <1>1 DEF ProcessesKnown, Busy, Absent
  <2>2. ASSUME NEW d \in Clients, d # c
        PROVE  /\ Signalling(d)' => ~Absent(client[d].run)'
               /\ client'[d].pc = "resolved" => client'[d].run = 0 \/ ~Absent(client[d].run)'
    BY <1>1, <2>2 DEF ProcessesKnown, Signalling, Absent
  <2>3. /\ Signalling(c)' => ~Absent(client'[c].run)
        /\ client'[c].pc = "resolved" => client'[c].run = 0 \/ ~Absent(client'[c].run)
    <3>1. CASE client'[c].pc = "resolved"
      <4>1. \/ client'[c].run = 0 \/ ~Absent(client'[c].run)
            \/ execs[client'[c].run].workflow \in Workflows
        BY <3>1 DEF ClientMove, IdleClient
      <4>2. client'[c].run # 0 => client'[c].run \in Runs
        BY <1>3 DEF Runs
      <4>3. QED
        BY <3>1, <4>1, <4>2 DEF RowsKnown, Signalling
    <3>2. CASE client'[c].pc \in {"running", "read", "enqueued"}
      <4>1. /\ client'[c].run = client[c].run
            /\ Signalling(c) \/ (client[c].pc = "resolved" /\ client[c].run # 0)
        BY <3>2 DEF ClientMove, IdleClient, Signalling
      <4>2. QED
        BY <3>2, <4>1 DEF ProcessesKnown
    <3>3. QED
      BY <3>1, <3>2 DEF Signalling
  <2>4. QED
    BY <1>1, <2>1, <2>2, <2>3 DEF ProcessesKnown, Absent
<1>7. PastStart'
  <2>1. ASSUME client'[c].pc \in {"read", "enqueued"} PROVE client'[c].next > 1
    <3>1. CASE client'[c].pc = "read"
      <4>1. client'[c].next = NextEventID(client'[c].run) /\ client'[c].run = client[c].run
            /\ client[c].pc = "running"
        BY <3>1 DEF ClientMove, IdleClient
      <4>2. client[c].run \in Runs /\ ~Absent(client[c].run)
        BY <4>1 DEF ProcessesKnown, Signalling, TypeInv, LocalOK
      <4>3. QED
        BY <4>1, <4>2, NextPastStart
    <3>2. CASE client'[c].pc = "enqueued"
      BY <3>2 DEF ClientMove, IdleClient, PastStart
    <3>3. QED
      BY <2>1, <3>1, <3>2
  <2>2. QED
    BY <1>1, <2>1 DEF PastStart
<1>8. HistoryStartsOnce'
  BY <1>1 DEF HistoryStartsOnce, Absent, HasType
<1>9. QED
  BY <1>4, <1>5, <1>6, <1>7, <1>8

\* StartWorkflow commits: its run gets a row and its first event.
LEMMA RunStart ==
  ASSUME RunInv, TypeInv', NEW c \in Clients, StartCommit(c)
  PROVE  RunInv'
<1> USE DEF RunInv
<1> DEFINE e == [id |-> 1, type |-> "WorkflowStarted", key |-> 0]
<1>0. events \in [Runs -> Seq(Event)]
  BY DEF TypeInv, TypeOK, TablesTypeOK
<1>a. PICK r \in Runs : r = client[c].run
  BY CommitEvents DEF StartCommit
<1>1. /\ client[c].pc = "checked"
      /\ execs' = [execs EXCEPT ![r] = [workflow |-> client[c].workflow, status |-> "Running"]]
      /\ InsertEvents(StartEvents(c))
      /\ tasks' = tasks \cup {WorkflowTask(serial + 1, r, 1)}
      /\ client' = [client EXCEPT ![c] = IdleClient]
      /\ UNCHANGED <<timers, lastRun, worker, scanner>>
  BY <1>a DEF StartCommit, InsertWorkflowExecution, StartEvents
<1>2. r \in Runs /\ Absent(r) /\ r <= lastRun /\ events[r] = <<>>
  BY <1>a, <1>1 DEF StartsApart, Starting, HistoryStartsOnce
<1>3. /\ DOMAIN StartEvents(c)[r] = {1} /\ StartEvents(c)[r][1] = e
      /\ \A q \in Runs \ {r} : StartEvents(c)[q] = <<>>
      /\ StartEvents(c) \in [Runs -> Seq(Event)]
  BY <1>a, <1>2, CommitEvents, OneEvent DEF StartEvents
<1>4. /\ ~Absent(r)' /\ \A q \in Runs \ {r} : Absent(q)' <=> Absent(q)
      /\ \A q \in Runs \ {r} : execs'[q] = execs[q]
  BY <1>1, <1>2 DEF TypeInv, TypeOK, TablesTypeOK, Absent
<1>5. /\ \A d \in Clients \ {c} : client'[d] = client[d]
      /\ client'[c].pc = "idle"
  BY <1>1 DEF TypeInv, TypeOK, IdleClient
<1> HIDE DEF e
<1>6. StartsApart'
  <2>1. ASSUME NEW d \in Clients, Starting(d)'
        PROVE  d # c /\ Starting(d) /\ client'[d] = client[d]
               /\ client'[d].run <= lastRun' /\ Absent(client[d].run)'
    <3>1. d # c
      BY <1>5, <2>1 DEF Starting
    <3>2. client'[d] = client[d] /\ Starting(d)
      BY <1>5, <2>1, <3>1 DEF Starting
    <3>3. client[d].run # r
      BY <1>a, <1>1, <3>1, <3>2 DEF StartsApart, Starting
    <3>4. client[d].run \in Runs
      BY <3>2, CommitEvents DEF Starting
    <3>5. QED
      BY <1>1, <1>4, <3>1, <3>2, <3>3, <3>4 DEF StartsApart, Absent
  <2>2. \A q \in Runs : q > lastRun' => Absent(q)'
    <3>1. lastRun \in Nat /\ r \in Nat
      BY <1>2, BoundsAssumption DEF TypeInv, TypeOK, Runs
    <3>2. QED
      BY <1>1, <1>2, <1>4, <3>1 DEF StartsApart, Runs
  <2>3. QED
    BY <2>1, <2>2 DEF StartsApart
<1>7. RowsKnown'
  <2>1. \A q \in Runs : Absent(q)' => execs'[q].workflow \notin Workflows
    BY <1>4 DEF RowsKnown
  <2>2. WorkflowTask(serial + 1, r, 1).run = r
    BY DEF WorkflowTask
  <2>3. \A t \in tasks : ~Absent(t.run)' /\ t.run \in Runs
    BY <1>4 DEF RowsKnown, TypeInv, TypeOK, TablesTypeOK, Task
  <2>4. \A t \in timers : ~Absent(t.run)' /\ t.run \in Runs
    BY <1>4 DEF RowsKnown, TypeInv, TypeOK, TablesTypeOK, Timer
  <2>5. QED
    BY <1>1, <1>4, <2>1, <2>2, <2>3, <2>4 DEF RowsKnown
<1>8. ProcessesKnown'
  <2>1. ASSUME NEW q \in Runs, ~Absent(q) PROVE ~Absent(q)'
    BY <1>4, <2>1
  <2>2. \A w \in Workers : Busy(w)' => ~Absent(worker[w].task.run)'
    BY <1>1, <2>1, CommitEvents DEF ProcessesKnown, Busy, Absent
  <2>3. ASSUME NEW d \in Clients
        PROVE  /\ Signalling(d)' => ~Absent(client[d].run)'
               /\ client'[d].pc = "resolved" => client'[d].run = 0 \/ ~Absent(client[d].run)'
    <3>1. CASE d = c
      BY <1>5, <3>1 DEF Signalling
    <3>2. CASE d # c
      <4>1. client'[d] = client[d]
        BY <1>5, <3>2
      <4>2. client[d].run # 0 => client[d].run \in Runs
        BY DEF TypeInv, TypeOK, ClientState, Runs
      <4>3. Signalling(d) => client[d].run \in Runs
        BY CommitEvents DEF Signalling
      <4>4. QED
        BY <2>1, <4>1, <4>2, <4>3 DEF ProcessesKnown, Signalling, Absent
    <3>3. QED
      BY <3>1, <3>2
  <2>4. QED
    BY <2>2, <2>3 DEF ProcessesKnown
<1>9. ScansKnown'
  <2>1. \A s \in Scanners : \A t \in scanner[s].due : t.run \in Runs
    BY DEF TypeInv, TypeOK, ScannerState, Timer
  <2>2. \A s \in Scanners : \A t \in scanner[s].wakes : t.run \in Runs
    BY DEF TypeInv, TypeOK, ScannerState, Task
  <2>3. QED
    BY <1>1, <1>4, <2>1, <2>2 DEF ScansKnown
<1>10. PastStart'
  BY <1>1, <1>5 DEF PastStart
<1>11. HistoryStartsOnce'
  <2>1. \A q \in Runs \ {r} : events'[q] = events[q]
    <3>1. \A q \in Runs \ {r} : events'[q] = events[q] \o <<>> /\ events[q] \in Seq(Event)
      BY <1>0, <1>1, <1>3 DEF InsertEvents
    <3>2. QED
      BY <3>1, ConcatEmptySeq
  <2>2. DOMAIN events'[r] = {1} /\ events'[r][1] = e
    <3>1. StartEvents(c)[r] \in Seq(Event) /\ events'[r] = <<>> \o StartEvents(c)[r]
      BY <1>1, <1>2, <1>3 DEF InsertEvents
    <3>2. events'[r] = StartEvents(c)[r]
      BY <3>1, ConcatEmptySeq
    <3>3. QED
      BY <1>3, <3>2
  <2>3. events'[r] # <<>>
    BY <2>2
  <2>4. e.type = "WorkflowStarted" /\ e.id = 1
    BY DEF e
  <2>5. ASSUME NEW q \in Runs, q # r
        PROVE  IF Absent(q)' THEN events'[q] = <<>>
               ELSE /\ events'[q] # <<>>
                    /\ \A i \in DOMAIN events'[q] :
                         IF i = 1 THEN HasType(q, i, {"WorkflowStarted"})' /\ events'[q][i].id = 1
                         ELSE ~HasType(q, i, {"WorkflowStarted"})' /\ events'[q][i].id > 1
    BY <1>4, <2>1, <2>5 DEF HistoryStartsOnce, HasType
  <2>6. QED
    BY <1>4, <2>2, <2>3, <2>4, <2>5 DEF HistoryStartsOnce, HasType
<1>12. QED
  BY <1>6, <1>7, <1>8, <1>9, <1>10, <1>11

\* Every other step starts no run, and leaves alone or ends what clients do.
LEMMA RunFrame ==
  ASSUME RunInv, TypeInv', HistoryStartsOnce', UNCHANGED lastRun,
         \A r \in Runs : (Absent(r)' <=> Absent(r)) /\ execs'[r].workflow = execs[r].workflow,
         \A c \in Clients : client'[c] = client[c] \/ client'[c] = IdleClient,
         \A t \in tasks' : ~Absent(t.run),
         \A t \in timers' : ~Absent(t.run),
         \A w \in Workers : worker'[w].pc # "idle" => ~Absent(worker'[w].task.run),
         \A w \in Workers : worker'[w].pc = "ready" => worker'[w].next > 1,
         \A s \in Scanners : \A t \in scanner'[s].due : ~Absent(t.run),
         \A s \in Scanners : \A t \in scanner'[s].wakes : ~Absent(t.run),
         \A s \in Scanners, r \in Runs : Absent(r) => scanner'[s].batch[r] = <<>>,
         \A s \in Scanners, r \in Runs : \A i \in DOMAIN scanner'[s].batch[r] :
            /\ scanner'[s].batch[r][i].id > 1
            /\ scanner'[s].batch[r][i].type = "TimerFired"
  PROVE  RunInv'
<1> USE DEF RunInv
<1>1. /\ \A t \in tasks' : t.run \in Runs
      /\ \A t \in timers' : t.run \in Runs
      /\ \A w \in Workers : worker'[w].task.run \in Runs
      /\ \A s \in Scanners : /\ \A t \in scanner'[s].due : t.run \in Runs
                             /\ \A t \in scanner'[s].wakes : t.run \in Runs
  BY DEF TypeInv, TypeOK, TablesTypeOK, WorkerState, ScannerState, Task, Timer
<1>2. IdleClient.pc = "idle"
  BY DEF IdleClient
<1>3. \A c \in Clients : client'[c] = client[c] \/ client'[c].pc = "idle"
  BY <1>2
<1>4. /\ \A c \in Clients : client[c].pc \notin {"idle", "resolved"} => client[c].run \in Runs
      /\ \A c \in Clients : client[c].run # 0 => client[c].run \in Runs
  BY CommitEvents DEF TypeInv, TypeOK, ClientState, Runs
<1>5. StartsApart'
  <2>1. ASSUME NEW c \in Clients, Starting(c)'
        PROVE  /\ Starting(c) /\ client'[c] = client[c]
               /\ client'[c].run <= lastRun' /\ Absent(client[c].run)'
    <3>1. client'[c] = client[c] /\ Starting(c)
      BY <1>3, <2>1 DEF Starting
    <3>2. client[c].run \in Runs
      BY <1>4, <3>1 DEF Starting
    <3>3. QED
      BY <3>1, <3>2 DEF StartsApart, Absent
  <2>2. QED
    BY <2>1 DEF StartsApart
<1>6. RowsKnown'
  BY <1>1 DEF RowsKnown, Absent
<1>7. ProcessesKnown'
  <2>1. \A w \in Workers : Busy(w)' => ~Absent(worker[w].task.run)'
    BY <1>1 DEF Busy, Absent
  <2>2. ASSUME NEW c \in Clients
        PROVE  /\ Signalling(c)' => ~Absent(client[c].run)'
               /\ client'[c].pc = "resolved" => client'[c].run = 0 \/ ~Absent(client[c].run)'
    BY <1>3, <1>4 DEF ProcessesKnown, Signalling, Absent
  <2>3. QED
    BY <2>1, <2>2 DEF ProcessesKnown
<1>8. ScansKnown'
  BY <1>1 DEF ScansKnown
<1>9. PastStart'
  BY <1>3 DEF PastStart
<1>10. QED
  BY <1>5, <1>6, <1>7, <1>8, <1>9

\* Steps that write neither executions nor events.
LEMMA RunQuiet ==
  ASSUME RunInv, TypeInv', UNCHANGED <<execs, events, lastRun, client>>,
         \A t \in tasks' : ~Absent(t.run),
         \A t \in timers' : ~Absent(t.run),
         \A w \in Workers : worker'[w].pc # "idle" => ~Absent(worker'[w].task.run),
         \A w \in Workers : worker'[w].pc = "ready" => worker'[w].next > 1,
         \A s \in Scanners : \A t \in scanner'[s].due : ~Absent(t.run),
         \A s \in Scanners : \A t \in scanner'[s].wakes : ~Absent(t.run),
         \A s \in Scanners, r \in Runs : Absent(r) => scanner'[s].batch[r] = <<>>,
         \A s \in Scanners, r \in Runs : \A i \in DOMAIN scanner'[s].batch[r] :
            /\ scanner'[s].batch[r][i].id > 1
            /\ scanner'[s].batch[r][i].type = "TimerFired"
  PROVE  RunInv'
<1>1. HistoryStartsOnce'
  BY DEF RunInv, HistoryStartsOnce, HasType, Absent
<1>2. \A r \in Runs : (Absent(r)' <=> Absent(r)) /\ execs'[r].workflow = execs[r].workflow
  BY DEF Absent
<1>3. QED
  BY <1>1, <1>2, RunFrame

-----------------------------------------------------------------------------
(* What UPDATE statements leave alone *)

\* t is u but for the lease and the visibility time.
SameTask(t, u) ==
  /\ t.id = u.id /\ t.kind = u.kind /\ t.run = u.run
  /\ t.sched = u.sched /\ t.key = u.key

LEMMA LeaseRows ==
  ASSUME tasks \subseteq Task, NEW rows, NEW b \in BOOLEAN
  PROVE  /\ \A t \in SetLease(rows, b) : \E u \in tasks : SameTask(t, u)
         /\ \A u \in tasks : \E t \in SetLease(rows, b) : SameTask(t, u)
<1>1. \A u \in Task : SameTask([u EXCEPT !.leased = b], u) /\ SameTask(u, u)
  BY DEF Task, SameTask
<1>2. QED
  BY <1>1 DEF SetLease

\* t is u, once a scan that set the state of the rows ids has committed.
FiredRow(t, u, ids) ==
  /\ t.id = u.id /\ t.run = u.run /\ t.key = u.key
  /\ t.state = IF u.id \in ids THEN "fired" ELSE u.state

LEMMA FiredRows ==
  ASSUME timers \subseteq Timer, NEW ids
  PROVE  /\ \A t \in MarkTimerFired(ids) : \E u \in timers : FiredRow(t, u, ids)
         /\ \A u \in timers : \E t \in MarkTimerFired(ids) : FiredRow(t, u, ids)
<1>1. \A u \in Timer : /\ u.id \in ids => FiredRow([u EXCEPT !.state = "fired"], u, ids)
                       /\ u.id \notin ids => FiredRow(u, u, ids)
  BY DEF Timer, FiredRow
<1>2. QED
  BY <1>1 DEF MarkTimerFired

LEMMA NewRows ==
  ASSUME NEW n, NEW r, NEW s, NEW k, NEW a, NEW h
  PROVE  /\ WorkflowTask(n, r, s).id = n /\ WorkflowTask(n, r, s).run = r
         /\ WorkflowTask(n, r, s).kind = "workflow"
         /\ ActivityTask(n, r, s, k, a, h).id = n /\ ActivityTask(n, r, s, k, a, h).run = r
         /\ ActivityTask(n, r, s, k, a, h).kind = "activity"
         /\ ActivityTask(n, r, s, k, a, h).sched = s
         /\ ActivityTask(n, r, s, k, a, h).key = k
         /\ TimerRow(n, r, k).id = n /\ TimerRow(n, r, k).run = r
         /\ TimerRow(n, r, k).key = k /\ TimerRow(n, r, k).state = "waiting"
BY DEF WorkflowTask, ActivityTask, TimerRow

\* What CompleteWorkflowTask does to the tables.
LEMMA DecisionCommit ==
  ASSUME TypeInv, NEW w \in Workers, CommitWorkflowTask(w)
  PROVE  LET me == worker[w]
             r == me.task.run IN
         /\ me.pc = "ready" /\ me.task.kind = "workflow"
         /\ InsertEvents(DecisionEvents(w))
         /\ \A q \in Runs \ {r} : execs'[q] = execs[q]
         /\ execs'[r].workflow = execs[r].workflow
         /\ execs'[r].status = StatusAfter(execs[r].status, me.cmds)
         /\ execs'[r].status \in {execs[r].status, "Completed", "Failed"}
         /\ \A t \in tasks' :
              \/ t \in tasks /\ t.id # me.task.id
              \/ /\ t.kind = "activity" /\ t.run = r
                 /\ \E i \in 1..Len(me.cmds) :
                      /\ me.cmds[i].type = "ScheduleActivity"
                      /\ t.id = serial + i /\ t.sched = Decision(w, i).id
                      /\ t.key = me.cmds[i].key
         /\ \A t \in tasks : t.id # me.task.id => t \in tasks'
         /\ \A i \in 1..Len(me.cmds) : me.cmds[i].type = "ScheduleActivity" =>
              \E t \in tasks' : /\ t.kind = "activity" /\ t.run = r
                                /\ t.sched = Decision(w, i).id
                                /\ t.key = me.cmds[i].key
         /\ timers \subseteq timers'
         /\ \A t \in timers' : t \in timers \/
              /\ t.run = r /\ t.state = "waiting"
              /\ \E i \in 1..Len(me.cmds) :
                   /\ me.cmds[i].type = "StartTimer"
                   /\ t.id = serial + i /\ t.key = me.cmds[i].key
<1> DEFINE me == worker[w]
           r == me.task.run
           n == Len(me.cmds)
           id(i) == EventID(me.next, me.cmds, i)
           act(i) == ActivityTask(serial + i, r, id(i), me.cmds[i].key, 1, FALSE)
           row(i) == TimerRow(serial + i, r, me.cmds[i].key)
           A == CommandsOf("ScheduleActivity", me.cmds)
           T == CommandsOf("StartTimer", me.cmds)
<1>1. /\ me.pc = "ready" /\ me.task.kind = "workflow"
      /\ UpdateWorkflowStatus(r, StatusAfter(execs[r].status, me.cmds))
      /\ tasks' = CompleteTask(me.task.id) \cup {act(i) : i \in A}
      /\ timers' = timers \cup {row(i) : i \in T}
  BY DEF CommitWorkflowTask
<1>2. InsertEvents(DecisionEvents(w))
  BY DEF CommitWorkflowTask, DecisionEvents, Decision
<1>3. \A i : /\ act(i).id = serial + i /\ act(i).kind = "activity" /\ act(i).run = r
             /\ act(i).sched = Decision(w, i).id /\ act(i).key = me.cmds[i].key
             /\ row(i).id = serial + i /\ row(i).run = r
             /\ row(i).key = me.cmds[i].key /\ row(i).state = "waiting"
  BY DEF Decision, ActivityTask, TimerRow
<1>4. /\ A = {i \in 1..n : me.cmds[i].type = "ScheduleActivity"}
      /\ T = {i \in 1..n : me.cmds[i].type = "StartTimer"}
  BY DEF CommandsOf
<1> HIDE DEF act, row, A, T
<1>5. /\ \A q \in Runs \ {r} : execs'[q] = execs[q]
      /\ execs'[r].workflow = execs[r].workflow
      /\ execs'[r].status = StatusAfter(execs[r].status, me.cmds)
  <2> DEFINE status == StatusAfter(execs[r].status, me.cmds)
  <2>1. r \in Runs /\ execs \in [Runs -> Execution]
    BY CommitEvents DEF TypeInv, TypeOK, TablesTypeOK
  <2>2. execs' = [execs EXCEPT ![r] = [execs[r] EXCEPT !.status = status]]
    BY <1>1, <2>1 DEF UpdateWorkflowStatus
  <2> HIDE DEF status, r
  <2>3. QED
    BY <2>1, <2>2 DEF status, Execution
<1>6. StatusAfter(execs[r].status, me.cmds) \in {execs[r].status, "Completed", "Failed"}
  BY DEF StatusAfter
<1>7. \A t \in tasks' :
        \/ t \in tasks /\ t.id # me.task.id
        \/ \E i \in 1..n : me.cmds[i].type = "ScheduleActivity" /\ t = act(i)
  BY <1>1, <1>4 DEF CompleteTask
<1>8. /\ \A t \in tasks : t.id # me.task.id => t \in tasks'
      /\ \A i \in 1..n : me.cmds[i].type = "ScheduleActivity" => act(i) \in tasks'
  BY <1>1, <1>4 DEF CompleteTask
<1>9. /\ timers \subseteq timers'
      /\ \A t \in timers' :
           t \in timers \/ \E i \in 1..n : me.cmds[i].type = "StartTimer" /\ t = row(i)
  BY <1>1, <1>4
<1> HIDE DEF id
<1>10. \A t \in tasks' :
         \/ t \in tasks /\ t.id # me.task.id
         \/ /\ t.kind = "activity" /\ t.run = r
            /\ \E i \in 1..n : /\ me.cmds[i].type = "ScheduleActivity"
                              /\ t.id = serial + i /\ t.sched = Decision(w, i).id
                              /\ t.key = me.cmds[i].key
  BY ONLY <1>3, <1>7
<1>11. \A i \in 1..n : me.cmds[i].type = "ScheduleActivity" =>
         \E t \in tasks' : /\ t.kind = "activity" /\ t.run = r
                          /\ t.sched = Decision(w, i).id /\ t.key = me.cmds[i].key
  BY ONLY <1>3, <1>8
<1>12. \A t \in timers' : t \in timers \/
         /\ t.run = r /\ t.state = "waiting"
         /\ \E i \in 1..n : /\ me.cmds[i].type = "StartTimer"
                           /\ t.id = serial + i /\ t.key = me.cmds[i].key
  BY ONLY <1>3, <1>9
<1>13. execs'[r].status \in {execs[r].status, "Completed", "Failed"}
  BY ONLY <1>5, <1>6
<1>14. me.pc = "ready" /\ me.task.kind = "workflow"
  BY ONLY <1>1
<1>15. (\A t \in tasks : t.id # me.task.id => t \in tasks') /\ timers \subseteq timers'
  BY ONLY <1>8, <1>9
<1> HIDE DEF r, n
<1>16. QED
  BY ONLY <1>2, <1>5, <1>10, <1>11, <1>12, <1>13, <1>14, <1>15 DEF r, n

-----------------------------------------------------------------------------
(* Every step keeps the beginning of a history *)

\* Signals are appended to runs that have a row.
LEMMA RunSignal ==
  ASSUME RunInv, TypeInv', NEW c \in Clients, SignalCommit(c)
  PROVE  RunInv'
<1> USE DEF RunInv
<1>1. /\ client[c].pc = "enqueued"
      /\ InsertEvents(SignalEvents(c))
      /\ \/ tasks' = tasks
         \/ tasks' = tasks \cup {WorkflowTask(serial + 1, client[c].run, client[c].next)}
      /\ client' = [client EXCEPT ![c] = IdleClient]
      /\ UNCHANGED <<execs, timers, lastRun, worker, scanner>>
  BY DEF SignalCommit, SignalEvents
<1>2. client[c].run \in Runs /\ ~Absent(client[c].run) /\ client[c].next > 1
  BY <1>1, CommitEvents DEF ProcessesKnown, Signalling, PastStart
<1>3. /\ SignalEvents(c) \in [Runs -> Seq(Event)]
      /\ \A q \in Runs \ {client[c].run} : SignalEvents(c)[q] = <<>>
      /\ \A q \in Runs : \A i \in DOMAIN SignalEvents(c)[q] :
           SignalEvents(c)[q][i].type # "WorkflowStarted" /\ SignalEvents(c)[q][i].id > 1
  BY <1>2, CommitEvents, OneEvent DEF SignalEvents
<1>4. \A r \in Runs : Absent(r)' <=> Absent(r)
  BY <1>1 DEF Absent
<1>5. HistoryStartsOnce'
  BY <1>1, <1>2, <1>3, <1>4, AppendedStartsOnce
<1>6. \A t \in tasks' : ~Absent(t.run)
  BY <1>1, <1>2, NewRows DEF RowsKnown
<1>7. \A d \in Clients : client'[d] = client[d] \/ client'[d] = IdleClient
  BY <1>1 DEF TypeInv, TypeOK
<1>8. QED
  BY <1>1, <1>4, <1>5, <1>6, <1>7, RunFrame
  DEF RowsKnown, ProcessesKnown, Busy, ScansKnown, PastStart

\* Steps of a worker.
LEMMA RunWorker ==
  ASSUME RunInv, TypeInv', NEW w \in Workers, WorkerNext(w)
  PROVE  RunInv'
<1> USE DEF RunInv
<1>0. /\ worker \in [Workers -> WorkerState] /\ tasks \subseteq Task
      /\ worker[w].task.run \in Runs /\ IdleWorker.pc = "idle"
  BY CommitEvents DEF TypeInv, TypeOK, TablesTypeOK, IdleWorker
<1>a. /\ \A t \in tasks : ~Absent(t.run)
      /\ \A t \in timers : ~Absent(t.run)
      /\ \A v \in Workers : worker[v].pc # "idle" => ~Absent(worker[v].task.run)
      /\ \A v \in Workers : worker[v].pc = "ready" => worker[v].next > 1
      /\ \A s \in Scanners : \A t \in scanner[s].due : ~Absent(t.run)
      /\ \A s \in Scanners : \A t \in scanner[s].wakes : ~Absent(t.run)
      /\ \A s \in Scanners, r \in Runs : Absent(r) => scanner[s].batch[r] = <<>>
      /\ \A s \in Scanners, r \in Runs : \A i \in DOMAIN scanner[s].batch[r] :
            /\ scanner[s].batch[r][i].id > 1
            /\ scanner[s].batch[r][i].type = "TimerFired"
  BY DEF RowsKnown, ProcessesKnown, ScansKnown, PastStart, Busy
<1>1. CASE WorkerMove(w)
  <2>1. /\ UNCHANGED <<execs, events, tasks, timers, lastRun, client, scanner>>
        /\ \A v \in Workers \ {w} : worker'[v] = worker[v]
    BY <1>1 DEF WorkerMove, tables
  <2>2. worker'[w].pc # "idle" => ~Absent(worker'[w].task.run)
    BY <1>0, <1>a, <1>1 DEF WorkerMove
  <2>3. ASSUME worker'[w].pc = "ready" PROVE worker'[w].next > 1
    <3>1. /\ worker'[w].next = NextEventID(worker'[w].task.run)
          /\ worker'[w].task = worker[w].task
      BY <1>0, <1>1, <2>3 DEF WorkerMove
    <3>2. ~Absent(worker[w].task.run)
      BY <2>2, <2>3, <3>1
    <3>3. QED
      BY <1>0, <3>1, <3>2, NextPastStart
  <2>4. QED
    BY <1>a, <2>1, <2>2, <2>3, RunQuiet
<1>2. ASSUME NEW t \in tasks, Poll(w, t) PROVE RunInv'
  <2>1. /\ UNCHANGED <<execs, events, timers, lastRun, client, scanner>>
        /\ tasks' = SetLease({t}, TRUE)
    BY <1>2 DEF Poll
  <2>2. /\ \A v \in Workers \ {w} : worker'[v] = worker[v]
        /\ worker'[w].task = t /\ worker'[w].pc # "ready"
    <3> DEFINE pc == IF t.kind = "workflow" THEN "polled" ELSE "working"
               new == [IdleWorker EXCEPT !.pc = pc, !.task = t]
    <3>1. worker' = [worker EXCEPT ![w] = new]
      BY <1>2 DEF Poll
    <3>2. new.task = t /\ new.pc # "ready"
      BY IdleTypes DEF WorkerState
    <3> HIDE DEF new
    <3>3. QED
      BY <1>0, <3>1, <3>2
  <2>3. \A u \in tasks' : ~Absent(u.run)
    <3>1. \A u \in SetLease({t}, TRUE) : \E v \in tasks : SameTask(u, v)
      BY <1>0, LeaseRows
    <3>2. QED
      BY <1>a, <2>1, <3>1 DEF SameTask
  <2>4. QED
    BY <1>a, <2>1, <2>2, <2>3, RunQuiet
<1>3. ASSUME worker' = [worker EXCEPT ![w] = IdleWorker]
      PROVE  /\ \A v \in Workers : worker'[v].pc # "idle" => ~Absent(worker'[v].task.run)
             /\ \A v \in Workers : worker'[v].pc = "ready" => worker'[v].next > 1
  <2>1. \A v \in Workers : worker'[v] = worker[v] \/ worker'[v].pc = "idle"
    BY <1>0, <1>3
  <2>2. QED
    BY <1>a, <2>1
<1>4. CASE DiscardWorkflowTask(w)
  <2>1. /\ UNCHANGED <<execs, events, timers, lastRun, client, scanner>>
        /\ tasks' \subseteq tasks /\ worker' = [worker EXCEPT ![w] = IdleWorker]
    BY <1>4 DEF DiscardWorkflowTask, CompleteTask
  <2>2. QED
    BY <1>a, <1>3, <2>1, RunQuiet
<1>5. CASE CommitRetry(w)
  <2>1. /\ UNCHANGED <<execs, events, timers, lastRun, client, scanner>>
        /\ \A t \in tasks' : t \in tasks \/ t.run = worker[w].task.run
        /\ worker' = [worker EXCEPT ![w] = IdleWorker] /\ worker[w].pc # "idle"
    <3> DEFINE t == worker[w].task
               new == ActivityTask(serial + 1, t.run, t.sched, t.key, t.attempt + 1, TRUE)
    <3>1. new.run = t.run
      BY DEF ActivityTask
    <3>2. tasks' = CompleteTask(t.id) \cup {new}
      BY <1>5 DEF CommitRetry
    <3> HIDE DEF new
    <3>3. \A u \in tasks' : u \in tasks \/ u.run = t.run
      BY <3>1, <3>2 DEF CompleteTask
    <3>4. QED
      BY <1>5, <3>3 DEF CommitRetry
  <2>2. \A t \in tasks' : ~Absent(t.run)
    BY <1>a, <2>1
  <2>3. QED
    BY <1>a, <1>3, <2>1, <2>2, RunQuiet
<1>6. CASE CommitActivityTask(w)
  <2>1. /\ UNCHANGED <<execs, timers, lastRun, client, scanner>>
        /\ InsertEvents(OutcomeEvents(w))
        /\ \A t \in tasks' : t \in tasks \/ t.run = worker[w].task.run
        /\ worker' = [worker EXCEPT ![w] = IdleWorker] /\ worker[w].pc = "ready"
    <3> DEFINE t == worker[w].task
               new == WorkflowTask(serial + 1, t.run, worker[w].next)
    <3>1. /\ UNCHANGED <<execs, timers, lastRun, client, scanner>>
          /\ InsertEvents(OutcomeEvents(w))
          /\ worker' = [worker EXCEPT ![w] = IdleWorker] /\ worker[w].pc = "ready"
      BY <1>6 DEF CommitActivityTask, OutcomeEvents, OutcomeType
    <3>2. new.run = t.run
      BY NewRows
    <3>3. tasks' = CompleteTask(t.id) \cup {new}
      BY <1>6 DEF CommitActivityTask, WakeTask
    <3> HIDE DEF new
    <3>4. \A u \in tasks' : u \in tasks \/ u.run = t.run
      BY <3>2, <3>3 DEF CompleteTask
    <3>5. QED
      BY <3>1, <3>4
  <2>2. ~Absent(worker[w].task.run) /\ worker[w].next > 1
    BY <1>a, <2>1
  <2>3. /\ OutcomeEvents(w) \in [Runs -> Seq(Event)]
        /\ \A q \in Runs \ {worker[w].task.run} : OutcomeEvents(w)[q] = <<>>
        /\ \A q \in Runs : \A i \in DOMAIN OutcomeEvents(w)[q] :
             OutcomeEvents(w)[q][i].type # "WorkflowStarted" /\ OutcomeEvents(w)[q][i].id > 1
    <3>1. PICK e \in Event : /\ e.type # "WorkflowStarted" /\ e.id > 1
                             /\ OutcomeEvents(w) = EventsOf(worker[w].task.run, <<e>>)
      BY <2>2, CommitEvents DEF OutcomeEvents, OutcomeType
    <3>2. PICK q \in Runs : q = worker[w].task.run
      BY <1>a, CommitEvents
    <3>3. PICK new : new = OutcomeEvents(w)
      OBVIOUS
    <3>4. new = EventsOf(q, <<e>>)
      BY <3>1, <3>2, <3>3
    <3>5. /\ new \in [Runs -> Seq(Event)] /\ \A p \in Runs \ {q} : new[p] = <<>>
          /\ \A p \in Runs : \A i \in DOMAIN new[p] : new[p][i] = e
      BY <3>4, OneEvent
    <3>6. QED
      BY ONLY <3>1, <3>2, <3>3, <3>5
  <2>4. \A r \in Runs : Absent(r)' <=> Absent(r)
    BY <2>1 DEF Absent
  <2>5. HistoryStartsOnce'
    BY <2>1, <2>2, <2>3, <2>4, AppendedStartsOnce
  <2>6. \A t \in tasks' : ~Absent(t.run)
    BY <1>a, <2>1, <2>2
  <2>7. QED
    BY <1>a, <1>3, <2>1, <2>4, <2>5, <2>6, RunFrame
<1>7. CASE CommitWorkflowTask(w)
  <2> DEFINE r == worker[w].task.run
  <2>1. /\ UNCHANGED <<lastRun, client, scanner>>
        /\ worker' = [worker EXCEPT ![w] = IdleWorker] /\ worker[w].pc = "ready"
        /\ InsertEvents(DecisionEvents(w))
    BY <1>7, DecisionCommit DEF CommitWorkflowTask
  <2>2. ~Absent(r) /\ worker[w].next > 1 /\ worker[w].next \in Nat
    BY <1>a, <2>1 DEF TypeInv, TypeOK, WorkerState
  <2>3. /\ DecisionEvents(w) \in [Runs -> Seq(Event)]
        /\ \A q \in Runs \ {r} : DecisionEvents(w)[q] = <<>>
        /\ \A q \in Runs : \A i \in DOMAIN DecisionEvents(w)[q] :
             DecisionEvents(w)[q][i].type # "WorkflowStarted" /\ DecisionEvents(w)[q][i].id > 1
    <3>1. ASSUME NEW q \in Runs, NEW i \in DOMAIN DecisionEvents(w)[q]
          PROVE  DecisionEvents(w)[q][i].type # "WorkflowStarted" /\ DecisionEvents(w)[q][i].id > 1
      <4>1. q = r /\ i \in 1..Len(worker[w].cmds)
        BY <3>1, Decisions
      <4>2. /\ DecisionEvents(w)[q][i] = Decision(w, i) /\ Decision(w, i) \in Event
            /\ Decision(w, i).type = Recorded[worker[w].cmds[i].type]
            /\ worker[w].cmds[i] \in Command
            /\ worker[w].next <= Decision(w, i).id
        BY <4>1, Decisions
      <4>3. Decision(w, i).type # "WorkflowStarted"
        BY <4>2 DEF Command, CommandTypes, Recorded
      <4>4. Decision(w, i).id > 1
        BY <2>2, <4>2 DEF Event
      <4>5. QED
        BY <4>2, <4>3, <4>4
    <3>2. QED
      BY <3>1, Decisions
  <2>4. \A q \in Runs : (Absent(q)' <=> Absent(q)) /\ execs'[q].workflow = execs[q].workflow
    BY <1>7, <2>2, DecisionCommit DEF Absent
  <2>5. HistoryStartsOnce'
    BY <2>1, <2>2, <2>3, <2>4, AppendedStartsOnce
  <2>6. (\A t \in tasks' : ~Absent(t.run)) /\ (\A t \in timers' : ~Absent(t.run))
    BY <1>7, <1>a, <2>2, DecisionCommit
  <2>7. QED
    BY <1>a, <1>3, <2>1, <2>4, <2>5, <2>6, RunFrame
<1>8. QED
  BY <1>1, <1>2, <1>4, <1>5, <1>6, <1>7, WorkerMoves

\* One turn of a scan's loop, field by field.
Fired(t) == [id |-> NextEventID(t.run), type |-> "TimerFired", key |-> t.key]

ScanTurn(s, t) ==
  LET me == scanner[s]
      new == scanner'[s] IN
  /\ UNCHANGED <<tables, lastRun, worker, client, decided>>
  /\ \A z \in Scanners \ {s} : scanner'[z] = scanner[z]
  /\ t \in Timer /\ t.run \in Runs /\ NextEventID(t.run) \in Nat /\ Fired(t) \in Event
  /\ IsFiniteSet(me.wakes) /\ Cardinality(me.wakes) \in Nat
  /\ new.due = me.due \ {t} /\ new.fired = me.fired \cup {t.id}
  /\ new.wakes = me.wakes \cup
       {WorkflowTask(Cardinality(me.wakes) + 1, t.run, NextEventID(t.run))}
  /\ \A r \in Runs \ {t.run} : new.batch[r] = me.batch[r]
  /\ new.batch[t.run] = Append(me.batch[t.run], Fired(t))
  /\ \A r \in Runs :
       /\ Len(me.batch[r]) \in Nat /\ DOMAIN me.batch[r] = 1..Len(me.batch[r])
       /\ DOMAIN new.batch[r] = IF r = t.run THEN 1..(Len(me.batch[r]) + 1)
                                ELSE 1..Len(me.batch[r])
       /\ \A i \in DOMAIN me.batch[r] : new.batch[r][i] = me.batch[r][i]
  /\ new.batch[t.run][Len(me.batch[t.run]) + 1] = Fired(t)

LEMMA ScanTurns ==
  ASSUME TypeInv, NEW s \in Scanners, NEW t \in scanner[s].due, ScanTimer(s, t)
  PROVE  ScanTurn(s, t)
<1> DEFINE me == scanner[s]
           n == NextEventID(t.run)
           e == [id |-> n, type |-> "TimerFired", key |-> t.key]
           wakes == me.wakes \cup {WorkflowTask(Cardinality(me.wakes) + 1, t.run, n)}
           b == [me.batch EXCEPT ![t.run] = Append(me.batch[t.run], e)]
           new == [pc |-> "scanning", due |-> me.due \ {t}, fired |-> me.fired \cup {t.id},
                   batch |-> b, wakes |-> wakes]
<1>1. /\ me \in ScannerState /\ scanner \in [Scanners -> ScannerState]
      /\ IsFiniteSet(me.wakes) /\ me.batch \in [Runs -> Seq(Event)]
  BY DEF TypeInv, TypeOK, LocalOK, ScannerState
<1>2. t \in Timer /\ t.run \in Runs /\ t.key \in Keys
  BY <1>1 DEF ScannerState, Timer
<1>3. n \in Nat /\ e \in Event
  BY <1>2, NextEventIDType DEF TypeInv, TypeOK, TablesTypeOK, Event, EventTypes, WakeTypes
<1>4. Cardinality(me.wakes) \in Nat
  BY <1>1, FS_CardinalityType
<1>5. scanner' = [scanner EXCEPT ![s] = new]
      /\ UNCHANGED <<tables, lastRun, worker, client, decided>>
  BY <1>1, <1>2 DEF ScanTimer
<1>6. /\ new.due = me.due \ {t} /\ new.fired = me.fired \cup {t.id}
      /\ new.batch = b /\ new.wakes = wakes
  OBVIOUS
<1> HIDE DEF new, wakes
<1>7. scanner'[s] = new /\ \A z \in Scanners \ {s} : scanner'[z] = scanner[z]
  BY <1>1, <1>5
<1> HIDE DEF e, n
<1>8. /\ \A r \in Runs \ {t.run} : b[r] = me.batch[r]
      /\ b[t.run] = Append(me.batch[t.run], e)
  BY <1>1, <1>2
<1> HIDE DEF b
<1>9. ASSUME NEW seq \in Seq(Event)
      PROVE  /\ Len(seq) \in Nat /\ DOMAIN seq = 1..Len(seq)
             /\ DOMAIN Append(seq, e) = 1..(Len(seq) + 1)
             /\ \A i \in DOMAIN seq : Append(seq, e)[i] = seq[i]
             /\ Append(seq, e)[Len(seq) + 1] = e
  BY <1>3, <1>9, AppendProperties, LenProperties
<1>10. ASSUME NEW r \in Runs
       PROVE  /\ Len(me.batch[r]) \in Nat
              /\ DOMAIN me.batch[r] = 1..Len(me.batch[r])
              /\ DOMAIN b[r] = IF r = t.run THEN 1..(Len(me.batch[r]) + 1)
                               ELSE 1..Len(me.batch[r])
              /\ \A i \in DOMAIN me.batch[r] : b[r][i] = me.batch[r][i]
  <2>1. me.batch[r] \in Seq(Event)
    BY <1>1
  <2>2. CASE r = t.run
    BY <1>8, <1>9, <2>1, <2>2
  <2>3. CASE r # t.run
    BY <1>8, <1>9, <2>1, <2>3
  <2>4. QED
    BY <2>2, <2>3
<1>11. b[t.run][Len(me.batch[t.run]) + 1] = e
  BY <1>1, <1>2, <1>8, <1>9
<1>12. Fired(t) = e /\ NextEventID(t.run) = n
  BY DEF Fired, e, n
<1>13. wakes = me.wakes \cup
                {WorkflowTask(Cardinality(me.wakes) + 1, t.run, NextEventID(t.run))}
  BY DEF wakes, n
<1> DEFINE now == scanner'[s]
<1>14. /\ now.due = me.due \ {t} /\ now.fired = me.fired \cup {t.id}
       /\ now.batch = b
       /\ now.wakes = me.wakes \cup
            {WorkflowTask(Cardinality(me.wakes) + 1, t.run, NextEventID(t.run))}
  BY ONLY <1>6, <1>7, <1>13
<1>15. /\ \A r \in Runs \ {t.run} : now.batch[r] = me.batch[r]
       /\ now.batch[t.run] = Append(me.batch[t.run], Fired(t))
       /\ now.batch[t.run][Len(me.batch[t.run]) + 1] = Fired(t)
  BY ONLY <1>8, <1>11, <1>12, <1>14
<1>16. \A r \in Runs :
         /\ Len(me.batch[r]) \in Nat /\ DOMAIN me.batch[r] = 1..Len(me.batch[r])
         /\ DOMAIN now.batch[r] = IF r = t.run THEN 1..(Len(me.batch[r]) + 1)
                                  ELSE 1..Len(me.batch[r])
         /\ \A i \in DOMAIN me.batch[r] : now.batch[r][i] = me.batch[r][i]
  BY ONLY <1>10, <1>14
<1>17. NextEventID(t.run) \in Nat /\ Fired(t) \in Event
  BY ONLY <1>3, <1>12
<1>18. QED
  BY ONLY <1>1, <1>2, <1>4, <1>5, <1>7, <1>14, <1>15, <1>16, <1>17 DEF ScanTurn

\* Steps of a timer scan.
LEMMA RunScanner ==
  ASSUME RunInv, TypeInv', NEW s \in Scanners, ScannerNext(s)
  PROVE  RunInv'
<1> USE DEF RunInv
<1>0. /\ scanner \in [Scanners -> ScannerState] /\ scanner[s] \in ScannerState
      /\ tasks \subseteq Task /\ timers \subseteq Timer
  BY DEF TypeInv, TypeOK, TablesTypeOK
<1>a. /\ \A t \in tasks : ~Absent(t.run)
      /\ \A t \in timers : ~Absent(t.run)
      /\ \A v \in Workers : worker[v].pc # "idle" => ~Absent(worker[v].task.run)
      /\ \A v \in Workers : worker[v].pc = "ready" => worker[v].next > 1
      /\ \A z \in Scanners : \A t \in scanner[z].due : ~Absent(t.run)
      /\ \A z \in Scanners : \A t \in scanner[z].wakes : ~Absent(t.run)
      /\ \A z \in Scanners, r \in Runs : Absent(r) => scanner[z].batch[r] = <<>>
      /\ \A z \in Scanners, r \in Runs : \A i \in DOMAIN scanner[z].batch[r] :
            /\ scanner[z].batch[r][i].id > 1
            /\ scanner[z].batch[r][i].type = "TimerFired"
  BY DEF RowsKnown, ProcessesKnown, ScansKnown, PastStart, Busy
<1>b. /\ IdleScanner \in ScannerState
      /\ IdleScanner.due = {} /\ IdleScanner.wakes = {}
      /\ \A r \in Runs : IdleScanner.batch[r] = <<>> /\ DOMAIN IdleScanner.batch[r] = {}
  BY IdleTypes DEF IdleScanner
<1>1. ASSUME NEW due \in SUBSET timers, ScanSelect(s, due) PROVE RunInv'
  <2> DEFINE new == [IdleScanner EXCEPT !.pc = "scanning", !.due = due]
  <2>1. new.due = due /\ new.wakes = {} /\ new.batch = IdleScanner.batch
    BY <1>b DEF ScannerState
  <2>2. scanner' = [scanner EXCEPT ![s] = new]
        /\ UNCHANGED <<execs, events, tasks, timers, lastRun, worker, client>>
    BY <1>1 DEF ScanSelect, tables
  <2> HIDE DEF new
  <2>3. \A z \in Scanners : scanner'[z] = scanner[z] \/ scanner'[z] = new
    BY <1>0, <2>2
  <2>4. QED
    BY <1>a, <1>b, <2>1, <2>2, <2>3, RunQuiet
<1>2. ASSUME scanner' = [scanner EXCEPT ![s] = IdleScanner]
      PROVE  /\ \A z \in Scanners : \A t \in scanner'[z].due : ~Absent(t.run)
             /\ \A z \in Scanners : \A t \in scanner'[z].wakes : ~Absent(t.run)
             /\ \A z \in Scanners, r \in Runs : Absent(r) => scanner'[z].batch[r] = <<>>
             /\ \A z \in Scanners, r \in Runs : \A i \in DOMAIN scanner'[z].batch[r] :
                   /\ scanner'[z].batch[r][i].id > 1
                   /\ scanner'[z].batch[r][i].type = "TimerFired"
  <2>1. \A z \in Scanners : scanner'[z] = scanner[z] \/ scanner'[z] = IdleScanner
    BY <1>0, <1>2
  <2>2. QED
    BY <1>a, <1>b, <2>1
<1>3. CASE ScanAbort(s)
  <2>1. scanner' = [scanner EXCEPT ![s] = IdleScanner]
        /\ UNCHANGED <<execs, events, tasks, timers, lastRun, worker, client>>
    BY <1>3 DEF ScanAbort, tables
  <2>2. QED
    BY <1>a, <1>2, <2>1, RunQuiet
<1>4. ASSUME NEW t \in scanner[s].due, ScanTimer(s, t) PROVE RunInv'
  <2> DEFINE me == scanner[s]
             new == scanner'[s]
  <2>0. ScanTurn(s, t)
    BY <1>4, ScanTurns
  <2>1. t.run \in Runs /\ ~Absent(t.run)
    BY <1>a, <2>0 DEF ScanTurn
  <2>2. Fired(t).id > 1 /\ Fired(t).type = "TimerFired"
    BY <2>1, NextPastStart DEF Fired
  <2>3. \A u \in new.due : ~Absent(u.run)
    BY <1>a, <2>0 DEF ScanTurn
  <2>4. \A u \in new.wakes : ~Absent(u.run)
    <3> DEFINE wake == WorkflowTask(Cardinality(me.wakes) + 1, t.run, NextEventID(t.run))
    <3>1. wake.run = t.run
      BY NewRows
    <3>2. new.wakes = me.wakes \cup {wake}
      BY <2>0 DEF ScanTurn
    <3>3. \A u \in me.wakes : ~Absent(u.run)
      BY <1>a
    <3> HIDE DEF wake, me, new
    <3>4. QED
      BY ONLY <2>1, <3>1, <3>2, <3>3
  <2>5. \A r \in Runs : Absent(r) => new.batch[r] = <<>>
    <3>1. \A r \in Runs \ {t.run} : new.batch[r] = me.batch[r]
      BY <2>0 DEF ScanTurn
    <3>2. \A r \in Runs : Absent(r) => me.batch[r] = <<>>
      BY <1>a
    <3> HIDE DEF me, new
    <3>3. QED
      BY ONLY <2>1, <3>1, <3>2
  <2>6. ASSUME NEW r \in Runs, NEW i \in DOMAIN new.batch[r]
        PROVE  new.batch[r][i].id > 1 /\ new.batch[r][i].type = "TimerFired"
    <3>1. CASE i \in DOMAIN me.batch[r]
      <4>1. new.batch[r][i] = me.batch[r][i]
        BY <2>0, <3>1 DEF ScanTurn
      <4>2. me.batch[r][i].id > 1 /\ me.batch[r][i].type = "TimerFired"
        BY <1>a, <3>1
      <4>3. QED
        BY ONLY <4>1, <4>2
    <3>2. CASE i \notin DOMAIN me.batch[r]
      <4>1. r = t.run /\ i = Len(me.batch[r]) + 1
        <5>1. /\ Len(me.batch[r]) \in Nat /\ DOMAIN me.batch[r] = 1..Len(me.batch[r])
              /\ DOMAIN new.batch[r] = IF r = t.run THEN 1..(Len(me.batch[r]) + 1)
                                       ELSE 1..Len(me.batch[r])
          BY <2>0 DEF ScanTurn
        <5> HIDE DEF me, new
        <5>2. QED
          BY <2>6, <3>2, <5>1
      <4>2. new.batch[r][i] = Fired(t)
        BY <2>0, <4>1 DEF ScanTurn
      <4>3. QED
        BY <2>2, <4>2
    <3>3. QED
      BY <3>1, <3>2
  <2>7. UNCHANGED <<execs, events, tasks, timers, lastRun, worker, client>>
        /\ \A z \in Scanners \ {s} : scanner'[z] = scanner[z]
    BY <2>0 DEF ScanTurn, tables
  <2>8. QED
    BY <1>a, <2>3, <2>4, <2>5, <2>6, <2>7, RunQuiet
<1>5. CASE ScanCommit(s)
  <2>1. /\ UNCHANGED <<execs, lastRun, worker, client>>
        /\ InsertEvents(scanner[s].batch)
        /\ timers' = MarkTimerFired(scanner[s].fired)
        /\ tasks' = tasks \cup {[t EXCEPT !.id = serial + @] : t \in scanner[s].wakes}
        /\ scanner' = [scanner EXCEPT ![s] = IdleScanner]
    BY <1>5 DEF ScanCommit
  <2>2. \A r \in Runs : Absent(r)' <=> Absent(r)
    BY <2>1 DEF Absent
  <2>3. HistoryStartsOnce'
    <3>1. scanner[s].batch \in [Runs -> Seq(Event)]
      BY <1>0 DEF ScannerState
    <3>2. QED
      BY <1>a, <2>1, <2>2, <3>1, AppendedStartsOnce
  <2>4. \A t \in tasks' : ~Absent(t.run)
    <3>1. \A t \in scanner[s].wakes : t \in Task
      BY <1>0 DEF ScannerState
    <3>2. \A t \in scanner[s].wakes : [t EXCEPT !.id = serial + @].run = t.run
      BY <3>1 DEF Task
    <3>3. \A u \in tasks' : u \in tasks \/ \E t \in scanner[s].wakes : u.run = t.run
      BY <2>1, <3>2
    <3>4. QED
      BY <1>a, <3>3
  <2>5. \A t \in timers' : ~Absent(t.run)
    BY <1>0, <1>a, <2>1, FiredRows DEF FiredRow
  <2>6. QED
    BY <1>a, <1>2, <2>1, <2>2, <2>3, <2>4, <2>5, RunFrame
<1>6. QED
  BY <1>1, <1>3, <1>4, <1>5 DEF ScannerNext

\* Expiring leases, backoffs and timers.
LEMMA RunEngine ==
  ASSUME RunInv, TypeInv', EngineNext
  PROVE  RunInv'
<1> USE DEF RunInv
<1>0. tasks \subseteq Task /\ timers \subseteq Timer
  BY DEF TypeInv, TypeOK, TablesTypeOK
<1>1. /\ UNCHANGED <<execs, events, lastRun, worker, client, scanner>>
      /\ \A t \in tasks' : \E u \in tasks : t.run = u.run
      /\ \A t \in timers' : \E u \in timers : t.run = u.run
  <2>1. ASSUME NEW expired, ReclaimExpiredLeases(expired)
        PROVE  /\ \A t \in tasks' : \E u \in tasks : t.run = u.run
               /\ timers' = timers
    <3>1. tasks' = SetLease(expired, FALSE) /\ timers' = timers
      BY <2>1 DEF ReclaimExpiredLeases
    <3>2. \A t \in SetLease(expired, FALSE) : \E u \in tasks : SameTask(t, u)
      BY <1>0, LeaseRows
    <3>3. QED
      BY ONLY <3>1, <3>2 DEF SameTask
  <2>2. ASSUME NEW t \in tasks, BackoffElapses(t)
        PROVE  /\ \A u \in tasks' : \E v \in tasks : u.run = v.run
               /\ timers' = timers
    <3>1. [t EXCEPT !.hidden = FALSE].run = t.run
      BY <1>0 DEF Task
    <3>2. QED
      BY <2>2, <3>1 DEF BackoffElapses
  <2>3. ASSUME NEW t \in timers, TimerDue(t)
        PROVE  /\ \A u \in timers' : \E v \in timers : u.run = v.run
               /\ tasks' = tasks
    <3>1. [t EXCEPT !.state = "due"].run = t.run
      BY <1>0 DEF Timer
    <3>2. QED
      BY <2>3, <3>1 DEF TimerDue
  <2>4. UNCHANGED <<execs, events, lastRun, worker, client, scanner>>
    BY DEF EngineNext, ReclaimExpiredLeases, BackoffElapses, TimerDue
  <2>5. QED
    BY <2>1, <2>2, <2>3, <2>4 DEF EngineNext
<1>2. QED
  BY <1>1, RunQuiet DEF RowsKnown, ProcessesKnown, ScansKnown, PastStart, Busy

LEMMA RunStep == RunInv /\ [Next]_vars => RunInv'
<1> SUFFICES ASSUME RunInv, [Next]_vars PROVE RunInv'
  OBVIOUS
<1>1. TypeInv /\ TypeInv'
  BY TypeStep DEF RunInv
<1>2. ASSUME NEW c \in Clients, ClientNext(c) PROVE RunInv'
  BY <1>1, <1>2, ClientMoves, RunClientMove, RunStart, RunSignal
<1>3. CASE UNCHANGED vars
  BY <1>1, <1>3, RunQuiet
  DEF vars, RunInv, RowsKnown, ProcessesKnown, ScansKnown, PastStart, Busy
<1>4. QED
  BY <1>1, <1>2, <1>3, RunWorker, RunScanner, RunEngine DEF Next

\* However starts, signals, answers and scans interleave, a history begins with
\* the one WorkflowStarted event of StartWorkflow, and no later event has its
\* id: what replay reads first is always the input of the workflow.
THEOREM HistoriesStartOnce == Spec => []HistoryStartsOnce
<1>1. Spec => []RunInv
  BY RunInit, RunStep, PTL DEF Spec
<1>2. RunInv => HistoryStartsOnce
  BY DEF RunInv
<1>3. QED
  BY <1>1, <1>2, PTL

-----------------------------------------------------------------------------
(* Statuses *)

\* Two transactions write workflow_executions, and three more events.
LEMMA WritingSteps ==
  ASSUME TypeInv, [Next]_vars
  PROVE  \/ UNCHANGED <<execs, events>>
         \/ \E c \in Clients : StartCommit(c)
         \/ \E c \in Clients : SignalCommit(c)
         \/ \E w \in Workers : CommitActivityTask(w)
         \/ \E w \in Workers : CommitWorkflowTask(w)
         \/ \E s \in Scanners : ScanCommit(s)
<1>1. ASSUME NEW c \in Clients, ClientNext(c)
      PROVE  UNCHANGED <<execs, events>> \/ StartCommit(c) \/ SignalCommit(c)
  BY <1>1, ClientMoves DEF ClientMove, tables
<1>2. ASSUME NEW w \in Workers, WorkerNext(w)
      PROVE  UNCHANGED <<execs, events>> \/ CommitActivityTask(w) \/ CommitWorkflowTask(w)
  BY <1>2, WorkerMoves DEF WorkerMove, Poll, DiscardWorkflowTask, CommitRetry, tables
<1>3. ASSUME NEW s \in Scanners, ScannerNext(s)
      PROVE  UNCHANGED <<execs, events>> \/ ScanCommit(s)
  BY <1>3 DEF ScannerNext, ScanSelect, ScanTimer, ScanAbort, tables
<1>4. EngineNext => UNCHANGED <<execs, events>>
  BY DEF EngineNext, ReclaimExpiredLeases, BackoffElapses, TimerDue
<1>5. CASE UNCHANGED vars
  BY <1>5 DEF vars
<1>6. QED
  BY <1>1, <1>2, <1>3, <1>4, <1>5 DEF Next

\* What ClosedStaysClosed says of one step.
StaysClosed ==
  \A r \in Runs : /\ execs[r].status \in Closed => execs'[r].status \in Closed
                  /\ ~Absent(r) => execs'[r].status # "Absent"

LEMMA ClosedStep == RunInv /\ [Next]_vars => StaysClosed
<1> SUFFICES ASSUME RunInv, [Next]_vars, NEW q \in Runs
             PROVE  /\ execs[q].status \in Closed => execs'[q].status \in Closed
                    /\ ~Absent(q) => execs'[q].status # "Absent"
  BY DEF StaysClosed
<1> USE DEF RunInv
<1>1. ASSUME NEW c \in Clients, StartCommit(c)
      PROVE  /\ execs[q].status \in Closed => execs'[q].status \in Closed
             /\ ~Absent(q) => execs'[q].status # "Absent"
  <2>1. Absent(client[c].run)
    BY <1>1 DEF StartCommit, StartsApart, Starting
  <2>2. CASE q = client[c].run
    BY <2>1, <2>2 DEF Absent, Closed
  <2>3. CASE q # client[c].run
    BY <1>1, <2>3 DEF StartCommit, InsertWorkflowExecution, TypeInv, TypeOK,
                      TablesTypeOK, Absent
  <2>4. QED
    BY <2>2, <2>3
<1>2. ASSUME NEW w \in Workers, CommitWorkflowTask(w)
      PROVE  /\ execs[q].status \in Closed => execs'[q].status \in Closed
             /\ ~Absent(q) => execs'[q].status # "Absent"
  BY <1>2, DecisionCommit DEF Closed, Absent
<1>3. CASE UNCHANGED execs
  BY <1>3 DEF Absent
<1>4. QED
  BY <1>1, <1>2, <1>3, WritingSteps
  DEF SignalCommit, CommitActivityTask, ScanCommit

\* No step of any handler reopens a run or makes it disappear, although none
\* of them locks the row or looks at its status in the transaction that writes.
THEOREM ClosedRunsStayClosed == Spec => ClosedStaysClosed
<1>1. Spec => []RunInv
  BY RunInit, RunStep, PTL DEF Spec
<1>2. RunInv /\ [Next]_vars => [StaysClosed]_vars
  BY ClosedStep
<1>3. ([][StaysClosed]_vars) => ClosedStaysClosed
  BY DEF ClosedStaysClosed, StaysClosed
<1>4. QED
  BY <1>1, <1>2, <1>3, PTL DEF Spec

\* A set of places that is not empty has a last one.
LEMMA LastPlace ==
  ASSUME NEW n \in Nat, NEW T \in SUBSET (1..n), T # {}
  PROVE  \E i \in T : \A j \in T : j <= i
<1> DEFINE Lt == OpToRel(<, Nat)
           D == {n - i : i \in T}
<1>1. \A x, y \in Nat : <<x, y>> \in Lt <=> x < y
  BY DEF OpToRel
<1> HIDE DEF Lt
<1>2. D \subseteq Nat /\ D # {}
  <2>1. \A i \in T : n - i \in Nat
    OBVIOUS
  <2>2. PICK i : i \in T
    OBVIOUS
  <2>3. n - i \in D
    BY <2>2
  <2>4. QED
    BY <2>1, <2>3
<1>3. IsWellFoundedOn(Lt, Nat)
  BY NatLessThanWellFounded DEF Lt
<1> HIDE DEF D
<1>4. PICK x \in D : \A y \in D : ~(<<y, x>> \in Lt)
  BY <1>2, <1>3, WFMin
<1>5. PICK i \in T : x = n - i
  BY DEF D
<1>6. ASSUME NEW j \in T PROVE j <= i
  <2>1. n - j \in D
    BY DEF D
  <2>2. ~(n - j < n - i)
    BY <1>1, <1>2, <1>4, <1>5, <2>1
  <2>3. QED
    BY <2>2
<1>7. QED
  BY <1>6

ClosedBy == {"WorkflowCompleted", "WorkflowFailed"}

\* The status that a longer history tells: that of the appended events if they
\* close the run, otherwise what it was.
LEMMA StatusAppended ==
  ASSUME events \in [Runs -> Seq(Event)], NEW new \in [Runs -> Seq(Event)],
         InsertEvents(new), NEW r \in Runs, events[r] # <<>>
  PROVE  /\ (\A i \in DOMAIN new[r] : new[r][i].type \notin ClosedBy) =>
              Log!StatusOf(events'[r]) = Log!StatusOf(events[r])
         /\ (\E i \in DOMAIN new[r] : new[r][i].type \in ClosedBy) =>
              Log!StatusOf(events'[r]) =
                IF Log!LastClosing(new[r], "WorkflowCompleted") THEN "Completed" ELSE "Failed"
<1> DEFINE old == events[r]
           add == new[r]
           res == events'[r]
           n == Len(old)
<1>1. /\ n \in Nat /\ Len(add) \in Nat
      /\ DOMAIN old = 1..n /\ DOMAIN add = 1..Len(add)
      /\ DOMAIN res = 1..(n + Len(add))
      /\ \A i \in DOMAIN old : i \in DOMAIN res /\ res[i] = old[i]
      /\ \A i \in DOMAIN add : n + i \in DOMAIN res /\ res[n + i] = add[i]
      /\ \A i \in DOMAIN res : i \notin DOMAIN old =>
           \E j \in DOMAIN add : i = n + j /\ res[i] = add[j]
  BY Inserted
<1>2. old # <<>> /\ res # <<>>
  <2>1. n # 0
    BY EmptySeq
  <2>2. 1 \in DOMAIN res
    BY <1>1, <2>1
  <2>3. QED
    BY <2>2
<1> HIDE DEF old, add, res, n
<1>3. ASSUME \A i \in DOMAIN add : add[i].type \notin ClosedBy, NEW T \in ClosedBy
      PROVE  Log!LastClosing(res, T) <=> Log!LastClosing(old, T)
  <2>1. \A i \in DOMAIN res : res[i].type \in ClosedBy => i \in DOMAIN old
    BY <1>1, <1>3
  <2>2. \A i \in DOMAIN res : res[i].type = T => i \in DOMAIN old
    BY <1>3, <2>1
  <2>3. QED
    BY <1>1, <2>1, <2>2 DEF Log!LastClosing, ClosedBy
<1>4. (\A i \in DOMAIN add : add[i].type \notin ClosedBy) =>
         Log!StatusOf(res) = Log!StatusOf(old)
  BY <1>2, <1>3 DEF Log!StatusOf, ClosedBy
<1>5. ASSUME \E i \in DOMAIN add : add[i].type \in ClosedBy, NEW T \in ClosedBy
      PROVE  Log!LastClosing(res, T) <=> Log!LastClosing(add, T)
  <2>1. PICK k \in DOMAIN add : add[k].type \in ClosedBy
    BY <1>5
  <2>2. \A i \in DOMAIN old : i < n + k
    BY <1>1
  <2>3. ASSUME Log!LastClosing(res, T) PROVE Log!LastClosing(add, T)
    <3>1. PICK i \in DOMAIN res :
            /\ res[i].type = T
            /\ \A j \in DOMAIN res : res[j].type \in ClosedBy => j <= i
      BY <2>3 DEF Log!LastClosing, ClosedBy
    <3>2. n + k <= i
      BY <1>1, <2>1, <3>1
    <3>3. i \notin DOMAIN old
      BY <1>1, <2>1, <3>2
    <3>4. PICK m \in DOMAIN add : i = n + m /\ res[i] = add[m]
      BY <1>1, <3>3
    <3>5. ASSUME NEW j \in DOMAIN add, add[j].type \in ClosedBy PROVE j <= m
      <4>1. n + j <= n + m
        BY <1>1, <3>1, <3>4, <3>5
      <4>2. QED
        BY <1>1, <4>1
    <3>6. QED
      BY <3>1, <3>4, <3>5 DEF Log!LastClosing, ClosedBy
  <2>4. ASSUME Log!LastClosing(add, T) PROVE Log!LastClosing(res, T)
    <3>1. PICK m \in DOMAIN add :
            /\ add[m].type = T
            /\ \A j \in DOMAIN add : add[j].type \in ClosedBy => j <= m
      BY <2>4 DEF Log!LastClosing, ClosedBy
    <3>2. n + m \in DOMAIN res /\ res[n + m].type = T
      BY <1>1, <3>1
    <3>3. ASSUME NEW j \in DOMAIN res, res[j].type \in ClosedBy PROVE j <= n + m
      <4>1. CASE j \in DOMAIN old
        BY <1>1, <4>1
      <4>2. CASE j \notin DOMAIN old
        <5>1. PICK l \in DOMAIN add : j = n + l /\ res[j] = add[l]
          BY <1>1, <4>2
        <5>2. l <= m
          BY <3>1, <3>3, <5>1
        <5>3. QED
          BY <1>1, <5>1, <5>2
      <4>3. QED
        BY <4>1, <4>2
    <3>4. QED
      BY <3>2, <3>3 DEF Log!LastClosing, ClosedBy
  <2>5. QED
    BY <2>3, <2>4
<1>6. ASSUME \E i \in DOMAIN add : add[i].type \in ClosedBy
      PROVE  Log!LastClosing(add, "WorkflowCompleted") \/ Log!LastClosing(add, "WorkflowFailed")
  <2> DEFINE C == {i \in DOMAIN add : add[i].type \in ClosedBy}
  <2>1. C \in SUBSET (1..Len(add)) /\ C # {}
    BY <1>1, <1>6
  <2>2. PICK i \in C : \A j \in C : j <= i
    <3> HIDE DEF C
    <3>1. QED
      BY <1>1, <2>1, LastPlace
  <2>3. QED
    BY <2>2 DEF Log!LastClosing, ClosedBy
<1>7. (\E i \in DOMAIN add : add[i].type \in ClosedBy) =>
         Log!StatusOf(res) =
           IF Log!LastClosing(add, "WorkflowCompleted") THEN "Completed" ELSE "Failed"
  <2>1. "WorkflowCompleted" \in ClosedBy /\ "WorkflowFailed" \in ClosedBy
    BY DEF ClosedBy
  <2>2. ~(/\ Log!LastClosing(add, "WorkflowCompleted")
          /\ Log!LastClosing(add, "WorkflowFailed"))
    <3>1. ASSUME NEW i \in DOMAIN add, NEW j \in DOMAIN add, i <= j, j <= i PROVE i = j
      BY <1>1, <3>1
    <3>2. QED
      BY <3>1 DEF Log!LastClosing
  <2>3. ASSUME \E i \in DOMAIN add : add[i].type \in ClosedBy
        PROVE  /\ Log!LastClosing(res, "WorkflowCompleted") <=>
                    Log!LastClosing(add, "WorkflowCompleted")
               /\ Log!LastClosing(res, "WorkflowFailed") <=>
                    ~Log!LastClosing(add, "WorkflowCompleted")
    BY <1>5, <1>6, <2>1, <2>2, <2>3
  <2>4. QED
    BY <1>2, <2>3 DEF Log!StatusOf
<1>8. QED
  BY <1>4, <1>7 DEF old, add, res

\* How a status reads a history.
LEMMA StatusRead ==
  ASSUME NEW l \in Seq(Event)
  PROVE  /\ Log!StatusOf(l) = "Absent" <=> l = <<>>
         /\ Log!StatusOf(l) = "Completed" <=> Log!LastClosing(l, "WorkflowCompleted")
         /\ Log!StatusOf(l) = "Failed" <=> Log!LastClosing(l, "WorkflowFailed")
         /\ Log!StatusOf(l) = "Running" <=>
              l # <<>> /\ \A i \in DOMAIN l : l[i].type \notin ClosedBy
<1>1. Len(l) \in Nat /\ DOMAIN l = 1..Len(l)
  BY LenProperties
<1>2. ASSUME \E i \in DOMAIN l : l[i].type \in ClosedBy
      PROVE  Log!LastClosing(l, "WorkflowCompleted") \/ Log!LastClosing(l, "WorkflowFailed")
  <2> DEFINE C == {i \in DOMAIN l : l[i].type \in ClosedBy}
  <2>1. C \in SUBSET (1..Len(l)) /\ C # {}
    BY <1>1, <1>2
  <2>2. PICK i \in C : \A j \in C : j <= i
    <3> HIDE DEF C
    <3>1. QED
      BY <1>1, <2>1, LastPlace
  <2>3. QED
    BY <2>2 DEF Log!LastClosing, ClosedBy
<1>3. ~(/\ Log!LastClosing(l, "WorkflowCompleted")
        /\ Log!LastClosing(l, "WorkflowFailed"))
  <2>1. ASSUME NEW i \in DOMAIN l, NEW j \in DOMAIN l, i <= j, j <= i PROVE i = j
    BY <1>1, <2>1
  <2>2. QED
    BY <2>1 DEF Log!LastClosing
<1>4. \A T \in ClosedBy : Log!LastClosing(l, T) => \E i \in DOMAIN l : l[i].type \in ClosedBy
  BY DEF Log!LastClosing
<1>5. l = <<>> => DOMAIN l = {}
  OBVIOUS
<1>6. "WorkflowCompleted" \in ClosedBy /\ "WorkflowFailed" \in ClosedBy
  BY DEF ClosedBy
<1>7. CASE l = <<>>
  BY <1>4, <1>5, <1>6, <1>7 DEF Log!StatusOf
<1>8. CASE l # <<>> /\ Log!LastClosing(l, "WorkflowCompleted")
  BY <1>3, <1>4, <1>6, <1>8 DEF Log!StatusOf
<1>9. CASE l # <<>> /\ Log!LastClosing(l, "WorkflowFailed")
  BY <1>3, <1>4, <1>6, <1>9 DEF Log!StatusOf
<1>10. CASE /\ l # <<>>
            /\ ~Log!LastClosing(l, "WorkflowCompleted")
            /\ ~Log!LastClosing(l, "WorkflowFailed")
  BY <1>2, <1>10 DEF Log!StatusOf
<1>11. QED
  BY <1>7, <1>8, <1>9, <1>10

\* The status in workflow_executions is the one the history tells.
StatusExact == \A r \in Runs : execs[r].status = Log!StatusOf(events[r])

StatusInv == RunInv /\ StatusExact

LEMMA StatusInit == Init => StatusInv
<1> SUFFICES ASSUME Init PROVE StatusExact
  BY RunInit DEF StatusInv
<1>1. \A r \in Runs : execs[r].status = "Absent" /\ events[r] = <<>>
  BY DEF Init, TablesInit
<1>2. <<>> \in Seq(Event)
  OBVIOUS
<1>3. QED
  BY <1>1, <1>2, StatusRead DEF StatusExact

\* Appending events that do not close a run leaves its status right.
LEMMA StatusKept ==
  ASSUME StatusInv, NEW new \in [Runs -> Seq(Event)], InsertEvents(new),
         NEW r \in Runs, execs'[r].status = execs[r].status,
         Absent(r) => new[r] = <<>>,
         \A i \in DOMAIN new[r] : new[r][i].type \notin ClosedBy
  PROVE  execs'[r].status = Log!StatusOf(events'[r])
<1>0. events \in [Runs -> Seq(Event)]
  BY DEF StatusInv, RunInv, TypeInv, TypeOK, TablesTypeOK
<1>1. CASE Absent(r)
  <2>1. events'[r] = events[r] \o <<>>
    BY <1>1 DEF InsertEvents
  <2>2. events'[r] = events[r]
    BY <1>0, <2>1, ConcatEmptySeq
  <2>3. QED
    BY <2>2 DEF StatusInv, StatusExact
<1>2. CASE ~Absent(r)
  <2>1. events[r] # <<>>
    BY <1>2, NextPastStart DEF StatusInv
  <2>2. QED
    BY <1>0, <2>1, StatusAppended DEF StatusInv, StatusExact
<1>3. QED
  BY <1>1, <1>2

LEMMA StatusStep == StatusInv /\ [Next]_vars => StatusInv'
<1> SUFFICES ASSUME StatusInv, [Next]_vars, RunInv', NEW q \in Runs
             PROVE  execs'[q].status = Log!StatusOf(events'[q])
  BY RunStep DEF StatusInv, StatusExact
<1>a. RunInv /\ TypeInv /\ events \in [Runs -> Seq(Event)] /\ execs \in [Runs -> Execution]
  BY DEF StatusInv, RunInv, TypeInv, TypeOK, TablesTypeOK
<1>b. execs[q].status = Log!StatusOf(events[q])
  BY DEF StatusInv, StatusExact
<1>1. CASE UNCHANGED <<execs, events>>
  BY <1>1, <1>b
<1>2. ASSUME NEW c \in Clients, StartCommit(c)
      PROVE  execs'[q].status = Log!StatusOf(events'[q])
  <2> DEFINE e == [id |-> 1, type |-> "WorkflowStarted", key |-> 0]
  <2>1. PICK r \in Runs : r = client[c].run
    BY <1>a, <1>2, CommitEvents DEF StartCommit
  <2>2. /\ execs' = [execs EXCEPT ![r] = [workflow |-> client[c].workflow, status |-> "Running"]]
        /\ InsertEvents(StartEvents(c)) /\ client[c].pc = "checked"
    BY <1>2, <2>1 DEF StartCommit, InsertWorkflowExecution, StartEvents
  <2>3. /\ DOMAIN StartEvents(c)[r] = {1} /\ StartEvents(c)[r][1] = e
        /\ \A p \in Runs \ {r} : StartEvents(c)[p] = <<>> /\ DOMAIN StartEvents(c)[p] = {}
        /\ StartEvents(c) \in [Runs -> Seq(Event)]
    BY <1>a, <2>1, CommitEvents, OneEvent DEF StartEvents
  <2>4. CASE q = r
    <3>1. events[r] = <<>>
      BY <1>a, <2>1, <2>2 DEF RunInv, StartsApart, Starting, HistoryStartsOnce
    <3>2. events'[r] = <<>> \o StartEvents(c)[r]
      BY <2>2, <3>1 DEF InsertEvents
    <3>3. events'[r] = StartEvents(c)[r]
      BY <2>3, <3>2, ConcatEmptySeq
    <3>4. events'[r] \in Seq(Event) /\ events'[r] # <<>>
      BY <2>3, <3>3
    <3>5. \A i \in DOMAIN events'[r] : events'[r][i].type \notin ClosedBy
      BY <2>3, <3>3 DEF ClosedBy
    <3>6. Log!StatusOf(events'[r]) = "Running"
      BY <3>4, <3>5, StatusRead
    <3>7. execs'[r].status = "Running"
      BY <1>a, <2>2
    <3>8. QED
      BY <2>4, <3>6, <3>7
  <2>5. CASE q # r
    <3>1. execs'[q] = execs[q]
      BY <1>a, <2>2, <2>5
    <3>2. QED
      BY <2>2, <2>3, <2>5, <3>1, StatusKept
  <2>6. QED
    BY <2>4, <2>5
<1>3. ASSUME NEW new \in [Runs -> Seq(Event)], InsertEvents(new), UNCHANGED execs,
             \A r \in Runs : Absent(r) => new[r] = <<>>,
             \A r \in Runs : \A i \in DOMAIN new[r] : new[r][i].type \notin ClosedBy
      PROVE  execs'[q].status = Log!StatusOf(events'[q])
  BY <1>3, StatusKept
<1>4. ASSUME NEW c \in Clients, SignalCommit(c)
      PROVE  execs'[q].status = Log!StatusOf(events'[q])
  <2>1. InsertEvents(SignalEvents(c)) /\ UNCHANGED execs /\ client[c].pc = "enqueued"
    BY <1>4 DEF SignalCommit, SignalEvents
  <2>2. client[c].run \in Runs /\ ~Absent(client[c].run)
    BY <1>a, <2>1, CommitEvents DEF RunInv, ProcessesKnown, Signalling
  <2>3. /\ SignalEvents(c) \in [Runs -> Seq(Event)]
        /\ \A p \in Runs \ {client[c].run} : SignalEvents(c)[p] = <<>>
        /\ \A p \in Runs : \A i \in DOMAIN SignalEvents(c)[p] :
             SignalEvents(c)[p][i].type \notin ClosedBy
    <3>1. PICK e \in Event : /\ e.type \notin ClosedBy
                             /\ SignalEvents(c) = EventsOf(client[c].run, <<e>>)
      BY <1>a, CommitEvents DEF SignalEvents, ClosedBy
    <3>2. PICK r \in Runs : r = client[c].run
      BY <2>2
    <3>3. SignalEvents(c) = EventsOf(r, <<e>>)
      BY <3>1, <3>2
    <3>4. /\ SignalEvents(c) \in [Runs -> Seq(Event)]
          /\ \A p \in Runs \ {r} : SignalEvents(c)[p] = <<>>
          /\ \A p \in Runs : \A i \in DOMAIN SignalEvents(c)[p] : SignalEvents(c)[p][i] = e
      <4> DEFINE new == SignalEvents(c)
      <4>1. new = EventsOf(r, <<e>>)
        BY <3>3
      <4> HIDE DEF new
      <4>2. \A p \in Runs \ {r} : new[p] = <<>> /\ DOMAIN new[p] = {}
        BY <4>1, OneEvent
      <4>3. DOMAIN new[r] = {1} /\ new[r][1] = e /\ new \in [Runs -> Seq(Event)]
        BY <4>1, OneEvent
      <4>4. \A p \in Runs : \A i \in DOMAIN new[p] : new[p][i] = e
        BY <4>2, <4>3
      <4>5. QED
        BY <4>2, <4>3, <4>4 DEF new
    <3>5. QED
      BY <3>1, <3>2, <3>4
  <2>4. QED
    BY <1>3, <2>1, <2>2, <2>3
<1>5. ASSUME NEW w \in Workers, CommitActivityTask(w)
      PROVE  execs'[q].status = Log!StatusOf(events'[q])
  <2>1. InsertEvents(OutcomeEvents(w)) /\ UNCHANGED execs /\ worker[w].pc = "ready"
    BY <1>5 DEF CommitActivityTask, OutcomeEvents, OutcomeType
  <2>2. worker[w].task.run \in Runs /\ ~Absent(worker[w].task.run)
    BY <1>a, <2>1, CommitEvents DEF RunInv, ProcessesKnown, Busy
  <2>3. /\ OutcomeEvents(w) \in [Runs -> Seq(Event)]
        /\ \A p \in Runs \ {worker[w].task.run} : OutcomeEvents(w)[p] = <<>>
        /\ \A p \in Runs : \A i \in DOMAIN OutcomeEvents(w)[p] :
             OutcomeEvents(w)[p][i].type \notin ClosedBy
    <3>1. PICK e \in Event : /\ e.type \notin ClosedBy
                             /\ OutcomeEvents(w) = EventsOf(worker[w].task.run, <<e>>)
      BY <1>a, CommitEvents DEF OutcomeEvents, OutcomeType, ClosedBy
    <3>2. PICK r \in Runs : r = worker[w].task.run
      BY <2>2
    <3>3. OutcomeEvents(w) = EventsOf(r, <<e>>)
      BY <3>1, <3>2
    <3>4. /\ OutcomeEvents(w) \in [Runs -> Seq(Event)]
          /\ \A p \in Runs \ {r} : OutcomeEvents(w)[p] = <<>>
          /\ \A p \in Runs : \A i \in DOMAIN OutcomeEvents(w)[p] : OutcomeEvents(w)[p][i] = e
      <4> DEFINE new == OutcomeEvents(w)
      <4>1. new = EventsOf(r, <<e>>)
        BY <3>3
      <4> HIDE DEF new
      <4>2. \A p \in Runs \ {r} : new[p] = <<>> /\ DOMAIN new[p] = {}
        BY <4>1, OneEvent
      <4>3. DOMAIN new[r] = {1} /\ new[r][1] = e /\ new \in [Runs -> Seq(Event)]
        BY <4>1, OneEvent
      <4>4. \A p \in Runs : \A i \in DOMAIN new[p] : new[p][i] = e
        BY <4>2, <4>3
      <4>5. QED
        BY <4>2, <4>3, <4>4 DEF new
    <3>5. QED
      BY <3>1, <3>2, <3>4
  <2>4. QED
    BY <1>3, <2>1, <2>2, <2>3
<1>6. ASSUME NEW s \in Scanners, ScanCommit(s)
      PROVE  execs'[q].status = Log!StatusOf(events'[q])
  <2>1. InsertEvents(scanner[s].batch) /\ UNCHANGED execs
    BY <1>6 DEF ScanCommit
  <2>2. scanner[s].batch \in [Runs -> Seq(Event)]
    BY <1>a DEF TypeInv, TypeOK, ScannerState
  <2>3. \A r \in Runs : /\ Absent(r) => scanner[s].batch[r] = <<>>
                       /\ \A i \in DOMAIN scanner[s].batch[r] :
                            scanner[s].batch[r][i].type = "TimerFired"
    BY <1>a DEF RunInv, ScansKnown, PastStart
  <2>4. "TimerFired" \notin ClosedBy
    BY DEF ClosedBy
  <2>5. PICK new \in [Runs -> Seq(Event)] : new = scanner[s].batch
    BY <2>2
  <2>6. InsertEvents(new) /\ UNCHANGED execs
    BY <2>1, <2>5
  <2>7. /\ \A r \in Runs : Absent(r) => new[r] = <<>>
        /\ \A r \in Runs : \A i \in DOMAIN new[r] : new[r][i].type \notin ClosedBy
    BY ONLY <2>3, <2>4, <2>5
  <2>8. QED
    BY ONLY <1>3, <2>6, <2>7
<1>7. ASSUME NEW w \in Workers, CommitWorkflowTask(w)
      PROVE  execs'[q].status = Log!StatusOf(events'[q])
  <2> DEFINE r == worker[w].task.run
             cmds == worker[w].cmds
             new == DecisionEvents(w)
             n == Len(cmds)
             C == CommandsOf("CompleteWorkflow", cmds)
             F == CommandsOf("FailWorkflow", cmds)
  <2>1. /\ InsertEvents(new) /\ worker[w].pc = "ready"
        /\ \A p \in Runs \ {r} : execs'[p] = execs[p]
        /\ execs'[r].status = StatusAfter(execs[r].status, cmds)
    BY <1>a, <1>7, DecisionCommit
  <2>2. r \in Runs /\ ~Absent(r) /\ events[r] # <<>>
    BY <1>a, <2>1, CommitEvents, NextPastStart DEF RunInv, ProcessesKnown, Busy
  <2>3. /\ new \in [Runs -> Seq(Event)]
        /\ \A p \in Runs \ {r} : new[p] = <<>> /\ DOMAIN new[p] = {}
        /\ DOMAIN new[r] = 1..n
    BY <1>a, Decisions
  <2>4. CASE q # r
    BY <2>1, <2>3, <2>4, StatusKept
  <2>5. CASE q = r
    <3>1. ASSUME NEW i \in 1..n
          PROVE  /\ new[r][i].type = "WorkflowCompleted" <=> i \in C
                 /\ new[r][i].type = "WorkflowFailed" <=> i \in F
      <4>1. cmds[i].type \in CommandTypes /\ new[r][i].type = Recorded[cmds[i].type]
        <5>1. cmds[i] \in Command /\ new[r][i] = Decision(w, i)
              /\ Decision(w, i).type = Recorded[cmds[i].type]
          BY <1>a, <3>1, Decisions
        <5>2. QED
          BY <5>1 DEF Command
      <4>2. /\ Recorded[cmds[i].type] = "WorkflowCompleted" <=> cmds[i].type = "CompleteWorkflow"
            /\ Recorded[cmds[i].type] = "WorkflowFailed" <=> cmds[i].type = "FailWorkflow"
        BY <4>1 DEF CommandTypes, Recorded
      <4>3. /\ i \in C <=> cmds[i].type = "CompleteWorkflow"
            /\ i \in F <=> cmds[i].type = "FailWorkflow"
        BY <3>1 DEF CommandsOf
      <4>4. QED
        BY <4>1, <4>2, <4>3
    <3>2. C \subseteq 1..n /\ F \subseteq 1..n
      BY DEF CommandsOf
    <3>3. execs'[r].status = IF C \cup F = {} THEN execs[r].status
                             ELSE IF \E i \in C : \A j \in C \cup F : j <= i
                             THEN "Completed" ELSE "Failed"
      BY <2>1 DEF StatusAfter
    <3> HIDE DEF C, F, new, n, r
    <3>4. CASE C \cup F = {}
      <4>1. \A i \in DOMAIN new[r] : new[r][i].type \notin ClosedBy
        BY <2>3, <3>1, <3>4 DEF ClosedBy
      <4>2. QED
        BY <1>a, <1>b, <2>1, <2>2, <2>3, <2>5, <3>3, <3>4, <4>1, StatusAppended
    <3>5. CASE C \cup F # {}
      <4>1. \E i \in DOMAIN new[r] : new[r][i].type \in ClosedBy
        BY <2>3, <3>1, <3>2, <3>5 DEF ClosedBy
      <4>2. Log!LastClosing(new[r], "WorkflowCompleted") <=>
              \E i \in C : \A j \in C \cup F : j <= i
        BY <2>3, <3>1, <3>2 DEF Log!LastClosing
      <4>3. Log!StatusOf(events'[r]) =
              IF Log!LastClosing(new[r], "WorkflowCompleted") THEN "Completed" ELSE "Failed"
        BY <1>a, <2>1, <2>2, <2>3, <4>1, StatusAppended
      <4>4. QED
        BY <2>5, <3>3, <3>5, <4>2, <4>3
    <3>6. QED
      BY <3>4, <3>5
  <2>6. QED
    BY <2>4, <2>5
<1>8. QED
  BY <1>a, <1>1, <1>2, <1>4, <1>5, <1>6, <1>7, WritingSteps

\* The status of a run and its history tell the same story: the row says
\* Running as long as no closing event is committed, and Completed or Failed
\* only with the event that says so.
THEOREM StatusAndHistoryAgree == Spec => []StatusAgrees
<1>1. Spec => []StatusInv
  BY StatusInit, StatusStep, PTL DEF Spec
<1>2. StatusInv => StatusAgrees
  <2> SUFFICES ASSUME StatusInv, NEW r \in Runs
               PROVE  LET has(T) == \E i \in DOMAIN events[r] : HasType(r, i, T) IN
                      /\ IsRunning(r) => ~has(ClosingTypes)
                      /\ execs[r].status = "Completed" => has({"WorkflowCompleted"})
                      /\ execs[r].status = "Failed" => has({"WorkflowFailed"})
    BY DEF StatusAgrees
  <2>1. events[r] \in Seq(Event) /\ execs[r].status = Log!StatusOf(events[r])
    BY DEF StatusInv, RunInv, TypeInv, TypeOK, TablesTypeOK, StatusExact
  <2>2. QED
    BY <2>1, StatusRead DEF IsRunning, HasType, ClosingTypes, ClosedBy, Log!LastClosing
<1>3. QED
  BY <1>1, <1>2, PTL

-----------------------------------------------------------------------------
(* What is in a history stays in it *)

\* Run r has an event of type T with key k and id n.
Caused(r, T, k, n) ==
  \E j \in DOMAIN events[r] :
    events[r][j].type = T /\ events[r][j].key = k /\ events[r][j].id = n

Scheduled(t) == Caused(t.run, "ActivityScheduled", t.key, t.sched)
Started(t) == \E n \in Nat : Caused(t.run, "TimerStarted", t.key, n)

\* Event e of run r has its cause, with a smaller id, if it needs one.
Answers(r, e) ==
  e.type \in DOMAIN Causes =>
    \E n \in Nat : n < e.id /\ Caused(r, Causes[e.type], e.key, n)

\* Histories only grow.
Grown ==
  \A r \in Runs : \A i \in DOMAIN events[r] :
    i \in DOMAIN events'[r] /\ events'[r][i] = events[r][i]

LEMMA InsertsGrow ==
  ASSUME TypeInv, NEW new \in [Runs -> Seq(Event)], InsertEvents(new)
  PROVE  Grown
BY Inserted DEF Grown, TypeInv, TypeOK, TablesTypeOK

LEMMA CausesStay ==
  ASSUME TypeInv, Grown
  PROVE  /\ \A r \in Runs : \A T, k, n : Caused(r, T, k, n) => Caused(r, T, k, n)'
         /\ \A t \in Task : Scheduled(t) => Scheduled(t)'
         /\ \A t \in Timer : Started(t) => Started(t)'
         /\ \A r \in Runs : \A e : Answers(r, e) => Answers(r, e)'
<1>1. \A r \in Runs : \A T, k, n : Caused(r, T, k, n) => Caused(r, T, k, n)'
  BY DEF Grown, Caused
<1>2. (\A t \in Task : t.run \in Runs) /\ (\A t \in Timer : t.run \in Runs)
  BY DEF Task, Timer
<1>3. QED
  BY <1>1, <1>2 DEF Scheduled, Started, Answers

\* An id that len(events) + 1 gives is more than that of any event there is.
LEMMA CauseBefore ==
  ASSUME IDInv, NEW r \in Runs, NEW T, NEW k, NEW n, Caused(r, T, k, n)
  PROVE  n \in Nat /\ n < NextEventID(r)
<1>1. events[r] \in Seq(Event)
  BY DEF IDInv, TypeInv, TypeOK, TablesTypeOK
<1>2. Len(events[r]) \in Nat /\ DOMAIN events[r] = 1..Len(events[r])
  BY <1>1, LenProperties
<1>3. PICK j \in DOMAIN events[r] : events[r][j].id = n
  BY DEF Caused
<1>4. events[r][j] \in Event /\ j \in 1..Len(events[r]) /\ n <= j
  BY <1>1, <1>2, <1>3, ElementOfSeq DEF IDInv, IDsNotAhead
<1>5. n \in Nat
  BY <1>3, <1>4 DEF Event
<1>6. QED
  BY <1>2, <1>4, <1>5 DEF NextEventID

-----------------------------------------------------------------------------
(* The invariant *)

\* An activity task is the one of an ActivityScheduled event, also once it is
\* deleted and only a worker knows it; when that worker's handler is about to
\* write the outcome, the id it has computed is greater.
Holds(w, t) == Busy(w) /\ worker[w].task = t

TasksCaused == \A t \in tasks : t.kind = "activity" => Scheduled(t)

HoldersCaused ==
  \A w \in Workers, t \in Task : Holds(w, t) /\ t.kind = "activity" =>
    /\ Scheduled(t)
    /\ worker[w].pc = "ready" => t.sched < worker[w].next

\* The handlers of CompleteWorkflowTask hold workflow tasks, those of
\* CompleteActivityTask and FailActivityTask activity tasks; scans insert
\* workflow tasks.
KindsFit ==
  /\ \A w \in Workers :
       /\ worker[w].pc \in {"polled", "running", "closed"} => worker[w].task.kind = "workflow"
       /\ worker[w].pc \in {"found", "retry"} => worker[w].task.kind = "activity"
  /\ \A s \in Scanners : \A t \in scanner[s].wakes : t.kind = "workflow"

\* The same for timers, the ones a scan has selected, and what it will insert.
TimersCaused == \A t \in timers : Started(t)

Batched(s, r, e) == \E i \in DOMAIN scanner[s].batch[r] : scanner[s].batch[r][i] = e

ScansCaused ==
  /\ \A s \in Scanners : \A t \in scanner[s].due : Started(t)
  /\ \A s \in Scanners, r \in Runs, e \in Event : Batched(s, r, e) =>
        e.type = "TimerFired" /\ Answers(r, e)

\* And what all this is for.
Logged(r, e) == \E i \in DOMAIN events[r] : events[r][i] = e

EventsCaused == \A r \in Runs, e \in Event : Logged(r, e) => Answers(r, e)

CauseInv ==
  /\ IDInv
  /\ TasksCaused /\ HoldersCaused /\ KindsFit
  /\ TimersCaused /\ ScansCaused
  /\ EventsCaused

LEMMA CauseInit == Init => CauseInv
<1> SUFFICES ASSUME Init PROVE CauseInv
  OBVIOUS
<1>1. /\ tasks = {} /\ timers = {}
      /\ \A r \in Runs : events[r] = <<>>
      /\ \A w \in Workers : worker[w].pc = "idle"
      /\ \A s \in Scanners : /\ scanner[s].due = {} /\ scanner[s].wakes = {}
                             /\ \A r \in Runs : scanner[s].batch[r] = <<>>
  BY DEF Init, TablesInit, IdleWorker, IdleScanner
<1>2. DOMAIN <<>> = {}
  OBVIOUS
<1>3. QED
  BY <1>1, <1>2, IDInit
  DEF CauseInv, TasksCaused, HoldersCaused, Holds, Busy, KindsFit, TimersCaused,
      ScansCaused, Batched, EventsCaused, Logged

\* What a step may do to rows, workers, scans and histories.
GoodTasks ==
  \A t \in tasks' : \/ \E u \in tasks : SameTask(t, u)
                    \/ t.kind = "workflow"
                    \/ Scheduled(t)'

GoodTimers ==
  \A t \in timers' : \/ \E u \in timers : t.run = u.run /\ t.key = u.key
                     \/ Started(t)'

GoodWorker(w) ==
  \/ worker'[w] = worker[w] \/ worker'[w].pc = "idle"
  \/ WorkerMove(w)
  \/ /\ worker'[w].task \in tasks
     /\ \/ worker'[w].pc = "polled" /\ worker'[w].task.kind = "workflow"
        \/ worker'[w].pc = "working" /\ worker'[w].task.kind = "activity"

GoodScan(s) ==
  \/ scanner'[s] = scanner[s]
  \/ /\ scanner'[s].due \subseteq timers /\ scanner'[s].wakes = {}
     /\ \A r \in Runs : scanner'[s].batch[r] = <<>>
  \/ \E t \in scanner[s].due : ScanTurn(s, t)

GoodEvents ==
  \A r \in Runs, e \in Event : Logged(r, e)' => Logged(r, e) \/ Answers(r, e)'

CauseGood ==
  /\ Grown /\ GoodTasks /\ GoodTimers /\ GoodEvents
  /\ \A w \in Workers : GoodWorker(w)
  /\ \A s \in Scanners : GoodScan(s)

LEMMA CauseFrame ==
  ASSUME CauseInv, IDInv', CauseGood
  PROVE  CauseInv'
<1> USE DEF CauseInv, CauseGood
<1>0. TypeInv /\ TypeInv'
  BY DEF IDInv
<1>a. /\ tasks \subseteq Task /\ tasks' \subseteq Task
      /\ timers \subseteq Timer /\ timers' \subseteq Timer
      /\ \A t \in Task : t.run \in Runs
      /\ \A t \in Timer : t.run \in Runs
      /\ \A w \in Workers : worker[w] \in WorkerState /\ worker[w].task \in Task
      /\ \A s \in Scanners : /\ scanner[s].due \subseteq Timer
                             /\ scanner'[s].due \subseteq Timer
                             /\ scanner[s].batch \in [Runs -> Seq(Event)]
  BY <1>0 DEF TypeInv, TypeOK, TablesTypeOK, WorkerState, ScannerState, Task, Timer
<1>b. /\ \A r \in Runs : \A T, k, n : Caused(r, T, k, n) => Caused(r, T, k, n)'
      /\ \A t \in Task : Scheduled(t) => Scheduled(t)'
      /\ \A t \in Timer : Started(t) => Started(t)'
      /\ \A r \in Runs : \A e : Answers(r, e) => Answers(r, e)'
  BY <1>0, CausesStay
<1>1. TasksCaused'
  <2>1. ASSUME NEW t \in tasks', t.kind = "activity", NEW u \in tasks, SameTask(t, u)
        PROVE  Scheduled(t)'
    BY <1>a, <1>b, <2>1 DEF TasksCaused, SameTask, Scheduled
  <2>2. QED
    BY <2>1 DEF GoodTasks, TasksCaused
<1>2. TimersCaused'
  <2>1. ASSUME NEW t \in timers', NEW u \in timers, t.run = u.run, t.key = u.key
        PROVE  Started(t)'
    BY <1>a, <1>b, <2>1 DEF TimersCaused, Started
  <2>2. QED
    BY <2>1 DEF GoodTimers, TimersCaused
<1>3. HoldersCaused'
  <2> SUFFICES ASSUME NEW w \in Workers, NEW t \in Task, Holds(w, t)', t.kind = "activity"
               PROVE  Scheduled(t)' /\ (worker'[w].pc = "ready" => t.sched < worker'[w].next)
    BY DEF HoldersCaused
  <2>0. worker'[w].pc # "idle" /\ worker'[w].task = t
    BY DEF Holds, Busy
  <2>1. CASE worker'[w] = worker[w]
    <3>1. Holds(w, t)
      BY <2>0, <2>1 DEF Holds, Busy
    <3>2. QED
      BY <1>b, <2>1, <3>1 DEF HoldersCaused
  <2>2. CASE WorkerMove(w)
    <3>1. /\ Holds(w, t)
          /\ worker'[w].pc = "ready" => worker'[w].next = NextEventID(t.run)
      BY <2>0, <2>2 DEF WorkerMove, Holds, Busy, IdleWorker
    <3>2. Scheduled(t)
      BY <3>1 DEF HoldersCaused
    <3>3. t.sched < NextEventID(t.run)
      BY <1>a, <3>2, CauseBefore DEF Scheduled
    <3>4. QED
      BY <1>b, <3>1, <3>2, <3>3
  <2>3. CASE worker'[w].task \in tasks /\ worker'[w].pc \in {"polled", "working"}
    BY <1>b, <2>0, <2>3 DEF TasksCaused
  <2>4. QED
    BY <2>0, <2>1, <2>2, <2>3 DEF GoodWorker
<1>4. ScansCaused'
  <2> SUFFICES ASSUME NEW s \in Scanners
               PROVE  /\ \A t \in scanner'[s].due : Started(t)'
                      /\ \A r \in Runs, e \in Event : Batched(s, r, e)' =>
                           e.type = "TimerFired" /\ Answers(r, e)'
    BY DEF ScansCaused
  <2>1. CASE scanner'[s] = scanner[s]
    BY <1>a, <1>b, <2>1 DEF ScansCaused, Batched
  <2>2. CASE /\ scanner'[s].due \subseteq timers
             /\ \A r \in Runs : scanner'[s].batch[r] = <<>>
    <3>1. DOMAIN <<>> = {}
      OBVIOUS
    <3>2. QED
      BY <1>a, <1>b, <2>2, <3>1 DEF TimersCaused, Batched
  <2>3. ASSUME NEW t \in scanner[s].due, ScanTurn(s, t)
        PROVE  /\ \A u \in scanner'[s].due : Started(u)'
               /\ \A r \in Runs, e \in Event : Batched(s, r, e)' =>
                    e.type = "TimerFired" /\ Answers(r, e)'
    <3>1. \A u \in scanner'[s].due : Started(u)'
      BY <1>a, <1>b, <2>3 DEF ScansCaused, ScanTurn
    <3>2. PICK f \in Event : f = Fired(t)
      BY <2>3 DEF ScanTurn
    <3>3. f.type = "TimerFired" /\ Answers(t.run, f)
      <4>1. PICK n \in Nat : Caused(t.run, "TimerStarted", t.key, n)
        BY <2>3 DEF ScansCaused, Started
      <4>2. n < NextEventID(t.run)
        BY <1>a, <4>1, CauseBefore
      <4>3. f.id = NextEventID(t.run) /\ f.type = "TimerFired" /\ f.key = t.key
        BY <3>2 DEF Fired
      <4>4. QED
        BY <4>1, <4>2, <4>3 DEF Answers, Causes
    <3>4. ASSUME NEW r \in Runs, NEW e \in Event, Batched(s, r, e)'
          PROVE  Batched(s, r, e) \/ (r = t.run /\ e = f)
      <4>1. PICK i \in DOMAIN scanner'[s].batch[r] : scanner'[s].batch[r][i] = e
        BY <3>4 DEF Batched
      <4>2. CASE i \in DOMAIN scanner[s].batch[r]
        BY <2>3, <4>1, <4>2 DEF ScanTurn, Batched
      <4>3. CASE i \notin DOMAIN scanner[s].batch[r]
        <5>1. /\ Len(scanner[s].batch[r]) \in Nat
              /\ DOMAIN scanner[s].batch[r] = 1..Len(scanner[s].batch[r])
              /\ DOMAIN scanner'[s].batch[r] =
                   IF r = t.run THEN 1..(Len(scanner[s].batch[r]) + 1)
                   ELSE 1..Len(scanner[s].batch[r])
          BY <2>3 DEF ScanTurn
        <5>2. r = t.run /\ i = Len(scanner[s].batch[r]) + 1
          BY <4>1, <4>3, <5>1
        <5>3. QED
          BY <2>3, <3>2, <4>1, <5>2 DEF ScanTurn
      <4>4. QED
        BY <4>2, <4>3
    <3>5. QED
      BY <1>a, <1>b, <3>1, <3>3, <3>4 DEF ScansCaused
  <2>4. QED
    BY <2>1, <2>2, <2>3 DEF GoodScan
<1>5. EventsCaused'
  BY <1>b DEF EventsCaused, GoodEvents
<1>6. KindsFit'
  <2>1. ASSUME NEW w \in Workers
        PROVE  /\ worker'[w].pc \in {"polled", "running", "closed"} =>
                    worker'[w].task.kind = "workflow"
               /\ worker'[w].pc \in {"found", "retry"} => worker'[w].task.kind = "activity"
    BY DEF KindsFit, GoodWorker, WorkerMove, IdleWorker
  <2>2. ASSUME NEW s \in Scanners, NEW t \in scanner'[s].wakes PROVE t.kind = "workflow"
    <3>1. ASSUME NEW u \in scanner[s].due, ScanTurn(s, u) PROVE t.kind = "workflow"
      <4>1. \/ t \in scanner[s].wakes
            \/ t = WorkflowTask(Cardinality(scanner[s].wakes) + 1, u.run, NextEventID(u.run))
        BY <2>2, <3>1 DEF ScanTurn
      <4>2. QED
        BY <4>1 DEF KindsFit, WorkflowTask
    <3>2. QED
      BY <2>2, <3>1 DEF KindsFit, GoodScan
  <2>3. QED
    BY <2>1, <2>2 DEF KindsFit
<1>7. QED
  BY <1>1, <1>2, <1>3, <1>4, <1>5, <1>6

-----------------------------------------------------------------------------
(* Every step keeps it *)

\* What a transaction inserts is what is new in the histories.
LEMMA InsertedLogged ==
  ASSUME TypeInv, NEW new \in [Runs -> Seq(Event)], InsertEvents(new),
         NEW r \in Runs, NEW e
  PROVE  Logged(r, e)' <=> Logged(r, e) \/ \E i \in DOMAIN new[r] : new[r][i] = e
<1>1. events \in [Runs -> Seq(Event)]
  BY DEF TypeInv, TypeOK, TablesTypeOK
<1>2. /\ \A i \in DOMAIN events[r] :
           i \in DOMAIN events'[r] /\ events'[r][i] = events[r][i]
      /\ \A i \in DOMAIN new[r] :
           /\ Len(events[r]) + i \in DOMAIN events'[r]
           /\ events'[r][Len(events[r]) + i] = new[r][i]
  BY <1>1, Inserted
<1>3. ASSUME NEW i \in DOMAIN events'[r], i \notin DOMAIN events[r]
      PROVE  \E j \in DOMAIN new[r] : events'[r][i] = new[r][j]
  <2>1. PICK j \in DOMAIN new[r] : i = Len(events[r]) + j /\ events'[r][i] = new[r][j]
    BY <1>1, <1>3, Inserted
  <2>2. QED
    BY <2>1
<1>4. QED
  BY <1>2, <1>3 DEF Logged

\* Of these, only outcomes and fired timers need causes.
LEMMA PlainEvents ==
  ASSUME NEW r \in Runs, NEW e \in Event, e.type \notin ActivityOutcomes \cup {"TimerFired"}
  PROVE  Answers(r, e)'
BY DEF Answers, Causes

LEMMA CauseWorker ==
  ASSUME CauseInv, NEW w \in Workers, WorkerNext(w)
  PROVE  CauseGood
<1> USE DEF CauseInv, CauseGood
<1>0. /\ TypeInv /\ tasks \subseteq Task /\ worker \in [Workers -> WorkerState]
      /\ IdleWorker.pc = "idle" /\ worker[w].task \in Task /\ worker[w].task.run \in Runs
  BY DEF IDInv, TypeInv, TypeOK, TablesTypeOK, WorkerState, Task, IdleWorker
<1>1. UNCHANGED events => Grown /\ GoodEvents
  BY DEF Grown, GoodEvents, Logged
<1>2. (\A t \in tasks' : t \in tasks \/ t.kind = "workflow") => GoodTasks
  BY DEF GoodTasks, SameTask
<1>3. UNCHANGED timers => GoodTimers
  BY DEF GoodTimers
<1>4. UNCHANGED scanner => \A s \in Scanners : GoodScan(s)
  BY DEF GoodScan
<1>5. worker' = [worker EXCEPT ![w] = IdleWorker] => \A v \in Workers : GoodWorker(v)
  BY <1>0 DEF GoodWorker
<1>6. CASE WorkerMove(w)
  <2>1. \A v \in Workers : GoodWorker(v)
    BY <1>6 DEF GoodWorker, WorkerMove
  <2>2. UNCHANGED <<events, tasks, timers, scanner>>
    BY <1>6 DEF WorkerMove, tables
  <2>3. QED
    BY <1>1, <1>2, <1>3, <1>4, <2>1, <2>2
<1>7. ASSUME NEW t \in tasks, Poll(w, t) PROVE CauseGood
  <2>1. tasks' = SetLease({t}, TRUE) /\ UNCHANGED <<events, timers, scanner>>
    BY <1>7 DEF Poll
  <2>2. GoodTasks
    <3>1. \A u \in SetLease({t}, TRUE) : \E v \in tasks : SameTask(u, v)
      BY <1>0, LeaseRows
    <3>2. QED
      BY <2>1, <3>1 DEF GoodTasks
  <2>3. \A v \in Workers : GoodWorker(v)
    <3> DEFINE new == [IdleWorker EXCEPT
                         !.pc = IF t.kind = "workflow" THEN "polled" ELSE "working", !.task = t]
    <3>1. worker' = [worker EXCEPT ![w] = new]
      BY <1>7 DEF Poll
    <3>2. /\ new.task = t
          /\ \/ new.pc = "polled" /\ t.kind = "workflow"
             \/ new.pc = "working" /\ t.kind = "activity"
      BY <1>0, IdleTypes DEF WorkerState, Task
    <3> HIDE DEF new
    <3>3. QED
      BY <1>0, <3>1, <3>2 DEF GoodWorker
  <2>4. QED
    BY <1>1, <1>3, <1>4, <2>1, <2>2, <2>3
<1>8. CASE DiscardWorkflowTask(w)
  BY <1>1, <1>2, <1>3, <1>4, <1>5, <1>8 DEF DiscardWorkflowTask, CompleteTask
<1>9. CASE CommitRetry(w)
  <2> DEFINE t == worker[w].task
             a == ActivityTask(serial + 1, t.run, t.sched, t.key, t.attempt + 1, TRUE)
  <2>1. worker[w].pc = "retry" /\ tasks' = CompleteTask(t.id) \cup {a}
        /\ UNCHANGED <<events, timers, scanner>> /\ worker' = [worker EXCEPT ![w] = IdleWorker]
    BY <1>9 DEF CommitRetry
  <2>2. a.run = t.run /\ a.sched = t.sched /\ a.key = t.key
    BY DEF ActivityTask
  <2>3. PICK u \in Task : u = t
    BY <1>0
  <2>4. Scheduled(u)'
    <3>1. Holds(w, u) /\ u.kind = "activity"
      BY <2>1, <2>3 DEF KindsFit, Holds, Busy
    <3>2. Scheduled(u)
      BY <3>1 DEF HoldersCaused
    <3>3. QED
      BY <1>0, <1>1, <2>1, <3>2, CausesStay
  <2> HIDE DEF a
  <2>5. ASSUME NEW v \in tasks' PROVE v \in tasks \/ Scheduled(v)'
    <3>1. v \in tasks \/ (v.run = u.run /\ v.sched = u.sched /\ v.key = u.key)
      BY <2>1, <2>2, <2>3, <2>5 DEF CompleteTask
    <3>2. QED
      BY <2>4, <3>1 DEF Scheduled
  <2>6. GoodTasks
    BY <2>5 DEF GoodTasks, SameTask
  <2>7. QED
    BY <1>1, <1>3, <1>4, <1>5, <2>1, <2>6
<1>10. CASE CommitActivityTask(w)
  <2>1. /\ worker[w].pc = "ready" /\ worker[w].task.kind = "activity"
        /\ InsertEvents(OutcomeEvents(w))
        /\ tasks' = CompleteTask(worker[w].task.id) \cup
                      WakeTask(worker[w].task.run, worker[w].next)
        /\ worker' = [worker EXCEPT ![w] = IdleWorker] /\ UNCHANGED <<timers, scanner>>
    BY <1>10 DEF CommitActivityTask, OutcomeEvents, OutcomeType
  <2>2. PICK t \in Task : t = worker[w].task
    BY <1>0
  <2>3. PICK e \in Event : /\ e.id = worker[w].next /\ e.key = t.key
                           /\ e.type \in ActivityOutcomes
                           /\ OutcomeEvents(w) = EventsOf(t.run, <<e>>)
    BY <1>0, <2>2, CommitEvents DEF OutcomeEvents, OutcomeType, ActivityOutcomes
  <2>4. Scheduled(t) /\ t.sched < e.id
    BY <2>1, <2>2, <2>3 DEF HoldersCaused, Holds, Busy
  <2>5. PICK new : new = OutcomeEvents(w)
    OBVIOUS
  <2>6. new \in [Runs -> Seq(Event)]
        /\ \A q \in Runs : \A i \in DOMAIN new[q] : q = t.run /\ new[q][i] = e
    BY <1>0, <2>2, <2>3, <2>5, OneEvent
  <2>7. Grown
    BY <1>0, <2>1, <2>5, <2>6, InsertsGrow
  <2>8. Answers(t.run, e)'
    <3>1. Scheduled(t)' /\ t.sched \in Nat
      BY <1>0, <2>4, <2>7, CausesStay DEF Task
    <3>2. QED
      BY <2>3, <2>4, <3>1 DEF Answers, Causes, Scheduled, ActivityOutcomes
  <2>9. GoodEvents
    BY <1>0, <2>1, <2>5, <2>6, <2>8, InsertedLogged DEF GoodEvents
  <2>10. GoodTasks
    BY <1>2, <2>1, NewRows DEF CompleteTask, WakeTask
  <2>11. QED
    BY <1>3, <1>4, <1>5, <2>1, <2>7, <2>9, <2>10
<1>11. CASE CommitWorkflowTask(w)
  <2> DEFINE new == DecisionEvents(w)
  <2>1. PICK r \in Runs : r = worker[w].task.run
    BY <1>0
  <2>2. InsertEvents(new) /\ new \in [Runs -> Seq(Event)]
    BY <1>0, <1>11, Decisions, DecisionCommit
  <2>3. Grown
    BY <1>0, <2>2, InsertsGrow
  <2>4. \A q \in Runs, e \in Event : Logged(q, e)' =>
          \/ Logged(q, e)
          \/ \E i \in 1..Len(worker[w].cmds) : e.type = Recorded[worker[w].cmds[i].type]
                                               /\ worker[w].cmds[i] \in Command
    <3>1. \A q \in Runs : \A i \in DOMAIN new[q] :
            /\ i \in 1..Len(worker[w].cmds) /\ worker[w].cmds[i] \in Command
            /\ new[q][i].type = Recorded[worker[w].cmds[i].type]
      BY <1>0, Decisions
    <3> HIDE DEF new
    <3>2. ASSUME NEW q \in Runs, NEW e \in Event, Logged(q, e)', ~Logged(q, e)
          PROVE  \E i \in DOMAIN new[q] : new[q][i] = e
      BY <1>0, <2>2, <3>2, InsertedLogged
    <3>3. QED
      BY <3>1, <3>2
  <2>5. GoodEvents
    <3>1. \A c \in Command : Recorded[c.type] \notin ActivityOutcomes \cup {"TimerFired"}
      BY DEF Command, CommandTypes, Recorded, ActivityOutcomes
    <3>2. QED
      BY <2>4, <3>1, PlainEvents DEF GoodEvents
  <2>6. GoodTasks
    <3>1. ASSUME NEW t \in tasks', t \notin tasks
          PROVE  Scheduled(t)'
      <4>1. PICK i \in 1..Len(worker[w].cmds) :
              /\ t.run = r /\ worker[w].cmds[i].type = "ScheduleActivity"
              /\ t.sched = Decision(w, i).id /\ t.key = worker[w].cmds[i].key
        BY <1>0, <1>11, <2>1, <3>1, DecisionCommit
      <4>2. PICK e \in Event : /\ e = Decision(w, i) /\ e.type = "ActivityScheduled"
                               /\ e.key = t.key /\ e.id = t.sched
                               /\ i \in DOMAIN new[r] /\ new[r][i] = e
        <5>1. /\ Decision(w, i) \in Event /\ new[r][i] = Decision(w, i)
              /\ Decision(w, i).type = Recorded[worker[w].cmds[i].type]
              /\ Decision(w, i).key = worker[w].cmds[i].key /\ i \in DOMAIN new[r]
          BY <1>0, <2>1, <4>1, Decisions
        <5>2. Recorded["ScheduleActivity"] = "ActivityScheduled"
          BY DEF Recorded
        <5> HIDE DEF new
        <5>3. QED
          BY <4>1, <5>1, <5>2
      <4> HIDE DEF new
      <4>3. Logged(r, e)'
        BY <1>0, <2>2, <4>2, InsertedLogged
      <4>4. QED
        BY <4>1, <4>2, <4>3 DEF Logged, Scheduled, Caused
    <3>2. QED
      BY <3>1 DEF GoodTasks, SameTask
  <2>7. GoodTimers
    <3>1. ASSUME NEW t \in timers', t \notin timers
          PROVE  Started(t)'
      <4>1. PICK i \in 1..Len(worker[w].cmds) :
              /\ t.run = r /\ worker[w].cmds[i].type = "StartTimer"
              /\ t.key = worker[w].cmds[i].key
        BY <1>0, <1>11, <2>1, <3>1, DecisionCommit
      <4>2. PICK e \in Event : /\ e = Decision(w, i) /\ e.type = "TimerStarted"
                               /\ e.key = t.key
                               /\ i \in DOMAIN new[r] /\ new[r][i] = e
        <5>1. /\ Decision(w, i) \in Event /\ new[r][i] = Decision(w, i)
              /\ Decision(w, i).type = Recorded[worker[w].cmds[i].type]
              /\ Decision(w, i).key = worker[w].cmds[i].key /\ i \in DOMAIN new[r]
          BY <1>0, <2>1, <4>1, Decisions
        <5>2. Recorded["StartTimer"] = "TimerStarted"
          BY DEF Recorded
        <5> HIDE DEF new
        <5>3. QED
          BY <4>1, <5>1, <5>2
      <4> HIDE DEF new
      <4>3. Logged(r, e)' /\ e.id \in Nat
        BY <1>0, <2>2, <4>2, InsertedLogged DEF Event
      <4>4. QED
        BY <4>1, <4>2, <4>3 DEF Logged, Started, Caused
    <3>2. QED
      BY <3>1 DEF GoodTimers
  <2>8. worker' = [worker EXCEPT ![w] = IdleWorker] /\ UNCHANGED scanner
    BY <1>11 DEF CommitWorkflowTask
  <2>9. QED
    BY <1>4, <1>5, <2>3, <2>5, <2>6, <2>7, <2>8
<1>12. QED
  BY <1>0, <1>6, <1>7, <1>8, <1>9, <1>10, <1>11, WorkerMoves

LEMMA CauseScanner ==
  ASSUME CauseInv, NEW s \in Scanners, ScannerNext(s)
  PROVE  CauseGood
<1> USE DEF CauseInv, CauseGood
<1>0. /\ TypeInv /\ timers \subseteq Timer /\ scanner \in [Scanners -> ScannerState]
      /\ scanner[s].batch \in [Runs -> Seq(Event)]
      /\ IdleScanner \in ScannerState /\ IdleScanner.due = {} /\ IdleScanner.wakes = {}
      /\ \A r \in Runs : IdleScanner.batch[r] = <<>>
  BY IdleTypes
  DEF IDInv, TypeInv, TypeOK, TablesTypeOK, ScannerState, IdleScanner
<1>1. UNCHANGED events => Grown /\ GoodEvents
  BY DEF Grown, GoodEvents, Logged
<1>2. (\A t \in tasks' : t \in tasks \/ t.kind = "workflow") => GoodTasks
  BY DEF GoodTasks, SameTask
<1>3. UNCHANGED timers => GoodTimers
  BY DEF GoodTimers
<1>4. UNCHANGED worker => \A w \in Workers : GoodWorker(w)
  BY DEF GoodWorker
<1>5. scanner' = [scanner EXCEPT ![s] = IdleScanner] => \A z \in Scanners : GoodScan(z)
  BY <1>0 DEF GoodScan
<1>6. ASSUME NEW due \in SUBSET timers, ScanSelect(s, due) PROVE CauseGood
  <2> DEFINE new == [IdleScanner EXCEPT !.pc = "scanning", !.due = due]
  <2>1. new.due = due /\ new.batch = IdleScanner.batch /\ new.wakes = {}
    BY <1>0 DEF ScannerState
  <2>2. scanner' = [scanner EXCEPT ![s] = new] /\ UNCHANGED <<events, tasks, timers, worker>>
    BY <1>6 DEF ScanSelect, tables
  <2> HIDE DEF new
  <2>3. \A z \in Scanners : GoodScan(z)
    BY <1>0, <2>1, <2>2 DEF GoodScan
  <2>4. QED
    BY <1>1, <1>2, <1>3, <1>4, <2>2, <2>3
<1>7. ASSUME NEW t \in scanner[s].due, ScanTimer(s, t) PROVE CauseGood
  <2>1. ScanTurn(s, t)
    BY <1>0, <1>7, ScanTurns
  <2>2. \A z \in Scanners : GoodScan(z)
    <3>1. \A z \in Scanners \ {s} : scanner'[z] = scanner[z]
      BY <2>1 DEF ScanTurn
    <3>2. QED
      BY <2>1, <3>1 DEF GoodScan
  <2>3. UNCHANGED <<events, tasks, timers, worker>>
    BY <2>1 DEF ScanTurn, tables
  <2>4. QED
    BY <1>1, <1>2, <1>3, <1>4, <2>2, <2>3
<1>8. CASE ScanCommit(s)
  <2>1. /\ InsertEvents(scanner[s].batch) /\ timers' = MarkTimerFired(scanner[s].fired)
        /\ tasks' = tasks \cup {[t EXCEPT !.id = serial + @] : t \in scanner[s].wakes}
        /\ scanner' = [scanner EXCEPT ![s] = IdleScanner] /\ UNCHANGED worker
    BY <1>8 DEF ScanCommit
  <2>2. Grown
    BY <1>0, <2>1, InsertsGrow
  <2>3. GoodEvents
    <3>1. ASSUME NEW r \in Runs, NEW e \in Event, Logged(r, e)', ~Logged(r, e)
          PROVE  Answers(r, e)'
      <4>1. Batched(s, r, e)
        BY <1>0, <2>1, <3>1, InsertedLogged DEF Batched
      <4>2. Answers(r, e)
        BY <4>1 DEF ScansCaused
      <4>3. QED
        BY <1>0, <2>2, <4>2, CausesStay
    <3>2. QED
      BY <3>1 DEF GoodEvents
  <2>4. GoodTimers
    BY <1>0, <2>1, FiredRows DEF GoodTimers, FiredRow
  <2>5. GoodTasks
    <3>1. \A t \in scanner[s].wakes : t \in Task /\ t.kind = "workflow"
      BY <1>0 DEF KindsFit, TypeInv, TypeOK, ScannerState
    <3>2. \A t \in scanner[s].wakes : [t EXCEPT !.id = serial + @].kind = "workflow"
      BY <3>1 DEF Task
    <3>3. QED
      BY <1>2, <2>1, <3>2
  <2>6. QED
    BY <1>4, <1>5, <2>1, <2>2, <2>3, <2>4, <2>5
<1>9. CASE ScanAbort(s)
  BY <1>1, <1>2, <1>3, <1>4, <1>5, <1>9 DEF ScanAbort, tables
<1>10. QED
  BY <1>6, <1>7, <1>8, <1>9 DEF ScannerNext

LEMMA CauseSteps == CauseInv /\ [Next]_vars => CauseGood
<1> SUFFICES ASSUME CauseInv, [Next]_vars PROVE CauseGood
  OBVIOUS
<1> USE DEF CauseGood
<1>0. /\ IDInv /\ TypeInv /\ tasks \subseteq Task /\ timers \subseteq Timer
  BY DEF CauseInv, IDInv, TypeInv, TypeOK, TablesTypeOK
<1>1. UNCHANGED events => Grown /\ GoodEvents
  BY DEF Grown, GoodEvents, Logged
<1>2. (\A t \in tasks' : t \in tasks \/ t.kind = "workflow") => GoodTasks
  BY DEF GoodTasks, SameTask
<1>3. UNCHANGED timers => GoodTimers
  BY DEF GoodTimers
<1>4. UNCHANGED <<worker, scanner>> =>
        (\A w \in Workers : GoodWorker(w)) /\ (\A s \in Scanners : GoodScan(s))
  BY DEF GoodWorker, GoodScan
<1>5. ASSUME NEW c \in Clients, NEW e \in Event, NEW r \in Runs,
             e.type \notin ActivityOutcomes \cup {"TimerFired"},
             InsertEvents(EventsOf(r, <<e>>)), UNCHANGED <<timers, worker, scanner>>,
             \A t \in tasks' : t \in tasks \/ t.kind = "workflow"
      PROVE  CauseGood
  <2>1. PICK new : new = EventsOf(r, <<e>>)
    OBVIOUS
  <2>2. new \in [Runs -> Seq(Event)] /\ \A q \in Runs : \A i \in DOMAIN new[q] : new[q][i] = e
    BY <2>1, OneEvent
  <2>3. Grown /\ GoodEvents
    BY <1>0, <1>5, <2>1, <2>2, InsertsGrow, InsertedLogged, PlainEvents DEF GoodEvents
  <2>4. QED
    BY <1>0, <1>2, <1>3, <1>4, <1>5, <2>3
<1>6. ASSUME NEW c \in Clients, ClientNext(c) PROVE CauseGood
  <2>1. CASE ClientMove(c)
    BY <1>0, <1>1, <1>2, <1>3, <1>4, <2>1 DEF ClientMove, tables
  <2>2. CASE StartCommit(c)
    <3> DEFINE e == [id |-> 1, type |-> "WorkflowStarted", key |-> 0]
    <3>1. PICK r \in Runs : r = client[c].run
      BY <1>0, <2>2, CommitEvents DEF StartCommit
    <3>2. /\ InsertEvents(EventsOf(r, <<e>>)) /\ UNCHANGED <<timers, worker, scanner>>
          /\ \A t \in tasks' : t \in tasks \/ t.kind = "workflow"
      BY <2>2, <3>1, NewRows DEF StartCommit
    <3>3. e \in Event /\ e.type \notin ActivityOutcomes \cup {"TimerFired"}
      BY <1>0, CommitEvents DEF ActivityOutcomes
    <3> HIDE DEF e
    <3>4. QED
      BY <1>5, <3>2, <3>3
  <2>3. CASE SignalCommit(c)
    <3> DEFINE e == [id |-> client[c].next, type |-> "SignalReceived", key |-> 0]
    <3>1. PICK r \in Runs : r = client[c].run
      BY <1>0, <2>3, CommitEvents DEF SignalCommit
    <3>2. /\ InsertEvents(EventsOf(r, <<e>>)) /\ UNCHANGED <<timers, worker, scanner>>
          /\ \A t \in tasks' : t \in tasks \/ t.kind = "workflow"
      BY <2>3, <3>1, NewRows DEF SignalCommit
    <3>3. e \in Event /\ e.type \notin ActivityOutcomes \cup {"TimerFired"}
      BY <1>0, CommitEvents DEF ActivityOutcomes
    <3>4. PICK f : f = e
      OBVIOUS
    <3> HIDE DEF e
    <3>5. QED
      BY <1>5, <3>2, <3>3, <3>4
  <2>4. QED
    BY <1>0, <1>6, <2>1, <2>2, <2>3, ClientMoves
<1>7. CASE EngineNext
  <2>1. UNCHANGED <<events, worker, scanner>>
    BY <1>7 DEF EngineNext, ReclaimExpiredLeases, BackoffElapses, TimerDue
  <2>2. GoodTasks /\ GoodTimers
    <3>1. ASSUME NEW expired, ReclaimExpiredLeases(expired) PROVE GoodTasks /\ GoodTimers
      BY <1>0, <1>3, <3>1, LeaseRows DEF ReclaimExpiredLeases, GoodTasks
    <3>2. ASSUME NEW t \in tasks, BackoffElapses(t) PROVE GoodTasks /\ GoodTimers
      <4>1. SameTask([t EXCEPT !.hidden = FALSE], t)
        BY <1>0 DEF Task, SameTask
      <4>2. QED
        BY <1>3, <3>2, <4>1 DEF BackoffElapses, GoodTasks, SameTask
    <3>3. ASSUME NEW t \in timers, TimerDue(t) PROVE GoodTasks /\ GoodTimers
      <4>1. [t EXCEPT !.state = "due"].run = t.run /\ [t EXCEPT !.state = "due"].key = t.key
        BY <1>0 DEF Timer
      <4>2. QED
        BY <1>2, <3>3, <4>1 DEF TimerDue, GoodTimers
    <3>4. QED
      BY <1>7, <3>1, <3>2, <3>3 DEF EngineNext
  <2>3. QED
    BY <1>0, <1>1, <1>4, <2>1, <2>2
<1>8. CASE UNCHANGED vars
  BY <1>0, <1>1, <1>2, <1>3, <1>4, <1>8 DEF vars
<1>9. QED
  BY <1>0, <1>6, <1>7, <1>8, CauseWorker, CauseScanner DEF Next

LEMMA CauseStep == CauseInv /\ [Next]_vars => CauseInv'
BY CauseSteps, CauseFrame, IDStep DEF CauseInv

\* Replay finds the event that an outcome answers before the outcome, however
\* handlers interleave and whichever of them fail: an activity is scheduled
\* before it completes or fails, a timer started before it fires.
THEOREM CausesComeFirst == Spec => []OutcomeAfterCause
<1>1. Spec => []CauseInv
  BY CauseInit, CauseStep, PTL DEF Spec
<1>2. CauseInv => OutcomeAfterCause
  <2> SUFFICES ASSUME CauseInv, NEW r \in Runs, NEW i \in DOMAIN events[r],
                      HasType(r, i, ActivityOutcomes \cup {"TimerFired"})
               PROVE  \E j \in DOMAIN events[r] :
                        /\ HasType(r, j, {Causes[events[r][i].type]})
                        /\ events[r][j].key = events[r][i].key
                        /\ events[r][j].id < events[r][i].id
    BY DEF OutcomeAfterCause
  <2>1. events[r] \in Seq(Event)
    BY DEF CauseInv, IDInv, TypeInv, TypeOK, TablesTypeOK
  <2>2. PICK e \in Event : e = events[r][i]
    BY <2>1, ElementOfSeq, LenProperties
  <2>3. Answers(r, e)
    BY <2>2 DEF CauseInv, EventsCaused, Logged
  <2>4. e.type \in DOMAIN Causes
    BY <2>2 DEF HasType, Causes
  <2>5. QED
    BY <2>2, <2>3, <2>4 DEF Answers, Caused, HasType
<1>3. QED
  BY <1>1, <1>2, PTL

=============================================================================
