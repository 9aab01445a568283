----------------------------- MODULE TableProofs ----------------------------
(***************************************************************************)
(* Theorems about the rows that History keeps for work to come, and with   *)
(* them the whole of what DurableRun promises: a scheduled activity and an *)
(* event that wakes a workflow up are never without the task that carries  *)
(* them on, each row of timers stands for one TimerStarted event, each     *)
(* fired one for one TimerFired event, and every commit is a step of the   *)
(* log.                                                                    *)
(***************************************************************************)
EXTENDS RunProofs

-----------------------------------------------------------------------------
(* The invariant of tasks *)

\* Rows have ids of their own from the sequence.
RowIDs ==
  /\ \A t \in tasks : t.id <= serial
  /\ \A t, u \in tasks : t.id = u.id => t = u

\* The id in a worker's hands is that of the row it was given, if that row is
\* still there, and of no row inserted since.
HeldIDs ==
  \A w \in Workers : Busy(w) =>
    /\ worker[w].task.id <= serial
    /\ \A t \in tasks : t.id = worker[w].task.id => SameTask(t, worker[w].task)

\* A scan inserts a row of its own for each timer it fires.
WakeIDs ==
  \A s \in Scanners :
    /\ \A t \in scanner[s].wakes : t.id \in 1..Cardinality(scanner[s].wakes)
    /\ \A t, u \in scanner[s].wakes : t.id = u.id => t = u
    /\ \A r \in Runs : \A i \in DOMAIN scanner[s].batch[r] :
         \E t \in scanner[s].wakes : t.run = r

\* An answer is only discarded when its run is over, and stays over.
ClosedHeld ==
  \A w \in Workers : worker[w].pc = "closed" => execs[worker[w].task.run].status \in Closed

\* ActivityNotLost, event by event.
Pending(r, k, n) ==
  \E t \in tasks : t.kind = "activity" /\ t.run = r /\ t.sched = n /\ t.key = k

Resolved(r, k, n) ==
  \E j \in DOMAIN events[r] :
    events[r][j].type \in ActivityOutcomes /\ events[r][j].key = k /\ events[r][j].id > n

Carried ==
  \A r \in Runs, e \in Event : Logged(r, e) /\ e.type = "ActivityScheduled" =>
    Pending(r, e.key, e.id) \/ Resolved(r, e.key, e.id)

TaskInv ==
  /\ CauseInv /\ RunInv
  /\ RowIDs /\ HeldIDs /\ WakeIDs /\ ClosedHeld
  /\ Carried /\ WakeNotLost

LEMMA TaskInit == Init => TaskInv
<1> SUFFICES ASSUME Init PROVE TaskInv
  OBVIOUS
<1>1. /\ tasks = {}
      /\ \A r \in Runs : events[r] = <<>>
      /\ \A w \in Workers : worker[w].pc = "idle"
      /\ \A s \in Scanners : /\ scanner[s].wakes = {}
                             /\ \A r \in Runs : scanner[s].batch[r] = <<>>
  BY DEF Init, TablesInit, IdleWorker, IdleScanner
<1>2. DOMAIN <<>> = {}
  OBVIOUS
<1>3. QED
  BY <1>1, <1>2, CauseInit, RunInit
  DEF TaskInv, RowIDs, HeldIDs, Busy, WakeIDs, ClosedHeld, Carried, Logged, WakeNotLost

-----------------------------------------------------------------------------
(* What a step does to the rows of tasks, those with ids in D being deleted *)

RowsKept(D) ==
  /\ serial \in Nat /\ serial' \in Nat /\ serial <= serial'
  /\ \A t \in tasks' : \/ \E u \in tasks : u.id \notin D /\ SameTask(t, u)
                       \/ serial < t.id /\ t.id <= serial'
  /\ \A u \in tasks : u.id \notin D => \E t \in tasks' : SameTask(t, u)
  /\ \A t, u \in tasks' : t.id = u.id => t = u

\* A deleted activity task leaves its next attempt or its outcome; a deleted
\* workflow task was answered for all the history its worker had seen, or its
\* run is over.
DeletesAnswered(D) ==
  \A u \in tasks : u.id \in D =>
    /\ u.kind = "activity" => (Pending(u.run, u.key, u.sched) \/ Resolved(u.run, u.key, u.sched))'
    /\ u.kind = "workflow" =>
         \E w \in Workers : /\ worker[w].task.id = u.id
                            /\ \/ worker[w].pc = "closed"
                               \/ /\ worker[w].pc = "ready"
                                  /\ worker[w].seen <= decided'[u.run]

\* New events come with the rows they need.
EventsCarried ==
  /\ \A r \in Runs, e \in Event : Logged(r, e)' /\ e.type = "ActivityScheduled" =>
       Logged(r, e) \/ Pending(r, e.key, e.id)'
  /\ \A r \in Runs : \A i \in DOMAIN events'[r] :
       i \notin DOMAIN events[r] /\ HasType(r, i, WakeTypes)' =>
         \E t \in tasks' : t.kind = "workflow" /\ t.run = r /\ serial < t.id
  /\ \A r \in Runs : decided[r] <= decided'[r]

TaskGood == EventsCarried /\ \E D : RowsKept(D) /\ DeletesAnswered(D)

\* What a worker holds after a step it held before, or was given by the step.
LEMMA HeldAfter ==
  ASSUME TaskInv, CauseGood, NEW w \in Workers, worker'[w].pc # "idle"
  PROVE  \/ Busy(w) /\ worker'[w].task = worker[w].task
         \/ worker'[w].task \in tasks
BY DEF CauseGood, GoodWorker, WorkerMove, IdleWorker, Busy

\* A worker that has answered, or has read a history without the event, did
\* not get there by this step.
LEMMA StaleBefore ==
  ASSUME TaskInv, CauseGood, NEW w \in Workers, NEW u \in tasks, NEW r \in Runs,
         NEW i \in DOMAIN events[r], u.kind = "workflow", u.run = r,
         worker'[w].pc \notin {"idle", "polled"}, worker'[w].task.id = u.id,
         worker'[w].seen < i
  PROVE  StaleHolder(u, i)
<1>1. CASE worker'[w] = worker[w]
  BY <1>1 DEF StaleHolder
<1>2. CASE WorkerMove(w)
  <2>1. Busy(w) /\ worker'[w].task = worker[w].task
    BY <1>2 DEF WorkerMove, IdleWorker, Busy
  <2>2. worker'[w].task.run = r
    BY <2>1 DEF TaskInv, HeldIDs, SameTask
  <2>3. Len(events[r]) \in Nat /\ DOMAIN events[r] = 1..Len(events[r])
    BY LenProperties DEF TaskInv, RunInv, TypeInv, TypeOK, TablesTypeOK
  <2>4. ~(worker'[w].seen = Len(events[worker'[w].task.run]))
    BY <2>2, <2>3
  <2>5. worker'[w].seen = worker[w].seen /\ worker[w].pc \notin {"idle", "polled"}
    BY <1>2, <2>4 DEF WorkerMove, IdleWorker
  <2>6. QED
    BY <2>1, <2>5 DEF StaleHolder
<1>3. CASE worker'[w].task \in tasks /\ worker'[w].task.kind = "activity"
  BY <1>3 DEF TaskInv, RowIDs
<1>4. QED
  BY <1>1, <1>2, <1>3 DEF CauseGood, GoodWorker

LEMMA TaskFrame ==
  ASSUME TaskInv, CauseInv', RunInv', CauseGood, StaysClosed, TaskGood
  PROVE  TaskInv'
<1> USE DEF TaskInv
<1>0. PICK D : RowsKept(D) /\ DeletesAnswered(D)
  BY DEF TaskGood
<1>a. /\ TypeInv /\ tasks \subseteq Task /\ tasks' \subseteq Task
      /\ \A t \in Task : t.id \in Nat /\ t.run \in Runs
      /\ \A w \in Workers : worker[w].task \in Task /\ worker'[w].task \in Task
      /\ events \in [Runs -> Seq(Event)] /\ events' \in [Runs -> Seq(Event)]
      /\ serial \in Nat /\ serial' \in Nat
      /\ \A r \in Runs : decided[r] \in Nat /\ decided'[r] \in Nat
  BY DEF RunInv, TypeInv, TypeOK, TablesTypeOK, WorkerState, Task
<1>b. \A t \in tasks' : \/ \E u \in tasks : u.id \notin D /\ SameTask(t, u)
                        \/ serial < t.id
  BY <1>0 DEF RowsKept
<1>1. RowIDs'
  <2>1. ASSUME NEW t \in tasks' PROVE t.id <= serial'
    <3>1. serial <= serial'
      BY <1>0 DEF RowsKept
    <3>2. (\E u \in tasks : t.id = u.id) \/ t.id <= serial'
      BY <1>0 DEF RowsKept, SameTask
    <3>3. t.id \in Nat /\ \A u \in tasks : u.id \in Nat /\ u.id <= serial
      BY <1>a DEF RowIDs
    <3>4. QED
      BY <1>a, <3>1, <3>2, <3>3
  <2>2. QED
    BY <1>0, <2>1 DEF RowsKept, RowIDs
<1>2. ASSUME NEW w \in Workers, worker'[w].pc # "idle"
      PROVE  worker'[w].task.id \in Nat /\ worker'[w].task.id <= serial
  BY <1>a, <1>2, HeldAfter DEF HeldIDs, RowIDs
<1>3. HeldIDs'
  <2>1. ASSUME NEW w \in Workers, worker'[w].pc # "idle",
               NEW t \in tasks', t.id = worker'[w].task.id
        PROVE  SameTask(t, worker'[w].task)
    <3>1. ~(serial < t.id)
      BY <1>a, <1>2, <2>1
    <3>2. PICK u \in tasks : SameTask(t, u)
      BY <1>b, <3>1
    <3>3. SameTask(u, worker'[w].task)
      <4>1. u.id = worker'[w].task.id
        BY <2>1, <3>2 DEF SameTask
      <4>2. CASE Busy(w) /\ worker'[w].task = worker[w].task
        BY <4>1, <4>2 DEF HeldIDs
      <4>3. CASE worker'[w].task \in tasks
        <5>1. u = worker'[w].task
          BY <4>1, <4>3 DEF RowIDs
        <5>2. QED
          BY <5>1 DEF SameTask
      <4>4. QED
        BY <2>1, <4>2, <4>3, HeldAfter
    <3>4. QED
      BY <3>2, <3>3 DEF SameTask
  <2>2. \A w \in Workers : worker'[w].pc # "idle" => worker'[w].task.id <= serial'
    <3>1. serial <= serial'
      BY <1>0 DEF RowsKept
    <3>2. QED
      BY <1>2, <1>a, <3>1
  <2>3. QED
    BY <2>1, <2>2 DEF HeldIDs, Busy
<1>4. WakeIDs'
  <2> SUFFICES ASSUME NEW s \in Scanners
               PROVE  /\ \A t \in scanner'[s].wakes : t.id \in 1..Cardinality(scanner'[s].wakes)
                      /\ \A t, u \in scanner'[s].wakes : t.id = u.id => t = u
                      /\ \A r \in Runs : \A i \in DOMAIN scanner'[s].batch[r] :
                           \E t \in scanner'[s].wakes : t.run = r
    BY DEF WakeIDs
  <2>1. CASE scanner'[s] = scanner[s]
    BY <2>1 DEF WakeIDs
  <2>2. CASE scanner'[s].wakes = {} /\ \A r \in Runs : scanner'[s].batch[r] = <<>>
    <3>1. DOMAIN <<>> = {}
      OBVIOUS
    <3>2. QED
      BY <2>2, <3>1
  <2>3. ASSUME NEW t \in scanner[s].due, ScanTurn(s, t)
        PROVE  /\ \A v \in scanner'[s].wakes : v.id \in 1..Cardinality(scanner'[s].wakes)
               /\ \A v, u \in scanner'[s].wakes : v.id = u.id => v = u
               /\ \A r \in Runs : \A i \in DOMAIN scanner'[s].batch[r] :
                    \E v \in scanner'[s].wakes : v.run = r
    <3> DEFINE W == scanner[s].wakes
               m == Cardinality(W)
               x == WorkflowTask(m + 1, t.run, NextEventID(t.run))
    <3>1. /\ IsFiniteSet(W) /\ m \in Nat /\ scanner'[s].wakes = W \cup {x}
          /\ \A v \in W : v.id \in 1..m
          /\ \A v, u \in W : v.id = u.id => v = u
      BY <2>3 DEF ScanTurn, WakeIDs
    <3>2. x.id = m + 1 /\ x.run = t.run
      BY DEF WorkflowTask
    <3>3. \A r \in Runs : r # t.run => scanner'[s].batch[r] = scanner[s].batch[r]
      BY <2>3 DEF ScanTurn
    <3>4. \A r \in Runs : \A i \in DOMAIN scanner'[s].batch[r] :
            \E v \in scanner'[s].wakes : v.run = r
      BY <3>1, <3>2, <3>3 DEF WakeIDs
    <3> HIDE DEF W, x
    <3>5. x \notin W
      BY <3>1, <3>2
    <3>6. Cardinality(scanner'[s].wakes) = m + 1
      BY <3>1, <3>5, FS_AddElement
    <3> HIDE DEF m
    <3>7. QED
      BY <3>1, <3>2, <3>4, <3>6
  <2>4. QED
    BY <2>1, <2>2, <2>3 DEF CauseGood, GoodScan
<1>5. ClosedHeld'
  <2> SUFFICES ASSUME NEW w \in Workers, worker'[w].pc = "closed"
               PROVE  execs'[worker'[w].task.run].status \in Closed
    BY DEF ClosedHeld
  <2>1. PICK r \in Runs : r = worker'[w].task.run
    BY <1>a
  <2>2. execs[r].status \in Closed
    <3>1. CASE worker'[w] = worker[w]
      BY <2>1, <3>1 DEF ClosedHeld
    <3>2. CASE WorkerMove(w)
      <4>1. ~IsRunning(r) /\ Busy(w) /\ worker[w].task.run = r
        BY <2>1, <3>2 DEF WorkerMove, IdleWorker, Busy
      <4>2. execs[r].status # "Absent" /\ execs[r] \in Execution
        BY <4>1 DEF RunInv, ProcessesKnown, Absent, TypeInv, TypeOK, TablesTypeOK
      <4>3. QED
        BY <4>1, <4>2 DEF IsRunning, Execution
    <3>3. QED
      BY <3>1, <3>2 DEF CauseGood, GoodWorker
  <2>3. QED
    BY <2>1, <2>2 DEF StaysClosed
<1>6. Carried'
  <2> SUFFICES ASSUME NEW r \in Runs, NEW e \in Event, Logged(r, e)', e.type = "ActivityScheduled"
               PROVE  Pending(r, e.key, e.id)' \/ Resolved(r, e.key, e.id)'
    BY DEF Carried
  <2>1. CASE ~Logged(r, e)
    BY <2>1 DEF TaskGood, EventsCarried
  <2>2. CASE Resolved(r, e.key, e.id)
    BY <2>2 DEF Resolved, CauseGood, Grown
  <2>3. CASE Pending(r, e.key, e.id)
    <3>1. PICK u \in tasks : u.kind = "activity" /\ u.run = r /\ u.sched = e.id /\ u.key = e.key
      BY <2>3 DEF Pending
    <3>2. CASE u.id \in D
      BY <1>0, <3>1, <3>2 DEF DeletesAnswered
    <3>3. CASE u.id \notin D
      <4>1. PICK t \in tasks' : SameTask(t, u)
        BY <1>0, <3>3 DEF RowsKept
      <4>2. QED
        BY <3>1, <4>1 DEF SameTask, Pending
    <3>4. QED
      BY <3>2, <3>3
  <2>4. QED
    BY <2>1, <2>2, <2>3 DEF Carried
<1>7. WakeNotLost'
  <2> SUFFICES ASSUME NEW r \in Runs, IsRunning(r)', NEW i \in DOMAIN events'[r],
                      HasType(r, i, WakeTypes)', i > decided'[r]
               PROVE  \E t \in tasks' : t.kind = "workflow" /\ t.run = r /\ ~StaleHolder(t, i)'
    BY DEF WakeNotLost
  <2>1. CASE i \notin DOMAIN events[r]
    <3>1. PICK t \in tasks' : t.kind = "workflow" /\ t.run = r /\ serial < t.id
      BY <2>1 DEF TaskGood, EventsCarried
    <3>2. ~StaleHolder(t, i)'
      <4>1. t.id \in Nat
        BY <1>a
      <4>2. QED
        BY <1>2, <1>a, <3>1, <4>1 DEF StaleHolder
    <3>3. QED
      BY <3>1, <3>2
  <2>2. CASE i \in DOMAIN events[r]
    <3>1. events'[r][i] = events[r][i]
      BY <2>2 DEF CauseGood, Grown
    <3>2. IsRunning(r)
      <4>1. ~Absent(r)
        <5>1. events[r] # <<>>
          BY <2>2
        <5>2. QED
          BY <5>1 DEF RunInv, HistoryStartsOnce
      <4>2. execs[r].status \notin Closed
        BY DEF StaysClosed, IsRunning, Closed
      <4>3. execs[r] \in Execution
        BY DEF RunInv, TypeInv, TypeOK, TablesTypeOK
      <4>4. QED
        BY <4>1, <4>2, <4>3 DEF Absent, IsRunning, Execution
    <3>3. i \in Nat /\ i > decided[r]
      <4>1. i \in Nat
        BY <1>a, <2>2, LenProperties
      <4>2. decided[r] <= decided'[r]
        BY DEF TaskGood, EventsCarried
      <4>3. QED
        BY <1>a, <4>1, <4>2
    <3>4. PICK u \in tasks : u.kind = "workflow" /\ u.run = r /\ ~StaleHolder(u, i)
      BY <2>2, <3>1, <3>2, <3>3 DEF WakeNotLost, HasType
    <3>5. CASE u.id \in D
      <4>1. PICK w \in Workers : /\ worker[w].task.id = u.id
                                 /\ \/ worker[w].pc = "closed"
                                    \/ worker[w].pc = "ready" /\ worker[w].seen <= decided'[r]
        BY <1>0, <3>4, <3>5 DEF DeletesAnswered
      <4>2. CASE worker[w].pc = "closed"
        <5>1. worker[w].task.run = r
          BY <3>4, <4>1, <4>2 DEF HeldIDs, Busy, SameTask
        <5>2. QED
          BY <3>2, <4>2, <5>1 DEF ClosedHeld, IsRunning, Closed
      <4>3. CASE worker[w].pc = "ready" /\ worker[w].seen <= decided'[r]
        <5>1. worker[w].seen \in Nat
          BY <1>a DEF TypeInv, TypeOK, WorkerState
        <5>2. worker[w].seen < i
          BY <1>a, <3>3, <4>3, <5>1
        <5>3. QED
          BY <3>4, <4>1, <4>3, <5>2 DEF StaleHolder
      <4>4. QED
        BY <4>1, <4>2, <4>3
    <3>6. CASE u.id \notin D
      <4>1. PICK t \in tasks' : SameTask(t, u)
        BY <1>0, <3>6 DEF RowsKept
      <4>2. t.kind = "workflow" /\ t.run = r /\ t.id = u.id
        BY <3>4, <4>1 DEF SameTask
      <4>3. ~StaleHolder(t, i)'
        BY <2>2, <3>4, <4>2, StaleBefore DEF StaleHolder
      <4>4. QED
        BY <4>2, <4>3
    <3>7. QED
      BY <3>5, <3>6
  <2>3. QED
    BY <2>1, <2>2
<1>8. QED
  BY <1>1, <1>3, <1>4, <1>5, <1>6, <1>7

-----------------------------------------------------------------------------
(* What the statements do to the rows *)

\* DELETE and INSERT.
LEMMA RowsReplaced ==
  ASSUME TaskInv, NEW D, NEW N,
         tasks' = {t \in tasks : t.id \notin D} \cup N,
         serial' \in Nat, serial <= serial',
         \A t \in N : t.id \in Nat /\ serial < t.id /\ t.id <= serial',
         \A t, u \in N : t.id = u.id => t = u
  PROVE  RowsKept(D)
<1>1. /\ serial \in Nat /\ \A t \in tasks : t.id \in Nat /\ t.id <= serial
      /\ \A t, u \in tasks : t.id = u.id => t = u
  BY DEF TaskInv, RunInv, TypeInv, TypeOK, TablesTypeOK, Task, RowIDs
<1>2. \A t \in tasks' : (t \in tasks /\ t.id \notin D) \/ t \in N
  OBVIOUS
<1>3. ASSUME NEW t \in tasks', NEW u \in tasks', t.id = u.id PROVE t = u
  <2>1. \A v \in N, x \in tasks : v.id # x.id
    BY <1>1
  <2>2. QED
    BY <1>1, <1>2, <1>3, <2>1
<1>4. QED
  BY <1>1, <1>2, <1>3 DEF RowsKept, SameTask

\* DELETE and INSERT of one row.
LEMMA RowReplaced ==
  ASSUME TaskInv, NEW D, NEW t, t.id = serial + 1, serial' = serial + 1,
         tasks' = {u \in tasks : u.id \notin D} \cup {t}
  PROVE  RowsKept(D)
<1>0. serial \in Nat /\ serial + 1 \in Nat /\ serial < serial + 1
  BY DEF TaskInv, RunInv, TypeInv, TypeOK, TablesTypeOK
<1>1. PICK N : N = {t}
  OBVIOUS
<1>2. tasks' = {u \in tasks : u.id \notin D} \cup N
  BY <1>1
<1>3. /\ \A u \in N : u.id \in Nat /\ serial < u.id /\ u.id <= serial'
      /\ \A u, v \in N : u.id = v.id => u = v
  BY <1>0, <1>1
<1>4. serial' \in Nat /\ serial <= serial'
  BY <1>0
<1>5. QED
  BY <1>2, <1>3, <1>4, RowsReplaced

LEMMA RowAdded ==
  ASSUME TaskInv, NEW t, t.id = serial + 1, serial' = serial + 1, tasks' = tasks \cup {t}
  PROVE  RowsKept({})
<1>1. tasks' = {u \in tasks : u.id \notin {}} \cup {t}
  OBVIOUS
<1>2. QED
  BY <1>1, RowReplaced

\* A transaction that leaves the rows alone.
LEMMA RowsUnchanged ==
  ASSUME TaskInv, UNCHANGED <<tasks, serial>>
  PROVE  RowsKept({})
<1>1. serial \in Nat /\ tasks' = {t \in tasks : t.id \notin {}} \cup {}
  BY DEF TaskInv, RunInv, TypeInv, TypeOK, TablesTypeOK
<1>2. QED
  BY <1>1, RowsReplaced

\* Leases.
LEMMA RowsLeased ==
  ASSUME TaskInv, NEW rows, NEW b \in BOOLEAN, tasks' = SetLease(rows, b), UNCHANGED serial
  PROVE  RowsKept({})
<1>1. /\ serial \in Nat /\ tasks \subseteq Task
      /\ \A t, u \in tasks : t.id = u.id => t = u
  BY DEF TaskInv, RunInv, TypeInv, TypeOK, TablesTypeOK, RowIDs
<1>2. /\ \A t \in tasks' : \E u \in tasks : SameTask(t, u)
      /\ \A u \in tasks : \E t \in tasks' : SameTask(t, u)
  BY <1>1, LeaseRows
<1>3. ASSUME NEW t \in tasks', NEW u \in tasks', t.id = u.id PROVE t = u
  <2> DEFINE f(v) == IF v \in rows THEN [v EXCEPT !.leased = b] ELSE v
  <2>1. \A v \in tasks : f(v).id = v.id
    BY <1>1 DEF Task
  <2>2. PICK v \in tasks : t = f(v)
    BY DEF SetLease
  <2>3. PICK x \in tasks : u = f(x)
    BY DEF SetLease
  <2> HIDE DEF f
  <2>4. v.id = x.id
    BY <1>3, <2>1, <2>2, <2>3
  <2>5. QED
    BY <1>1, <2>2, <2>3, <2>4
<1>4. QED
  BY <1>1, <1>2, <1>3 DEF RowsKept

\* Backoffs.
LEMMA RowsShown ==
  ASSUME TaskInv, NEW t \in tasks, BackoffElapses(t)
  PROVE  RowsKept({})
<1>1. /\ serial \in Nat /\ tasks \subseteq Task
      /\ \A v, u \in tasks : v.id = u.id => v = u
  BY DEF TaskInv, RunInv, TypeInv, TypeOK, TablesTypeOK, RowIDs
<1>2. PICK s : s = [t EXCEPT !.hidden = FALSE]
  OBVIOUS
<1>3. SameTask(s, t)
  BY <1>1, <1>2 DEF Task, SameTask
<1>4. tasks' = (tasks \ {t}) \cup {s} /\ serial' = serial
  BY <1>2 DEF BackoffElapses
<1>5. QED
  BY <1>1, <1>3, <1>4 DEF RowsKept, SameTask

\* Steps that insert no event and decide nothing.
LEMMA QuietCarried ==
  ASSUME TaskInv, UNCHANGED <<events, decided>>
  PROVE  EventsCarried
<1>1. \A r \in Runs : decided[r] \in Nat
  BY DEF TaskInv, RunInv, TypeInv, TypeOK
<1>2. QED
  BY <1>1 DEF EventsCarried, Logged

\* The new places in a history are those of the inserted events.
LEMMA NewPlaces ==
  ASSUME TypeInv, NEW new \in [Runs -> Seq(Event)], InsertEvents(new), NEW r \in Runs,
         NEW i \in DOMAIN events'[r], i \notin DOMAIN events[r]
  PROVE  \E j \in DOMAIN new[r] : events'[r][i] = new[r][j]
<1>1. events \in [Runs -> Seq(Event)]
  BY DEF TypeInv, TypeOK, TablesTypeOK
<1>2. PICK j \in DOMAIN new[r] : i = Len(events[r]) + j /\ events'[r][i] = new[r][j]
  BY <1>1, Inserted
<1>3. QED
  BY <1>2

\* A transaction that inserts one event and no activity.
LEMMA OneCarried ==
  ASSUME TaskInv, NEW r \in Runs, NEW e \in Event, InsertEvents(EventsOf(r, <<e>>)),
         UNCHANGED decided, e.type # "ActivityScheduled",
         e.type \in WakeTypes =>
           \E t \in tasks' : t.kind = "workflow" /\ t.run = r /\ serial < t.id
  PROVE  EventsCarried
<1>0. /\ TypeInv /\ events \in [Runs -> Seq(Event)]
      /\ \A q \in Runs : decided[q] \in Nat
  BY DEF TaskInv, RunInv, TypeInv, TypeOK, TablesTypeOK
<1>1. PICK new : new = EventsOf(r, <<e>>)
  OBVIOUS
<1>2. /\ new \in [Runs -> Seq(Event)] /\ InsertEvents(new)
      /\ \A q \in Runs : \A i \in DOMAIN new[q] : q = r /\ new[q][i] = e
  BY <1>1, OneEvent
<1>3. ASSUME NEW q \in Runs, NEW f \in Event, Logged(q, f)', ~Logged(q, f) PROVE f = e
  <2>1. TypeInv
    BY <1>0
  <2>2. new \in [Runs -> Seq(Event)]
    BY <1>2
  <2>3. InsertEvents(new)
    BY <1>2
  <2>4. Logged(q, f)' <=> Logged(q, f) \/ \E i \in DOMAIN new[q] : new[q][i] = f
    BY <2>1, <2>2, <2>3, InsertedLogged
  <2>5. QED
    BY <1>2, <1>3, <2>4
<1>4. ASSUME NEW q \in Runs, NEW i \in DOMAIN events'[q], i \notin DOMAIN events[q]
      PROVE  q = r /\ events'[q][i] = e
  <2>1. TypeInv /\ InsertEvents(new) /\ new \in [Runs -> Seq(Event)]
    BY <1>0, <1>2
  <2>2. PICK j \in DOMAIN new[q] : events'[q][i] = new[q][j]
    BY <1>4, <2>1, NewPlaces
  <2>3. QED
    BY <1>2, <2>2
<1>5. QED
  BY <1>0, <1>3, <1>4 DEF EventsCarried, HasType

LEMMA NothingDeleted == DeletesAnswered({})
BY DEF DeletesAnswered

-----------------------------------------------------------------------------
(* Every step keeps the invariant of tasks *)

LEMMA TaskEngine ==
  ASSUME TaskInv, EngineNext \/ UNCHANGED vars
  PROVE  TaskGood
<1>1. EventsCarried
  BY QuietCarried DEF EngineNext, ReclaimExpiredLeases, BackoffElapses, TimerDue, vars
<1>2. RowsKept({})
  <2>1. ASSUME NEW expired, ReclaimExpiredLeases(expired) PROVE RowsKept({})
    BY <2>1, RowsLeased DEF ReclaimExpiredLeases
  <2>2. ASSUME NEW t \in tasks, BackoffElapses(t) PROVE RowsKept({})
    BY <2>2, RowsShown
  <2>3. ASSUME NEW t \in timers, TimerDue(t) PROVE RowsKept({})
    BY <2>3, RowsUnchanged DEF TimerDue
  <2>4. QED
    BY <2>1, <2>2, <2>3, RowsUnchanged DEF EngineNext, vars
<1>3. QED
  BY <1>1, <1>2, NothingDeleted DEF TaskGood

LEMMA TaskClient ==
  ASSUME TaskInv, NEW c \in Clients, ClientNext(c)
  PROVE  TaskGood
<1>0. /\ TypeInv /\ events \in [Runs -> Seq(Event)] /\ serial \in Nat
      /\ serial + 1 \in Nat /\ serial < serial + 1
      /\ \A r \in Runs : decided[r] \in Nat
  BY DEF TaskInv, RunInv, TypeInv, TypeOK, TablesTypeOK
<1>1. ASSUME NEW r \in Runs, NEW n
      PROVE  /\ WorkflowTask(serial + 1, r, n).kind = "workflow"
             /\ WorkflowTask(serial + 1, r, n).run = r
             /\ WorkflowTask(serial + 1, r, n).id = serial + 1
  BY DEF WorkflowTask
<1>3. CASE ClientMove(c)
  BY <1>3, QuietCarried, RowsUnchanged, NothingDeleted DEF ClientMove, tables, TaskGood
<1>5. CASE StartCommit(c)
  <2> DEFINE e == [id |-> 1, type |-> "WorkflowStarted", key |-> 0]
  <2>1. PICK r \in Runs : r = client[c].run
    BY <1>0, <1>5, CommitEvents DEF StartCommit
  <2>2. PICK t : t = WorkflowTask(serial + 1, r, 1)
    OBVIOUS
  <2>3. /\ InsertEvents(EventsOf(r, <<e>>)) /\ UNCHANGED decided
        /\ tasks' = tasks \cup {t} /\ serial' = serial + 1
    BY <1>5, <2>1, <2>2 DEF StartCommit
  <2>4. e \in Event /\ e.type # "ActivityScheduled"
    BY <1>0, CommitEvents
  <2> HIDE DEF e
  <2>5. t.kind = "workflow" /\ t.run = r /\ t.id = serial + 1
    BY <1>1, <2>2
  <2>6. EventsCarried
    BY <1>0, <2>3, <2>4, <2>5, OneCarried
  <2>7. RowsKept({})
    BY <2>3, <2>5, RowAdded
  <2>8. QED
    BY <2>6, <2>7, NothingDeleted DEF TaskGood
<1>6. CASE SignalCommit(c)
  <2> DEFINE e == [id |-> client[c].next, type |-> "SignalReceived", key |-> 0]
  <2>1. PICK r \in Runs : r = client[c].run
    BY <1>0, <1>6, CommitEvents DEF SignalCommit
  <2>2. PICK t : t = WorkflowTask(serial + 1, r, client[c].next)
    OBVIOUS
  <2>3. InsertEvents(EventsOf(r, <<e>>)) /\ UNCHANGED decided
    BY <1>6, <2>1 DEF SignalCommit
  <2>4. \/ tasks' = tasks \cup {t} /\ serial' = serial + 1
        \/ UNCHANGED <<tasks, serial>>
    BY <1>6, <2>1, <2>2 DEF SignalCommit
  <2>5. e \in Event /\ e.type # "ActivityScheduled" /\ e.type \notin WakeTypes
    BY <1>0, CommitEvents DEF WakeTypes, ActivityOutcomes
  <2>6. PICK f : f = e
    OBVIOUS
  <2> HIDE DEF e
  <2>7. EventsCarried
    BY <2>3, <2>5, <2>6, OneCarried
  <2>8. t.id = serial + 1
    BY <1>1, <2>2
  <2>9. RowsKept({})
    BY <2>4, <2>8, RowsUnchanged, RowAdded
  <2>10. QED
    BY <2>7, <2>9, NothingDeleted DEF TaskGood
<1>7. QED
  BY <1>0, <1>3, <1>5, <1>6, ClientMoves

\* A worker's row, if it is still there.
LEMMA HeldRow ==
  ASSUME TaskInv, NEW w \in Workers, Busy(w), NEW u \in tasks, u.id = worker[w].task.id
  PROVE  SameTask(u, worker[w].task)
BY DEF TaskInv, HeldIDs

LEMMA TaskDiscard ==
  ASSUME TaskInv, NEW w \in Workers, DiscardWorkflowTask(w)
  PROVE  TaskGood
<1>1. PICK D : D = {worker[w].task.id}
  OBVIOUS
<1>2. /\ worker[w].pc = "closed" /\ UNCHANGED <<events, decided, serial>>
      /\ tasks' = {u \in tasks : u.id \notin D} \cup {}
  BY <1>1 DEF DiscardWorkflowTask, CompleteTask
<1>3. RowsKept(D)
  <2>1. serial \in Nat
    BY DEF TaskInv, RunInv, TypeInv, TypeOK, TablesTypeOK
  <2>2. PICK N : N = {}
    OBVIOUS
  <2>3. serial' \in Nat /\ serial <= serial'
    BY <1>2, <2>1
  <2>4. tasks' = {u \in tasks : u.id \notin D} \cup N
    BY <1>2, <2>2
  <2>5. /\ \A t \in N : t.id \in Nat /\ serial < t.id /\ t.id <= serial'
        /\ \A t, u \in N : t.id = u.id => t = u
    BY <2>2
  <2>6. QED
    BY <2>3, <2>4, <2>5, RowsReplaced
<1>4. DeletesAnswered(D)
  <2>1. ASSUME NEW u \in tasks, u.id \in D PROVE u.kind = "workflow"
    BY <1>1, <1>2, <2>1, HeldRow DEF Busy, SameTask, TaskInv, CauseInv, KindsFit
  <2>2. QED
    BY <1>1, <1>2, <2>1 DEF DeletesAnswered
<1>5. QED
  BY <1>2, <1>3, <1>4, QuietCarried DEF TaskGood

LEMMA TaskRetry ==
  ASSUME TaskInv, NEW w \in Workers, CommitRetry(w)
  PROVE  TaskGood
<1>1. PICK D : D = {worker[w].task.id}
  OBVIOUS
<1>2. PICK t \in Task : t = worker[w].task
  BY DEF TaskInv, RunInv, TypeInv, TypeOK, WorkerState
<1>3. PICK a : a = ActivityTask(serial + 1, t.run, t.sched, t.key, t.attempt + 1, TRUE)
  OBVIOUS
<1>4. /\ worker[w].pc = "retry" /\ UNCHANGED <<events, decided>> /\ serial' = serial + 1
      /\ tasks' = {u \in tasks : u.id \notin D} \cup {a}
  BY <1>1, <1>2, <1>3 DEF CommitRetry, CompleteTask
<1>5. /\ a.id = serial + 1 /\ a.kind = "activity" /\ a.run = t.run
      /\ a.sched = t.sched /\ a.key = t.key
  BY <1>3 DEF ActivityTask
<1>6. RowsKept(D)
  BY <1>4, <1>5, RowReplaced
<1>7. DeletesAnswered(D)
  <2>1. Pending(t.run, t.key, t.sched)'
    BY <1>4, <1>5 DEF Pending
  <2>2. ASSUME NEW u \in tasks, u.id \in D
        PROVE  u.kind = "activity" /\ u.run = t.run /\ u.key = t.key /\ u.sched = t.sched
    BY <1>1, <1>2, <1>4, <2>2, HeldRow DEF Busy, SameTask, TaskInv, CauseInv, KindsFit
  <2>3. QED
    BY <2>1, <2>2 DEF DeletesAnswered, Pending
<1>8. QED
  BY <1>4, <1>6, <1>7, QuietCarried DEF TaskGood

LEMMA TaskOutcome ==
  ASSUME TaskInv, NEW w \in Workers, CommitActivityTask(w)
  PROVE  TaskGood
<1>0. TypeInv /\ serial \in Nat /\ serial < serial + 1
  BY DEF TaskInv, RunInv, TypeInv, TypeOK, TablesTypeOK
<1>1. PICK D : D = {worker[w].task.id}
  OBVIOUS
<1>2. PICK t \in Task : t = worker[w].task
  BY <1>0 DEF TypeInv, TypeOK, WorkerState
<1>3. PICK e \in Event : /\ e.id = worker[w].next /\ e.key = t.key
                         /\ e.type \in ActivityOutcomes
                         /\ OutcomeEvents(w) = EventsOf(t.run, <<e>>)
  BY <1>0, <1>2, CommitEvents DEF OutcomeEvents, OutcomeType, ActivityOutcomes
<1>4. PICK a : a = WorkflowTask(serial + 1, t.run, worker[w].next)
  OBVIOUS
<1>5. /\ worker[w].pc = "ready" /\ t.kind = "activity" /\ UNCHANGED decided
      /\ InsertEvents(EventsOf(t.run, <<e>>)) /\ serial' = serial + 1
      /\ tasks' = {u \in tasks : u.id \notin D} \cup {a}
  BY <1>1, <1>2, <1>3, <1>4
  DEF CommitActivityTask, OutcomeEvents, OutcomeType, CompleteTask, WakeTask
<1>6. a.id = serial + 1 /\ a.kind = "workflow" /\ a.run = t.run
  BY <1>4 DEF WorkflowTask
<1>7. RowsKept(D)
  BY <1>5, <1>6, RowReplaced
<1>8. t.run \in Runs /\ t.sched < e.id
  BY <1>2, <1>3, <1>5 DEF TaskInv, CauseInv, HoldersCaused, Holds, Busy, Task
<1>9. EventsCarried
  <2>1. e.type # "ActivityScheduled"
    BY <1>3 DEF ActivityOutcomes
  <2>2. a \in tasks' /\ serial < a.id
    BY <1>0, <1>5, <1>6
  <2>3. QED
    BY <1>5, <1>6, <1>8, <2>1, <2>2, OneCarried
<1>10. DeletesAnswered(D)
  <2>1. Logged(t.run, e)'
    <3>1. PICK new : new = EventsOf(t.run, <<e>>)
      OBVIOUS
    <3>2. new \in [Runs -> Seq(Event)] /\ DOMAIN new[t.run] = {1} /\ new[t.run][1] = e
      BY <1>8, <3>1, OneEvent
    <3>3. InsertEvents(new)
      BY <1>5, <3>1
    <3>4. QED
      BY <1>0, <1>8, <3>2, <3>3, InsertedLogged
  <2>2. Resolved(t.run, t.key, t.sched)'
    BY <1>3, <1>8, <2>1 DEF Logged, Resolved
  <2>3. ASSUME NEW u \in tasks, u.id \in D
        PROVE  u.kind = "activity" /\ u.run = t.run /\ u.key = t.key /\ u.sched = t.sched
    BY <1>1, <1>2, <1>5, <2>3, HeldRow DEF Busy, SameTask
  <2>4. QED
    BY <2>2, <2>3 DEF DeletesAnswered, Resolved
<1>11. QED
  BY <1>7, <1>9, <1>10 DEF TaskGood

LEMMA TaskDecide ==
  ASSUME TaskInv, NEW w \in Workers, CommitWorkflowTask(w)
  PROVE  TaskGood
<1> DEFINE me == worker[w]
           n == Len(me.cmds)
           new == DecisionEvents(w)
           act(i) == ActivityTask(serial + i, me.task.run, EventID(me.next, me.cmds, i),
                                  me.cmds[i].key, 1, FALSE)
<1>0. /\ TypeInv /\ serial \in Nat /\ n \in Nat /\ new \in [Runs -> Seq(Event)]
      /\ InsertEvents(new) /\ me.pc = "ready" /\ me.task.kind = "workflow"
  BY Decisions, DecisionCommit DEF TaskInv, RunInv, TypeInv, TypeOK, TablesTypeOK
<1>1. PICK D : D = {me.task.id}
  OBVIOUS
<1>2. PICK r \in Runs : r = me.task.run
  BY <1>0, CommitEvents
<1>3. RowsKept(D)
  <2>1. PICK N : N = {act(i) : i \in CommandsOf("ScheduleActivity", me.cmds)}
    OBVIOUS
  <2>2. /\ tasks' = {u \in tasks : u.id \notin D} \cup N /\ serial' = serial + n
    BY <1>1, <2>1 DEF CommitWorkflowTask, CompleteTask
  <2>3. \A i : act(i).id = serial + i
    BY DEF ActivityTask
  <2>4. \A t \in N : \E i \in 1..n : t = act(i)
    BY <2>1 DEF CommandsOf
  <2> HIDE DEF act, n
  <2>5. \A t \in N : t.id \in Nat /\ serial < t.id /\ t.id <= serial'
    BY <1>0, <2>2, <2>3, <2>4
  <2>6. ASSUME NEW t \in N, NEW u \in N, t.id = u.id PROVE t = u
    <3>1. PICK i \in 1..n : t = act(i)
      BY <2>4
    <3>2. PICK j \in 1..n : u = act(j)
      BY <2>4
    <3>3. i = j
      BY <1>0, <2>3, <2>6, <3>1, <3>2
    <3>4. QED
      BY <3>1, <3>2, <3>3
  <2>7. serial' \in Nat /\ serial <= serial'
    BY <1>0, <2>2
  <2>8. QED
    BY <2>2, <2>5, <2>6, <2>7, RowsReplaced
<1>4. ASSUME NEW q \in Runs, NEW i \in DOMAIN new[q]
      PROVE  /\ q = r /\ i \in 1..n /\ me.cmds[i] \in Command
             /\ new[q][i] = Decision(w, i)
             /\ new[q][i].type = Recorded[me.cmds[i].type] /\ new[q][i].key = me.cmds[i].key
  BY <1>0, <1>2, <1>4, Decisions
<1>5. \A c \in Command : /\ Recorded[c.type] \notin WakeTypes
                         /\ Recorded[c.type] = "ActivityScheduled" => c.type = "ScheduleActivity"
  BY DEF Command, CommandTypes, Recorded, WakeTypes, ActivityOutcomes
<1>6. PICK N \in Nat : N = me.seen
  BY <1>0 DEF TypeInv, TypeOK, WorkerState
<1>7. /\ \A q \in Runs : decided[q] \in Nat /\ decided[q] <= decided'[q]
      /\ N <= decided'[r]
  <2>1. decided \in [Runs -> Nat]
    BY <1>0 DEF TypeInv, TypeOK
  <2>2. decided' = [decided EXCEPT ![r] = IF N > decided[r] THEN N ELSE decided[r]]
    BY <1>2, <1>6 DEF CommitWorkflowTask
  <2>3. QED
    BY <2>1, <2>2
<1>8. EventsCarried
  <2>1. ASSUME NEW q \in Runs, NEW e \in Event, Logged(q, e)', ~Logged(q, e),
               e.type = "ActivityScheduled"
        PROVE  Pending(q, e.key, e.id)'
    <3>1. PICK i \in DOMAIN new[q] : new[q][i] = e
      <4> HIDE DEF new
      <4>1. QED
        BY <1>0, <2>1, InsertedLogged
    <3>2. /\ q = r /\ i \in 1..n /\ me.cmds[i] \in Command /\ e = Decision(w, i)
          /\ Recorded[me.cmds[i].type] = "ActivityScheduled" /\ e.key = me.cmds[i].key
      BY <1>4, <2>1, <3>1
    <3>3. me.cmds[i].type = "ScheduleActivity"
      BY <1>5, <3>2
    <3>4. PICK t \in tasks' : /\ t.kind = "activity" /\ t.run = r
                              /\ t.sched = Decision(w, i).id /\ t.key = me.cmds[i].key
      BY <1>0, <1>2, <3>2, <3>3, DecisionCommit
    <3>5. QED
      BY <3>2, <3>4 DEF Pending
  <2>2. ASSUME NEW q \in Runs, NEW i \in DOMAIN events'[q], i \notin DOMAIN events[q]
        PROVE  ~HasType(q, i, WakeTypes)'
    <3>1. PICK j \in DOMAIN new[q] : events'[q][i] = new[q][j]
      <4> HIDE DEF new
      <4>1. QED
        BY <1>0, <2>2, NewPlaces
    <3>2. QED
      BY <1>4, <1>5, <3>1 DEF HasType
  <2>3. QED
    BY <1>7, <2>1, <2>2 DEF EventsCarried
<1>9. DeletesAnswered(D)
  <2>1. ASSUME NEW u \in tasks, u.id \in D PROVE u.kind = "workflow" /\ u.run = r
    BY <1>0, <1>1, <1>2, <2>1, HeldRow DEF Busy, SameTask
  <2>2. QED
    BY <1>0, <1>1, <1>6, <1>7, <2>1 DEF DeletesAnswered
<1>10. QED
  BY <1>3, <1>8, <1>9 DEF TaskGood

LEMMA TaskWorker ==
  ASSUME TaskInv, NEW w \in Workers, WorkerNext(w)
  PROVE  TaskGood
<1>1. CASE WorkerMove(w)
  BY <1>1, QuietCarried, RowsUnchanged, NothingDeleted DEF WorkerMove, tables, TaskGood
<1>2. ASSUME NEW t \in tasks, Poll(w, t) PROVE TaskGood
  BY <1>2, QuietCarried, RowsLeased, NothingDeleted DEF Poll, TaskGood
<1>3. QED
  BY <1>1, <1>2, WorkerMoves, TaskDiscard, TaskRetry, TaskOutcome, TaskDecide
  DEF TaskInv, RunInv

\* The rows a scan inserts get ids in the order of its turns.
LEMMA TaskScanCommit ==
  ASSUME TaskInv, NEW s \in Scanners, ScanCommit(s)
  PROVE  TaskGood
<1> DEFINE W == scanner[s].wakes
           row(t) == [t EXCEPT !.id = serial + @]
<1>0. /\ TypeInv /\ serial \in Nat /\ W \subseteq Task /\ IsFiniteSet(W)
      /\ scanner[s].batch \in [Runs -> Seq(Event)]
  BY DEF TaskInv, RunInv, TypeInv, TypeOK, TablesTypeOK, LocalOK, ScannerState
<1>1. PICK m \in Nat : m = Cardinality(W)
  BY <1>0, FS_CardinalityType
<1>2. /\ InsertEvents(scanner[s].batch) /\ UNCHANGED decided
      /\ tasks' = tasks \cup {row(t) : t \in W} /\ serial' = serial + m
  BY <1>1 DEF ScanCommit
<1>3. ASSUME NEW t \in W
      PROVE  /\ row(t).id = serial + t.id /\ row(t).run = t.run /\ t.id \in 1..m
             /\ row(t).kind = "workflow"
  <2>1. t \in Task /\ t.id \in 1..m /\ t.kind = "workflow"
    BY <1>0, <1>1 DEF TaskInv, WakeIDs, CauseInv, KindsFit
  <2>2. QED
    BY <2>1 DEF Task
<1>4. \A t, u \in W : t.id = u.id => t = u
  BY DEF TaskInv, WakeIDs
<1> HIDE DEF row
<1>5. RowsKept({})
  <2>1. PICK N : N = {row(t) : t \in W}
    OBVIOUS
  <2>2. tasks' = {u \in tasks : u.id \notin {}} \cup N
    BY <1>2, <2>1
  <2>3. \A t \in N : t.id \in Nat /\ serial < t.id /\ t.id <= serial'
    BY <1>0, <1>2, <1>3, <2>1
  <2>4. ASSUME NEW t \in N, NEW u \in N, t.id = u.id PROVE t = u
    <3>1. PICK v \in W : t = row(v)
      BY <2>1
    <3>2. PICK x \in W : u = row(x)
      BY <2>1
    <3>3. v.id = x.id
      BY <1>0, <1>3, <2>4, <3>1, <3>2
    <3>4. QED
      BY <1>4, <3>1, <3>2, <3>3
  <2>5. serial' \in Nat /\ serial <= serial'
    BY <1>0, <1>2
  <2>6. QED
    BY <2>2, <2>3, <2>4, <2>5, RowsReplaced
<1>6. EventsCarried
  <2>1. ASSUME NEW r \in Runs, NEW e \in Event, Logged(r, e)', ~Logged(r, e)
        PROVE  e.type # "ActivityScheduled"
    <3>1. Batched(s, r, e)
      BY <1>0, <1>2, <2>1, InsertedLogged DEF Batched
    <3>2. QED
      BY <3>1 DEF TaskInv, CauseInv, ScansCaused
  <2>2. ASSUME NEW r \in Runs, NEW i \in DOMAIN events'[r], i \notin DOMAIN events[r]
        PROVE  \E t \in tasks' : t.kind = "workflow" /\ t.run = r /\ serial < t.id
    <3>1. PICK j \in DOMAIN scanner[s].batch[r] : events'[r][i] = scanner[s].batch[r][j]
      BY <1>0, <1>2, <2>2, NewPlaces
    <3>2. PICK t \in W : t.run = r
      BY <3>1 DEF TaskInv, WakeIDs
    <3>3. row(t) \in tasks'
      BY <1>2
    <3>4. row(t).id = serial + t.id /\ t.id \in 1..m
      BY <1>3
    <3>5. serial < serial + t.id
      BY <1>0, <1>1, <3>4
    <3>6. QED
      BY <1>3, <3>2, <3>3, <3>4, <3>5
  <2>3. \A r \in Runs : decided[r] \in Nat
    BY <1>0 DEF TypeInv, TypeOK
  <2>4. QED
    BY <1>2, <2>1, <2>2, <2>3 DEF EventsCarried
<1>7. QED
  BY <1>5, <1>6, NothingDeleted DEF TaskGood

LEMMA TaskScanner ==
  ASSUME TaskInv, NEW s \in Scanners, ScannerNext(s)
  PROVE  TaskGood
<1>1. UNCHANGED <<events, decided, tasks, serial>> \/ ScanCommit(s)
  BY DEF ScannerNext, ScanSelect, ScanTimer, ScanAbort, tables
<1>2. QED
  BY <1>1, QuietCarried, RowsUnchanged, NothingDeleted, TaskScanCommit DEF TaskGood

LEMMA TaskStep == TaskInv /\ [Next]_vars => TaskInv'
<1> SUFFICES ASSUME TaskInv, [Next]_vars PROVE TaskInv'
  OBVIOUS
<1>1. TaskGood
  BY TaskClient, TaskWorker, TaskScanner, TaskEngine DEF Next
<1>2. CauseGood /\ CauseInv'
  BY CauseSteps, CauseStep DEF TaskInv
<1>3. RunInv' /\ StaysClosed
  BY RunStep, ClosedStep DEF TaskInv
<1>4. QED
  BY <1>1, <1>2, <1>3, TaskFrame

LEMMA TasksInvariant == Spec => []TaskInv
BY TaskInit, TaskStep, PTL DEF Spec

\* Whatever crashes, lease expiries, failed attempts and answers that come
\* twice there are, and with any number of workers: an activity that is in a
\* history has a row that some worker can still be given, or its outcome is in
\* the history too.  The handlers delete the row they were polled with by its
\* id alone; that this is never the row of another activity, nor the last one
\* of its own, is what the proof has to show.
THEOREM ActivitiesAreNotLost == Spec => []ActivityNotLost
<1>1. TaskInv => ActivityNotLost
  <2> SUFFICES ASSUME TaskInv, NEW r \in Runs, NEW i \in DOMAIN events[r],
                      events[r][i].type = "ActivityScheduled"
               PROVE  \/ \E t \in tasks : /\ t.kind = "activity" /\ t.run = r
                                          /\ t.sched = events[r][i].id
                                          /\ t.key = events[r][i].key
                      \/ \E j \in DOMAIN events[r] :
                           /\ HasType(r, j, ActivityOutcomes)
                           /\ events[r][j].key = events[r][i].key
                           /\ events[r][j].id > events[r][i].id
    BY DEF ActivityNotLost
  <2>1. events[r] \in Seq(Event)
    BY DEF TaskInv, RunInv, TypeInv, TypeOK, TablesTypeOK
  <2>2. PICK e \in Event : e = events[r][i]
    BY <2>1, ElementOfSeq, LenProperties
  <2>3. Pending(r, e.key, e.id) \/ Resolved(r, e.key, e.id)
    BY <2>2 DEF TaskInv, Carried, Logged
  <2>4. QED
    BY <2>2, <2>3 DEF Pending, Resolved, HasType
<1>2. QED
  BY <1>1, TasksInvariant, PTL

\* A start, an outcome and a fired timer always have a workflow task that still
\* brings them to the workflow function: the row is deleted by an answer that
\* has seen them, and never by one based on an older history, because every
\* such event comes with a row of its own, that no worker held before it.
THEOREM WakesAreNotLost == Spec => []WakeNotLost
<1>1. TaskInv => WakeNotLost
  BY DEF TaskInv
<1>2. QED
  BY <1>1, TasksInvariant, PTL

-----------------------------------------------------------------------------
(* Sets of the same size, without counting *)

\* Something pairs off the elements of S and T.
Matched(S, T) ==
  \E f \in [S -> T] : /\ \A x, y \in S : f[x] = f[y] => x = y
                      /\ \A y \in T : \E x \in S : f[x] = y

LEMMA MatchedEmpty == Matched({}, {})
<1>1. [x \in {} |-> x] \in [{} -> {}]
  OBVIOUS
<1>2. QED
  BY <1>1 DEF Matched

LEMMA MatchedOne ==
  ASSUME NEW a, NEW b
  PROVE  Matched({a}, {b})
<1> DEFINE f == [x \in {a} |-> b]
<1>1. f \in [{a} -> {b}] /\ f[a] = b
  OBVIOUS
<1>2. QED
  BY <1>1 DEF Matched

LEMMA MatchedUnion ==
  ASSUME NEW S, NEW T, NEW U, NEW V, Matched(S, T), Matched(U, V),
         S \cap U = {}, T \cap V = {}
  PROVE  Matched(S \cup U, T \cup V)
<1>1. PICK f \in [S -> T] : /\ \A x, y \in S : f[x] = f[y] => x = y
                            /\ \A y \in T : \E x \in S : f[x] = y
  BY DEF Matched
<1>2. PICK g \in [U -> V] : /\ \A x, y \in U : g[x] = g[y] => x = y
                            /\ \A y \in V : \E x \in U : g[x] = y
  BY DEF Matched
<1> DEFINE h == [x \in S \cup U |-> IF x \in S THEN f[x] ELSE g[x]]
<1>3. /\ h \in [S \cup U -> T \cup V]
      /\ \A x \in S : h[x] = f[x] /\ h[x] \in T
      /\ \A x \in U : h[x] = g[x] /\ h[x] \in V
  OBVIOUS
<1> HIDE DEF h
<1>4. \A x, y \in S \cup U : h[x] = h[y] => x = y
  BY <1>1, <1>2, <1>3
<1>5. \A y \in T \cup V : \E x \in S \cup U : h[x] = y
  BY <1>1, <1>2, <1>3
<1>6. QED
  BY <1>3, <1>4, <1>5 DEF Matched

\* Both sets, or only one of them, moved by a fixed distance.
LEMMA MatchedShift ==
  ASSUME NEW S, NEW T \in SUBSET Nat, Matched(S, T), NEW n \in Nat
  PROVE  Matched(S, {n + i : i \in T})
<1>1. PICK f \in [S -> T] : /\ \A x, y \in S : f[x] = f[y] => x = y
                            /\ \A y \in T : \E x \in S : f[x] = y
  BY DEF Matched
<1> DEFINE g == [x \in S |-> n + f[x]]
           V == {n + i : i \in T}
<1>2. g \in [S -> V] /\ \A x \in S : g[x] = n + f[x] /\ f[x] \in Nat
  BY <1>1
<1> HIDE DEF g
<1>3. \A x, y \in S : g[x] = g[y] => x = y
  BY <1>1, <1>2
<1>4. \A y \in V : \E x \in S : g[x] = y
  BY <1>1, <1>2
<1>5. QED
  BY <1>2, <1>3, <1>4 DEF Matched

LEMMA MatchedPlaces ==
  ASSUME NEW T \in SUBSET Nat, NEW m \in Nat, NEW n \in Nat
  PROVE  Matched({m + i : i \in T}, {n + i : i \in T})
<1> DEFINE S == {m + i : i \in T}
           f == [x \in S |-> x - m]
<1>1. f \in [S -> T] /\ \A x \in S : f[x] = x - m /\ x \in Int
  OBVIOUS
<1>2. \A y \in T : m + y \in S /\ (m + y) - m = y
  OBVIOUS
<1> HIDE DEF f, S
<1>3. \A x, y \in S : f[x] = f[y] => x = y
  BY <1>1
<1>4. \A y \in T : \E x \in S : f[x] = y
  BY <1>1, <1>2
<1>5. Matched(S, T)
  BY <1>1, <1>3, <1>4 DEF Matched
<1>6. QED
  BY <1>5, MatchedShift DEF S

LEMMA MatchedSize ==
  ASSUME NEW S, NEW T, Matched(S, T), IsFiniteSet(S)
  PROVE  IsFiniteSet(T) /\ Cardinality(S) = Cardinality(T)
<1>1. PICK f \in [S -> T] : /\ \A x, y \in S : f[x] = f[y] => x = y
                            /\ \A y \in T : \E x \in S : f[x] = y
  BY DEF Matched
<1>2. f \in Bijection(S, T)
  BY <1>1 DEF Bijection, Injection, Surjection, IsInjective
<1>3. ExistsBijection(S, T)
  BY <1>2 DEF ExistsBijection
<1>4. QED
  BY <1>3, FS_Bijection

-----------------------------------------------------------------------------
(* The invariant of timers *)

\* The places of the events of type T with key k.
About(l, T, k) == {i \in DOMAIN l : l[i].type = T /\ l[i].key = k}

TimerIDs(r, k) == {n \in Nat : \E t \in timers : t.id = n /\ t.run = r /\ t.key = k}

FiredIDs(r, k) ==
  {n \in Nat : \E t \in timers : t.id = n /\ t.run = r /\ t.key = k /\ t.state = "fired"}

\* Those that scan s has marked, in its open transaction.
MarkedIDs(s, r, k) == {n \in TimerIDs(r, k) : n \in scanner[s].fired}

\* Rows have ids of their own from the sequence.
TimersApart ==
  /\ \A t \in timers : t.id <= serial
  /\ \A t, u \in timers : t.id = u.id => t = u

\* A scan's rows are due, and stay so until it commits, because it holds their
\* locks: FOR UPDATE SKIP LOCKED gives no row to two scans.
Locks(s, n) == n \in scanner[s].fired \/ \E t \in scanner[s].due : t.id = n

RowsDue ==
  \A s \in Scanners :
    /\ \A t \in scanner[s].due : t \in timers /\ t.state = "due" /\ t.id \notin scanner[s].fired
    /\ \A n \in scanner[s].fired : \E t \in timers : t.id = n /\ t.state = "due"

LocksApart ==
  \A s, z \in Scanners, n \in Nat : Locks(s, n) /\ Locks(z, n) => s = z

\* Rows and events correspond, and so do the rows a scan has marked and the
\* events it will insert.
TimersMatch ==
  \A r \in Runs, k \in Keys :
    /\ Matched(TimerIDs(r, k), About(events[r], "TimerStarted", k))
    /\ Matched(FiredIDs(r, k), About(events[r], "TimerFired", k))

ScansMatch ==
  \A s \in Scanners, r \in Runs, k \in Keys :
    Matched(MarkedIDs(s, r, k), About(scanner[s].batch[r], "TimerFired", k))

TimerInv ==
  /\ CauseInv
  /\ TimersApart /\ RowsDue /\ LocksApart
  /\ TimersMatch /\ ScansMatch

LEMMA TimerInit == Init => TimerInv
<1> SUFFICES ASSUME Init PROVE TimerInv
  OBVIOUS
<1>1. /\ timers = {}
      /\ \A r \in Runs : events[r] = <<>>
      /\ \A s \in Scanners : /\ scanner[s].due = {} /\ scanner[s].fired = {}
                             /\ \A r \in Runs : scanner[s].batch[r] = <<>>
  BY DEF Init, TablesInit, IdleScanner
<1>2. DOMAIN <<>> = {}
  OBVIOUS
<1>3. \A T, k : About(<<>>, T, k) = {}
  BY <1>2 DEF About
<1>4. ASSUME NEW r \in Runs, NEW k \in Keys
      PROVE  TimerIDs(r, k) = {} /\ FiredIDs(r, k) = {}
             /\ \A s \in Scanners : MarkedIDs(s, r, k) = {}
  BY <1>1 DEF TimerIDs, FiredIDs, MarkedIDs
<1>5. TimersMatch /\ ScansMatch
  BY <1>1, <1>3, <1>4, MatchedEmpty DEF TimersMatch, ScansMatch
<1>6. QED
  BY <1>1, <1>5, CauseInit DEF TimerInv, TimersApart, RowsDue, LocksApart, Locks

-----------------------------------------------------------------------------
(* Every step keeps the invariant of timers *)

\* What a transaction adds to the events of one kind.
LEMMA AboutInserted ==
  ASSUME TypeInv, NEW new \in [Runs -> Seq(Event)], InsertEvents(new),
         NEW r \in Runs, NEW T, NEW k
  PROVE  /\ About(events'[r], T, k) =
              About(events[r], T, k) \cup {Len(events[r]) + i : i \in About(new[r], T, k)}
         /\ About(events[r], T, k) \cap {Len(events[r]) + i : i \in About(new[r], T, k)} = {}
         /\ Len(events[r]) \in Nat /\ About(new[r], T, k) \subseteq Nat
<1> DEFINE old == events[r]
           add == new[r]
           res == events'[r]
           n == Len(old)
<1>1. events \in [Runs -> Seq(Event)]
  BY DEF TypeInv, TypeOK, TablesTypeOK
<1>2. /\ n \in Nat /\ Len(add) \in Nat
      /\ DOMAIN old = 1..n /\ DOMAIN add = 1..Len(add)
      /\ \A i \in DOMAIN old : i \in DOMAIN res /\ res[i] = old[i]
      /\ \A i \in DOMAIN add : n + i \in DOMAIN res /\ res[n + i] = add[i]
      /\ \A i \in DOMAIN res : i \notin DOMAIN old =>
           \E j \in DOMAIN add : i = n + j /\ res[i] = add[j]
  BY <1>1, Inserted
<1> HIDE DEF old, add, res, n
<1>3. ASSUME NEW i \in About(res, T, k)
      PROVE  i \in About(old, T, k) \/ \E j \in About(add, T, k) : i = n + j
  BY <1>2 DEF About
<1>4. \A i \in About(old, T, k) : i \in About(res, T, k)
  BY <1>2 DEF About
<1>5. \A i \in About(add, T, k) : n + i \in About(res, T, k)
  BY <1>2 DEF About
<1>6. ASSUME NEW i \in About(add, T, k) PROVE n + i \notin About(old, T, k) /\ i \in Nat
  BY <1>2 DEF About
<1>7. About(res, T, k) = About(old, T, k) \cup {n + i : i \in About(add, T, k)}
  BY <1>3, <1>4, <1>5
<1>8. QED
  BY <1>2, <1>6, <1>7 DEF old, add, res, n

\* A transaction whose events are of other kinds adds nothing.
LEMMA AboutKept ==
  ASSUME TypeInv, NEW new \in [Runs -> Seq(Event)], InsertEvents(new),
         NEW r \in Runs, NEW T, NEW k, \A i \in DOMAIN new[r] : new[r][i].type # T
  PROVE  About(events'[r], T, k) = About(events[r], T, k)
<1>1. About(new[r], T, k) = {}
  BY DEF About
<1>2. {Len(events[r]) + i : i \in About(new[r], T, k)} = {}
  BY <1>1
<1>3. About(events'[r], T, k) =
        About(events[r], T, k) \cup {Len(events[r]) + i : i \in About(new[r], T, k)}
  BY AboutInserted
<1>4. QED
  BY <1>2, <1>3

\* Steps that neither scan nor touch a timer.
LEMMA TimerQuiet ==
  ASSUME TimerInv, CauseInv', UNCHANGED <<timers, scanner>>,
         serial' \in Nat, serial <= serial',
         \A r \in Runs, k \in Keys, T \in {"TimerStarted", "TimerFired"} :
           About(events'[r], T, k) = About(events[r], T, k)
  PROVE  TimerInv'
<1>1. /\ serial \in Nat /\ \A t \in timers : t.id \in Nat
  BY DEF TimerInv, CauseInv, IDInv, TypeInv, TypeOK, TablesTypeOK, Timer
<1>2. TimersApart'
  BY <1>1 DEF TimerInv, TimersApart
<1>3. RowsDue'
  BY DEF TimerInv, RowsDue
<1>4. LocksApart'
  BY DEF TimerInv, LocksApart, Locks
<1>5. ScansMatch'
  BY DEF TimerInv, ScansMatch, MarkedIDs, TimerIDs
<1>6. TimersMatch'
  BY DEF TimerInv, TimersMatch, TimerIDs, FiredIDs
<1>7. QED
  BY <1>2, <1>3, <1>4, <1>5, <1>6 DEF TimerInv

\* The time of a timer comes: the row is another, with the same id.
LEMMA TimerComes ==
  ASSUME TimerInv, CauseInv', NEW t \in timers, TimerDue(t)
  PROVE  TimerInv'
<1>1. /\ timers \subseteq Timer /\ serial \in Nat
      /\ \A u, v \in timers : u.id = v.id => u = v
      /\ \A u \in timers : u.id <= serial
  BY DEF TimerInv, TimersApart, CauseInv, IDInv, TypeInv, TypeOK, TablesTypeOK
<1>2. PICK d : d = [t EXCEPT !.state = "due"]
  OBVIOUS
<1>3. /\ t.state = "waiting" /\ timers' = (timers \ {t}) \cup {d}
      /\ UNCHANGED <<events, scanner, serial>>
  BY <1>2 DEF TimerDue
<1>4. d.id = t.id /\ d.run = t.run /\ d.key = t.key /\ d.state = "due"
  BY <1>1, <1>2 DEF Timer
<1>5. TimersApart'
  BY <1>1, <1>3, <1>4 DEF TimersApart
<1>6. ASSUME NEW r \in Runs, NEW k \in Keys
      PROVE  TimerIDs(r, k)' = TimerIDs(r, k) /\ FiredIDs(r, k)' = FiredIDs(r, k)
  BY <1>3, <1>4 DEF TimerIDs, FiredIDs
<1>7. RowsDue'
  BY <1>3, <1>4 DEF TimerInv, RowsDue
<1>8. LocksApart'
  BY <1>3 DEF TimerInv, LocksApart, Locks
<1>9. TimersMatch'
  BY <1>3, <1>6 DEF TimerInv, TimersMatch
<1>10. ScansMatch'
  BY <1>3, <1>6 DEF TimerInv, ScansMatch, MarkedIDs
<1>11. QED
  BY <1>5, <1>7, <1>8, <1>9, <1>10 DEF TimerInv

\* An answer inserts a row for each TimerStarted event.
LEMMA TimerDecide ==
  ASSUME TimerInv, CauseInv', NEW w \in Workers, CommitWorkflowTask(w)
  PROVE  TimerInv'
<1> DEFINE me == worker[w]
           n == Len(me.cmds)
           new == DecisionEvents(w)
           row(i) == TimerRow(serial + i, me.task.run, me.cmds[i].key)
           C == CommandsOf("StartTimer", me.cmds)
<1>0. /\ TypeInv /\ serial \in Nat /\ n \in Nat /\ new \in [Runs -> Seq(Event)]
      /\ InsertEvents(new) /\ timers \subseteq Timer
  BY Decisions, DecisionCommit
  DEF TimerInv, CauseInv, IDInv, TypeInv, TypeOK, TablesTypeOK
<1>1. PICK r \in Runs : r = me.task.run
  BY <1>0, CommitEvents
<1>2. /\ timers' = timers \cup {row(i) : i \in C} /\ serial' = serial + n
      /\ UNCHANGED scanner
  BY DEF CommitWorkflowTask
<1>3. \A i \in C : /\ row(i).id = serial + i /\ row(i).run = r /\ row(i).key = me.cmds[i].key
                   /\ row(i).state = "waiting"
                   /\ i \in 1..n /\ me.cmds[i].type = "StartTimer"
  BY <1>1 DEF TimerRow, CommandsOf
<1>4. \A q \in Runs : \A i \in DOMAIN new[q] :
        /\ q = r /\ i \in 1..n /\ me.cmds[i] \in Command
        /\ new[q][i].type = Recorded[me.cmds[i].type] /\ new[q][i].key = me.cmds[i].key
  BY <1>0, <1>1, Decisions
<1>5. DOMAIN new[r] = 1..n
  BY <1>0, <1>1, Decisions
<1>6. \A c \in Command : /\ Recorded[c.type] # "TimerFired"
                         /\ Recorded[c.type] = "TimerStarted" <=> c.type = "StartTimer"
  BY DEF Command, CommandTypes, Recorded
<1>7. \A t \in timers : t.id <= serial /\ t.id \in Nat
  BY <1>0 DEF TimerInv, TimersApart, Timer
<1> HIDE DEF new, row, n
<1>8. TimersApart'
  <2>1. \A t \in timers' : t \in timers \/ \E i \in C : t = row(i)
    BY <1>2
  <2>2. \A t \in timers' : t.id <= serial'
    BY <1>0, <1>2, <1>3, <1>7, <2>1
  <2>3. ASSUME NEW t \in timers', NEW u \in timers', t.id = u.id PROVE t = u
    <3>1. ASSUME NEW i \in C, NEW v \in timers PROVE row(i).id # v.id
      BY <1>0, <1>3, <1>7
    <3>2. ASSUME NEW i \in C, NEW j \in C, row(i).id = row(j).id PROVE i = j
      BY <1>0, <1>3, <3>2
    <3>3. \A x, y \in timers : x.id = y.id => x = y
      BY DEF TimerInv, TimersApart
    <3>4. QED
      BY <2>1, <2>3, <3>1, <3>2, <3>3
  <2>4. QED
    BY <2>2, <2>3 DEF TimersApart
<1>9. RowsDue' /\ LocksApart'
  <2>1. RowsDue'
    BY <1>2 DEF TimerInv, RowsDue
  <2>2. LocksApart'
    BY <1>2 DEF TimerInv, LocksApart, Locks
  <2>3. QED
    BY <2>1, <2>2
<1>10. ASSUME NEW q \in Runs, NEW k \in Keys
       PROVE  /\ TimerIDs(q, k)' =
                   TimerIDs(q, k) \cup {serial + i : i \in About(new[q], "TimerStarted", k)}
              /\ FiredIDs(q, k)' = FiredIDs(q, k)
              /\ TimerIDs(q, k) \cap {serial + i : i \in About(new[q], "TimerStarted", k)} = {}
  <2>1. \A i : i \in About(new[q], "TimerStarted", k) <=>
                 q = r /\ i \in C /\ me.cmds[i].key = k
    <3>1. \A i \in 1..n : me.cmds[i] \in Command
      BY <1>4, <1>5
    <3>2. \A i \in DOMAIN new[q] : new[q][i].type = "TimerStarted" <=> i \in C
      BY <1>3, <1>4, <1>6 DEF CommandsOf, n
    <3>3. \A i \in C : i \in DOMAIN new[r]
      BY <1>3, <1>5
    <3>4. QED
      BY <1>4, <3>2, <3>3 DEF About
  <2>2. FiredIDs(q, k)' = FiredIDs(q, k)
    BY <1>2, <1>3 DEF FiredIDs
  <2>3. ASSUME NEW m \in Nat
        PROVE  m \in TimerIDs(q, k)' <=>
                 \/ m \in TimerIDs(q, k)
                 \/ \E i \in About(new[q], "TimerStarted", k) : m = serial + i
    BY <1>2, <1>3, <2>1 DEF TimerIDs
  <2>4. \A i \in About(new[q], "TimerStarted", k) :
          serial + i \in Nat /\ serial + i \notin TimerIDs(q, k)
    BY <1>0, <1>3, <1>7, <2>1 DEF TimerIDs
  <2>5. TimerIDs(q, k)' \subseteq Nat /\ TimerIDs(q, k) \subseteq Nat
    BY DEF TimerIDs
  <2>6. QED
    BY <2>2, <2>3, <2>4, <2>5
<1>11. TimersMatch'
  <2> SUFFICES ASSUME NEW q \in Runs, NEW k \in Keys
               PROVE  /\ Matched(TimerIDs(q, k), About(events[q], "TimerStarted", k))'
                      /\ Matched(FiredIDs(q, k), About(events[q], "TimerFired", k))'
    BY DEF TimersMatch
  <2>1. About(events'[q], "TimerFired", k) = About(events[q], "TimerFired", k)
    <3>1. TypeInv /\ InsertEvents(new) /\ new \in [Runs -> Seq(Event)]
      BY <1>0
    <3>2. \A i \in DOMAIN new[q] : new[q][i].type # "TimerFired"
      BY <1>4, <1>6
    <3>3. q \in Runs
      OBVIOUS
    <3>4. QED
      BY ONLY <3>1, <3>2, <3>3, AboutKept, ZenonT(40)
  <2>2. PICK A : A = About(new[q], "TimerStarted", k)
    OBVIOUS
  <2>3. /\ About(events'[q], "TimerStarted", k) =
             About(events[q], "TimerStarted", k) \cup {Len(events[q]) + i : i \in A}
        /\ About(events[q], "TimerStarted", k) \cap {Len(events[q]) + i : i \in A} = {}
        /\ Len(events[q]) \in Nat /\ A \subseteq Nat
    BY <1>0, <2>2, AboutInserted
  <2>4. /\ TimerIDs(q, k)' = TimerIDs(q, k) \cup {serial + i : i \in A}
        /\ TimerIDs(q, k) \cap {serial + i : i \in A} = {}
    BY <1>10, <2>2
  <2>5. Matched({serial + i : i \in A}, {Len(events[q]) + i : i \in A})
    BY <1>0, <2>3, MatchedPlaces
  <2>6. Matched(TimerIDs(q, k), About(events[q], "TimerStarted", k))
        /\ Matched(FiredIDs(q, k), About(events[q], "TimerFired", k))
    BY DEF TimerInv, TimersMatch
  <2>7. Matched(TimerIDs(q, k)', About(events'[q], "TimerStarted", k))
    BY <2>3, <2>4, <2>5, <2>6, MatchedUnion
  <2>8. Matched(FiredIDs(q, k)', About(events'[q], "TimerFired", k))
    BY <1>10, <2>1, <2>6
  <2>9. QED
    BY <2>7, <2>8
<1>12. ScansMatch'
  <2>1. ASSUME NEW s \in Scanners, NEW q \in Runs, NEW k \in Keys
        PROVE  MarkedIDs(s, q, k)' = MarkedIDs(s, q, k)
    <3>1. \A m \in scanner[s].fired : \E t \in timers : t.id = m
      BY DEF TimerInv, RowsDue
    <3>2. \A m \in scanner[s].fired : m <= serial /\ m \in Nat
      BY <1>7, <3>1
    <3>3. \A i \in About(new[q], "TimerStarted", k) : serial + i \notin scanner[s].fired
      <4>1. \A i \in About(new[q], "TimerStarted", k) : i \in 1..n
        BY <1>4 DEF About
      <4>2. QED
        BY <1>0, <3>2, <4>1
    <3>4. QED
      BY <1>2, <1>10, <3>3 DEF MarkedIDs
  <2>2. QED
    BY <1>2, <2>1 DEF TimerInv, ScansMatch
<1>13. QED
  BY <1>8, <1>9, <1>11, <1>12 DEF TimerInv

\* A scan selects, takes a turn, or gives up.
LEMMA TimerScan ==
  ASSUME TimerInv, CauseInv', NEW s \in Scanners,
         \/ \E due \in SUBSET timers : ScanSelect(s, due)
         \/ \E t \in scanner[s].due : ScanTimer(s, t)
         \/ ScanAbort(s)
  PROVE  TimerInv'
<1>0. /\ TypeInv /\ timers \subseteq Timer /\ scanner \in [Scanners -> ScannerState]
      /\ IdleScanner \in ScannerState
  BY IdleTypes DEF TimerInv, CauseInv, IDInv, TypeInv, TypeOK, TablesTypeOK
<1>1. UNCHANGED <<timers, serial, events>>
  BY DEF ScanSelect, ScanTimer, ScanAbort, tables
<1>2. \A z \in Scanners \ {s} : scanner'[z] = scanner[z]
  BY <1>0 DEF ScanSelect, ScanTimer, ScanAbort
<1>3. TimersApart' /\ TimersMatch'
  <2>1. TimersApart'
    BY <1>1 DEF TimerInv, TimersApart
  <2>2. TimersMatch'
    BY <1>1 DEF TimerInv, TimersMatch, TimerIDs, FiredIDs
  <2>3. QED
    BY <2>1, <2>2
<1>4. \A r \in Runs, k \in Keys : TimerIDs(r, k)' = TimerIDs(r, k)
  BY <1>1 DEF TimerIDs
\* It is enough to look at the scan itself.
<1>5. ASSUME \A t \in scanner'[s].due :
               t \in timers /\ t.state = "due" /\ t.id \notin scanner'[s].fired,
             \A n \in scanner'[s].fired : \E t \in timers : t.id = n /\ t.state = "due",
             \A n \in Nat : Locks(s, n)' => Locks(s, n) \/ \A z \in Scanners \ {s} : ~Locks(z, n),
             \A r \in Runs, k \in Keys :
               Matched(MarkedIDs(s, r, k)', About(scanner'[s].batch[r], "TimerFired", k))
      PROVE  TimerInv'
  <2>1. RowsDue'
    <3>1. ASSUME NEW z \in Scanners
          PROVE  /\ \A t \in scanner'[z].due : t \in timers' /\ t.state = "due"
                                               /\ t.id \notin scanner'[z].fired
                 /\ \A n \in scanner'[z].fired : \E t \in timers' : t.id = n /\ t.state = "due"
      <4>1. CASE z = s
        BY <1>1, <1>5, <4>1
      <4>2. CASE z # s
        BY <1>1, <1>2, <4>2 DEF TimerInv, RowsDue
      <4>3. QED
        BY <4>1, <4>2
    <3>2. QED
      BY <3>1 DEF RowsDue
  <2>2. LocksApart'
    <3>1. \A z \in Scanners \ {s}, n \in Nat : Locks(z, n)' <=> Locks(z, n)
      BY <1>2 DEF Locks
    <3>2. \A y, z \in Scanners, n \in Nat : Locks(y, n) /\ Locks(z, n) => y = z
      BY DEF TimerInv, LocksApart
    <3>3. \A y, z \in Scanners, n \in Nat : Locks(y, n)' /\ Locks(z, n)' => y = z
      BY <1>5, <3>1, <3>2
    <3>4. QED
      BY <3>3 DEF LocksApart
  <2>3. ScansMatch'
    <3>1. ASSUME NEW z \in Scanners, NEW r \in Runs, NEW k \in Keys
          PROVE  Matched(MarkedIDs(z, r, k)', About(scanner'[z].batch[r], "TimerFired", k))
      <4>1. CASE z # s
        <5>1. MarkedIDs(z, r, k)' = MarkedIDs(z, r, k)
          BY <1>2, <1>4, <4>1 DEF MarkedIDs
        <5>2. QED
          BY <1>2, <4>1, <5>1 DEF TimerInv, ScansMatch
      <4>2. QED
        BY <1>5, <4>1
    <3>2. QED
      BY <3>1 DEF ScansMatch
  <2>4. QED
    BY <1>3, <2>1, <2>2, <2>3 DEF TimerInv
<1>6. \A T, k : About(<<>>, T, k) = {}
  BY DEF About
<1>7. IdleScanner.due = {} /\ IdleScanner.fired = {} /\ \A r \in Runs : IdleScanner.batch[r] = <<>>
  BY DEF IdleScanner
\* At the start of a scan nothing is marked.
<1>8. ASSUME scanner'[s].fired = {}, \A r \in Runs : scanner'[s].batch[r] = <<>>,
             NEW r \in Runs, NEW k \in Keys
      PROVE  Matched(MarkedIDs(s, r, k)', About(scanner'[s].batch[r], "TimerFired", k))
  BY <1>6, <1>8, MatchedEmpty DEF MarkedIDs
<1>9. CASE ScanAbort(s)
  <2>1. scanner'[s] = IdleScanner
    BY <1>0, <1>9 DEF ScanAbort
  <2>2. \A n \in Nat : ~Locks(s, n)'
    BY <1>7, <2>1 DEF Locks
  <2>3. QED
    BY <1>5, <1>7, <1>8, <2>1, <2>2
<1>10. ASSUME NEW due \in SUBSET timers, ScanSelect(s, due) PROVE TimerInv'
  <2> DEFINE new == [IdleScanner EXCEPT !.pc = "scanning", !.due = due]
  <2>1. new.due = due /\ new.fired = {} /\ new.batch = IdleScanner.batch
    BY <1>0, <1>7 DEF ScannerState
  <2>2. scanner' = [scanner EXCEPT ![s] = new] /\ due \subseteq DueTimers(s)
    BY <1>10 DEF ScanSelect
  <2> HIDE DEF new
  <2>3. scanner'[s] = new
    BY <1>0, <2>2
  <2>4. \A t \in due : t \in timers /\ t.state = "due" /\ t.id \notin LockedTimers(s)
    BY <2>2 DEF DueTimers
  <2>5. ASSUME NEW n \in Nat, NEW z \in Scanners \ {s}, Locks(z, n)
        PROVE  n \in LockedTimers(s)
    BY <2>5 DEF Locks, LockedTimers
  <2>6. \A n \in Nat : Locks(s, n)' => \A z \in Scanners \ {s} : ~Locks(z, n)
    BY <2>1, <2>3, <2>4, <2>5 DEF Locks
  <2>7. QED
    BY <1>5, <1>7, <1>8, <2>1, <2>3, <2>4, <2>6
<1>11. ASSUME NEW t \in scanner[s].due, ScanTimer(s, t) PROVE TimerInv'
  <2>1. /\ t \in Timer /\ t.run \in Runs
        /\ scanner'[s].due = scanner[s].due \ {t}
        /\ scanner'[s].fired = scanner[s].fired \cup {t.id}
    BY <1>0, <1>11, ScanTurns DEF ScanTurn
  <2>2. /\ t \in timers /\ t.state = "due" /\ t.id \notin scanner[s].fired /\ t.id \in Nat
        /\ \A u, v \in timers : u.id = v.id => u = v
    BY <2>1 DEF TimerInv, RowsDue, TimersApart, Timer
  <2>3. \A u \in scanner[s].due :
          u \in timers /\ u.state = "due" /\ u.id \notin scanner[s].fired
    BY DEF TimerInv, RowsDue
  <2>4. \A n \in scanner[s].fired : \E u \in timers : u.id = n /\ u.state = "due"
    BY DEF TimerInv, RowsDue
  <2>5. \A n \in Nat : Locks(s, n)' => Locks(s, n)
    BY <2>1 DEF Locks
  <2>6. LET old == scanner[s].batch[t.run]
            res == scanner'[s].batch[t.run] IN
        /\ Len(old) \in Nat /\ DOMAIN old = 1..Len(old)
        /\ DOMAIN res = 1..(Len(old) + 1)
        /\ \A i \in DOMAIN old : res[i] = old[i]
        /\ res[Len(old) + 1] = Fired(t)
    <3>1. ScanTurn(s, t)
      BY <1>0, <1>11, ScanTurns
    <3>2. QED
      BY <3>1 DEF ScanTurn
  <2>7. Fired(t).type = "TimerFired" /\ Fired(t).key = t.key
    BY DEF Fired
  <2>8. ASSUME NEW r \in Runs, NEW k \in Keys
        PROVE  Matched(MarkedIDs(s, r, k)', About(scanner'[s].batch[r], "TimerFired", k))
    <3> DEFINE old == scanner[s].batch[r]
               res == scanner'[s].batch[r]
               p == Len(old) + 1
    <3>1. Matched(MarkedIDs(s, r, k), About(old, "TimerFired", k))
      BY DEF TimerInv, ScansMatch
    <3>2. CASE r = t.run /\ k = t.key
      <4>1. /\ Len(old) \in Nat /\ DOMAIN old = 1..Len(old)
            /\ DOMAIN res = 1..(Len(old) + 1)
            /\ \A i \in DOMAIN old : res[i] = old[i]
            /\ res[Len(old) + 1].type = "TimerFired" /\ res[Len(old) + 1].key = k
        BY <2>6, <2>7, <3>2
      <4>2. MarkedIDs(s, r, k)' = MarkedIDs(s, r, k) \cup {t.id}
        <5>1. t.id \in TimerIDs(r, k)
          BY <2>2, <3>2 DEF TimerIDs
        <5>2. QED
          BY <1>4, <2>1, <5>1 DEF MarkedIDs
      <4>3. MarkedIDs(s, r, k) \cap {t.id} = {}
        BY <2>2 DEF MarkedIDs
      <4> HIDE DEF old, res
      <4>4. /\ p \in Nat /\ p \notin DOMAIN old /\ DOMAIN res = DOMAIN old \cup {p}
            /\ res[p].type = "TimerFired" /\ res[p].key = k
        BY <4>1
      <4> HIDE DEF p
      <4>5. About(res, "TimerFired", k) = About(old, "TimerFired", k) \cup {p}
        BY <4>1, <4>4 DEF About
      <4>6. About(old, "TimerFired", k) \cap {p} = {}
        BY <4>4 DEF About
      <4>7. Matched({t.id}, {p})
        BY MatchedOne
      <4>8. Matched(MarkedIDs(s, r, k) \cup {t.id}, About(old, "TimerFired", k) \cup {p})
        BY <3>1, <4>3, <4>6, <4>7, MatchedUnion
      <4>9. QED
        BY <4>2, <4>5, <4>8 DEF res
    <3>3. CASE ~(r = t.run /\ k = t.key)
      <4>1. MarkedIDs(s, r, k)' = MarkedIDs(s, r, k)
        <5>1. t.id \notin TimerIDs(r, k)
          BY <2>2, <3>3 DEF TimerIDs
        <5>2. QED
          BY <1>4, <2>1, <5>1 DEF MarkedIDs
      <4>2. About(res, "TimerFired", k) = About(old, "TimerFired", k)
        <5>1. CASE r # t.run
          <6>1. res = old
            BY <1>0, <1>11, <5>1, ScanTurns DEF ScanTurn
          <6>2. QED
            BY <6>1
        <5>2. CASE r = t.run /\ k # t.key
          <6>1. /\ Len(old) \in Nat /\ DOMAIN old = 1..Len(old)
                /\ DOMAIN res = 1..(Len(old) + 1)
                /\ \A i \in DOMAIN old : res[i] = old[i]
                /\ res[Len(old) + 1].key # k
            BY <2>6, <2>7, <5>2
          <6> HIDE DEF old, res
          <6>2. \A i \in DOMAIN res : i \in DOMAIN old \/ i = Len(old) + 1
            BY <6>1
          <6>3. \A i \in DOMAIN old : i \in DOMAIN res
            BY <6>1
          <6>4. QED
            BY <6>1, <6>2, <6>3 DEF About
        <5>3. QED
          BY <3>3, <5>1, <5>2
      <4>3. QED
        BY <3>1, <4>1, <4>2
    <3>4. QED
      BY <3>2, <3>3
  <2>9. \A u \in scanner'[s].due :
          u \in timers /\ u.state = "due" /\ u.id \notin scanner'[s].fired
    BY <2>1, <2>2, <2>3
  <2>10. \A n \in scanner'[s].fired : \E u \in timers : u.id = n /\ u.state = "due"
    BY <2>1, <2>2, <2>4
  <2>11. QED
    BY <1>5, <2>5, <2>8, <2>9, <2>10
<1>12. QED
  BY <1>9, <1>10, <1>11

\* A scan commits: the rows it has marked are fired, and each has its event.
LEMMA TimerFires ==
  ASSUME TimerInv, CauseInv', NEW s \in Scanners, ScanCommit(s)
  PROVE  TimerInv'
<1> DEFINE F == scanner[s].fired
           new == scanner[s].batch
<1>0. /\ TypeInv /\ timers \subseteq Timer /\ scanner \in [Scanners -> ScannerState]
      /\ new \in [Runs -> Seq(Event)] /\ serial \in Nat
      /\ \A u \in Timer : u.id \in Nat
  BY DEF TimerInv, CauseInv, IDInv, TypeInv, TypeOK, TablesTypeOK, ScannerState, Timer
<1>1. /\ InsertEvents(new) /\ timers' = MarkTimerFired(F) /\ scanner[s].due = {}
      /\ serial' = serial + Cardinality(scanner[s].wakes)
      /\ scanner' = [scanner EXCEPT ![s] = IdleScanner]
  BY DEF ScanCommit
<1>2. serial' \in Nat /\ serial <= serial'
  <2>1. Cardinality(scanner[s].wakes) \in Nat
    BY <1>0, FS_CardinalityType DEF TypeInv, LocalOK
  <2>2. QED
    BY <1>0, <1>1, <2>1
<1>3. /\ scanner'[s] = IdleScanner
      /\ \A z \in Scanners \ {s} : scanner'[z] = scanner[z]
      /\ IdleScanner.due = {} /\ IdleScanner.fired = {}
      /\ \A r \in Runs : IdleScanner.batch[r] = <<>>
  BY <1>0, <1>1 DEF IdleScanner
<1>4. /\ \A t \in timers' : \E u \in timers : FiredRow(t, u, F)
      /\ \A u \in timers : \E t \in timers' : FiredRow(t, u, F)
  BY <1>0, <1>1, FiredRows
<1>5. \A u \in timers : u.id \notin F => u \in timers'
  BY <1>1 DEF MarkTimerFired
<1>6. \A t, u \in timers : t.id = u.id => t = u
  BY DEF TimerInv, TimersApart
<1>7. \A n \in F : \E t \in timers : t.id = n /\ t.state = "due"
  BY DEF TimerInv, RowsDue
<1>8. TimersApart'
  <2>1. ASSUME NEW t \in timers' PROVE t.id <= serial'
    <3>1. PICK u \in timers : t.id = u.id
      BY <1>4 DEF FiredRow
    <3>2. u.id \in Nat /\ u.id <= serial
      BY <1>0 DEF TimerInv, TimersApart
    <3>3. QED
      BY <1>0, <1>2, <3>1, <3>2
  <2>2. ASSUME NEW t \in timers', NEW u \in timers', t.id = u.id PROVE t = u
    <3> DEFINE f(v) == IF v.id \in F THEN [v EXCEPT !.state = "fired"] ELSE v
    <3>1. \A v \in timers : f(v).id = v.id
      BY <1>0 DEF Timer
    <3>2. PICK v \in timers : t = f(v)
      BY <1>1 DEF MarkTimerFired
    <3>3. PICK x \in timers : u = f(x)
      BY <1>1 DEF MarkTimerFired
    <3> HIDE DEF f
    <3>4. v.id = x.id
      BY <2>2, <3>1, <3>2, <3>3
    <3>5. QED
      BY <1>6, <3>2, <3>3, <3>4
  <2>3. QED
    BY <2>1, <2>2 DEF TimersApart
\* The other scans hold locks on other rows.
<1>9. ASSUME NEW z \in Scanners, z # s, NEW n \in Nat, Locks(z, n) PROVE n \notin F
  BY <1>9 DEF TimerInv, LocksApart, Locks
<1>10. RowsDue'
  <2>1. ASSUME NEW z \in Scanners
        PROVE  /\ \A t \in scanner'[z].due : /\ t \in timers' /\ t.state = "due"
                                             /\ t.id \notin scanner'[z].fired
               /\ \A n \in scanner'[z].fired : \E t \in timers' : t.id = n /\ t.state = "due"
    <3>1. CASE z = s
      BY <1>3, <3>1
    <3>2. CASE z # s
      <4>1. \A t \in scanner[z].due : /\ t \in timers /\ t.state = "due"
                                      /\ t.id \notin scanner[z].fired
        BY DEF TimerInv, RowsDue
      <4>2. \A n \in scanner[z].fired : \E t \in timers : t.id = n /\ t.state = "due"
        BY DEF TimerInv, RowsDue
      <4>3. \A t \in scanner[z].due : t.id \notin F
        BY <1>0, <1>9, <3>2, <4>1 DEF Locks
      <4>4. \A t \in timers : t.id \in scanner[z].fired => t.id \notin F
        BY <1>0, <1>9, <3>2 DEF Locks
      <4>5. QED
        BY <1>3, <1>5, <3>2, <4>1, <4>2, <4>3, <4>4
    <3>3. QED
      BY <3>1, <3>2
  <2>2. QED
    BY <2>1 DEF RowsDue
<1>11. LocksApart'
  <2>1. \A z \in Scanners, n \in Nat : Locks(z, n)' => Locks(z, n)
    BY <1>3 DEF Locks
  <2>2. QED
    BY <2>1 DEF TimerInv, LocksApart
<1>12. ASSUME NEW r \in Runs, NEW k \in Keys
       PROVE  /\ TimerIDs(r, k)' = TimerIDs(r, k)
              /\ FiredIDs(r, k)' = FiredIDs(r, k) \cup MarkedIDs(s, r, k)
              /\ FiredIDs(r, k) \cap MarkedIDs(s, r, k) = {}
  <2>1. TimerIDs(r, k)' = TimerIDs(r, k)
    BY <1>4 DEF TimerIDs, FiredRow
  <2>2. ASSUME NEW n \in Nat
        PROVE  n \in FiredIDs(r, k)' <=> n \in FiredIDs(r, k) \/ n \in MarkedIDs(s, r, k)
    BY <1>4 DEF FiredIDs, MarkedIDs, TimerIDs, FiredRow
  <2>3. ASSUME NEW n \in Nat, n \in FiredIDs(r, k), n \in MarkedIDs(s, r, k) PROVE FALSE
    BY <1>6, <1>7, <2>3 DEF FiredIDs, MarkedIDs
  <2>4. FiredIDs(r, k)' \subseteq Nat /\ FiredIDs(r, k) \subseteq Nat
        /\ MarkedIDs(s, r, k) \subseteq Nat
    BY DEF FiredIDs, MarkedIDs, TimerIDs
  <2>5. QED
    BY <2>1, <2>2, <2>3, <2>4
<1>13. TimersMatch'
  <2> SUFFICES ASSUME NEW r \in Runs, NEW k \in Keys
               PROVE  /\ Matched(TimerIDs(r, k), About(events[r], "TimerStarted", k))'
                      /\ Matched(FiredIDs(r, k), About(events[r], "TimerFired", k))'
    BY DEF TimersMatch
  <2>1. \A i \in DOMAIN new[r] : new[r][i].type # "TimerStarted"
    <3>1. ASSUME NEW i \in DOMAIN new[r] PROVE new[r][i].type # "TimerStarted"
      <4>1. new[r] \in Seq(Event)
        BY <1>0
      <4>2. PICK e \in Event : e = new[r][i]
        BY <3>1, <4>1, ElementOfSeq, LenProperties
      <4>3. Batched(s, r, e)
        BY <3>1, <4>2 DEF Batched
      <4>4. QED
        BY <4>2, <4>3 DEF TimerInv, CauseInv, ScansCaused
    <3>2. QED
      BY <3>1
  <2>2. About(events'[r], "TimerStarted", k) = About(events[r], "TimerStarted", k)
    <3>1. TypeInv /\ InsertEvents(new) /\ new \in [Runs -> Seq(Event)]
      BY <1>0, <1>1
    <3> HIDE DEF new
    <3>2. QED
      BY <2>1, <3>1, AboutKept
  <2>3. PICK A : A = About(new[r], "TimerFired", k)
    OBVIOUS
  <2>4. /\ About(events'[r], "TimerFired", k) =
             About(events[r], "TimerFired", k) \cup {Len(events[r]) + i : i \in A}
        /\ About(events[r], "TimerFired", k) \cap {Len(events[r]) + i : i \in A} = {}
        /\ Len(events[r]) \in Nat /\ A \subseteq Nat
    BY <1>0, <1>1, <2>3, AboutInserted
  <2>5. /\ Matched(TimerIDs(r, k), About(events[r], "TimerStarted", k))
        /\ Matched(FiredIDs(r, k), About(events[r], "TimerFired", k))
        /\ Matched(MarkedIDs(s, r, k), A)
    BY <2>3 DEF TimerInv, TimersMatch, ScansMatch
  <2>6. Matched(MarkedIDs(s, r, k), {Len(events[r]) + i : i \in A})
    <3>1. PICK M : M = MarkedIDs(s, r, k)
      OBVIOUS
    <3>2. PICK n \in Nat : n = Len(events[r])
      BY <2>4
    <3>3. A \in SUBSET Nat /\ Matched(M, A)
      BY <2>4, <2>5, <3>1
    <3>4. Matched(M, {n + i : i \in A})
      BY <3>3, MatchedShift
    <3>5. QED
      BY <3>1, <3>2, <3>4
  <2>7. Matched(TimerIDs(r, k)', About(events'[r], "TimerStarted", k))
    BY <1>12, <2>2, <2>5
  <2>8. Matched(FiredIDs(r, k)', About(events'[r], "TimerFired", k))
    BY <1>12, <2>4, <2>5, <2>6, MatchedUnion
  <2>9. QED
    BY <2>7, <2>8
<1>14. ScansMatch'
  <2>1. ASSUME NEW z \in Scanners, NEW r \in Runs, NEW k \in Keys
        PROVE  Matched(MarkedIDs(z, r, k)', About(scanner'[z].batch[r], "TimerFired", k))
    <3>1. CASE z = s
      <4>1. MarkedIDs(z, r, k)' = {}
        BY <1>3, <3>1 DEF MarkedIDs
      <4>2. About(scanner'[z].batch[r], "TimerFired", k) = {}
        BY <1>3, <3>1 DEF About
      <4>3. QED
        BY <4>1, <4>2, MatchedEmpty
    <3>2. CASE z # s
      <4>1. MarkedIDs(z, r, k)' = MarkedIDs(z, r, k)
        BY <1>3, <1>12, <3>2 DEF MarkedIDs
      <4>2. QED
        BY <1>3, <3>2, <4>1 DEF TimerInv, ScansMatch
    <3>3. QED
      BY <3>1, <3>2
  <2>2. QED
    BY <2>1 DEF ScansMatch
<1>15. QED
  BY <1>8, <1>10, <1>11, <1>13, <1>14 DEF TimerInv

\* What the other commits insert is neither a start nor a firing of a timer.
LEMMA OneAbout ==
  ASSUME TypeInv, NEW q \in Runs, NEW e \in Event, InsertEvents(EventsOf(q, <<e>>)),
         e.type \notin {"TimerStarted", "TimerFired"}
  PROVE  \A r \in Runs, k \in Keys, T \in {"TimerStarted", "TimerFired"} :
           About(events'[r], T, k) = About(events[r], T, k)
<1>1. PICK new : new = EventsOf(q, <<e>>)
  OBVIOUS
<1>2. /\ InsertEvents(new) /\ new \in [Runs -> Seq(Event)]
      /\ \A r \in Runs : \A i \in DOMAIN new[r] : new[r][i] = e
  BY <1>1, OneEvent
<1>3. ASSUME NEW r \in Runs, NEW k, NEW T, e.type # T
      PROVE  About(events'[r], T, k) = About(events[r], T, k)
  <2>1. \A i \in DOMAIN new[r] : new[r][i].type # T
    BY <1>2, <1>3
  <2>2. InsertEvents(new)
    BY <1>2
  <2>3. new \in [Runs -> Seq(Event)]
    BY <1>2
  <2>4. TypeInv
    OBVIOUS
  <2>5. r \in Runs
    BY <1>3
  <2>6. About(events'[r], T, k) = About(events[r], T, k)
    BY ONLY <2>1, <2>2, <2>3, <2>4, <2>5, AboutKept, ZenonT(40)
  <2>7. QED
    BY <2>6
<1>4. \A T \in {"TimerStarted", "TimerFired"} : e.type # T
  OBVIOUS
<1>5. QED
  BY ONLY <1>3, <1>4

LEMMA TimerStep == TimerInv /\ [Next]_vars => TimerInv'
<1> SUFFICES ASSUME TimerInv, [Next]_vars PROVE TimerInv'
  OBVIOUS
<1> DEFINE Same == \A r \in Runs, k \in Keys, T \in {"TimerStarted", "TimerFired"} :
                     About(events'[r], T, k) = About(events[r], T, k)
<1>0. /\ TypeInv /\ CauseInv' /\ serial \in Nat /\ serial' \in Nat /\ serial <= serial + 1
  BY CauseStep DEF TimerInv, CauseInv, IDInv, TypeInv, TypeOK, TablesTypeOK
<1>1. UNCHANGED events => Same
  OBVIOUS
<1>2. serial' \in {serial, serial + 1} => serial <= serial'
  BY <1>0
<1>3. ASSUME UNCHANGED <<timers, scanner>>, serial' \in {serial, serial + 1}, Same
      PROVE  TimerInv'
  BY <1>0, <1>2, <1>3, TimerQuiet
<1> HIDE DEF Same
<1>4. ASSUME NEW c \in Clients, ClientNext(c) PROVE TimerInv'
  <2>1. CASE ClientMove(c)
    BY <1>1, <1>3, <2>1 DEF ClientMove, tables
  <2>2. CASE StartCommit(c)
    <3>1. PICK r \in Runs : r = client[c].run
      BY <1>0, <2>2, CommitEvents DEF StartCommit
    <3>2. PICK e \in Event : e = [id |-> 1, type |-> "WorkflowStarted", key |-> 0]
      BY <1>0, CommitEvents
    <3>3. /\ InsertEvents(EventsOf(r, <<e>>)) /\ UNCHANGED <<timers, scanner>>
          /\ serial' = serial + 1
      BY <2>2, <3>1, <3>2 DEF StartCommit
    <3>4. Same
      BY <1>0, <3>2, <3>3, OneAbout DEF Same
    <3>5. QED
      BY <1>3, <3>3, <3>4
  <2>3. CASE SignalCommit(c)
    <3>1. PICK r \in Runs : r = client[c].run
      BY <1>0, <2>3, CommitEvents DEF SignalCommit
    <3>2. PICK e \in Event : e = [id |-> client[c].next, type |-> "SignalReceived", key |-> 0]
      BY <1>0, CommitEvents
    <3>3. /\ InsertEvents(EventsOf(r, <<e>>)) /\ UNCHANGED <<timers, scanner>>
          /\ serial' \in {serial, serial + 1}
      BY <2>3, <3>1, <3>2 DEF SignalCommit
    <3>4. Same
      BY <1>0, <3>2, <3>3, OneAbout DEF Same
    <3>5. QED
      BY <1>3, <3>3, <3>4
  <2>4. QED
    BY <1>0, <1>4, <2>1, <2>2, <2>3, ClientMoves
<1>5. ASSUME NEW w \in Workers, WorkerNext(w) PROVE TimerInv'
  <2>1. CASE WorkerMove(w)
    BY <1>1, <1>3, <2>1 DEF WorkerMove, tables
  <2>2. ASSUME NEW t \in tasks, Poll(w, t) PROVE TimerInv'
    BY <1>1, <1>3, <2>2 DEF Poll
  <2>3. CASE DiscardWorkflowTask(w) \/ CommitRetry(w)
    BY <1>1, <1>3, <2>3 DEF DiscardWorkflowTask, CommitRetry
  <2>4. CASE CommitActivityTask(w)
    <3>1. PICK r \in Runs : r = worker[w].task.run
      BY <1>0, CommitEvents
    <3>2. PICK e \in Event : /\ e.type \in ActivityOutcomes
                             /\ OutcomeEvents(w) = EventsOf(r, <<e>>)
      BY <1>0, <3>1, CommitEvents DEF OutcomeEvents, OutcomeType, ActivityOutcomes
    <3>3. /\ InsertEvents(EventsOf(r, <<e>>)) /\ UNCHANGED <<timers, scanner>>
          /\ serial' = serial + 1
      BY <2>4, <3>2 DEF CommitActivityTask, OutcomeEvents, OutcomeType
    <3>4. Same
      BY <1>0, <3>2, <3>3, OneAbout DEF Same, ActivityOutcomes
    <3>5. QED
      BY <1>3, <3>3, <3>4
  <2>5. QED
    BY <1>0, <1>5, <2>1, <2>2, <2>3, <2>4, WorkerMoves, TimerDecide
<1>6. ASSUME NEW s \in Scanners, ScannerNext(s) PROVE TimerInv'
  BY <1>0, <1>6, TimerScan, TimerFires DEF ScannerNext
<1>7. CASE EngineNext
  <2>1. ASSUME NEW expired, ReclaimExpiredLeases(expired) PROVE TimerInv'
    BY <1>1, <1>3, <2>1 DEF ReclaimExpiredLeases
  <2>2. ASSUME NEW t \in tasks, BackoffElapses(t) PROVE TimerInv'
    BY <1>1, <1>3, <2>2 DEF BackoffElapses
  <2>3. QED
    BY <1>0, <1>7, <2>1, <2>2, TimerComes DEF EngineNext
<1>8. CASE UNCHANGED vars
  BY <1>1, <1>3, <1>8 DEF vars
<1>9. QED
  BY <1>4, <1>5, <1>6, <1>7, <1>8 DEF Next

LEMMA TimersInvariant == Spec => []TimerInv
BY TimerInit, TimerStep, PTL DEF Spec

-----------------------------------------------------------------------------
(* Rows and events, counted *)

\* Rows of timers with ids of their own are as many as their ids.
LEMMA RowsCounted ==
  ASSUME TimerInv, NEW S \in SUBSET timers, NEW T, Matched({t.id : t \in S}, T)
  PROVE  IsFiniteSet(S) /\ IsFiniteSet(T) /\ Cardinality(S) = Cardinality(T)
<1> DEFINE ids == {t.id : t \in S}
<1>1. /\ \A t \in S : t.id \in Nat /\ t.id <= serial
      /\ \A t, u \in S : t.id = u.id => t = u
      /\ serial \in Nat
  BY DEF TimerInv, TimersApart, CauseInv, IDInv, TypeInv, TypeOK, TablesTypeOK, Timer
<1>2. IsFiniteSet(ids)
  <2>1. ids \in SUBSET Nat /\ \A n \in ids : n <= serial
    BY <1>1
  <2> HIDE DEF ids
  <2>2. QED
    BY <1>1, <2>1, FS_BoundedSetOfNaturals
<1>3. Matched(ids, S)
  <2> DEFINE f == [n \in ids |-> CHOOSE t \in S : t.id = n]
  <2>1. \A n \in ids : f[n] \in S /\ f[n].id = n
    OBVIOUS
  <2>2. f \in [ids -> S]
    BY <2>1
  <2> HIDE DEF f
  <2>3. \A x, y \in ids : f[x] = f[y] => x = y
    BY <2>1
  <2>4. \A t \in S : \E n \in ids : f[n] = t
    BY <1>1, <2>1
  <2>5. QED
    BY <2>2, <2>3, <2>4 DEF Matched
<1> HIDE DEF ids
<1>4. Matched(ids, T)
  BY DEF ids
<1>5. QED
  BY <1>2, <1>3, <1>4, MatchedSize

\* Each row of timers is one TimerStarted event and each fired one is one
\* TimerFired event, with any number of engines scanning at once, and whichever
\* scans fail before they commit: a timer is neither lost nor fired twice.
THEOREM TimersFireExactlyOnce == Spec => []TimersFireOnce
<1>1. ASSUME TimerInv, NEW r \in Runs, NEW k \in Keys
      PROVE  LET rows == {t \in timers : t.run = r /\ t.key = k} IN
             /\ Cardinality(rows) = Cardinality(EventsAbout(r, {"TimerStarted"}, k))
             /\ Cardinality({t \in rows : t.state = "fired"}) =
                  Cardinality(EventsAbout(r, {"TimerFired"}, k))
  <2> DEFINE rows == {t \in timers : t.run = r /\ t.key = k}
             fired == {t \in rows : t.state = "fired"}
  <2>1. \A t \in timers : t.id \in Nat
    BY <1>1 DEF TimerInv, CauseInv, IDInv, TypeInv, TypeOK, TablesTypeOK, Timer
  <2>2. TimerIDs(r, k) = {t.id : t \in rows} /\ FiredIDs(r, k) = {t.id : t \in fired}
    BY <2>1 DEF TimerIDs, FiredIDs
  <2>3. \A T : EventsAbout(r, {T}, k) = About(events[r], T, k)
    BY DEF EventsAbout, HasType, About
  <2>4. /\ Matched({t.id : t \in rows}, About(events[r], "TimerStarted", k))
        /\ Matched({t.id : t \in fired}, About(events[r], "TimerFired", k))
    BY <1>1, <2>2 DEF TimerInv, TimersMatch
  <2>5. rows \in SUBSET timers /\ fired \in SUBSET timers
    OBVIOUS
  <2> HIDE DEF rows, fired
  <2>6. Cardinality(rows) = Cardinality(About(events[r], "TimerStarted", k))
    BY <1>1, <2>4, <2>5, RowsCounted
  <2>7. Cardinality(fired) = Cardinality(About(events[r], "TimerFired", k))
    BY <1>1, <2>4, <2>5, RowsCounted
  <2>8. QED
    BY <2>3, <2>6, <2>7 DEF rows, fired
<1>2. TimerInv => TimersFireOnce
  BY <1>1 DEF TimersFireOnce
<1>3. QED
  BY <1>2, TimersInvariant, PTL

-----------------------------------------------------------------------------
(* The log of DurableRun *)

\* No timer of a run has fired more often than it was started.
FiredBounded ==
  \A r \in Runs, k \in Keys :
    /\ IsFiniteSet(About(events[r], "TimerStarted", k))
    /\ IsFiniteSet(About(events[r], "TimerFired", k))
    /\ Cardinality(About(events[r], "TimerFired", k))
         <= Cardinality(About(events[r], "TimerStarted", k))

LEMMA FiredNotMore == TimerInv => FiredBounded
<1> SUFFICES ASSUME TimerInv, NEW r \in Runs, NEW k \in Keys
             PROVE  /\ IsFiniteSet(About(events[r], "TimerStarted", k))
                    /\ IsFiniteSet(About(events[r], "TimerFired", k))
                    /\ Cardinality(About(events[r], "TimerFired", k))
                         <= Cardinality(About(events[r], "TimerStarted", k))
  BY DEF FiredBounded
<1>1. TimerIDs(r, k) \in SUBSET Nat /\ FiredIDs(r, k) \in SUBSET TimerIDs(r, k)
  BY DEF TimerIDs, FiredIDs
<1>2. serial \in Nat /\ \A n \in TimerIDs(r, k) : n <= serial
  BY DEF TimerInv, TimersApart, TimerIDs, CauseInv, IDInv, TypeInv, TypeOK, TablesTypeOK
<1>3. IsFiniteSet(TimerIDs(r, k))
  BY <1>1, <1>2, FS_BoundedSetOfNaturals
<1>4. /\ IsFiniteSet(FiredIDs(r, k))
      /\ Cardinality(FiredIDs(r, k)) <= Cardinality(TimerIDs(r, k))
  BY <1>1, <1>3, FS_Subset
<1>5. /\ Matched(TimerIDs(r, k), About(events[r], "TimerStarted", k))
      /\ Matched(FiredIDs(r, k), About(events[r], "TimerFired", k))
  BY DEF TimerInv, TimersMatch
<1>6. QED
  BY <1>3, <1>4, <1>5, MatchedSize

\* DurableRun counts as FiniteSets does.
LEMMA SameCardinality == \A S : Log!Cardinality(S) = Cardinality(S)
BY DEF Log!Cardinality, Cardinality

DurableInv == TimerInv /\ StatusInv

\* A commit whose events have their causes in the history already.
LEMMA RecordCommit ==
  ASSUME DurableInv, FiredBounded', NEW new \in [Runs -> Seq(Event)], InsertEvents(new),
         \A r \in Runs : Absent(r) => new[r] = <<>>,
         \A r \in Runs : \A i \in DOMAIN new[r] :
           new[r][i].type # "WorkflowStarted" /\ Answers(r, new[r][i]),
         \A r \in Runs : \A i, j \in DOMAIN new[r] :
           new[r][i].type = "TimerFired" => new[r][j].type = "TimerFired"
  PROVE  Log!Record
<1> SUFFICES ASSUME NEW r \in Runs
             PROVE  /\ events[r] = <<>> => events'[r] = <<>>
                    /\ Len(events[r]) <= Len(events'[r])
                    /\ SubSeq(events'[r], 1, Len(events[r])) = events[r]
                    /\ \A i \in (Len(events[r]) + 1)..Len(events'[r]) :
                         Log!Justified(events'[r], i)
  BY DEF Log!Record
<1> DEFINE old == events[r]
           add == new[r]
           res == events'[r]
           n == Len(old)
<1>0. /\ TypeInv /\ events \in [Runs -> Seq(Event)] /\ old \in Seq(Event)
      /\ add \in Seq(Event) /\ res = old \o add
  <2>1. TypeInv
    BY DEF DurableInv, TimerInv, CauseInv, IDInv
  <2>2. events \in [Runs -> Seq(Event)]
    BY <2>1 DEF TypeInv, TypeOK, TablesTypeOK
  <2>3. old \in Seq(Event) /\ add \in Seq(Event)
    BY <2>2
  <2>4. res = old \o add
    BY <2>2 DEF InsertEvents
  <2>5. QED
    BY <2>1, <2>2, <2>3, <2>4
<1>1. /\ n \in Nat /\ Len(add) \in Nat /\ Len(res) = n + Len(add)
      /\ DOMAIN old = 1..n /\ DOMAIN add = 1..Len(add)
      /\ DOMAIN res = 1..(n + Len(add))
      /\ \A i \in DOMAIN old : i \in DOMAIN res /\ res[i] = old[i]
      /\ \A i \in DOMAIN res : i \notin DOMAIN old =>
           \E j \in DOMAIN add : i = n + j /\ res[i] = add[j]
  BY <1>0, Inserted, ZenonT(40)
<1>2. old = <<>> => res = <<>>
  <2>1. old = <<>> => Absent(r)
    BY DEF DurableInv, StatusInv, RunInv, HistoryStartsOnce
  <2>2. QED
    BY <1>0, <2>1
<1>3. SubSeq(res, 1, n) = old
  <2>1. \A i \in 1..n : res[i] \in Event
    BY <1>0, <1>1, ElementOfSeq
  <2> HIDE DEF old, add, res, n
  <2>2. /\ SubSeq(res, 1, n) \in Seq(Event) /\ Len(SubSeq(res, 1, n)) = n
        /\ \A i \in 1..n : SubSeq(res, 1, n)[i] = res[i]
    BY <1>1, <2>1, SubSeqProperties
  <2>3. QED
    BY <1>0, <1>1, <2>2, SeqEqual DEF n
<1>4. ASSUME NEW i \in (n + 1)..Len(res) PROVE Log!Justified(res, i)
  <2>1. i \in DOMAIN res /\ i \notin DOMAIN old /\ i \in Nat
    BY <1>1
  <2>2. PICK j \in DOMAIN add : i = n + j /\ res[i] = add[j]
    BY <1>1, <2>1
  <2>3. PICK e \in Event : e = add[j]
    BY <1>0, <1>1, ElementOfSeq
  <2>4. e.type # "WorkflowStarted" /\ Answers(r, e)
    BY <2>3
  <2>5. ASSUME e.type \in DOMAIN Log!Answered
        PROVE  \E p \in Log!Entries(res, i - 1, Log!Answered[e.type], e.key) :
                 res[p].id < e.id
    <3>1. e.type \in DOMAIN Causes /\ Causes[e.type] = Log!Answered[e.type]
      BY <2>5 DEF Log!Answered, Causes, ActivityOutcomes
    <3>2. PICK m \in Nat : m < e.id /\ Caused(r, Causes[e.type], e.key, m)
      BY <2>4, <3>1 DEF Answers
    <3>3. PICK p \in DOMAIN old : /\ old[p].type = Causes[e.type] /\ old[p].key = e.key
                                  /\ old[p].id = m
      BY <3>2 DEF Caused
    <3>4. p \in 1..(i - 1) /\ res[p] = old[p]
      BY <1>1, <3>3
    <3>5. QED
      BY <3>1, <3>2, <3>3, <3>4 DEF Log!Entries
  <2>6. ASSUME e.type = "TimerFired"
        PROVE  Cardinality(Log!Entries(res, i, "TimerFired", e.key))
                 <= Cardinality(Log!Entries(res, i - 1, "TimerStarted", e.key))
    <3> DEFINE started == About(res, "TimerStarted", e.key)
               fired == About(res, "TimerFired", e.key)
    <3>1. /\ IsFiniteSet(started) /\ IsFiniteSet(fired)
          /\ Cardinality(fired) <= Cardinality(started)
      BY DEF FiredBounded, Event
    <3>2. \A p \in DOMAIN res : res[p].type = "TimerStarted" => p \in DOMAIN old
      BY <1>1, <2>3, <2>6
    <3> HIDE DEF res, old, n
    <3>3. Log!Entries(res, i - 1, "TimerStarted", e.key) = started
      BY <1>1, <2>1, <3>2 DEF Log!Entries, About
    <3>4. Log!Entries(res, i, "TimerFired", e.key) \in SUBSET fired
      BY <1>1, <2>1 DEF Log!Entries, About
    <3> HIDE DEF started, fired
    <3>5. Cardinality(Log!Entries(res, i, "TimerFired", e.key)) <= Cardinality(fired)
          /\ IsFiniteSet(Log!Entries(res, i, "TimerFired", e.key))
      BY <3>1, <3>4, FS_Subset
    <3>6. /\ Cardinality(Log!Entries(res, i, "TimerFired", e.key)) \in Nat
          /\ Cardinality(fired) \in Nat /\ Cardinality(started) \in Nat
      BY <3>1, <3>5, FS_CardinalityType
    <3>7. QED
      BY <3>1, <3>3, <3>5, <3>6
  <2>7. res[i] = e
    BY <2>2, <2>3
  <2> HIDE DEF res
  <2>8. res[i].type # "WorkflowStarted"
    BY ONLY <2>4, <2>7
  <2>9. res[i].type \in DOMAIN Log!Answered =>
          \E p \in Log!Entries(res, i - 1, Log!Answered[res[i].type], res[i].key) :
            res[p].id < res[i].id
    BY ONLY <2>5, <2>7
  <2>10. res[i].type = "TimerFired" =>
           Cardinality(Log!Entries(res, i, "TimerFired", res[i].key))
             <= Cardinality(Log!Entries(res, i - 1, "TimerStarted", res[i].key))
    BY ONLY <2>6, <2>7
  <2>11. QED
    BY <2>8, <2>9, <2>10, SameCardinality DEF Log!Justified
<1>5. QED
  BY <1>1, <1>2, <1>3, <1>4

\* The commits that write one event or one answer, and that of a scan.
LEMMA RecordSteps ==
  ASSUME DurableInv, FiredBounded',
         \/ \E c \in Clients : SignalCommit(c)
         \/ \E w \in Workers : CommitActivityTask(w)
         \/ \E w \in Workers : CommitWorkflowTask(w)
         \/ \E s \in Scanners : ScanCommit(s)
  PROVE  Log!Record
<1>0. /\ TypeInv /\ RunInv /\ CauseInv
      /\ \A r \in Runs, e \in Event : e.type \notin DOMAIN Causes => Answers(r, e)
      /\ DOMAIN Causes = ActivityOutcomes \cup {"TimerFired"}
  BY DEF DurableInv, StatusInv, RunInv, TimerInv, Answers, Causes
<1>1. ASSUME NEW r \in Runs, ~Absent(r), NEW e \in Event, InsertEvents(EventsOf(r, <<e>>)),
             e.type \notin {"WorkflowStarted", "TimerFired"}, Answers(r, e)
      PROVE  Log!Record
  <2> DEFINE new == EventsOf(r, <<e>>)
  <2>1. /\ new \in [Runs -> Seq(Event)] /\ DOMAIN new[r] = {1} /\ new[r][1] = e
        /\ \A q \in Runs \ {r} : new[q] = <<>> /\ DOMAIN new[q] = {}
    <3>1. PICK f : f = new
      OBVIOUS
    <3>2. QED
      BY <3>1, OneEvent
  <2>2. InsertEvents(new)
    BY <1>1
  <2> HIDE DEF new
  <2>3. \A q \in Runs : Absent(q) => new[q] = <<>>
    BY <1>1, <2>1
  <2>4. ASSUME NEW q \in Runs, NEW i \in DOMAIN new[q]
        PROVE  q = r /\ new[q][i] = e
    BY <2>1, <2>4
  <2>5. QED
    BY <1>1, <2>1, <2>2, <2>3, <2>4, RecordCommit
<1>2. ASSUME NEW c \in Clients, SignalCommit(c) PROVE Log!Record
  <2>1. PICK r \in Runs : r = client[c].run
    BY <1>0, <1>2, CommitEvents DEF SignalCommit
  <2>2. PICK e \in Event : e = [id |-> client[c].next, type |-> "SignalReceived", key |-> 0]
    BY <1>0, CommitEvents
  <2>3. InsertEvents(EventsOf(r, <<e>>)) /\ client[c].pc = "enqueued"
    BY <1>2, <2>1, <2>2 DEF SignalCommit
  <2>4. ~Absent(r)
    BY <1>0, <2>1, <2>3 DEF RunInv, ProcessesKnown, Signalling
  <2>5. e.type = "SignalReceived" /\ Answers(r, e)
    BY <1>0, <2>2 DEF ActivityOutcomes
  <2>6. QED
    BY <1>1, <2>3, <2>4, <2>5
<1>3. ASSUME NEW w \in Workers, CommitActivityTask(w) PROVE Log!Record
  <2> DEFINE t == worker[w].task
  <2>1. PICK r \in Runs : r = worker[w].task.run
    BY <1>0, CommitEvents
  <2>2. PICK e \in Event : e = [id |-> worker[w].next, type |-> OutcomeType(worker[w].ok),
                                key |-> t.key]
    BY <1>0, CommitEvents
  <2>3. /\ InsertEvents(EventsOf(r, <<e>>)) /\ worker[w].pc = "ready"
        /\ t.kind = "activity"
    BY <1>3, <2>1, <2>2 DEF CommitActivityTask, OutcomeType
  <2>4. ~Absent(r)
    BY <1>0, <2>1, <2>3 DEF RunInv, ProcessesKnown, Busy
  <2>5. e.type \in ActivityOutcomes /\ e.id = worker[w].next /\ e.key = t.key
    BY <2>2 DEF OutcomeType, ActivityOutcomes
  <2>6. t \in Task /\ t.sched \in Nat
    BY <1>0 DEF TypeInv, TypeOK, WorkerState, Task
  <2>7. Caused(r, "ActivityScheduled", e.key, t.sched) /\ t.sched < e.id
    BY <1>0, <2>1, <2>3, <2>5, <2>6
    DEF CauseInv, HoldersCaused, Holds, Busy, Scheduled
  <2>8. Causes[e.type] = "ActivityScheduled" /\ e.type \notin {"WorkflowStarted", "TimerFired"}
    BY <2>5 DEF Causes, ActivityOutcomes
  <2>9. Answers(r, e)
    BY <2>6, <2>7, <2>8 DEF Answers
  <2>10. QED
    BY <1>1, <2>3, <2>4, <2>8, <2>9
<1>4. ASSUME NEW w \in Workers, CommitWorkflowTask(w) PROVE Log!Record
  <2> DEFINE r == worker[w].task.run
             cmds == worker[w].cmds
             new == DecisionEvents(w)
  <2>1. InsertEvents(new) /\ worker[w].pc = "ready"
    BY <1>0, <1>4, DecisionCommit
  <2>2. r \in Runs /\ ~Absent(r)
    BY <1>0, <2>1, CommitEvents DEF RunInv, ProcessesKnown, Busy
  <2>a. /\ new \in [Runs -> Seq(Event)] /\ DOMAIN new[r] = 1..Len(cmds)
        /\ \A q \in Runs \ {r} : new[q] = <<>> /\ DOMAIN new[q] = {}
    BY <1>0, Decisions
  <2>3. ASSUME NEW i \in 1..Len(cmds)
        PROVE  /\ cmds[i] \in Command /\ new[r][i] \in Event
               /\ new[r][i].type = Recorded[cmds[i].type]
    <3>1. /\ cmds[i] \in Command
          /\ new[r][i] = Decision(w, i) /\ Decision(w, i) \in Event
          /\ Decision(w, i).type = Recorded[cmds[i].type]
      BY <1>0, <2>3, Decisions
    <3>2. QED
      BY <3>1
  <2>4. \A type \in CommandTypes :
          Recorded[type] \notin ActivityOutcomes \cup {"TimerFired", "WorkflowStarted"}
    BY DEF CommandTypes, Recorded, ActivityOutcomes
  <2>5. \A i \in 1..Len(cmds) : cmds[i].type \in CommandTypes
    BY <2>3 DEF Command
  <2> HIDE DEF r, new, cmds
  <2>6. ASSUME NEW q \in Runs, NEW i \in DOMAIN new[q]
        PROVE  /\ new[q][i] \in Event
               /\ new[q][i].type \notin ActivityOutcomes \cup {"TimerFired", "WorkflowStarted"}
    BY <2>a, <2>3, <2>4, <2>5, <2>6
  <2>7. \A q \in Runs : \A i \in DOMAIN new[q] : Answers(q, new[q][i])
    BY <1>0, <2>6
  <2>8. \A q \in Runs : Absent(q) => new[q] = <<>>
    BY <2>2, <2>a
  <2>9. QED
    BY <2>1, <2>a, <2>6, <2>7, <2>8, RecordCommit
<1>5. ASSUME NEW s \in Scanners, ScanCommit(s) PROVE Log!Record
  <2> DEFINE new == scanner[s].batch
  <2>1. InsertEvents(new)
    BY <1>5 DEF ScanCommit
  <2>2. new \in [Runs -> Seq(Event)] /\ \A q \in Runs : new[q] \in Seq(Event)
    BY <1>0 DEF TypeInv, TypeOK, ScannerState
  <2>3. \A q \in Runs : Absent(q) => new[q] = <<>>
    BY <1>0 DEF RunInv, ScansKnown
  <2>4. ASSUME NEW q \in Runs, NEW i \in DOMAIN new[q]
        PROVE  new[q][i].type = "TimerFired" /\ Answers(q, new[q][i])
    <3>1. PICK e \in Event : e = new[q][i]
      BY <2>2, <2>4, ElementOfSeq
    <3>2. Batched(s, q, e)
      BY <2>4, <3>1 DEF Batched
    <3>3. QED
      BY <1>0, <3>1, <3>2 DEF CauseInv, ScansCaused
  <2> HIDE DEF new
  <2>5. QED
    BY <2>1, <2>2, <2>3, <2>4, RecordCommit
<1>6. QED
  BY <1>2, <1>3, <1>4, <1>5

LEMMA LogStart ==
  ASSUME StatusInv, NEW c \in Clients, StartCommit(c)
  PROVE  \E r \in Runs : Log!Start(r)
<1> DEFINE e == [id |-> 1, type |-> "WorkflowStarted", key |-> 0]
<1>0. RunInv /\ TypeInv /\ events \in [Runs -> Seq(Event)]
  BY DEF StatusInv, RunInv, TypeInv, TypeOK, TablesTypeOK
<1>1. PICK r \in Runs : r = client[c].run
  BY <1>0, CommitEvents DEF StartCommit
<1>2. PICK new : new = EventsOf(r, <<e>>)
  OBVIOUS
<1>3. InsertEvents(new) /\ client[c].pc = "checked"
  BY <1>1, <1>2 DEF StartCommit
<1>4. e \in Event
  BY <1>0, CommitEvents
<1>5. /\ new \in [Runs -> Seq(Event)] /\ DOMAIN new[r] = {1} /\ new[r][1] = e
      /\ \A q \in Runs \ {r} : new[q] = <<>>
  <2> HIDE DEF e
  <2>1. QED
    BY <1>2, <1>4, OneEvent
<1>6. events[r] = <<>>
  BY <1>0, <1>1, <1>3 DEF RunInv, StartsApart, Starting, HistoryStartsOnce
<1>7. /\ \A q \in Runs : events'[q] = events[q] \o new[q]
      /\ \A q \in Runs : events[q] \in Seq(Event) /\ new[q] \in Seq(Event)
  BY <1>0, <1>3, <1>5 DEF InsertEvents
<1>8. events'[r] = new[r] /\ \A q \in Runs \ {r} : events'[q] = events[q]
  BY <1>5, <1>6, <1>7, ConcatEmptySeq
<1>9. Len(events'[r]) = 1
  <2>1. Len(new[r]) \in Nat /\ DOMAIN new[r] = 1..Len(new[r])
    BY <1>7, LenProperties
  <2>2. 1 \in 1..Len(new[r]) /\ (Len(new[r]) >= 1 => Len(new[r]) \in {1})
    BY <1>5, <2>1
  <2>3. QED
    BY <1>8, <2>2
<1>10. Log!Start(r)
  BY <1>5, <1>6, <1>8, <1>9 DEF Log!Start
<1>11. QED
  BY <1>10

\* Every step of the engine is a step of the log, or none.
LEMMA LogStep ==
  DurableInv /\ TimerInv' /\ StatusInv' /\ [Next]_vars => [Log!LogNext]_(Log!logVars)
<1> SUFFICES ASSUME DurableInv, TimerInv', StatusInv', [Next]_vars
             PROVE  [Log!LogNext]_(Log!logVars)
  OBVIOUS
<1>0. TypeInv /\ StatusInv
  BY DEF DurableInv, StatusInv, RunInv
<1>1. FiredBounded'
  BY FiredNotMore, PTL
<1>2. [r \in Runs |-> execs'[r].status] = [r \in Runs |-> Log!StatusOf(events'[r])]
  BY DEF StatusInv, StatusExact
<1>3. CASE UNCHANGED <<execs, events>>
  BY <1>3 DEF Log!logVars
<1>4. ASSUME NEW c \in Clients, StartCommit(c) PROVE Log!LogNext
  BY <1>0, <1>2, <1>4, LogStart DEF Log!LogNext
<1>5. ASSUME \/ \E c \in Clients : SignalCommit(c)
             \/ \E w \in Workers : CommitActivityTask(w)
             \/ \E w \in Workers : CommitWorkflowTask(w)
             \/ \E s \in Scanners : ScanCommit(s)
      PROVE  Log!LogNext
  <2>1. Log!Record
    BY <1>0, <1>1, <1>5, RecordSteps
  <2>2. QED
    BY <1>2, <2>1 DEF Log!LogNext
<1>6. QED
  BY <1>0, <1>3, <1>4, <1>5, WritingSteps

LEMMA LogStarts == Init => Log!LogInit
BY DEF Init, TablesInit, Log!LogInit

\* Transactions, tasks, leases, retries and failures of any process are
\* invisible in what the engine promises: its tables of events and of
\* executions are the log of DurableRun, which only grows, records nothing
\* without its cause and fires no timer more often than it was started, and
\* the status of every run is what the log says.
THEOREM EngineImplementsDurableRun == Spec => ImplementsDurableRun
<1>1. Spec => []DurableInv
  BY TimersInvariant, StatusInit, StatusStep, PTL DEF Spec, DurableInv
<1>2. DurableInv' => TimerInv' /\ StatusInv'
  BY DEF DurableInv
<1>3. QED
  BY <1>1, <1>2, LogStarts, LogStep, PTL DEF Spec, ImplementsDurableRun, Log!LogSpec

=============================================================================
