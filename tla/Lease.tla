-------------------------------- MODULE Lease --------------------------------
(***************************************************************************)
(* The tasks of one queue and type, with time: PollTask as it runs in      *)
(* PostgreSQL, the 30 s lease and the 5 s reclaim tick, the backoff of     *)
(* failed attempts, rows whose type no worker has registered, workers and  *)
(* engine that go down.                                                    *)
(*                                                                         *)
(* A tick is a unit of time; times in the table are kept as the ticks left *)
(* until they are reached.  What a handler of History does in more than    *)
(* one step is one step here, except PollTask.                             *)
(***************************************************************************)
EXTENDS Integers, FiniteSets

CONSTANTS
  Workers, Nobody, Nothing,
  MaxRows,         \* BOUND: ids handed out by the sequence of tasks
  Faults,          \* BOUND: crashes of workers, stops of the engine and
                   \* reclaims that are late
  Types,           \* activity or workflow types
  Registered,      \* the types that the workers have functions for
  LeaseTicks,      \* interval '30 seconds'
  ReclaimTicks,    \* NewTicker(5 * time.Second)
  PollTicks,       \* what the transaction of PollTask takes at most
  Skew,            \* between the clocks of the engine and of the database
  MaxAttempts, InitialInterval, MaxInterval    \* DefaultRetryPolicy

Rows == 1..MaxRows

ASSUME WorkersAssumption == Nobody \notin Workers /\ Nothing \notin Rows
ASSUME TypesAssumption == Registered \subseteq Types /\ Types # {}
ASSUME TimesAssumption ==
  /\ LeaseTicks \in Nat \ {0} /\ ReclaimTicks \in Nat \ {0}
  /\ PollTicks \in Nat /\ PollTicks < LeaseTicks /\ Skew \in Nat
  /\ InitialInterval \in Nat \ {0} /\ MaxInterval \in Nat \ {0}
ASSUME NumbersAssumption ==
  MaxRows \in Nat /\ Faults \in Nat /\ MaxAttempts \in Nat \ {0}

VARIABLES
  row,          \* the table
  lastRow,      \* its sequence
  poller,       \* PollTask and the worker behind it
  up,           \* the engine runs
  reclaimIn,    \* ticks until the ticker of reclaimLoop
  faults,       \* still to come
  steady        \* auxiliary: ticks since the engine started, or its reclaim
                \* was last late, as far as needed

vars == <<row, lastRow, poller, up, reclaimIn, faults, steady>>

-----------------------------------------------------------------------------
\* left: until lease_expires_at, while there is an owner;  delay: until
\* visibility_time;  age: since the row was inserted, up to MaxInterval.
RowType ==
  [state : {"new", "present", "gone"}, type : Types, attempt : 1..MaxAttempts,
   owner : Workers \cup {Nobody}, left : Int, delay : Nat, age : 0..MaxInterval]

\* "selecting": the SELECT has its snapshot;  "locked": it has its row, which
\* the transaction has locked;  "working": the worker has been handed the row.
\* left: until the transaction's now() + 30 s.
PollerType ==
  [pc : {"idle", "selecting", "locked", "working"}, seen : SUBSET Rows,
   id : Rows \cup {Nothing}, left : Int]

Idle == [pc |-> "idle", seen |-> {}, id |-> Nothing, left |-> 0]

TypeOK ==
  /\ row \in [Rows -> RowType]
  /\ lastRow \in 0..MaxRows
  /\ poller \in [Workers -> PollerType]
  /\ up \in BOOLEAN
  /\ reclaimIn \in 0..ReclaimTicks
  /\ faults \in 0..Faults
  /\ steady \in 0..(ReclaimTicks + 1)

NewRow == [state |-> "new", type |-> CHOOSE t \in Types : TRUE, attempt |-> 1,
           owner |-> Nobody, left |-> 0, delay |-> 0, age |-> 0]

Init ==
  /\ row = [i \in Rows |-> NewRow]
  /\ lastRow = 0
  /\ poller = [w \in Workers |-> Idle]
  /\ up = TRUE /\ reclaimIn = ReclaimTicks /\ faults = Faults /\ steady = 0

-----------------------------------------------------------------------------
(* InsertTask *)

Inserted(type, attempt, delay) ==
  [NewRow EXCEPT !.state = "present", !.type = type, !.attempt = attempt,
                 !.delay = delay]

InsertTask(type) ==
  /\ up /\ lastRow < MaxRows                                        \* BOUND
  /\ lastRow' = lastRow + 1
  /\ row' = [row EXCEPT ![lastRow + 1] = Inserted(type, 1, 0)]
  /\ UNCHANGED <<poller, up, reclaimIn, faults, steady>>

-----------------------------------------------------------------------------
(* PollTask *)

\* Mutation: without AND visibility_time <= now().
AvailableEarly(i) == row[i].state = "present" /\ row[i].owner = Nobody

\* The WHERE clause.
Available(i) ==
  row[i].state = "present" /\ row[i].owner = Nobody /\ row[i].delay = 0

\* Mutation: without FOR UPDATE.
NeverLocked(i) == FALSE

Locked(i) == \E w \in Workers : poller[w].pc = "locked" /\ poller[w].id = i

\* Begin, and the snapshot of the SELECT; no row at all is the answer at once.
Select(w) ==
  LET found == {i \in Rows : Available(i)} IN
  /\ up /\ poller[w].pc = "idle" /\ found # {}
  /\ poller' = [poller EXCEPT ![w] =
        [pc |-> "selecting", seen |-> found, id |-> Nothing, left |-> LeaseTicks]]
  /\ UNCHANGED <<row, lastRow, up, reclaimIn, faults, steady>>

\* Mutation: FOR UPDATE without SKIP LOCKED on a row read from the snapshot.
LockableUnchecked(i) == row[i].state = "present"

\* What SKIP LOCKED leaves of the snapshot; a row that has changed since is
\* looked at again.
Lockable(i) == Available(i) /\ ~Locked(i)

\* ORDER BY id LIMIT 1 FOR UPDATE SKIP LOCKED
LockRow(w) ==
  LET rows == {i \in poller[w].seen : Lockable(i)} IN
  /\ poller[w].pc = "selecting"
  /\ \/ /\ rows = {}
        /\ poller' = [poller EXCEPT ![w] = Idle]
     \/ \E first \in rows :
          /\ \A i \in rows : first <= i
          /\ poller' = [poller EXCEPT ![w] =
                [@ EXCEPT !.pc = "locked", !.seen = {}, !.id = first]]
  /\ UNCHANGED <<row, lastRow, up, reclaimIn, faults, steady>>

\* UPDATE tasks SET lease_owner, lease_expires_at; Commit; the response.
LeaseRow(w) ==
  /\ poller[w].pc = "locked"
  /\ row' = [row EXCEPT ![poller[w].id].owner = w,
                        ![poller[w].id].left = poller[w].left]
  /\ poller' = [poller EXCEPT ![w].pc = "working"]
  /\ UNCHANGED <<lastRow, up, reclaimIn, faults, steady>>

-----------------------------------------------------------------------------
(* The worker that has been handed a row *)

Known(i) == row[i].type \in Registered

\* Mutation: the worker gives an unknown task back at once.
DropReleases(w) ==
  LET i == poller[w].id IN
  /\ poller[w].pc = "working" /\ ~Known(i)
  /\ row' = [row EXCEPT ![i].owner = Nobody]
  /\ poller' = [poller EXCEPT ![w] = Idle]
  /\ UNCHANGED <<lastRow, up, reclaimIn, faults, steady>>

\* fn, ok := functions[type]; if !ok { return }: the lease stays.
Drop(w) ==
  /\ poller[w].pc = "working" /\ ~Known(poller[w].id)
  /\ poller' = [poller EXCEPT ![w] = Idle]
  /\ UNCHANGED <<row, lastRow, up, reclaimIn, faults, steady>>

Deleted == [NewRow EXCEPT !.state = "gone"]

\* A handler with CompleteTask, which waits for the lock of a poller.
Reports(w) ==
  poller[w].pc = "working" /\ Known(poller[w].id) /\ up /\ ~Locked(poller[w].id)

Complete(w) ==
  /\ Reports(w)
  /\ row' = [row EXCEPT ![poller[w].id] = Deleted]
  /\ poller' = [poller EXCEPT ![w] = Idle]
  /\ UNCHANGED <<lastRow, up, reclaimIn, faults, steady>>

Power2[n \in Nat] == IF n = 0 THEN 1 ELSE 2 * Power2[n - 1]

\* nextRetryDelay before the jitter.
Backoff(attempt) ==
  LET b == InitialInterval * Power2[attempt - 1] IN
  IF b > MaxInterval THEN MaxInterval ELSE b

\* backoff * (0.5 + rand * 0.5)
RetryDelays(attempt) ==
  {d \in 0..MaxInterval : d <= Backoff(attempt) /\ 2 * d >= Backoff(attempt)}

\* The engine adds that to its own now(); the database compares with its.
Delays(attempt) ==
  {d \in 0..(MaxInterval + Skew) :
     \E e \in RetryDelays(attempt) : e - Skew <= d /\ d <= e + Skew}

AttemptsLeft(i) == row[i].attempt < MaxAttempts

\* FailActivityTask with attempts left: another row takes the place of this.
Retry(w) ==
  LET i == poller[w].id IN
  /\ Reports(w)
  /\ row[i].state = "present" /\ AttemptsLeft(i)
  /\ lastRow < MaxRows                                              \* BOUND
  /\ lastRow' = lastRow + 1
  /\ \E d \in Delays(row[i].attempt) :
       row' = [row EXCEPT ![i] = Deleted,
                  ![lastRow + 1] = Inserted(row[i].type, row[i].attempt + 1, d)]
  /\ poller' = [poller EXCEPT ![w] = Idle]
  /\ UNCHANGED <<up, reclaimIn, faults, steady>>

\* The worker dies, or loses the response; PollTask rolls back.
Crash(w) ==
  /\ poller[w].pc # "idle"
  /\ faults > 0 /\ faults' = faults - 1                             \* BOUND
  /\ poller' = [poller EXCEPT ![w] = Idle]
  /\ UNCHANGED <<row, lastRow, up, reclaimIn, steady>>

-----------------------------------------------------------------------------
(* The engine process *)

\* Mutation: one tick late.
ExpiredLate(i) == row[i].owner # Nobody /\ row[i].left < -1

\* lease_owner IS NOT NULL AND lease_expires_at < now()
Expired(i) == row[i].owner # Nobody /\ row[i].left < 0

\* The next tick is a period away, less if this UPDATE has had to wait.
ReclaimExpiredLeases ==
  /\ up /\ reclaimIn = 0
  /\ reclaimIn' \in 1..ReclaimTicks
  /\ row' = [i \in Rows |-> IF Expired(i) THEN [row[i] EXCEPT !.owner = Nobody, !.left = 0]
                            ELSE row[i]]
  /\ UNCHANGED <<lastRow, poller, up, faults, steady>>

\* The UPDATE fails, which is logged, and the next tick tries again; or it
\* waits for a connection or a row lock.
ReclaimLate ==
  /\ up /\ reclaimIn = 0
  /\ faults > 0 /\ faults' = faults - 1                             \* BOUND
  /\ reclaimIn' \in 1..ReclaimTicks /\ steady' = 0
  /\ UNCHANGED <<row, lastRow, poller, up>>

\* The process ends: its transactions are rolled back.
Stop ==
  /\ up
  /\ faults > 0 /\ faults' = faults - 1                             \* BOUND
  /\ up' = FALSE /\ steady' = 0 /\ reclaimIn' = ReclaimTicks
  /\ poller' = [w \in Workers |->
        IF poller[w].pc = "working" THEN poller[w] ELSE Idle]
  /\ UNCHANGED <<row, lastRow>>

Start ==
  /\ ~up /\ up' = TRUE
  /\ UNCHANGED <<row, lastRow, poller, reclaimIn, faults, steady>>

-----------------------------------------------------------------------------
(* Time *)

\* What does not wait: the ticker of reclaimLoop; a poll loop, which sleeps
\* for a second after a poll without result; PollTask; the return from a task
\* without a function.
Due ==
  \/ up /\ reclaimIn = 0
  \/ up /\ \E w \in Workers : poller[w].pc = "idle" /\ \E i \in Rows : Available(i)
  \/ \E w \in Workers : /\ poller[w].pc \in {"selecting", "locked"}
                        /\ poller[w].left <= LeaseTicks - PollTicks
  \/ \E w \in Workers : poller[w].pc = "working" /\ ~Known(poller[w].id)

LessOne(n, floor) == IF n > floor THEN n - 1 ELSE floor

OneMore(n, ceiling) == IF n < ceiling THEN n + 1 ELSE ceiling

\* BOUND: how long ago a lease has expired is kept up to this.
Overdue == -(ReclaimTicks + 1)

Older(r) ==
  IF r.state # "present" THEN r
  ELSE [r EXCEPT !.left = IF r.owner = Nobody THEN 0 ELSE LessOne(r.left, Overdue),
                 !.delay = LessOne(r.delay, 0),
                 !.age = OneMore(r.age, MaxInterval)]

Tick ==
  /\ ~Due
  /\ row' = [i \in Rows |-> Older(row[i])]
  /\ poller' = [w \in Workers |->
        IF poller[w].pc = "idle" THEN Idle
        ELSE [poller[w] EXCEPT !.left = LessOne(@, -1)]]
  /\ reclaimIn' = IF up THEN reclaimIn - 1 ELSE reclaimIn
  /\ steady' = IF up THEN OneMore(steady, ReclaimTicks + 1) ELSE steady
  /\ UNCHANGED <<lastRow, up, faults>>

-----------------------------------------------------------------------------
WorkerStep(w) ==
  \/ Select(w) \/ LockRow(w) \/ LeaseRow(w)
  \/ Drop(w) \/ Complete(w) \/ Retry(w)

Next ==
  \/ \E type \in Types : InsertTask(type)
  \/ \E w \in Workers : WorkerStep(w) \/ Crash(w)
  \/ ReclaimExpiredLeases \/ ReclaimLate \/ Stop \/ Start \/ Tick

\* The loops of the worker and the engine, and time, go on; an engine that
\* has stopped is started again.
Fairness ==
  /\ \A w \in Workers : WF_vars(WorkerStep(w))
  /\ WF_vars(ReclaimExpiredLeases) /\ WF_vars(Start) /\ WF_vars(Tick)

Spec == Init /\ [][Next]_vars /\ Fairness

-----------------------------------------------------------------------------
(* Properties *)

\* "without handing out the same task twice" (README.md:244): until 30 s have
\* passed since its poll began, a worker owns the row it was handed, whoever
\* polls at the same moment and whenever reclaimLoop runs; so no other worker
\* is handed it.  (Or the row is gone: a former owner has completed it.)
ExclusiveLease ==
  \A w \in Workers :
    LET me == poller[w] IN
    me.pc = "working" /\ me.left >= 0 /\ row[me.id].state = "present" =>
      row[me.id].owner = w

\* A row of a crashed or stalled worker is pollable again within the lease
\* and one period of reclaimLoop; or one period after the engine is back, or
\* after the last reclaim that failed or had to wait.
ReclaimedInTime ==
  \A i \in Rows :
    row[i].owner # Nobody /\ row[i].left < -ReclaimTicks =>
      ~up \/ steady <= ReclaimTicks

\* No worker has an attempt in hand before the least backoff that follows
\* the failure of the one before it, but for the difference of the clocks.
RetryWaits ==
  \A w \in Workers :
    LET me == poller[w] IN
    /\ me.pc \in {"locked", "working"} /\ row[me.id].state = "present"
    /\ row[me.id].attempt > 1
    => 2 * (row[me.id].age + Skew) >= Backoff(row[me.id].attempt - 1)

\* ORDER BY id has rows that no function is registered for come first again
\* each time their leases end.  They cannot keep the others from being done.
KnownTasksFinish ==
  \A i \in Rows :
    row[i].state = "present" /\ Known(i) ~> row[i].state = "gone"

-----------------------------------------------------------------------------
(* The rows, their owners and what workers have in hand are a task queue. *)

Queue == INSTANCE TaskQueue WITH
  state <- [i \in Rows |-> row[i].state],
  owner <- [i \in Rows |-> row[i].owner],
  given <- [w \in Workers |->
              IF poller[w].pc = "working" THEN poller[w].id ELSE Nothing]

ImplementsQueue == Queue!QueueSpec

=============================================================================
