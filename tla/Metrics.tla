------------------------------- MODULE Metrics -------------------------------
(***************************************************************************)
(* internal/metrics next to History: one engine process, whose counters    *)
(* live in its memory.  A handler adds to them after its transaction has   *)
(* committed, so a commit leaves increments to be made; when the process   *)
(* ends those are lost, with the counters themselves and the transactions  *)
(* that are open.                                                          *)
(*                                                                         *)
(* TaskPolls, ActivityRetries and LeasesReclaimed count what leaves no row *)
(* behind, and are left out.                                               *)
(***************************************************************************)
EXTENDS History

Counters ==
  {"WorkflowsStarted", "completed", "failed",         \* WorkflowsTerminated
   "ActivitiesScheduled", "TimersStarted",
   "activity completed", "activity failed",           \* ActivitiesFinished
   "TimersFired", "SignalsDelivered"}

CONSTANT Restarts    \* BOUND: of the engine process
ASSUME RestartsAssumption == Restarts \in Nat

VARIABLES
  counters,
  owed,       \* increments of committed transactions, not made yet
  restarts,   \* still to come
  before      \* auxiliary: what the tables held when the process started

counts == <<counters, owed, restarts, before>>

metricsVars == <<vars, counts>>

None == [n \in Counters |-> 0]

\* The rows that the transactions behind each counter have left: the counters
\* are aggregate counts of lifecycle events (metrics.go:7-9).  A run that two
\* workers close has two closing events here, and so has an activity that is
\* reported twice.
NumberOf(type) ==
  Cardinality({p \in Runs \X (1..MaxEvents) :
                 p[2] \in DOMAIN events[p[1]] /\ HasType(p[1], p[2], {type})})

Committed ==
  [n \in Counters |->
     CASE n = "WorkflowsStarted"    -> Cardinality({r \in Runs : ~Absent(r)})
       [] n = "completed"           -> NumberOf("WorkflowCompleted")
       [] n = "failed"              -> NumberOf("WorkflowFailed")
       [] n = "ActivitiesScheduled" -> NumberOf("ActivityScheduled")
       [] n = "TimersStarted"       -> NumberOf("TimerStarted")
       [] n = "activity completed"  -> NumberOf("ActivityCompleted")
       [] n = "activity failed"     -> NumberOf("ActivityFailed")
       [] n = "TimersFired"         -> Cardinality({t \in timers : t.state = "fired"})
       [] n = "SignalsDelivered"    -> NumberOf("SignalReceived")]

MetricsInit ==
  /\ Init
  /\ counters = None /\ owed = None
  /\ restarts = Restarts /\ before = None

-----------------------------------------------------------------------------
\* The transaction has committed; its handler is about to add these.
Owe(tally) ==
  /\ owed' = [n \in Counters |->
                owed[n] + IF n \in DOMAIN tally THEN tally[n] ELSE 0]
  /\ UNCHANGED <<counters, restarts, before>>

One(n) == [c \in {n} |-> 1]

\* Mutation: one for each kind of command in the answer.
TallyOfKinds(cmds) ==
  LET n(type) == IF CommandsOf(type, cmds) = {} THEN 0 ELSE 1 IN
  [ActivitiesScheduled |-> n("ScheduleActivity"), TimersStarted |-> n("StartTimer"),
   completed |-> n("CompleteWorkflow"), failed |-> n("FailWorkflow")]

\* scheduled, timersStarted, completed, failed
Tally(cmds) ==
  LET n(type) == Cardinality(CommandsOf(type, cmds)) IN
  [ActivitiesScheduled |-> n("ScheduleActivity"), TimersStarted |-> n("StartTimer"),
   completed |-> n("CompleteWorkflow"), failed |-> n("FailWorkflow")]

ClientSteps(c) ==
  \/ StartCommit(c) /\ Owe(One("WorkflowsStarted"))
  \/ SignalCommit(c) /\ Owe(One("SignalsDelivered"))
  \/ /\ \/ \E wf \in Workflows : StartBegin(c, wf) \/ SignalWorkflowID(c, wf)
        \/ \E r \in 0..MaxRuns : SignalRunID(c, r)
        \/ StartCheck(c) \/ SignalCheck(c) \/ SignalRead(c) \/ SignalEnqueue(c)
        \/ ClientAbort(c)
     /\ UNCHANGED counts

WorkerSteps(w) ==
  \/ CommitWorkflowTask(w) /\ Owe(Tally(worker[w].cmds))
  \/ /\ CommitActivityTask(w)
     /\ Owe(One(IF worker[w].ok THEN "activity completed" ELSE "activity failed"))
  \/ /\ \/ \E t \in tasks : Poll(w, t)
        \/ FetchHistory(w)
        \/ \E cmds \in CommandLists : CheckRunning(w, cmds)
        \/ DiscardWorkflowTask(w) \/ ReadEvents(w)
        \/ \E ok \in BOOLEAN : GetTask(w, ok)
        \/ CommitRetry(w) \/ Abandon(w)
     /\ UNCHANGED counts

\* Mutation: each timer is counted in the loop, before the commit.
ScannerStepsCountingEarly(s) ==
  \/ ScanCommit(s) /\ UNCHANGED counts
  \/ \E t \in scanner[s].due : ScanTimer(s, t) /\ Owe(One("TimersFired"))
  \/ /\ \/ \E due \in SUBSET timers : ScanSelect(s, due)
        \/ ScanAbort(s)
     /\ UNCHANGED counts

\* len(dueTimers) of the scan.
ScannerSteps(s) ==
  \/ ScanCommit(s) /\ Owe([TimersFired |-> Cardinality(scanner[s].fired)])
  \/ /\ \/ \E due \in SUBSET timers : ScanSelect(s, due)
        \/ \E t \in scanner[s].due : ScanTimer(s, t)
        \/ ScanAbort(s)
     /\ UNCHANGED counts

\* Inc and Add of one handler, or of several.
Count(n) ==
  /\ \E k \in 1..owed[n] :
       /\ counters' = [counters EXCEPT ![n] = @ + k]
       /\ owed' = [owed EXCEPT ![n] = @ - k]
  /\ UNCHANGED <<vars, restarts, before>>

\* The process ends and is started again.  A worker that was running a
\* function still is; its report will be answered by the new process.
InHandler(w) == worker[w].pc \in {"polled", "running", "closed", "found", "retry", "ready"}

Restart ==
  /\ restarts > 0 /\ restarts' = restarts - 1                       \* BOUND
  /\ client' = [c \in Clients |-> IdleClient]
  /\ scanner' = [s \in Scanners |-> IdleScanner]
  /\ worker' = [w \in Workers |-> IF InHandler(w) THEN IdleWorker ELSE worker[w]]
  /\ counters' = None /\ owed' = None /\ before' = Committed
  /\ UNCHANGED <<tables, lastRun, decided>>

MetricsNext ==
  \/ \E c \in Clients : ClientSteps(c)
  \/ \E w \in Workers : WorkerSteps(w)
  \/ \E s \in Scanners : ScannerSteps(s)
  \/ EngineNext /\ UNCHANGED counts
  \/ \E n \in Counters : Count(n)
  \/ Restart

MetricsSpec == MetricsInit /\ [][MetricsNext]_metricsVars

-----------------------------------------------------------------------------
(* Properties *)

\* "incremented only after the owning transaction commits, so they reflect
\* durable truth rather than rolled-back attempts" (metrics.go:20): since the
\* process started, no counter has gone further than the tables have.
NeverAheadOfTables ==
  \A n \in Counters : counters[n] <= Committed[n] - before[n]

\* "their aggregate counts are exactly what you want" (metrics.go:7-9): when
\* no handler is between its commit and its increments, every counter is the
\* number of events, or fired rows, that were committed since the process
\* started; also with answers of several commands, scans that roll back,
\* handlers that the last restart cut off, and two workers that both close.
CountsCommittedEvents ==
  owed = None => \A n \in Counters : counters[n] = Committed[n] - before[n]

\* The Help text of workflows_terminated_total (metrics.go:52): "Total number
\* of workflow executions that reached a terminal state".  The code adds one
\* for each closing event.
CountsExecutions ==
  owed = None /\ before = None =>
    counters["completed"] + counters["failed"] =
      Cardinality({r \in Runs : execs[r].status \in Closed})

=============================================================================
