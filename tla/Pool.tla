-------------------------------- MODULE Pool --------------------------------
(***************************************************************************)
(* One engine process and its pgxpool: handlers of RPCs and the two loops  *)
(* of cmd/engine take connections, several of them a second one while they *)
(* hold that of their transaction, and the shutdown waits for the handlers *)
(* and then for the connections.                                           *)
(***************************************************************************)
EXTENDS Integers, Sequences, FiniteSets, SequencesExt

CONSTANTS
  Connections,    \* of the pool
  Calls,          \* RPCs that may be under way at once
  Loops,          \* scanTimers and reclaimLoop
  Due,            \* BOUND: how many timers a scan may find due
  None

ASSUME NoneAssumption == None \notin (Calls \cup Loops) \X {"tx", "query"}
ASSUME ProcessesAssumption == Calls \cap Loops = {}
ASSUME DueAssumption == Due \subseteq Nat

Processes == Calls \cup Loops

VARIABLES
  phase,     \* "serving", "stopping" (GracefulStop), "closing" (pool.Close), "stopped"
  todo,      \* what each process has still to do with the database
  holder,    \* of each connection: which process, and for what
  running,   \* processes whose query has its connection
  waiting    \* processes in Acquire, which the pool serves in their order

vars == <<phase, todo, holder, running, waiting>>

\* "begin": BeginTx;  "query": a query through p.db, not through the tx;
\* "commit": Commit or, after an early return, Rollback.  The last attempt of
\* FailActivityTask asks for what CompleteActivityTask does.
Operations == {"begin", "query", "commit"}

StartWorkflow        == <<"begin", "query", "commit">>
PollWorkflowTask     == <<"begin", "commit", "query">>
PollActivityTask     == <<"begin", "commit">>
CompleteWorkflowTask == <<"begin", "query", "query", "commit">>
CompleteActivityTask == <<"begin", "query", "query", "query", "commit">>
FailActivityTask     == <<"begin", "query", "commit">>
SignalWorkflow       == <<"query", "begin", "query", "query", "commit">>

Handlers == {StartWorkflow, PollWorkflowTask, PollActivityTask,
             CompleteWorkflowTask, CompleteActivityTask, FailActivityTask,
             SignalWorkflow}

\* Of each of the n due timers the events and the execution are read.
ScanTimers(n) ==
  [i \in 1..(2 * n + 2) |-> IF i = 1 THEN "begin"
                           ELSE IF i = 2 * n + 2 THEN "commit" ELSE "query"]

ReclaimExpiredLeases == <<"query">>

TickerLoops == {ScanTimers(n) : n \in Due} \cup {ReclaimExpiredLeases}

\* The use is "tx", for as long as the transaction, or "query".
Uses == {"tx", "query"}

TypeOK ==
  /\ phase \in {"serving", "stopping", "closing", "stopped"}
  /\ todo \in [Processes -> Seq(Operations)]
  /\ holder \in [Connections -> (Processes \X Uses) \cup {None}]
  /\ running \subseteq Processes
  /\ waiting \in Seq(Processes)

Init ==
  /\ phase = "serving"
  /\ todo = [p \in Processes |-> <<>>]
  /\ holder = [c \in Connections |-> None]
  /\ running = {}
  /\ waiting = <<>>

-----------------------------------------------------------------------------
Busy(p) == todo[p] # <<>>

Free == {c \in Connections : holder[c] = None}

InAcquire(p) == \E i \in DOMAIN waiting : waiting[i] = p

\* The connections of process p, for one of these uses, go back to the pool.
Release(p, uses) ==
  holder' = [c \in Connections |->
               IF holder[c] \in {p} \X uses THEN None ELSE holder[c]]

\* The context of process p ends its Acquire, if it is in one.
LeavesQueue(p) ==
  waiting' = IF InAcquire(p)
             THEN RemoveAt(waiting, CHOOSE i \in DOMAIN waiting : waiting[i] = p)
             ELSE waiting

\* A request comes in, or a ticker fires.
Begin(p, operations) ==
  /\ phase = "serving" /\ ~Busy(p)
  /\ todo' = [todo EXCEPT ![p] = operations]
  /\ UNCHANGED <<phase, holder, running, waiting>>

Acquire(p) ==
  /\ Busy(p) /\ Head(todo[p]) \in {"begin", "query"}
  /\ p \notin running /\ ~InAcquire(p)
  /\ waiting' = Append(waiting, p)
  /\ UNCHANGED <<phase, todo, holder, running>>

\* Mutation: the signal closes the pool, and GracefulStop comes after that.
ServingOnly == phase = "serving"

PoolOpen == phase \in {"serving", "stopping"}

\* The pool, while it is open, hands a connection to the one that has
\* waited longest.
Grant(c) ==
  LET p == Head(waiting) IN
  /\ PoolOpen /\ waiting # <<>> /\ c \in Free
  /\ waiting' = Tail(waiting)
  /\ IF Head(todo[p]) = "begin"
     THEN /\ holder' = [holder EXCEPT ![c] = <<p, "tx">>]
          /\ todo' = [todo EXCEPT ![p] = Tail(@)]
          /\ UNCHANGED running
     ELSE /\ holder' = [holder EXCEPT ![c] = <<p, "query">>]
          /\ running' = running \cup {p}
          /\ UNCHANGED todo
  /\ UNCHANGED phase

\* Mutation: without defer rows.Close().
AnswerKeeps(p) ==
  /\ p \in running
  /\ running' = running \ {p}
  /\ todo' = [todo EXCEPT ![p] = Tail(@)]
  /\ UNCHANGED <<phase, holder, waiting>>

\* The rows have been read: the connection goes back.
Answer(p) ==
  /\ p \in running
  /\ Release(p, {"query"})
  /\ running' = running \ {p}
  /\ todo' = [todo EXCEPT ![p] = Tail(@)]
  /\ UNCHANGED <<phase, waiting>>

\* Commit, or Rollback after an early return.
Commit(p) ==
  /\ Busy(p) /\ Head(todo[p]) = "commit"
  /\ Release(p, {"tx"})
  /\ todo' = [todo EXCEPT ![p] = Tail(@)]
  /\ UNCHANGED <<phase, running, waiting>>

\* Mutation: without defer tx.Rollback(ctx).
AbortKeeps(p) ==
  /\ Busy(p)
  /\ todo' = [todo EXCEPT ![p] = <<>>]
  /\ Release(p, {"query"})
  /\ running' = running \ {p}
  /\ LeavesQueue(p)
  /\ UNCHANGED phase

\* An error of the database, or the caller has gone: defer tx.Rollback(ctx).
Abort(p) ==
  /\ Busy(p)
  /\ todo' = [todo EXCEPT ![p] = <<>>]
  /\ Release(p, Uses)
  /\ running' = running \ {p}
  /\ LeavesQueue(p)
  /\ UNCHANGED phase

-----------------------------------------------------------------------------
(* Shutdown *)

\* SIGTERM: the listener is closed, GracefulStop waits for the handlers.
Interrupt ==
  /\ phase = "serving" /\ phase' = "stopping"
  /\ UNCHANGED <<todo, holder, running, waiting>>

\* The loops run under the context that is cancelled, the handlers do not.
LoopCancelled(p) == phase # "serving" /\ Abort(p)

\* Serve returns, then main, with its defer pool.Close().
ServeReturns ==
  /\ phase = "stopping" /\ \A p \in Calls : ~Busy(p)
  /\ phase' = "closing"
  /\ UNCHANGED <<todo, holder, running, waiting>>

\* Serve returns an error while RPCs are served: os.Exit(1), without the
\* deferred pool.Close().  The connections are the process's, and end with it.
ServeFails ==
  /\ phase = "serving" /\ phase' = "stopped"
  /\ todo' = [p \in Processes |-> <<>>]
  /\ holder' = [c \in Connections |-> None]
  /\ running' = {} /\ waiting' = <<>>

\* pool.Close() waits for the connections.
Close ==
  /\ phase = "closing" /\ Free = Connections
  /\ phase' = "stopped"
  /\ UNCHANGED <<todo, holder, running, waiting>>

-----------------------------------------------------------------------------
Work(p) == Acquire(p) \/ Answer(p) \/ Commit(p)

SomeGrant == \E c \in Connections : Grant(c)

Next ==
  \/ \E p \in Calls, operations \in Handlers : Begin(p, operations)
  \/ \E p \in Loops, operations \in TickerLoops : Begin(p, operations)
  \/ \E p \in Processes : Work(p) \/ Abort(p)
  \/ \E p \in Loops : LoopCancelled(p)
  \/ SomeGrant
  \/ Interrupt \/ ServeReturns \/ ServeFails \/ Close

\* The database answers, the pool hands out what it has, and cancelling a
\* context has its effect.
Fairness ==
  /\ \A p \in Processes : WF_vars(Work(p))
  /\ \A p \in Loops : WF_vars(LoopCancelled(p))
  /\ WF_vars(SomeGrant) /\ WF_vars(ServeReturns) /\ WF_vars(Close)

Spec == Init /\ [][Next]_vars /\ Fairness

-----------------------------------------------------------------------------
(* Properties *)

\* Everybody who is at work is in Acquire, and no connection is free.
Standstill ==
  /\ \E p \in Processes : Busy(p)
  /\ \A p \in Processes : Busy(p) => InAcquire(p)
  /\ Free = {}

\* The engine comes to a stop in one way only: each connection is that of an
\* open transaction whose own handler, or scan, is in Acquire for a second one
\* (a query through p.db before the Commit).  No query is left without its
\* connection in any other way, and no connection is lost.
StandstillIsExhaustion ==
  Standstill =>
    \A c \in Connections : \E p \in Processes :
      holder[c] = <<p, "tx">> /\ InAcquire(p) /\ Head(todo[p]) = "query"

\* Each way out of a handler gives back what it took, and no handler ever
\* has more than two connections.
NothingLeaks ==
  \A p \in Processes :
    LET held == {c \in Connections : holder[c] \in {p} \X Uses} IN
    /\ ~Busy(p) => held = {}
    /\ Cardinality(held) <= 2

\* "Graceful shutdown" (README.md:249): the signal ends the process, after
\* the handlers that were under way.  Not so if these exhaust the pool.
ShutdownEnds == phase = "stopping" ~> phase = "stopped"

\* Otherwise it does, and before it every handler comes to its end: what can
\* keep a handler or the shutdown waiting for ever is a standstill, never the
\* order in which Acquire serves, a scan, or a connection not given back.
CallsEndOrStandStill ==
  \A p \in Calls : Busy(p) ~> ~Busy(p) \/ Standstill

ShutdownEndsOrStandsStill == phase = "stopping" ~> phase = "stopped" \/ Standstill

=============================================================================
