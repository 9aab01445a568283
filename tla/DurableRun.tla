----------------------------- MODULE DurableRun -----------------------------
(***************************************************************************)
(* What the engine promises of a run, without transactions, tasks and      *)
(* processes: its history is a log that only grows, nothing is recorded    *)
(* without what it follows from, and the status is no more than a reading  *)
(* of the log.                                                             *)
(***************************************************************************)
EXTENDS Integers, Sequences, FiniteSets

CONSTANT Runs

VARIABLES
  log,      \* of each run: entries with an id, a type and a key
  status    \* of each run

logVars == <<log, status>>

-----------------------------------------------------------------------------
Answered == [ActivityCompleted |-> "ActivityScheduled",
             ActivityFailed    |-> "ActivityScheduled",
             TimerFired        |-> "TimerStarted"]

Entries(l, n, type, key) ==
  {i \in 1..n : l[i].type = type /\ l[i].key = key}

\* Entry i of log l follows from the entries before it.  An activity whose
\* task two workers held may have two outcomes; a timer fires once for each
\* time it was started.
Justified(l, i) ==
  /\ l[i].type # "WorkflowStarted"
  /\ l[i].type \in DOMAIN Answered =>
       \E j \in Entries(l, i - 1, Answered[l[i].type], l[i].key) : l[j].id < l[i].id
  /\ l[i].type = "TimerFired" =>
       Cardinality(Entries(l, i, "TimerFired", l[i].key))
         <= Cardinality(Entries(l, i - 1, "TimerStarted", l[i].key))

\* The last closing entry is the one that counts.
LastClosing(l, type) ==
  \E i \in DOMAIN l :
    /\ l[i].type = type
    /\ \A j \in DOMAIN l :
         l[j].type \in {"WorkflowCompleted", "WorkflowFailed"} => j <= i

StatusOf(l) ==
  CASE l = <<>>                            -> "Absent"
    [] LastClosing(l, "WorkflowCompleted") -> "Completed"
    [] LastClosing(l, "WorkflowFailed")    -> "Failed"
    [] OTHER                               -> "Running"

-----------------------------------------------------------------------------
LogInit ==
  /\ log = [r \in Runs |-> <<>>]
  /\ status = [r \in Runs |-> "Absent"]

Start(r) ==
  /\ log[r] = <<>>
  /\ Len(log'[r]) = 1 /\ log'[r][1].type = "WorkflowStarted" /\ log'[r][1].id = 1
  /\ \A q \in Runs \ {r} : log'[q] = log[q]

\* One transaction may add entries to several runs.
Record ==
  \A r \in Runs :
    /\ log[r] = <<>> => log'[r] = <<>>
    /\ Len(log[r]) <= Len(log'[r]) /\ SubSeq(log'[r], 1, Len(log[r])) = log[r]
    /\ \A i \in (Len(log[r]) + 1)..Len(log'[r]) : Justified(log'[r], i)

LogNext ==
  /\ Record \/ \E r \in Runs : Start(r)
  /\ status' = [r \in Runs |-> StatusOf(log'[r])]

LogSpec == LogInit /\ [][LogNext]_logVars

=============================================================================
