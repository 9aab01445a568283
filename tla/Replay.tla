------------------------------- MODULE Replay -------------------------------
(***************************************************************************)
(* What replaying a workflow function over a history comes to, as one      *)
(* expression: the calls the function gets past, and the commands it       *)
(* leaves.  sdk/workflow/context.go computes the same with counters while  *)
(* the function runs (module WorkflowContext); here a call is identified   *)
(* by how many calls of its kind come before it in the function.           *)
(*                                                                         *)
(* A workflow function is here the straight line of the calls it makes on  *)
(* the Context, as the functions of examples/worker/main.go are.  Where    *)
(* its code looks at a result and gives up (an error of Get, a rejected    *)
(* approval) the rest is not reached.  A function whose later calls depend *)
(* on a result (a branch, a loop, a compensation) is outside this model;   *)
(* what it does between two calls is deterministic and left out.           *)
(***************************************************************************)
EXTENDS Integers, Sequences, SequencesExt

CONSTANT Names      \* of activities and of signals; "" where there is none

\* f := ExecuteActivity(c, name, in);  f.Get(&out) of the future with that
\* call index;  Sleep(c, d);  ReceiveSignal(c, name, &out).  heeds: what the
\* function looks at and gives up for: nothing, the error of the call, or
\* that error and the value it got.
Call == [op : {"Execute", "Get", "Sleep", "Receive"}, name : Names \cup {""},
         future : Nat, heeds : {"nothing", "error", "value"}]

ActivityOutcomes == {"ActivityCompleted", "ActivityFailed"}

ClosingTypes == {"WorkflowCompleted", "WorkflowFailed"}

\* index: activity_index or timer_index; good: what the data says.
HistoryEvent ==
  [type : {"WorkflowStarted", "ActivityScheduled", "TimerStarted",
           "TimerFired", "SignalReceived"} \cup ActivityOutcomes \cup ClosingTypes,
   name : Names \cup {""}, index : Nat, good : BOOLEAN]

WorkflowCommand ==
  [type : {"ScheduleActivity", "StartTimer", "CompleteWorkflow", "FailWorkflow"},
   name : Names \cup {""}, index : Nat]

\* Activities and signals have names.  A future is only waited for after the
\* call that returned it, and stands for that call's activity.
WellFormed(fn) ==
  /\ fn \in Seq(Call)
  /\ \A i \in DOMAIN fn : fn[i].op \in {"Execute", "Receive"} => fn[i].name \in Names
  /\ \A i \in DOMAIN fn : fn[i].op = "Get" =>
       \E j \in 1..(i - 1) : /\ fn[j].op = "Execute" /\ fn[j].name = fn[i].name
                             /\ fn[i].future =
                                  Cardinality({k \in 1..(j - 1) : fn[k].op = "Execute"})

-----------------------------------------------------------------------------
(* What the loops over ctx.history look for *)

\* Mutation: looks for the outcome, as Get does.
IsFinished(h, name, k) ==
  \E j \in DOMAIN h : /\ h[j].type \in ActivityOutcomes
                      /\ h[j].name = name /\ h[j].index = k

IsScheduled(h, name, k) ==
  \E j \in DOMAIN h : /\ h[j].type = "ActivityScheduled"
                      /\ h[j].name = name /\ h[j].index = k

Outcomes(h, name, k) ==
  {j \in DOMAIN h : /\ h[j].type \in ActivityOutcomes
                    /\ h[j].name = name /\ h[j].index = k}

HasTimer(h, type, k) == \E j \in DOMAIN h : h[j].type = type /\ h[j].index = k

Signals(h, name) ==
  {j \in DOMAIN h : h[j].type = "SignalReceived" /\ h[j].name = name}

\* Mutation: Get returns no error for a failed activity.
GoesOnRegardless(call, e) == call.heeds = "value" => e.good

\* The event with which a call returns is one the function goes on from.
GoesOn(call, e) ==
  \/ call.heeds = "nothing"
  \/ e.type # "ActivityFailed" /\ (call.heeds = "value" => e.good)

-----------------------------------------------------------------------------
(* Replay as an expression *)

\* How many calls like call i come before it.
Before(fn, i) ==
  Cardinality({j \in 1..(i - 1) :
                 /\ fn[j].op = fn[i].op
                 /\ fn[i].op = "Receive" => fn[j].name = fn[i].name})

\* The events among which call i of the function finds its answer.
Answers(fn, h, i) ==
  CASE fn[i].op = "Get"   -> Outcomes(h, fn[i].name, fn[i].future)
    [] fn[i].op = "Sleep" -> {j \in DOMAIN h : /\ h[j].type = "TimerFired"
                                               /\ h[j].index = Before(fn, i)}
    [] fn[i].op = "Receive" ->
         {j \in Signals(h, fn[i].name) :
            Cardinality({k \in Signals(h, fn[i].name) : k < j}) >= Before(fn, i)}
    [] OTHER -> {}

GetsPast(fn, h, i) ==
  \/ fn[i].op = "Execute"
  \/ /\ Answers(fn, h, i) # {}
     /\ GoesOn(fn[i], h[Min(Answers(fn, h, i))])

\* The call at which the function stops, one past the last if it returns nil.
StopsAt(fn, h) ==
  Min({i \in DOMAIN fn : ~GetsPast(fn, h, i)} \cup {Len(fn) + 1})

Pauses(fn, h) == StopsAt(fn, h) \in DOMAIN fn /\ Answers(fn, h, StopsAt(fn, h)) = {}

\* Mutation: the loop of Sleep over TimerStarted is left out.
IssuesSleepAgain(fn, h, i) ==
  \/ /\ fn[i].op = "Execute" /\ i < StopsAt(fn, h)
     /\ ~IsScheduled(h, fn[i].name, Before(fn, i))
  \/ fn[i].op = "Sleep" /\ i = StopsAt(fn, h)

\* The calls that leave a command.
Issues(fn, h, i) ==
  \/ /\ fn[i].op = "Execute" /\ i < StopsAt(fn, h)
     /\ ~IsScheduled(h, fn[i].name, Before(fn, i))
  \/ /\ fn[i].op = "Sleep" /\ i = StopsAt(fn, h)
     /\ ~HasTimer(h, "TimerStarted", Before(fn, i))

\* The last command of a function that returns.
LastCommand(fn, h) ==
  IF Pauses(fn, h) THEN <<>>
  ELSE <<[type  |-> IF StopsAt(fn, h) = Len(fn) + 1
                    THEN "CompleteWorkflow" ELSE "FailWorkflow",
          name  |-> "", index |-> 0]>>

CommandOf(fn, i) ==
  [type  |-> IF fn[i].op = "Execute" THEN "ScheduleActivity" ELSE "StartTimer",
   name  |-> IF fn[i].op = "Execute" THEN fn[i].name ELSE "",
   index |-> Before(fn, i)]

\* What RespondWorkflowTaskCompleted is called with.
Commands(fn, h) ==
  LET issuing == {i \in DOMAIN fn : Issues(fn, h, i)}
      nth(n)  == CHOOSE i \in issuing :
                   Cardinality({j \in issuing : j < i}) = n - 1
  IN  [n \in 1..Cardinality(issuing) |-> CommandOf(fn, nth(n))] \o LastCommand(fn, h)

=============================================================================
