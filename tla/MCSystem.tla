------------------------------ MODULE MCSystem ------------------------------
(* Workflow functions for System, after examples/worker/main.go. *)
EXTENDS System, TLC

call(op, name, k) ==
  [op |-> op, name |-> name, future |-> k,
   heeds |-> IF op = "Get" THEN "error" ELSE "nothing"]

MCNames == {"CheckStock", "ChargeCard", "Ship", "approval"}

OneActivity == <<call("Execute", "Ship", 0), call("Get", "Ship", 0)>>

\* TestTimerWorkflow without its first activity.
SleepThenShip == <<call("Sleep", "", 0)>> \o OneActivity

\* Two activities at once.
Parallel ==
  <<call("Execute", "CheckStock", 0), call("Execute", "ChargeCard", 0),
    call("Get", "CheckStock", 0), call("Get", "ChargeCard", 1)>>

\* The same, with a third one that needs both.
Join == Parallel \o <<call("Execute", "Ship", 0), call("Get", "Ship", 2)>>

cmd(t, k) == [type |-> t, key |-> k]

Closings == {<<>>, <<cmd("CompleteWorkflow", 0)>>, <<cmd("FailWorkflow", 0)>>}

\* Every list of commands that these functions may come to.
MCCommandLists ==
  Closings \cup {<<cmd("StartTimer", 0)>>}
    \cup {<<cmd("ScheduleActivity", k)>> : k \in Keys}

MCJoinCommandLists ==
  Closings
    \cup {<<cmd("ScheduleActivity", 0), cmd("ScheduleActivity", 1)>>,
          <<cmd("ScheduleActivity", 2)>>}
=============================================================================
