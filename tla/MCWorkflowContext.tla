-------------------------- MODULE MCWorkflowContext --------------------------
(* The functions of examples/worker/main.go, as the calls they make. *)
EXTENDS WorkflowContext

MCNames == {"CheckStock", "ChargeCard", "Ship", "approval"}

Execute(name) == [op |-> "Execute", name |-> name, future |-> 0, heeds |-> "nothing"]
Await(name, k, heeds) ==
  [op |-> "Get", name |-> name, future |-> k, heeds |-> heeds]
SleepCall == [op |-> "Sleep", name |-> "", future |-> 0, heeds |-> "nothing"]
Receive(name, heeds) ==
  [op |-> "Receive", name |-> name, future |-> 0, heeds |-> heeds]

\* CheckStock must say Available and ChargeCard Charged.
TestWorkflow ==
  <<Execute("CheckStock"), Await("CheckStock", 0, "value"),
    Execute("ChargeCard"), Await("ChargeCard", 1, "value"),
    Execute("Ship"), Await("Ship", 2, "error")>>

TestTimerWorkflow ==
  <<Execute("CheckStock"), Await("CheckStock", 0, "error"), SleepCall,
    Execute("Ship"), Await("Ship", 1, "error")>>

ApprovalWorkflow ==
  <<Execute("CheckStock"), Await("CheckStock", 0, "error"),
    Receive("approval", "value"),
    Execute("Ship"), Await("Ship", 1, "error")>>

(* And two that use more of the Context than the examples do. *)

\* One activity twice at once, with the futures awaited in the other order;
\* the error of the first Get is not looked at.
Twice ==
  <<Execute("Ship"), Execute("Ship"), Await("Ship", 1, "nothing"),
    Await("Ship", 0, "value")>>

\* Two timers, and two signals of one name.
Waits ==
  <<SleepCall, Receive("approval", "nothing"), SleepCall,
    Receive("approval", "value")>>

MCFunctions ==
  {TestWorkflow, TestTimerWorkflow, ApprovalWorkflow, Twice, Waits}

MCApproval == {ApprovalWorkflow}
=============================================================================
