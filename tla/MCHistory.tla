----------------------------- MODULE MCHistory -----------------------------
(* Small instances of History for TLC. *)
EXTENDS History, TLC

cmd(t, k) == [type |-> t, key |-> k]

\* Lists that replay of a function with activities and a Sleep may hand over:
\* pauses, decisions, and a last answer that still starts something before
\* it closes the run.
MCCommandLists ==
  {<<>>,
   <<cmd("ScheduleActivity", 0)>>,
   <<cmd("StartTimer", 0)>>,
   <<cmd("ScheduleActivity", 0), cmd("CompleteWorkflow", 0)>>,
   <<cmd("CompleteWorkflow", 0)>>,
   <<cmd("FailWorkflow", 0)>>}

\* Any function, also one that is not deterministic.
MCAnyDecision(h, c) == TRUE

has(h, T) == \E i \in DOMAIN h : h[i].type \in T

\* A function of one activity: return ExecuteActivity(c, a, in).Get(&out).
MCOneActivity(h, c) ==
  c = CASE ~has(h, {"ActivityScheduled"})   -> <<cmd("ScheduleActivity", 0)>>
        [] has(h, {"ActivityCompleted"})    -> <<cmd("CompleteWorkflow", 0)>>
        [] has(h, {"ActivityFailed"})       -> <<cmd("FailWorkflow", 0)>>
        [] OTHER                            -> <<>>

\* A function that waits: ReceiveSignal(c, name, &out); return nil.
MCReceive(h, c) ==
  c = IF has(h, {"SignalReceived"}) THEN <<cmd("CompleteWorkflow", 0)>> ELSE <<>>

MCSymmetry == Permutations(Workers) \cup Permutations(Clients)
                \cup Permutations(Scanners)
=============================================================================
