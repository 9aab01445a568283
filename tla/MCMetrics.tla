----------------------------- MODULE MCMetrics -----------------------------
(* Small instances of Metrics for TLC. *)
EXTENDS Metrics, TLC

cmd(t, k) == [type |-> t, key |-> k]

\* An activity, two of them at once, a timer, and the ends of the run.
MCCommandLists ==
  {<<cmd("ScheduleActivity", 0)>>,
   <<cmd("ScheduleActivity", 0), cmd("ScheduleActivity", 1)>>,
   <<cmd("StartTimer", 0)>>,
   <<cmd("CompleteWorkflow", 0)>>, <<cmd("FailWorkflow", 0)>>, <<>>}

\* Any answer to the start of a run that asks for something; a worker that is
\* given a longer history does not come to an answer.
MCFirstAnswer(h, c) == Len(h) = 1 /\ c # <<>>

MCSymmetry == Permutations(Workers)
=============================================================================
