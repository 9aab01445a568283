------------------------------ MODULE TaskQueue ------------------------------
(***************************************************************************)
(* What the tasks table and its leases promise to the poll loops, without  *)
(* transactions, locks and clocks: a row is handed to a worker only while  *)
(* nobody owns it, leaves the table only through a worker it was handed    *)
(* to, and never comes back; an ownership may end at any moment.           *)
(***************************************************************************)
EXTENDS Integers

CONSTANTS
  Rows, Workers,
  Nobody,   \* no worker
  Nothing   \* no row

VARIABLES
  state,    \* of each row: "new", "present", "gone"
  owner,    \* lease_owner
  given     \* the row each worker has been handed and works on

queueVars == <<state, owner, given>>

QueueTypeOK ==
  /\ state \in [Rows -> {"new", "present", "gone"}]
  /\ owner \in [Rows -> Workers \cup {Nobody}]
  /\ given \in [Workers -> Rows \cup {Nothing}]

QueueInit ==
  /\ state = [r \in Rows |-> "new"]
  /\ owner = [r \in Rows |-> Nobody]
  /\ given = [w \in Workers |-> Nothing]

Insert(r) ==
  /\ state[r] = "new"
  /\ state' = [state EXCEPT ![r] = "present"]
  /\ UNCHANGED <<owner, given>>

Give(w, r) ==
  /\ given[w] = Nothing
  /\ state[r] = "present" /\ owner[r] = Nobody
  /\ owner' = [owner EXCEPT ![r] = w]
  /\ given' = [given EXCEPT ![w] = r]
  /\ UNCHANGED state

Release(expired) ==
  /\ owner' = [r \in Rows |-> IF r \in expired THEN Nobody ELSE owner[r]]
  /\ UNCHANGED <<state, given>>

\* The worker gives up, or dies.
Leave(w) ==
  /\ given[w] # Nothing
  /\ given' = [given EXCEPT ![w] = Nothing]
  /\ UNCHANGED <<state, owner>>

\* The worker is done with its row, which need no longer be its own, nor be
\* there; a failed attempt puts another row in its place.
Finish(w, next) ==
  /\ given[w] # Nothing
  /\ next = {} \/ state[given[w]] = "present"
  /\ \A r \in next : state[r] = "new"
  /\ state' = [r \in Rows |-> IF r = given[w] THEN "gone"
                              ELSE IF r \in next THEN "present" ELSE state[r]]
  /\ owner' = [owner EXCEPT ![given[w]] = Nobody]
  /\ given' = [given EXCEPT ![w] = Nothing]

QueueNext ==
  \/ \E r \in Rows : Insert(r)
  \/ \E w \in Workers, r \in Rows : Give(w, r)
  \/ \E expired \in SUBSET Rows : Release(expired)
  \/ \E w \in Workers : Leave(w) \/ Finish(w, {})
  \/ \E w \in Workers, r \in Rows : Finish(w, {r})

QueueSpec == QueueInit /\ [][QueueNext]_queueVars

=============================================================================
