----------------------------- MODULE LeaseProofs -----------------------------
(***************************************************************************)
(* Theorems about Lease, for all values of its constants.                  *)
(***************************************************************************)
EXTENDS Lease, WellFoundedInduction, TLAPS

-----------------------------------------------------------------------------
(* The invariant *)

\* Ids that the sequence has not handed out have no row, and nobody has them.
RowsOK ==
  /\ \A i \in Rows : i > lastRow => row[i] = NewRow
  /\ \A w \in Workers : poller[w].pc \in {"locked", "working"} =>
       poller[w].id \in Rows /\ poller[w].id <= lastRow

\* A row that the transaction of PollTask has locked is still free, and no
\* other transaction has locked it.
LocksOK ==
  /\ \A w \in Workers : poller[w].pc = "locked" =>
       Available(poller[w].id)
  /\ \A w, v \in Workers :
       /\ poller[w].pc = "locked" /\ poller[v].pc = "locked"
       /\ poller[w].id = poller[v].id
       => w = v
  /\ \A w \in Workers : poller[w].pc \in {"selecting", "locked"} =>
       poller[w].left >= LeaseTicks - PollTicks

\* The lease in the table lasts as long as the worker may think it does.
LeasesOK ==
  \A w \in Workers :
    LET me == poller[w] IN
    me.pc = "working" /\ me.left >= 0 /\ row[me.id].state = "present" =>
      row[me.id].owner = w /\ row[me.id].left = me.left

\* Since the last reclaim no lease has been expired for longer than that was
\* ago; or there has been none since the engine started, or since one that was
\* late, and then that is less than a period ago.
TickerOK ==
  /\ ~up => steady = 0 /\ reclaimIn = ReclaimTicks
  /\ up => \/ steady <= ReclaimTicks - reclaimIn
           \/ \A i \in Rows : row[i].owner # Nobody =>
                row[i].left >= reclaimIn - ReclaimTicks

Inv == TypeOK /\ RowsOK /\ LocksOK /\ LeasesOK /\ TickerOK

LEMMA NewRowType == NewRow \in RowType /\ Idle \in PollerType
BY TypesAssumption, TimesAssumption, NumbersAssumption
DEF NewRow, RowType, Idle, PollerType

LEMMA InsertedType ==
  ASSUME NEW type \in Types, NEW attempt \in 1..MaxAttempts, NEW delay \in Nat
  PROVE  /\ Inserted(type, attempt, delay) \in RowType
         /\ Inserted(type, attempt, delay).state = "present"
         /\ Inserted(type, attempt, delay).owner = Nobody
BY NewRowType DEF Inserted, RowType, NewRow

LEMMA InvInit == Init => Inv
<1> SUFFICES ASSUME Init PROVE Inv
  OBVIOUS
<1> USE DEF Init
<1>1. TypeOK
  BY NewRowType, TimesAssumption, NumbersAssumption DEF TypeOK
<1>2. RowsOK /\ LocksOK /\ LeasesOK
  BY DEF RowsOK, LocksOK, LeasesOK, Idle
<1>3. TickerOK
  BY TimesAssumption DEF TickerOK, NewRow
<1>4. QED
  BY <1>1, <1>2, <1>3 DEF Inv

-----------------------------------------------------------------------------
(* Steps *)

LEMMA StepInsert ==
  ASSUME Inv, NEW type \in Types, InsertTask(type)
  PROVE  Inv'
<1> USE DEF Inv, InsertTask
<1> DEFINE new == Inserted(type, 1, 0)
<1>1. new \in RowType /\ new.state = "present" /\ new.owner = Nobody
  BY InsertedType, NumbersAssumption
<1> HIDE DEF new
<1>2. lastRow + 1 \in Rows /\ row[lastRow + 1] = NewRow /\ lastRow \in Nat
  BY NumbersAssumption DEF TypeOK, RowsOK, Rows
<1>3. \A i \in Rows : row'[i] = IF i = lastRow + 1 THEN new ELSE row[i]
  BY DEF TypeOK, new
<1>4. TypeOK'
  BY <1>1, <1>2, <1>3, NumbersAssumption DEF TypeOK, new, Rows
<1>5. RowsOK'
  BY <1>2, <1>3 DEF RowsOK, Rows
<1>6. \A w \in Workers : poller[w].pc \in {"locked", "working"} =>
        poller[w].id \in Rows /\ row'[poller[w].id] = row[poller[w].id]
  BY <1>2, <1>3 DEF RowsOK, Rows
<1>7. LocksOK' /\ LeasesOK'
  BY <1>6 DEF LocksOK, LeasesOK, Available
<1>8. TickerOK'
  BY <1>1, <1>3 DEF TickerOK
<1>9. QED
  BY <1>4, <1>5, <1>7, <1>8

LEMMA StepSelect ==
  ASSUME Inv, NEW w \in Workers, Select(w)
  PROVE  Inv'
<1> USE DEF Inv
<1> DEFINE found == {i \in Rows : Available(i)}
           new == [pc |-> "selecting", seen |-> found, id |-> Nothing, left |-> LeaseTicks]
<1>1. new \in PollerType /\ new.pc = "selecting" /\ new.left = LeaseTicks
  BY TimesAssumption DEF PollerType
<1>2. /\ poller' = [poller EXCEPT ![w] = new]
      /\ UNCHANGED <<row, lastRow, up, reclaimIn, faults, steady>>
  BY DEF Select
<1> HIDE DEF new
<1>3. \A v \in Workers : poller'[v] = IF v = w THEN new ELSE poller[v]
  BY <1>2 DEF TypeOK
<1>4. TypeOK'
  BY <1>1, <1>2 DEF TypeOK
<1>5. RowsOK' /\ TickerOK'
  BY <1>1, <1>2, <1>3 DEF RowsOK, TickerOK
<1>6. LeasesOK'
  BY <1>1, <1>2, <1>3 DEF LeasesOK
<1>7. LeaseTicks >= LeaseTicks - PollTicks
  BY TimesAssumption
<1>8. LocksOK'
  BY <1>1, <1>2, <1>3, <1>7 DEF LocksOK, Available
<1>9. QED
  BY <1>4, <1>5, <1>6, <1>8

\* A poller that has nothing in hand any more.
LEMMA StepToIdle ==
  ASSUME Inv, NEW w \in Workers, poller' = [poller EXCEPT ![w] = Idle],
         UNCHANGED <<row, lastRow, up, reclaimIn, steady>>, faults' \in 0..Faults
  PROVE  Inv'
<1> USE DEF Inv
<1>1. \A v \in Workers : poller'[v] = IF v = w THEN Idle ELSE poller[v]
  BY DEF TypeOK
<1>2. TypeOK'
  BY NewRowType DEF TypeOK
<1>3. RowsOK' /\ LeasesOK' /\ TickerOK'
  BY <1>1 DEF RowsOK, LeasesOK, TickerOK, Idle
<1>4. LocksOK'
  BY <1>1 DEF LocksOK, Available, Idle
<1>5. QED
  BY <1>2, <1>3, <1>4

LEMMA StepLockRow ==
  ASSUME Inv, NEW w \in Workers, LockRow(w)
  PROVE  Inv'
<1> USE DEF Inv
<1>1. CASE poller' = [poller EXCEPT ![w] = Idle]
  BY <1>1, StepToIdle DEF LockRow, TypeOK
<1>2. ASSUME NEW i \in poller[w].seen, Lockable(i),
             poller' = [poller EXCEPT ![w] = [@ EXCEPT !.pc = "locked", !.seen = {}, !.id = i]]
      PROVE  Inv'
  <2> DEFINE new == [poller[w] EXCEPT !.pc = "locked", !.seen = {}, !.id = i]
  <2>1. poller[w] \in PollerType /\ poller[w].pc = "selecting"
    BY DEF LockRow, TypeOK
  <2>2. i \in Rows
    BY <2>1 DEF PollerType
  <2>3. /\ new \in PollerType /\ new.pc = "locked" /\ new.id = i
        /\ new.left = poller[w].left
    BY <2>1, <2>2 DEF PollerType
  <2> HIDE DEF new
  <2>4. poller' = [poller EXCEPT ![w] = new]
    BY <1>2 DEF new
  <2>5. \A v \in Workers : poller'[v] = IF v = w THEN new ELSE poller[v]
    BY <2>4 DEF TypeOK
  <2>6. UNCHANGED <<row, lastRow, up, reclaimIn, faults, steady>>
    BY DEF LockRow
  <2>7. TypeOK'
    BY <2>3, <2>4, <2>6 DEF TypeOK
  <2>8. Available(i) /\ \A v \in Workers : ~(poller[v].pc = "locked" /\ poller[v].id = i)
    BY <1>2 DEF Lockable, Locked
  <2>9. i <= lastRow
    BY <2>2, <2>8 DEF Available, RowsOK, NewRow, TypeOK, Rows
  <2>10. RowsOK' /\ LeasesOK' /\ TickerOK'
    BY <2>2, <2>3, <2>5, <2>6, <2>9 DEF RowsOK, LeasesOK, TickerOK
  <2>11. LocksOK'
    BY <2>1, <2>3, <2>5, <2>6, <2>8 DEF LocksOK, Available
  <2>12. QED
    BY <2>7, <2>10, <2>11
<1>3. QED
  BY <1>1, <1>2 DEF LockRow

LEMMA StepLeaseRow ==
  ASSUME Inv, NEW w \in Workers, LeaseRow(w)
  PROVE  Inv'
<1> USE DEF Inv
<1> DEFINE id == poller[w].id
           new == [row[id] EXCEPT !.owner = w, !.left = poller[w].left]
<1>1. /\ poller[w] \in PollerType /\ poller[w].pc = "locked"
      /\ id \in Rows /\ id <= lastRow /\ Available(id)
      /\ poller[w].left >= LeaseTicks - PollTicks
  BY DEF LeaseRow, TypeOK, RowsOK, LocksOK
<1>2. poller[w].left \in Int /\ poller[w].left >= 0
  BY <1>1, TimesAssumption DEF PollerType
<1>3. row[id] \in RowType
  BY <1>1 DEF TypeOK
<1>4. /\ new \in RowType /\ new.owner = w /\ new.left = poller[w].left
      /\ new.state = "present"
  BY <1>1, <1>2, <1>3 DEF RowType, Available
<1>5. row' = [row EXCEPT ![id] = new]
  BY <1>1, <1>3 DEF LeaseRow, TypeOK, RowType
<1> HIDE DEF new, id
<1>6. \A i \in Rows : row'[i] = IF i = id THEN new ELSE row[i]
  BY <1>5 DEF TypeOK
<1>7. /\ poller' = [poller EXCEPT ![w] = [poller[w] EXCEPT !.pc = "working"]]
      /\ [poller[w] EXCEPT !.pc = "working"] \in PollerType
  BY <1>1 DEF LeaseRow, PollerType
<1>8. \A v \in Workers : /\ poller'[v].pc = IF v = w THEN "working" ELSE poller[v].pc
                         /\ poller'[v].id = poller[v].id
                         /\ poller'[v].left = poller[v].left
  BY <1>1, <1>7 DEF TypeOK, PollerType
<1>9. UNCHANGED <<lastRow, up, reclaimIn, faults, steady>>
  BY DEF LeaseRow
<1>10. TypeOK'
  BY <1>1, <1>4, <1>5, <1>7, <1>9 DEF TypeOK
<1>11. RowsOK'
  BY <1>1, <1>6, <1>8, <1>9 DEF RowsOK, TypeOK, Rows, id
<1>12. \A v \in Workers : poller'[v].pc = "locked" =>
         poller[v].pc = "locked" /\ poller[v].id \in Rows /\ poller[v].id # id
  BY <1>1, <1>8 DEF LocksOK, RowsOK, id
<1>13. LocksOK'
  BY <1>6, <1>8, <1>12 DEF LocksOK, Available
<1>14. LeasesOK'
  <2> SUFFICES ASSUME NEW v \in Workers, poller'[v].pc = "working",
                      poller'[v].left >= 0, row'[poller'[v].id].state = "present"
               PROVE  /\ row'[poller'[v].id].owner = v
                      /\ row'[poller'[v].id].left = poller'[v].left
    BY DEF LeasesOK
  <2>1. CASE v = w
    BY <1>1, <1>4, <1>6, <1>8, <2>1 DEF id
  <2>2. CASE v # w
    <3>1. poller[v].pc = "working" /\ poller[v].id \in Rows /\ poller[v].left >= 0
      BY <1>8, <2>2 DEF RowsOK
    <3>2. poller[v].id # id
      BY <1>1, <3>1, WorkersAssumption DEF Available, LeasesOK
    <3>3. QED
      BY <1>6, <1>8, <3>1, <3>2 DEF LeasesOK
  <2>3. QED
    BY <2>1, <2>2
<1>15. TickerOK'
  <2>1. reclaimIn - ReclaimTicks <= 0
    BY TimesAssumption DEF TypeOK
  <2>2. \A i \in Rows : row'[i].owner # Nobody /\ row'[i] # row[i] =>
          row'[i].left >= 0 /\ row'[i].left \in Int
    BY <1>2, <1>4, <1>6
  <2>3. QED
    BY <1>9, <2>1, <2>2, TimesAssumption DEF TickerOK, TypeOK
<1>16. QED
  BY <1>10, <1>11, <1>13, <1>14, <1>15

\* The worker is done with its row, which another one may take the place of.
LEMMA StepReport ==
  ASSUME Inv, NEW w \in Workers, Reports(w),
         poller' = [poller EXCEPT ![w] = Idle],
         \A i \in Rows : i # poller[w].id /\ row'[i] # row[i] =>
            i = lastRow + 1 /\ lastRow' = lastRow + 1 /\ row'[i].owner = Nobody,
         row'[poller[w].id] = Deleted,
         row' \in [Rows -> RowType],
         lastRow' = lastRow \/ (lastRow < MaxRows /\ lastRow' = lastRow + 1),
         UNCHANGED <<up, reclaimIn, faults, steady>>
  PROVE  Inv'
<1> USE DEF Inv
<1> DEFINE id == poller[w].id
<1>1. id \in Rows /\ id <= lastRow /\ poller[w].pc = "working" /\ ~Locked(id)
  BY DEF Reports, RowsOK
<1>2. lastRow \in Nat /\ lastRow' \in 0..MaxRows /\ lastRow' >= lastRow
  BY NumbersAssumption DEF TypeOK
<1>3. \A v \in Workers : poller'[v] = IF v = w THEN Idle ELSE poller[v]
  BY DEF TypeOK
<1>4. TypeOK'
  BY <1>2, NewRowType DEF TypeOK
<1>5. RowsOK'
  BY <1>1, <1>2, <1>3 DEF RowsOK, Rows, Idle
<1>6. \A v \in Workers : poller'[v].pc \in {"locked", "working"} =>
        /\ v # w /\ poller[v].id \in Rows /\ poller'[v] = poller[v]
        /\ row'[poller[v].id] = IF poller[v].id = id THEN Deleted ELSE row[poller[v].id]
  BY <1>1, <1>2, <1>3 DEF RowsOK, Rows, Idle
<1>7. \A v \in Workers : poller'[v].pc = "locked" => poller[v].id # id
  BY <1>1, <1>6 DEF Locked
<1>8. LocksOK'
  <2>1. \A v \in Workers : poller'[v].pc \in {"selecting", "locked"} => poller'[v] = poller[v]
    BY <1>3 DEF Idle
  <2>2. \A v \in Workers : poller'[v].pc = "locked" => row'[poller[v].id] = row[poller[v].id]
    BY <1>6, <1>7
  <2>3. QED
    BY <2>1, <2>2 DEF LocksOK, Available
<1>9. Deleted.state = "gone" /\ Deleted.owner = Nobody
  BY DEF Deleted, NewRow
<1>10. LeasesOK'
  BY <1>6, <1>9 DEF LeasesOK
<1>11. TickerOK'
  <2>1. \A i \in Rows : row'[i].owner # Nobody => row'[i] = row[i]
    BY <1>9
  <2>2. QED
    BY <2>1 DEF TickerOK
<1>12. QED
  BY <1>4, <1>5, <1>8, <1>10, <1>11

LEMMA DeletedType == Deleted \in RowType
BY NewRowType DEF Deleted, RowType, NewRow

LEMMA StepComplete ==
  ASSUME Inv, NEW w \in Workers, Complete(w)
  PROVE  Inv'
<1>1. row' = [row EXCEPT ![poller[w].id] = Deleted] /\ poller[w].id \in Rows
  BY DEF Complete, Reports, Inv, RowsOK
<1>2. row \in [Rows -> RowType]
  BY DEF Inv, TypeOK
<1>3. QED
  BY <1>1, <1>2, DeletedType, StepReport DEF Complete

LEMMA StepRetry ==
  ASSUME Inv, NEW w \in Workers, Retry(w)
  PROVE  Inv'
<1> DEFINE i == poller[w].id
<1>1. /\ i \in Rows /\ i <= lastRow /\ row \in [Rows -> RowType]
      /\ lastRow + 1 \in Rows /\ lastRow \in Nat
  BY NumbersAssumption DEF Retry, Reports, Inv, RowsOK, TypeOK, Rows
<1>2. PICK d \in Delays(row[i].attempt) :
        row' = [row EXCEPT ![i] = Deleted,
                   ![lastRow + 1] = Inserted(row[i].type, row[i].attempt + 1, d)]
  BY DEF Retry
<1>3. row[i] \in RowType /\ row[i].attempt < MaxAttempts
  BY <1>1 DEF Retry, AttemptsLeft
<1>4. row[i].type \in Types /\ row[i].attempt + 1 \in 1..MaxAttempts /\ d \in Nat
  BY <1>3, NumbersAssumption, TimesAssumption DEF RowType, Delays
<1> DEFINE new == Inserted(row[i].type, row[i].attempt + 1, d)
<1>5. new \in RowType /\ new.owner = Nobody
  BY <1>4, InsertedType
<1> HIDE DEF new
<1>6. \A k \in Rows : row'[k] = IF k = lastRow + 1 THEN new
                                ELSE IF k = i THEN Deleted ELSE row[k]
  BY <1>1, <1>2 DEF new
<1>7. row' \in [Rows -> RowType]
  BY <1>1, <1>2, <1>5, DeletedType DEF new
<1>8. row'[i] = Deleted
  BY <1>1, <1>6
<1>9. QED
  BY <1>1, <1>5, <1>6, <1>7, <1>8, StepReport DEF Retry

LEMMA FreedType ==
  ASSUME NEW r \in RowType
  PROVE  [r EXCEPT !.owner = Nobody, !.left = 0] \in RowType
<1> DEFINE free == [r EXCEPT !.owner = Nobody]
<1>1. free \in RowType
  BY DEF RowType
<1> HIDE DEF free
<1>2. [free EXCEPT !.left = 0] \in RowType
  BY <1>1 DEF RowType
<1>3. QED
  BY <1>2 DEF free

LEMMA StepReclaim ==
  ASSUME Inv, ReclaimExpiredLeases
  PROVE  Inv'
<1> USE DEF Inv
<1>1. /\ up /\ reclaimIn = 0 /\ reclaimIn' \in 1..ReclaimTicks
      /\ UNCHANGED <<lastRow, poller, up, faults, steady>>
  BY DEF ReclaimExpiredLeases
<1>2. /\ row' \in [Rows -> RowType]
      /\ \A k \in Rows : Expired(k) => row'[k] = [row[k] EXCEPT !.owner = Nobody, !.left = 0]
      /\ \A k \in Rows : ~Expired(k) => row'[k] = row[k]
  <2> DEFINE freed(k) == [row[k] EXCEPT !.owner = Nobody, !.left = 0]
  <2>1. \A k \in Rows : row[k] \in RowType
    BY DEF TypeOK
  <2>2. \A k \in Rows : freed(k) \in RowType
    BY <2>1, FreedType
  <2>3. row' = [k \in Rows |-> IF Expired(k) THEN freed(k) ELSE row[k]]
    BY DEF ReclaimExpiredLeases
  <2> HIDE DEF freed
  <2>4. row' \in [Rows -> RowType]
    BY <2>1, <2>2, <2>3
  <2>5. /\ \A k \in Rows : Expired(k) => row'[k] = freed(k)
        /\ \A k \in Rows : ~Expired(k) => row'[k] = row[k]
    BY <2>3
  <2>6. QED
    BY <2>4, <2>5 DEF freed
<1>3. \A k \in Rows :
        Expired(k) => /\ row'[k].state = row[k].state /\ row'[k].delay = row[k].delay
                      /\ row'[k].owner = Nobody
  <2> SUFFICES ASSUME NEW k \in Rows, Expired(k)
               PROVE  /\ row'[k].state = row[k].state /\ row'[k].delay = row[k].delay
                      /\ row'[k].owner = Nobody
    OBVIOUS
  <2>1. row[k] \in RowType
    BY DEF TypeOK
  <2>2. QED
    BY <1>2, <2>1 DEF RowType
<1>4. TypeOK'
  <2>1. reclaimIn' \in 0..ReclaimTicks
    BY <1>1, TimesAssumption
  <2>2. row' \in [Rows -> RowType]
    BY <1>2
  <2>3. QED
    BY <1>1, <2>1, <2>2 DEF TypeOK
<1>5. RowsOK'
  <2>1. \A k \in Rows : row[k] = NewRow => ~Expired(k)
    BY DEF Expired, NewRow
  <2>2. \A k \in Rows : row[k] = NewRow => row'[k] = NewRow
    BY <1>2, <2>1
  <2>3. QED
    BY <1>1, <2>2 DEF RowsOK
<1>6. LocksOK'
  <2>1. \A k \in Rows : /\ row'[k].state = row[k].state /\ row'[k].delay = row[k].delay
                        /\ (row[k].owner = Nobody => row'[k].owner = Nobody)
    BY <1>2, <1>3
  <2>2. QED
    BY <1>1, <2>1 DEF LocksOK, RowsOK, Available
<1>7. LeasesOK'
  <2>1. \A k \in Rows : Expired(k) => row[k].left < 0 /\ row'[k].state = row[k].state
    BY <1>3 DEF Expired
  <2> SUFFICES ASSUME NEW w \in Workers, poller[w].pc = "working", poller[w].left >= 0,
                      row'[poller[w].id].state = "present"
               PROVE  /\ row'[poller[w].id].owner = w
                      /\ row'[poller[w].id].left = poller[w].left
    BY <1>1 DEF LeasesOK
  <2>2. poller[w].id \in Rows
    BY DEF RowsOK
  <2>3. CASE Expired(poller[w].id)
    <3>1. row[poller[w].id].left = poller[w].left /\ row[poller[w].id].left < 0
      BY <2>1, <2>2, <2>3 DEF LeasesOK
    <3>2. poller[w].left \in Int
      BY DEF TypeOK, PollerType
    <3>3. QED
      BY <3>1, <3>2
  <2>4. CASE ~Expired(poller[w].id)
    BY <1>2, <2>2, <2>4 DEF LeasesOK
  <2>5. QED
    BY <2>3, <2>4
<1>8. TickerOK'
  <2>1. \A k \in Rows : row'[k].owner # Nobody => row'[k].left >= 0
    <3> SUFFICES ASSUME NEW k \in Rows, row'[k].owner # Nobody
                 PROVE  row'[k].left >= 0
      OBVIOUS
    <3>1. row'[k] = row[k] /\ ~(row[k].left < 0)
      BY <1>2, <1>3 DEF Expired
    <3>2. row[k].left \in Int
      BY DEF TypeOK, RowType
    <3>3. QED
      BY <3>1, <3>2
  <2>2. reclaimIn' - ReclaimTicks <= 0 /\ reclaimIn' - ReclaimTicks \in Int
    <3>1. PICK n \in 1..ReclaimTicks : reclaimIn' = n
      BY <1>1
    <3>2. QED
      BY <3>1, TimesAssumption
  <2>3. \A k \in Rows : row'[k].left \in Int
    BY <1>2 DEF RowType
  <2>4. \A k \in Rows : row'[k].owner # Nobody =>
          row'[k].left >= reclaimIn' - ReclaimTicks
    BY <2>1, <2>2, <2>3
  <2>5. QED
    BY <1>1, <2>4 DEF TickerOK
<1>9. QED
  BY <1>4, <1>5, <1>6, <1>7, <1>8

LEMMA StepReclaimLate ==
  ASSUME Inv, ReclaimLate
  PROVE  Inv'
<1> USE DEF Inv
<1>1. /\ up /\ faults' \in 0..Faults /\ reclaimIn' \in 1..ReclaimTicks /\ steady' = 0
      /\ UNCHANGED <<row, lastRow, poller, up>>
  BY NumbersAssumption DEF ReclaimLate, TypeOK
<1>2. 0 \in 0..(ReclaimTicks + 1) /\ reclaimIn' \in 0..ReclaimTicks
  BY <1>1, TimesAssumption
<1>3. TypeOK'
  BY <1>1, <1>2 DEF TypeOK
<1>4. RowsOK' /\ LocksOK' /\ LeasesOK'
  BY <1>1 DEF RowsOK, LocksOK, LeasesOK, Available
<1>5. steady' <= ReclaimTicks - reclaimIn'
  <2>1. PICK n \in 1..ReclaimTicks : reclaimIn' = n
    BY <1>1
  <2>2. QED
    BY <1>1, <2>1, TimesAssumption
<1>6. TickerOK'
  BY <1>1, <1>5 DEF TickerOK
<1>7. QED
  BY <1>3, <1>4, <1>6

LEMMA StepCrash ==
  ASSUME Inv, NEW w \in Workers, Crash(w)
  PROVE  Inv'
<1>1. faults' \in 0..Faults
  BY NumbersAssumption DEF Crash, Inv, TypeOK
<1>2. QED
  BY <1>1, StepToIdle DEF Crash

LEMMA StepDrop ==
  ASSUME Inv, NEW w \in Workers, Drop(w)
  PROVE  Inv'
BY StepToIdle DEF Drop, Inv, TypeOK

LEMMA StepStop ==
  ASSUME Inv, Stop
  PROVE  Inv'
<1> USE DEF Inv
<1>1. /\ faults' \in 0..Faults /\ up' = FALSE /\ steady' = 0 /\ reclaimIn' = ReclaimTicks
      /\ UNCHANGED <<row, lastRow>>
  BY NumbersAssumption DEF Stop, TypeOK
<1>2. /\ poller' \in [Workers -> PollerType]
      /\ \A w \in Workers : poller'[w] = IF poller[w].pc = "working" THEN poller[w] ELSE Idle
  BY NewRowType DEF Stop, TypeOK
<1>3. 0 \in 0..(ReclaimTicks + 1) /\ ReclaimTicks \in 0..ReclaimTicks
  BY TimesAssumption
<1>4. TypeOK'
  BY <1>1, <1>2, <1>3 DEF TypeOK
<1>5. RowsOK' /\ LocksOK' /\ LeasesOK'
  BY <1>1, <1>2 DEF RowsOK, LocksOK, LeasesOK, Idle
<1>6. TickerOK'
  BY <1>1 DEF TickerOK
<1>7. QED
  BY <1>4, <1>5, <1>6

LEMMA StepStart ==
  ASSUME Inv, Start
  PROVE  Inv'
<1> USE DEF Inv
<1>1. /\ ~up /\ up' = TRUE
      /\ UNCHANGED <<row, lastRow, poller, reclaimIn, faults, steady>>
  BY DEF Start
<1>2. TypeOK'
  BY <1>1 DEF TypeOK
<1>3. RowsOK' /\ LocksOK' /\ LeasesOK'
  BY <1>1 DEF RowsOK, LocksOK, LeasesOK, Available
<1>4. steady' <= ReclaimTicks - reclaimIn'
  BY <1>1, TimesAssumption DEF TickerOK
<1>5. TickerOK'
  BY <1>1, <1>4 DEF TickerOK
<1>6. QED
  BY <1>2, <1>3, <1>5

-----------------------------------------------------------------------------
(* Time *)

LEMMA OlderRow ==
  ASSUME NEW r \in RowType
  PROVE  /\ Older(r) \in RowType
         /\ Older(r).state = r.state /\ Older(r).owner = r.owner
         /\ Older(r).delay <= r.delay
         /\ r.state = "present" /\ r.owner # Nobody =>
              Older(r).left = LessOne(r.left, Overdue)
         /\ r.state # "present" => Older(r) = r
<1>1. CASE r.state # "present"
  BY <1>1 DEF Older, RowType
<1>2. CASE r.state = "present"
  <2> DEFINE left == IF r.owner = Nobody THEN 0 ELSE LessOne(r.left, Overdue)
             delay == LessOne(r.delay, 0)
             age == OneMore(r.age, MaxInterval)
  <2>1. r.left \in Int /\ r.delay \in Nat /\ r.age \in 0..MaxInterval
    BY DEF RowType
  <2>2. left \in Int /\ delay \in Nat /\ age \in 0..MaxInterval /\ delay <= r.delay
    BY <2>1, TimesAssumption DEF LessOne, OneMore, Overdue
  <2>3. Older(r) = [r EXCEPT !.left = left, !.delay = delay, !.age = age]
    BY <1>2 DEF Older
  <2> HIDE DEF left, delay, age
  <2> DEFINE r1 == [r EXCEPT !.left = left]
             r2 == [r1 EXCEPT !.delay = delay]
             r3 == [r2 EXCEPT !.age = age]
  <2>4. r1 \in RowType /\ r1.state = r.state /\ r1.owner = r.owner /\ r1.left = left
    BY <2>2 DEF RowType
  <2> HIDE DEF r1
  <2>5. /\ r2 \in RowType /\ r2.state = r.state /\ r2.owner = r.owner /\ r2.left = left
        /\ r2.delay = delay
    BY <2>2, <2>4 DEF RowType
  <2> HIDE DEF r2
  <2>6. /\ r3 \in RowType /\ r3.state = r.state /\ r3.owner = r.owner /\ r3.left = left
        /\ r3.delay = delay
    BY <2>2, <2>5 DEF RowType
  <2> HIDE DEF r3
  <2>7. Older(r) = r3
    BY <2>3 DEF r1, r2, r3
  <2>8. QED
    BY <1>2, <2>2, <2>6, <2>7 DEF left
<1>3. QED
  BY <1>1, <1>2

LEMMA StepTick ==
  ASSUME Inv, Tick
  PROVE  Inv'
<1> USE DEF Inv
<1> DEFINE aged(w) == [poller[w] EXCEPT !.left = LessOne(@, -1)]
<1>1. /\ UNCHANGED <<lastRow, up, faults>> /\ ~Due
      /\ reclaimIn' = IF up THEN reclaimIn - 1 ELSE reclaimIn
      /\ steady' = IF up THEN OneMore(steady, ReclaimTicks + 1) ELSE steady
  BY DEF Tick
<1>2. /\ row' \in [Rows -> RowType]
      /\ \A i \in Rows : row'[i] = Older(row[i]) /\ row[i] \in RowType
  BY OlderRow DEF Tick, TypeOK
<1>3. \A w \in Workers : /\ poller[w] \in PollerType
                         /\ aged(w) \in PollerType /\ aged(w).pc = poller[w].pc
                         /\ aged(w).id = poller[w].id
                         /\ aged(w).left = LessOne(poller[w].left, -1)
  BY DEF TypeOK, PollerType, LessOne
<1>4. poller' = [w \in Workers |-> IF poller[w].pc = "idle" THEN Idle ELSE aged(w)]
  BY DEF Tick
<1> HIDE DEF aged
<1>5. poller' \in [Workers -> PollerType]
  BY <1>3, <1>4, NewRowType
<1>6. \A w \in Workers :
        /\ poller'[w].pc = poller[w].pc
        /\ poller[w].pc # "idle" => /\ poller'[w].id = poller[w].id
                                    /\ poller'[w].left = LessOne(poller[w].left, -1)
  BY <1>3, <1>4 DEF Idle
<1>7. up => reclaimIn > 0
  BY <1>1, TimesAssumption DEF Due, TypeOK
<1>8. TypeOK'
  <2>1. reclaimIn' \in 0..ReclaimTicks
    BY <1>1, <1>7, TimesAssumption DEF TypeOK
  <2>2. steady' \in 0..(ReclaimTicks + 1)
    BY <1>1, TimesAssumption DEF TypeOK, OneMore
  <2>3. QED
    BY <1>1, <1>2, <1>5, <2>1, <2>2 DEF TypeOK
<1>9. RowsOK'
  <2>1. \A i \in Rows : row[i] = NewRow => row'[i] = NewRow
    BY <1>2, OlderRow DEF NewRow
  <2>2. QED
    BY <1>1, <1>6, <2>1 DEF RowsOK
<1>10. LocksOK'
  <2>1. ASSUME NEW i \in Rows, Available(i)
        PROVE  Available(i)'
    <3>1. /\ row'[i].state = "present" /\ row'[i].owner = Nobody
          /\ row'[i].delay <= 0 /\ row'[i].delay \in Nat
      BY <1>2, <2>1, OlderRow DEF Available, RowType
    <3>2. QED
      BY <3>1 DEF Available
  <2>2. \A w \in Workers : poller'[w].pc = "locked" =>
          /\ poller[w].pc = "locked" /\ poller[w].id \in Rows
          /\ poller'[w].id = poller[w].id
    BY <1>6 DEF RowsOK
  <2>3. \A w \in Workers : poller'[w].pc = "locked" => Available(poller[w].id)'
    BY <2>1, <2>2 DEF LocksOK
  <2>4. ASSUME NEW w \in Workers, poller'[w].pc \in {"selecting", "locked"}
        PROVE  poller'[w].left >= LeaseTicks - PollTicks
    <3>1. poller[w].left \in Int /\ ~(poller[w].left <= LeaseTicks - PollTicks)
      BY <1>1, <1>3, <1>6, <2>4 DEF Due, PollerType
    <3>2. poller'[w].left = LessOne(poller[w].left, -1)
      BY <1>6, <2>4
    <3>3. QED
      BY <3>1, <3>2, TimesAssumption DEF LessOne
  <2>5. QED
    BY <2>2, <2>3, <2>4 DEF LocksOK, Available
<1>11. LeasesOK'
  <2> SUFFICES ASSUME NEW w \in Workers, poller'[w].pc = "working",
                      poller'[w].left >= 0, row'[poller'[w].id].state = "present"
               PROVE  /\ row'[poller'[w].id].owner = w
                      /\ row'[poller'[w].id].left = poller'[w].left
    BY DEF LeasesOK
  <2> DEFINE i == poller[w].id
  <2>1. /\ poller[w].pc = "working" /\ i \in Rows /\ poller'[w].id = i
        /\ poller'[w].left = LessOne(poller[w].left, -1) /\ poller[w].left \in Int
    BY <1>3, <1>6 DEF RowsOK, PollerType
  <2>2. poller[w].left >= 1 /\ poller'[w].left = poller[w].left - 1
    BY <2>1 DEF LessOne
  <2>3. row[i].state = "present"
    BY <1>2, <2>1, OlderRow
  <2>4. row[i].owner = w /\ row[i].left = poller[w].left
    BY <2>1, <2>2, <2>3 DEF LeasesOK
  <2>5. w # Nobody
    BY WorkersAssumption
  <2>6. row'[i].owner = w /\ row'[i].left = LessOne(row[i].left, Overdue)
    BY <1>2, <2>1, <2>3, <2>4, <2>5, OlderRow
  <2>7. LessOne(row[i].left, Overdue) = poller[w].left - 1
    BY <2>1, <2>2, <2>4, TimesAssumption DEF LessOne, Overdue
  <2>8. QED
    BY <2>1, <2>2, <2>6, <2>7
<1>12. TickerOK'
  <2>1. CASE ~up
    BY <1>1, <2>1 DEF TickerOK
  <2>2. CASE up /\ steady <= ReclaimTicks - reclaimIn
    <3>1. steady' <= ReclaimTicks - reclaimIn'
      BY <1>1, <1>7, <2>2, TimesAssumption DEF OneMore, TypeOK
    <3>2. QED
      BY <1>1, <2>2, <3>1 DEF TickerOK
  <2>3. CASE up /\ \A i \in Rows : row[i].owner # Nobody =>
                     row[i].left >= reclaimIn - ReclaimTicks
    <3>1. ASSUME NEW i \in Rows, row'[i].owner # Nobody
          PROVE  row'[i].left >= reclaimIn' - ReclaimTicks
      <4>1. row[i].owner # Nobody /\ row[i] \in RowType /\ row'[i] = Older(row[i])
        BY <1>2, <3>1, OlderRow
      <4>2. row[i].left \in Int /\ row[i].left >= reclaimIn - ReclaimTicks
        BY <2>3, <4>1 DEF RowType
      <4>3. reclaimIn' = reclaimIn - 1 /\ reclaimIn \in 1..ReclaimTicks
        BY <1>1, <1>7, <2>3, TimesAssumption DEF TypeOK
      <4>4. CASE row[i].state = "present"
        <5>1. row'[i].left = LessOne(row[i].left, Overdue)
          BY <4>1, <4>4, OlderRow
        <5>2. QED
          BY <4>2, <4>3, <5>1, TimesAssumption DEF LessOne, Overdue
      <4>5. CASE row[i].state # "present"
        <5>1. row'[i] = row[i]
          BY <4>1, <4>5, OlderRow
        <5>2. QED
          BY <4>2, <4>3, <5>1, TimesAssumption
      <4>6. QED
        BY <4>4, <4>5
    <3>2. QED
      BY <1>1, <2>3, <3>1 DEF TickerOK
  <2>4. QED
    BY <2>1, <2>2, <2>3 DEF TickerOK
<1>13. QED
  BY <1>8, <1>9, <1>10, <1>11, <1>12

LEMMA InvNext == Inv /\ [Next]_vars => Inv'
<1> SUFFICES ASSUME Inv, [Next]_vars PROVE Inv'
  OBVIOUS
<1>1. CASE UNCHANGED vars
  BY <1>1 DEF vars, Inv, TypeOK, RowsOK, LocksOK, LeasesOK, TickerOK, Available
<1>2. CASE \E type \in Types : InsertTask(type)
  BY <1>2, StepInsert
<1>3. CASE \E w \in Workers : WorkerStep(w) \/ Crash(w)
  BY <1>3, StepSelect, StepLockRow, StepLeaseRow, StepDrop, StepComplete, StepRetry, StepCrash
  DEF WorkerStep
<1>4. CASE ReclaimExpiredLeases \/ ReclaimLate \/ Stop \/ Start \/ Tick
  BY <1>4, StepReclaim, StepReclaimLate, StepStop, StepStart, StepTick
<1>5. QED
  BY <1>1, <1>2, <1>3, <1>4 DEF Next

LEMMA Invariance == Spec => []Inv
BY InvInit, InvNext, PTL DEF Spec

-----------------------------------------------------------------------------
(* The theorems *)

\* Until 30 s after its poll began, the row a worker has been handed is its
\* own, for PollTask and reclaimLoop of any speed below that.
THEOREM LeaseIsExclusive == Spec => []ExclusiveLease
<1>1. Inv => ExclusiveLease
  BY DEF Inv, LeasesOK, ExclusiveLease
<1>2. QED
  BY <1>1, Invariance, PTL

\* The row of a crashed or stalled worker is pollable again within the lease
\* and one period of reclaimLoop; or one period after the engine is back, or
\* after the last reclaim that failed or had to wait (main.go:116-120).
THEOREM ReclaimIsTimely == Spec => []ReclaimedInTime
<1>1. Inv => ReclaimedInTime
  <2> SUFFICES ASSUME Inv, NEW i \in Rows, row[i].owner # Nobody,
                      row[i].left < -ReclaimTicks, up
               PROVE  steady <= ReclaimTicks
    BY DEF ReclaimedInTime
  <2>1. row[i].left \in Int /\ reclaimIn \in 0..ReclaimTicks
    BY DEF Inv, TypeOK, RowType
  <2>2. ~(row[i].left >= reclaimIn - ReclaimTicks)
    BY <2>1, TimesAssumption
  <2>3. steady <= ReclaimTicks - reclaimIn /\ steady \in Nat
    BY <2>2, TimesAssumption DEF Inv, TickerOK, TypeOK
  <2>4. QED
    BY <2>1, <2>3, TimesAssumption
<1>2. QED
  BY <1>1, Invariance, PTL

-----------------------------------------------------------------------------
(* The refinement *)

\* The state of TaskQueue that a state of Lease stands for.
States == [i \in Rows |-> row[i].state]
Owners == [i \in Rows |-> row[i].owner]
Given == [w \in Workers |-> IF poller[w].pc = "working" THEN poller[w].id ELSE Nothing]

LEMMA MappedVars ==
  ASSUME UNCHANGED <<States, Owners, Given>>
  PROVE  UNCHANGED Queue!queueVars
BY DEF States, Owners, Given, Queue!queueVars

LEMMA MappedInsert ==
  ASSUME NEW r \in Rows, States[r] = "new",
         States' = [States EXCEPT ![r] = "present"], UNCHANGED <<Owners, Given>>
  PROVE  Queue!QueueNext
<1>1. Queue!Insert(r)
  BY DEF Queue!Insert, States, Owners, Given
<1>2. QED
  BY <1>1 DEF Queue!QueueNext

LEMMA MappedGive ==
  ASSUME NEW w \in Workers, NEW r \in Rows, Given[w] = Nothing,
         States[r] = "present", Owners[r] = Nobody,
         Owners' = [Owners EXCEPT ![r] = w],
         Given' = [Given EXCEPT ![w] = r], UNCHANGED States
  PROVE  Queue!QueueNext
<1>1. Queue!Give(w, r)
  BY DEF Queue!Give, States, Owners, Given
<1>2. QED
  BY <1>1 DEF Queue!QueueNext

LEMMA MappedRelease ==
  ASSUME NEW expired \in SUBSET Rows,
         Owners' = [r \in Rows |-> IF r \in expired THEN Nobody ELSE Owners[r]],
         UNCHANGED <<States, Given>>
  PROVE  Queue!QueueNext
<1>1. Queue!Release(expired)
  BY DEF Queue!Release, States, Owners, Given
<1>2. QED
  BY <1>1 DEF Queue!QueueNext

LEMMA MappedLeave ==
  ASSUME NEW w \in Workers, Given[w] # Nothing,
         Given' = [Given EXCEPT ![w] = Nothing], UNCHANGED <<States, Owners>>
  PROVE  Queue!QueueNext
<1>1. Queue!Leave(w)
  BY DEF Queue!Leave, States, Owners, Given
<1>2. QED
  BY <1>1 DEF Queue!QueueNext

LEMMA MappedFinish ==
  ASSUME NEW w \in Workers, NEW next, next = {} \/ \E r \in Rows : next = {r},
         Given[w] # Nothing, next = {} \/ States[Given[w]] = "present",
         \A r \in next : States[r] = "new",
         States' = [r \in Rows |-> IF r = Given[w] THEN "gone"
                                   ELSE IF r \in next THEN "present" ELSE States[r]],
         Owners' = [Owners EXCEPT ![Given[w]] = Nobody],
         Given' = [Given EXCEPT ![w] = Nothing]
  PROVE  Queue!QueueNext
<1>1. Queue!Finish(w, next)
  BY DEF Queue!Finish, States, Owners, Given
<1>2. QED
  BY <1>1 DEF Queue!QueueNext

\* What the worker w is left with when its row is not in its hands.
LEMMA GivenIdle ==
  ASSUME Inv, NEW w \in Workers, poller' = [poller EXCEPT ![w] = Idle]
  PROVE  Given' = [Given EXCEPT ![w] = Nothing]
<1>1. \A v \in Workers : poller'[v] = IF v = w THEN Idle ELSE poller[v]
  BY DEF Inv, TypeOK
<1>2. poller'[w].pc # "working" /\ \A v \in Workers : v # w => poller'[v] = poller[v]
  BY <1>1 DEF Idle
<1>3. \A v \in Workers :
        (IF poller[v].pc = "working" THEN poller[v].id ELSE Nothing)' =
          IF v = w THEN Nothing
          ELSE IF poller[v].pc = "working" THEN poller[v].id ELSE Nothing
  BY <1>2
<1>4. QED
  BY <1>3 DEF Given

LEMMA GivenSame ==
  ASSUME Inv, NEW w \in Workers, poller[w].pc # "working",
         NEW new, new.pc # "working", poller' = [poller EXCEPT ![w] = new]
  PROVE  UNCHANGED Given
<1>1. \A v \in Workers : poller'[v] = IF v = w THEN new ELSE poller[v]
  BY DEF Inv, TypeOK
<1>2. QED
  BY <1>1 DEF Given

LEMMA Unchanged ==
  ASSUME UNCHANGED row
  PROVE  UNCHANGED <<States, Owners>>
BY DEF States, Owners

LEMMA RefineInsert ==
  ASSUME Inv, NEW type \in Types, InsertTask(type)
  PROVE  Queue!QueueNext
<1> DEFINE r == lastRow + 1
           new == Inserted(type, 1, 0)
<1>1. new.state = "present" /\ new.owner = Nobody
  BY InsertedType, NumbersAssumption
<1>2. row' = [row EXCEPT ![r] = new] /\ UNCHANGED poller
  BY DEF InsertTask
<1>3. r \in Rows /\ row[r] = NewRow
  BY NumbersAssumption DEF InsertTask, Inv, TypeOK, RowsOK, Rows
<1> HIDE DEF r, new
<1>4. \A i \in Rows : row'[i] = IF i = r THEN new ELSE row[i]
  BY <1>2 DEF Inv, TypeOK
<1>5. States' = [States EXCEPT ![r] = "present"]
  BY <1>1, <1>4 DEF States
<1>6. UNCHANGED <<Owners, Given>>
  BY <1>1, <1>2, <1>3, <1>4 DEF Owners, Given, NewRow
<1>7. States[r] = "new"
  BY <1>3 DEF States, NewRow
<1>8. QED
  BY <1>3, <1>5, <1>6, <1>7, MappedInsert

LEMMA RefineLeaseRow ==
  ASSUME Inv, NEW w \in Workers, LeaseRow(w)
  PROVE  Queue!QueueNext
<1> DEFINE r == poller[w].id
           new == [row[r] EXCEPT !.owner = w, !.left = poller[w].left]
<1>1. poller[w].pc = "locked" /\ r \in Rows /\ Available(r)
  BY DEF LeaseRow, Inv, RowsOK, LocksOK
<1>2. row[r] \in RowType /\ poller[w] \in PollerType
  BY <1>1 DEF Inv, TypeOK
<1>3. new.owner = w /\ new.state = row[r].state
  BY <1>2 DEF RowType
<1>4. row' = [row EXCEPT ![r] = new]
  BY <1>1, <1>2 DEF LeaseRow, Inv, TypeOK, RowType
<1> HIDE DEF new
<1>5. \A i \in Rows : row'[i] = IF i = r THEN new ELSE row[i]
  BY <1>4 DEF Inv, TypeOK
<1>6. Owners' = [Owners EXCEPT ![r] = w] /\ UNCHANGED States
  BY <1>3, <1>5 DEF Owners, States
<1>7. /\ poller' = [poller EXCEPT ![w] = [poller[w] EXCEPT !.pc = "working"]]
      /\ [poller[w] EXCEPT !.pc = "working"].pc = "working"
      /\ [poller[w] EXCEPT !.pc = "working"].id = r
  BY <1>2 DEF LeaseRow, PollerType
<1>8. \A v \in Workers : /\ v = w => poller'[v].pc = "working" /\ poller'[v].id = r
                         /\ v # w => poller'[v] = poller[v]
  BY <1>7 DEF Inv, TypeOK
<1> HIDE DEF r
<1>9. Given' = [Given EXCEPT ![w] = r]
  BY <1>8 DEF Given
<1>10. Given[w] = Nothing /\ States[r] = "present" /\ Owners[r] = Nobody
  BY <1>1 DEF Given, States, Owners, Available
<1>11. QED
  BY <1>1, <1>6, <1>9, <1>10, MappedGive

LEMMA RefineReport ==
  ASSUME Inv, NEW w \in Workers, Reports(w),
         poller' = [poller EXCEPT ![w] = Idle],
         NEW next, next = {} \/ \E r \in Rows : next = {r},
         next = {} \/ row[poller[w].id].state = "present",
         poller[w].id \notin next, \A r \in next : row[r] = NewRow,
         \A r \in Rows :
            /\ r = poller[w].id => row'[r] = Deleted
            /\ r \in next => row'[r].state = "present" /\ row'[r].owner = Nobody
            /\ r # poller[w].id /\ r \notin next => row'[r] = row[r]
  PROVE  Queue!QueueNext
<1> DEFINE i == poller[w].id
<1>1. i \in Rows /\ Given[w] = i /\ i # Nothing
  BY WorkersAssumption DEF Reports, Inv, RowsOK, Given
<1>2. Deleted.state = "gone" /\ Deleted.owner = Nobody
  BY DEF Deleted, NewRow
<1>3. NewRow.state = "new" /\ NewRow.owner = Nobody
  BY DEF NewRow
<1> HIDE DEF i
<1>4. \A r \in Rows :
        /\ row'[r].state = IF r = i THEN "gone"
                           ELSE IF r \in next THEN "present" ELSE row[r].state
        /\ row'[r].owner = IF r = i THEN Nobody ELSE row[r].owner
  BY <1>2, <1>3 DEF i
<1>5. States' = [r \in Rows |-> IF r = Given[w] THEN "gone"
                                ELSE IF r \in next THEN "present" ELSE States[r]]
  BY <1>1, <1>4 DEF States
<1>6. Owners' = [Owners EXCEPT ![Given[w]] = Nobody]
  BY <1>1, <1>4 DEF Owners
<1>7. next = {} \/ States[Given[w]] = "present"
  BY <1>1 DEF States, i
<1>8. \A r \in next : States[r] = "new"
  BY <1>3 DEF States
<1>9. Given' = [Given EXCEPT ![w] = Nothing]
  BY GivenIdle
<1>10. QED
  BY <1>1, <1>5, <1>6, <1>7, <1>8, <1>9, MappedFinish

LEMMA RefineComplete ==
  ASSUME Inv, NEW w \in Workers, Complete(w)
  PROVE  Queue!QueueNext
<1>1. row' = [row EXCEPT ![poller[w].id] = Deleted]
  BY DEF Complete
<1>2. \A r \in Rows : row'[r] = IF r = poller[w].id THEN Deleted ELSE row[r]
  BY <1>1 DEF Inv, TypeOK
<1> DEFINE next == {}
<1>3. next = {} /\ poller[w].id \notin next /\ \A r \in next : row[r] = NewRow
  OBVIOUS
<1>4. \A r \in Rows :
        /\ r = poller[w].id => row'[r] = Deleted
        /\ r \in next => row'[r].state = "present" /\ row'[r].owner = Nobody
        /\ r # poller[w].id /\ r \notin next => row'[r] = row[r]
  BY <1>2
<1>5. Reports(w) /\ poller' = [poller EXCEPT ![w] = Idle]
  BY DEF Complete
<1> HIDE DEF next
<1>6. QED
  BY <1>3, <1>4, <1>5, RefineReport

LEMMA RefineRetry ==
  ASSUME Inv, NEW w \in Workers, Retry(w)
  PROVE  Queue!QueueNext
<1> DEFINE i == poller[w].id
           r == lastRow + 1
<1>1. /\ i \in Rows /\ i <= lastRow /\ row \in [Rows -> RowType]
      /\ r \in Rows /\ lastRow \in Nat /\ row[r] = NewRow
  BY NumbersAssumption DEF Retry, Reports, Inv, RowsOK, TypeOK, Rows
<1>2. PICK d \in Delays(row[i].attempt) :
        row' = [row EXCEPT ![i] = Deleted,
                           ![r] = Inserted(row[i].type, row[i].attempt + 1, d)]
  BY DEF Retry
<1>3. row[i] \in RowType /\ row[i].attempt < MaxAttempts
  BY <1>1 DEF Retry, AttemptsLeft
<1>4. row[i].type \in Types /\ row[i].attempt + 1 \in 1..MaxAttempts /\ d \in Nat
  BY <1>3, NumbersAssumption, TimesAssumption DEF RowType, Delays
<1> DEFINE new == Inserted(row[i].type, row[i].attempt + 1, d)
<1>5. new.state = "present" /\ new.owner = Nobody
  BY <1>4, InsertedType
<1> HIDE DEF new
<1>6. \A k \in Rows : row'[k] = IF k = r THEN new
                                ELSE IF k = i THEN Deleted ELSE row[k]
  BY <1>1, <1>2 DEF new
<1>7. i # r
  BY <1>1
<1>8. /\ Reports(w) /\ poller' = [poller EXCEPT ![w] = Idle]
      /\ row[i].state = "present"
  BY DEF Retry
<1> HIDE DEF r
<1>9. \A k \in Rows :
            /\ k = i => row'[k] = Deleted
            /\ k \in {r} => row'[k].state = "present" /\ row'[k].owner = Nobody
            /\ k # i /\ k \notin {r} => row'[k] = row[k]
  BY <1>5, <1>6, <1>7
<1>10. QED
  BY <1>1, <1>7, <1>8, <1>9, RefineReport

LEMMA RefineReclaim ==
  ASSUME Inv, ReclaimExpiredLeases
  PROVE  Queue!QueueNext
<1> DEFINE expired == {k \in Rows : Expired(k)}
<1>1. UNCHANGED poller
  BY DEF ReclaimExpiredLeases
<1>2. \A k \in Rows : /\ row[k] \in RowType
                      /\ row'[k] = IF Expired(k) THEN [row[k] EXCEPT !.owner = Nobody, !.left = 0]
                                   ELSE row[k]
  BY DEF ReclaimExpiredLeases, Inv, TypeOK
<1>3. \A k \in Rows : /\ row'[k].state = row[k].state
                      /\ row'[k].owner = IF k \in expired THEN Nobody ELSE row[k].owner
  <2> SUFFICES ASSUME NEW k \in Rows
               PROVE  /\ row'[k].state = row[k].state
                      /\ row'[k].owner = IF k \in expired THEN Nobody ELSE row[k].owner
    OBVIOUS
  <2>1. CASE Expired(k)
    BY <1>2, <2>1 DEF RowType
  <2>2. CASE ~Expired(k)
    BY <1>2, <2>2
  <2>3. QED
    BY <2>1, <2>2
<1> HIDE DEF expired
<1>4. Owners' = [k \in Rows |-> IF k \in expired THEN Nobody ELSE Owners[k]]
  BY <1>3 DEF Owners
<1>5. UNCHANGED <<States, Given>>
  BY <1>1, <1>3 DEF States, Given
<1>6. expired \in SUBSET Rows
  BY DEF expired
<1>7. QED
  BY <1>4, <1>5, <1>6, MappedRelease

LEMMA RefineStutter ==
  ASSUME Inv,
         \/ \E w \in Workers : Select(w) \/ LockRow(w)
         \/ ReclaimLate \/ Stop \/ Start \/ Tick
  PROVE  UNCHANGED <<States, Owners, Given>>
<1>1. ASSUME NEW w \in Workers, Select(w)
      PROVE  UNCHANGED <<States, Owners, Given>>
  <2> DEFINE new == [pc |-> "selecting", seen |-> {i \in Rows : Available(i)},
                     id |-> Nothing, left |-> LeaseTicks]
  <2>1. /\ poller[w].pc = "idle" /\ UNCHANGED row
        /\ poller' = [poller EXCEPT ![w] = new] /\ new.pc = "selecting"
    BY <1>1 DEF Select
  <2> HIDE DEF new
  <2>2. QED
    BY <2>1, GivenSame, Unchanged
<1>2. ASSUME NEW w \in Workers, LockRow(w)
      PROVE  UNCHANGED <<States, Owners, Given>>
  <2>1. /\ poller[w].pc = "selecting" /\ UNCHANGED row
        /\ poller[w] \in PollerType
    BY <1>2 DEF LockRow, Inv, TypeOK
  <2>2. \E new : new.pc # "working" /\ poller' = [poller EXCEPT ![w] = new]
    <3>1. CASE poller' = [poller EXCEPT ![w] = Idle]
      BY <3>1 DEF Idle
    <3>2. ASSUME NEW i \in poller[w].seen,
                 poller' = [poller EXCEPT ![w] = [@ EXCEPT !.pc = "locked", !.seen = {}, !.id = i]]
          PROVE  \E new : new.pc # "working" /\ poller' = [poller EXCEPT ![w] = new]
      <4> DEFINE new == [poller[w] EXCEPT !.pc = "locked", !.seen = {}, !.id = i]
      <4>1. new.pc = "locked"
        BY <2>1 DEF PollerType
      <4> HIDE DEF new
      <4>2. poller' = [poller EXCEPT ![w] = new]
        BY <3>2 DEF new
      <4>3. QED
        BY <4>1, <4>2
    <3>3. QED
      BY <1>2, <3>1, <3>2 DEF LockRow
  <2>3. QED
    BY <2>1, <2>2, GivenSame, Unchanged
<1>3. CASE Stop
  <2>1. UNCHANGED row /\ \A w \in Workers :
          poller'[w] = IF poller[w].pc = "working" THEN poller[w] ELSE Idle
    BY <1>3 DEF Stop
  <2>2. UNCHANGED Given
    BY <2>1 DEF Given, Idle
  <2>3. QED
    BY <2>1, <2>2, Unchanged
<1>4. CASE Start \/ ReclaimLate
  BY <1>4 DEF Start, ReclaimLate, States, Owners, Given
<1>5. CASE Tick
  <2>1. \A i \in Rows : row'[i].state = row[i].state /\ row'[i].owner = row[i].owner
    BY <1>5, OlderRow DEF Tick, Inv, TypeOK
  <2>2. \A w \in Workers : /\ poller'[w].pc = poller[w].pc
                           /\ poller[w].pc # "idle" => poller'[w].id = poller[w].id
    BY <1>5 DEF Tick, Inv, TypeOK, PollerType, Idle
  <2>3. QED
    BY <2>1, <2>2 DEF States, Owners, Given
<1>6. QED
  BY <1>1, <1>2, <1>3, <1>4, <1>5

LEMMA RefineLeave ==
  ASSUME Inv, NEW w \in Workers, Drop(w) \/ Crash(w)
  PROVE  Queue!QueueNext \/ UNCHANGED <<States, Owners, Given>>
<1>1. poller' = [poller EXCEPT ![w] = Idle] /\ UNCHANGED row
  BY DEF Drop, Crash
<1>2. UNCHANGED <<States, Owners>> /\ Given' = [Given EXCEPT ![w] = Nothing]
  BY <1>1, GivenIdle, Unchanged
<1>3. CASE Given[w] = Nothing
  BY <1>2, <1>3 DEF Given
<1>4. CASE Given[w] # Nothing
  BY <1>2, <1>4, MappedLeave
<1>5. QED
  BY <1>3, <1>4

\* The rows, their owners and what workers have in hand are a task queue:
\* no interleaving of PollTask, CompleteTask and ReclaimExpiredLeases hands
\* out a row that is owned, and a row leaves through a worker it was given to.
THEOREM LeaseImplementsQueue == Spec => ImplementsQueue
<1>1. Init => Queue!QueueInit
  BY DEF Init, Queue!QueueInit, NewRow, Idle
<1>2. Inv /\ [Next]_vars => [Queue!QueueNext]_(Queue!queueVars)
  <2> SUFFICES ASSUME Inv, [Next]_vars
               PROVE  Queue!QueueNext \/ UNCHANGED Queue!queueVars
    OBVIOUS
  <2>1. CASE UNCHANGED vars
    BY <2>1, MappedVars DEF vars, States, Owners, Given
  <2>2. CASE \E type \in Types : InsertTask(type)
    BY <2>2, RefineInsert
  <2>3. ASSUME NEW w \in Workers, WorkerStep(w) \/ Crash(w)
        PROVE  Queue!QueueNext \/ UNCHANGED Queue!queueVars
    BY <2>3, RefineLeaseRow, RefineLeave, RefineComplete, RefineRetry, RefineStutter, MappedVars
    DEF WorkerStep
  <2>4. CASE ReclaimExpiredLeases
    BY <2>4, RefineReclaim
  <2>5. CASE ReclaimLate \/ Stop \/ Start \/ Tick
    BY <2>5, RefineStutter, MappedVars
  <2>6. QED
    BY <2>1, <2>2, <2>3, <2>4, <2>5 DEF Next
<1>3. QED
  BY <1>1, <1>2, Invariance, PTL DEF Spec, ImplementsQueue, Queue!QueueSpec

-----------------------------------------------------------------------------
(* The backoff *)

\* A set of natural numbers that is not empty has a least one.
LEMMA Least ==
  ASSUME NEW S \in SUBSET Nat, S # {}
  PROVE  \E n \in S : \A m \in S : n <= m
<1> DEFINE Lt == OpToRel(<, Nat)
<1>1. \A m, n \in Nat : <<m, n>> \in Lt <=> m < n
  BY DEF OpToRel
<1> HIDE DEF Lt
<1>2. IsWellFoundedOn(Lt, Nat)
  BY NatLessThanWellFounded DEF Lt
<1>3. PICK n \in S : \A m \in S : ~(<<m, n>> \in Lt)
  BY <1>2, WFMin
<1>4. ASSUME NEW m \in S PROVE n <= m
  <2>1. m \in Nat /\ n \in Nat /\ ~(m < n)
    BY <1>1, <1>3
  <2>2. QED
    BY <2>1
<1>5. QED
  BY <1>4

\* The doublings from 0 to n.
Doublings(n) ==
  {g \in [0..n -> Nat] : g[0] = 1 /\ \A i \in 1..n : g[i] = 2 * g[i - 1]}

LEMMA DoublingsExist == \A n \in Nat : Doublings(n) # {}
<1> DEFINE S == {n \in Nat : Doublings(n) = {}}
<1> SUFFICES ASSUME S # {} PROVE FALSE
  OBVIOUS
<1>1. PICK n \in S : \A m \in S : n <= m
  <2> HIDE DEF S
  <2>1. S \in SUBSET Nat
    BY DEF S
  <2>2. QED
    BY <2>1, Least
<1>2. n \in Nat /\ Doublings(n) = {}
  BY <1>1
<1>3. n # 0
  <2> DEFINE g == [i \in 0..0 |-> 1]
  <2>1. g \in Doublings(0)
    BY DEF Doublings
  <2>2. QED
    BY <1>2, <2>1
<1>4. PICK g : g \in Doublings(n - 1)
  BY <1>1, <1>2, <1>3
<1>5. g \in [0..(n - 1) -> Nat] /\ g[0] = 1 /\ \A i \in 1..(n - 1) : g[i] = 2 * g[i - 1]
  BY <1>4 DEF Doublings
<1> DEFINE h == [i \in 0..n |-> IF i = n THEN 2 * g[n - 1] ELSE g[i]]
<1>6. g[n - 1] \in Nat
  BY <1>2, <1>3, <1>5
<1>7. h \in [0..n -> Nat]
  BY <1>2, <1>5, <1>6
<1>8. \A i \in 0..n : h[i] = IF i = n THEN 2 * g[n - 1] ELSE g[i]
  OBVIOUS
<1> HIDE DEF h
<1>9. h[0] = 1
  BY <1>2, <1>3, <1>5, <1>8
<1>10. ASSUME NEW i \in 1..n PROVE h[i] = 2 * h[i - 1]
  <2>1. i \in 0..n /\ i - 1 \in 0..n /\ i - 1 # n /\ h[i - 1] = g[i - 1]
    BY <1>2, <1>8
  <2>2. QED
    BY <1>2, <1>5, <1>8, <2>1
<1>11. h \in Doublings(n)
  BY <1>7, <1>9, <1>10 DEF Doublings
<1>12. QED
  BY <1>2, <1>11

LEMMA DoublingsAgree ==
  ASSUME NEW m \in Nat, NEW n \in Nat, m <= n,
         NEW g \in Doublings(m), NEW h \in Doublings(n)
  PROVE  g[m] = h[m]
<1> DEFINE S == {i \in 0..m : g[i] # h[i]}
<1>1. /\ g[0] = 1 /\ \A i \in 1..m : g[i] = 2 * g[i - 1]
      /\ h[0] = 1 /\ \A i \in 1..n : h[i] = 2 * h[i - 1]
  BY DEF Doublings
<1>2. ASSUME S # {} PROVE FALSE
  <2>1. PICK i \in S : \A j \in S : i <= j
    <3>1. S \in SUBSET Nat
      OBVIOUS
    <3> HIDE DEF S
    <3>2. QED
      BY <1>2, <3>1, Least
  <2>2. i \in 1..m /\ g[i] # h[i]
    BY <1>1, <2>1
  <2>3. i - 1 \in 0..m /\ i - 1 \notin S
    BY <2>1, <2>2
  <2>4. g[i - 1] = h[i - 1]
    BY <2>3
  <2>5. g[i] = h[i]
    BY <1>1, <2>2, <2>4
  <2>6. QED
    BY <2>2, <2>5
<1>3. QED
  BY <1>2

\* math.Pow(2, n) is a natural number.
LEMMA Power2Type == \A n \in Nat : Power2[n] \in Nat
<1> DEFINE D(n) == CHOOSE g : g \in Doublings(n)
           F == [n \in Nat |-> D(n)[n]]
<1>1. \A n \in Nat : D(n) \in Doublings(n)
  BY DoublingsExist
<1> HIDE DEF D
<1>2. ASSUME NEW n \in Nat PROVE D(n)[n] \in Nat
  BY <1>1 DEF Doublings
<1>3. D(0)[0] = 1
  BY <1>1 DEF Doublings
<1>4. ASSUME NEW n \in Nat, n # 0 PROVE n - 1 \in Nat /\ D(n)[n] = 2 * D(n - 1)[n - 1]
  <2>1. n - 1 \in Nat /\ n - 1 <= n /\ n \in 1..n
    BY <1>4
  <2>2. D(n - 1)[n - 1] = D(n)[n - 1]
    BY <1>1, <2>1, DoublingsAgree
  <2>3. D(n)[n] = 2 * D(n)[n - 1]
    BY <1>1, <2>1 DEF Doublings
  <2>4. QED
    BY <2>1, <2>2, <2>3
<1>5. \A n \in Nat : F[n] = IF n = 0 THEN 1 ELSE 2 * F[n - 1]
  BY <1>3, <1>4
<1>6. F = [n \in Nat |-> IF n = 0 THEN 1 ELSE 2 * F[n - 1]]
  <2>1. F = [n \in Nat |-> F[n]]
    OBVIOUS
  <2> HIDE DEF F
  <2>2. QED
    BY <1>5, <2>1
<1> HIDE DEF F
<1>7. Power2 = [n \in Nat |-> IF n = 0 THEN 1 ELSE 2 * Power2[n - 1]]
  BY <1>6 DEF Power2
<1> DEFINE S == {n \in Nat : Power2[n] \notin Nat}
<1>8. ASSUME S # {} PROVE FALSE
  <2>1. PICK n \in S : \A m \in S : n <= m
    <3>1. S \in SUBSET Nat
      OBVIOUS
    <3> HIDE DEF S
    <3>2. QED
      BY <1>8, <3>1, Least
  <2>2. n \in Nat /\ Power2[n] \notin Nat /\ Power2[n] = IF n = 0 THEN 1 ELSE 2 * Power2[n - 1]
    BY <1>7, <2>1
  <2>3. n # 0
    BY <2>2
  <2>4. n - 1 \in Nat /\ n - 1 \notin S
    BY <2>1, <2>2, <2>3
  <2>5. Power2[n - 1] \in Nat
    BY <2>4
  <2>6. QED
    BY <2>2, <2>3, <2>5
<1>9. QED
  BY <1>8

LEMMA BackoffType ==
  ASSUME NEW attempt \in Nat \ {0}
  PROVE  Backoff(attempt) \in Nat /\ Backoff(attempt) <= MaxInterval
<1>1. PICK p \in Nat : p = Power2[attempt - 1]
  BY Power2Type
<1>2. InitialInterval * p \in Nat
  BY TimesAssumption
<1>3. QED
  BY <1>1, <1>2, TimesAssumption DEF Backoff

-----------------------------------------------------------------------------
(* Retries *)

\* How long an attempt has waited, together with how long it still has to,
\* is as much as the failure of the one before it called for, but for the
\* difference of the clocks.
Waits(r) ==
  r.state = "present" /\ r.attempt > 1 =>
    2 * (r.age + r.delay + Skew) >= Backoff(r.attempt - 1)

\* What a poller has locked, and what a worker has in hand, has waited.
RetryInv ==
  /\ Inv
  /\ \A i \in Rows : Waits(row[i])
  /\ \A w \in Workers : poller[w].pc \in {"locked", "working"} => row[poller[w].id].delay = 0

LEMMA RetryInit == Init => RetryInv
<1> SUFFICES ASSUME Init PROVE RetryInv
  OBVIOUS
<1>1. \A i \in Rows : row[i] = NewRow
  BY DEF Init
<1>2. Waits(NewRow)
  BY DEF Waits, NewRow
<1>3. QED
  BY <1>1, <1>2, InvInit DEF Init, RetryInv, Idle

LEMMA SameWaits ==
  ASSUME NEW r, NEW t, Waits(r), t.state = r.state, t.attempt = r.attempt,
         t.age = r.age, t.delay = r.delay
  PROVE  Waits(t)
BY DEF Waits

\* No step makes a row that is there wait longer, or hands out one that waits.
LEMMA RetryFrame ==
  ASSUME RetryInv, Inv', \A i \in Rows : Waits(row'[i]),
         \A i \in Rows : i <= lastRow => row'[i].delay <= row[i].delay,
         \A w \in Workers : poller'[w].pc = "working" =>
           poller[w].pc \in {"locked", "working"} /\ poller'[w].id = poller[w].id
  PROVE  RetryInv'
<1>1. ASSUME NEW w \in Workers, poller'[w].pc = "locked"
      PROVE  row'[poller'[w].id].delay = 0
  BY <1>1 DEF Inv, LocksOK, Available
<1>2. ASSUME NEW w \in Workers, poller'[w].pc = "working"
      PROVE  row'[poller'[w].id].delay = 0
  <2>1. PICK i : i = poller[w].id
    OBVIOUS
  <2>2. i \in Rows /\ i <= lastRow /\ row[i].delay = 0 /\ poller'[w].id = i
    BY <1>2, <2>1 DEF RetryInv, Inv, RowsOK
  <2>3. row'[i].delay \in Nat /\ row'[i].delay <= 0
    BY <2>2 DEF Inv, TypeOK, RowType
  <2>4. QED
    BY <2>2, <2>3
<1>3. QED
  BY <1>1, <1>2 DEF RetryInv

LEMMA NewWaits ==
  /\ Waits(NewRow) /\ Waits(Deleted) /\ Deleted.delay = 0
  /\ \A type \in Types : Waits(Inserted(type, 1, 0))
<1>1. NewRow.state = "new" /\ Deleted.state = "gone" /\ Deleted.delay = 0
  BY DEF NewRow, Deleted
<1>2. \A type \in Types : Inserted(type, 1, 0).attempt = 1
  BY DEF Inserted, NewRow
<1>3. QED
  BY <1>1, <1>2 DEF Waits

\* The row of the next attempt: its delay is what RetryDelays allows, on the
\* clock of the engine.
LEMMA NextAttemptWaits ==
  ASSUME NEW type \in Types, NEW attempt \in Nat \ {0}, NEW d \in Delays(attempt)
  PROVE  Waits(Inserted(type, attempt + 1, d))
<1> DEFINE r == Inserted(type, attempt + 1, d)
<1>0. /\ d \in Nat /\ \E e \in RetryDelays(attempt) : e - Skew <= d
  BY TimesAssumption DEF Delays
<1>e. PICK e \in 0..MaxInterval : 2 * e >= Backoff(attempt) /\ e - Skew <= d
  BY <1>0 DEF RetryDelays
<1>1. /\ d \in Nat /\ Backoff(attempt) \in Nat /\ 2 * (d + Skew) >= Backoff(attempt)
  BY <1>0, <1>e, BackoffType, TimesAssumption
<1>2. r.attempt = attempt + 1 /\ r.age = 0 /\ r.delay = d
  BY DEF Inserted, NewRow
<1> HIDE DEF r
<1>3. r.attempt - 1 = attempt /\ r.age + r.delay + Skew = d + Skew
  BY <1>1, <1>2
<1>4. Waits(r)
  BY <1>1, <1>3 DEF Waits
<1>5. QED
  BY <1>4 DEF r

\* A tick moves a unit of what an attempt has to wait to what it has waited.
LEMMA OlderWaits ==
  ASSUME NEW r \in RowType, Waits(r)
  PROVE  Waits(Older(r))
<1>1. CASE r.state # "present"
  BY <1>1 DEF Older
<1>2. CASE r.state = "present"
  <2> DEFINE t == Older(r)
  <2>1. /\ r.age \in 0..MaxInterval /\ r.delay \in Nat /\ r.attempt \in 1..MaxAttempts
        /\ r = [state |-> r.state, type |-> r.type, attempt |-> r.attempt,
                owner |-> r.owner, left |-> r.left, delay |-> r.delay, age |-> r.age]
    BY DEF RowType
  <2>2. /\ t.age = OneMore(r.age, MaxInterval) /\ t.delay = LessOne(r.delay, 0)
        /\ t.attempt = r.attempt /\ t.state = r.state
    BY <1>2, <2>1 DEF Older
  <2> HIDE DEF t
  <2>3. CASE r.attempt > 1
    <3>1. PICK b \in Nat : b = Backoff(r.attempt - 1) /\ b <= MaxInterval
      BY <2>1, <2>3, NumbersAssumption, BackoffType
    <3>2. 2 * (r.age + r.delay + Skew) >= b
      BY <1>2, <2>3, <3>1 DEF Waits
    <3>3. t.age = MaxInterval \/ t.age = r.age + 1
      BY <2>1, <2>2, TimesAssumption DEF OneMore
    <3>4. t.delay \in Nat /\ t.delay >= r.delay - 1 /\ t.age \in Nat
      BY <2>1, <2>2, <3>3, TimesAssumption DEF LessOne
    <3>5. 2 * (t.age + t.delay + Skew) >= b
      BY <2>1, <3>1, <3>2, <3>3, <3>4, TimesAssumption
    <3>6. QED
      BY <2>2, <3>1, <3>5 DEF Waits, t
  <2>4. CASE ~(r.attempt > 1)
    BY <2>2, <2>4 DEF Waits, t
  <2>5. QED
    BY <2>3, <2>4
<1>3. QED
  BY <1>1, <1>2

LEMMA RetryStep == RetryInv /\ [Next]_vars => RetryInv'
<1> SUFFICES ASSUME RetryInv, [Next]_vars PROVE RetryInv'
  OBVIOUS
<1>a. Inv /\ Inv' /\ \A i \in Rows : Waits(row[i])
  BY InvNext DEF RetryInv
<1>b. /\ row \in [Rows -> RowType] /\ poller \in [Workers -> PollerType] /\ lastRow \in Nat
      /\ \A w \in Workers : poller[w].pc \in {"locked", "working"} =>
           poller[w].id \in Rows /\ poller[w].id <= lastRow
  BY <1>a, NumbersAssumption DEF Inv, TypeOK, RowsOK
<1>c. \A i \in Rows : row[i].delay \in Nat /\ i \in Nat
  BY <1>b DEF RowType, Rows
<1>0. /\ Inv /\ Inv' /\ \A i \in Rows : Waits(row[i])
      /\ row \in [Rows -> RowType] /\ poller \in [Workers -> PollerType]
      /\ lastRow \in Nat /\ \A i \in Rows : row[i].delay \in Nat /\ i \in Nat
      /\ \A w \in Workers : poller[w].pc \in {"locked", "working"} =>
           poller[w].id \in Rows /\ poller[w].id <= lastRow
  BY <1>a, <1>b, <1>c
<1>1. ASSUME row' = row,
             \A w \in Workers : poller'[w].pc = "working" =>
               poller[w].pc = "working" /\ poller'[w].id = poller[w].id
      PROVE  RetryInv'
  BY <1>0, <1>1, RetryFrame
<1>2. ASSUME NEW w \in Workers, NEW p, p.pc # "working",
             poller' = [poller EXCEPT ![w] = p]
      PROVE  \A v \in Workers : poller'[v].pc = "working" =>
               poller[v].pc = "working" /\ poller'[v].id = poller[v].id
  BY <1>0, <1>2
<1>3. Idle.pc # "working"
  BY DEF Idle
<1>4. ASSUME NEW type \in Types, InsertTask(type) PROVE RetryInv'
  <2>1. /\ poller' = poller /\ lastRow + 1 \in Rows
        /\ row' = [row EXCEPT ![lastRow + 1] = Inserted(type, 1, 0)]
    BY <1>0, <1>4, NumbersAssumption DEF InsertTask, Rows
  <2>2. \A i \in Rows : row'[i] = IF i = lastRow + 1 THEN Inserted(type, 1, 0) ELSE row[i]
    BY <1>0, <2>1
  <2>3. \A i \in Rows : Waits(row'[i])
    BY <1>0, <2>2, NewWaits
  <2>4. \A i \in Rows : i <= lastRow => row'[i].delay <= row[i].delay
    BY <1>0, <2>2
  <2>5. QED
    BY <1>0, <2>1, <2>3, <2>4, RetryFrame
<1>5. ASSUME NEW w \in Workers, Select(w) \/ LockRow(w) \/ Drop(w) \/ Crash(w)
      PROVE  RetryInv'
  <2>1. CASE Select(w)
    BY <1>1, <1>2, <2>1 DEF Select
  <2>2. CASE LockRow(w)
    <3>1. row' = row /\ \E p : p.pc # "working" /\ poller' = [poller EXCEPT ![w] = p]
      <4>1. ASSUME NEW first
            PROVE  [poller[w] EXCEPT !.pc = "locked", !.seen = {}, !.id = first].pc = "locked"
        BY <1>0 DEF PollerType
      <4>2. QED
        BY <1>3, <2>2, <4>1 DEF LockRow
    <3>2. QED
      BY <1>1, <1>2, <3>1
  <2>3. CASE Drop(w) \/ Crash(w)
    BY <1>1, <1>2, <1>3, <2>3 DEF Drop, Crash
  <2>4. QED
    BY <1>5, <2>1, <2>2, <2>3
<1>6. ASSUME NEW w \in Workers, LeaseRow(w) PROVE RetryInv'
  <2>1. PICK i : i = poller[w].id
    OBVIOUS
  <2>2. PICK left : left = poller[w].left
    OBVIOUS
  <2>3. /\ poller[w].pc = "locked" /\ i \in Rows
        /\ row' = [row EXCEPT ![i].owner = w, ![i].left = left]
        /\ poller' = [poller EXCEPT ![w].pc = "working"]
    BY <1>0, <1>6, <2>1, <2>2 DEF LeaseRow
  <2>4. ASSUME NEW k \in Rows
        PROVE  /\ row'[k].state = row[k].state /\ row'[k].attempt = row[k].attempt
               /\ row'[k].age = row[k].age /\ row'[k].delay = row[k].delay
    BY <1>0, <2>3 DEF RowType
  <2>5. \A k \in Rows : Waits(row'[k])
    BY <1>0, <2>4, SameWaits
  <2>6. \A k \in Rows : k <= lastRow => row'[k].delay <= row[k].delay
    BY <1>0, <2>4
  <2>7. \A v \in Workers : poller'[v].pc = "working" =>
          poller[v].pc \in {"locked", "working"} /\ poller'[v].id = poller[v].id
    BY <1>0, <2>3 DEF PollerType
  <2>8. QED
    BY <1>0, <2>5, <2>6, <2>7, RetryFrame
<1>7. ASSUME NEW w \in Workers, Complete(w) PROVE RetryInv'
  <2>1. PICK i : i = poller[w].id
    OBVIOUS
  <2>2. /\ i \in Rows /\ row' = [row EXCEPT ![i] = Deleted]
        /\ poller' = [poller EXCEPT ![w] = Idle]
    BY <1>0, <1>7, <2>1 DEF Complete, Reports
  <2>3. \A k \in Rows : row'[k] = IF k = i THEN Deleted ELSE row[k]
    BY <1>0, <2>2
  <2>4. /\ \A k \in Rows : Waits(row'[k])
        /\ \A k \in Rows : k <= lastRow => row'[k].delay <= row[k].delay
    BY <1>0, <2>3, NewWaits
  <2>5. QED
    BY <1>0, <1>2, <1>3, <2>2, <2>4, RetryFrame
<1>8. ASSUME NEW w \in Workers, Retry(w) PROVE RetryInv'
  <2>1. PICK i : i = poller[w].id
    OBVIOUS
  <2>2. PICK a : a = row[i].attempt
    OBVIOUS
  <2>3. PICK type : type = row[i].type
    OBVIOUS
  <2>4. PICK d \in Delays(a) :
          row' = [row EXCEPT ![i] = Deleted, ![lastRow + 1] = Inserted(type, a + 1, d)]
    BY <1>8, <2>1, <2>2, <2>3 DEF Retry
  <2>5. /\ i \in Rows /\ poller' = [poller EXCEPT ![w] = Idle] /\ lastRow + 1 \in Rows
    BY <1>0, <1>8, <2>1, NumbersAssumption DEF Retry, Reports, Rows
  <2>6. a \in Nat \ {0} /\ type \in Types
    BY <1>0, <2>2, <2>3, <2>5, NumbersAssumption DEF RowType
  <2>7. Waits(Inserted(type, a + 1, d))
    BY <2>4, <2>6, NextAttemptWaits
  <2>8. \A k \in Rows : row'[k] = IF k = lastRow + 1 THEN Inserted(type, a + 1, d)
                                  ELSE IF k = i THEN Deleted ELSE row[k]
    BY <1>0, <2>4, <2>5
  <2>9. \A k \in Rows : Waits(row'[k])
    BY <1>0, <2>7, <2>8, NewWaits
  <2>10. \A k \in Rows : k <= lastRow => row'[k].delay <= row[k].delay
    BY <1>0, <2>8, NewWaits
  <2>11. QED
    BY <1>0, <1>2, <1>3, <2>5, <2>9, <2>10, RetryFrame
<1>9. ASSUME ReclaimExpiredLeases PROVE RetryInv'
  <2>1. /\ row' = [i \in Rows |-> IF Expired(i)
                                  THEN [row[i] EXCEPT !.owner = Nobody, !.left = 0]
                                  ELSE row[i]]
        /\ poller' = poller
    BY <1>9 DEF ReclaimExpiredLeases
  <2>2. ASSUME NEW k \in Rows
        PROVE  /\ row'[k].state = row[k].state /\ row'[k].attempt = row[k].attempt
               /\ row'[k].age = row[k].age /\ row'[k].delay = row[k].delay
    <3>1. row[k] \in RowType
      BY <1>0
    <3>2. PICK r : r = row[k]
      OBVIOUS
    <3>3. \/ row'[k] = r
          \/ row'[k] = [r EXCEPT !.owner = Nobody, !.left = 0]
      BY <2>1, <3>2
    <3>4. QED
      BY <3>1, <3>2, <3>3 DEF RowType
  <2>3. \A k \in Rows : Waits(row'[k])
    BY <1>0, <2>2, SameWaits
  <2>4. \A k \in Rows : k <= lastRow => row'[k].delay <= row[k].delay
    BY <1>0, <2>2
  <2>5. QED
    BY <1>0, <2>1, <2>3, <2>4, RetryFrame
<1>10. ASSUME ReclaimLate \/ Stop \/ Start \/ UNCHANGED vars PROVE RetryInv'
  <2>1. row' = row
    BY <1>10 DEF ReclaimLate, Stop, Start, vars
  <2>2. \A w \in Workers : poller'[w].pc = "working" =>
          poller[w].pc = "working" /\ poller'[w].id = poller[w].id
    BY <1>3, <1>10 DEF ReclaimLate, Stop, Start, vars
  <2>3. QED
    BY <1>1, <2>1, <2>2
<1>11. ASSUME Tick PROVE RetryInv'
  <2>1. \A i \in Rows : row'[i] = Older(row[i]) /\ row[i] \in RowType
    BY <1>0, <1>11 DEF Tick
  <2>2. \A i \in Rows : Waits(row'[i])
    BY <1>0, <2>1, OlderWaits
  <2>3. \A i \in Rows : i <= lastRow => row'[i].delay <= row[i].delay
    BY <2>1, OlderRow
  <2>4. ASSUME NEW w \in Workers, poller'[w].pc = "working"
        PROVE  poller[w].pc = "working" /\ poller'[w].id = poller[w].id
    <3>1. PICK p \in PollerType : p = poller[w]
      BY <1>0
    <3>2. poller'[w] = IF p.pc = "idle" THEN Idle ELSE [p EXCEPT !.left = LessOne(@, -1)]
      BY <1>11, <3>1 DEF Tick
    <3>3. QED
      BY <1>3, <2>4, <3>1, <3>2 DEF PollerType
  <2>5. QED
    BY <1>0, <2>2, <2>3, <2>4, RetryFrame
<1>12. QED
  BY <1>4, <1>5, <1>6, <1>7, <1>8, <1>9, <1>10, <1>11 DEF Next, WorkerStep

\* No worker has an attempt in hand before the least backoff that follows the
\* failure of the one before it, but for the difference between the clocks of
\* the engine and of the database, for any retry policy: crashes, expired
\* leases and stops of the engine in between make it wait no less.
THEOREM RetriesWait == Spec => []RetryWaits
<1>1. RetryInv => RetryWaits
  <2> SUFFICES ASSUME RetryInv, NEW w \in Workers,
                      poller[w].pc \in {"locked", "working"},
                      row[poller[w].id].state = "present", row[poller[w].id].attempt > 1
               PROVE  2 * (row[poller[w].id].age + Skew) >=
                        Backoff(row[poller[w].id].attempt - 1)
    BY DEF RetryWaits
  <2>1. PICK i : i = poller[w].id
    OBVIOUS
  <2>2. i \in Rows /\ row[i].delay = 0 /\ row[i].age \in Nat /\ Waits(row[i])
    BY <2>1, TimesAssumption DEF RetryInv, Inv, RowsOK, TypeOK, RowType
  <2>3. row[i].age + row[i].delay + Skew = row[i].age + Skew
    BY <2>2, TimesAssumption
  <2>4. QED
    BY <2>1, <2>2, <2>3 DEF Waits
<1>2. QED
  BY <1>1, RetryInit, RetryStep, PTL DEF Spec

=============================================================================
