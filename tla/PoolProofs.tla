----------------------------- MODULE PoolProofs -----------------------------
(***************************************************************************)
(* Theorems about Pool, for all values of its constants.                   *)
(***************************************************************************)
EXTENDS Pool, TLAPS, FiniteSetTheorems, SequenceTheorems

-----------------------------------------------------------------------------
(* What handlers do with the database *)

\* A transaction is begun at most once, and ended after that.
OneTransaction(s) ==
  \A i \in DOMAIN s : s[i] = "begin" =>
    /\ \A j \in DOMAIN s : s[j] = "begin" => i = j
    /\ \E j \in DOMAIN s : j > i /\ s[j] = "commit"

Begins(s) == \E i \in DOMAIN s : s[i] = "begin"
Commits(s) == \E i \in DOMAIN s : s[i] = "commit"

\* A scan of any number of due timers.
LEMMA ScanIsOneTransaction ==
  ASSUME NEW n \in Nat
  PROVE  /\ ScanTimers(n) \in Seq(Operations) /\ ScanTimers(n) # <<>>
         /\ OneTransaction(ScanTimers(n))
<1> DEFINE s == ScanTimers(n)
           m == 2 * n + 2
<1>1. m \in Nat /\ m >= 2
  OBVIOUS
<1>2. s = [i \in 1..m |-> IF i = 1 THEN "begin" ELSE IF i = m THEN "commit" ELSE "query"]
  BY DEF ScanTimers
<1> HIDE DEF s, m
<1>3. s \in [1..m -> Operations] /\ DOMAIN s = 1..m
  BY <1>2 DEF Operations
<1>4. s \in Seq(Operations)
  BY <1>1, <1>3, SeqDef
<1>5. 1 \in DOMAIN s /\ m \in DOMAIN s /\ m > 1 /\ s[m] = "commit"
  BY <1>1, <1>2, <1>3
<1>6. s # <<>>
  BY <1>5
<1>7. \A i \in DOMAIN s : s[i] = "begin" => i = 1
  BY <1>1, <1>2, <1>3
<1>8. OneTransaction(s)
  BY <1>5, <1>7 DEF OneTransaction
<1>9. QED
  BY <1>4, <1>6, <1>8 DEF s

\* Every handler and every loop is of this form.
LEMMA ProgramsAreOneTransaction ==
  ASSUME NEW s \in Handlers \cup TickerLoops
  PROVE  s \in Seq(Operations) /\ s # <<>> /\ OneTransaction(s)
<1> USE DEF Operations, OneTransaction
<1>1. CASE s = <<"begin", "query", "commit">>
  BY <1>1
<1>2. CASE s = PollWorkflowTask
  BY <1>2 DEF PollWorkflowTask
<1>3. CASE s = PollActivityTask
  BY <1>3 DEF PollActivityTask
<1>4. CASE s = <<"begin", "query", "query", "commit">>
  BY <1>4
<1>5. CASE s = CompleteActivityTask
  BY <1>5 DEF CompleteActivityTask
<1>6. CASE s = SignalWorkflow
  BY <1>6 DEF SignalWorkflow
<1>7. CASE s = ReclaimExpiredLeases
  BY <1>7 DEF ReclaimExpiredLeases
<1>8. CASE \E n \in Due : s = ScanTimers(n)
  BY <1>8, ScanIsOneTransaction, DueAssumption
<1>9. QED
  BY <1>1, <1>2, <1>3, <1>4, <1>5, <1>6, <1>7, <1>8
  DEF Handlers, TickerLoops, StartWorkflow, FailActivityTask, CompleteWorkflowTask

\* What is left of a handler after its first operation.
LEMMA TailOfTransaction ==
  ASSUME NEW s \in Seq(Operations), s # <<>>, OneTransaction(s)
  PROVE  /\ Tail(s) \in Seq(Operations) /\ OneTransaction(Tail(s))
         /\ Head(s) = "begin" => ~Begins(Tail(s)) /\ Commits(Tail(s))
         /\ ~Begins(s) => ~Begins(Tail(s))
         /\ Head(s) # "commit" => (Commits(s) <=> Commits(Tail(s)))
<1>1. Len(s) \in Nat /\ Len(s) >= 1 /\ DOMAIN s = 1..Len(s)
  OBVIOUS
<1>2. /\ Tail(s) \in Seq(Operations) /\ DOMAIN Tail(s) = 1..(Len(s) - 1)
      /\ \A i \in 1..(Len(s) - 1) : Tail(s)[i] = s[i + 1]
      /\ Head(s) = s[1]
  OBVIOUS
<1>3. OneTransaction(Tail(s))
  <2> SUFFICES ASSUME NEW i \in DOMAIN Tail(s), Tail(s)[i] = "begin"
               PROVE  /\ \A j \in DOMAIN Tail(s) : Tail(s)[j] = "begin" => i = j
                      /\ \E j \in DOMAIN Tail(s) : j > i /\ Tail(s)[j] = "commit"
    BY DEF OneTransaction
  <2>1. i + 1 \in DOMAIN s /\ s[i + 1] = "begin"
    BY <1>1, <1>2
  <2>2. \A j \in DOMAIN Tail(s) : Tail(s)[j] = "begin" => i = j
    BY <1>1, <1>2, <2>1 DEF OneTransaction
  <2>3. PICK k \in DOMAIN s : k > i + 1 /\ s[k] = "commit"
    BY <2>1 DEF OneTransaction
  <2>4. k - 1 \in DOMAIN Tail(s) /\ k - 1 > i /\ Tail(s)[k - 1] = "commit"
    BY <1>1, <1>2, <2>3
  <2>5. QED
    BY <2>2, <2>4
<1>4. ASSUME Head(s) = "begin" PROVE ~Begins(Tail(s)) /\ Commits(Tail(s))
  <2>1. 1 \in DOMAIN s /\ s[1] = "begin"
    BY <1>1, <1>2, <1>4
  <2>2. ~Begins(Tail(s))
    BY <1>1, <1>2, <2>1 DEF OneTransaction, Begins
  <2>3. PICK k \in DOMAIN s : k > 1 /\ s[k] = "commit"
    BY <2>1 DEF OneTransaction
  <2>4. k - 1 \in DOMAIN Tail(s) /\ Tail(s)[k - 1] = "commit"
    BY <1>1, <1>2, <2>3
  <2>5. QED
    BY <2>2, <2>4 DEF Commits
<1>5. ~Begins(s) => ~Begins(Tail(s))
  BY <1>1, <1>2 DEF Begins
<1>6. ASSUME Head(s) # "commit" PROVE Commits(s) <=> Commits(Tail(s))
  <2>1. ASSUME Commits(s) PROVE Commits(Tail(s))
    <3>1. PICK k \in DOMAIN s : s[k] = "commit"
      BY <2>1 DEF Commits
    <3>2. k # 1
      BY <1>2, <1>6, <3>1
    <3>3. k - 1 \in DOMAIN Tail(s) /\ Tail(s)[k - 1] = "commit"
      BY <1>1, <1>2, <3>1, <3>2
    <3>4. QED
      BY <3>3 DEF Commits
  <2>2. ASSUME Commits(Tail(s)) PROVE Commits(s)
    BY <1>1, <1>2, <2>2 DEF Commits
  <2>3. QED
    BY <2>1, <2>2
<1>7. QED
  BY <1>2, <1>3, <1>4, <1>5, <1>6

-----------------------------------------------------------------------------
(* The invariant *)

Distinct == \A i, j \in DOMAIN waiting : waiting[i] = waiting[j] => i = j

\* Who waits, or runs a query, has such an operation before it.
OperationsOK ==
  /\ \A p \in Processes : OneTransaction(todo[p])
  /\ Distinct
  /\ \A p \in Processes : InAcquire(p) =>
       p \notin running /\ Busy(p) /\ Head(todo[p]) \in {"begin", "query"}
  /\ \A p \in running : Busy(p) /\ Head(todo[p]) = "query"

\* No process has two connections for one use; a query has its connection
\* until its answer, and a transaction until its commit is done.
HoldersOK ==
  /\ \A c, d \in Connections : holder[c] = holder[d] /\ holder[c] # None => c = d
  /\ \A c \in Connections, p \in Processes : holder[c] = <<p, "query">> => p \in running
  /\ \A c \in Connections, p \in Processes : holder[c] = <<p, "tx">> =>
       ~Begins(todo[p]) /\ Commits(todo[p])

ShutdownOK ==
  /\ phase \in {"closing", "stopped"} => \A p \in Calls : ~Busy(p)
  /\ phase = "stopped" => Free = Connections

Inv == TypeOK /\ OperationsOK /\ HoldersOK /\ ShutdownOK

\* A sequence without its i-th element.
LEMMA RemoveAtProperties ==
  ASSUME NEW S, NEW s \in Seq(S), NEW i \in 1..Len(s)
  PROVE  /\ RemoveAt(s, i) \in Seq(S) /\ Len(RemoveAt(s, i)) = Len(s) - 1
         /\ \A j \in 1..(Len(s) - 1) :
              RemoveAt(s, i)[j] = IF j < i THEN s[j] ELSE s[j + 1]
<1> DEFINE n == Len(s)
           front == SubSeq(s, 1, i - 1)
           back == SubSeq(s, i + 1, n)
<1>1. n \in Nat /\ i \in Nat /\ 1 <= i /\ i <= n /\ \A j \in 1..n : s[j] \in S
  OBVIOUS
<1>2. /\ front \in Seq(S) /\ Len(front) = i - 1
      /\ \A j \in 1..(i - 1) : front[j] = s[j]
  BY <1>1
<1>3. /\ back \in Seq(S) /\ Len(back) = IF i + 1 <= n THEN n - (i + 1) + 1 ELSE 0
      /\ \A j \in 1..(n - (i + 1) + 1) : back[j] = s[(i + 1) + j - 1]
  BY <1>1, SubSeqProperties
<1>4. RemoveAt(s, i) = front \o back
  BY DEF RemoveAt
<1> HIDE DEF n, front, back
<1>5. Len(back) = n - i
  BY <1>1, <1>3
<1>6. /\ front \o back \in Seq(S)
      /\ Len(front \o back) = Len(front) + Len(back)
      /\ \A j \in 1..(Len(front) + Len(back)) :
           (front \o back)[j] = IF j <= Len(front) THEN front[j] ELSE back[j - Len(front)]
  BY <1>2, <1>3, ConcatProperties
<1>7. Len(RemoveAt(s, i)) = n - 1
  BY <1>1, <1>2, <1>4, <1>5, <1>6
<1>8. ASSUME NEW j \in 1..(n - 1)
      PROVE  RemoveAt(s, i)[j] = IF j < i THEN s[j] ELSE s[j + 1]
  <2>1. j \in 1..(Len(front) + Len(back))
    BY <1>1, <1>2, <1>5
  <2>2. CASE j < i
    BY <1>1, <1>2, <1>4, <1>6, <2>1, <2>2
  <2>3. CASE j >= i
    <3>1. back[j - (i - 1)] = s[(i + 1) + (j - (i - 1)) - 1]
      BY <1>1, <1>3, <2>3
    <3>2. (i + 1) + (j - (i - 1)) - 1 = j + 1
      BY <1>1
    <3>3. QED
      BY <1>1, <1>2, <1>4, <1>6, <2>1, <2>3, <3>1, <3>2
  <2>4. QED
    BY <1>1, <2>2, <2>3
<1>9. QED
  BY <1>4, <1>6, <1>7, <1>8 DEF n

\* A place in the queue is given up: the others keep their order.
LEMMA LeavesQueueKeeps ==
  ASSUME waiting \in Seq(Processes), Distinct, NEW p \in Processes, LeavesQueue(p)
  PROVE  /\ waiting' \in Seq(Processes) /\ Distinct'
         /\ \A q \in Processes : InAcquire(q)' <=> (InAcquire(q) /\ q # p)
<1>1. CASE ~InAcquire(p)
  <2>1. waiting' = waiting
    BY <1>1 DEF LeavesQueue
  <2>2. QED
    BY <1>1, <2>1 DEF Distinct, InAcquire
<1>2. CASE InAcquire(p)
  <2> DEFINE i == CHOOSE i \in DOMAIN waiting : waiting[i] = p
             n == Len(waiting)
  <2>1. i \in DOMAIN waiting /\ waiting[i] = p
    BY <1>2 DEF InAcquire
  <2>2. waiting' = RemoveAt(waiting, i)
    BY <1>2 DEF LeavesQueue
  <2> HIDE DEF i
  <2>3. n \in Nat /\ DOMAIN waiting = 1..n /\ i \in 1..n
    BY <2>1
  <2>4. /\ waiting' \in Seq(Processes) /\ DOMAIN waiting' = 1..(n - 1)
        /\ \A j \in 1..(n - 1) :
             waiting'[j] = IF j < i THEN waiting[j] ELSE waiting[j + 1]
    <3>1. /\ RemoveAt(waiting, i) \in Seq(Processes)
          /\ Len(RemoveAt(waiting, i)) = n - 1
          /\ \A j \in 1..(n - 1) :
               RemoveAt(waiting, i)[j] = IF j < i THEN waiting[j] ELSE waiting[j + 1]
      BY <2>3, RemoveAtProperties
    <3>2. waiting' \in Seq(Processes) /\ Len(waiting') = n - 1
      BY <2>2, <3>1
    <3>3. DOMAIN waiting' = 1..Len(waiting')
      BY <3>2
    <3>4. QED
      BY <2>2, <3>1, <3>2, <3>3
  <2>5. Distinct'
    <3> SUFFICES ASSUME NEW j \in 1..(n - 1), NEW k \in 1..(n - 1),
                        waiting'[j] = waiting'[k]
                 PROVE  j = k
      BY <2>4 DEF Distinct
    <3> DEFINE old(a) == IF a < i THEN a ELSE a + 1
    <3>1. old(j) \in 1..n /\ old(k) \in 1..n /\ waiting[old(j)] = waiting[old(k)]
      BY <2>3, <2>4
    <3>2. old(j) = old(k)
      BY <2>3, <3>1 DEF Distinct
    <3>3. QED
      BY <2>3, <3>2
  <2>6. ASSUME NEW q \in Processes PROVE InAcquire(q)' <=> (InAcquire(q) /\ q # p)
    <3>1. ASSUME InAcquire(q)' PROVE InAcquire(q) /\ q # p
      <4>1. PICK j \in 1..(n - 1) : waiting'[j] = q
        BY <2>4, <3>1 DEF InAcquire
      <4>2. \E k \in 1..n : k # i /\ waiting[k] = q
        BY <2>3, <2>4, <4>1
      <4>3. QED
        BY <2>1, <2>3, <4>2 DEF InAcquire, Distinct
    <3>2. ASSUME InAcquire(q), q # p PROVE InAcquire(q)'
      <4>1. PICK k \in 1..n : waiting[k] = q
        BY <2>3, <3>2 DEF InAcquire
      <4>2. CASE k < i
        BY <2>3, <2>4, <4>1, <4>2 DEF InAcquire
      <4>3. CASE k > i
        <5>1. k - 1 \in 1..(n - 1) /\ waiting'[k - 1] = q
          BY <2>3, <2>4, <4>1, <4>3
        <5>2. QED
          BY <2>4, <5>1 DEF InAcquire
      <4>4. QED
        BY <2>1, <2>3, <3>2, <4>1, <4>2, <4>3
    <3>3. QED
      BY <3>1, <3>2
  <2>7. QED
    BY <2>4, <2>5, <2>6
<1>3. QED
  BY <1>1, <1>2

LEMMA InvInit == Init => Inv
<1> SUFFICES ASSUME Init PROVE Inv
  OBVIOUS
<1> USE DEF Init
<1>1. TypeOK
  BY DEF TypeOK
<1>2. OperationsOK
  BY DEF OperationsOK, OneTransaction, Distinct, InAcquire
<1>3. HoldersOK
  BY NoneAssumption DEF HoldersOK, Processes
<1>4. ShutdownOK
  BY DEF ShutdownOK
<1>5. QED
  BY <1>1, <1>2, <1>3, <1>4 DEF Inv

-----------------------------------------------------------------------------
(* Steps *)

\* Of the connections, a process gives those for some uses back.
LEMMA ReleaseKeeps ==
  ASSUME TypeOK, HoldersOK, NEW p \in Processes, NEW uses \in SUBSET Uses, Release(p, uses)
  PROVE  /\ holder' \in [Connections -> (Processes \X Uses) \cup {None}]
         /\ \A c \in Connections : holder'[c] # None =>
              holder'[c] = holder[c] /\ holder[c] \notin {p} \X uses
BY DEF Release, TypeOK

LEMMA StepBegin ==
  ASSUME Inv, NEW p \in Processes,
         NEW ops \in Handlers \cup TickerLoops, Begin(p, ops)
  PROVE  Inv'
<1> USE DEF Inv, Begin
<1>1. ops \in Seq(Operations) /\ ops # <<>> /\ OneTransaction(ops)
  BY ProgramsAreOneTransaction
<1>2. TypeOK'
  BY <1>1 DEF TypeOK
<1>3. /\ \A q \in Processes : todo'[q] = IF q = p THEN ops ELSE todo[q]
      /\ todo[p] = <<>> /\ p \notin running /\ ~InAcquire(p)
  BY DEF TypeOK, OperationsOK, Busy
<1>4. OperationsOK'
  BY <1>1, <1>3 DEF OperationsOK, TypeOK, Busy, Distinct, InAcquire
<1>5. ~Commits(todo[p])
  BY <1>3 DEF Commits
<1>6. HoldersOK'
  BY <1>3, <1>5 DEF HoldersOK
<1>7. ShutdownOK'
  BY DEF ShutdownOK
<1>8. QED
  BY <1>2, <1>4, <1>6, <1>7

LEMMA StepAcquire ==
  ASSUME Inv, NEW p \in Processes, Acquire(p)
  PROVE  Inv'
<1> USE DEF Inv, Acquire
<1>1. waiting \in Seq(Processes) /\ waiting' = Append(waiting, p)
  BY DEF TypeOK
<1>2. /\ waiting' \in Seq(Processes) /\ Len(waiting') = Len(waiting) + 1
      /\ DOMAIN waiting' = 1..(Len(waiting) + 1) /\ DOMAIN waiting = 1..Len(waiting)
      /\ \A i \in 1..Len(waiting) : waiting'[i] = waiting[i]
      /\ waiting'[Len(waiting) + 1] = p /\ Len(waiting) \in Nat
  BY <1>1
<1>3. TypeOK'
  BY <1>2 DEF TypeOK
<1>4. \A q \in Processes : InAcquire(q)' => InAcquire(q) \/ q = p
  BY <1>2 DEF InAcquire
<1>5. Distinct'
  BY <1>2 DEF OperationsOK, Distinct, InAcquire
<1>6. OperationsOK'
  BY <1>4, <1>5 DEF OperationsOK, Busy
<1>7. HoldersOK' /\ ShutdownOK'
  BY DEF HoldersOK, ShutdownOK, Busy, Free
<1>8. QED
  BY <1>3, <1>6, <1>7

LEMMA StepGrant ==
  ASSUME Inv, NEW c \in Connections, Grant(c)
  PROVE  Inv'
<1> DEFINE p == Head(waiting)
<1> USE DEF Inv
<1>1. /\ waiting \in Seq(Processes) /\ waiting # <<>> /\ waiting' = Tail(waiting)
      /\ p = waiting[1] /\ 1 \in DOMAIN waiting
  BY DEF Grant, TypeOK
<1>2. /\ waiting' \in Seq(Processes) /\ Len(waiting) \in Nat
      /\ DOMAIN waiting' = 1..(Len(waiting) - 1) /\ DOMAIN waiting = 1..Len(waiting)
      /\ \A i \in 1..(Len(waiting) - 1) : waiting'[i] = waiting[i + 1]
  BY <1>1
<1>3. p \in Processes /\ InAcquire(p)
  BY <1>1 DEF InAcquire
<1>4. p \notin running /\ Busy(p) /\ Head(todo[p]) \in {"begin", "query"}
  BY <1>3 DEF OperationsOK
<1>5. \A q \in Processes : InAcquire(q)' => InAcquire(q) /\ q # p
  BY <1>1, <1>2 DEF InAcquire, OperationsOK, Distinct
<1>6. Distinct'
  <2> SUFFICES ASSUME NEW i \in DOMAIN waiting', NEW j \in DOMAIN waiting',
                      waiting'[i] = waiting'[j]
               PROVE  i = j
    BY DEF Distinct
  <2>1. i + 1 \in DOMAIN waiting /\ j + 1 \in DOMAIN waiting
        /\ waiting[i + 1] = waiting[j + 1]
    BY <1>2
  <2>2. QED
    BY <1>2, <2>1 DEF OperationsOK, Distinct
<1>7. /\ todo[p] \in Seq(Operations) /\ todo[p] # <<>> /\ OneTransaction(todo[p])
      /\ holder[c] = None
  BY <1>3, <1>4 DEF TypeOK, OperationsOK, Busy, Grant, Free
<1> HIDE DEF p
<1>8. CASE Head(todo[p]) = "begin"
  <2>1. /\ holder' = [holder EXCEPT ![c] = <<p, "tx">>]
        /\ todo' = [todo EXCEPT ![p] = Tail(@)]
        /\ running' = running /\ phase' = phase
    BY <1>8 DEF Grant, p
  <2>2. Tail(todo[p]) \in Seq(Operations) /\ OneTransaction(Tail(todo[p]))
        /\ ~Begins(Tail(todo[p])) /\ Commits(Tail(todo[p]))
    BY <1>7, <1>8, TailOfTransaction
  <2>3. TypeOK'
    BY <1>2, <1>3, <2>1, <2>2 DEF TypeOK, Uses
  <2>4. OperationsOK'
    BY <1>3, <1>4, <1>5, <1>6, <1>8, <2>1, <2>2 DEF OperationsOK, TypeOK, Busy
  <2>5. Begins(todo[p])
    BY <1>7, <1>8 DEF Begins
  <2>6. \A d \in Connections : holder[d] # <<p, "tx">>
    BY <1>3, <2>5 DEF HoldersOK
  <2>7. HoldersOK'
    BY <1>3, <2>1, <2>2, <2>6 DEF HoldersOK, TypeOK
  <2>8. ShutdownOK'
    BY <1>3, <1>4, <2>1 DEF ShutdownOK, Busy, Grant, PoolOpen, Processes
  <2>9. QED
    BY <2>3, <2>4, <2>7, <2>8
<1>9. CASE Head(todo[p]) = "query"
  <2>1. /\ holder' = [holder EXCEPT ![c] = <<p, "query">>]
        /\ todo' = todo /\ running' = running \cup {p} /\ phase' = phase
    BY <1>9 DEF Grant, p
  <2>2. TypeOK'
    BY <1>2, <1>3, <2>1 DEF TypeOK, Uses
  <2>3. OperationsOK'
    BY <1>3, <1>4, <1>5, <1>6, <1>9, <2>1 DEF OperationsOK, TypeOK, Busy
  <2>4. \A d \in Connections : holder[d] # <<p, "query">>
    BY <1>3, <1>4 DEF HoldersOK
  <2>5. HoldersOK'
    BY <1>3, <2>1, <2>4 DEF HoldersOK, TypeOK
  <2>6. ShutdownOK'
    BY <2>1 DEF ShutdownOK, Busy, Grant, PoolOpen
  <2>7. QED
    BY <2>2, <2>3, <2>5, <2>6
<1>10. QED
  BY <1>4, <1>8, <1>9

LEMMA StepAnswer ==
  ASSUME Inv, NEW p \in Processes, Answer(p)
  PROVE  Inv'
<1> USE DEF Inv
<1>1. /\ p \in running /\ running' = running \ {p}
      /\ todo' = [todo EXCEPT ![p] = Tail(@)]
      /\ phase' = phase /\ waiting' = waiting
  BY DEF Answer
<1>2. /\ todo[p] \in Seq(Operations) /\ todo[p] # <<>> /\ OneTransaction(todo[p])
      /\ Head(todo[p]) = "query" /\ ~InAcquire(p)
  BY <1>1 DEF TypeOK, OperationsOK, Busy
<1>3. /\ Tail(todo[p]) \in Seq(Operations) /\ OneTransaction(Tail(todo[p]))
      /\ ~Begins(todo[p]) => ~Begins(Tail(todo[p]))
      /\ Commits(todo[p]) <=> Commits(Tail(todo[p]))
  BY <1>2, TailOfTransaction
<1>4. /\ holder' \in [Connections -> (Processes \X Uses) \cup {None}]
      /\ \A c \in Connections : holder'[c] # None =>
           holder'[c] = holder[c] /\ holder[c] # <<p, "query">>
  BY ReleaseKeeps DEF Answer, Uses
<1>5. TypeOK'
  BY <1>1, <1>3, <1>4 DEF TypeOK
<1>6. OperationsOK'
  BY <1>1, <1>2, <1>3 DEF OperationsOK, TypeOK, Busy, Distinct, InAcquire
<1>7. \A q \in Processes, u \in Uses : <<q, u>> # None
  BY NoneAssumption DEF Processes, Uses
<1>8. HoldersOK'
  BY <1>1, <1>3, <1>4, <1>7 DEF HoldersOK, TypeOK, Uses
<1>9. ShutdownOK'
  BY <1>1, <1>2, <1>4 DEF ShutdownOK, TypeOK, Busy, Free, Processes
<1>10. QED
  BY <1>5, <1>6, <1>8, <1>9

LEMMA StepCommit ==
  ASSUME Inv, NEW p \in Processes, Commit(p)
  PROVE  Inv'
<1> USE DEF Inv
<1>1. /\ Busy(p) /\ Head(todo[p]) = "commit"
      /\ todo' = [todo EXCEPT ![p] = Tail(@)]
      /\ phase' = phase /\ waiting' = waiting /\ running' = running
  BY DEF Commit
<1>2. /\ todo[p] \in Seq(Operations) /\ todo[p] # <<>> /\ OneTransaction(todo[p])
      /\ p \notin running /\ ~InAcquire(p)
  BY <1>1 DEF TypeOK, OperationsOK, Busy
<1>3. Tail(todo[p]) \in Seq(Operations) /\ OneTransaction(Tail(todo[p]))
  BY <1>2, TailOfTransaction
<1>4. /\ holder' \in [Connections -> (Processes \X Uses) \cup {None}]
      /\ \A c \in Connections : holder'[c] # None =>
           holder'[c] = holder[c] /\ holder[c] # <<p, "tx">>
  BY ReleaseKeeps DEF Commit, Uses
<1>5. TypeOK'
  BY <1>1, <1>3, <1>4 DEF TypeOK
<1>6. OperationsOK'
  BY <1>1, <1>2, <1>3 DEF OperationsOK, TypeOK, Busy, Distinct, InAcquire
<1>7. \A q \in Processes, u \in Uses : <<q, u>> # None
  BY NoneAssumption DEF Processes, Uses
<1>8. HoldersOK'
  BY <1>1, <1>4, <1>7 DEF HoldersOK, TypeOK, Uses
<1>9. ShutdownOK'
  BY <1>1, <1>4 DEF ShutdownOK, TypeOK, Busy, Free, Processes
<1>10. QED
  BY <1>5, <1>6, <1>8, <1>9

LEMMA StepAbort ==
  ASSUME Inv, NEW p \in Processes, Abort(p)
  PROVE  Inv'
<1> USE DEF Inv
<1>1. /\ todo' = [todo EXCEPT ![p] = <<>>]
      /\ running' = running \ {p} /\ phase' = phase
  BY DEF Abort
<1>2. /\ waiting' \in Seq(Processes) /\ Distinct'
      /\ \A q \in Processes : InAcquire(q)' <=> (InAcquire(q) /\ q # p)
  BY LeavesQueueKeeps DEF Abort, TypeOK, OperationsOK
<1>3. /\ holder' \in [Connections -> (Processes \X Uses) \cup {None}]
      /\ \A c \in Connections : holder'[c] # None =>
           holder'[c] = holder[c] /\ holder[c] \notin {p} \X Uses
  BY ReleaseKeeps DEF Abort
<1>4. TypeOK'
  BY <1>1, <1>2, <1>3 DEF TypeOK
<1>5. OperationsOK'
  BY <1>1, <1>2 DEF OperationsOK, TypeOK, Busy, OneTransaction
<1>6. \A q \in Processes, u \in Uses : <<q, u>> # None
  BY NoneAssumption DEF Processes, Uses
<1>7. HoldersOK'
  <2>1. ASSUME NEW c \in Connections, NEW q \in Processes, NEW u \in Uses,
               holder'[c] = <<q, u>>
        PROVE  q # p /\ holder[c] = <<q, u>>
    BY <1>3, <1>6, <2>1
  <2>2. \A q \in Processes \ {p} : todo'[q] = todo[q] /\ (q \in running => q \in running')
    BY <1>1 DEF TypeOK
  <2>3. \A c, d \in Connections : holder'[c] = holder'[d] /\ holder'[c] # None => c = d
    BY <1>3 DEF HoldersOK
  <2>4. QED
    BY <2>1, <2>2, <2>3 DEF HoldersOK, Uses
<1>8. ShutdownOK'
  BY <1>1, <1>3 DEF ShutdownOK, TypeOK, Busy, Free, Processes
<1>9. QED
  BY <1>4, <1>5, <1>7, <1>8

LEMMA StepServeFails ==
  ASSUME Inv, ServeFails
  PROVE  Inv'
<1> USE DEF ServeFails
<1>1. \A p \in Processes : todo'[p] = <<>>
  OBVIOUS
<1>2. TypeOK'
  BY DEF TypeOK
<1>3. OperationsOK'
  BY <1>1 DEF OperationsOK, OneTransaction, Distinct, InAcquire
<1>4. \A p \in Processes, u \in Uses : <<p, u>> # None
  BY NoneAssumption DEF Processes, Uses
<1>5. HoldersOK'
  BY <1>4 DEF HoldersOK, Uses
<1>6. ShutdownOK'
  BY <1>1 DEF ShutdownOK, Busy, Free, Processes
<1>7. QED
  BY <1>2, <1>3, <1>5, <1>6 DEF Inv

LEMMA InvNext == Inv /\ [Next]_vars => Inv'
<1> SUFFICES ASSUME Inv, [Next]_vars PROVE Inv'
  OBVIOUS
<1>1. ASSUME NEW p \in Calls, NEW ops \in Handlers, Begin(p, ops) PROVE Inv'
  BY <1>1, StepBegin DEF Processes
<1>2. ASSUME NEW p \in Loops, NEW ops \in TickerLoops, Begin(p, ops)
      PROVE  Inv'
  BY <1>2, StepBegin DEF Processes
<1>3. ASSUME NEW p \in Processes, Work(p) \/ Abort(p) PROVE Inv'
  BY <1>3, StepAcquire, StepAnswer, StepCommit, StepAbort DEF Work
<1>4. ASSUME NEW p \in Loops, LoopCancelled(p) PROVE Inv'
  BY <1>4, StepAbort DEF LoopCancelled, Processes
<1>5. CASE SomeGrant
  BY <1>5, StepGrant DEF SomeGrant
<1>6. CASE Interrupt \/ ServeReturns \/ Close \/ UNCHANGED vars
  BY <1>6 DEF Interrupt, ServeReturns, Close, vars, Inv, TypeOK, OperationsOK,
              HoldersOK, ShutdownOK, Busy, Distinct, InAcquire, Free
<1>7. CASE ServeFails
  BY <1>7, StepServeFails
<1>8. QED
  BY <1>1, <1>2, <1>3, <1>4, <1>5, <1>6, <1>7 DEF Next

LEMMA Invariance == Spec => []Inv
BY InvInit, InvNext, PTL DEF Spec

-----------------------------------------------------------------------------
(* Theorems *)

\* A process has each connection for a use of its own.
LEMMA UsesOfConnections ==
  ASSUME Inv, NEW c \in Connections, holder[c] # None
  PROVE  \E p \in Processes, u \in Uses : holder[c] = <<p, u>> /\ Busy(p)
<1>1. PICK p \in Processes, u \in Uses : holder[c] = <<p, u>>
  BY DEF Inv, TypeOK
<1>2. CASE u = "query"
  BY <1>1, <1>2 DEF Inv, HoldersOK, OperationsOK
<1>3. CASE u = "tx"
  BY <1>1, <1>3 DEF Inv, HoldersOK, Commits, Busy
<1>4. QED
  BY <1>1, <1>2, <1>3 DEF Uses

\* Whatever the size of the pool and the number of handlers, the engine comes
\* to a stop in one way only: when every connection is that of a transaction
\* whose handler, or scan, is in Acquire for a second connection (a query
\* through p.db between BeginTx and Commit, history.go:37-43).
THEOREM StandstillsAreExhaustion == Spec => []StandstillIsExhaustion
<1>1. Inv => StandstillIsExhaustion
  <2> SUFFICES ASSUME Inv, Standstill, NEW c \in Connections
               PROVE  \E p \in Processes : /\ holder[c] = <<p, "tx">> /\ InAcquire(p)
                                           /\ Head(todo[p]) = "query"
    BY DEF StandstillIsExhaustion
  <2>1. holder[c] # None
    BY DEF Standstill, Free
  <2>2. PICK p \in Processes, u \in Uses : holder[c] = <<p, u>> /\ Busy(p)
    BY <2>1, UsesOfConnections
  <2>3. InAcquire(p)
    BY <2>2 DEF Standstill
  <2>4. p \notin running /\ Head(todo[p]) \in {"begin", "query"}
    BY <2>3 DEF Inv, OperationsOK
  <2>5. u = "tx"
    BY <2>2, <2>4 DEF Inv, HoldersOK, Uses
  <2>6. ~Begins(todo[p])
    BY <2>2, <2>5 DEF Inv, HoldersOK
  <2>7. Head(todo[p]) # "begin"
    <3>1. todo[p] \in Seq(Operations) /\ todo[p] # <<>>
      BY <2>2 DEF Inv, TypeOK, Busy
    <3>2. 1 \in DOMAIN todo[p] /\ Head(todo[p]) = todo[p][1]
      BY <3>1
    <3>3. QED
      BY <2>6, <3>2 DEF Begins
  <2>8. QED
    BY <2>2, <2>3, <2>4, <2>5, <2>7
<1>2. QED
  BY <1>1, Invariance, PTL

\* Whichever way a handler ends, it has given back what it took from the
\* pool (defer tx.Rollback and defer rows.Close), and no handler ever has
\* more than two connections.
THEOREM ConnectionsComeBack == Spec => []NothingLeaks
<1>1. Inv => NothingLeaks
  <2> SUFFICES ASSUME Inv, NEW p \in Processes
               PROVE  LET held == {c \in Connections : holder[c] \in {p} \X Uses} IN
                      /\ ~Busy(p) => held = {}
                      /\ Cardinality(held) <= 2
    BY DEF NothingLeaks
  <2> DEFINE held == {c \in Connections : holder[c] \in {p} \X Uses}
             use == [c \in held |-> holder[c][2]]
  <2>1. ASSUME NEW c \in held PROVE holder[c] = <<p, use[c]>> /\ use[c] \in Uses
    OBVIOUS
  <2>2. \A u \in Uses : <<p, u>> # None
    BY NoneAssumption DEF Processes, Uses
  <2>3. ~Busy(p) => held = {}
    BY <2>1, <2>2, UsesOfConnections
  <2>4. use \in [held -> Uses]
    BY <2>1
  <2>5. \A c, d \in held : use[c] = use[d] => c = d
    BY <2>1, <2>2 DEF Inv, HoldersOK
  <2>6. use \in Injection(held, Uses)
    BY <2>4, <2>5 DEF Injection, IsInjective
  <2> HIDE DEF use, held
  <2>7. IsFiniteSet(Uses) /\ Cardinality(Uses) = 2
    <3>1. IsFiniteSet({"tx"}) /\ Cardinality({"tx"}) = 1
      BY FS_Singleton
    <3>2. IsFiniteSet({"tx"} \cup {"query"}) /\ Cardinality({"tx"} \cup {"query"}) = 2
      BY <3>1, FS_AddElement
    <3>3. Uses = {"tx"} \cup {"query"}
      BY DEF Uses
    <3>4. QED
      BY <3>2, <3>3
  <2>8. Cardinality(held) <= 2
    BY <2>6, <2>7, FS_Injection
  <2>9. QED
    BY <2>3, <2>8 DEF held
<1>2. QED
  BY <1>1, Invariance, PTL

=============================================================================
