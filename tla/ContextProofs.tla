--------------------------- MODULE ContextProofs ---------------------------
(***************************************************************************)
(* Theorems about WorkflowContext: the counters of a replay come to what   *)
(* the function and the history determine, a replay stops where they say,  *)
(* what the history has already is not commanded again, and, until an      *)
(* event comes to be read before an earlier one like it, a replay resumes  *)
(* where the last one stopped and a closed run is one whose function ended *)
(* that way.                                                               *)
(***************************************************************************)
EXTENDS WorkflowContext, FiniteSetTheorems, SequenceTheorems, WellFoundedInduction, TLAPS

-----------------------------------------------------------------------------
(* Counting calls *)

\* How many of the first n calls of f are of this kind.
Like(c, op, name) == c.op = op /\ (op = "Receive" => c.name = name)

Number(f, op, name, n) == Cardinality({j \in 1..n : Like(f[j], op, name)})

LEMMA Least ==
  ASSUME NEW S \in SUBSET Nat, S # {}
  PROVE  \E n \in S : \A m \in S : n <= m
<1> DEFINE Lt == OpToRel(<, Nat)
<1>1. \A m, n \in Nat : <<m, n>> \in Lt <=> m < n
  BY DEF OpToRel
<1> HIDE DEF Lt
<1>2. IsWellFoundedOn(Lt, Nat)
  BY NatLessThanWellFounded DEF Lt
<1>3. PICK n \in S : \A m \in S : ~(<<m, n>> \in Lt)
  BY <1>2, WFMin
<1>4. ASSUME NEW m \in S PROVE n <= m
  <2>1. m \in Nat /\ n \in Nat /\ ~(m < n)
    BY <1>1, <1>3
  <2>2. QED
    BY <2>1
<1>5. QED
  BY <1>4

LEMMA MinLeast ==
  ASSUME NEW S \in SUBSET Nat, S # {}
  PROVE  Min(S) \in S /\ \A m \in S : Min(S) <= m
BY Least DEF Min

LEMMA MinIs ==
  ASSUME NEW S \in SUBSET Nat, NEW n \in S, \A m \in S : n <= m
  PROVE  Min(S) = n
<1>1. Min(S) \in S /\ \A m \in S : Min(S) <= m
  BY MinLeast
<1>2. Min(S) \in Nat /\ n \in Nat /\ Min(S) <= n /\ n <= Min(S)
  BY <1>1
<1>3. QED
  BY <1>2

LEMMA FiniteBelow ==
  ASSUME NEW n \in Int, NEW S \in SUBSET (1..n)
  PROVE  IsFiniteSet(S) /\ Cardinality(S) \in Nat
<1>1. IsFiniteSet(1..n)
  BY FS_Interval
<1>2. QED
  BY <1>1, FS_Subset, FS_CardinalityType

LEMMA NumberNext ==
  ASSUME NEW f, NEW op, NEW name, NEW n \in Nat
  PROVE  /\ Number(f, op, name, n) \in Nat
         /\ Number(f, op, name, 0) = 0
         /\ Number(f, op, name, n + 1) =
              Number(f, op, name, n) + (IF Like(f[n + 1], op, name) THEN 1 ELSE 0)
<1> DEFINE P(m) == {j \in 1..m : Like(f[j], op, name)}
<1>1. \A m \in Nat : IsFiniteSet(P(m)) /\ Cardinality(P(m)) \in Nat
  <2> SUFFICES ASSUME NEW m \in Nat PROVE IsFiniteSet(P(m)) /\ Cardinality(P(m)) \in Nat
    OBVIOUS
  <2>1. m \in Int /\ P(m) \in SUBSET (1..m)
    OBVIOUS
  <2> HIDE DEF P
  <2>2. QED
    BY ONLY <2>1, FiniteBelow
<1>2. P(0) = {}
  OBVIOUS
<1>3. CASE Like(f[n + 1], op, name)
  <2>1. P(n + 1) = P(n) \cup {n + 1} /\ n + 1 \notin P(n)
    BY <1>3
  <2> HIDE DEF P
  <2>2. Cardinality(P(n + 1)) = Cardinality(P(n)) + 1
    BY <1>1, <2>1, FS_AddElement
  <2>3. QED
    BY <1>1, <1>2, <1>3, <2>2, FS_EmptySet DEF Number, P
<1>4. CASE ~Like(f[n + 1], op, name)
  <2>1. P(n + 1) = P(n)
    BY <1>4
  <2> HIDE DEF P
  <2>2. Cardinality(P(n)) \in Nat /\ Cardinality(P(0)) = 0
    BY <1>1, <1>2, FS_EmptySet
  <2>3. QED
    BY <1>4, <2>1, <2>2 DEF Number, P
<1>5. QED
  BY <1>3, <1>4

LEMMA NumberGrows ==
  ASSUME NEW f, NEW op, NEW name, NEW m \in Nat, NEW n \in Nat, m <= n
  PROVE  Number(f, op, name, m) <= Number(f, op, name, n)
<1> DEFINE P(k) == {j \in 1..k : Like(f[j], op, name)}
<1>1. P(m) \in SUBSET P(n) /\ P(n) \in SUBSET (1..n) /\ n \in Int
  OBVIOUS
<1> HIDE DEF P
<1>2. IsFiniteSet(P(n))
  BY ONLY <1>1, FiniteBelow
<1>3. QED
  BY <1>1, <1>2, FS_Subset DEF Number, P

\* Before counts the calls of the same kind.
LEMMA BeforeIs ==
  ASSUME NEW f, NEW i
  PROVE  Before(f, i) = Number(f, f[i].op, f[i].name, i - 1)
BY DEF Before, Number, Like

LEMMA BeforeApart ==
  ASSUME NEW f, NEW i \in Nat \ {0}, NEW j \in Nat \ {0},
         f[i].op = f[j].op, f[i].op = "Receive" => f[i].name = f[j].name
  PROVE  /\ Before(f, i) \in Nat
         /\ i < j => Before(f, i) < Before(f, j)
         /\ Before(f, i) = Before(f, j) => i = j
<1> DEFINE op == f[i].op
           B(k) == Number(f, op, f[i].name, k)
<1>1. \A k \in Nat : Number(f, op, f[j].name, k) = B(k)
  BY DEF Number, Like
<1>2. Before(f, i) = B(i - 1) /\ Before(f, j) = B(j - 1)
  BY <1>1, BeforeIs
<1>3. \A k \in Nat : B(k) \in Nat
  BY NumberNext
<1>4. B(i) = B(i - 1) + 1 /\ B(j) = B(j - 1) + 1
  <2>1. Like(f[i], op, f[i].name) /\ Like(f[j], op, f[i].name)
    BY DEF Like
  <2>2. i - 1 \in Nat /\ i - 1 + 1 = i /\ j - 1 \in Nat /\ j - 1 + 1 = j
    OBVIOUS
  <2> HIDE DEF op
  <2>3. QED
    BY <2>1, <2>2, NumberNext
<1>5. \A k, l \in Nat : k <= l => B(k) <= B(l)
  BY NumberGrows
<1> HIDE DEF B, op
<1>6. i < j => B(i) <= B(j - 1)
  BY <1>5
<1>7. j < i => B(j) <= B(i - 1)
  BY <1>5
<1>8. QED
  BY <1>2, <1>3, <1>4, <1>6, <1>7

-----------------------------------------------------------------------------
(* Sequences *)

LEMMA SeqOfFunction ==
  ASSUME NEW S, NEW n \in Nat, NEW f \in [1..n -> S]
  PROVE  f \in Seq(S) /\ Len(f) = n
BY SeqDef

\* e is at position at of t, between the elements of s.
Between(t, s, at, e) ==
  /\ Len(t) = Len(s) + 1
  /\ \A k \in 1..(Len(s) + 1) :
       t[k] = IF k < at THEN s[k] ELSE IF k = at THEN e ELSE s[k - 1]

\* An event comes to be read between others, which keep their order.
LEMMA InsertedAt ==
  ASSUME NEW S, NEW s \in Seq(S), NEW at \in 1..(Len(s) + 1), NEW e \in S
  PROVE  InsertAt(s, at, e) \in Seq(S) /\ Between(InsertAt(s, at, e), s, at, e)
<1> DEFINE n == Len(s)
           a == SubSeq(s, 1, at - 1)
           b == SubSeq(s, at, n)
           c == a \o <<e>>
<1>1. n \in Nat /\ at \in Int /\ \A i \in 1..n : s[i] \in S
  BY LenProperties, ElementOfSeq
<1>2. /\ a \in Seq(S) /\ Len(a) = at - 1 /\ \A i \in 1..(at - 1) : a[i] = s[i]
  <2>1. /\ a \in Seq(S) /\ Len(a) = IF 1 <= at - 1 THEN at - 1 - 1 + 1 ELSE 0
        /\ \A i \in 1..(at - 1 - 1 + 1) : a[i] = s[1 + i - 1]
    BY <1>1, SubSeqProperties
  <2>2. (IF 1 <= at - 1 THEN at - 1 - 1 + 1 ELSE 0) = at - 1
    BY <1>1
  <2> HIDE DEF a
  <2>3. QED
    BY <1>1, <2>1, <2>2
<1>3. /\ b \in Seq(S) /\ Len(b) = n - at + 1 /\ \A i \in 1..(n - at + 1) : b[i] = s[at + i - 1]
  <2>1. /\ b \in Seq(S) /\ Len(b) = IF at <= n THEN n - at + 1 ELSE 0
        /\ \A i \in 1..(n - at + 1) : b[i] = s[at + i - 1]
    BY <1>1, SubSeqProperties
  <2> HIDE DEF b
  <2>2. QED
    BY <1>1, <2>1
<1>4. <<e>> \in Seq(S) /\ Len(<<e>>) = 1 /\ <<e>>[1] = e
  OBVIOUS
<1> HIDE DEF a, b
<1>5. /\ c \in Seq(S) /\ Len(c) = at
      /\ \A i \in 1..at : c[i] = IF i < at THEN s[i] ELSE e
  <2>1. PICK d : d = <<e>>
    OBVIOUS
  <2>2. /\ c \in Seq(S) /\ Len(c) = Len(a) + Len(d)
        /\ \A i \in 1..(Len(a) + Len(d)) : c[i] = IF i <= Len(a) THEN a[i] ELSE d[i - Len(a)]
    BY <1>2, <1>4, <2>1, ConcatProperties
  <2> HIDE DEF c
  <2>3. Len(a) = at - 1 /\ Len(d) = 1 /\ d[1] = e /\ at \in Nat
    BY <1>1, <1>2, <1>4, <2>1
  <2>4. Len(c) = at /\ \A i \in 1..at : c[i] = IF i <= at - 1 THEN a[i] ELSE d[i - (at - 1)]
    BY <2>2, <2>3
  <2>5. ASSUME NEW i \in 1..at PROVE c[i] = IF i < at THEN s[i] ELSE e
    <3>1. CASE i < at
      BY ONLY <1>2, <2>3, <2>4, <3>1, <2>5
    <3>2. CASE i = at
      <4>1. ~(i <= at - 1) /\ i - (at - 1) = 1 /\ ~(i < at)
        BY ONLY <2>3, <3>2
      <4>2. c[i] = d[i - (at - 1)]
        BY ONLY <2>4, <2>5, <4>1
      <4>3. QED
        BY ONLY <2>3, <4>1, <4>2
    <3>3. QED
      BY ONLY <2>3, <3>1, <3>2, <2>5
  <2>6. QED
    BY ONLY <2>2, <2>4, <2>5
<1> HIDE DEF c
<1>6. /\ c \o b \in Seq(S) /\ Len(c \o b) = Len(c) + Len(b)
      /\ \A i \in 1..(Len(c) + Len(b)) : (c \o b)[i] = IF i <= Len(c) THEN c[i] ELSE b[i - Len(c)]
  BY <1>3, <1>5, ConcatProperties
<1>7. InsertAt(s, at, e) = c \o b
  BY DEF InsertAt, a, b, c
<1> DEFINE t == c \o b
<1> HIDE DEF t, n
<1>8. ASSUME NEW k \in 1..(n + 1)
      PROVE  t[k] = IF k < at THEN s[k] ELSE IF k = at THEN e ELSE s[k - 1]
  <2>1. k \in 1..(Len(c) + Len(b)) /\ at \in 1..(n + 1)
    BY <1>1, <1>3, <1>5 DEF n
  <2>2. CASE k <= at
    <3>1. t[k] = c[k]
      BY <1>5, <1>6, <2>1, <2>2 DEF t
    <3>2. QED
      BY <1>1, <1>5, <2>1, <2>2, <3>1
  <2>3. CASE ~(k <= at)
    <3>1. t[k] = b[k - at]
      BY <1>5, <1>6, <2>1, <2>3 DEF t
    <3>2. k - at \in 1..(n - at + 1) /\ at + (k - at) - 1 = k - 1
      BY <1>1, <2>1, <2>3
    <3>3. b[k - at] = s[k - 1]
      BY <1>3, <3>2
    <3>4. QED
      BY <1>1, <2>1, <2>3, <3>1, <3>3
  <2>4. QED
    BY <2>2, <2>3
<1>9. QED
  <2>1. t \in Seq(S) /\ Len(t) = n + 1
    BY <1>1, <1>3, <1>5, <1>6 DEF t
  <2>2. Between(t, s, at, e)
    BY <1>8, <2>1 DEF Between, n
  <2>3. QED
    BY <1>7, <2>1, <2>2 DEF t

-----------------------------------------------------------------------------
(* The counters *)

CountersOK ==
  state = "running" =>
    /\ activityCallCount = Number(fn, "Execute", "", pc - 1)
    /\ timerCallCount = Number(fn, "Sleep", "", pc - 1)
    /\ \A n \in Names : signalConsumed[n] = Number(fn, "Receive", n, pc - 1)

FuturesOK ==
  state = "running" =>
    /\ Len(futures) = activityCallCount
    /\ \A j \in 1..(pc - 1) : fn[j].op = "Execute" =>
         futures[Before(fn, j) + 1] = [activityName |-> fn[j].name, callIndex |-> Before(fn, j)]

CountInv == TypeOK /\ CountersOK /\ FuturesOK

\* What the function's calls are.
LEMMA FunctionCalls ==
  ASSUME TypeOK
  PROVE  /\ WellFormed(fn) /\ Len(fn) \in Nat /\ DOMAIN fn = 1..Len(fn)
         /\ pc \in Nat \ {0} /\ pc - 1 \in Nat
         /\ \A i \in DOMAIN fn :
              /\ fn[i] \in Call
              /\ fn[i].op \in {"Execute", "Receive"} => fn[i].name \in Names
<1>1. fn \in Functions /\ pc \in 1..(Len(fn) + 1)
  BY DEF TypeOK
<1>2. WellFormed(fn) /\ fn \in Seq(Call)
  BY <1>1, FunctionsAssumption DEF WellFormed
<1>3. Len(fn) \in Nat /\ DOMAIN fn = 1..Len(fn)
  BY <1>2, LenProperties
<1>4. \A i \in DOMAIN fn : fn[i] \in Call
  BY <1>2, <1>3, ElementOfSeq
<1>5. \A i \in DOMAIN fn : fn[i].op \in {"Execute", "Receive"} => fn[i].name \in Names
  BY <1>2 DEF WellFormed
<1>6. pc \in Nat \ {0} /\ pc - 1 \in Nat
  BY <1>1, <1>3
<1>7. QED
  BY <1>2, <1>3, <1>4, <1>5, <1>6

\* Each counter says which call the function makes, and its loop over the
\* history looks where Replay does.
LEMMA CallFacts ==
  ASSUME CountInv, state = "running", pc \in DOMAIN fn
  PROVE  /\ Before(fn, pc) \in Nat
         /\ fn[pc].op = "Execute" => activityCallCount = Before(fn, pc)
         /\ fn[pc].op = "Sleep" => timerCallCount = Before(fn, pc)
         /\ fn[pc].op = "Receive" =>
              /\ signalConsumed[fn[pc].name] = Before(fn, pc)
              /\ Unconsumed(fn[pc].name) = Answers(fn, history, pc)
         /\ fn[pc].op = "Get" =>
              LET f == futures[fn[pc].future + 1] IN
              Outcomes(history, f.activityName, f.callIndex) = Answers(fn, history, pc)
<1>0. /\ TypeOK /\ pc - 1 \in Nat /\ WellFormed(fn) /\ DOMAIN fn = 1..Len(fn)
      /\ \A i \in DOMAIN fn : /\ fn[i] \in Call
                              /\ fn[i].op \in {"Execute", "Receive"} => fn[i].name \in Names
  BY FunctionCalls DEF CountInv
<1>1. Before(fn, pc) = Number(fn, fn[pc].op, fn[pc].name, pc - 1) /\ Before(fn, pc) \in Nat
  BY <1>0, BeforeIs, NumberNext
<1>2. \A op, n : op # "Receive" => Number(fn, op, n, pc - 1) = Number(fn, op, "", pc - 1)
  BY DEF Number, Like
<1>3. /\ fn[pc].op = "Execute" => activityCallCount = Before(fn, pc)
      /\ fn[pc].op = "Sleep" => timerCallCount = Before(fn, pc)
  BY <1>1, <1>2 DEF CountInv, CountersOK
<1>4. fn[pc].op = "Receive" => /\ signalConsumed[fn[pc].name] = Before(fn, pc)
                               /\ Unconsumed(fn[pc].name) = Answers(fn, history, pc)
  <2> SUFFICES ASSUME fn[pc].op = "Receive"
               PROVE  /\ signalConsumed[fn[pc].name] = Before(fn, pc)
                      /\ Unconsumed(fn[pc].name) = Answers(fn, history, pc)
    OBVIOUS
  <2>1. signalConsumed[fn[pc].name] = Before(fn, pc)
    BY <1>0, <1>1 DEF CountInv, CountersOK
  <2>2. QED
    BY <2>1 DEF Unconsumed, Answers
<1>5. ASSUME fn[pc].op = "Get"
      PROVE  futures[fn[pc].future + 1] =
               [activityName |-> fn[pc].name, callIndex |-> fn[pc].future]
  <2>1. PICK j \in 1..(pc - 1) : /\ fn[j].op = "Execute" /\ fn[j].name = fn[pc].name
                                 /\ fn[pc].future =
                                      Cardinality({k \in 1..(j - 1) : fn[k].op = "Execute"})
    BY <1>0, <1>5 DEF WellFormed
  <2>2. fn[pc].future = Before(fn, j)
    BY <2>1 DEF Before
  <2>3. QED
    BY <2>1, <2>2 DEF CountInv, FuturesOK
<1>6. ASSUME fn[pc].op = "Get"
      PROVE  LET f == futures[fn[pc].future + 1] IN
             Outcomes(history, f.activityName, f.callIndex) = Answers(fn, history, pc)
  BY <1>5, <1>6 DEF Answers
<1>7. QED
  BY <1>1, <1>3, <1>4, <1>6

-----------------------------------------------------------------------------
(* Each action keeps the types and the counters *)

LEMMA CountedNext ==
  ASSUME TypeOK, pc \in DOMAIN fn
  PROVE  /\ pc + 1 \in 1..(Len(fn) + 1)
         /\ pc \in Nat
         /\ \A op, n : /\ Like(fn[pc], op, n) =>
                             Number(fn, op, n, pc + 1 - 1) = Number(fn, op, n, pc - 1) + 1
                       /\ ~Like(fn[pc], op, n) =>
                             Number(fn, op, n, pc + 1 - 1) = Number(fn, op, n, pc - 1)
<1>1. pc - 1 \in Nat /\ pc - 1 + 1 = pc /\ pc + 1 - 1 = pc /\ pc + 1 \in 1..(Len(fn) + 1)
  BY FunctionCalls
<1>2. ASSUME NEW op, NEW n
      PROVE  /\ Like(fn[pc], op, n) => Number(fn, op, n, pc) = Number(fn, op, n, pc - 1) + 1
             /\ ~Like(fn[pc], op, n) => Number(fn, op, n, pc) = Number(fn, op, n, pc - 1)
  <2>1. PICK k \in Nat : k = pc - 1
    BY <1>1
  <2>2. /\ Number(fn, op, n, k) \in Nat
        /\ Number(fn, op, n, k + 1) =
             Number(fn, op, n, k) + (IF Like(fn[k + 1], op, n) THEN 1 ELSE 0)
    BY ONLY NumberNext, <2>1
  <2>3. k + 1 = pc
    BY <1>1, <2>1
  <2>4. QED
    BY <2>1, <2>2, <2>3
<1>3. QED
  BY <1>1, <1>2

LEMMA CountInit == Init => CountInv
<1> SUFFICES ASSUME Init PROVE CountInv
  OBVIOUS
<1>1. fn \in Functions /\ Len(fn) \in Nat /\ 1 \in 1..(Len(fn) + 1)
  <2>1. fn \in Functions /\ fn \in Seq(Call)
    BY FunctionsAssumption DEF Init, WellFormed
  <2>2. Len(fn) \in Nat
    BY <2>1, LenProperties
  <2>3. QED
    BY <2>1, <2>2
<1>2. Event("WorkflowStarted", "", 0, TRUE) \in HistoryEvent
  BY DEF Event, HistoryEvent
<1>3. events \in Seq(HistoryEvent)
  <2>1. PICK e \in HistoryEvent : events = <<e>>
    BY <1>2 DEF Init
  <2>2. QED
    BY <2>1
<1>4. TypeOK
  <2>1. history \in Seq(HistoryEvent) /\ commands \in Seq(WorkflowCommand)
        /\ futures \in Seq(Future)
    BY EmptySeq DEF Init
  <2>2. /\ pc \in 1..(Len(fn) + 1) /\ activityCallCount \in Nat /\ timerCallCount \in Nat
        /\ signalConsumed \in [Names -> Nat]
    BY <1>1 DEF Init
  <2>3. furthest \in [pc : Nat, state : {"idle"} \cup Ended]
    BY DEF Init
  <2>4. status = "Running" /\ state = "idle" /\ overtaken = FALSE
    BY DEF Init
  <2>5. QED
    BY <1>1, <1>3, <2>1, <2>2, <2>3, <2>4 DEF TypeOK
<1>5. QED
  BY <1>4 DEF Init, CountInv, CountersOK, FuturesOK

LEMMA CountNew == CountInv /\ New => CountInv'
<1> SUFFICES ASSUME CountInv, New PROVE CountInv'
  OBVIOUS
<1>1. TypeOK /\ Len(fn) \in Nat /\ 1 \in 1..(Len(fn) + 1)
  BY FunctionCalls DEF CountInv
<1>2. TypeOK'
  BY <1>1 DEF TypeOK, New
<1>3. \A op, n : Number(fn, op, n, 1 - 1) = 0
  BY NumberNext
<1>4. CountersOK' /\ FuturesOK'
  <2>1. 1..(1 - 1) = {}
    OBVIOUS
  <2>2. CountersOK'
    BY <1>3 DEF New, CountersOK
  <2>3. FuturesOK'
    BY <2>1 DEF New, FuturesOK
  <2>4. QED
    BY <2>2, <2>3
<1>5. QED
  BY <1>2, <1>4 DEF CountInv

LEMMA CountExecute == CountInv /\ ExecuteActivity => CountInv'
<1> SUFFICES ASSUME CountInv, ExecuteActivity PROVE CountInv'
  OBVIOUS
<1>0. TypeOK /\ state = "running" /\ pc \in DOMAIN fn /\ fn[pc].op = "Execute"
  BY DEF CountInv, ExecuteActivity, Calls
<1>1. /\ fn[pc].name \in Names /\ pc \in Nat \ {0}
      /\ activityCallCount = Before(fn, pc) /\ Before(fn, pc) \in Nat
  BY <1>0, FunctionCalls, CallFacts
<1> DEFINE new == [type |-> "ScheduleActivity", name |-> fn[pc].name, index |-> activityCallCount]
           fut == [activityName |-> fn[pc].name, callIndex |-> activityCallCount]
<1>2. new \in WorkflowCommand /\ fut \in Future
  BY <1>1 DEF WorkflowCommand, Future
<1>3. /\ commands' \in Seq(WorkflowCommand) /\ futures' \in Seq(Future)
      /\ Len(futures') = Len(futures) + 1
      /\ \A i \in 1..Len(futures) : futures'[i] = futures[i]
      /\ futures'[Len(futures) + 1] = fut
  <2>1. commands \in Seq(WorkflowCommand) /\ futures \in Seq(Future)
    BY <1>0 DEF TypeOK
  <2>2. futures' = Append(futures, fut) /\ commands' \in {commands, Append(commands, new)}
    BY DEF ExecuteActivity
  <2> HIDE DEF new, fut
  <2>3. Append(commands, new) \in Seq(WorkflowCommand)
    BY <1>2, <2>1, AppendProperties
  <2>4. /\ Append(futures, fut) \in Seq(Future)
        /\ Len(Append(futures, fut)) = Len(futures) + 1
        /\ \A i \in 1..Len(futures) : Append(futures, fut)[i] = futures[i]
        /\ Append(futures, fut)[Len(futures) + 1] = fut
    BY <1>2, <2>1, AppendProperties
  <2>5. QED
    BY <2>1, <2>2, <2>3, <2>4
<1>4. TypeOK'
  <2>1. /\ UNCHANGED <<fn, status, events, state, history, timerCallCount, signalConsumed,
                       furthest, overtaken>>
        /\ activityCallCount' = activityCallCount + 1 /\ pc' = pc + 1
    BY DEF ExecuteActivity
  <2>a. activityCallCount \in Nat /\ Len(fn) \in Nat /\ pc \in 1..Len(fn)
    BY <1>0, <1>1, FunctionCalls
  <2>2. activityCallCount' \in Nat /\ pc' \in 1..(Len(fn) + 1)
    BY ONLY <2>1, <2>a
  <2>3. QED
    BY ONLY <1>0, <1>3, <2>1, <2>2 DEF TypeOK
<1>5. CountersOK'
  <2>1. /\ activityCallCount = Number(fn, "Execute", "", pc - 1)
        /\ timerCallCount = Number(fn, "Sleep", "", pc - 1)
        /\ \A n \in Names : signalConsumed[n] = Number(fn, "Receive", n, pc - 1)
    BY <1>0 DEF CountInv, CountersOK
  <2>2. /\ Number(fn, "Execute", "", pc + 1 - 1) = activityCallCount + 1
        /\ Number(fn, "Sleep", "", pc + 1 - 1) = timerCallCount
        /\ \A n \in Names : Number(fn, "Receive", n, pc + 1 - 1) = signalConsumed[n]
    <3>1. /\ Like(fn[pc], "Execute", "") /\ ~Like(fn[pc], "Sleep", "")
          /\ \A n : ~Like(fn[pc], "Receive", n)
      BY <1>0 DEF Like
    <3>2. \A op, n : /\ Like(fn[pc], op, n) =>
                           Number(fn, op, n, pc + 1 - 1) = Number(fn, op, n, pc - 1) + 1
                     /\ ~Like(fn[pc], op, n) =>
                           Number(fn, op, n, pc + 1 - 1) = Number(fn, op, n, pc - 1)
      BY <1>0, CountedNext
    <3>3. Number(fn, "Execute", "", pc + 1 - 1) = activityCallCount + 1
      BY ONLY <2>1, <3>1, <3>2
    <3>4. Number(fn, "Sleep", "", pc + 1 - 1) = timerCallCount
      BY ONLY <2>1, <3>1, <3>2
    <3>5. ASSUME NEW n \in Names PROVE Number(fn, "Receive", n, pc + 1 - 1) = signalConsumed[n]
      BY ONLY <2>1, <3>1, <3>2
    <3>6. QED
      BY ONLY <3>3, <3>4, <3>5
  <2>3. /\ activityCallCount' = activityCallCount + 1 /\ pc' - 1 = pc + 1 - 1
        /\ UNCHANGED <<fn, timerCallCount, signalConsumed>>
    BY <1>1 DEF ExecuteActivity
  <2>4. activityCallCount' = Number(fn', "Execute", "", pc' - 1)
    BY ONLY <2>2, <2>3
  <2>5. timerCallCount' = Number(fn', "Sleep", "", pc' - 1)
    BY ONLY <2>2, <2>3
  <2>6. \A n \in Names : signalConsumed'[n] = Number(fn', "Receive", n, pc' - 1)
    BY ONLY <2>2, <2>3
  <2>7. QED
    BY ONLY <2>4, <2>5, <2>6 DEF CountersOK
<1>6. FuturesOK'
  <2>1. Len(futures) = activityCallCount /\ pc' = pc + 1 /\ fn' = fn
        /\ activityCallCount' = activityCallCount + 1
    BY <1>0 DEF CountInv, FuturesOK, ExecuteActivity
  <2>2. ASSUME NEW j \in 1..pc, fn[j].op = "Execute"
        PROVE  futures'[Before(fn, j) + 1] = [activityName |-> fn[j].name, callIndex |-> Before(fn, j)]
    <3>1. CASE j = pc
      BY <1>1, <1>3, <2>1, <3>1
    <3>2. CASE j < pc
      <4>1. Before(fn, j) \in Nat /\ Before(fn, j) < Before(fn, pc)
        BY <1>0, <1>1, <2>2, <3>2, BeforeApart
      <4>2. Before(fn, j) + 1 \in 1..Len(futures)
        BY <1>1, <2>1, <4>1
      <4>3. futures[Before(fn, j) + 1] = [activityName |-> fn[j].name, callIndex |-> Before(fn, j)]
        <5>1. j \in 1..(pc - 1)
          BY <1>1, <3>2
        <5>2. FuturesOK /\ state = "running"
          BY <1>0 DEF CountInv
        <5>3. QED
          BY ONLY <2>2, <5>1, <5>2 DEF FuturesOK
      <4>4. QED
        BY <1>3, <4>2, <4>3
    <3>3. QED
      BY <1>1, <2>2, <3>1, <3>2
  <2>3. pc + 1 - 1 = pc /\ pc' - 1 = pc
    BY <1>1, <2>1
  <2>4. Len(futures') = activityCallCount'
    BY <1>3, <2>1
  <2>5. \A j \in 1..(pc' - 1) : fn'[j].op = "Execute" =>
          futures'[Before(fn', j) + 1] =
            [activityName |-> fn'[j].name, callIndex |-> Before(fn', j)]
    BY <2>1, <2>2, <2>3
  <2>6. QED
    BY <2>4, <2>5 DEF FuturesOK
<1>7. QED
  BY <1>4, <1>5, <1>6 DEF CountInv

\* A call that answers moves the function by one, and counts what it counts.
LEMMA CountAnswered ==
  ASSUME CountInv, state = "running", pc \in DOMAIN fn, fn[pc].op # "Execute",
         UNCHANGED <<fn, futures, activityCallCount>>,
         pc' = pc + 1 \/ state' # "running",
         timerCallCount' = timerCallCount + (IF fn[pc].op = "Sleep" THEN 1 ELSE 0),
         signalConsumed' = [n \in Names |-> signalConsumed[n] +
                              (IF fn[pc].op = "Receive" /\ fn[pc].name = n THEN 1 ELSE 0)]
           \/ state' # "running"
  PROVE  CountersOK' /\ FuturesOK'
<1>0. TypeOK
  BY DEF CountInv
<1>1. CASE state' # "running"
  BY <1>1 DEF CountersOK, FuturesOK
<1>2. CASE state' = "running"
  <2>1. /\ pc' = pc + 1
        /\ signalConsumed' = [n \in Names |-> signalConsumed[n] +
                              (IF fn[pc].op = "Receive" /\ fn[pc].name = n THEN 1 ELSE 0)]
    BY <1>2
  <2>2. /\ pc \in Nat
        /\ \A op, n : /\ Like(fn[pc], op, n) =>
                            Number(fn, op, n, pc + 1 - 1) = Number(fn, op, n, pc - 1) + 1
                      /\ ~Like(fn[pc], op, n) =>
                            Number(fn, op, n, pc + 1 - 1) = Number(fn, op, n, pc - 1)
    BY <1>0, CountedNext
  <2>3. /\ activityCallCount = Number(fn, "Execute", "", pc - 1)
        /\ timerCallCount = Number(fn, "Sleep", "", pc - 1)
        /\ \A n \in Names : signalConsumed[n] = Number(fn, "Receive", n, pc - 1)
    BY DEF CountInv, CountersOK
  <2>4. activityCallCount' = Number(fn, "Execute", "", pc + 1 - 1)
    <3>1. ~Like(fn[pc], "Execute", "") /\ activityCallCount' = activityCallCount
      BY DEF Like
    <3>2. QED
      BY ONLY <2>2, <2>3, <3>1
  <2>5. timerCallCount' = Number(fn, "Sleep", "", pc + 1 - 1)
    <3>1. CASE fn[pc].op = "Sleep"
      <4>1. Like(fn[pc], "Sleep", "") /\ timerCallCount' = timerCallCount + 1
        BY <3>1 DEF Like
      <4>2. QED
        BY ONLY <2>2, <2>3, <4>1
    <3>2. CASE fn[pc].op # "Sleep"
      <4>1. ~Like(fn[pc], "Sleep", "") /\ timerCallCount' = timerCallCount
        BY <1>0, <3>2 DEF Like, TypeOK
      <4>2. QED
        BY ONLY <2>2, <2>3, <4>1
    <3>3. QED
      BY <3>1, <3>2
  <2>6. ASSUME NEW n \in Names PROVE signalConsumed'[n] = Number(fn, "Receive", n, pc + 1 - 1)
    <3>1. signalConsumed'[n] = signalConsumed[n] +
            (IF Like(fn[pc], "Receive", n) THEN 1 ELSE 0)
      BY <2>1 DEF Like
    <3>2. signalConsumed[n] = Number(fn, "Receive", n, pc - 1) /\ signalConsumed[n] \in Nat
      BY <1>0, <2>3 DEF TypeOK
    <3>3. CASE Like(fn[pc], "Receive", n)
      <4>1. Number(fn, "Receive", n, pc + 1 - 1) = Number(fn, "Receive", n, pc - 1) + 1
        BY ONLY <2>2, <3>3
      <4>2. QED
        BY ONLY <3>1, <3>2, <3>3, <4>1
    <3>4. CASE ~Like(fn[pc], "Receive", n)
      <4>1. Number(fn, "Receive", n, pc + 1 - 1) = Number(fn, "Receive", n, pc - 1)
        BY ONLY <2>2, <3>4
      <4>2. QED
        BY ONLY <3>1, <3>2, <3>4, <4>1
    <3>5. QED
      BY <3>3, <3>4
  <2>7. CountersOK'
    <3>1. fn' = fn /\ pc' - 1 = pc + 1 - 1
      BY <2>1, <2>2
    <3>2. activityCallCount' = Number(fn', "Execute", "", pc' - 1)
      BY ONLY <2>4, <3>1
    <3>3. timerCallCount' = Number(fn', "Sleep", "", pc' - 1)
      BY ONLY <2>5, <3>1
    <3>4. \A n \in Names : signalConsumed'[n] = Number(fn', "Receive", n, pc' - 1)
      BY ONLY <2>6, <3>1
    <3>5. QED
      BY ONLY <3>2, <3>3, <3>4 DEF CountersOK
  <2>8. pc \in Nat \ {0} /\ \A j \in 1..(pc + 1 - 1) : j \in 1..(pc - 1) \/ j = pc
    BY <1>0, FunctionCalls
  <2>9. FuturesOK'
    BY <2>1, <2>8 DEF CountInv, FuturesOK
  <2>10. QED
    BY <2>7, <2>9
<1>3. QED
  BY <1>1, <1>2

LEMMA CountReturns ==
  ASSUME TypeOK, pc \in DOMAIN fn, state = "running", NEW e, Returns(e)
  PROVE  /\ (pc' = pc + 1 /\ state' = "running") \/ (pc' = pc /\ state' = "failed")
         /\ pc' \in 1..(Len(fn) + 1) /\ state' \in {"running", "failed"}
<1>1. (pc' = pc + 1 /\ state' = "running") \/ (pc' = pc /\ state' = "failed")
  BY DEF Returns
<1>2. QED
  BY <1>1, CountedNext DEF TypeOK

LEMMA CountGet == CountInv /\ Get => CountInv'
<1> SUFFICES ASSUME CountInv, Get PROVE CountInv'
  OBVIOUS
<1>0. TypeOK /\ state = "running" /\ pc \in DOMAIN fn /\ fn[pc].op = "Get"
  BY DEF CountInv, Get, Calls
<1>1. UNCHANGED <<fn, status, events, history, commands, activityCallCount,
                  timerCallCount, signalConsumed, futures, furthest, overtaken>>
  BY DEF Get
<1>2. Pause \/ \E e : Returns(e)
  BY DEF Get
<1>3. CASE Pause
  <2>1. TypeOK'
    BY <1>0, <1>1, <1>3 DEF TypeOK, Pause, Ended
  <2>2. CountersOK' /\ FuturesOK'
    BY <1>3 DEF Pause, CountersOK, FuturesOK
  <2>3. QED
    BY <2>1, <2>2 DEF CountInv
<1>4. ASSUME NEW e, Returns(e) PROVE CountInv'
  <2>1. /\ (pc' = pc + 1 /\ state' = "running") \/ (pc' = pc /\ state' = "failed")
        /\ pc' \in 1..(Len(fn) + 1) /\ state' \in {"running", "failed"}
    BY <1>0, <1>4, CountReturns
  <2>2. TypeOK'
    BY <1>0, <1>1, <2>1 DEF TypeOK, Ended
  <2>3. pc' = pc + 1 \/ state' # "running"
    BY <2>1
  <2>4. timerCallCount' = timerCallCount + (IF fn[pc].op = "Sleep" THEN 1 ELSE 0)
    BY <1>0, <1>1 DEF TypeOK
  <2>5. signalConsumed' = [n \in Names |-> signalConsumed[n] +
                             (IF fn[pc].op = "Receive" /\ fn[pc].name = n THEN 1 ELSE 0)]
    BY <1>0, <1>1 DEF TypeOK
  <2>6. CountersOK' /\ FuturesOK'
    BY <1>0, <1>1, <2>3, <2>4, <2>5, CountAnswered
  <2>7. QED
    BY <2>2, <2>6 DEF CountInv
<1>5. QED
  BY <1>2, <1>3, <1>4

LEMMA CountSleep == CountInv /\ Sleep => CountInv'
<1> SUFFICES ASSUME CountInv, Sleep PROVE CountInv'
  OBVIOUS
<1>0. TypeOK /\ state = "running" /\ pc \in DOMAIN fn /\ fn[pc].op = "Sleep"
  BY DEF CountInv, Sleep, Calls
<1>1. /\ UNCHANGED <<fn, status, events, history, activityCallCount,
                     signalConsumed, futures, furthest, overtaken>>
      /\ timerCallCount' = timerCallCount + 1
  BY DEF Sleep
<1>2. (pc' = pc + 1 /\ state' = state) \/ Pause
  BY DEF Sleep
<1>3. /\ (pc' = pc + 1 /\ state' = "running") \/ (pc' = pc /\ state' = "paused")
      /\ pc' \in 1..(Len(fn) + 1)
  BY <1>0, <1>2, CountedNext DEF Pause, TypeOK
<1>4. commands' \in Seq(WorkflowCommand)
  <2> DEFINE new == [type |-> "StartTimer", name |-> "", index |-> timerCallCount]
  <2>1. new \in WorkflowCommand /\ commands \in Seq(WorkflowCommand)
    BY <1>0 DEF TypeOK, WorkflowCommand
  <2>2. commands' \in {commands, Append(commands, new)}
    BY DEF Sleep
  <2> HIDE DEF new
  <2>3. Append(commands, new) \in Seq(WorkflowCommand)
    BY <2>1, AppendProperties
  <2>4. QED
    BY <2>1, <2>2, <2>3
<1>5. TypeOK'
  BY <1>0, <1>1, <1>3, <1>4 DEF TypeOK, Ended
<1>6. pc' = pc + 1 \/ state' # "running"
  BY <1>3
<1>7. signalConsumed' = [n \in Names |-> signalConsumed[n] +
                           (IF fn[pc].op = "Receive" /\ fn[pc].name = n THEN 1 ELSE 0)]
  BY <1>0, <1>1 DEF TypeOK
<1>8. timerCallCount' = timerCallCount + (IF fn[pc].op = "Sleep" THEN 1 ELSE 0)
  BY <1>0, <1>1
<1>9. CountersOK' /\ FuturesOK'
  BY <1>0, <1>1, <1>6, <1>7, <1>8, CountAnswered
<1>10. QED
  BY <1>5, <1>9 DEF CountInv

LEMMA CountReceive == CountInv /\ ReceiveSignal => CountInv'
<1> SUFFICES ASSUME CountInv, ReceiveSignal PROVE CountInv'
  OBVIOUS
<1>0. TypeOK /\ state = "running" /\ pc \in DOMAIN fn /\ fn[pc].op = "Receive"
  BY DEF CountInv, ReceiveSignal, Calls
<1>1. UNCHANGED <<fn, status, events, history, commands, activityCallCount,
                  timerCallCount, futures, furthest, overtaken>>
  BY DEF ReceiveSignal
<1> DEFINE name == fn[pc].name
<1>2. \/ Pause /\ UNCHANGED signalConsumed
      \/ /\ \E e : Returns(e)
         /\ signalConsumed' = [signalConsumed EXCEPT ![name] = @ + 1]
  BY DEF ReceiveSignal
<1>3. CASE Pause /\ UNCHANGED signalConsumed
  <2>1. TypeOK'
    BY <1>0, <1>1, <1>3 DEF TypeOK, Pause, Ended
  <2>2. CountersOK' /\ FuturesOK'
    BY <1>3 DEF Pause, CountersOK, FuturesOK
  <2>3. QED
    BY <2>1, <2>2 DEF CountInv
<1>4. ASSUME NEW e, Returns(e), signalConsumed' = [signalConsumed EXCEPT ![name] = @ + 1]
      PROVE  CountInv'
  <2>1. /\ (pc' = pc + 1 /\ state' = "running") \/ (pc' = pc /\ state' = "failed")
        /\ pc' \in 1..(Len(fn) + 1) /\ state' \in {"running", "failed"}
    BY <1>0, <1>4, CountReturns
  <2>2. name \in Names /\ signalConsumed \in [Names -> Nat]
    BY <1>0, FunctionCalls DEF TypeOK
  <2>3. signalConsumed' \in [Names -> Nat]
    BY <1>4, <2>2
  <2>4. TypeOK'
    BY <1>0, <1>1, <2>1, <2>3 DEF TypeOK, Ended
  <2>5. pc' = pc + 1 \/ state' # "running"
    BY <2>1
  <2>6. timerCallCount' = timerCallCount + (IF fn[pc].op = "Sleep" THEN 1 ELSE 0)
    BY <1>0, <1>1 DEF TypeOK
  <2>7. signalConsumed' = [n \in Names |-> signalConsumed[n] +
                             (IF fn[pc].op = "Receive" /\ fn[pc].name = n THEN 1 ELSE 0)]
    <3>1. \A n \in Names : signalConsumed[n] \in Nat
      BY <2>2
    <3>2. \A n \in Names : signalConsumed'[n] = signalConsumed[n] +
                             (IF fn[pc].op = "Receive" /\ fn[pc].name = n THEN 1 ELSE 0)
      BY <1>0, <1>4, <2>2, <3>1
    <3>3. QED
      BY <2>3, <3>2
  <2>8. CountersOK' /\ FuturesOK'
    BY <1>0, <1>1, <2>5, <2>6, <2>7, CountAnswered
  <2>9. QED
    BY <2>4, <2>8 DEF CountInv
<1>5. QED
  BY <1>2, <1>3, <1>4

LEMMA RecordedAs ==
  /\ Recorded["ScheduleActivity"] = "ActivityScheduled"
  /\ Recorded["StartTimer"] = "TimerStarted"
  /\ Recorded["CompleteWorkflow"] = "WorkflowCompleted"
  /\ Recorded["FailWorkflow"] = "WorkflowFailed"
BY DEF Recorded

\* What the engine records of an answer.
LEMMA Recordings ==
  ASSUME NEW cmds \in Seq(WorkflowCommand)
  PROVE  /\ EventsOfCommands(cmds) \in Seq(HistoryEvent)
         /\ Len(EventsOfCommands(cmds)) = Len(cmds)
         /\ \A i \in 1..Len(cmds) :
              /\ cmds[i] \in WorkflowCommand
              /\ EventsOfCommands(cmds)[i].type = Recorded[cmds[i].type]
              /\ EventsOfCommands(cmds)[i].name = cmds[i].name
              /\ EventsOfCommands(cmds)[i].index = cmds[i].index
<1> DEFINE n == Len(cmds)
           ev(i) == Event(Recorded[cmds[i].type], cmds[i].name, cmds[i].index, TRUE)
           f == [i \in 1..n |-> ev(i)]
<1>1. n \in Nat /\ \A i \in 1..n : cmds[i] \in WorkflowCommand
  BY LenProperties, ElementOfSeq
<1>2. ASSUME NEW i \in 1..n
      PROVE  /\ ev(i) \in HistoryEvent /\ ev(i).type = Recorded[cmds[i].type]
             /\ ev(i).name = cmds[i].name /\ ev(i).index = cmds[i].index
  <2>1. /\ cmds[i].type \in {"ScheduleActivity", "StartTimer", "CompleteWorkflow", "FailWorkflow"}
        /\ cmds[i].name \in Names \cup {""} /\ cmds[i].index \in Nat
    BY <1>1 DEF WorkflowCommand
  <2>2. PICK T : T = Recorded[cmds[i].type]
    OBVIOUS
  <2>3. T \in {"ActivityScheduled", "TimerStarted", "WorkflowCompleted", "WorkflowFailed"}
    BY <2>1, <2>2, RecordedAs
  <2>4. QED
    BY <2>1, <2>2, <2>3 DEF Event, HistoryEvent, ClosingTypes
<1>3. f = EventsOfCommands(cmds)
  BY DEF EventsOfCommands
<1> HIDE DEF n, ev
<1>4. f \in [1..n -> HistoryEvent]
  BY <1>2
<1>5. f \in Seq(HistoryEvent) /\ Len(f) = n
  <2> HIDE DEF f
  <2>1. QED
    BY <1>1, <1>4, SeqOfFunction
<1>6. \A i \in 1..n : f[i] = ev(i)
  OBVIOUS
<1> HIDE DEF f
<1>7. QED
  BY <1>1, <1>2, <1>3, <1>5, <1>6 DEF n

LEMMA AnswerType ==
  ASSUME TypeOK
  PROVE  commands \o Closing \in Seq(WorkflowCommand)
<1>1. Closing \in Seq(WorkflowCommand)
  <2>1. CASE state = "returned"
    <3>1. PICK c \in WorkflowCommand : c = [type |-> "CompleteWorkflow", name |-> "", index |-> 0]
      BY DEF WorkflowCommand
    <3>2. Closing = <<c>>
      BY <2>1, <3>1 DEF Closing
    <3>3. QED
      BY <3>2
  <2>2. CASE state = "failed"
    <3>1. PICK c \in WorkflowCommand : c = [type |-> "FailWorkflow", name |-> "", index |-> 0]
      BY DEF WorkflowCommand
    <3>2. Closing = <<c>>
      BY <2>2, <3>1 DEF Closing
    <3>3. QED
      BY <3>2
  <2>3. CASE state \notin {"returned", "failed"}
    <3>1. Closing = <<>>
      BY <2>3 DEF Closing
    <3>2. QED
      BY <3>1, EmptySeq
  <2>4. QED
    BY <2>1, <2>2, <2>3
<1>2. commands \in Seq(WorkflowCommand)
  BY DEF TypeOK
<1>3. QED
  BY ONLY <1>1, <1>2, ConcatProperties

LEMMA CountEnds == CountInv /\ (Return \/ Respond \/ Crash) => CountInv'
<1> SUFFICES ASSUME CountInv, Return \/ Respond \/ Crash PROVE CountInv'
  OBVIOUS
<1>1. TypeOK
  BY DEF CountInv
<1>2. state' # "running" /\ UNCHANGED <<fn, context, overtaken>>
  BY DEF Return, Respond, Crash
<1>3. CountersOK' /\ FuturesOK'
  BY <1>2 DEF CountersOK, FuturesOK
<1>4. status' \in {"Running", "Completed", "Failed"} /\ state' \in {"idle", "running"} \cup Ended
  BY <1>1 DEF Return, Respond, Crash, TypeOK, StatusAfterwards, Ended
<1>5. events' \in Seq(HistoryEvent)
  <2>1. events \in Seq(HistoryEvent)
    BY <1>1 DEF TypeOK
  <2>2. PICK new \in Seq(HistoryEvent) : new = EventsOfCommands(commands \o Closing)
    BY <1>1, AnswerType, Recordings
  <2>3. events' \in {events, events \o new}
    BY <2>2 DEF Return, Respond, Crash
  <2>4. events \o new \in Seq(HistoryEvent)
    BY <2>1, <2>2, ConcatProperties
  <2>5. QED
    BY <2>1, <2>3, <2>4
<1>6. furthest' \in [pc : Nat, state : {"idle"} \cup Ended]
  <2>1. pc \in Nat
    BY <1>1, FunctionCalls
  <2>2. furthest \in [pc : Nat, state : {"idle"} \cup Ended]
    BY <1>1 DEF TypeOK
  <2>3. state \in Ended => Furthest \in [pc : Nat, state : {"idle"} \cup Ended]
    BY <2>1, <2>2 DEF Furthest
  <2>4. furthest' = furthest \/ (state \in Ended /\ furthest' = Furthest)
    BY DEF Return, Respond, Crash
  <2>5. QED
    BY <2>2, <2>3, <2>4
<1>7. TypeOK'
  BY <1>1, <1>2, <1>4, <1>5, <1>6 DEF TypeOK, context
<1>8. QED
  BY <1>3, <1>7 DEF CountInv

\* Something has come in: one event, and nothing else has changed.
Came(cause, e) ==
  /\ cause \in Nat /\ e \in HistoryEvent
  /\ e.type \in ArrivalTypes
  /\ e.type = "TimerFired" => ~HasTimer(events, "TimerFired", e.index)
  /\ \E at \in (cause + 1)..(Len(events) + 1) :
       /\ events' = InsertAt(events, at, e)
       /\ overtaken' = (overtaken \/ \E i \in at..Len(events) : Alike(events[i], e))
  /\ UNCHANGED <<fn, status, state, context, furthest>>

LEMMA Arrivals ==
  ASSUME TypeOK, FinishActivity \/ FireTimer \/ SignalWorkflow
  PROVE  \E cause, e : /\ Came(cause, e)
                       /\ e.type = "TimerFired" => e.good
<1>0. \A i \in DOMAIN events : events[i] \in HistoryEvent /\ i \in Nat
  <2>1. events \in Seq(HistoryEvent)
    BY DEF TypeOK
  <2>2. QED
    BY <2>1, LenProperties, ElementOfSeq
<1>1. CASE FinishActivity
  <2>1. PICK i \in DOMAIN events, type \in ActivityOutcomes, good \in BOOLEAN :
          Arrive(i, Event(type, events[i].name, events[i].index, good))
    BY <1>1 DEF FinishActivity
  <2> DEFINE e == Event(type, events[i].name, events[i].index, good)
  <2>2. e \in HistoryEvent /\ e.type \in ActivityOutcomes /\ e.type \in ArrivalTypes
    BY <1>0, <2>1 DEF Event, HistoryEvent, ArrivalTypes
  <2>3. e.type # "TimerFired"
    BY <2>2 DEF ActivityOutcomes
  <2> HIDE DEF e
  <2>4. Came(i, e)
    BY <1>0, <2>1, <2>2, <2>3 DEF Came, Arrive, e
  <2>5. QED
    BY <2>3, <2>4
<1>2. CASE FireTimer
  <2>1. PICK i \in DOMAIN events :
          /\ ~HasTimer(events, "TimerFired", events[i].index)
          /\ Arrive(i, Event("TimerFired", "", events[i].index, TRUE))
    BY <1>2 DEF FireTimer
  <2> DEFINE e == Event("TimerFired", "", events[i].index, TRUE)
  <2>2. /\ e \in HistoryEvent /\ e.type \in ArrivalTypes /\ e.good
        /\ e.index = events[i].index
    BY <1>0, <2>1 DEF Event, HistoryEvent, ArrivalTypes
  <2> HIDE DEF e
  <2>3. Came(i, e)
    BY <1>0, <2>1, <2>2 DEF Came, Arrive, e
  <2>4. QED
    BY <2>2, <2>3
<1>3. CASE SignalWorkflow
  <2>1. PICK name \in SignalNames, good \in BOOLEAN :
          Arrive(1, Event("SignalReceived", name, 0, good))
    BY <1>3 DEF SignalWorkflow
  <2> DEFINE e == Event("SignalReceived", name, 0, good)
  <2>2. name \in Names
    BY FunctionCalls DEF SignalNames
  <2>3. e \in HistoryEvent /\ e.type \in ArrivalTypes /\ e.type # "TimerFired"
    BY <2>1, <2>2 DEF Event, HistoryEvent, ArrivalTypes
  <2> HIDE DEF e
  <2>4. Came(1, e)
    BY <2>1, <2>3 DEF Came, Arrive, e
  <2>5. QED
    BY <2>3, <2>4
<1>4. QED
  BY <1>1, <1>2, <1>3

LEMMA CountArrivals ==
  CountInv /\ (FinishActivity \/ FireTimer \/ SignalWorkflow) => CountInv'
<1> SUFFICES ASSUME CountInv, FinishActivity \/ FireTimer \/ SignalWorkflow PROVE CountInv'
  OBVIOUS
<1>1. TypeOK /\ events \in Seq(HistoryEvent)
  BY DEF CountInv, TypeOK
<1>2. PICK cause, e : Came(cause, e)
  BY <1>1, Arrivals
<1>3. PICK at \in (cause + 1)..(Len(events) + 1) :
        /\ events' = InsertAt(events, at, e)
        /\ overtaken' = (overtaken \/ \E i \in at..Len(events) : Alike(events[i], e))
  BY <1>2 DEF Came
<1>4. at \in 1..(Len(events) + 1) /\ e \in HistoryEvent
  BY <1>1, <1>2, <1>3, LenProperties DEF Came
<1>5. events' \in Seq(HistoryEvent)
  BY <1>1, <1>3, <1>4, InsertedAt
<1>6. UNCHANGED <<fn, status, state, context, furthest>>
  BY <1>2 DEF Came
<1>a. overtaken' \in BOOLEAN
  BY <1>3
<1>7. TypeOK'
  BY <1>1, <1>5, <1>6, <1>a DEF TypeOK, context
<1>8. CountersOK' /\ FuturesOK'
  BY <1>6 DEF CountInv, CountersOK, FuturesOK, context
<1>9. QED
  BY <1>7, <1>8 DEF CountInv

\* The event is in the history, and the others are where they were or one
\* place further.
LEMMA CameIn ==
  ASSUME TypeOK, NEW cause, NEW e, Came(cause, e)
  PROVE  /\ UNCHANGED <<fn, status, state, history, pc, furthest>>
         /\ \E at \in 1..(Len(events) + 1) :
              /\ ~overtaken' =>
                   ~overtaken /\ \A i \in at..Len(events) : ~Alike(events[i], e)
              /\ events' \in Seq(HistoryEvent) /\ Between(events', events, at, e)
<1>1. PICK at \in (cause + 1)..(Len(events) + 1) :
        /\ events' = InsertAt(events, at, e)
        /\ overtaken' = (overtaken \/ \E i \in at..Len(events) : Alike(events[i], e))
  BY DEF Came
<1>c. ~overtaken' => ~overtaken /\ \A i \in at..Len(events) : ~Alike(events[i], e)
  BY <1>1
<1>2. events \in Seq(HistoryEvent)
  BY DEF TypeOK
<1>a. e \in HistoryEvent /\ cause \in Nat
  BY DEF Came
<1>b. e \in HistoryEvent
  BY <1>a
<1>3. at \in 1..(Len(events) + 1)
  BY <1>2, <1>a, LenProperties
<1>4. PICK new : new = InsertAt(events, at, e)
  OBVIOUS
<1>5. new \in Seq(HistoryEvent) /\ Between(new, events, at, e)
  BY ONLY <1>2, <1>b, <1>3, <1>4, InsertedAt
<1>6. UNCHANGED <<fn, status, state, history, pc, furthest>>
  BY DEF Came, context
<1>7. events' = new
  BY <1>1, <1>4
<1>8. QED
  BY ONLY <1>c, <1>3, <1>5, <1>6, <1>7

LEMMA CountStep == CountInv /\ [Next]_vars => CountInv'
<1> SUFFICES ASSUME CountInv, [Next]_vars PROVE CountInv'
  OBVIOUS
<1>1. CASE UNCHANGED vars
  BY <1>1 DEF vars, context, CountInv, TypeOK, CountersOK, FuturesOK
<1>2. CASE New
  BY <1>2, CountNew
<1>3. CASE ExecuteActivity \/ Get \/ Sleep \/ ReceiveSignal
  BY <1>3, CountExecute, CountGet, CountSleep, CountReceive
<1>4. CASE Return \/ Respond \/ Crash
  BY <1>4, CountEnds
<1>5. CASE FinishActivity \/ FireTimer \/ SignalWorkflow
  BY <1>5, CountArrivals
<1>6. QED
  BY <1>1, <1>2, <1>3, <1>4, <1>5 DEF Next

\* The variables keep their types, and the counters of a replay are the
\* numbers of the calls it has made: of ExecuteActivity, of Sleep and of
\* ReceiveSignal with each name.
THEOREM CountersCount == Spec => [](TypeOK /\ CountersOK)
<1>1. CountInv => TypeOK /\ CountersOK
  BY DEF CountInv
<1>2. QED
  BY <1>1, CountInit, CountStep, PTL DEF Spec

-----------------------------------------------------------------------------
(* Where a replay is *)

\* A timer says nothing that a function could reject.
TimersGood ==
  /\ \A i \in DOMAIN events : events[i].type = "TimerFired" => events[i].good
  /\ state # "idle" =>
       \A i \in DOMAIN history : history[i].type = "TimerFired" => history[i].good

\* The function has got past each call it has made, and it has ended as the
\* call it made last says.
ReplayedOK ==
  state # "idle" =>
    /\ \A j \in 1..(pc - 1) : GetsPast(fn, history, j)
    /\ state = "returned" => pc = Len(fn) + 1
    /\ state = "paused" =>
         /\ pc \in DOMAIN fn /\ fn[pc].op # "Execute"
         /\ Answers(fn, history, pc) = {}
    /\ state = "failed" =>
         /\ pc \in DOMAIN fn /\ fn[pc].op \in {"Get", "Receive"}
         /\ Answers(fn, history, pc) # {}
         /\ ~GoesOn(fn[pc], history[Min(Answers(fn, history, pc))])

ReplayInv == CountInv /\ TimersGood /\ ReplayedOK

\* What a call can find in a history is in that history.
LEMMA AnswersIn ==
  ASSUME NEW f, NEW h, NEW i, f[i].op \in {"Execute", "Get", "Sleep", "Receive"}
  PROVE  /\ Answers(f, h, i) \subseteq DOMAIN h
         /\ f[i].op = "Sleep" => \A j \in Answers(f, h, i) : h[j].type = "TimerFired"
         /\ f[i].op = "Sleep" =>
              (HasTimer(h, "TimerFired", Before(f, i)) <=> Answers(f, h, i) # {})
<1>1. CASE f[i].op = "Execute"
  BY <1>1 DEF Answers
<1>2. CASE f[i].op = "Get"
  BY <1>2 DEF Answers, Outcomes
<1>3. CASE f[i].op = "Sleep"
  BY <1>3 DEF Answers, HasTimer
<1>4. CASE f[i].op = "Receive"
  BY <1>4 DEF Answers, Signals
<1>5. QED
  BY <1>1, <1>2, <1>3, <1>4

LEMMA ReplayInit == Init => ReplayInv
<1> SUFFICES ASSUME Init PROVE ReplayInv
  OBVIOUS
<1>1. CountInv
  BY CountInit
<1>2. ReplayedOK
  BY DEF Init, ReplayedOK
<1>3. \A i \in DOMAIN events : events[i].type = "WorkflowStarted"
  <2>1. PICK e : e = Event("WorkflowStarted", "", 0, TRUE)
    OBVIOUS
  <2>2. events = <<e>> /\ e.type = "WorkflowStarted"
    BY <2>1 DEF Init, Event
  <2>3. QED
    BY <2>2
<1>4. TimersGood
  BY <1>3 DEF TimersGood, Init
<1>5. QED
  BY <1>1, <1>2, <1>4 DEF ReplayInv

\* A call of the function moves it on, or ends it, as Replay says.
LEMMA CallReplays ==
  ASSUME ReplayInv, ExecuteActivity \/ Get \/ Sleep \/ ReceiveSignal
  PROVE  /\ state = "running" /\ pc \in DOMAIN fn /\ UNCHANGED <<fn, events, history, status, furthest>>
         /\ \/ pc' = pc + 1 /\ state' = "running" /\ GetsPast(fn, history, pc)
            \/ /\ pc' = pc /\ state' = "paused" /\ fn[pc].op # "Execute"
               /\ Answers(fn, history, pc) = {}
            \/ /\ pc' = pc /\ state' = "failed" /\ fn[pc].op \in {"Get", "Receive"}
               /\ Answers(fn, history, pc) # {}
               /\ ~GoesOn(fn[pc], history[Min(Answers(fn, history, pc))])
<1> USE DEF ReplayInv
<1>1. CASE ExecuteActivity
  BY <1>1 DEF ExecuteActivity, Calls, GetsPast
<1>2. CASE Get
  <2>1. /\ state = "running" /\ pc \in DOMAIN fn /\ fn[pc].op = "Get"
        /\ UNCHANGED <<fn, events, history, status, furthest>>
    BY <1>2 DEF Get, Calls
  <2>2. PICK A : A = Answers(fn, history, pc)
    OBVIOUS
  <2>3. IF A = {} THEN Pause ELSE Returns(history[Min(A)])
    BY <1>2, <2>1, <2>2, CallFacts DEF Get
  <2>4. QED
    BY <2>1, <2>2, <2>3 DEF Pause, Returns, GetsPast
<1>3. CASE Sleep
  <2>1. /\ state = "running" /\ pc \in DOMAIN fn /\ fn[pc].op = "Sleep"
        /\ UNCHANGED <<fn, events, history, status, furthest>>
    BY <1>3 DEF Sleep, Calls
  <2>2. PICK A : A = Answers(fn, history, pc)
    OBVIOUS
  <2>3. timerCallCount = Before(fn, pc)
    BY <2>1, CallFacts
  <2>4. /\ A \subseteq DOMAIN history /\ \A j \in A : history[j].type = "TimerFired"
        /\ HasTimer(history, "TimerFired", timerCallCount) <=> A # {}
    BY <2>1, <2>2, <2>3, AnswersIn
  <2>5. IF A # {} THEN pc' = pc + 1 /\ state' = state ELSE Pause
    BY <1>3, <2>4 DEF Sleep
  <2>6. ASSUME A # {} PROVE GoesOn(fn[pc], history[Min(A)])
    <3>1. DOMAIN history \subseteq Nat
      <4>1. history \in Seq(HistoryEvent)
        BY DEF CountInv, TypeOK
      <4>2. QED
        BY <4>1, LenProperties
    <3>2. Min(A) \in A
      BY <2>4, <2>6, <3>1, MinLeast
    <3>3. history[Min(A)].type = "TimerFired" /\ history[Min(A)].good
      BY <2>1, <2>4, <3>2 DEF TimersGood
    <3>4. QED
      BY <3>3 DEF GoesOn
  <2>7. QED
    BY <2>1, <2>2, <2>5, <2>6 DEF Pause, GetsPast
<1>4. CASE ReceiveSignal
  <2>1. /\ state = "running" /\ pc \in DOMAIN fn /\ fn[pc].op = "Receive"
        /\ UNCHANGED <<fn, events, history, status, furthest>>
    BY <1>4 DEF ReceiveSignal, Calls
  <2>2. PICK A : A = Answers(fn, history, pc)
    OBVIOUS
  <2>3. IF A = {} THEN Pause ELSE Returns(history[Min(A)])
    BY <1>4, <2>1, <2>2, CallFacts DEF ReceiveSignal
  <2>4. QED
    BY <2>1, <2>2, <2>3 DEF Pause, Returns, GetsPast
<1>5. QED
  BY <1>1, <1>2, <1>3, <1>4

LEMMA ReplayCalls ==
  ReplayInv /\ (ExecuteActivity \/ Get \/ Sleep \/ ReceiveSignal) => ReplayInv'
<1> SUFFICES ASSUME ReplayInv, ExecuteActivity \/ Get \/ Sleep \/ ReceiveSignal PROVE ReplayInv'
  OBVIOUS
<1>1. CountInv'
  BY CountExecute, CountGet, CountSleep, CountReceive DEF ReplayInv
<1>2. /\ state = "running" /\ pc \in DOMAIN fn /\ UNCHANGED <<fn, events, history>>
      /\ \/ pc' = pc + 1 /\ state' = "running" /\ GetsPast(fn, history, pc)
         \/ /\ pc' = pc /\ state' = "paused" /\ fn[pc].op # "Execute"
            /\ Answers(fn, history, pc) = {}
         \/ /\ pc' = pc /\ state' = "failed" /\ fn[pc].op \in {"Get", "Receive"}
            /\ Answers(fn, history, pc) # {}
            /\ ~GoesOn(fn[pc], history[Min(Answers(fn, history, pc))])
  BY CallReplays
<1>3. TimersGood'
  BY <1>2 DEF ReplayInv, TimersGood
<1>4. pc \in Nat \ {0}
  BY FunctionCalls DEF ReplayInv, CountInv
<1>5. \A j \in 1..(pc - 1) : GetsPast(fn, history, j)
  BY <1>2 DEF ReplayInv, ReplayedOK
<1>6. \A j \in 1..(pc' - 1) : GetsPast(fn, history, j)
  <2>1. CASE pc' = pc
    BY <1>5, <2>1
  <2>2. CASE pc' = pc + 1 /\ GetsPast(fn, history, pc)
    <3>1. \A j \in 1..(pc' - 1) : j \in 1..(pc - 1) \/ j = pc
      BY <1>4, <2>2
    <3>2. QED
      BY <1>5, <2>2, <3>1
  <2>3. QED
    BY <1>2, <2>1, <2>2
<1>7. ReplayedOK'
  BY <1>2, <1>6 DEF ReplayedOK
<1>8. QED
  BY <1>1, <1>3, <1>7 DEF ReplayInv

\* What the engine records has nothing to do with timers that have fired.
LEMMA ReplayStep == ReplayInv /\ [Next]_vars => ReplayInv'
<1> SUFFICES ASSUME ReplayInv, [Next]_vars PROVE ReplayInv'
  OBVIOUS
<1>0. CountInv /\ CountInv' /\ TypeOK
  BY CountStep DEF ReplayInv, CountInv
<1>1. CASE UNCHANGED vars
  <2>1. UNCHANGED <<fn, events, history, state, pc>>
    BY <1>1 DEF vars, context
  <2>2. TimersGood' /\ ReplayedOK'
    BY <2>1 DEF ReplayInv, TimersGood, ReplayedOK
  <2>3. QED
    BY <1>0, <2>2 DEF ReplayInv
<1>2. CASE New
  <2>1. /\ history' = events /\ events' = events /\ fn' = fn /\ pc' = 1 /\ state' = "running"
    BY <1>2 DEF New
  <2>2. 1..(pc' - 1) = {}
    BY <2>1
  <2>3. TimersGood' /\ ReplayedOK'
    BY <2>1, <2>2 DEF ReplayInv, TimersGood, ReplayedOK
  <2>4. QED
    BY <1>0, <2>3 DEF ReplayInv
<1>3. CASE ExecuteActivity \/ Get \/ Sleep \/ ReceiveSignal
  BY <1>3, ReplayCalls
<1>4. CASE Return
  <2>1. /\ UNCHANGED <<fn, events, history, pc>> /\ state = "running"
        /\ state' = "returned" /\ pc = Len(fn) + 1
    BY <1>4 DEF Return, context
  <2>2. TimersGood' /\ ReplayedOK'
    BY <2>1 DEF ReplayInv, TimersGood, ReplayedOK
  <2>3. QED
    BY <1>0, <2>2 DEF ReplayInv
<1>5. CASE Respond \/ Crash
  <2>1. state' = "idle"
    BY <1>5 DEF Respond, Crash
  <2>2. ReplayedOK'
    BY <2>1 DEF ReplayedOK
  <2>3. PICK new \in Seq(HistoryEvent) :
          /\ new = EventsOfCommands(commands \o Closing)
          /\ \A i \in 1..Len(new) : new[i].type # "TimerFired"
    <3>1. PICK cs \in Seq(WorkflowCommand) : cs = commands \o Closing
      BY <1>0, AnswerType
    <3>2. \A i \in 1..Len(cs) : Recorded[cs[i].type] # "TimerFired"
      BY Recordings, RecordedAs DEF WorkflowCommand
    <3>3. PICK new : new = EventsOfCommands(cs)
      OBVIOUS
    <3>4. /\ new \in Seq(HistoryEvent) /\ Len(new) = Len(cs)
          /\ \A i \in 1..Len(cs) : new[i].type = Recorded[cs[i].type]
      BY ONLY <3>3, Recordings
    <3>5. \A i \in 1..Len(new) : new[i].type # "TimerFired"
      BY ONLY <3>2, <3>4
    <3>6. new = EventsOfCommands(commands \o Closing)
      BY ONLY <3>1, <3>3
    <3>7. QED
      BY ONLY <3>4, <3>5, <3>6
  <2>4. events' \in {events, events \o new}
    BY <1>5, <2>3 DEF Respond, Crash
  <2>5. events \in Seq(HistoryEvent)
    BY <1>0 DEF TypeOK
  <2>6. ASSUME NEW i \in DOMAIN events', events'[i].type = "TimerFired"
        PROVE  events'[i].good
    <3>1. CASE events' = events
      BY <2>6, <3>1 DEF ReplayInv, TimersGood
    <3>2. CASE events' = events \o new
      <4>1. i \in 1..(Len(events) + Len(new)) /\ Len(events) \in Nat /\ Len(new) \in Nat
        BY <2>3, <2>5, <2>6, <3>2, ConcatProperties, LenProperties
      <4>2. events'[i] = IF i <= Len(events) THEN events[i] ELSE new[i - Len(events)]
        BY <2>3, <2>5, <3>2, <4>1, ConcatProperties
      <4>3. CASE i <= Len(events)
        BY <2>5, <2>6, <4>1, <4>2, <4>3, LenProperties DEF ReplayInv, TimersGood
      <4>4. CASE ~(i <= Len(events))
        BY <2>3, <2>6, <4>1, <4>2, <4>4
      <4>5. QED
        BY <4>3, <4>4
    <3>3. QED
      BY <2>4, <3>1, <3>2
  <2>7. TimersGood'
    BY <2>1, <2>6 DEF TimersGood
  <2>8. QED
    BY <1>0, <2>2, <2>7 DEF ReplayInv
<1>6. CASE FinishActivity \/ FireTimer \/ SignalWorkflow
  <2>1. PICK cause, e : Came(cause, e) /\ (e.type = "TimerFired" => e.good)
    BY <1>0, <1>6, Arrivals
  <2>2. UNCHANGED <<fn, state, history, pc>>
    BY <1>0, <2>1, CameIn
  <2>3. events \in Seq(HistoryEvent) /\ Len(events) \in Nat
    BY <1>0, LenProperties DEF TypeOK
  <2>a. PICK at \in 1..(Len(events) + 1) :
          events' \in Seq(HistoryEvent) /\ Between(events', events, at, e)
    BY <1>0, <2>1, CameIn
  <2>4. /\ events' \in Seq(HistoryEvent) /\ Len(events') = Len(events) + 1
        /\ \A k \in 1..(Len(events) + 1) :
             events'[k] = IF k < at THEN events[k] ELSE IF k = at THEN e ELSE events[k - 1]
    BY <2>a DEF Between
  <2>5. ASSUME NEW i \in DOMAIN events', events'[i].type = "TimerFired"
        PROVE  events'[i].good
    <3>1. i \in 1..(Len(events) + 1)
      BY <2>4, LenProperties
    <3>2. \A j \in 1..Len(events) : events[j].type = "TimerFired" => events[j].good
      BY <2>3, LenProperties DEF ReplayInv, TimersGood
    <3>3. CASE i < at
      BY <2>3, <2>4, <2>5, <3>1, <3>2, <3>3
    <3>4. CASE i = at
      BY <2>1, <2>3, <2>4, <2>5, <3>1, <3>4
    <3>5. CASE i > at
      BY <2>3, <2>4, <2>5, <3>1, <3>2, <3>5
    <3>6. QED
      BY <2>3, <3>1, <3>3, <3>4, <3>5
  <2>6. TimersGood' /\ ReplayedOK'
    BY <2>2, <2>5 DEF ReplayInv, TimersGood, ReplayedOK
  <2>7. QED
    BY <1>0, <2>6 DEF ReplayInv
<1>7. QED
  BY <1>1, <1>2, <1>3, <1>4, <1>5, <1>6 DEF Next

\* A replay that has ended is where Replay says.
LEMMA StopsWhere ==
  ASSUME ReplayInv, state \in Ended
  PROVE  /\ StopsAt(fn, history) = pc
         /\ Pauses(fn, history) <=> state = "paused"
         /\ state = "returned" <=> pc = Len(fn) + 1
<1> DEFINE S == {i \in DOMAIN fn : ~GetsPast(fn, history, i)} \cup {Len(fn) + 1}
<1>1. /\ Len(fn) \in Nat /\ DOMAIN fn = 1..Len(fn) /\ pc \in Nat \ {0}
      /\ pc \in 1..(Len(fn) + 1)
  BY FunctionCalls DEF ReplayInv, CountInv, TypeOK
<1>2. S \in SUBSET Nat
  BY <1>1
<1>3. /\ \A j \in 1..(pc - 1) : GetsPast(fn, history, j)
      /\ state = "returned" => pc = Len(fn) + 1
      /\ state = "paused" => /\ pc \in DOMAIN fn /\ Answers(fn, history, pc) = {}
                             /\ fn[pc].op # "Execute"
      /\ state = "failed" => /\ pc \in DOMAIN fn /\ Answers(fn, history, pc) # {}
                             /\ ~GetsPast(fn, history, pc)
  BY DEF ReplayInv, ReplayedOK, Ended, GetsPast
<1>4. state = "paused" => ~GetsPast(fn, history, pc)
  BY <1>3 DEF GetsPast
<1>5. pc \in S
  BY <1>3, <1>4 DEF Ended
<1>6. \A m \in S : pc <= m
  BY <1>1, <1>3
<1> HIDE DEF S
<1>7. Min(S) = pc
  BY <1>2, <1>5, <1>6, MinIs
<1>8. StopsAt(fn, history) = pc
  BY <1>7 DEF StopsAt, S
<1>9. Pauses(fn, history) <=> state = "paused"
  BY <1>1, <1>3, <1>8 DEF Pauses, Ended
<1>10. state = "returned" <=> pc = Len(fn) + 1
  BY <1>1, <1>3 DEF Ended
<1>11. QED
  BY <1>8, <1>9, <1>10

-----------------------------------------------------------------------------
(* The commands of a replay *)

\* How many elements of S come before i.
Rank(S, i) == Cardinality({j \in S : j < i})

\* cs are the commands of the calls S of f, in their order.
Ranked(f, cs, S) ==
  /\ Len(cs) = Cardinality(S)
  /\ \A n \in 1..Len(cs) : \E i \in S : Rank(S, i) = n - 1 /\ cs[n] = CommandOf(f, i)

LEMMA RankApart ==
  ASSUME NEW m \in Int, NEW S \in SUBSET (1..m), NEW i \in S, NEW j \in S,
         Rank(S, i) = Rank(S, j)
  PROVE  i = j
<1> DEFINE L(k) == {l \in S : l < k}
<1>1. \A k \in S : k \in Int /\ k \notin L(k)
  OBVIOUS
<1>2. \A k \in S : IsFiniteSet(L(k)) /\ Cardinality(L(k)) \in Nat
  <2> SUFFICES ASSUME NEW k \in S PROVE IsFiniteSet(L(k)) /\ Cardinality(L(k)) \in Nat
    OBVIOUS
  <2>1. m \in Int /\ L(k) \in SUBSET (1..m)
    OBVIOUS
  <2> HIDE DEF L
  <2>2. QED
    BY ONLY <2>1, FiniteBelow
<1>3. ASSUME NEW k \in S, NEW l \in S, k < l PROVE Cardinality(L(k)) < Cardinality(L(l))
  <2>1. L(k) \subseteq L(l) /\ L(k) # L(l)
    <3>1. \A x \in S : x < k => x < l
      BY <1>1, <1>3
    <3>2. k \in L(l) /\ k \notin L(k)
      BY <1>1, <1>3
    <3>3. L(k) \subseteq L(l)
      BY <3>1
    <3>4. QED
      BY ONLY <3>2, <3>3
  <2> HIDE DEF L
  <2>2. Cardinality(L(k)) <= Cardinality(L(l)) /\ Cardinality(L(k)) # Cardinality(L(l))
    BY <1>2, <2>1, FS_Subset
  <2>3. QED
    BY <1>2, <2>2
<1>4. Cardinality(L(i)) = Cardinality(L(j))
  BY DEF Rank
<1> HIDE DEF L
<1>5. QED
  BY <1>1, <1>2, <1>3, <1>4

LEMMA RankedNone == \A f : Ranked(f, <<>>, {})
BY FS_EmptySet DEF Ranked

\* The command of a later call goes to the end.
LEMMA RankedAppend ==
  ASSUME NEW f, NEW T, NEW cs \in Seq(T), NEW m \in Nat \ {0}, NEW S \in SUBSET (1..(m - 1)),
         Ranked(f, cs, S), CommandOf(f, m) \in T
  PROVE  Ranked(f, Append(cs, CommandOf(f, m)), S \cup {m})
<1> DEFINE c == CommandOf(f, m)
           R == S \cup {m}
<1>1. m \notin S /\ \A i \in S : i \in Int /\ i < m
  OBVIOUS
<1>2. IsFiniteSet(S) /\ Cardinality(S) \in Nat
  <2>1. m - 1 \in Int
    OBVIOUS
  <2>2. QED
    BY <2>1, FiniteBelow
<1>3. Cardinality(R) = Cardinality(S) + 1
  BY <1>1, <1>2, FS_AddElement
<1>4. {j \in R : j < m} = S
  <2>1. \A j \in R : j < m <=> j \in S
    BY <1>1
  <2>2. S \subseteq R
    OBVIOUS
  <2>3. QED
    BY ONLY <2>1, <2>2
<1>5. \A i \in S : {j \in R : j < i} = {j \in S : j < i}
  BY <1>1
<1> HIDE DEF R
<1>6. Rank(R, m) = Cardinality(S) /\ \A i \in S : Rank(R, i) = Rank(S, i)
  BY <1>4, <1>5 DEF Rank
<1>7. Len(cs) = Cardinality(S)
  BY DEF Ranked
<1>8. /\ Len(Append(cs, c)) = Len(cs) + 1
      /\ \A n \in 1..Len(cs) : Append(cs, c)[n] = cs[n]
      /\ Append(cs, c)[Len(cs) + 1] = c
  <2> HIDE DEF c
  <2>1. c \in T
    BY DEF c
  <2>2. QED
    BY <2>1, AppendProperties
<1>9. PICK d : d = Append(cs, c)
  OBVIOUS
<1> DEFINE N == Len(cs)
<1>10. N \in Nat /\ Len(d) = N + 1
  BY <1>2, <1>7, <1>8, <1>9
<1>11. ASSUME NEW n \in 1..(N + 1)
       PROVE  \E i \in R : Rank(R, i) = n - 1 /\ d[n] = CommandOf(f, i)
  <2>1. CASE n \in 1..N
    <3>1. PICK i \in S : Rank(S, i) = n - 1 /\ cs[n] = CommandOf(f, i)
      BY <2>1 DEF Ranked
    <3>2. Rank(R, i) = n - 1 /\ d[n] = CommandOf(f, i)
      BY <1>6, <1>8, <1>9, <2>1, <3>1
    <3>3. i \in R
      BY DEF R
    <3>4. QED
      BY <3>2, <3>3
  <2>2. CASE n = N + 1
    <3>1. Rank(R, m) = n - 1
      BY <1>6, <1>7, <1>10, <2>2
    <3>2. d[n] = CommandOf(f, m)
      BY <1>8, <1>9, <2>2
    <3>3. m \in R
      BY DEF R
    <3>4. QED
      BY <3>1, <3>2, <3>3
  <2>3. QED
    BY <1>10, <2>1, <2>2
<1>12. Len(d) = Cardinality(R)
  BY <1>3, <1>7, <1>10
<1>13. Ranked(f, d, R)
  BY <1>10, <1>11, <1>12 DEF Ranked
<1>14. QED
  BY <1>9, <1>13 DEF R

\* The calls that have left a command so far.
Issued ==
  {i \in DOMAIN fn :
     \/ /\ fn[i].op = "Execute" /\ i < pc
        /\ ~IsScheduled(history, fn[i].name, Before(fn, i))
     \/ /\ fn[i].op = "Sleep" /\ i = pc /\ state = "paused"
        /\ ~HasTimer(history, "TimerStarted", Before(fn, i))}

CommandsOK == state # "idle" => Ranked(fn, commands, Issued)

CommandInv == ReplayInv /\ CommandsOK

LEMMA CommandInit == Init => CommandInv
BY ReplayInit DEF CommandInv, CommandsOK, Init

LEMMA CommandExecute == CommandInv /\ ExecuteActivity => CommandsOK'
<1> SUFFICES ASSUME CommandInv, ExecuteActivity PROVE CommandsOK'
  OBVIOUS
<1>0. /\ CountInv /\ TypeOK /\ state = "running" /\ pc \in DOMAIN fn /\ fn[pc].op = "Execute"
      /\ Ranked(fn, commands, Issued)
  BY DEF CommandInv, ReplayInv, CountInv, CommandsOK, ExecuteActivity, Calls
<1>1. /\ DOMAIN fn = 1..Len(fn) /\ pc \in Nat \ {0} /\ Len(fn) \in Nat
      /\ activityCallCount = Before(fn, pc) /\ Before(fn, pc) \in Nat /\ fn[pc].name \in Names
  BY <1>0, FunctionCalls, CallFacts
<1> DEFINE new == ~IsScheduled(history, fn[pc].name, Before(fn, pc))
           c == [type |-> "ScheduleActivity", name |-> fn[pc].name, index |-> Before(fn, pc)]
<1>2. /\ pc' = pc + 1 /\ UNCHANGED <<fn, history, state>>
      /\ commands' = IF new THEN Append(commands, c) ELSE commands
  BY <1>1 DEF ExecuteActivity
<1>3. c = CommandOf(fn, pc) /\ c \in WorkflowCommand
  BY <1>0, <1>1 DEF CommandOf, WorkflowCommand
<1>4. Issued' = IF new THEN Issued \cup {pc} ELSE Issued
  BY <1>0, <1>1, <1>2 DEF Issued
<1>5. Issued \in SUBSET (1..(pc - 1))
  BY <1>0, <1>1 DEF Issued
<1>6. PICK I : I = Issued
  OBVIOUS
<1>7. PICK cs \in Seq(WorkflowCommand) : cs = commands
  BY <1>0 DEF TypeOK
<1> HIDE DEF c
<1>8. Ranked(fn, Append(cs, CommandOf(fn, pc)), I \cup {pc})
  <2>1. pc \in Nat \ {0}
    BY <1>1
  <2>2. I \in SUBSET (1..(pc - 1))
    BY <1>5, <1>6
  <2>3. Ranked(fn, cs, I)
    BY <1>0, <1>6, <1>7
  <2>4. CommandOf(fn, pc) \in WorkflowCommand
    BY <1>3
  <2>5. QED
    BY ONLY <2>1, <2>2, <2>3, <2>4, RankedAppend
<1>9. Ranked(fn, commands', Issued')
  <2>1. CASE new
    <3>1. commands' = Append(cs, CommandOf(fn, pc)) /\ Issued' = I \cup {pc}
      BY <1>2, <1>3, <1>4, <1>6, <1>7, <2>1
    <3>2. QED
      BY <1>8, <3>1
  <2>2. CASE ~new
    <3>1. commands' = commands /\ Issued' = Issued
      BY <1>2, <1>4, <2>2
    <3>2. QED
      BY <1>0, <3>1
  <2>3. QED
    BY <2>1, <2>2
<1>10. fn' = fn
  BY <1>2
<1>11. QED
  BY <1>9, <1>10 DEF CommandsOK

LEMMA CommandSleep == CommandInv /\ Sleep => CommandsOK'
<1> SUFFICES ASSUME CommandInv, Sleep PROVE CommandsOK'
  OBVIOUS
<1>0. /\ CountInv /\ TypeOK /\ state = "running" /\ pc \in DOMAIN fn /\ fn[pc].op = "Sleep"
      /\ Ranked(fn, commands, Issued)
  BY DEF CommandInv, ReplayInv, CountInv, CommandsOK, Sleep, Calls
<1>1. /\ DOMAIN fn = 1..Len(fn) /\ pc \in Nat \ {0} /\ Len(fn) \in Nat
      /\ timerCallCount = Before(fn, pc) /\ Before(fn, pc) \in Nat
  BY <1>0, FunctionCalls, CallFacts
<1> DEFINE fired == HasTimer(history, "TimerFired", Before(fn, pc))
           new == ~HasTimer(history, "TimerStarted", Before(fn, pc))
           c == [type |-> "StartTimer", name |-> "", index |-> Before(fn, pc)]
<1>2. /\ UNCHANGED <<fn, history>>
      /\ commands' = IF ~fired /\ new THEN Append(commands, c) ELSE commands
      /\ fired => pc' = pc + 1 /\ state' = "running"
      /\ ~fired => pc' = pc /\ state' = "paused"
  BY <1>0, <1>1 DEF Sleep, Pause
<1>3. c = CommandOf(fn, pc) /\ c \in WorkflowCommand
  BY <1>0, <1>1 DEF CommandOf, WorkflowCommand
<1> HIDE DEF fired
<1>4. Issued' = IF ~fired /\ new THEN Issued \cup {pc} ELSE Issued
  <2>1. CASE fired
    BY <1>0, <1>1, <1>2, <2>1 DEF Issued
  <2>2. CASE ~fired
    BY <1>0, <1>1, <1>2, <2>2 DEF Issued
  <2>3. QED
    BY <2>1, <2>2
<1>5. Issued \in SUBSET (1..(pc - 1))
  BY <1>0, <1>1 DEF Issued
<1>6. PICK I : I = Issued
  OBVIOUS
<1>7. PICK cs \in Seq(WorkflowCommand) : cs = commands
  BY <1>0 DEF TypeOK
<1> HIDE DEF c, new
<1>8. Ranked(fn, Append(cs, CommandOf(fn, pc)), I \cup {pc})
  <2>1. pc \in Nat \ {0}
    BY <1>1
  <2>2. I \in SUBSET (1..(pc - 1))
    BY <1>5, <1>6
  <2>3. Ranked(fn, cs, I)
    BY <1>0, <1>6, <1>7
  <2>4. CommandOf(fn, pc) \in WorkflowCommand
    BY <1>3
  <2>5. QED
    BY ONLY <2>1, <2>2, <2>3, <2>4, RankedAppend
<1>9. Ranked(fn, commands', Issued')
  <2>1. CASE ~fired /\ new
    <3>1. commands' = Append(cs, CommandOf(fn, pc)) /\ Issued' = I \cup {pc}
      BY <1>2, <1>3, <1>4, <1>6, <1>7, <2>1
    <3>2. QED
      BY <1>8, <3>1
  <2>2. CASE ~(~fired /\ new)
    <3>1. commands' = commands /\ Issued' = Issued
      BY <1>2, <1>4, <2>2
    <3>2. QED
      BY <1>0, <3>1
  <2>3. QED
    BY <2>1, <2>2
<1>10. fn' = fn
  BY <1>2
<1>11. QED
  BY <1>9, <1>10 DEF CommandsOK

LEMMA CommandStep == CommandInv /\ [Next]_vars => CommandInv'
<1> SUFFICES ASSUME CommandInv, [Next]_vars PROVE CommandInv'
  OBVIOUS
<1>0. ReplayInv /\ ReplayInv' /\ CountInv /\ TypeOK
  BY ReplayStep DEF CommandInv, ReplayInv, CountInv
<1>1. ASSUME UNCHANGED <<fn, history, commands, pc, state>> PROVE CommandsOK'
  BY <1>1 DEF CommandInv, CommandsOK, Issued
<1>2. CASE New
  <2>1. fn' = fn /\ commands' = <<>> /\ pc' = 1 /\ state' = "running"
    BY <1>2 DEF New
  <2>2. \A i \in DOMAIN fn : ~(i < 1)
    BY <1>0, FunctionCalls
  <2>3. Issued' = {}
    BY <2>1, <2>2 DEF Issued
  <2>4. CommandsOK'
    BY <2>1, <2>3, RankedNone DEF CommandsOK
  <2>5. QED
    BY <1>0, <2>4 DEF CommandInv
<1>3. CASE ExecuteActivity
  BY <1>0, <1>3, CommandExecute DEF CommandInv
<1>4. CASE Sleep
  BY <1>0, <1>4, CommandSleep DEF CommandInv
<1>5. CASE Get \/ ReceiveSignal
  <2>1. /\ UNCHANGED <<fn, history, commands>> /\ state = "running"
        /\ pc \in DOMAIN fn /\ fn[pc].op \notin {"Execute", "Sleep"}
    BY <1>5 DEF Get, ReceiveSignal, Calls
  <2>2. pc' = pc \/ pc' = pc + 1
    BY <1>0, <1>5, CallReplays
  <2>3. \A i \in DOMAIN fn : i \in Nat /\ pc \in Nat
    BY <1>0, FunctionCalls
  <2>4. Issued' = Issued
    <3>1. \A i \in DOMAIN fn : fn[i].op = "Execute" => (i < pc' <=> i < pc)
      BY <2>1, <2>2, <2>3
    <3>2. \A i \in DOMAIN fn : fn[i].op = "Sleep" => /\ ~(i = pc /\ state = "paused")
                                                     /\ ~(i = pc' /\ state' = "paused")
      <4>1. pc' = pc \/ state' # "paused"
        BY <1>0, <1>5, CallReplays
      <4>2. QED
        BY <2>1, <4>1
    <3>3. QED
      BY <2>1, <3>1, <3>2 DEF Issued
  <2>5. CommandsOK'
    BY <2>1, <2>4 DEF CommandInv, CommandsOK
  <2>6. QED
    BY <1>0, <2>5 DEF CommandInv
<1>6. CASE Return
  <2>1. UNCHANGED <<fn, history, commands, pc>> /\ state = "running" /\ state' = "returned"
    BY <1>6 DEF Return, context
  <2>2. Issued' = Issued
    BY <2>1 DEF Issued
  <2>3. CommandsOK'
    BY <2>1, <2>2 DEF CommandInv, CommandsOK
  <2>4. QED
    BY <1>0, <2>3 DEF CommandInv
<1>7. CASE Respond \/ Crash
  <2>1. CommandsOK'
    BY <1>7 DEF Respond, Crash, CommandsOK
  <2>2. QED
    BY <1>0, <2>1 DEF CommandInv
<1>8. CASE FinishActivity \/ FireTimer \/ SignalWorkflow
  <2>1. UNCHANGED <<fn, history, commands, pc, state>>
    BY <1>8 DEF FinishActivity, FireTimer, SignalWorkflow, Arrive, context
  <2>2. QED
    BY <1>0, <1>1, <2>1 DEF CommandInv
<1>9. CASE UNCHANGED vars
  <2>1. UNCHANGED <<fn, history, commands, pc, state>>
    BY <1>9 DEF vars, context
  <2>2. QED
    BY <1>0, <1>1, <2>1 DEF CommandInv
<1>10. QED
  BY <1>2, <1>3, <1>4, <1>5, <1>6, <1>7, <1>8, <1>9 DEF Next

\* What the counters and loops left is what Replay leaves.
LEMMA CommandsAgree == CommandInv => AgreesWithReplay
<1> SUFFICES ASSUME CommandInv, state \in Ended
             PROVE  commands \o Closing = Commands(fn, history) /\ pc = StopsAt(fn, history)
  BY DEF AgreesWithReplay
<1>0. /\ ReplayInv /\ TypeOK /\ Ranked(fn, commands, Issued)
  BY DEF CommandInv, ReplayInv, CountInv, CommandsOK, Ended
<1>1. /\ StopsAt(fn, history) = pc
      /\ Pauses(fn, history) <=> state = "paused"
      /\ state = "returned" <=> pc = Len(fn) + 1
  BY <1>0, StopsWhere
<1>2. DOMAIN fn = 1..Len(fn) /\ Len(fn) \in Nat /\ pc \in Nat
  BY <1>0, FunctionCalls
<1> DEFINE S == {i \in DOMAIN fn : Issues(fn, history, i)}
           nth(n) == CHOOSE i \in S : Cardinality({j \in S : j < i}) = n - 1
<1>3. Issued = S
  <2>1. \A i \in DOMAIN fn : fn[i].op = "Sleep" /\ i = pc => state = "paused"
    BY <1>0, <1>2 DEF ReplayInv, ReplayedOK, Ended
  <2>2. QED
    BY <1>1, <2>1 DEF Issued, Issues
<1>4. LastCommand(fn, history) = Closing
  BY <1>1 DEF LastCommand, Closing, Ended
<1>5. Commands(fn, history) =
        [n \in 1..Cardinality(S) |-> CommandOf(fn, nth(n))] \o LastCommand(fn, history)
  BY DEF Commands
<1> HIDE DEF S
<1>6. ASSUME NEW n \in 1..Len(commands) PROVE commands[n] = CommandOf(fn, nth(n))
  <2>1. PICK i \in S : Rank(S, i) = n - 1 /\ commands[n] = CommandOf(fn, i)
    BY <1>0, <1>3 DEF Ranked
  <2>2. nth(n) \in S /\ Rank(S, nth(n)) = n - 1
    BY <2>1 DEF Rank
  <2>3. S \in SUBSET (1..Len(fn)) /\ Len(fn) \in Int
    BY <1>2, <1>3 DEF Issued
  <2> HIDE DEF nth
  <2>4. nth(n) = i
    BY ONLY <2>1, <2>2, <2>3, RankApart
  <2>5. QED
    BY <2>1, <2>4
<1>7. Len(commands) = Cardinality(S) /\ commands \in Seq(WorkflowCommand)
  BY <1>0, <1>3 DEF Ranked, TypeOK
<1>8. commands = [n \in 1..Len(commands) |-> commands[n]]
  <2>1. DOMAIN commands = 1..Len(commands) /\ commands = [n \in DOMAIN commands |-> commands[n]]
    BY <1>7
  <2>2. QED
    BY <2>1
<1>9. commands = [n \in 1..Cardinality(S) |-> CommandOf(fn, nth(n))]
  <2> HIDE DEF nth
  <2>1. [n \in 1..Len(commands) |-> commands[n]] = [n \in 1..Len(commands) |-> CommandOf(fn, nth(n))]
    BY <1>6
  <2>2. QED
    BY <1>7, <1>8, <2>1
<1> HIDE DEF nth
<1>10. QED
  BY ONLY <1>1, <1>4, <1>5, <1>9

\* Replay is deterministic: what a replay that has ended commands, and where
\* it stopped, are functions of the workflow function and of the history.
THEOREM ReplaysAreDeterministic == Spec => []AgreesWithReplay
BY CommandInit, CommandStep, CommandsAgree, PTL DEF Spec

-----------------------------------------------------------------------------
(* What is in the history once *)

\* What was asked for when the history was copied is what has been asked for
\* since: only an answer asks, and it ends the replay.
Current ==
  state # "idle" =>
    /\ \A n, k : IsScheduled(events, n, k) <=> IsScheduled(history, n, k)
    /\ \A k : HasTimer(events, "TimerStarted", k) <=> HasTimer(history, "TimerStarted", k)

\* Which call asked for an activity.
AsksFor(i, e) == /\ i \in DOMAIN fn /\ fn[i].op = "Execute"
                 /\ e.name = fn[i].name /\ e.index = Before(fn, i)

Named == \A j \in DOMAIN events : events[j].type = "ActivityScheduled" =>
           \E i \in DOMAIN fn : AsksFor(i, events[j])

OnceInv == CommandInv /\ Current /\ Named /\ ScheduledOnce /\ TimersStartedOnce

Asked == {"ActivityScheduled", "TimerStarted"}

\* An event that nobody asked for leaves the others and their order.
LEMMA BetweenKeeps ==
  ASSUME NEW s \in Seq(HistoryEvent), NEW t \in Seq(HistoryEvent),
         NEW at \in 1..(Len(s) + 1), NEW e, Between(t, s, at, e)
  PROVE  /\ \A i \in DOMAIN t : e.type # t[i].type =>
              \E k \in DOMAIN s : i # at /\ k = (IF i < at THEN i ELSE i - 1) /\ t[i] = s[k]
         /\ \A k \in DOMAIN s : \E i \in DOMAIN t : t[i] = s[k]
<1>1. DOMAIN s = 1..Len(s) /\ DOMAIN t = 1..(Len(s) + 1) /\ Len(s) \in Nat
  BY LenProperties DEF Between
<1>2. \A k \in 1..(Len(s) + 1) :
        t[k] = IF k < at THEN s[k] ELSE IF k = at THEN e ELSE s[k - 1]
  BY DEF Between
<1>3. ASSUME NEW i \in DOMAIN t, e.type # t[i].type
      PROVE  \E k \in DOMAIN s : i # at /\ k = (IF i < at THEN i ELSE i - 1) /\ t[i] = s[k]
  <2>1. i # at
    BY <1>1, <1>2, <1>3
  <2>2. CASE i < at
    BY <1>1, <1>2, <2>2
  <2>3. CASE i > at
    <3>1. i - 1 \in DOMAIN s /\ t[i] = s[i - 1]
      BY <1>1, <1>2, <2>3
    <3>2. QED
      BY <1>1, <2>3, <3>1
  <2>4. QED
    BY <1>1, <2>1, <2>2, <2>3
<1>4. ASSUME NEW k \in DOMAIN s PROVE \E i \in DOMAIN t : t[i] = s[k]
  <2>1. CASE k < at
    BY <1>1, <1>2, <2>1
  <2>2. CASE ~(k < at)
    <3>1. k + 1 \in DOMAIN t /\ ~(k + 1 < at) /\ k + 1 # at /\ k + 1 - 1 = k
      BY <1>1, <2>2
    <3>2. t[k + 1] = s[k]
      BY <1>1, <1>2, <3>1
    <3>3. QED
      BY <3>1, <3>2
  <2>3. QED
    BY <2>1, <2>2
<1>5. QED
  BY <1>3, <1>4

LEMMA CommandFields ==
  ASSUME NEW f, NEW i, NEW c, c = CommandOf(f, i)
  PROVE  /\ c.type = IF f[i].op = "Execute" THEN "ScheduleActivity" ELSE "StartTimer"
         /\ f[i].op = "Execute" => c.name = f[i].name
         /\ c.index = Before(f, i)
<1>1. PICK T : T = IF f[i].op = "Execute" THEN "ScheduleActivity" ELSE "StartTimer"
  OBVIOUS
<1>2. PICK n : n = IF f[i].op = "Execute" THEN f[i].name ELSE ""
  OBVIOUS
<1>3. c = [type |-> T, name |-> n, index |-> Before(f, i)]
  BY <1>1, <1>2 DEF CommandOf
<1>4. c.type = T /\ c.name = n /\ c.index = Before(f, i)
  BY ONLY <1>3
<1>5. QED
  BY ONLY <1>1, <1>2, <1>4

\* What is recorded of an answer are the calls that asked, in their order.
LEMMA AnswerAsks ==
  ASSUME CommandInv, state \in Ended, NEW new, new = EventsOfCommands(commands \o Closing)
  PROVE  /\ new \in Seq(HistoryEvent)
         /\ \A n \in DOMAIN new : new[n].type = "ActivityScheduled" =>
              \E i \in Issued : Rank(Issued, i) = n - 1 /\ AsksFor(i, new[n])
         /\ \A n \in DOMAIN new : new[n].type = "TimerStarted" =>
              \E i \in Issued : /\ Rank(Issued, i) = n - 1 /\ fn[i].op = "Sleep"
                                /\ new[n].index = Before(fn, i)
<1>0. TypeOK /\ Ranked(fn, commands, Issued) /\ commands \in Seq(WorkflowCommand)
  BY DEF CommandInv, ReplayInv, CountInv, TypeOK, CommandsOK, Ended
<1>1. PICK cs \in Seq(WorkflowCommand) : cs = commands \o Closing
  BY <1>0, AnswerType
<1>2. /\ new \in Seq(HistoryEvent) /\ Len(new) = Len(cs)
      /\ \A i \in 1..Len(cs) : /\ cs[i] \in WorkflowCommand
                               /\ new[i].type = Recorded[cs[i].type]
                               /\ new[i].name = cs[i].name /\ new[i].index = cs[i].index
  <2>1. new = EventsOfCommands(cs)
    BY <1>1
  <2>2. QED
    BY ONLY <2>1, Recordings
<1>3. PICK cl \in Seq(WorkflowCommand) :
        /\ cl = Closing
        /\ \A i \in 1..Len(cl) : cl[i].type \in {"CompleteWorkflow", "FailWorkflow"}
  <2>1. ASSUME NEW c \in WorkflowCommand, Closing = <<c>>,
               c.type \in {"CompleteWorkflow", "FailWorkflow"}
        PROVE  \E cl \in Seq(WorkflowCommand) :
                 /\ cl = Closing
                 /\ \A i \in 1..Len(cl) : cl[i].type \in {"CompleteWorkflow", "FailWorkflow"}
    <3>1. <<c>> \in Seq(WorkflowCommand) /\ Len(<<c>>) = 1 /\ <<c>>[1] = c
      OBVIOUS
    <3>2. \A i \in 1..Len(<<c>>) : <<c>>[i] = c
      BY <3>1
    <3>3. QED
      BY <2>1, <3>1, <3>2
  <2>2. CASE state = "returned"
    <3>1. PICK c \in WorkflowCommand : c = [type |-> "CompleteWorkflow", name |-> "", index |-> 0]
      BY DEF WorkflowCommand
    <3>2. QED
      BY <2>1, <2>2, <3>1 DEF Closing
  <2>3. CASE state = "failed"
    <3>1. PICK c \in WorkflowCommand : c = [type |-> "FailWorkflow", name |-> "", index |-> 0]
      BY DEF WorkflowCommand
    <3>2. QED
      BY <2>1, <2>3, <3>1 DEF Closing
  <2>4. CASE state = "paused"
    <3>1. Closing = <<>>
      BY <2>4 DEF Closing
    <3>2. <<>> \in Seq(WorkflowCommand) /\ \A i \in 1..Len(<<>>) : FALSE
      BY EmptySeq
    <3>3. QED
      BY <3>1, <3>2
  <2>5. QED
    BY <2>2, <2>3, <2>4 DEF Ended
<1>4. /\ Len(cs) = Len(commands) + Len(cl) /\ Len(commands) \in Nat /\ Len(cl) \in Nat
      /\ \A i \in 1..(Len(commands) + Len(cl)) :
           cs[i] = IF i <= Len(commands) THEN commands[i] ELSE cl[i - Len(commands)]
  <2>1. cs = commands \o cl
    BY <1>1, <1>3
  <2>2. QED
    BY <1>0, <2>1, ConcatProperties, LenProperties
<1>5. DOMAIN new = 1..Len(cs)
  BY <1>2, LenProperties
<1>6. ASSUME NEW n \in DOMAIN new, new[n].type \in Asked
      PROVE  \E i \in Issued : /\ Rank(Issued, i) = n - 1
                               /\ cs[n] = CommandOf(fn, i)
  <2>1. cs[n].type \in {"ScheduleActivity", "StartTimer"}
    BY <1>2, <1>5, <1>6, RecordedAs DEF Asked, WorkflowCommand
  <2>2. n <= Len(commands)
    <3>1. CASE ~(n <= Len(commands))
      <4>1. n - Len(commands) \in 1..Len(cl) /\ cs[n] = cl[n - Len(commands)]
        BY <1>4, <1>5, <3>1
      <4>2. QED
        BY <1>3, <2>1, <4>1
    <3>2. QED
      BY <3>1
  <2>3. n \in 1..Len(commands) /\ cs[n] = commands[n]
    BY <1>4, <1>5, <2>2
  <2>4. QED
    BY <1>0, <2>3 DEF Ranked
<1>7. \A i \in Issued : i \in DOMAIN fn /\ fn[i].op \in {"Execute", "Sleep"}
  BY DEF Issued
<1>8. ASSUME NEW n \in DOMAIN new, new[n].type = "ActivityScheduled"
      PROVE  \E i \in Issued : Rank(Issued, i) = n - 1 /\ AsksFor(i, new[n])
  <2>1. PICK i \in Issued : Rank(Issued, i) = n - 1 /\ cs[n] = CommandOf(fn, i)
    BY <1>6, <1>8 DEF Asked
  <2>2. fn[i].op = "Execute"
    <3>1. CASE fn[i].op = "Sleep"
      <4>1. cs[n].type = "StartTimer"
        BY <2>1, <3>1, CommandFields
      <4>2. QED
        BY <1>2, <1>5, <1>8, <4>1, RecordedAs
    <3>2. QED
      BY <1>7, <3>1
  <2>3. AsksFor(i, new[n])
    BY <1>2, <1>5, <1>7, <2>1, <2>2, CommandFields DEF AsksFor
  <2>4. QED
    BY <2>1, <2>3
<1>9. ASSUME NEW n \in DOMAIN new, new[n].type = "TimerStarted"
      PROVE  \E i \in Issued : /\ Rank(Issued, i) = n - 1 /\ fn[i].op = "Sleep"
                               /\ new[n].index = Before(fn, i)
  <2>1. PICK i \in Issued : Rank(Issued, i) = n - 1 /\ cs[n] = CommandOf(fn, i)
    BY <1>6, <1>9 DEF Asked
  <2>2. fn[i].op = "Sleep"
    <3>1. CASE fn[i].op = "Execute"
      <4>1. cs[n].type = "ScheduleActivity"
        BY <2>1, <3>1, CommandFields
      <4>2. QED
        BY <1>2, <1>5, <1>9, <4>1, RecordedAs
    <3>2. QED
      BY <1>7, <3>1
  <2>3. new[n].index = Before(fn, i)
    BY <1>2, <1>5, <2>1, CommandFields
  <2>4. QED
    BY <2>1, <2>2, <2>3
<1>10. QED
  BY <1>2, <1>8, <1>9

LEMMA Concatenated ==
  ASSUME NEW S, NEW s \in Seq(S), NEW new \in Seq(S), NEW t, t = s \o new
  PROVE  /\ \A i \in DOMAIN s : i \in DOMAIN t /\ t[i] = s[i]
         /\ \A n \in DOMAIN new : Len(s) + n \in DOMAIN t /\ t[Len(s) + n] = new[n]
         /\ \A i \in DOMAIN t : \/ i \in DOMAIN s /\ t[i] = s[i]
                                \/ \E n \in DOMAIN new : i = Len(s) + n /\ t[i] = new[n]
<1>1. /\ DOMAIN s = 1..Len(s) /\ DOMAIN new = 1..Len(new) /\ Len(s) \in Nat /\ Len(new) \in Nat
  BY LenProperties
<1>2. /\ t \in Seq(S) /\ Len(t) = Len(s) + Len(new)
      /\ \A i \in 1..(Len(s) + Len(new)) : t[i] = IF i <= Len(s) THEN s[i] ELSE new[i - Len(s)]
  BY ConcatProperties
<1>3. DOMAIN t = 1..(Len(s) + Len(new))
  BY <1>2, LenProperties
<1>4. \A i \in DOMAIN s : i \in DOMAIN t /\ t[i] = s[i]
  BY <1>1, <1>2, <1>3
<1>5. ASSUME NEW n \in DOMAIN new PROVE Len(s) + n \in DOMAIN t /\ t[Len(s) + n] = new[n]
  <2>1. /\ Len(s) + n \in 1..(Len(s) + Len(new)) /\ ~(Len(s) + n <= Len(s))
        /\ Len(s) + n - Len(s) = n
    BY <1>1
  <2>2. QED
    BY <1>2, <1>3, <2>1
<1>6. ASSUME NEW i \in DOMAIN t
      PROVE  \/ i \in DOMAIN s /\ t[i] = s[i]
             \/ \E n \in DOMAIN new : i = Len(s) + n /\ t[i] = new[n]
  <2>1. CASE i <= Len(s)
    BY <1>1, <1>2, <1>3, <2>1
  <2>2. CASE ~(i <= Len(s))
    <3>1. i - Len(s) \in DOMAIN new /\ i = Len(s) + (i - Len(s)) /\ t[i] = new[i - Len(s)]
      BY <1>1, <1>2, <1>3, <2>2
    <3>2. QED
      BY <3>1
  <2>3. QED
    BY <2>1, <2>2
<1>7. QED
  BY <1>4, <1>5, <1>6

LEMMA OnceInit == Init => OnceInv
<1> SUFFICES ASSUME Init PROVE OnceInv
  OBVIOUS
<1>1. PICK e : e = Event("WorkflowStarted", "", 0, TRUE)
  OBVIOUS
<1>2. events = <<e>> /\ e.type = "WorkflowStarted"
  BY <1>1 DEF Init, Event
<1>3. \A i \in DOMAIN events : events[i].type \notin Asked
  BY <1>2 DEF Asked
<1>4. Named /\ ScheduledOnce /\ TimersStartedOnce
  BY <1>3 DEF Named, ScheduledOnce, TimersStartedOnce, CommandedOnce, Asked
<1>5. Current
  BY DEF Init, Current
<1>6. QED
  BY <1>4, <1>5, CommandInit DEF OnceInv

\* An answer asks for what has not been asked for.
LEMMA OnceRespond ==
  ASSUME OnceInv, Respond
  PROVE  Named' /\ ScheduledOnce' /\ TimersStartedOnce'
<1>0. /\ TypeOK /\ CommandInv /\ state \in Ended /\ state # "idle" /\ fn' = fn
      /\ events \in Seq(HistoryEvent)
  BY DEF OnceInv, CommandInv, ReplayInv, CountInv, TypeOK, Respond, Ended
<1>1. CASE events' = events
  BY <1>0, <1>1 DEF OnceInv, Named, AsksFor, ScheduledOnce, TimersStartedOnce, CommandedOnce
<1>2. CASE events' = events \o EventsOfCommands(commands \o Closing)
  <2>1. PICK new : new = EventsOfCommands(commands \o Closing)
    OBVIOUS
  <2>2. /\ new \in Seq(HistoryEvent)
        /\ \A n \in DOMAIN new : new[n].type = "ActivityScheduled" =>
              \E i \in Issued : Rank(Issued, i) = n - 1 /\ AsksFor(i, new[n])
        /\ \A n \in DOMAIN new : new[n].type = "TimerStarted" =>
              \E i \in Issued : /\ Rank(Issued, i) = n - 1 /\ fn[i].op = "Sleep"
                                /\ new[n].index = Before(fn, i)
    BY <1>0, <2>1, AnswerAsks
  <2>3. /\ DOMAIN fn = 1..Len(fn) /\ Len(fn) \in Nat /\ Len(events) \in Nat
        /\ DOMAIN events = 1..Len(events) /\ DOMAIN new = 1..Len(new)
    BY <1>0, <2>2, FunctionCalls, LenProperties
  <2>4. PICK t : t = events'
    OBVIOUS
  <2>5. t = events \o new
    BY <1>2, <2>1, <2>4
  <2>6. \A i \in DOMAIN t : \/ i \in DOMAIN events /\ t[i] = events[i]
                            \/ \E n \in DOMAIN new : i = Len(events) + n /\ t[i] = new[n]
    BY ONLY <1>0, <2>2, <2>5, Concatenated
  <2>7. \A i, j \in DOMAIN fn : fn[i].op = fn[j].op /\ fn[i].op \in {"Execute", "Sleep"} /\
                                Before(fn, i) = Before(fn, j) => i = j
    <3>1. \A i \in DOMAIN fn : i \in Nat \ {0}
      BY <2>3
    <3>2. QED
      BY <3>1, BeforeApart
  <2>8. \A i, j \in Issued : Rank(Issued, i) = Rank(Issued, j) => i = j
    <3>1. Issued \in SUBSET (1..Len(fn)) /\ Len(fn) \in Int
      BY <2>3 DEF Issued
    <3>2. QED
      BY ONLY <3>1, RankApart
  <2>9. \A i \in Issued :
          /\ i \in DOMAIN fn
          /\ fn[i].op = "Execute" => ~IsScheduled(events, fn[i].name, Before(fn, i))
          /\ fn[i].op = "Sleep" => /\ ~HasTimer(events, "TimerStarted", Before(fn, i))
                                   /\ i = pc
    BY <1>0 DEF Issued, OnceInv, Current
  <2>10. ASSUME NEW i \in DOMAIN t, t[i].type = "ActivityScheduled"
         PROVE  \E j \in DOMAIN fn : AsksFor(j, t[i])
    <3>1. CASE i \in DOMAIN events /\ t[i] = events[i]
      BY <2>10, <3>1 DEF OnceInv, Named
    <3>2. ASSUME NEW n \in DOMAIN new, t[i] = new[n] PROVE \E j \in DOMAIN fn : AsksFor(j, t[i])
      BY <2>2, <2>9, <2>10, <3>2
    <3>3. QED
      BY <2>6, <3>1, <3>2
  <2>11. ASSUME NEW j \in DOMAIN events, NEW n \in DOMAIN new,
                events[j].type = "ActivityScheduled", new[n].type = "ActivityScheduled",
                events[j].index = new[n].index
         PROVE  FALSE
    <3>1. PICK i0 \in DOMAIN fn : AsksFor(i0, events[j])
      BY <2>11 DEF OnceInv, Named
    <3>2. PICK i1 \in Issued : AsksFor(i1, new[n])
      BY <2>2, <2>11
    <3>3. i0 = i1
      BY <2>7, <2>9, <2>11, <3>1, <3>2 DEF AsksFor
    <3>4. IsScheduled(events, fn[i1].name, Before(fn, i1))
      BY <2>11, <3>1, <3>3 DEF AsksFor, IsScheduled
    <3>5. QED
      BY <2>9, <3>2, <3>4 DEF AsksFor
  <2>12. ASSUME NEW j \in DOMAIN events, NEW n \in DOMAIN new,
                events[j].type = "TimerStarted", new[n].type = "TimerStarted",
                events[j].index = new[n].index
         PROVE  FALSE
    <3>1. PICK i1 \in Issued : fn[i1].op = "Sleep" /\ new[n].index = Before(fn, i1)
      BY <2>2, <2>12
    <3>2. HasTimer(events, "TimerStarted", Before(fn, i1))
      BY <2>12, <3>1 DEF HasTimer
    <3>3. QED
      BY <2>9, <3>1, <3>2
  <2>13. ASSUME NEW m \in DOMAIN new, NEW n \in DOMAIN new, new[m].type = new[n].type,
                new[m].type \in Asked, new[m].index = new[n].index
         PROVE  m = n
    <3>1. CASE new[m].type = "ActivityScheduled"
      <4>1. PICK i \in Issued : Rank(Issued, i) = m - 1 /\ AsksFor(i, new[m])
        BY <2>2, <3>1
      <4>2. PICK j \in Issued : Rank(Issued, j) = n - 1 /\ AsksFor(j, new[n])
        BY <2>2, <2>13, <3>1
      <4>3. i = j
        BY <2>7, <2>13, <4>1, <4>2 DEF AsksFor
      <4>4. m - 1 = n - 1
        BY <4>1, <4>2, <4>3
      <4>5. QED
        BY <2>3, <4>4
    <3>2. CASE new[m].type = "TimerStarted"
      <4>1. PICK i \in Issued : Rank(Issued, i) = m - 1 /\ fn[i].op = "Sleep"
        BY <2>2, <3>2
      <4>2. PICK j \in Issued : Rank(Issued, j) = n - 1 /\ fn[j].op = "Sleep"
        BY <2>2, <2>13, <3>2
      <4>3. i = j
        BY <2>9, <4>1, <4>2
      <4>4. m - 1 = n - 1
        BY <4>1, <4>2, <4>3
      <4>5. QED
        BY <2>3, <4>4
    <3>3. QED
      BY <2>13, <3>1, <3>2 DEF Asked
  <2>14. ASSUME NEW T \in Asked, NEW i \in DOMAIN t, NEW j \in DOMAIN t,
                t[i].type = T, t[j].type = T, t[i].index = t[j].index
         PROVE  i = j
    <3>1. T = "ActivityScheduled" \/ T = "TimerStarted"
      BY DEF Asked
    <3>2. CASE i \in DOMAIN events /\ t[i] = events[i] /\ j \in DOMAIN events /\ t[j] = events[j]
      BY <2>14, <3>1, <3>2 DEF OnceInv, ScheduledOnce, TimersStartedOnce, CommandedOnce
    <3>3. CASE /\ i \in DOMAIN events /\ t[i] = events[i]
               /\ \E n \in DOMAIN new : j = Len(events) + n /\ t[j] = new[n]
      BY <2>11, <2>12, <2>14, <3>1, <3>3
    <3>4. CASE /\ j \in DOMAIN events /\ t[j] = events[j]
               /\ \E n \in DOMAIN new : i = Len(events) + n /\ t[i] = new[n]
      BY <2>11, <2>12, <2>14, <3>1, <3>4
    <3>5. ASSUME NEW m \in DOMAIN new, i = Len(events) + m, t[i] = new[m],
                 NEW n \in DOMAIN new, j = Len(events) + n, t[j] = new[n]
          PROVE  i = j
      BY <2>13, <2>14, <3>5
    <3>6. QED
      BY <2>6, <3>2, <3>3, <3>4, <3>5
  <2>15. Named'
    BY <1>0, <2>4, <2>10 DEF Named, AsksFor
  <2>16. ScheduledOnce' /\ TimersStartedOnce'
    BY <2>4, <2>14 DEF Asked, ScheduledOnce, TimersStartedOnce, CommandedOnce
  <2>17. QED
    BY <2>15, <2>16
<1>3. QED
  BY <1>1, <1>2 DEF Respond

\* What comes in asks for nothing.
LEMMA OnceArrivals ==
  ASSUME OnceInv, NEW cause, NEW e, Came(cause, e)
  PROVE  Current' /\ Named' /\ ScheduledOnce' /\ TimersStartedOnce'
<1>0. TypeOK /\ events \in Seq(HistoryEvent)
  BY DEF OnceInv, CommandInv, ReplayInv, CountInv, TypeOK
<1>1. e.type \notin Asked
  BY DEF Came, ArrivalTypes, ActivityOutcomes, Asked
<1>2. UNCHANGED <<fn, state, history>>
  BY <1>0, CameIn
<1>3. PICK at \in 1..(Len(events) + 1) :
        events' \in Seq(HistoryEvent) /\ Between(events', events, at, e)
  BY <1>0, CameIn
<1>4. PICK t \in Seq(HistoryEvent) : t = events'
  BY <1>3
<1>5. Between(t, events, at, e)
  BY <1>3, <1>4
<1>6. /\ \A i \in DOMAIN t : e.type # t[i].type =>
           \E k \in DOMAIN events : i # at /\ k = (IF i < at THEN i ELSE i - 1) /\ t[i] = events[k]
      /\ \A k \in DOMAIN events : \E i \in DOMAIN t : t[i] = events[k]
  BY ONLY <1>0, <1>3, <1>4, <1>5, BetweenKeeps
<1>7. DOMAIN t = 1..Len(t) /\ Len(t) \in Nat /\ at \in Nat
  BY <1>0, <1>4, LenProperties
<1>8. \A i \in DOMAIN t : t[i].type \in Asked =>
        \E k \in DOMAIN events : i # at /\ k = (IF i < at THEN i ELSE i - 1) /\ t[i] = events[k]
  BY <1>1, <1>6
<1>9. Named'
  <2>1. \A i \in DOMAIN t : t[i].type = "ActivityScheduled" => \E j \in DOMAIN fn : AsksFor(j, t[i])
    BY <1>8 DEF OnceInv, Named, Asked
  <2>2. QED
    BY <1>2, <1>4, <2>1 DEF Named, AsksFor
<1>10. ASSUME NEW T \in Asked, NEW i \in DOMAIN t, NEW j \in DOMAIN t,
              t[i].type = T, t[j].type = T, t[i].index = t[j].index
       PROVE  i = j
  <2>1. PICK k \in DOMAIN events : i # at /\ k = (IF i < at THEN i ELSE i - 1) /\ t[i] = events[k]
    BY <1>8, <1>10
  <2>2. PICK l \in DOMAIN events : j # at /\ l = (IF j < at THEN j ELSE j - 1) /\ t[j] = events[l]
    BY <1>8, <1>10
  <2>3. k = l
    BY <1>10, <2>1, <2>2 DEF Asked, OnceInv, ScheduledOnce, TimersStartedOnce, CommandedOnce
  <2>4. QED
    BY <1>7, <2>1, <2>2, <2>3
<1>11. ScheduledOnce' /\ TimersStartedOnce'
  BY <1>4, <1>10 DEF Asked, ScheduledOnce, TimersStartedOnce, CommandedOnce
<1>12. \A n, k : IsScheduled(t, n, k) <=> IsScheduled(events, n, k)
  BY <1>6, <1>8 DEF IsScheduled, Asked
<1>13. \A k : HasTimer(t, "TimerStarted", k) <=> HasTimer(events, "TimerStarted", k)
  BY <1>6, <1>8 DEF HasTimer, Asked
<1>14. Current'
  <2>1. SUFFICES ASSUME state # "idle"
        PROVE /\ \A n, k : IsScheduled(t, n, k) <=> IsScheduled(history, n, k)
              /\ \A k : HasTimer(t, "TimerStarted", k) <=> HasTimer(history, "TimerStarted", k)
    BY <1>2, <1>4 DEF Current
  <2>2. QED
    BY <1>12, <1>13, <2>1 DEF OnceInv, Current
<1>15. QED
  BY <1>9, <1>11, <1>14

LEMMA OnceStep == OnceInv /\ [Next]_vars => OnceInv'
<1> SUFFICES ASSUME OnceInv, [Next]_vars PROVE OnceInv'
  OBVIOUS
<1>0. CommandInv /\ CommandInv' /\ ReplayInv /\ TypeOK
  BY CommandStep DEF OnceInv, CommandInv, ReplayInv, CountInv
<1>1. ASSUME UNCHANGED <<fn, events>>,
             \/ state' = "idle"
             \/ UNCHANGED history /\ state # "idle"
             \/ UNCHANGED <<history, state>>
      PROVE  OnceInv'
  <2>1. Named' /\ ScheduledOnce' /\ TimersStartedOnce'
    BY <1>1 DEF OnceInv, Named, AsksFor, ScheduledOnce, TimersStartedOnce, CommandedOnce
  <2>2. Current'
    BY <1>1 DEF OnceInv, Current
  <2>3. QED
    BY <1>0, <2>1, <2>2 DEF OnceInv
<1>2. CASE New
  <2>1. UNCHANGED <<fn, events>> /\ history' = events
    BY <1>2 DEF New
  <2>2. Named' /\ ScheduledOnce' /\ TimersStartedOnce'
    BY <2>1 DEF OnceInv, Named, AsksFor, ScheduledOnce, TimersStartedOnce, CommandedOnce
  <2>3. Current'
    BY <2>1 DEF Current
  <2>4. QED
    BY <1>0, <2>2, <2>3 DEF OnceInv
<1>3. CASE ExecuteActivity \/ Get \/ Sleep \/ ReceiveSignal
  <2>1. UNCHANGED <<fn, events, history>> /\ state = "running"
    BY <1>0, <1>3, CallReplays
  <2>2. QED
    BY <1>1, <2>1
<1>4. CASE Return
  <2>1. UNCHANGED <<fn, events, history>> /\ state = "running"
    BY <1>4 DEF Return, context
  <2>2. QED
    BY <1>1, <2>1
<1>5. CASE Respond
  <2>1. state' = "idle"
    BY <1>5 DEF Respond
  <2>2. Current'
    BY <2>1 DEF Current
  <2>3. Named' /\ ScheduledOnce' /\ TimersStartedOnce'
    BY <1>5, OnceRespond
  <2>4. QED
    BY <1>0, <2>2, <2>3 DEF OnceInv
<1>6. CASE Crash
  <2>1. UNCHANGED <<fn, events>> /\ state' = "idle"
    BY <1>6 DEF Crash
  <2>2. QED
    BY <1>1, <2>1
<1>7. CASE FinishActivity \/ FireTimer \/ SignalWorkflow
  <2>1. PICK cause, e : Came(cause, e)
    BY <1>0, <1>7, Arrivals
  <2>2. Current' /\ Named' /\ ScheduledOnce' /\ TimersStartedOnce'
    BY <2>1, OnceArrivals
  <2>3. QED
    BY <1>0, <2>2 DEF OnceInv
<1>8. CASE UNCHANGED vars
  <2>1. UNCHANGED <<fn, events, history, state>>
    BY <1>8 DEF vars, context
  <2>2. QED
    BY <1>1, <2>1
<1>9. QED
  BY <1>2, <1>3, <1>4, <1>5, <1>6, <1>7, <1>8 DEF Next

\* However often the function is run again, each of its ExecuteActivity
\* calls is in the history at most once.
THEOREM ActivitiesScheduledOnce == Spec => []ScheduledOnce
<1>1. OnceInv => ScheduledOnce
  BY DEF OnceInv
<1>2. QED
  BY <1>1, OnceInit, OnceStep, PTL DEF Spec

\* And each of its Sleeps.
THEOREM SleepsStartedOnce == Spec => []TimersStartedOnce
<1>1. OnceInv => TimersStartedOnce
  BY DEF OnceInv
<1>2. QED
  BY <1>1, OnceInit, OnceStep, PTL DEF Spec

-----------------------------------------------------------------------------
(* Where a replay got to is where the next one gets to *)

\* e has come to be longer than h.
StartOf(h, e) == Len(h) <= Len(e) /\ \A j \in 1..Len(h) : e[j] = h[j]

\* Over history h the function f gets to call p, and ends there as s says.
Reached(f, h, p, s) ==
  /\ p \in 1..(Len(f) + 1)
  /\ \A j \in 1..(p - 1) : GetsPast(f, h, j)
  /\ s = "returned" => p = Len(f) + 1
  /\ s = "failed" => /\ p \in DOMAIN f /\ f[p].op \in {"Get", "Receive"}
                     /\ Answers(f, h, p) # {}
                     /\ ~GoesOn(f[p], h[Min(Answers(f, h, p))])

\* What call i finds in h it finds in e too.
FirstKept(f, h, e, i) ==
  Answers(f, e, i) # {} /\ e[Min(Answers(f, e, i))] = h[Min(Answers(f, h, i))]

Kept(f, h, e) == \A i \in DOMAIN f : Answers(f, h, i) # {} => FirstKept(f, h, e, i)

\* An answer that a call has found is the one it finds in a longer history.
LEMMA AnswersKept ==
  ASSUME NEW f, NEW h \in Seq(HistoryEvent), NEW e \in Seq(HistoryEvent), StartOf(h, e),
         NEW i, f[i].op \in {"Execute", "Get", "Sleep", "Receive"}, Answers(f, h, i) # {}
  PROVE  FirstKept(f, h, e, i)
<1>1. /\ DOMAIN h = 1..Len(h) /\ DOMAIN e = 1..Len(e) /\ Len(h) \in Nat /\ Len(e) \in Nat
  BY LenProperties
<1>2. /\ Len(h) <= Len(e) /\ \A j \in DOMAIN h : j \in DOMAIN e /\ e[j] = h[j]
  BY <1>1 DEF StartOf
<1>3. \A j \in DOMAIN h : j \in Answers(f, e, i) <=> j \in Answers(f, h, i)
  <2>1. CASE f[i].op = "Execute"
    BY <2>1 DEF Answers
  <2>2. CASE f[i].op = "Get"
    BY <1>2, <2>2 DEF Answers, Outcomes
  <2>3. CASE f[i].op = "Sleep"
    BY <1>2, <2>3 DEF Answers
  <2>4. CASE f[i].op = "Receive"
    <3>1. PICK n : n = f[i].name
      OBVIOUS
    <3>2. \A j \in DOMAIN h : j \in Signals(e, n) <=> j \in Signals(h, n)
      BY <1>2 DEF Signals
    <3>3. Signals(h, n) \subseteq DOMAIN h /\ Signals(e, n) \subseteq DOMAIN e
      BY DEF Signals
    <3>4. ASSUME NEW j \in DOMAIN h
          PROVE  {k \in Signals(e, n) : k < j} = {k \in Signals(h, n) : k < j}
      <4>1. \A k \in DOMAIN e : k < j => k \in DOMAIN h
        BY <1>1
      <4>2. \A k : k \in Signals(e, n) /\ k < j <=> k \in Signals(h, n) /\ k < j
        BY <1>2, <3>2, <3>3, <4>1
      <4>3. QED
        BY <4>2
    <3>5. ASSUME NEW g
          PROVE  Answers(f, g, i) =
                   {j \in Signals(g, n) :
                      Cardinality({k \in Signals(g, n) : k < j}) >= Before(f, i)}
      BY <2>4, <3>1 DEF Answers
    <3>6. ASSUME NEW j \in DOMAIN h
          PROVE  j \in Answers(f, e, i) <=> j \in Answers(f, h, i)
      <4>1. /\ j \in Answers(f, e, i) <=> /\ j \in Signals(e, n)
                 /\ Cardinality({k \in Signals(e, n) : k < j}) >= Before(f, i)
            /\ j \in Answers(f, h, i) <=> /\ j \in Signals(h, n)
                 /\ Cardinality({k \in Signals(h, n) : k < j}) >= Before(f, i)
        BY <3>5
      <4>2. PICK C : C = Cardinality({k \in Signals(h, n) : k < j})
        OBVIOUS
      <4>3. C = Cardinality({k \in Signals(e, n) : k < j})
        BY <3>4, <4>2
      <4>4. QED
        BY ONLY <3>2, <3>6, <4>1, <4>2, <4>3
    <3>7. QED
      BY <3>6
  <2>5. QED
    BY <2>1, <2>2, <2>3, <2>4
<1>4. Answers(f, h, i) \subseteq DOMAIN h /\ Answers(f, e, i) \subseteq DOMAIN e
  BY AnswersIn
<1>5. PICK A : A = Answers(f, h, i)
  OBVIOUS
<1>6. PICK B : B = Answers(f, e, i)
  OBVIOUS
<1>7. A \in SUBSET Nat /\ A # {} /\ B \in SUBSET Nat
  BY <1>1, <1>4, <1>5, <1>6
<1>8. PICK m : m = Min(A)
  OBVIOUS
<1>9. m \in A /\ \A k \in A : m <= k
  BY <1>7, <1>8, MinLeast
<1>10. m \in B /\ m \in DOMAIN h
  BY <1>3, <1>4, <1>5, <1>6, <1>9
<1>11. \A k \in B : m <= k
  <2>1. ASSUME NEW k \in B PROVE m <= k
    <3>1. CASE k \in DOMAIN h
      BY <1>3, <1>5, <1>6, <1>9, <3>1
    <3>2. CASE k \notin DOMAIN h
      BY <1>1, <1>4, <1>6, <1>10, <3>2
    <3>3. QED
      BY <3>1, <3>2
  <2>2. QED
    BY <2>1
<1>12. Min(B) = m
  BY <1>7, <1>10, <1>11, MinIs
<1>13. QED
  BY <1>2, <1>5, <1>6, <1>8, <1>10, <1>12 DEF FirstKept

LEMMA AnswersStay ==
  ASSUME NEW f, NEW h \in Seq(HistoryEvent), NEW e \in Seq(HistoryEvent),
         DOMAIN f = 1..Len(f),
         \A i \in DOMAIN f : f[i].op \in {"Execute", "Get", "Sleep", "Receive"},
         StartOf(h, e)
  PROVE  Kept(f, h, e)
BY AnswersKept DEF Kept

LEMMA KeptItself == \A f, h : Kept(f, h, h)
BY DEF Kept, FirstKept

LEMMA KeptThird ==
  ASSUME NEW f, NEW a, NEW b, NEW c, Kept(f, a, b), Kept(f, b, c)
  PROVE  Kept(f, a, c)
BY DEF Kept, FirstKept

\* Where the event at position k gets to when one is put at position at.
Shift(at, k) == IF k < at THEN k ELSE k + 1

LEMMA Shifted ==
  ASSUME NEW s \in Seq(HistoryEvent), NEW t \in Seq(HistoryEvent),
         NEW at \in 1..(Len(s) + 1), NEW e, Between(t, s, at, e)
  PROVE  /\ at \in DOMAIN t /\ t[at] = e
         /\ \A j \in DOMAIN s : Shift(at, j) \in DOMAIN t /\ t[Shift(at, j)] = s[j]
         /\ \A k \in DOMAIN t : k = at \/ \E j \in DOMAIN s : k = Shift(at, j)
<1>1. DOMAIN s = 1..Len(s) /\ DOMAIN t = 1..(Len(s) + 1) /\ Len(s) \in Nat /\ at \in Nat
  BY LenProperties DEF Between
<1>2. \A k \in 1..(Len(s) + 1) :
        t[k] = IF k < at THEN s[k] ELSE IF k = at THEN e ELSE s[k - 1]
  BY DEF Between
<1>3. ASSUME NEW j \in DOMAIN s PROVE Shift(at, j) \in DOMAIN t /\ t[Shift(at, j)] = s[j]
  <2>1. CASE j < at
    BY <1>1, <1>2, <2>1 DEF Shift
  <2>2. CASE ~(j < at)
    <3>1. Shift(at, j) = j + 1 /\ j + 1 \in 1..(Len(s) + 1) /\ ~(j + 1 < at) /\ j + 1 # at
      BY <1>1, <2>2 DEF Shift
    <3>2. j + 1 - 1 = j
      BY <1>1
    <3>3. QED
      BY <1>1, <1>2, <3>1, <3>2
  <2>3. QED
    BY <2>1, <2>2
<1>4. ASSUME NEW k \in DOMAIN t, k # at PROVE \E j \in DOMAIN s : k = Shift(at, j)
  <2>1. CASE k < at
    BY <1>1, <2>1 DEF Shift
  <2>2. CASE ~(k < at)
    <3>1. k - 1 \in DOMAIN s /\ ~(k - 1 < at) /\ k - 1 + 1 = k
      BY <1>1, <1>4, <2>2
    <3>2. QED
      BY <3>1 DEF Shift
  <2>3. QED
    BY <2>1, <2>2
<1>5. QED
  BY <1>1, <1>2, <1>3, <1>4

LEMMA ShiftOrder ==
  ASSUME NEW at \in Nat, NEW i \in Nat, NEW j \in Nat
  PROVE  /\ Shift(at, i) \in Nat
         /\ i < j <=> Shift(at, i) < Shift(at, j)
         /\ i = j <=> Shift(at, i) = Shift(at, j)
         /\ i < at => Shift(at, i) < at
         /\ Shift(at, i) # at
BY DEF Shift

\* B is A moved, perhaps with what has come in behind all of A.
MovedTo(A, B, at) ==
  /\ \A j \in A : Shift(at, j) \in B
  /\ \A k \in B : (\E j \in A : k = Shift(at, j)) \/ (k = at /\ \A j \in A : j < at)

Moved(P, at) == {Shift(at, k) : k \in P}

\* What comes in behind all of A, or is not one of them, changes no least one.
LEMMA FirstStays ==
  ASSUME NEW s \in Seq(HistoryEvent), NEW t \in Seq(HistoryEvent),
         NEW at \in 1..(Len(s) + 1), NEW e, Between(t, s, at, e),
         NEW A, NEW B, A \subseteq DOMAIN s, B \subseteq DOMAIN t, A # {},
         MovedTo(A, B, at)
  PROVE  B # {} /\ t[Min(B)] = s[Min(A)]
<1>a. /\ \A j \in A : Shift(at, j) \in B
      /\ \A k \in B : (\E j \in A : k = Shift(at, j)) \/ (k = at /\ \A j \in A : j < at)
  BY DEF MovedTo
<1>1. DOMAIN s \subseteq Nat /\ DOMAIN t \subseteq Nat /\ at \in Nat
  BY LenProperties
<1>2. \A j \in DOMAIN s : t[Shift(at, j)] = s[j]
  BY Shifted
<1>3. PICK m : m = Min(A)
  OBVIOUS
<1>4. m \in A /\ \A j \in A : m <= j
  BY <1>1, <1>3, MinLeast
<1>5. PICK n : n = Shift(at, m)
  OBVIOUS
<1>6. n \in B /\ n \in Nat /\ m \in Nat
  BY <1>a, <1>1, <1>4, <1>5
<1>7. ASSUME NEW k \in B PROVE n <= k
  <2>1. CASE \E j \in A : k = Shift(at, j)
    <3>1. PICK j \in A : k = Shift(at, j)
      BY <2>1
    <3>2. m <= j /\ j \in Nat /\ k \in Nat
      BY <1>1, <1>4, <3>1
    <3>3. QED
      BY <1>1, <1>5, <1>6, <3>1, <3>2 DEF Shift
  <2>2. CASE k = at /\ \A j \in A : j < at
    BY <1>1, <1>4, <1>5, <1>6, <2>2 DEF Shift
  <2>3. QED
    BY <1>a, <2>1, <2>2
<1>8. Min(B) = n
  <2>1. B \in SUBSET Nat
    BY <1>1
  <2>2. QED
    BY ONLY <1>6, <1>7, <2>1, MinIs
<1>9. QED
  BY <1>2, <1>3, <1>4, <1>5, <1>6, <1>8

\* Shifted events are as many as they were.
LEMMA ShiftCounts ==
  ASSUME NEW n \in Nat, NEW P \in SUBSET (1..n), NEW at \in Nat
  PROVE  Cardinality(Moved(P, at)) = Cardinality(P)
<1>0. PICK Q : Q = Moved(P, at)
  OBVIOUS
<1>1. PICK g : g = [k \in P |-> Shift(at, k)]
  OBVIOUS
<1>2. g \in [P -> Q] /\ \A k \in P : g[k] = Shift(at, k)
  BY <1>0, <1>1 DEF Moved
<1>3. \A a, b \in P : g[a] = g[b] => a = b
  BY <1>2, ShiftOrder
<1>4. \A q \in Q : \E k \in P : g[k] = q
  BY <1>0, <1>2 DEF Moved
<1>5. g \in Bijection(P, Q)
  BY <1>2, <1>3, <1>4 DEF Bijection, Injection, Surjection, IsInjective
<1>6. ExistsBijection(P, Q)
  BY <1>5 DEF ExistsBijection
<1>7. IsFiniteSet(P)
  BY FiniteBelow
<1>8. QED
  BY <1>0, <1>6, <1>7, FS_Bijection

\* An event that was not overtaken by one like it leaves each call the event
\* that it returns with.
LEMMA OutcomesStay ==
  ASSUME NEW f, NEW s \in Seq(HistoryEvent), NEW t \in Seq(HistoryEvent),
         NEW at \in 1..(Len(s) + 1), NEW e, Between(t, s, at, e),
         \A k \in at..Len(s) : ~Alike(s[k], e),
         NEW i, f[i].op = "Get", Answers(f, s, i) # {}
  PROVE  FirstKept(f, s, t, i)
<1>1. PICK n, x : n = f[i].name /\ x = f[i].future
  OBVIOUS
<1>2. PICK A : A = Outcomes(s, n, x)
  OBVIOUS
<1>3. PICK B : B = Outcomes(t, n, x)
  OBVIOUS
<1>4. Answers(f, s, i) = A /\ Answers(f, t, i) = B
  BY <1>1, <1>2, <1>3 DEF Answers
<1>5. DOMAIN s = 1..Len(s) /\ Len(s) \in Nat /\ at \in Nat
  BY LenProperties
<1>6. A \subseteq DOMAIN s /\ B \subseteq DOMAIN t /\ A # {}
  BY <1>2, <1>3, <1>4 DEF Outcomes
<1>7. /\ t[at] = e
      /\ \A j \in DOMAIN s : Shift(at, j) \in DOMAIN t /\ t[Shift(at, j)] = s[j]
      /\ \A k \in DOMAIN t : k = at \/ \E j \in DOMAIN s : k = Shift(at, j)
  BY Shifted
<1>8. \A j \in A : Shift(at, j) \in B
  BY <1>2, <1>3, <1>7 DEF Outcomes
<1>9. ASSUME NEW k \in B, k # at PROVE \E j \in A : k = Shift(at, j)
  BY <1>2, <1>3, <1>7, <1>9 DEF Outcomes
<1>10. ASSUME at \in B, NEW j \in A PROVE j < at
  <2>1. /\ e.type \in ActivityOutcomes /\ e.name = n /\ e.index = x
        /\ s[j].type \in ActivityOutcomes /\ s[j].name = n /\ s[j].index = x
    BY <1>2, <1>3, <1>7, <1>10 DEF Outcomes
  <2>2. Alike(s[j], e)
    BY <2>1 DEF Alike
  <2>3. j \in 1..Len(s) /\ j \notin at..Len(s)
    BY <1>5, <1>6, <2>2
  <2>4. QED
    BY <1>5, <2>3
<1>11. \A k \in B : (\E j \in A : k = Shift(at, j)) \/ (k = at /\ \A j \in A : j < at)
  BY <1>9, <1>10
<1>m. MovedTo(A, B, at)
  BY ONLY <1>8, <1>11 DEF MovedTo
<1>12. B # {} /\ t[Min(B)] = s[Min(A)]
  BY ONLY s \in Seq(HistoryEvent), t \in Seq(HistoryEvent), at \in 1..(Len(s) + 1),
          Between(t, s, at, e), <1>6, <1>m, FirstStays
<1>13. QED
  BY <1>4, <1>12 DEF FirstKept

LEMMA FiringStays ==
  ASSUME NEW f, NEW s \in Seq(HistoryEvent), NEW t \in Seq(HistoryEvent),
         NEW at \in 1..(Len(s) + 1), NEW e, Between(t, s, at, e),
         e.type = "TimerFired" => ~HasTimer(s, "TimerFired", e.index),
         NEW i, f[i].op = "Sleep", Answers(f, s, i) # {}
  PROVE  FirstKept(f, s, t, i)
<1>1. PICK x : x = Before(f, i)
  OBVIOUS
<1>2. PICK A : A = {j \in DOMAIN s : s[j].type = "TimerFired" /\ s[j].index = x}
  OBVIOUS
<1>3. PICK B : B = {j \in DOMAIN t : t[j].type = "TimerFired" /\ t[j].index = x}
  OBVIOUS
<1>4. Answers(f, s, i) = A /\ Answers(f, t, i) = B
  BY <1>1, <1>2, <1>3 DEF Answers
<1>5. A \subseteq DOMAIN s /\ B \subseteq DOMAIN t /\ A # {}
  BY <1>2, <1>3, <1>4
<1>6. /\ t[at] = e
      /\ \A j \in DOMAIN s : Shift(at, j) \in DOMAIN t /\ t[Shift(at, j)] = s[j]
      /\ \A k \in DOMAIN t : k = at \/ \E j \in DOMAIN s : k = Shift(at, j)
  BY Shifted
<1>7. \A j \in A : Shift(at, j) \in B
  BY <1>2, <1>3, <1>6
<1>8. at \notin B
  BY <1>2, <1>3, <1>5, <1>6 DEF HasTimer
<1>9. \A k \in B : (\E j \in A : k = Shift(at, j)) \/ (k = at /\ \A j \in A : j < at)
  BY <1>2, <1>3, <1>6, <1>8
<1>m. MovedTo(A, B, at)
  BY ONLY <1>7, <1>9 DEF MovedTo
<1>10. B # {} /\ t[Min(B)] = s[Min(A)]
  BY ONLY s \in Seq(HistoryEvent), t \in Seq(HistoryEvent), at \in 1..(Len(s) + 1),
          Between(t, s, at, e), <1>5, <1>m, FirstStays
<1>11. QED
  BY <1>4, <1>10 DEF FirstKept

\* The signals before position j.
Earlier(h, n, j) == {k \in Signals(h, n) : k < j}

LEMMA EarlierStay ==
  ASSUME NEW s \in Seq(HistoryEvent), NEW t \in Seq(HistoryEvent),
         NEW at \in 1..(Len(s) + 1), NEW e, Between(t, s, at, e),
         NEW n, NEW j \in DOMAIN s,
         at \in Signals(t, n) => j < at
  PROVE  Cardinality(Earlier(t, n, Shift(at, j))) = Cardinality(Earlier(s, n, j))
<1>1. DOMAIN s = 1..Len(s) /\ Len(s) \in Nat /\ at \in Nat /\ j \in Nat
  BY LenProperties
<1>2. /\ \A k \in DOMAIN s : Shift(at, k) \in DOMAIN t /\ t[Shift(at, k)] = s[k]
      /\ \A k \in DOMAIN t : k = at \/ \E l \in DOMAIN s : k = Shift(at, l)
  BY Shifted
<1>3. PICK P : P = Earlier(s, n, j)
  OBVIOUS
<1>4. PICK Q : Q = Earlier(t, n, Shift(at, j))
  OBVIOUS
<1>5. P \subseteq 1..Len(s) /\ P \subseteq Nat
  BY <1>1, <1>3 DEF Earlier, Signals
<1>6. ASSUME NEW k \in P PROVE Shift(at, k) \in Q
  <2>1. k \in DOMAIN s /\ k < j /\ s[k].type = "SignalReceived" /\ s[k].name = n
    BY <1>3 DEF Earlier, Signals
  <2>2. Shift(at, k) \in DOMAIN t /\ t[Shift(at, k)] = s[k]
    BY <1>2, <2>1
  <2>3. Shift(at, k) \in Signals(t, n)
    BY <2>1, <2>2 DEF Signals
  <2>4. Shift(at, k) < Shift(at, j)
    BY <1>1, <2>1, ShiftOrder
  <2>5. QED
    BY <1>4, <2>3, <2>4 DEF Earlier
<1>7. ASSUME NEW k \in Q PROVE \E l \in P : k = Shift(at, l)
  <2>1. k \in Signals(t, n) /\ k < Shift(at, j) /\ k \in DOMAIN t
    BY <1>4 DEF Earlier, Signals
  <2>2. k # at
    <3>1. SUFFICES ASSUME k = at PROVE FALSE
      OBVIOUS
    <3>2. j < at /\ at < Shift(at, j)
      BY <2>1, <3>1
    <3>3. QED
      BY <1>1, <3>2 DEF Shift
  <2>3. PICK l \in DOMAIN s : k = Shift(at, l)
    BY <1>2, <2>1, <2>2
  <2>4. l \in Signals(s, n)
    BY <1>2, <2>1, <2>3 DEF Signals
  <2>5. l < j
    BY <1>1, <2>1, <2>3, ShiftOrder
  <2>6. QED
    BY <1>3, <2>3, <2>4, <2>5 DEF Earlier
<1>8. Q = Moved(P, at)
  BY <1>6, <1>7 DEF Moved
<1>9. Cardinality(Q) = Cardinality(P)
  <2>1. P \in SUBSET (1..Len(s)) /\ Len(s) \in Nat /\ at \in Nat
    BY <1>1, <1>5
  <2>2. Cardinality(Moved(P, at)) = Cardinality(P)
    BY ONLY <2>1, ShiftCounts
  <2>3. QED
    BY <1>8, <2>2
<1>10. QED
  BY <1>3, <1>4, <1>9

LEMMA SignalsStay ==
  ASSUME NEW f, NEW s \in Seq(HistoryEvent), NEW t \in Seq(HistoryEvent),
         NEW at \in 1..(Len(s) + 1), NEW e, Between(t, s, at, e),
         \A k \in at..Len(s) : ~Alike(s[k], e),
         NEW i, f[i].op = "Receive", Answers(f, s, i) # {}
  PROVE  FirstKept(f, s, t, i)
<1>1. PICK n, x : n = f[i].name /\ x = Before(f, i)
  OBVIOUS
<1>2. PICK A : A = {j \in Signals(s, n) : Cardinality(Earlier(s, n, j)) >= x}
  OBVIOUS
<1>3. PICK B : B = {j \in Signals(t, n) : Cardinality(Earlier(t, n, j)) >= x}
  OBVIOUS
<1>4. Answers(f, s, i) = A /\ Answers(f, t, i) = B
  BY <1>1, <1>2, <1>3 DEF Answers, Earlier
<1>5. DOMAIN s = 1..Len(s) /\ Len(s) \in Nat /\ at \in Nat
  BY LenProperties
<1>6. Signals(s, n) \subseteq DOMAIN s /\ Signals(t, n) \subseteq DOMAIN t
  BY DEF Signals
<1>7. A \subseteq DOMAIN s /\ B \subseteq DOMAIN t /\ A # {}
  BY <1>2, <1>3, <1>4, <1>6
<1>8. /\ t[at] = e
      /\ \A j \in DOMAIN s : Shift(at, j) \in DOMAIN t /\ t[Shift(at, j)] = s[j]
      /\ \A k \in DOMAIN t : k = at \/ \E j \in DOMAIN s : k = Shift(at, j)
  BY Shifted
<1>9. ASSUME at \in Signals(t, n), NEW j \in Signals(s, n) PROVE j < at
  <2>1. /\ e.type = "SignalReceived" /\ e.name = n
        /\ s[j].type = "SignalReceived" /\ s[j].name = n
    BY <1>8, <1>9 DEF Signals
  <2>2. Alike(s[j], e)
    BY <2>1 DEF Alike
  <2>3. j \in 1..Len(s) /\ j \notin at..Len(s)
    BY <1>5, <1>6, <2>2
  <2>4. QED
    BY <1>5, <2>3
<1>10. \A j \in DOMAIN s : Shift(at, j) \in Signals(t, n) <=> j \in Signals(s, n)
  BY <1>8 DEF Signals
<1>11. ASSUME NEW j \in Signals(s, n)
       PROVE  Cardinality(Earlier(t, n, Shift(at, j))) = Cardinality(Earlier(s, n, j))
  <2>1. j \in DOMAIN s /\ (at \in Signals(t, n) => j < at)
    BY <1>6, <1>9
  <2>2. QED
    BY ONLY s \in Seq(HistoryEvent), t \in Seq(HistoryEvent), at \in 1..(Len(s) + 1),
            Between(t, s, at, e), <2>1, EarlierStay
<1>12. \A j \in A : Shift(at, j) \in B
  <2>1. ASSUME NEW j \in A PROVE Shift(at, j) \in B
    <3>1. /\ j \in Signals(s, n) /\ Cardinality(Earlier(s, n, j)) >= x
          /\ Shift(at, j) \in Signals(t, n)
      BY <1>2, <1>6, <1>10
    <3>2. Cardinality(Earlier(t, n, Shift(at, j))) >= x
      BY <1>11, <3>1
    <3>3. QED
      BY <1>3, <3>1, <3>2
  <2>2. QED
    BY <2>1
<1>13. ASSUME NEW k \in B, k # at PROVE \E j \in A : k = Shift(at, j)
  <2>1. PICK j \in DOMAIN s : k = Shift(at, j)
    BY <1>7, <1>8, <1>13
  <2>2. k \in Signals(t, n) /\ Cardinality(Earlier(t, n, k)) >= x
    BY <1>3
  <2>3. j \in Signals(s, n)
    BY <1>10, <2>1, <2>2
  <2>4. Cardinality(Earlier(s, n, j)) >= x
    BY <1>11, <2>1, <2>2, <2>3
  <2>5. QED
    BY <1>2, <2>1, <2>3, <2>4
<1>14. ASSUME at \in B, NEW j \in A PROVE j < at
  BY <1>2, <1>3, <1>9, <1>14
<1>15. \A k \in B : (\E j \in A : k = Shift(at, j)) \/ (k = at /\ \A j \in A : j < at)
  BY <1>13, <1>14
<1>m. MovedTo(A, B, at)
  BY ONLY <1>12, <1>15 DEF MovedTo
<1>16. B # {} /\ t[Min(B)] = s[Min(A)]
  BY ONLY s \in Seq(HistoryEvent), t \in Seq(HistoryEvent), at \in 1..(Len(s) + 1),
          Between(t, s, at, e), <1>7, <1>m, FirstStays
<1>17. QED
  BY <1>4, <1>16 DEF FirstKept

LEMMA InsertedStay ==
  ASSUME NEW f, NEW s \in Seq(HistoryEvent), NEW t \in Seq(HistoryEvent),
         NEW at \in 1..(Len(s) + 1), NEW e, Between(t, s, at, e),
         \A k \in at..Len(s) : ~Alike(s[k], e),
         e.type = "TimerFired" => ~HasTimer(s, "TimerFired", e.index),
         \A i \in DOMAIN f : f[i].op \in {"Execute", "Get", "Sleep", "Receive"}
  PROVE  Kept(f, s, t)
<1> SUFFICES ASSUME NEW i \in DOMAIN f, Answers(f, s, i) # {} PROVE FirstKept(f, s, t, i)
  BY DEF Kept
<1>1. CASE f[i].op = "Execute"
  BY <1>1 DEF Answers
<1>2. CASE f[i].op = "Get"
  BY <1>2, OutcomesStay
<1>3. CASE f[i].op = "Sleep"
  BY <1>3, FiringStays
<1>4. CASE f[i].op = "Receive"
  BY <1>4, SignalsStay
<1>5. QED
  BY <1>1, <1>2, <1>3, <1>4

LEMMA ReachedKept ==
  ASSUME NEW f \in Seq(Call), NEW h, NEW e, Kept(f, h, e),
         NEW p, NEW s, Reached(f, h, p, s)
  PROVE  Reached(f, e, p, s)
<1>1. DOMAIN f = 1..Len(f) /\ Len(f) \in Nat
  BY LenProperties
<1>2. p \in 1..(Len(f) + 1) /\ \A j \in 1..(p - 1) : j \in DOMAIN f /\ GetsPast(f, h, j)
  BY <1>1 DEF Reached
<1>3. \A i \in DOMAIN f : Answers(f, h, i) # {} =>
        /\ Answers(f, e, i) # {}
        /\ e[Min(Answers(f, e, i))] = h[Min(Answers(f, h, i))]
  BY DEF Kept, FirstKept
<1>4. \A j \in 1..(p - 1) : GetsPast(f, e, j)
  BY <1>2, <1>3 DEF GetsPast
<1>5. s = "failed" => /\ p \in DOMAIN f /\ f[p].op \in {"Get", "Receive"}
                      /\ Answers(f, e, p) # {}
                      /\ ~GoesOn(f[p], e[Min(Answers(f, e, p))])
  BY <1>3 DEF Reached
<1>6. QED
  BY <1>2, <1>4, <1>5 DEF Reached

\* What holds until an event comes to be read before an earlier one like it.
InPlace ==
  /\ Reached(fn, events, furthest.pc, furthest.state)
  /\ state # "idle" => /\ Kept(fn, history, events)
                       /\ Reached(fn, history, furthest.pc, furthest.state)

ResumeInv == ReplayInv /\ (~overtaken => InPlace) /\ ClosedAsItEnded

\* Where a replay has ended is where it got to over its history.
LEMMA ReplayReaches ==
  ASSUME ReplayInv, state # "idle"
  PROVE  Reached(fn, history, pc, state)
BY DEF ReplayInv, ReplayedOK, CountInv, TypeOK, Reached

LEMMA ResumeAgain == ResumeInv /\ ~overtaken => ResumesWhereItLeftOff
<1> SUFFICES ASSUME ResumeInv, ~overtaken, state \in Ended
             PROVE  /\ pc >= furthest.pc
                    /\ furthest.state \in {"returned", "failed"} =>
                         pc = furthest.pc /\ state = furthest.state
  BY DEF ResumesWhereItLeftOff
<1>0. ReplayInv /\ state # "idle" /\ TypeOK
  BY DEF ResumeInv, ReplayInv, CountInv, Ended
<1>1. /\ Len(fn) \in Nat /\ DOMAIN fn = 1..Len(fn) /\ pc \in Nat \ {0}
      /\ pc \in 1..(Len(fn) + 1)
  BY <1>0, FunctionCalls DEF TypeOK
<1> DEFINE p == furthest.pc
           s == furthest.state
<1>2. Reached(fn, history, p, s) /\ p \in 1..(Len(fn) + 1)
  BY <1>0 DEF ResumeInv, InPlace, Reached
<1>3. Reached(fn, history, pc, state)
  BY <1>0, ReplayReaches
<1>4. pc \in DOMAIN fn => ~GetsPast(fn, history, pc)
  <2>1. state = "paused" => ~GetsPast(fn, history, pc)
    BY <1>0 DEF ReplayInv, ReplayedOK, GetsPast
  <2>2. state = "failed" => ~GetsPast(fn, history, pc)
    BY <1>3 DEF Reached, GetsPast
  <2>3. state = "returned" => pc \notin DOMAIN fn
    BY <1>1, <1>3 DEF Reached
  <2>4. QED
    BY <2>1, <2>2, <2>3 DEF Ended
<1> HIDE DEF p, s
<1>5. pc >= p
  <2>1. pc < p => pc \in DOMAIN fn /\ pc \in 1..(p - 1)
    BY <1>1, <1>2
  <2>2. pc < p => GetsPast(fn, history, pc)
    BY <1>2, <2>1 DEF Reached
  <2>3. QED
    BY <1>1, <1>2, <1>4, <2>1, <2>2
<1>6. ASSUME s = "returned" PROVE pc = p /\ state = s
  <2>1. pc = Len(fn) + 1 /\ p = Len(fn) + 1
    BY <1>1, <1>2, <1>5, <1>6 DEF Reached
  <2>2. QED
    BY <1>0, <1>6, <2>1, StopsWhere
<1>7. ASSUME s = "failed" PROVE pc = p /\ state = s
  <2>1. /\ p \in DOMAIN fn /\ Answers(fn, history, p) # {}
        /\ ~GetsPast(fn, history, p)
    BY <1>2, <1>7 DEF Reached, GetsPast
  <2>2. p < pc => GetsPast(fn, history, p)
    BY <1>1, <1>2, <1>3 DEF Reached
  <2>3. pc = p
    BY <1>1, <1>2, <1>5, <2>1, <2>2
  <2>4. state # "paused"
    BY <1>0, <2>1, <2>3 DEF ReplayInv, ReplayedOK
  <2>5. state # "returned"
    BY <1>1, <1>3, <2>1, <2>3 DEF Reached
  <2>6. QED
    BY <1>7, <2>3, <2>4, <2>5 DEF Ended
<1>8. QED
  BY <1>5, <1>6, <1>7 DEF p, s

LEMMA ResumeInit == Init => ResumeInv
<1> SUFFICES ASSUME Init PROVE ResumeInv
  OBVIOUS
<1>1. ReplayInv /\ TypeOK
  BY ReplayInit DEF ReplayInv, CountInv
<1>2. Len(fn) \in Nat
  BY <1>1, FunctionCalls
<1>3. furthest.pc = 1 /\ furthest.state = "idle" /\ state = "idle" /\ status = "Running"
  BY DEF Init
<1>4. 1 \in 1..(Len(fn) + 1) /\ 1..(1 - 1) = {}
  BY <1>2
<1>5. Reached(fn, events, furthest.pc, furthest.state)
  BY <1>3, <1>4 DEF Reached
<1>6. QED
  BY <1>1, <1>3, <1>5 DEF ResumeInv, InPlace, ClosedAsItEnded

\* What the calls found among the events they still find there.
LEMMA EventsKeep ==
  ASSUME ReplayInv, [Next]_vars, ~overtaken'
  PROVE  ~overtaken /\ Kept(fn, events, events')
<1>0. TypeOK /\ events \in Seq(HistoryEvent) /\ Len(events) \in Nat
  BY LenProperties DEF ReplayInv, CountInv, TypeOK
<1>1. /\ DOMAIN fn = 1..Len(fn)
      /\ \A i \in DOMAIN fn : fn[i].op \in {"Execute", "Get", "Sleep", "Receive"}
  BY <1>0, FunctionCalls DEF Call
<1>2. CASE Respond
  <2>1. PICK new \in Seq(HistoryEvent) : new = EventsOfCommands(commands \o Closing)
    BY <1>0, AnswerType, Recordings
  <2>2. (events' = events \/ events' = events \o new) /\ ~overtaken
    BY <1>2, <2>1 DEF Respond
  <2>3. CASE events' = events \o new
    <3>1. /\ events \o new \in Seq(HistoryEvent) /\ Len(events \o new) = Len(events) + Len(new)
          /\ \A i \in 1..(Len(events) + Len(new)) :
               (events \o new)[i] = IF i <= Len(events) THEN events[i] ELSE new[i - Len(events)]
      BY <1>0, <2>1, ConcatProperties
    <3>2. Len(new) \in Nat
      BY <2>1, LenProperties
    <3>3. StartOf(events, events \o new)
      BY <1>0, <3>1, <3>2 DEF StartOf
    <3>4. Kept(fn, events, events \o new)
      BY <1>0, <1>1, <3>1, <3>3, AnswersStay
    <3>5. QED
      BY <2>2, <2>3, <3>4
  <2>4. QED
    BY <2>2, <2>3, KeptItself
<1>3. CASE FinishActivity \/ FireTimer \/ SignalWorkflow
  <2>1. PICK cause, e : Came(cause, e)
    BY <1>0, <1>3, Arrivals
  <2>2. PICK at \in 1..(Len(events) + 1) :
          /\ ~overtaken' =>
               ~overtaken /\ \A i \in at..Len(events) : ~Alike(events[i], e)
          /\ events' \in Seq(HistoryEvent) /\ Between(events', events, at, e)
    BY <1>0, <2>1, CameIn
  <2>3. PICK t \in Seq(HistoryEvent) : t = events'
    BY <2>2
  <2>4. Between(t, events, at, e) /\ \A i \in at..Len(events) : ~Alike(events[i], e)
    BY <2>2, <2>3
  <2>5. e.type = "TimerFired" => ~HasTimer(events, "TimerFired", e.index)
    BY <2>1 DEF Came
  <2>6. Kept(fn, events, t)
    BY ONLY <1>0, <1>1, at \in 1..(Len(events) + 1), t \in Seq(HistoryEvent),
            <2>4, <2>5, InsertedStay
  <2>7. QED
    BY <2>2, <2>3, <2>6
<1>4. CASE ~(Respond \/ FinishActivity \/ FireTimer \/ SignalWorkflow)
  <2>1. UNCHANGED <<events, overtaken>>
    BY <1>4 DEF Next, vars, New, ExecuteActivity, Get, Sleep, ReceiveSignal, Return, Crash
  <2>2. QED
    BY <2>1, KeptItself
<1>5. QED
  BY <1>2, <1>3, <1>4

\* The replay that got furthest is the same, or it is the one that has ended.
LEMMA FurthestIs ==
  ASSUME ResumeInv, [Next]_vars
  PROVE  \/ UNCHANGED furthest /\ (Respond \/ UNCHANGED status)
         \/ /\ Respond \/ Crash
            /\ state \in Ended /\ state' = "idle"
            /\ furthest'.pc = pc /\ furthest'.state = state
            /\ furthest.state \notin {"returned", "failed"}
<1>1. CASE UNCHANGED furthest
  <2>1. Respond \/ UNCHANGED status
    BY DEF Next, vars, New, ExecuteActivity, Get, Sleep, ReceiveSignal, Return,
         Crash, FinishActivity, FireTimer, SignalWorkflow, Arrive
  <2>2. QED
    BY <1>1, <2>1
<1>2. CASE furthest' # furthest
  <2>1. (Respond \/ Crash) /\ state \in Ended /\ furthest' = Furthest /\ state' = "idle"
    BY <1>2 DEF Next, vars, New, ExecuteActivity, Get, Sleep, ReceiveSignal, Return,
         Respond, Crash, FinishActivity, FireTimer, SignalWorkflow, Arrive
  <2>2. /\ furthest' = [pc |-> pc, state |-> state]
        /\ furthest.state \notin {"returned", "failed"}
    BY <1>2, <2>1 DEF Furthest
  <2>3. QED
    BY <2>1, <2>2
<1>3. QED
  BY <1>1, <1>2

LEMMA StaysInPlace ==
  ASSUME ResumeInv, [Next]_vars, ~overtaken'
  PROVE  InPlace'
<1>0. ReplayInv /\ TypeOK
  BY DEF ResumeInv, ReplayInv, CountInv
<1>1. fn \in Seq(Call) /\ fn' = fn
  <2>1. fn' = fn
    BY DEF Next, vars, New, ExecuteActivity, Get, Sleep, ReceiveSignal, Return, Respond, Crash,
           FinishActivity, FireTimer, SignalWorkflow, Arrive
  <2>2. QED
    BY <1>0, <2>1, FunctionCalls DEF WellFormed
<1>2. ~overtaken /\ Kept(fn, events, events')
  BY <1>0, EventsKeep
<1>3. InPlace
  BY <1>2 DEF ResumeInv
<1>4. CASE UNCHANGED furthest
  <2>1. Reached(fn, events', furthest.pc, furthest.state)
    BY <1>1, <1>2, <1>3, ReachedKept DEF InPlace
  <2>2. CASE New
    <3>1. history' = events /\ events' = events
      BY <2>2 DEF New
    <3>2. Kept(fn, history', events')
      BY <3>1, KeptItself
    <3>3. QED
      BY <1>1, <1>4, <2>1, <3>1, <3>2 DEF InPlace
  <2>3. CASE ~New
    <3>1. state' # "idle" => state # "idle" /\ history' = history
      BY <2>3 DEF Next, vars, context, ExecuteActivity, Get, Sleep, ReceiveSignal, Return,
           Respond, Crash, FinishActivity, FireTimer, SignalWorkflow, Arrive, Calls
    <3>2. state # "idle" => Kept(fn, history, events')
      BY <1>2, <1>3, KeptThird DEF InPlace
    <3>3. QED
      BY <1>1, <1>3, <1>4, <2>1, <3>1, <3>2 DEF InPlace
  <2>4. QED
    BY <2>2, <2>3
<1>5. CASE ~UNCHANGED furthest
  <2>1. /\ state \in Ended /\ state' = "idle"
        /\ furthest'.pc = pc /\ furthest'.state = state
    BY <1>5, FurthestIs
  <2>2. Reached(fn, history, pc, state) /\ Kept(fn, history, events)
    BY <1>0, <1>3, <2>1, ReplayReaches DEF InPlace, Ended
  <2>3. Kept(fn, history, events')
    BY <1>2, <2>2, KeptThird
  <2>4. Reached(fn, events', pc, state)
    BY <1>1, <2>2, <2>3, ReachedKept
  <2>5. QED
    BY <1>1, <2>1, <2>4 DEF InPlace
<1>6. QED
  BY <1>4, <1>5

LEMMA ClosesAsEnded ==
  ASSUME ResumeInv, [Next]_vars, ~overtaken'
  PROVE  ClosedAsItEnded'
<1>0. ReplayInv /\ TypeOK /\ ~overtaken /\ ResumesWhereItLeftOff
  BY EventsKeep, ResumeAgain DEF ResumeInv, ReplayInv, CountInv
<1>1. CASE Respond
  <2>1. /\ state \in Ended /\ furthest' = Furthest
        /\ status' = status \/ status' = StatusAfterwards
    BY <1>1 DEF Respond
  <2>2. CASE furthest' = furthest /\ status' = status
    BY <1>0, <2>2 DEF ResumeInv, ClosedAsItEnded
  <2>3. CASE furthest' = furthest /\ status' # status
    <3>1. status' = StatusAfterwards /\ state \in {"returned", "failed"}
      BY <2>1, <2>3 DEF StatusAfterwards
    <3>2. pc >= furthest.pc
      BY <1>0, <2>1 DEF ResumesWhereItLeftOff
    <3>3. furthest.state \in {"returned", "failed"} => state = furthest.state
      BY <1>0, <2>1 DEF ResumesWhereItLeftOff
    <3>4. furthest'.state = state
      BY <2>1, <3>2, <3>3 DEF Furthest
    <3>5. QED
      BY <3>1, <3>4 DEF StatusAfterwards, ClosedAsItEnded
  <2>4. CASE furthest' # furthest
    <3>1. furthest'.state = state /\ furthest.state \notin {"returned", "failed"}
      BY <2>4, FurthestIs
    <3>2. status = "Running"
      BY <1>0, <3>1 DEF ResumeInv, ClosedAsItEnded, TypeOK
    <3>3. QED
      BY <2>1, <3>1, <3>2 DEF ClosedAsItEnded, StatusAfterwards
  <2>5. QED
    BY <2>2, <2>3, <2>4
<1>2. CASE ~Respond
  <2>1. status' = status
    BY <1>2 DEF Next, vars, New, ExecuteActivity, Get, Sleep, ReceiveSignal, Return,
         Crash, FinishActivity, FireTimer, SignalWorkflow, Arrive
  <2>2. CASE furthest' = furthest
    BY <1>0, <2>1, <2>2 DEF ResumeInv, ClosedAsItEnded
  <2>3. CASE furthest' # furthest
    <3>1. status = "Running"
      BY <1>0, <2>3, FurthestIs DEF ResumeInv, ClosedAsItEnded, TypeOK
    <3>2. QED
      BY <2>1, <3>1 DEF ClosedAsItEnded
  <2>4. QED
    BY <2>2, <2>3
<1>3. QED
  BY <1>1, <1>2

LEMMA ResumeStep == ResumeInv /\ [Next]_vars => ResumeInv'
<1> SUFFICES ASSUME ResumeInv, [Next]_vars PROVE ResumeInv'
  OBVIOUS
<1>1. ReplayInv'
  BY ReplayStep DEF ResumeInv
<1>2. CASE ~overtaken'
  BY <1>1, <1>2, StaysInPlace, ClosesAsEnded DEF ResumeInv
<1>3. CASE overtaken'
  BY <1>1, <1>3 DEF ResumeInv, ClosedAsItEnded
<1>4. QED
  BY <1>2, <1>3

\* Until an outcome comes to be read before an earlier one of its activity, or
\* a signal before an earlier one of its name, no replay stops before an
\* earlier one of the run did, and one that has returned or failed does so
\* again in the same place.
THEOREM ReplaysResume == Spec => []ResumesUnlessOvertaken
<1>1. ResumeInv => ResumesUnlessOvertaken
  BY ResumeAgain DEF ResumesUnlessOvertaken
<1>2. QED
  BY <1>1, ResumeInit, ResumeStep, PTL DEF Spec

\* Until then, a closed run is one whose function did end that way.
THEOREM RunsCloseAsTheyEnd == Spec => []ClosedAsItEnded
<1>1. ResumeInv => ClosedAsItEnded
  BY DEF ResumeInv
<1>2. QED
  BY <1>1, ResumeInit, ResumeStep, PTL DEF Spec

=============================================================================
