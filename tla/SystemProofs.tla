---------------------------- MODULE SystemProofs ----------------------------
(***************************************************************************)
(* Theorems about System: it is History with workers that replay, so that  *)
(* what is proved of the engine holds of it, with such workers the status  *)
(* of a run has its reason in the outcomes of the activities, and no       *)
(* answer asks for what the history it is based on has already.            *)
(***************************************************************************)
EXTENDS System, TableProofs

-----------------------------------------------------------------------------
(* A deployment is an engine *)

LEMMA SystemSteps == [SystemNext]_systemVars => [Next]_vars
<1>1. ASSUME SystemNext PROVE Next
  <2>1. CASE Step
    <3>1. ASSUME NEW w \in Workers, WorkerStep(w) PROVE WorkerNext(w)
      BY <3>1 DEF WorkerStep, WorkerNext
    <3>2. ASSUME NEW c \in Clients, ClientCalls(c) \/ ClientStep(c) PROVE ClientNext(c)
      BY <3>2 DEF ClientCalls, ClientStep, ClientNext
    <3>3. ASSUME NEW s \in Scanners, ScannerStep(s) PROVE ScannerNext(s)
      BY <3>3 DEF ScannerStep, ScannerNext
    <3>4. ReclaimOrphan => EngineNext
      BY DEF ReclaimOrphan, OrphanedLeases, EngineNext
    <3>5. SomeBackoffElapses \/ SomeTimerDue => EngineNext
      BY DEF SomeBackoffElapses, SomeTimerDue, EngineNext
    <3>6. QED
      BY <2>1, <3>1, <3>2, <3>3, <3>4, <3>5 DEF Step, Next
  <2>2. CASE Fault
    <3>1. ASSUME NEW t \in tasks, t.leased, ReclaimExpiredLeases({t}) PROVE EngineNext
      BY <3>1 DEF EngineNext
    <3>2. QED
      BY <2>2, <3>1 DEF Fault, Next, WorkerNext, ScannerNext, ClientNext
  <2>3. QED
    BY <1>1, <2>1, <2>2 DEF SystemNext
<1>2. QED
  BY <1>1 DEF systemVars, vars

\* What holds of every behaviour of the engine holds of every deployment.
THEOREM SystemRunsTheEngine == SystemSpec => Spec
BY SystemSteps, PTL DEF SystemSpec, SystemInit, Spec

\* In particular no activity, no wake-up and no cause is lost in one.
THEOREM DeploymentsLoseNothing ==
  SystemSpec => [](ActivityNotLost /\ WakeNotLost /\ OutcomeAfterCause)
BY SystemRunsTheEngine, ActivitiesAreNotLost, WakesAreNotLost, CausesComeFirst, PTL

-----------------------------------------------------------------------------
(* What a worker is sent *)

\* R orders S strictly, and i is the m-th in that order.
Orders(R, S) ==
  /\ \A i, j \in S : i # j => <<i, j>> \in R \/ <<j, i>> \in R
  /\ \A i \in S : <<i, i>> \notin R
  /\ \A i, j, k \in S : <<i, j>> \in R /\ <<j, k>> \in R => <<i, k>> \in R

IsPlace(R, S, i, m) == 1 + Cardinality({j \in S : <<j, i>> \in R}) = m

\* Every place is taken, and by one element.
LEMMA Numbered ==
  ASSUME NEW S, IsFiniteSet(S), NEW R, Orders(R, S)
  PROVE  /\ \A m \in 1..Cardinality(S) : \E i \in S : IsPlace(R, S, i, m)
         /\ \A i \in S : \E m \in 1..Cardinality(S) : IsPlace(R, S, i, m)
         /\ \A i, j \in S : \A m : IsPlace(R, S, i, m) /\ IsPlace(R, S, j, m) => i = j
<1> DEFINE n == Cardinality(S)
           B(i) == {j \in S : <<j, i>> \in R}
           f == [i \in S |-> 1 + Cardinality(B(i))]
<1>1. n \in Nat
  BY FS_CardinalityType
<1>2. \A i \in S : B(i) \subseteq S /\ i \notin B(i)
  BY DEF Orders
<1>3. ASSUME NEW i \in S
      PROVE  IsFiniteSet(B(i)) /\ Cardinality(B(i)) \in Nat /\ Cardinality(B(i)) < n
  <2>1. B(i) \subseteq S /\ B(i) # S
    BY <1>2
  <2> HIDE DEF B
  <2>2. IsFiniteSet(B(i)) /\ Cardinality(B(i)) <= n /\ Cardinality(B(i)) # n
    BY <2>1, FS_Subset
  <2>3. Cardinality(B(i)) \in Nat
    BY <2>2, FS_CardinalityType
  <2>4. QED
    BY <1>1, <2>2, <2>3
<1>4. ASSUME NEW i \in S, NEW j \in S, <<i, j>> \in R
      PROVE  Cardinality(B(i)) < Cardinality(B(j))
  <2>1. B(i) \subseteq B(j) /\ B(i) # B(j)
    <3>1. \A k \in S : <<k, i>> \in R => <<k, j>> \in R
      BY <1>4 DEF Orders
    <3>2. i \in B(j) /\ i \notin B(i)
      BY <1>2, <1>4
    <3>3. QED
      BY <3>1, <3>2
  <2> HIDE DEF B
  <2>2. Cardinality(B(i)) <= Cardinality(B(j)) /\ Cardinality(B(i)) # Cardinality(B(j))
    BY <1>3, <2>1, FS_Subset
  <2>3. QED
    BY <1>3, <2>2
<1>5. f \in [S -> 1..n]
  <2>1. ASSUME NEW i \in S PROVE 1 + Cardinality(B(i)) \in 1..n
    <3>1. PICK k : k = Cardinality(B(i))
      OBVIOUS
    <3>2. k \in Nat /\ k < n
      BY <1>3, <3>1
    <3>3. QED
      BY <1>1, <3>1, <3>2
  <2>2. QED
    BY <2>1
<1>6. \A i, j \in S : i # j => f[i] # f[j]
  <2>1. SUFFICES ASSUME NEW i \in S, NEW j \in S, i # j PROVE f[i] # f[j]
    OBVIOUS
  <2>2. f[i] = 1 + Cardinality(B(i)) /\ f[j] = 1 + Cardinality(B(j))
    OBVIOUS
  <2>3. <<i, j>> \in R \/ <<j, i>> \in R
    BY <2>1 DEF Orders
  <2> HIDE DEF B, f
  <2>4. QED
    BY <1>3, <1>4, <2>2, <2>3
<1>7. \A i \in S : \A m : IsPlace(R, S, i, m) <=> f[i] = m
  BY DEF IsPlace
<1> HIDE DEF f
<1>8. f \in Injection(S, 1..n)
  BY <1>5, <1>6 DEF Injection, IsInjective
<1>9. IsFiniteSet(1..n) /\ Cardinality(1..n) = n
  BY <1>1, FS_Interval
<1>10. f \in Surjection(S, 1..n)
  BY <1>8, <1>9, FS_Injection
<1>11. \A m \in 1..n : \E i \in S : f[i] = m
  BY <1>10 DEF Surjection
<1>12. QED
  BY <1>5, <1>6, <1>7, <1>11

\* Whatever the order of rows with the same id, the events that a worker is
\* sent are those of the history.
LEMMA PolledEvents ==
  ASSUME NEW h \in Seq(Event), NEW lastFirst \in BOOLEAN
  PROVE  LET p == PolledHistory(h, lastFirst) IN
         /\ DOMAIN p = DOMAIN h
         /\ \A n \in DOMAIN p : \E i \in DOMAIN h : p[n] = Marshal(h[i])
         /\ \A i \in DOMAIN h : \E n \in DOMAIN p : p[n] = Marshal(h[i])
<1> DEFINE P(j, i) == \/ h[j].id < h[i].id
                      \/ h[j].id = h[i].id /\ (IF lastFirst THEN j > i ELSE j < i)
           N == Len(h)
           place(i) == 1 + Cardinality({j \in DOMAIN h : P(j, i)})
           at(n) == CHOOSE i \in DOMAIN h : place(i) = n
           all == [n \in DOMAIN h |-> Marshal(h[at(n)])]
<1>1. /\ DOMAIN h = 1..N /\ N \in Nat
      /\ \A i \in 1..N : h[i].id \in Int
  <2>1. DOMAIN h = 1..N /\ N \in Nat /\ \A i \in 1..N : h[i] \in Event
    BY LenProperties, ElementOfSeq
  <2>2. QED
    BY <2>1 DEF Event
<1>2. /\ \A i, j \in 1..N : i # j => P(i, j) \/ P(j, i)
      /\ \A i \in 1..N : ~P(i, i)
      /\ \A i, j, k \in 1..N : P(i, j) /\ P(j, k) => P(i, k)
  BY <1>1
<1>3. /\ \A n \in 1..N : \E i \in 1..N : place(i) = n
      /\ \A i \in 1..N : place(i) \in 1..N
      /\ \A i, j \in 1..N : place(i) = place(j) => i = j
  <2> DEFINE R == {x \in (1..N) \X (1..N) : P(x[1], x[2])}
  <2>1. \A i, j \in 1..N : <<i, j>> \in R <=> P(i, j)
    OBVIOUS
  <2> HIDE DEF P, R
  <2>2. Orders(R, 1..N)
    BY <1>2, <2>1 DEF Orders
  <2>3. IsFiniteSet(1..N) /\ Cardinality(1..N) = N
    <3> HIDE DEF N
    <3>1. N \in Nat
      BY <1>1
    <3>2. QED
      BY ONLY <3>1, FS_Interval
  <2>4. ASSUME NEW i \in 1..N, NEW m PROVE IsPlace(R, 1..N, i, m) <=> place(i) = m
    <3>1. {j \in 1..N : <<j, i>> \in R} = {j \in DOMAIN h : P(j, i)}
      BY <1>1, <2>1
    <3>2. QED
      BY <3>1 DEF IsPlace
  <2> HIDE DEF place
  <2>5. /\ \A m \in 1..N : \E i \in 1..N : IsPlace(R, 1..N, i, m)
        /\ \A i \in 1..N : \E m \in 1..N : IsPlace(R, 1..N, i, m)
        /\ \A i, j \in 1..N : \A m :
             IsPlace(R, 1..N, i, m) /\ IsPlace(R, 1..N, j, m) => i = j
    <3> DEFINE S == 1..N
    <3> HIDE DEF S
    <3>1. /\ \A m \in 1..Cardinality(S) : \E i \in S : IsPlace(R, S, i, m)
          /\ \A i \in S : \E m \in 1..Cardinality(S) : IsPlace(R, S, i, m)
          /\ \A i, j \in S : \A m : IsPlace(R, S, i, m) /\ IsPlace(R, S, j, m) => i = j
      <4>1. IsFiniteSet(S) /\ Orders(R, S)
        BY <2>2, <2>3 DEF S
      <4>2. QED
        BY ONLY <4>1, Numbered
    <3>2. QED
      BY <2>3, <3>1 DEF S
  <2>6. \A n \in 1..N : \E i \in 1..N : place(i) = n
    BY <2>4, <2>5
  <2>7. ASSUME NEW i \in 1..N PROVE place(i) \in 1..N
    <3>1. PICK m \in 1..N : IsPlace(R, 1..N, i, m)
      BY <2>5
    <3>2. place(i) = m
      BY <2>4, <3>1
    <3>3. QED
      BY <3>2
  <2>8. ASSUME NEW i \in 1..N, NEW j \in 1..N, place(i) = place(j) PROVE i = j
    BY <2>4, <2>5, <2>8
  <2>9. QED
    BY <2>6, <2>7, <2>8
<1> HIDE DEF place
<1>4. \A n \in 1..N : at(n) \in 1..N /\ place(at(n)) = n
  BY <1>1, <1>3
<1>5. \A i \in 1..N : at(place(i)) = i
  BY <1>3, <1>4
<1> HIDE DEF at
<1>6. /\ DOMAIN all = 1..N
      /\ \A n \in 1..N : \E i \in DOMAIN h : all[n] = Marshal(h[i])
      /\ \A i \in DOMAIN h : \E n \in 1..N : all[n] = Marshal(h[i])
  BY <1>1, <1>3, <1>4, <1>5
<1>7. PolledHistory(h, lastFirst) = SubSeq(all, 1, N)
  BY DEF PolledHistory, at, place
<1> HIDE DEF all
<1>8. SubSeq(all, 1, N) = [n \in 1..N |-> all[n]]
  BY <1>1, SubSeqProperties
<1>9. PICK p : p = PolledHistory(h, lastFirst)
  OBVIOUS
<1>10. DOMAIN p = 1..N /\ \A n \in 1..N : p[n] = all[n]
  BY <1>7, <1>8, <1>9
<1>11. /\ DOMAIN p = DOMAIN h
       /\ \A n \in DOMAIN p : \E i \in DOMAIN h : p[n] = Marshal(h[i])
       /\ \A i \in DOMAIN h : \E n \in DOMAIN p : p[n] = Marshal(h[i])
  <2>1. DOMAIN p = DOMAIN h
    BY <1>1, <1>10
  <2>2. ASSUME NEW n \in DOMAIN p PROVE \E i \in DOMAIN h : p[n] = Marshal(h[i])
    BY <1>6, <1>10
  <2>3. ASSUME NEW i \in DOMAIN h PROVE \E n \in DOMAIN p : p[n] = Marshal(h[i])
    BY <1>6, <1>10
  <2>4. QED
    BY <2>1, <2>2, <2>3
<1>12. QED
  BY <1>9, <1>11

-----------------------------------------------------------------------------
(* Why a replay closes the run *)

LEMMA LeastNumber ==
  ASSUME NEW S \in SUBSET Nat, S # {}
  PROVE  W!Min(S) \in S /\ \A m \in S : W!Min(S) <= m
<1> DEFINE Lt == OpToRel(<, Nat)
<1>1. \A m, n \in Nat : <<m, n>> \in Lt <=> m < n
  BY DEF OpToRel
<1> HIDE DEF Lt
<1>2. IsWellFoundedOn(Lt, Nat)
  BY NatLessThanWellFounded DEF Lt
<1>3. PICK n \in S : \A m \in S : ~(<<m, n>> \in Lt)
  BY <1>2, WFMin
<1>4. \A m \in S : m \in Nat /\ n \in Nat /\ ~(m < n)
  BY <1>1, <1>3
<1>5. \A m \in S : n <= m
  BY <1>4
<1>6. QED
  BY <1>5 DEF W!Min

\* Each activity whose error the function heeds has succeeded in h;  one has
\* failed.
AllSucceeded(h) ==
  \A i \in DOMAIN Function : Function[i].op = "Get" /\ Function[i].heeds # "nothing" =>
    \E n \in DOMAIN h : h[n].type = "ActivityCompleted" /\ h[n].key = Function[i].future

OneFailed(h) == \E n \in DOMAIN h : h[n].type = "ActivityFailed"

LEMMA FunctionCalls ==
  /\ DOMAIN Function = 1..Len(Function) /\ Len(Function) \in Nat
  /\ \A i \in DOMAIN Function : Function[i].op \in {"Execute", "Get", "Sleep", "Receive"}
<1>1. Function \in Seq(W!Call)
  BY FunctionAssumption DEF W!WellFormed
<1>2. \A i \in DOMAIN Function : Function[i] \in W!Call
  BY <1>1, ElementOfSeq, LenProperties
<1>3. QED
  BY <1>1, <1>2, LenProperties DEF W!Call

\* Where a function stops it is not got past, and before that it is.
LEMMA Stops ==
  ASSUME NEW p
  PROVE  LET at == W!StopsAt(Function, p) IN
         /\ at \in DOMAIN Function => ~W!GetsPast(Function, p, at)
         /\ at \notin DOMAIN Function => at = Len(Function) + 1
         /\ at = Len(Function) + 1 =>
              \A i \in DOMAIN Function : W!GetsPast(Function, p, i)
<1> DEFINE L == Len(Function)
           S == {i \in DOMAIN Function : ~W!GetsPast(Function, p, i)} \cup {L + 1}
<1>1. DOMAIN Function = 1..L /\ L \in Nat
  BY FunctionCalls
<1>2. S \in SUBSET Nat /\ S # {}
  BY <1>1
<1>3. /\ \A i \in S : i = L + 1 \/ (i \in DOMAIN Function /\ ~W!GetsPast(Function, p, i))
      /\ \A i \in DOMAIN Function : i \notin S => W!GetsPast(Function, p, i)
      /\ L + 1 \notin DOMAIN Function /\ \A i \in DOMAIN Function : ~(L + 1 <= i)
  BY <1>1
<1>4. W!StopsAt(Function, p) = W!Min(S)
  BY DEF W!StopsAt
<1> HIDE DEF S, L
<1>5. W!Min(S) \in S /\ \A m \in S : W!Min(S) <= m
  BY <1>2, LeastNumber
<1>6. QED
  BY <1>3, <1>4, <1>5 DEF L

\* The events that answer a call are in the history, and of its kind.
LEMMA AnswersFound ==
  ASSUME NEW p, NEW N \in Nat, DOMAIN p = 1..N, NEW i \in DOMAIN Function,
         W!Answers(Function, p, i) # {}
  PROVE  LET e == p[W!Min(W!Answers(Function, p, i))] IN
         /\ W!Min(W!Answers(Function, p, i)) \in DOMAIN p
         /\ Function[i].op = "Get" =>
              /\ e.type \in {"ActivityCompleted", "ActivityFailed"}
              /\ e.index = Function[i].future
         /\ Function[i].op = "Sleep" => e.type = "TimerFired"
         /\ Function[i].op = "Receive" => e.type = "SignalReceived"
<1> DEFINE A == W!Answers(Function, p, i)
<1>1. /\ A \subseteq DOMAIN p
      /\ Function[i].op = "Get" =>
           \A j \in A : /\ p[j].type \in {"ActivityCompleted", "ActivityFailed"}
                        /\ p[j].index = Function[i].future
      /\ Function[i].op = "Sleep" => \A j \in A : p[j].type = "TimerFired"
      /\ Function[i].op = "Receive" => \A j \in A : p[j].type = "SignalReceived"
  <2>1. CASE Function[i].op = "Get"
    BY <2>1 DEF W!Answers, W!Outcomes, W!ActivityOutcomes
  <2>2. CASE Function[i].op = "Sleep"
    BY <2>2 DEF W!Answers
  <2>3. CASE Function[i].op = "Receive"
    BY <2>3 DEF W!Answers, W!Signals
  <2>4. CASE Function[i].op = "Execute"
    BY <2>4 DEF W!Answers
  <2>5. QED
    BY <2>1, <2>2, <2>3, <2>4, FunctionCalls
<1> HIDE DEF A
<1>2. A \in SUBSET Nat /\ A # {}
  BY <1>1 DEF A
<1>3. W!Min(A) \in A
  BY <1>2, LeastNumber
<1>4. QED
  BY <1>1, <1>3 DEF A

\* The calls that leave a command, and the n-th of them.
Issuing(p) == {i \in DOMAIN Function : W!Issues(Function, p, i)}

Nth(p, n) ==
  CHOOSE i \in Issuing(p) : W!Cardinality({j \in Issuing(p) : j < i}) = n - 1

\* Each of these calls is the n-th for one n.
LEMMA NthIssuing ==
  ASSUME NEW p
  PROVE  LET n == Cardinality(Issuing(p)) IN
         /\ n \in Nat
         /\ \A k \in 1..n : Nth(p, k) \in Issuing(p)
         /\ \A k, l \in 1..n : Nth(p, k) = Nth(p, l) => k = l
<1> DEFINE I == Issuing(p)
           R == {x \in I \X I : x[1] < x[2]}
           n == Cardinality(I)
<1>1. I \subseteq 1..Len(Function) /\ Len(Function) \in Nat
  BY FunctionCalls DEF Issuing
<1>2. IsFiniteSet(I) /\ n \in Nat
  <2>1. IsFiniteSet(1..Len(Function))
    BY <1>1, FS_Interval
  <2> HIDE DEF I
  <2>2. QED
    BY <1>1, <2>1, FS_Subset, FS_CardinalityType
<1> HIDE DEF I, n
<1>3. \A i, j \in I : <<i, j>> \in R <=> i < j
  OBVIOUS
<1> HIDE DEF R
<1>4. Orders(R, I)
  <2>1. \A i \in I : i \in Nat
    BY <1>1
  <2>2. QED
    BY <1>3, <2>1 DEF Orders
<1>5. \A m \in 1..Cardinality(I) : \E i \in I : IsPlace(R, I, i, m)
  BY ONLY <1>2, <1>4, Numbered
<1>6. ASSUME NEW i \in I, NEW k \in 1..n
      PROVE  IsPlace(R, I, i, k) <=> W!Cardinality({j \in I : j < i}) = k - 1
  <2>1. {j \in I : <<j, i>> \in R} = {j \in I : j < i}
    BY <1>3
  <2>2. IsFiniteSet({j \in I : j < i})
    BY <1>2, FS_Subset
  <2>3. PICK c : c = Cardinality({j \in I : j < i})
    OBVIOUS
  <2>4. c \in Nat /\ k \in Int
    BY <1>2, <2>2, <2>3, FS_CardinalityType
  <2>5. IsPlace(R, I, i, k) <=> 1 + c = k
    BY <2>1, <2>3 DEF IsPlace
  <2>6. W!Cardinality({j \in I : j < i}) = c
    BY <2>3 DEF W!Cardinality, Cardinality
  <2>7. QED
    BY <2>4, <2>5, <2>6
<1>7. ASSUME NEW k \in 1..n
      PROVE  Nth(p, k) \in I /\ W!Cardinality({j \in I : j < Nth(p, k)}) = k - 1
  <2>1. \E i \in I : W!Cardinality({j \in I : j < i}) = k - 1
    BY <1>5, <1>6 DEF n
  <2>2. QED
    BY <2>1 DEF Nth, I
<1>8. ASSUME NEW k \in 1..n, NEW l \in 1..n, Nth(p, k) = Nth(p, l) PROVE k = l
  <2>1. PICK c : c = W!Cardinality({j \in I : j < Nth(p, k)})
    OBVIOUS
  <2>2. c = k - 1 /\ c = l - 1
    BY <1>7, <1>8, <2>1
  <2>3. k \in Int /\ l \in Int
    BY <1>2
  <2>4. QED
    BY <2>2, <2>3
<1>9. QED
  BY <1>2, <1>7, <1>8 DEF I, n

\* A command is that of one of these calls, or the last one, which says where
\* the function stopped.
LEMMA CommandList ==
  ASSUME NEW p
  PROVE  LET n  == Cardinality(Issuing(p))
             cs == W!Commands(Function, p) IN
         \A k \in DOMAIN cs :
           \/ k \in 1..n /\ cs[k] = W!CommandOf(Function, Nth(p, k))
           \/ /\ ~W!Pauses(Function, p)
              /\ cs[k].type = IF W!StopsAt(Function, p) = Len(Function) + 1
                              THEN "CompleteWorkflow" ELSE "FailWorkflow"
<1> DEFINE n == Cardinality(Issuing(p))
           A == [m \in 1..n |-> W!CommandOf(Function, Nth(p, m))]
           B == W!LastCommand(Function, p)
           last == [type |-> IF W!StopsAt(Function, p) = Len(Function) + 1
                             THEN "CompleteWorkflow" ELSE "FailWorkflow",
                    name |-> "", index |-> 0]
           S == {A[m] : m \in 1..n} \cup {last}
<1>1. W!Commands(Function, p) = A \o B
  <2>1. W!Cardinality(Issuing(p)) = n
    BY DEF W!Cardinality, Cardinality
  <2>2. QED
    BY <2>1 DEF W!Commands, Issuing, Nth
<1>2. n \in Nat
  BY NthIssuing
<1>3. B = (IF W!Pauses(Function, p) THEN <<>> ELSE <<last>>)
  BY DEF W!LastCommand
<1>4. last.type = IF W!StopsAt(Function, p) = Len(Function) + 1
                  THEN "CompleteWorkflow" ELSE "FailWorkflow"
  OBVIOUS
<1> HIDE DEF n, last
<1>5. /\ A \in Seq(S) /\ B \in Seq(S)
      /\ Len(A) = n /\ Len(B) \in Nat
  <2>1. A \in [1..n -> S]
    OBVIOUS
  <2>2. <<>> \in Seq(S) /\ <<last>> \in Seq(S)
    OBVIOUS
  <2> HIDE DEF A, S
  <2>3. A \in Seq(S) /\ Len(A) = n
    BY <1>2, <2>1, SeqOfFunction
  <2>4. B \in Seq(S)
    BY <1>3, <2>2
  <2>5. QED
    BY <2>3, <2>4, LenProperties
<1>6. \A m \in 1..n : A[m] = W!CommandOf(Function, Nth(p, m))
  OBVIOUS
<1> HIDE DEF A, B, S
<1>7. /\ A \o B \in Seq(S) /\ Len(A \o B) = n + Len(B)
      /\ \A m \in 1..n + Len(B) :
           (A \o B)[m] = IF m <= n THEN A[m] ELSE B[m - n]
  BY <1>5, ConcatProperties
<1>8. DOMAIN (A \o B) = 1..(n + Len(B))
  BY <1>7, LenProperties
<1>9. SUFFICES ASSUME NEW k \in 1..(n + Len(B))
      PROVE  \/ k \in 1..n /\ (A \o B)[k] = W!CommandOf(Function, Nth(p, k))
             \/ ~W!Pauses(Function, p) /\ (A \o B)[k].type = last.type
  BY <1>1, <1>4, <1>8 DEF n
<1>10. CASE k <= n
  <2>1. k \in 1..n
    BY <1>2, <1>5, <1>10
  <2>2. QED
    BY <1>6, <1>7, <1>10, <2>1
<1>11. CASE ~(k <= n)
  <2>1. Len(B) # 0
    BY <1>2, <1>5, <1>11
  <2>2. ~W!Pauses(Function, p) /\ B = <<last>>
    BY <1>3, <2>1
  <2>3. k - n = 1
    <3>1. Len(B) = 1
      BY <2>2
    <3>2. QED
      BY <1>2, <1>11, <3>1
  <2>4. (A \o B)[k] = last
    BY <1>7, <1>11, <2>2, <2>3
  <2>5. QED
    BY <2>2, <2>4
<1>12. QED
  BY <1>10, <1>11

LEMMA ClosingCommand ==
  ASSUME NEW p, NEW t \in {"CompleteWorkflow", "FailWorkflow"},
         NEW k \in DOMAIN W!Commands(Function, p),
         W!Commands(Function, p)[k].type = t
  PROVE  /\ ~W!Pauses(Function, p)
         /\ (W!StopsAt(Function, p) = Len(Function) + 1) <=> (t = "CompleteWorkflow")
<1>1. \A i : W!CommandOf(Function, i).type \in {"ScheduleActivity", "StartTimer"}
  BY DEF W!CommandOf
<1>2. QED
  BY <1>1, CommandList

\* Only with its reason in the history does an answer close the run.
LEMMA ClosingReasons ==
  ASSUME NEW h \in Seq(Event), NEW c \in Seq(Command), ReplayDecides(h, c)
  PROVE  /\ CommandsOf("CompleteWorkflow", c) # {} => AllSucceeded(h)
         /\ CommandsOf("FailWorkflow", c) # {} => OneFailed(h)
<1>1. PICK lastFirst \in BOOLEAN :
        c = Unmarshal(W!Commands(Function, PolledHistory(h, lastFirst)))
  BY DEF ReplayDecides
<1> DEFINE p == PolledHistory(h, lastFirst)
           cs == W!Commands(Function, p)
<1>2. /\ DOMAIN p = DOMAIN h /\ DOMAIN h = 1..Len(h) /\ Len(h) \in Nat
      /\ \A n \in DOMAIN p : \E i \in DOMAIN h : p[n] = Marshal(h[i])
  BY PolledEvents, LenProperties
<1>3. \A type : CommandsOf(type, c) # {} => \E k \in DOMAIN cs : cs[k].type = type
  <2>1. SUFFICES ASSUME NEW type, NEW k \in 1..Len(c), c[k].type = type
                 PROVE  \E l \in DOMAIN cs : cs[l].type = type
    BY DEF CommandsOf
  <2>2. DOMAIN c = DOMAIN cs /\ \A l \in DOMAIN cs : c[l].type = cs[l].type
    BY <1>1 DEF Unmarshal
  <2>4. k \in DOMAIN c
    BY <2>1, LenProperties
  <2>5. QED
    BY <2>1, <2>2, <2>4
<1> HIDE DEF p
<1>4. \A n \in DOMAIN p : \E i \in DOMAIN h :
        /\ p[n].type = h[i].type /\ p[n].index = h[i].key /\ p[n].good = TRUE
  <2>1. \A e : /\ Marshal(e).type = e.type /\ Marshal(e).index = e.key
               /\ Marshal(e).good = TRUE
    BY DEF Marshal
  <2>2. SUFFICES ASSUME NEW n \in DOMAIN p
        PROVE  \E i \in DOMAIN h : /\ p[n].type = h[i].type /\ p[n].index = h[i].key
                                   /\ p[n].good = TRUE
    OBVIOUS
  <2>3. PICK i \in DOMAIN h : p[n] = Marshal(h[i])
    BY <1>2
  <2>4. /\ p[n].type = h[i].type /\ p[n].index = h[i].key /\ p[n].good = TRUE
    BY <2>1, <2>3
  <2>5. QED
    BY <2>4
<1>5. ASSUME NEW i \in DOMAIN Function, W!Answers(Function, p, i) # {}
      PROVE  LET e == p[W!Min(W!Answers(Function, p, i))] IN
             /\ \E n \in DOMAIN h : e.type = h[n].type /\ e.index = h[n].key /\ e.good = TRUE
             /\ Function[i].op = "Get" =>
                  /\ e.type \in {"ActivityCompleted", "ActivityFailed"}
                  /\ e.index = Function[i].future
             /\ Function[i].op = "Sleep" => e.type = "TimerFired"
             /\ Function[i].op = "Receive" => e.type = "SignalReceived"
  <2>1. Len(h) \in Nat /\ DOMAIN p = 1..Len(h)
    BY <1>2
  <2>2. W!Min(W!Answers(Function, p, i)) \in DOMAIN p
    BY ONLY <1>5, <2>1, AnswersFound
  <2>3. QED
    BY ONLY <1>4, <1>5, <2>1, <2>2, AnswersFound
<1>6. ASSUME CommandsOf("CompleteWorkflow", c) # {} PROVE AllSucceeded(h)
  <2>1. PICK k \in DOMAIN cs : cs[k].type = "CompleteWorkflow"
    BY <1>3, <1>6
  <2>2. W!StopsAt(Function, p) = Len(Function) + 1
    BY <2>1, ClosingCommand
  <2>3. SUFFICES ASSUME NEW i \in DOMAIN Function, Function[i].op = "Get",
                        Function[i].heeds # "nothing"
        PROVE  \E n \in DOMAIN h : /\ h[n].type = "ActivityCompleted"
                                   /\ h[n].key = Function[i].future
    BY DEF AllSucceeded
  <2>4. W!GetsPast(Function, p, i)
    BY <2>2, Stops
  <2>5. /\ W!Answers(Function, p, i) # {}
        /\ p[W!Min(W!Answers(Function, p, i))].type # "ActivityFailed"
    BY <2>3, <2>4 DEF W!GetsPast, W!GoesOn
  <2>6. QED
    BY <1>5, <2>3, <2>5
<1>7. ASSUME CommandsOf("FailWorkflow", c) # {} PROVE OneFailed(h)
  <2>1. PICK k \in DOMAIN cs : cs[k].type = "FailWorkflow"
    BY <1>3, <1>7
  <2>2. PICK at : at = W!StopsAt(Function, p)
    OBVIOUS
  <2>3. at # Len(Function) + 1 /\ ~W!Pauses(Function, p)
    BY <2>1, <2>2, ClosingCommand
  <2>4. /\ at \in DOMAIN Function /\ ~W!GetsPast(Function, p, at)
        /\ W!Answers(Function, p, at) # {}
    BY <2>2, <2>3, Stops DEF W!Pauses
  <2>5. PICK e : e = p[W!Min(W!Answers(Function, p, at))]
    OBVIOUS
  <2>6. Function[at].op # "Execute" /\ ~W!GoesOn(Function[at], e)
    BY <2>4, <2>5 DEF W!GetsPast
  <2>7. \E n \in DOMAIN h : e.type = h[n].type /\ e.good = TRUE
    BY <1>5, <2>4, <2>5
  <2>8. e.type = "ActivityFailed"
    BY <2>6, <2>7 DEF W!GoesOn
  <2>9. QED
    BY <2>7, <2>8 DEF OneFailed
<1>8. QED
  BY <1>6, <1>7

-----------------------------------------------------------------------------
(* Why a replay asks for nothing again *)

\* A call of ExecuteActivity is known by the number of those before it.
LEMMA CallsApart ==
  ASSUME NEW i \in DOMAIN Function, NEW j \in DOMAIN Function,
         Function[i].op = "Execute", Function[j].op = "Execute",
         W!Before(Function, i) = W!Before(Function, j)
  PROVE  i = j
<1> DEFINE S == {m \in DOMAIN Function : Function[m].op = "Execute"}
           R == {x \in S \X S : x[1] < x[2]}
<1>1. DOMAIN Function = 1..Len(Function) /\ Len(Function) \in Nat
  BY FunctionCalls
<1>2. ASSUME NEW m \in S
      PROVE  1 + W!Before(Function, m) = 1 + Cardinality({l \in S : <<l, m>> \in R})
  <2>1. {l \in 1..(m - 1) : /\ Function[l].op = Function[m].op
                            /\ Function[m].op = "Receive" => Function[l].name = Function[m].name}
          = {l \in S : <<l, m>> \in R}
    BY <1>1
  <2>2. W!Before(Function, m) = Cardinality({l \in S : <<l, m>> \in R})
    BY <2>1 DEF W!Before, W!Cardinality, Cardinality
  <2>3. QED
    BY <2>2
<1>3. \A l, m \in S : <<l, m>> \in R <=> l < m
  OBVIOUS
<1>4. \A m \in S : m \in Nat
  BY <1>1
<1>5. IsFiniteSet(S)
  <2>1. S \subseteq 1..Len(Function) /\ IsFiniteSet(1..Len(Function))
    BY <1>1, FS_Interval
  <2> HIDE DEF S
  <2>2. QED
    BY <2>1, FS_Subset
<1>6. i \in S /\ j \in S
  OBVIOUS
<1> HIDE DEF S, R
<1>7. Orders(R, S)
  BY <1>3, <1>4 DEF Orders
<1>8. \A l, m \in S : \A n : IsPlace(R, S, l, n) /\ IsPlace(R, S, m, n) => l = m
  BY ONLY <1>5, <1>7, Numbered
<1>9. IsPlace(R, S, i, 1 + W!Before(Function, i))
  BY <1>2, <1>6 DEF IsPlace
<1>10. IsPlace(R, S, j, 1 + W!Before(Function, i))
  BY <1>2, <1>6 DEF IsPlace
<1>11. QED
  BY <1>6, <1>8, <1>9, <1>10

\* Of what the first n events of h have, no command of c asks for it again.
Anew(h, n, c) ==
  \A k \in 1..Len(c), i \in 1..n :
    h[i].type \in Asks /\ h[i].type = Recorded[c[k].type] => h[i].key # c[k].key

LEMMA AskedAnew ==
  ASSUME NEW h \in Seq(Event), NEW c \in Seq(Command), ReplayDecides(h, c)
  PROVE  Anew(h, Len(h), c)
<1>1. PICK lastFirst \in BOOLEAN :
        c = Unmarshal(W!Commands(Function, PolledHistory(h, lastFirst)))
  BY DEF ReplayDecides
<1> DEFINE p == PolledHistory(h, lastFirst)
           cs == W!Commands(Function, p)
<1>2. /\ 1..Len(c) = DOMAIN cs
      /\ \A k \in DOMAIN cs : c[k].type = cs[k].type /\ c[k].key = cs[k].index
  <2>1. DOMAIN c = DOMAIN cs
        /\ \A k \in DOMAIN cs : c[k].type = cs[k].type /\ c[k].key = cs[k].index
    BY <1>1 DEF Unmarshal
  <2>2. DOMAIN c = 1..Len(c)
    BY LenProperties
  <2>3. QED
    BY <2>1, <2>2
<1>3. /\ \A i \in DOMAIN h : \E n \in DOMAIN p : p[n] = Marshal(h[i])
      /\ DOMAIN h = 1..Len(h)
  BY PolledEvents, LenProperties
<1>a. \A k \in 1..Len(c) : c[k].type \in CommandTypes
  <2>1. \A k \in 1..Len(c) : c[k] \in Command
    BY ElementOfSeq
  <2>2. QED
    BY <2>1 DEF Command
<1> HIDE DEF p
<1>5. ASSUME NEW k \in DOMAIN cs, cs[k].type \in {"ScheduleActivity", "StartTimer"}
      PROVE  \E i \in DOMAIN Function :
               /\ W!Issues(Function, p, i) /\ cs[k].index = W!Before(Function, i)
               /\ Function[i].op = IF cs[k].type = "ScheduleActivity" THEN "Execute" ELSE "Sleep"
  <2>1. k \in 1..Cardinality(Issuing(p)) /\ cs[k] = W!CommandOf(Function, Nth(p, k))
    BY <1>5, CommandList
  <2>2. PICK i : i = Nth(p, k)
    OBVIOUS
  <2>3. i \in DOMAIN Function /\ W!Issues(Function, p, i)
    BY <2>1, <2>2, NthIssuing DEF Issuing
  <2>4. Function[i].op \in {"Execute", "Sleep"}
    BY <2>3 DEF W!Issues
  <2>5. /\ cs[k].index = W!Before(Function, i)
        /\ cs[k].type = IF Function[i].op = "Execute" THEN "ScheduleActivity" ELSE "StartTimer"
    <3>1. cs[k] = W!CommandOf(Function, i)
      BY <2>1, <2>2
    <3>2. /\ W!CommandOf(Function, i).index = W!Before(Function, i)
          /\ W!CommandOf(Function, i).type =
               IF Function[i].op = "Execute" THEN "ScheduleActivity" ELSE "StartTimer"
      BY DEF W!CommandOf
    <3>3. QED
      BY <3>1, <3>2
  <2>6. QED
    BY <1>5, <2>3, <2>4, <2>5
<1>6. SUFFICES ASSUME NEW k \in 1..Len(c), NEW n \in 1..Len(h), h[n].type \in Asks,
                      h[n].type = Recorded[c[k].type], h[n].key = c[k].key
               PROVE  FALSE
  BY DEF Anew
<1>7. /\ c[k].type \in {"ScheduleActivity", "StartTimer"}
      /\ h[n].type = IF c[k].type = "ScheduleActivity" THEN "ActivityScheduled" ELSE "TimerStarted"
  BY <1>a, <1>6 DEF Asks, Recorded, CommandTypes
<1>8. PICK i \in DOMAIN Function :
        /\ W!Issues(Function, p, i) /\ c[k].key = W!Before(Function, i)
        /\ Function[i].op = IF c[k].type = "ScheduleActivity" THEN "Execute" ELSE "Sleep"
  BY <1>2, <1>5, <1>7
<1>9. PICK m \in DOMAIN p : p[m] = Marshal(h[n])
  BY <1>3
<1>10. p[m].type = h[n].type /\ p[m].index = h[n].key /\ p[m].name = NameOf(h[n])
  BY <1>9 DEF Marshal
<1>11. CASE c[k].type = "ScheduleActivity"
  <2>1. Function[i].op = "Execute" /\ h[n].type = "ActivityScheduled"
    BY <1>7, <1>8, <1>11
  <2>2. NthCall("Execute", c[k].key) = i
    <3>1. \A j \in DOMAIN Function :
            Function[j].op = "Execute" /\ W!Before(Function, j) = W!Before(Function, i) => j = i
      BY <2>1, CallsApart
    <3>2. QED
      BY <1>8, <2>1, <3>1 DEF NthCall
  <2>3. p[m].name = Function[i].name
    BY <1>6, <1>10, <2>1, <2>2 DEF NameOf
  <2>4. W!IsScheduled(p, Function[i].name, W!Before(Function, i))
    BY <1>6, <1>8, <1>10, <2>1, <2>3 DEF W!IsScheduled
  <2>5. QED
    BY <1>8, <2>1, <2>4 DEF W!Issues
<1>12. CASE c[k].type = "StartTimer"
  <2>1. Function[i].op = "Sleep" /\ h[n].type = "TimerStarted"
    BY <1>7, <1>8, <1>12
  <2>2. W!HasTimer(p, "TimerStarted", W!Before(Function, i))
    BY <1>6, <1>8, <1>10, <2>1 DEF W!HasTimer
  <2>3. QED
    BY <1>8, <2>1, <2>2 DEF W!Issues
<1>13. QED
  BY <1>7, <1>11, <1>12

-----------------------------------------------------------------------------
(* The invariant *)

CanComplete(r) ==
  \A i \in DOMAIN Function :
    Function[i].op = "Get" /\ Function[i].heeds # "nothing" =>
      OutcomeOf(r, "ActivityCompleted", Function[i].future)

CanFail(r) == \E k \in Keys : OutcomeOf(r, "ActivityFailed", k)

\* With these commands a worker closes run r only if it has the reason.
Reasoned(cmds, r) ==
  /\ CommandsOf("CompleteWorkflow", cmds) # {} => CanComplete(r)
  /\ CommandsOf("FailWorkflow", cmds) # {} => CanFail(r)

AnswersHaveReason == \A w \in Workers : Reasoned(worker[w].cmds, worker[w].task.run)

\* No worker has been sent more than there is.
SeenCommitted ==
  \A w \in Workers : worker[w].seen <= Len(events[worker[w].task.run])

ReasonInv == CauseInv /\ SeenCommitted /\ AnswersHaveReason /\ StatusHasReason

LEMMA NoCommands == \A type : CommandsOf(type, <<>>) = {}
BY DEF CommandsOf

LEMMA ReasonInit == Init => ReasonInv
<1> SUFFICES ASSUME Init PROVE ReasonInv
  OBVIOUS
<1>1. AnswersHaveReason
  BY NoCommands DEF Init, IdleWorker, AnswersHaveReason, Reasoned
<1>2. StatusHasReason
  BY DEF Init, TablesInit, StatusHasReason
<1>3. SeenCommitted
  <2>1. NoTask.run \in Runs /\ Len(<<>>) = 0
    BY BoundsAssumption DEF NoTask, WorkflowTask, Runs
  <2>2. QED
    BY <2>1 DEF Init, TablesInit, IdleWorker, SeenCommitted
<1>4. QED
  BY <1>1, <1>2, <1>3, CauseInit DEF ReasonInv

\* Reasons stay.
LEMMA ReasonsStay ==
  ASSUME Grown, NEW r \in Runs
  PROVE  /\ CanComplete(r) => CanComplete(r)'
         /\ CanFail(r) => CanFail(r)'
         /\ \A cmds : Reasoned(cmds, r) => Reasoned(cmds, r)'
<1>1. \A type, k : OutcomeOf(r, type, k) => OutcomeOf(r, type, k)'
  BY DEF Grown, OutcomeOf, HasType
<1>2. QED
  BY <1>1 DEF CanComplete, CanFail, Reasoned

\* Only CheckRunning puts commands into a worker's hands.
LEMMA AnswersCome ==
  ASSUME TypeInv, [Next]_vars, NEW w \in Workers
  PROVE  \/ worker'[w].cmds = <<>>
         \/ worker'[w].cmds = worker[w].cmds /\ worker'[w].task = worker[w].task
         \/ \E cmds \in CommandLists : CheckRunning(w, cmds)
<1>1. worker \in [Workers -> WorkerState] /\ IdleWorker.cmds = <<>>
  BY DEF TypeInv, TypeOK, IdleWorker
<1>2. ASSUME NEW v \in Workers, WorkerNext(v)
      PROVE  \/ worker'[w].cmds = <<>>
             \/ worker'[w].cmds = worker[w].cmds /\ worker'[w].task = worker[w].task
             \/ \E cmds \in CommandLists : CheckRunning(w, cmds)
  <2>1. CASE v # w
    <3>1. worker'[w] = worker[w]
      BY <1>1, <1>2, <2>1
      DEF WorkerNext, Poll, FetchHistory, CheckRunning, DiscardWorkflowTask, ReadEvents,
          CommitWorkflowTask, GetTask, CommitRetry, CommitActivityTask, Abandon
    <3>2. QED
      BY <3>1
  <2>2. CASE v = w
    <3>1. ASSUME NEW t \in tasks, Poll(w, t) PROVE worker'[w].cmds = <<>>
      BY <1>1, <3>1 DEF Poll, IdleWorker
    <3>2. ASSUME \/ DiscardWorkflowTask(w) \/ CommitWorkflowTask(w) \/ CommitRetry(w)
                 \/ CommitActivityTask(w) \/ Abandon(w)
          PROVE  worker'[w].cmds = <<>>
      <4>1. worker' = [worker EXCEPT ![w] = IdleWorker]
        BY <3>2 DEF DiscardWorkflowTask, CommitWorkflowTask, CommitRetry, CommitActivityTask,
                    Abandon
      <4>2. QED
        BY <1>1, <4>1
    <3>3. ASSUME FetchHistory(w) \/ ReadEvents(w)
          PROVE  worker'[w].cmds = worker[w].cmds /\ worker'[w].task = worker[w].task
      BY <1>1, <3>3 DEF FetchHistory, ReadEvents, WorkerState
    <3>4. ASSUME NEW ok \in BOOLEAN, GetTask(w, ok)
          PROVE  \/ worker'[w].cmds = <<>>
                 \/ worker'[w].cmds = worker[w].cmds /\ worker'[w].task = worker[w].task
      BY <1>1, <3>4 DEF GetTask, WorkerState
    <3>5. QED
      BY <1>2, <2>2, <3>1, <3>2, <3>3, <3>4 DEF WorkerNext
  <2>3. QED
    BY <2>1, <2>2
<1>3. ASSUME NEW c \in Clients, ClientNext(c) PROVE UNCHANGED worker
  BY <1>3, ClientMoves DEF ClientMove, StartCommit, SignalCommit
<1>4. ASSUME NEW s \in Scanners, ScannerNext(s) PROVE UNCHANGED worker
  BY <1>4 DEF ScannerNext, ScanSelect, ScanTimer, ScanCommit, ScanAbort
<1>5. EngineNext \/ UNCHANGED vars => UNCHANGED worker
  BY DEF EngineNext, ReclaimExpiredLeases, BackoffElapses, TimerDue, vars
<1>6. QED
  BY <1>2, <1>3, <1>4, <1>5 DEF Next

\* Only FetchHistory gives it a history.
LEMMA HistoriesCome ==
  ASSUME TypeInv, [Next]_vars, NEW w \in Workers
  PROVE  \/ /\ worker'[w].seen = 0
            /\ worker'[w].pc \in {"idle", "polled"} \/ worker'[w].task.kind = "activity"
         \/ worker'[w] = worker[w]
         \/ /\ worker'[w].task = worker[w].task
            /\ \/ worker'[w].seen = Len(events[worker[w].task.run])
               \/ worker'[w].seen = worker[w].seen /\ worker[w].pc \notin {"idle", "polled"}
<1> DEFINE Starts == /\ worker'[w].seen = 0
                     /\ \/ worker'[w].pc \in {"idle", "polled"}
                        \/ worker'[w].task.kind = "activity"
           Reads == /\ worker'[w].task = worker[w].task
                    /\ \/ worker'[w].seen = Len(events[worker[w].task.run])
                       \/ worker'[w].seen = worker[w].seen /\ worker[w].pc \notin {"idle", "polled"}
<1>1. /\ worker \in [Workers -> WorkerState] /\ tasks \subseteq Task
      /\ IdleWorker.seen = 0 /\ IdleWorker.pc = "idle"
  BY DEF TypeInv, TypeOK, TablesTypeOK, IdleWorker
<1>2. ASSUME NEW v \in Workers, WorkerNext(v)
      PROVE  Starts \/ worker'[w] = worker[w] \/ Reads
  <2>1. CASE WorkerMove(v)
    BY <1>1, <2>1 DEF WorkerMove
  <2>2. ASSUME \/ DiscardWorkflowTask(v) \/ CommitWorkflowTask(v) \/ CommitRetry(v)
               \/ CommitActivityTask(v)
        PROVE  worker'[w] = IdleWorker \/ worker'[w] = worker[w]
    <3>1. worker' = [worker EXCEPT ![v] = IdleWorker]
      BY <2>2 DEF DiscardWorkflowTask, CommitWorkflowTask, CommitRetry, CommitActivityTask
    <3>2. QED
      BY <1>1, <3>1
  <2>3. ASSUME NEW t \in tasks, Poll(v, t)
        PROVE  Starts \/ worker'[w] = worker[w]
    <3>1. t.kind \in {"workflow", "activity"}
      BY <1>1 DEF Task
    <3>2. QED
      BY <1>1, <2>3, <3>1 DEF Poll, IdleWorker
  <2>4. QED
    BY <1>1, <1>2, <2>1, <2>2, <2>3, WorkerMoves
<1>3. ASSUME NEW c \in Clients, ClientNext(c) PROVE UNCHANGED worker
  BY <1>3, ClientMoves DEF ClientMove, StartCommit, SignalCommit
<1>4. ASSUME NEW s \in Scanners, ScannerNext(s) PROVE UNCHANGED worker
  BY <1>4 DEF ScannerNext, ScanSelect, ScanTimer, ScanCommit, ScanAbort
<1>5. EngineNext \/ UNCHANGED vars => UNCHANGED worker
  BY DEF EngineNext, ReclaimExpiredLeases, BackoffElapses, TimerDue, vars
<1>6. QED
  BY <1>2, <1>3, <1>4, <1>5 DEF Next

LEMMA SeenStep ==
  ASSUME TypeInv, TypeInv', Grown, [Next]_vars, SeenCommitted
  PROVE  SeenCommitted'
<1> SUFFICES ASSUME NEW w \in Workers
             PROVE  worker'[w].seen <= Len(events'[worker'[w].task.run])
  BY DEF SeenCommitted
<1>1. /\ worker[w].seen \in Nat /\ worker[w].task.run \in Runs
      /\ worker'[w].seen \in Nat /\ worker'[w].task.run \in Runs
  BY DEF TypeInv, TypeOK, WorkerState, Task
<1>2. ASSUME NEW r \in Runs
      PROVE  /\ Len(events[r]) \in Nat /\ Len(events'[r]) \in Nat
             /\ Len(events[r]) <= Len(events'[r])
  <2>1. events[r] \in Seq(Event) /\ events'[r] \in Seq(Event)
    BY DEF TypeInv, TypeOK, TablesTypeOK
  <2>2. PICK m, n : m = Len(events[r]) /\ n = Len(events'[r])
    OBVIOUS
  <2>3. m \in Nat /\ n \in Nat /\ DOMAIN events[r] = 1..m /\ DOMAIN events'[r] = 1..n
    BY <2>1, <2>2, LenProperties
  <2>4. \A i \in 1..m : i \in 1..n
    BY <2>3 DEF Grown
  <2>5. m <= n
    BY <2>3, <2>4
  <2>6. QED
    BY <2>2, <2>3, <2>5
<1>3. worker[w].seen <= Len(events[worker[w].task.run])
  BY DEF SeenCommitted
<1>4. PICK r, q, seen, now :
        /\ r = worker[w].task.run /\ q = worker'[w].task.run
        /\ seen = worker[w].seen /\ now = worker'[w].seen
  OBVIOUS
<1>5. now = 0 \/ (q = r /\ now \in {seen, Len(events[r])})
  BY <1>4, HistoriesCome
<1>6. now <= Len(events'[q])
  BY ONLY <1>1, <1>2, <1>3, <1>4, <1>5
<1>7. QED
  BY <1>4, <1>6

LEMMA ReasonStep ==
  ASSUME \A h, c : Decides(h, c) => ReplayDecides(h, c)
  PROVE  ReasonInv /\ [Next]_vars => ReasonInv'
<1> SUFFICES ASSUME ReasonInv, [Next]_vars PROVE ReasonInv'
  OBVIOUS
<1>1. CauseInv /\ TypeInv /\ CauseInv'
  BY CauseStep DEF ReasonInv, CauseInv, IDInv
<1>2. Grown
  BY <1>1, CauseSteps DEF CauseGood
<1>3. AnswersHaveReason'
  <2>1. SUFFICES ASSUME NEW w \in Workers
        PROVE  Reasoned(worker[w].cmds, worker[w].task.run)'
    BY DEF AnswersHaveReason
  <2>2. worker[w] \in WorkerState /\ worker[w].task.run \in Runs
    BY <1>1 DEF TypeInv, TypeOK, WorkerState, Task
  <2>3. CASE worker'[w].cmds = <<>>
    BY <2>3, NoCommands DEF Reasoned
  <2>4. PICK r \in Runs : r = worker[w].task.run
    BY <2>2
  <2>5. PICK cs, rn : cs = worker'[w].cmds /\ rn = worker'[w].task.run
    OBVIOUS
  <2>6. Reasoned(cs, rn)' => Reasoned(worker[w].cmds, worker[w].task.run)'
    BY <2>5 DEF Reasoned
  <2>7. CASE worker'[w].cmds = worker[w].cmds /\ worker'[w].task = worker[w].task
    <3>1. Reasoned(cs, r) /\ rn = r
      BY <2>4, <2>5, <2>7 DEF ReasonInv, AnswersHaveReason
    <3>2. QED
      BY <1>2, <2>6, <3>1, ReasonsStay
  <2>8. ASSUME NEW cmds \in CommandLists, CheckRunning(w, cmds) PROVE Reasoned(cs, rn)'
    <3>1. PICK h : h = SubSeq(events[r], 1, worker[w].seen)
      OBVIOUS
    <3>2. ReplayDecides(h, cmds) /\ cs = cmds /\ rn = r
      <4>1. worker' = [worker EXCEPT ![w].cmds = cmds, ![w].pc =
                         IF IsRunning(worker[w].task.run) THEN "running" ELSE "closed"]
        BY <2>8 DEF CheckRunning
      <4>2. worker \in [Workers -> WorkerState]
        BY <1>1 DEF TypeInv, TypeOK
      <4>3. worker'[w].cmds = cmds /\ worker'[w].task = worker[w].task
        BY <4>1, <4>2 DEF WorkerState
      <4>4. Decides(h, cmds)
        BY <2>4, <2>8, <3>1 DEF CheckRunning
      <4>5. QED
        BY <2>4, <2>5, <4>3, <4>4
    <3>3. events[r] \in Seq(Event) /\ worker[w].seen \in Nat
          /\ worker[w].seen <= Len(events[r])
      BY <1>1, <2>2, <2>4 DEF TypeInv, TypeOK, TablesTypeOK, WorkerState, ReasonInv, SeenCommitted
    <3>4. /\ h \in Seq(Event)
          /\ \A n \in DOMAIN h : n \in DOMAIN events[r] /\ h[n] = events[r][n]
      <4>1. PICK e, m : e = events[r] /\ m = worker[w].seen
        OBVIOUS
      <4>2. /\ e \in Seq(Event) /\ m \in Nat /\ m <= Len(e) /\ Len(e) \in Nat
            /\ DOMAIN e = 1..Len(e) /\ \A i \in 1..m : e[i] \in Event
        <5>1. e \in Seq(Event) /\ m \in Nat /\ m <= Len(e)
          BY <3>3, <4>1
        <5>2. Len(e) \in Nat /\ DOMAIN e = 1..Len(e) /\ \A i \in 1..Len(e) : e[i] \in Event
          BY ONLY <5>1, LenProperties, ElementOfSeq
        <5>3. QED
          BY ONLY <5>1, <5>2
      <4>3. /\ SubSeq(e, 1, m) \in Seq(Event) /\ Len(SubSeq(e, 1, m)) = m
            /\ \A i \in 1..m : SubSeq(e, 1, m)[i] = e[i]
        BY ONLY <4>2, SubSeqProperties
      <4>4. DOMAIN SubSeq(e, 1, m) = 1..m
        BY <4>3, LenProperties
      <4>5. QED
        BY <3>1, <4>1, <4>2, <4>3, <4>4
    <3>5. cmds \in Seq(Command)
      BY CommandsAssumption
    <3>6. CommandsOf("CompleteWorkflow", cmds) # {} => CanComplete(r)
      BY <3>2, <3>4, <3>5, ClosingReasons DEF AllSucceeded, CanComplete, OutcomeOf, HasType
    <3>7. CommandsOf("FailWorkflow", cmds) # {} => CanFail(r)
      <4>1. SUFFICES ASSUME OneFailed(h) PROVE CanFail(r)
        BY <3>2, <3>5, <3>4, ClosingReasons
      <4>2. PICK n \in DOMAIN events[r] : events[r][n].type = "ActivityFailed"
        BY <3>4, <4>1 DEF OneFailed
      <4>3. events[r][n].key \in Keys
        <5>1. events[r][n] \in Event
          BY <3>3, <4>2, ElementOfSeq, LenProperties
        <5>2. QED
          BY <5>1 DEF Event
      <4>4. QED
        BY <4>2, <4>3 DEF CanFail, OutcomeOf, HasType
    <3>8. Reasoned(cs, r)
      BY <3>2, <3>6, <3>7 DEF Reasoned
    <3>9. QED
      BY <1>2, <3>2, <3>8, ReasonsStay
  <2>9. QED
    BY <1>1, <2>3, <2>6, <2>7, <2>8, AnswersCome
<1>4. StatusHasReason'
  <2>1. execs \in [Runs -> Execution]
    BY <1>1 DEF TypeInv, TypeOK, TablesTypeOK
  <2>2. \A r \in Runs : /\ execs[r].status = "Completed" => CanComplete(r)
                        /\ execs[r].status = "Failed" => CanFail(r)
    BY DEF ReasonInv, StatusHasReason, CanComplete, CanFail
  <2>3. ASSUME NEW r \in Runs, execs'[r].status = execs[r].status \/ execs'[r].status = "Running"
        PROVE  /\ execs'[r].status = "Completed" => CanComplete(r)'
               /\ execs'[r].status = "Failed" => CanFail(r)'
    BY <1>2, <2>2, <2>3, ReasonsStay
  <2>4. ASSUME NEW w \in Workers, CommitWorkflowTask(w), NEW r \in Runs
        PROVE  /\ execs'[r].status = "Completed" => CanComplete(r)'
               /\ execs'[r].status = "Failed" => CanFail(r)'
    <3>1. CASE r # worker[w].task.run
      BY <2>1, <2>3, <2>4, <3>1 DEF CommitWorkflowTask, UpdateWorkflowStatus
    <3>2. CASE r = worker[w].task.run
      <4>1. execs'[r].status = StatusAfter(execs[r].status, worker[w].cmds)
        BY <2>1, <2>4, <3>2 DEF CommitWorkflowTask, UpdateWorkflowStatus, Execution
      <4>2. \/ execs'[r].status = execs[r].status
            \/ execs'[r].status = "Completed" /\ CommandsOf("CompleteWorkflow", worker[w].cmds) # {}
            \/ execs'[r].status = "Failed" /\ CommandsOf("FailWorkflow", worker[w].cmds) # {}
        <5> DEFINE done == CommandsOf("CompleteWorkflow", worker[w].cmds)
                   failed == CommandsOf("FailWorkflow", worker[w].cmds)
        <5>1. worker[w].cmds \in Seq(Command)
          BY <1>1, CommandsAssumption DEF TypeInv, TypeOK, WorkerState
        <5>2. Len(worker[w].cmds) \in Nat /\ done \in SUBSET (1..Len(worker[w].cmds))
          BY <5>1, LenProperties DEF CommandsOf
        <5>3. execs'[r].status =
                IF done \cup failed = {} THEN execs[r].status
                ELSE IF \E i \in done : \A j \in done \cup failed : j <= i
                     THEN "Completed" ELSE "Failed"
          BY <4>1 DEF StatusAfter
        <5> HIDE DEF done, failed
        <5>4. failed = {} /\ done # {} => \E i \in done : \A j \in done \cup failed : j <= i
          BY <5>2, LastPlace
        <5>5. QED
          BY <5>3, <5>4 DEF done, failed
      <4>3. QED
        BY <1>2, <2>3, <3>2, <4>2, ReasonsStay DEF ReasonInv, AnswersHaveReason, Reasoned
    <3>3. QED
      BY <3>1, <3>2
  <2>5. ASSUME NEW c \in Clients, StartCommit(c), NEW r \in Runs
        PROVE  execs'[r].status = execs[r].status \/ execs'[r].status = "Running"
    BY <2>1, <2>5 DEF StartCommit, InsertWorkflowExecution
  <2>6. ASSUME NEW r \in Runs
        PROVE  /\ execs'[r].status = "Completed" => CanComplete(r)'
               /\ execs'[r].status = "Failed" => CanFail(r)'
    BY <1>1, <2>3, <2>4, <2>5, WritingSteps DEF SignalCommit, CommitActivityTask, ScanCommit
  <2>7. QED
    BY <2>6 DEF StatusHasReason, CanComplete, CanFail
<1>5. SeenCommitted'
  BY <1>1, <1>2, SeenStep DEF ReasonInv, CauseInv, IDInv
<1>6. QED
  BY <1>1, <1>3, <1>4, <1>5 DEF ReasonInv

\* A run is Completed only when each activity whose error its function heeds
\* has succeeded, and Failed only when one has failed, whichever workers raced
\* to report and in whichever order they were sent events with the same id.
THEOREM StatusesHaveReasons ==
  ASSUME \A h, c : Decides(h, c) => ReplayDecides(h, c)
  PROVE  SystemSpec => []StatusHasReason
<1>1. ReasonInv /\ [Next]_vars => ReasonInv'
  BY ReasonStep
<1>2. Spec => []ReasonInv
  BY <1>1, ReasonInit, PTL DEF Spec
<1>3. ReasonInv => StatusHasReason
  BY DEF ReasonInv
<1>4. QED
  BY <1>2, <1>3, SystemRunsTheEngine, PTL

-----------------------------------------------------------------------------
(* No answer asks for what its history has *)

\* What a worker has decided is new to the history that it has seen.
AnswersAnew ==
  \A w \in Workers :
    /\ worker[w].pc \in {"idle", "polled"} => worker[w].cmds = <<>>
    /\ Anew(events[worker[w].task.run], worker[w].seen, worker[w].cmds)

AskInv == CauseInv /\ SeenCommitted /\ AnswersAnew

LEMMA NothingAsked == \A h, n : Anew(h, n, <<>>)
<1>1. 1..Len(<<>>) = {}
  OBVIOUS
<1>2. QED
  BY <1>1 DEF Anew

LEMMA AskInit == Init => AskInv
<1> SUFFICES ASSUME Init PROVE AskInv
  OBVIOUS
<1>1. SeenCommitted
  BY ReasonInit DEF ReasonInv
<1>2. AnswersAnew
  BY NothingAsked DEF Init, IdleWorker, AnswersAnew
<1>3. QED
  BY <1>1, <1>2, CauseInit DEF AskInv

\* A worker's answer is none, or it is the one that it had for the history
\* that it had, or it has a history now, or an answer to it.
LEMMA AnswerMoves ==
  ASSUME TypeInv, [Next]_vars, NEW w \in Workers
  PROVE  \/ worker'[w].cmds = <<>>
         \/ /\ worker'[w].cmds = worker[w].cmds /\ worker'[w].task = worker[w].task
            /\ worker'[w].seen = worker[w].seen
            /\ worker'[w].pc \in {"idle", "polled"} => worker'[w].pc = worker[w].pc
         \/ FetchHistory(w)
         \/ \E cmds \in CommandLists : CheckRunning(w, cmds)
<1> DEFINE Same == /\ worker'[w].cmds = worker[w].cmds /\ worker'[w].task = worker[w].task
                   /\ worker'[w].seen = worker[w].seen
                   /\ worker'[w].pc \in {"idle", "polled"} => worker'[w].pc = worker[w].pc
<1>1. worker \in [Workers -> WorkerState] /\ IdleWorker.cmds = <<>>
  BY DEF TypeInv, TypeOK, IdleWorker
<1>2. ASSUME NEW v \in Workers, WorkerNext(v)
      PROVE  \/ worker'[w].cmds = <<>> \/ Same \/ FetchHistory(w)
             \/ \E cmds \in CommandLists : CheckRunning(w, cmds)
  <2>1. CASE v # w
    <3>1. worker'[w] = worker[w]
      BY <1>1, <1>2, <2>1
      DEF WorkerNext, Poll, FetchHistory, CheckRunning, DiscardWorkflowTask, ReadEvents,
          CommitWorkflowTask, GetTask, CommitRetry, CommitActivityTask, Abandon
    <3>2. QED
      BY <3>1
  <2>2. CASE v = w
    <3>1. ASSUME NEW t \in tasks, Poll(w, t) PROVE worker'[w].cmds = <<>>
      BY <1>1, <3>1 DEF Poll, IdleWorker
    <3>2. ASSUME \/ DiscardWorkflowTask(w) \/ CommitWorkflowTask(w) \/ CommitRetry(w)
                 \/ CommitActivityTask(w) \/ Abandon(w)
          PROVE  worker'[w].cmds = <<>>
      <4>1. worker' = [worker EXCEPT ![w] = IdleWorker]
        BY <3>2 DEF DiscardWorkflowTask, CommitWorkflowTask, CommitRetry, CommitActivityTask,
                    Abandon
      <4>2. QED
        BY <1>1, <4>1
    <3>3. ASSUME ReadEvents(w) PROVE Same
      BY <1>1, <3>3 DEF ReadEvents, WorkerState
    <3>4. ASSUME NEW ok \in BOOLEAN, GetTask(w, ok)
          PROVE  worker'[w].cmds = <<>> \/ Same
      BY <1>1, <3>4 DEF GetTask, WorkerState
    <3>5. QED
      BY <1>2, <2>2, <3>1, <3>2, <3>3, <3>4 DEF WorkerNext
  <2>3. QED
    BY <2>1, <2>2
<1>3. ASSUME NEW c \in Clients, ClientNext(c) PROVE UNCHANGED worker
  BY <1>3, ClientMoves DEF ClientMove, StartCommit, SignalCommit
<1>4. ASSUME NEW s \in Scanners, ScannerNext(s) PROVE UNCHANGED worker
  BY <1>4 DEF ScannerNext, ScanSelect, ScanTimer, ScanCommit, ScanAbort
<1>5. EngineNext \/ UNCHANGED vars => UNCHANGED worker
  BY DEF EngineNext, ReclaimExpiredLeases, BackoffElapses, TimerDue, vars
<1>6. QED
  BY <1>2, <1>3, <1>4, <1>5 DEF Next

\* Events stay where they are.
LEMMA AnewStays ==
  ASSUME TypeInv, Grown, NEW r \in Runs, NEW n \in Nat, n <= Len(events[r]),
         NEW cs, Anew(events[r], n, cs)
  PROVE  Anew(events[r], n, cs)'
<1>1. events[r] \in Seq(Event)
  BY DEF TypeInv, TypeOK, TablesTypeOK
<1>2. DOMAIN events[r] = 1..Len(events[r]) /\ Len(events[r]) \in Nat
  BY <1>1, LenProperties
<1>3. \A i \in 1..n : i \in DOMAIN events[r]
  BY <1>2
<1>4. \A i \in 1..n : events'[r][i] = events[r][i]
  BY <1>3 DEF Grown
<1>5. Anew(events'[r], n, cs)
  BY <1>4 DEF Anew
<1>6. QED
  BY <1>5 DEF Anew

\* What a worker decides on the history it has seen is new to it.
LEMMA DecidedAnew ==
  ASSUME \A h, c : Decides(h, c) => ReplayDecides(h, c),
         AskInv, NEW w \in Workers, NEW cmds \in CommandLists, CheckRunning(w, cmds)
  PROVE  Anew(events[worker[w].task.run], worker[w].seen, cmds)
<1>1. PICK e, m : e = events[worker[w].task.run] /\ m = worker[w].seen
  OBVIOUS
<1>2. e \in Seq(Event) /\ m \in Nat /\ m <= Len(e)
  BY <1>1 DEF AskInv, CauseInv, IDInv, TypeInv, TypeOK, TablesTypeOK, WorkerState, Task,
              SeenCommitted
<1>3. PICK h : h = SubSeq(e, 1, m)
  OBVIOUS
<1>4. /\ h \in Seq(Event) /\ Len(h) = m /\ \A i \in 1..m : h[i] = e[i]
  <2>1. Len(e) \in Nat /\ \A i \in 1..Len(e) : e[i] \in Event
    BY ONLY <1>2, LenProperties, ElementOfSeq
  <2>2. \A i \in 1..m : e[i] \in Event
    BY ONLY <1>2, <2>1
  <2>3. /\ SubSeq(e, 1, m) \in Seq(Event) /\ Len(SubSeq(e, 1, m)) = m
        /\ \A i \in 1..m : SubSeq(e, 1, m)[i] = e[i]
    BY ONLY <1>2, <2>1, <2>2, SubSeqProperties
  <2>4. QED
    BY <1>3, <2>3
<1>5. ReplayDecides(h, cmds)
  BY <1>1, <1>3 DEF CheckRunning
<1>6. cmds \in Seq(Command)
  BY CommandsAssumption
<1>7. Anew(h, m, cmds)
  BY ONLY <1>4, <1>5, <1>6, AskedAnew
<1>8. Anew(e, m, cmds)
  BY <1>4, <1>7 DEF Anew
<1>9. QED
  BY <1>1, <1>8

LEMMA AskStep ==
  ASSUME \A h, c : Decides(h, c) => ReplayDecides(h, c)
  PROVE  AskInv /\ [Next]_vars => AskInv'
<1> SUFFICES ASSUME AskInv, [Next]_vars PROVE AskInv'
  OBVIOUS
<1>1. CauseInv /\ CauseInv' /\ TypeInv /\ TypeInv' /\ SeenCommitted
  BY CauseStep DEF AskInv, CauseInv, IDInv
<1>2. Grown
  BY <1>1, CauseSteps DEF CauseGood
<1>3. SeenCommitted'
  BY <1>1, <1>2, SeenStep
<1>4. AnswersAnew'
  <2>1. SUFFICES ASSUME NEW w \in Workers
        PROVE  /\ worker'[w].pc \in {"idle", "polled"} => worker'[w].cmds = <<>>
               /\ Anew(events'[worker'[w].task.run], worker'[w].seen, worker'[w].cmds)
    BY DEF AnswersAnew
  <2>2. /\ worker \in [Workers -> WorkerState] /\ worker[w].task.run \in Runs
        /\ worker[w].seen \in Nat /\ worker[w].seen <= Len(events[worker[w].task.run])
    BY <1>1 DEF TypeInv, TypeOK, WorkerState, Task, SeenCommitted
  <2>3. CASE worker'[w].cmds = <<>>
    BY <2>3, NothingAsked
  <2>4. CASE /\ worker'[w].cmds = worker[w].cmds /\ worker'[w].task = worker[w].task
             /\ worker'[w].seen = worker[w].seen
             /\ worker'[w].pc \in {"idle", "polled"} => worker'[w].pc = worker[w].pc
    <3>1. PICK r, n, cs : r = worker[w].task.run /\ n = worker[w].seen /\ cs = worker[w].cmds
      OBVIOUS
    <3>2. Anew(events[r], n, cs) /\ r \in Runs /\ n \in Nat /\ n <= Len(events[r])
      BY <2>2, <3>1 DEF AskInv, AnswersAnew
    <3>3. Anew(events[r], n, cs)'
      BY <1>1, <1>2, <3>2, AnewStays
    <3>4. Anew(events'[r], n, cs)
      BY <3>3 DEF Anew
    <3>5. QED
      BY <2>4, <3>1, <3>4 DEF AskInv, AnswersAnew
  <2>5. CASE FetchHistory(w)
    <3>1. worker[w].cmds = <<>>
      BY <2>5 DEF FetchHistory, AskInv, AnswersAnew
    <3>2. worker'[w].cmds = worker[w].cmds
      BY <2>2, <2>5 DEF FetchHistory, WorkerState
    <3>3. QED
      BY <2>3, <3>1, <3>2
  <2>6. ASSUME NEW cmds \in CommandLists, CheckRunning(w, cmds)
        PROVE  /\ worker'[w].pc \in {"idle", "polled"} => worker'[w].cmds = <<>>
               /\ Anew(events'[worker'[w].task.run], worker'[w].seen, worker'[w].cmds)
    <3>1. Anew(events[worker[w].task.run], worker[w].seen, cmds)
      BY <2>6, DecidedAnew
    <3>2. /\ worker' = [worker EXCEPT ![w].cmds = cmds, ![w].pc =
                          IF IsRunning(worker[w].task.run) THEN "running" ELSE "closed"]
          /\ UNCHANGED events
      BY <2>6 DEF CheckRunning, tables
    <3>3. /\ worker'[w].cmds = cmds /\ worker'[w].task = worker[w].task
          /\ worker'[w].seen = worker[w].seen /\ worker'[w].pc \in {"running", "closed"}
      BY <2>2, <3>2 DEF WorkerState
    <3>4. QED
      BY <3>1, <3>2, <3>3
  <2>7. QED
    BY <1>1, <2>3, <2>4, <2>5, <2>6, AnswerMoves
<1>5. QED
  BY <1>1, <1>3, <1>4 DEF AskInv

\* An answer's commit adds what the commands say.
LEMMA CommitAsks ==
  ASSUME AskInv, NEW w \in Workers, CommitWorkflowTask(w)
  PROVE  ~AsksAgain(w)
<1>0. TypeInv
  BY DEF AskInv, CauseInv, IDInv
<1>1. PICK r, n, cs, new : /\ r = worker[w].task.run /\ n = worker[w].seen
                           /\ cs = worker[w].cmds /\ new = DecisionEvents(w)
  OBVIOUS
<1>2. /\ r \in Runs /\ new \in [Runs -> Seq(Event)] /\ InsertEvents(new)
      /\ DOMAIN new[r] = 1..Len(cs)
      /\ \A k \in 1..Len(cs) : new[r][k].type = Recorded[cs[k].type] /\ new[r][k].key = cs[k].key
  <2>1. InsertEvents(new)
    BY <1>1 DEF CommitWorkflowTask, DecisionEvents, Decision
  <2>2. QED
    BY <1>0, <1>1, <2>1, Decisions
<1>3. Anew(events[r], n, cs)
  BY <1>1 DEF AskInv, AnswersAnew
<1>4. \A j \in (Len(events[r]) + 1)..Len(events'[r]) :
        \E k \in 1..Len(cs) : events'[r][j] = new[r][k]
  <2>1. events \in [Runs -> Seq(Event)]
    BY <1>0 DEF TypeInv, TypeOK, TablesTypeOK
  <2>2. /\ Len(events[r]) \in Nat /\ Len(new[r]) \in Nat
        /\ Len(events'[r]) = Len(events[r]) + Len(new[r])
        /\ DOMAIN new[r] = 1..Len(new[r])
        /\ \A k \in DOMAIN new[r] : events'[r][Len(events[r]) + k] = new[r][k]
    BY <1>2, <2>1, Inserted
  <2>3. SUFFICES ASSUME NEW j \in (Len(events[r]) + 1)..Len(events'[r])
                 PROVE  \E k \in 1..Len(cs) : events'[r][j] = new[r][k]
    OBVIOUS
  <2>4. PICK k : k = j - Len(events[r])
    OBVIOUS
  <2>a. PICK a, b : a = Len(events[r]) /\ b = Len(new[r])
    OBVIOUS
  <2>b. a \in Nat /\ b \in Nat /\ j \in (a + 1)..(a + b) /\ k = j - a
    BY <2>2, <2>3, <2>4, <2>a
  <2>c. k \in 1..b /\ a + k = j
    BY ONLY <2>b
  <2>5. k \in 1..Len(new[r]) /\ Len(events[r]) + k = j
    BY <2>a, <2>c
  <2>6. QED
    BY <1>2, <2>2, <2>5
<1>5. SUFFICES ASSUME NEW i \in 1..n, NEW j \in (Len(events[r]) + 1)..Len(events'[r]),
                      events'[r][j].type \in Asks, events[r][i].type = events'[r][j].type,
                      events[r][i].key = events'[r][j].key
               PROVE  FALSE
  BY <1>1 DEF AsksAgain
<1>6. PICK k \in 1..Len(cs) : events'[r][j] = new[r][k]
  BY <1>4
<1>7. /\ events[r][i].type \in Asks /\ events[r][i].type = Recorded[cs[k].type]
      /\ events[r][i].key = cs[k].key
  BY <1>2, <1>5, <1>6
<1>8. QED
  BY <1>3, <1>7 DEF Anew

\* An answer is committed by its worker; otherwise it is given up.
LEMMA AnswerEnds ==
  ASSUME TypeInv, [Next]_vars, NEW w \in Workers, AnswerCommits(w)
  PROVE  CommitWorkflowTask(w) \/ UNCHANGED events
<1>0. worker \in [Workers -> WorkerState]
  BY DEF TypeInv, TypeOK
<1>1. /\ worker[w].pc = "ready" /\ worker[w].task.kind = "workflow"
      /\ worker'[w].pc = "idle"
  BY DEF AnswerCommits
<1>2. ASSUME NEW v \in Workers, WorkerNext(v), v # w PROVE worker'[w] = worker[w]
  BY <1>0, <1>2
  DEF WorkerNext, Poll, FetchHistory, CheckRunning, DiscardWorkflowTask, ReadEvents,
      CommitWorkflowTask, GetTask, CommitRetry, CommitActivityTask, Abandon
<1>3. ASSUME WorkerNext(w) PROVE CommitWorkflowTask(w) \/ UNCHANGED events
  BY <1>1, <1>3
  DEF WorkerNext, Poll, FetchHistory, CheckRunning, DiscardWorkflowTask, ReadEvents,
      GetTask, CommitRetry, CommitActivityTask, Abandon, tables
<1>4. ASSUME NEW c \in Clients, ClientNext(c) PROVE UNCHANGED worker
  BY <1>4, ClientMoves DEF ClientMove, StartCommit, SignalCommit
<1>5. ASSUME NEW s \in Scanners, ScannerNext(s) PROVE UNCHANGED worker
  BY <1>5 DEF ScannerNext, ScanSelect, ScanTimer, ScanCommit, ScanAbort
<1>6. EngineNext \/ UNCHANGED vars => UNCHANGED worker
  BY DEF EngineNext, ReclaimExpiredLeases, BackoffElapses, TimerDue, vars
<1>7. QED
  BY <1>1, <1>2, <1>3, <1>4, <1>5, <1>6 DEF Next

\* However many loops and handlers hold a run's tasks, and whatever crashes,
\* lost answers and early leases come, no answer schedules an activity or
\* starts a timer that the history it is based on has asked for already.
THEOREM AnswersAskForNothingAgain ==
  ASSUME \A h, c : Decides(h, c) => ReplayDecides(h, c)
  PROVE  SystemSpec => AsksForNothingAgain
<1>1. AskInv /\ [Next]_vars => AskInv'
  BY AskStep
<1>2. Spec => []AskInv
  BY <1>1, AskInit, PTL DEF Spec
<1>3. AskInv /\ [SystemNext]_systemVars =>
        [\A w \in Workers : AnswerCommits(w) => ~AsksAgain(w)]_systemVars
  <2>1. SUFFICES ASSUME AskInv, [Next]_vars, NEW w \in Workers, AnswerCommits(w)
                 PROVE  ~AsksAgain(w)
    BY SystemSteps
  <2>2. TypeInv
    BY <2>1 DEF AskInv, CauseInv, IDInv
  <2>3. CASE CommitWorkflowTask(w)
    BY <2>1, <2>3, CommitAsks
  <2>4. CASE UNCHANGED events
    <3>1. PICK r \in Runs : r = worker[w].task.run
      BY <2>2 DEF TypeInv, TypeOK, WorkerState, Task
    <3>2. events[r] \in Seq(Event) /\ events'[r] = events[r]
      BY <2>2, <2>4 DEF TypeInv, TypeOK, TablesTypeOK
    <3>3. Len(events[r]) \in Nat
      BY <3>2, LenProperties
    <3>4. (Len(events[r]) + 1)..Len(events'[r]) = {}
      BY <3>2, <3>3
    <3>5. QED
      BY <3>1, <3>4 DEF AsksAgain
  <2>5. QED
    BY <2>1, <2>2, <2>3, <2>4, AnswerEnds
<1>4. QED
  BY <1>2, <1>3, SystemRunsTheEngine, PTL DEF SystemSpec, AsksForNothingAgain

=============================================================================
