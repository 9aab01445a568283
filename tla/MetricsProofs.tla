--------------------------- MODULE MetricsProofs ---------------------------
(***************************************************************************)
(* Theorems about Metrics: whatever rolls back, crashes or is restarted,   *)
(* a counter and the increments that are still to be made come to what     *)
(* the tables have gained since the process started.                       *)
(***************************************************************************)
EXTENDS Metrics, TableProofs

-----------------------------------------------------------------------------
(* The engine under a restart *)

EngineInv == RunInv /\ TimerInv

\* After a restart each process of the engine is as it was or idle.
LEMMA Restarted ==
  ASSUME TypeInv, Restart
  PROVE  /\ UNCHANGED <<execs, events, tasks, timers, serial, lastRun, decided>>
         /\ worker' \in [Workers -> WorkerState]
         /\ client' \in [Clients -> ClientState]
         /\ scanner' \in [Scanners -> ScannerState]
         /\ \A w \in Workers : worker'[w] = worker[w] \/ worker'[w] = IdleWorker
         /\ \A c \in Clients : client'[c] = IdleClient
         /\ \A s \in Scanners : scanner'[s] = IdleScanner
<1>1. worker \in [Workers -> WorkerState]
  BY DEF TypeInv, TypeOK
<1>2. \A w \in Workers : worker[w] \in WorkerState
  BY <1>1
<1>3. UNCHANGED <<execs, events, tasks, timers, serial, lastRun, decided>>
  BY DEF Restart, tables
<1>4. worker' = [w \in Workers |-> IF InHandler(w) THEN IdleWorker ELSE worker[w]]
  BY DEF Restart
<1>5. \A w \in Workers : worker'[w] = worker[w] \/ worker'[w] = IdleWorker
  BY <1>4
<1>6. worker' \in [Workers -> WorkerState]
  BY <1>2, <1>4, IdleTypes
<1>7. QED
  BY <1>3, <1>5, <1>6, IdleTypes DEF Restart

LEMMA TypeRestart ==
  ASSUME TypeInv, Restart
  PROVE  TypeInv'
<1>1. TypeOK'
  BY Restarted DEF TypeInv, TypeOK, TablesTypeOK
<1>2. LocalOK'
  <2>1. /\ \A w \in Workers : worker[w].pc = "retry" => worker[w].task.attempt < MaxAttempts
        /\ IdleWorker.pc = "idle" /\ IdleClient.pc = "idle"
        /\ IsFiniteSet(IdleScanner.wakes)
    BY FS_EmptySet DEF TypeInv, LocalOK, IdleWorker, IdleClient, IdleScanner
  <2>2. QED
    BY <2>1, Restarted DEF LocalOK
<1>3. QED
  BY <1>1, <1>2 DEF TypeInv

LEMMA RunRestart ==
  ASSUME RunInv, Restart
  PROVE  RunInv'
<1>1. TypeInv /\ TypeInv'
  BY TypeRestart DEF RunInv
<1>2. /\ UNCHANGED <<execs, events, tasks, timers, serial, lastRun, decided>>
      /\ \A w \in Workers : worker'[w] = worker[w] \/ worker'[w] = IdleWorker
      /\ \A c \in Clients : client'[c] = IdleClient
      /\ \A s \in Scanners : scanner'[s] = IdleScanner
  BY <1>1, Restarted
<1>3. /\ IdleWorker.pc = "idle" /\ IdleClient.pc = "idle"
      /\ IdleScanner.due = {} /\ IdleScanner.wakes = {}
      /\ \A r \in Runs : IdleScanner.batch[r] = <<>>
      /\ DOMAIN <<>> = {}
  BY DEF IdleWorker, IdleClient, IdleScanner
<1>4. StartsApart'
  BY <1>2, <1>3 DEF RunInv, StartsApart, Starting, Absent
<1>5. RowsKnown'
  BY <1>2 DEF RunInv, RowsKnown, Absent
<1>6. ProcessesKnown'
  BY <1>2, <1>3 DEF RunInv, ProcessesKnown, Busy, Signalling, Absent
<1>7. ScansKnown'
  BY <1>2, <1>3 DEF ScansKnown
<1>8. PastStart'
  BY <1>2, <1>3 DEF RunInv, PastStart
<1>9. HistoryStartsOnce'
  BY <1>2 DEF RunInv, HistoryStartsOnce, Absent, HasType
<1>10. QED
  BY <1>1, <1>4, <1>5, <1>6, <1>7, <1>8, <1>9 DEF RunInv

LEMMA TimerRestart ==
  ASSUME TimerInv, Restart
  PROVE  TimerInv'
<1>1. TypeInv /\ TypeInv'
  BY TypeRestart DEF TimerInv, CauseInv, IDInv
<1>2. /\ UNCHANGED <<execs, events, tasks, timers, serial, lastRun, decided>>
      /\ \A w \in Workers : worker'[w] = worker[w] \/ worker'[w] = IdleWorker
      /\ \A c \in Clients : client'[c] = IdleClient
      /\ \A s \in Scanners : scanner'[s] = IdleScanner
  BY <1>1, Restarted
<1>3. /\ IdleWorker.pc = "idle" /\ IdleClient.pc = "idle"
      /\ IdleScanner.due = {} /\ IdleScanner.wakes = {} /\ IdleScanner.fired = {}
      /\ \A r \in Runs : IdleScanner.batch[r] = <<>>
      /\ DOMAIN <<>> = {} /\ Len(<<>>) = 0
  BY DEF IdleWorker, IdleClient, IdleScanner
<1>4. IDInv'
  <2>1. ReadsNotAhead'
    BY <1>2, <1>3 DEF TimerInv, CauseInv, IDInv, ReadsNotAhead
  <2>2. IDsNotAhead'
    BY <1>2 DEF TimerInv, CauseInv, IDInv, IDsNotAhead
  <2>3. QED
    BY <1>1, <2>1, <2>2 DEF IDInv
<1>5. CauseInv'
  <2>1. TasksCaused' /\ TimersCaused' /\ EventsCaused'
    BY <1>2 DEF TimerInv, CauseInv, TasksCaused, TimersCaused, EventsCaused, Logged, Answers,
                Scheduled, Started, Caused
  <2>2. HoldersCaused'
    BY <1>2, <1>3 DEF TimerInv, CauseInv, HoldersCaused, Holds, Busy, Scheduled, Caused
  <2>3. KindsFit'
    BY <1>2, <1>3 DEF TimerInv, CauseInv, KindsFit
  <2>4. ScansCaused'
    BY <1>2, <1>3 DEF ScansCaused, Batched
  <2>5. QED
    BY <1>4, <2>1, <2>2, <2>3, <2>4 DEF CauseInv
<1>6. TimersApart' /\ TimersMatch'
  BY <1>2 DEF TimerInv, TimersApart, TimersMatch, TimerIDs, FiredIDs
<1>7. RowsDue' /\ LocksApart'
  BY <1>2, <1>3 DEF RowsDue, LocksApart, Locks
<1>8. ScansMatch'
  <2>1. ASSUME NEW s \in Scanners, NEW r \in Runs, NEW k \in Keys
        PROVE  /\ MarkedIDs(s, r, k)' = {}
               /\ About(scanner'[s].batch[r], "TimerFired", k) = {}
    BY <1>2, <1>3 DEF MarkedIDs, About
  <2>2. QED
    BY <2>1, MatchedEmpty DEF ScansMatch
<1>9. QED
  BY <1>5, <1>6, <1>7, <1>8 DEF TimerInv

\* All other steps are those of History.
LEMMA MetricsSteps ==
  ASSUME [MetricsNext]_metricsVars
  PROVE  Restart \/ [Next]_vars
<1>1. ASSUME NEW c \in Clients, ClientSteps(c) PROVE ClientNext(c)
  BY <1>1 DEF ClientSteps, ClientNext
<1>2. ASSUME NEW w \in Workers, WorkerSteps(w) PROVE WorkerNext(w)
  BY <1>2 DEF WorkerSteps, WorkerNext
<1>3. ASSUME NEW s \in Scanners, ScannerSteps(s) PROVE ScannerNext(s)
  BY <1>3 DEF ScannerSteps, ScannerNext
<1>4. ASSUME NEW n \in Counters, Count(n) PROVE UNCHANGED vars
  BY <1>4 DEF Count
<1>5. UNCHANGED metricsVars => UNCHANGED vars
  BY DEF metricsVars
<1>6. QED
  BY <1>1, <1>2, <1>3, <1>4, <1>5 DEF MetricsNext, Next

LEMMA EngineStep == EngineInv /\ [MetricsNext]_metricsVars => EngineInv'
<1>1. EngineInv /\ [Next]_vars => EngineInv'
  BY RunStep, TimerStep DEF EngineInv
<1>2. EngineInv /\ Restart => EngineInv'
  BY RunRestart, TimerRestart DEF EngineInv
<1>3. QED
  BY <1>1, <1>2, MetricsSteps

-----------------------------------------------------------------------------
(* Counting events *)

OfType(l, type) == {i \in DOMAIN l : l[i].type = type}

\* The places that NumberOf counts.
Places(type) ==
  {p \in Runs \X (1..MaxEvents) :
     p[2] \in DOMAIN events[p[1]] /\ events[p[1]][p[2]].type = type}

Counted == \A type : NumberOf(type) = Cardinality(Places(type))

LEMMA PlacesCounted == Counted /\ Counted'
<1>1. ASSUME NEW type PROVE NumberOf(type) = Cardinality(Places(type))
  BY DEF NumberOf, Places, HasType
<1>2. ASSUME NEW type PROVE NumberOf(type)' = Cardinality(Places(type)')
  BY DEF NumberOf, Places, HasType
<1>3. QED
  BY <1>1, <1>2 DEF Counted

LEMMA PlacesFinite ==
  ASSUME NEW type
  PROVE  /\ IsFiniteSet(Places(type)) /\ Cardinality(Places(type)) \in Nat
         /\ NumberOf(type) \in Nat
<1>1. IsFiniteSet(Runs) /\ IsFiniteSet(1..MaxEvents)
  BY BoundsAssumption, FS_Interval DEF Runs
<1>2. IsFiniteSet(Runs \X (1..MaxEvents))
  BY <1>1, FS_Product
<1>3. Places(type) \in SUBSET (Runs \X (1..MaxEvents))
  BY DEF Places
<1>4. IsFiniteSet(Places(type))
  BY <1>2, <1>3, FS_Subset
<1>5. QED
  BY <1>4, FS_CardinalityType, PlacesCounted DEF Counted

\* A transaction that writes to one run adds its events of each type.
LEMMA PlacesGrow ==
  ASSUME TypeInv, NEW new \in [Runs -> Seq(Event)], InsertEvents(new),
         NEW q \in Runs, \A r \in Runs \ {q} : new[r] = <<>>, NEW type
  PROVE  /\ Cardinality(OfType(new[q], type)) \in Nat
         /\ NumberOf(type)' = NumberOf(type) + Cardinality(OfType(new[q], type))
<1> DEFINE old == Places(type)
           S == OfType(new[q], type)
           n == Len(events[q])
           place(i) == <<q, n + i>>
           A == {place(i) : i \in S}
<1>0. events \in [Runs -> Seq(Event)]
  BY DEF TypeInv, TypeOK, TablesTypeOK
<1>1. /\ n \in Nat /\ Len(new[q]) \in Nat /\ n + Len(new[q]) <= MaxEvents
      /\ MaxEvents \in Nat
      /\ DOMAIN events[q] = 1..n /\ DOMAIN new[q] = 1..Len(new[q])
      /\ DOMAIN events'[q] = 1..(n + Len(new[q]))
      /\ \A i \in DOMAIN events[q] : events'[q][i] = events[q][i]
      /\ \A i \in DOMAIN new[q] : events'[q][n + i] = new[q][i]
      /\ \A i \in DOMAIN events'[q] : i \notin DOMAIN events[q] =>
           \E j \in DOMAIN new[q] : i = n + j /\ events'[q][i] = new[q][j]
  <2>1. /\ n \in Nat /\ Len(new[q]) \in Nat
        /\ DOMAIN events[q] = 1..n /\ DOMAIN new[q] = 1..Len(new[q])
        /\ DOMAIN events'[q] = 1..(n + Len(new[q]))
        /\ \A i \in DOMAIN events[q] : events'[q][i] = events[q][i]
        /\ \A i \in DOMAIN new[q] : events'[q][n + i] = new[q][i]
        /\ \A i \in DOMAIN events'[q] : i \notin DOMAIN events[q] =>
             \E j \in DOMAIN new[q] : i = n + j /\ events'[q][i] = new[q][j]
    BY <1>0, Inserted, ZenonT(40)
  <2>2. n + Len(new[q]) <= MaxEvents /\ MaxEvents \in Nat
    BY BoundsAssumption DEF InsertEvents
  <2>3. QED
    BY <2>1, <2>2
<1>2. \A r \in Runs \ {q} : events'[r] = events[r]
  <2>1. TAKE r \in Runs \ {q}
  <2>2. events[r] \in Seq(Event) /\ events'[r] = events[r] \o <<>>
    BY <1>0 DEF InsertEvents
  <2>3. QED
    BY <2>2, ConcatEmptySeq
<1>3. S \subseteq 1..Len(new[q]) /\ IsFiniteSet(S) /\ Cardinality(S) \in Nat
  <2>1. S \in SUBSET (1..Len(new[q]))
    BY <1>1 DEF OfType
  <2>2. IsFiniteSet(1..Len(new[q]))
    BY <1>1, FS_Interval
  <2> HIDE DEF S
  <2>3. QED
    BY <2>1, <2>2, FS_Subset, FS_CardinalityType
<1>4. Places(type)' = old \cup A
  <2>1. ASSUME NEW p \in Places(type)' PROVE p \in old \cup A
    <3>1. /\ p \in Runs \X (1..MaxEvents) /\ p = <<p[1], p[2]>>
          /\ p[1] \in Runs /\ p[2] \in 1..MaxEvents
          /\ p[2] \in DOMAIN events'[p[1]] /\ events'[p[1]][p[2]].type = type
      BY <2>1 DEF Places
    <3>2. CASE p[1] # q
      BY <1>2, <3>1, <3>2 DEF Places
    <3>3. CASE p[1] = q /\ p[2] \in DOMAIN events[q]
      BY <1>1, <3>1, <3>3 DEF Places
    <3>4. CASE p[1] = q /\ p[2] \notin DOMAIN events[q]
      <4>1. PICK j \in DOMAIN new[q] : p[2] = n + j /\ new[q][j].type = type
        BY <1>1, <3>1, <3>4
      <4>2. j \in S
        BY <4>1 DEF OfType
      <4>3. QED
        BY <3>1, <3>4, <4>1, <4>2
    <3>5. QED
      BY <3>2, <3>3, <3>4
  <2>2. ASSUME NEW p \in old PROVE p \in Places(type)'
    <3>1. /\ p \in Runs \X (1..MaxEvents) /\ p[1] \in Runs
          /\ p[2] \in DOMAIN events[p[1]] /\ events[p[1]][p[2]].type = type
      BY <2>2 DEF Places
    <3>2. CASE p[1] # q
      BY <1>2, <3>1, <3>2 DEF Places
    <3>3. CASE p[1] = q
      <4>1. p[2] \in 1..(n + Len(new[q]))
        BY <1>1, <3>1, <3>3
      <4>2. p[2] \in DOMAIN events'[q] /\ events'[q][p[2]].type = type
        BY <1>1, <3>1, <3>3, <4>1
      <4>3. QED
        BY <3>1, <3>3, <4>2 DEF Places
    <3>4. QED
      BY <3>2, <3>3
  <2>3. ASSUME NEW i \in S PROVE place(i) \in Places(type)'
    <3>1. i \in DOMAIN new[q] /\ i \in 1..Len(new[q]) /\ new[q][i].type = type
      BY <1>1 DEF OfType
    <3>2. n + i \in 1..MaxEvents /\ n + i \in DOMAIN events'[q]
      BY <1>1, <3>1
    <3>3. events'[q][n + i].type = type
      BY <1>1, <3>1
    <3>4. /\ place(i) \in Runs \X (1..MaxEvents)
          /\ place(i)[1] = q /\ place(i)[2] = n + i
      BY <3>2
    <3> HIDE DEF place
    <3>5. QED
      BY <3>2, <3>3, <3>4 DEF Places
  <2>4. QED
    BY <2>1, <2>2, <2>3
<1>5. old \cap A = {}
  <2>1. ASSUME NEW i \in S, place(i) \in old PROVE FALSE
    <3>1. n + i \in DOMAIN events[q] /\ i \in 1..Len(new[q])
      BY <1>3, <2>1 DEF Places
    <3>2. QED
      BY <1>1, <3>1
  <2>2. QED
    BY <2>1
<1>6. Matched(S, A)
  <2> DEFINE f == [i \in S |-> place(i)]
  <2>1. \A i, j \in S : place(i) = place(j) => i = j
    BY <1>1, <1>3
  <2>2. f \in [S -> A] /\ \A i \in S : f[i] = place(i)
    OBVIOUS
  <2>3. \A a \in A : \E i \in S : place(i) = a
    OBVIOUS
  <2> HIDE DEF f, A, S, place
  <2>4. QED
    BY <2>1, <2>2, <2>3 DEF Matched
<1> HIDE DEF old, S, A
<1>7. IsFiniteSet(A) /\ Cardinality(A) = Cardinality(S)
  BY <1>3, <1>6, MatchedSize
<1>8. IsFiniteSet(old) /\ Cardinality(old) \in Nat
  BY PlacesFinite DEF old
<1>9. Cardinality(old \cup A) = Cardinality(old) + Cardinality(A) - Cardinality({})
  BY <1>5, <1>7, <1>8, FS_Union
<1>10. Cardinality({}) = 0
  BY FS_EmptySet
<1>11. /\ NumberOf(type) = Cardinality(old)
       /\ NumberOf(type)' = Cardinality(old \cup A)
  BY <1>4, PlacesCounted DEF Counted, old
<1>12. QED
  BY <1>3, <1>7, <1>8, <1>9, <1>10, <1>11 DEF S

\* A transaction, of any number of runs, without events of a type.
LEMMA PlacesKept ==
  ASSUME TypeInv, NEW new \in [Runs -> Seq(Event)], InsertEvents(new), NEW type,
         \A r \in Runs : OfType(new[r], type) = {}
  PROVE  NumberOf(type)' = NumberOf(type)
<1>0. events \in [Runs -> Seq(Event)]
  BY DEF TypeInv, TypeOK, TablesTypeOK
<1>1. ASSUME NEW p \in Runs \X (1..MaxEvents)
      PROVE  (p[2] \in DOMAIN events'[p[1]] /\ events'[p[1]][p[2]].type = type)
                <=> (p[2] \in DOMAIN events[p[1]] /\ events[p[1]][p[2]].type = type)
  <2>1. PICK r \in Runs, i \in 1..MaxEvents : p[1] = r /\ p[2] = i
    OBVIOUS
  <2>2. /\ \A j \in DOMAIN events[r] : j \in DOMAIN events'[r] /\ events'[r][j] = events[r][j]
        /\ \A j \in DOMAIN events'[r] : j \notin DOMAIN events[r] =>
             \E k \in DOMAIN new[r] : j = Len(events[r]) + k /\ events'[r][j] = new[r][k]
    BY <1>0, Inserted, ZenonT(40)
  <2>3. \A k \in DOMAIN new[r] : new[r][k].type # type
    BY DEF OfType
  <2>4. QED
    BY <2>1, <2>2, <2>3
<1>2. Places(type)' = Places(type)
  BY <1>1 DEF Places
<1>3. QED
  BY <1>2, PlacesCounted DEF Counted

-----------------------------------------------------------------------------
(* What the tables hold, counter by counter *)

StartedRuns == {r \in Runs : ~Absent(r)}
FiredTimers == {t \in timers : t.state = "fired"}

CommittedParts ==
  /\ Committed["WorkflowsStarted"] = Cardinality(StartedRuns)
  /\ Committed["completed"] = NumberOf("WorkflowCompleted")
  /\ Committed["failed"] = NumberOf("WorkflowFailed")
  /\ Committed["ActivitiesScheduled"] = NumberOf("ActivityScheduled")
  /\ Committed["TimersStarted"] = NumberOf("TimerStarted")
  /\ Committed["activity completed"] = NumberOf("ActivityCompleted")
  /\ Committed["activity failed"] = NumberOf("ActivityFailed")
  /\ Committed["TimersFired"] = Cardinality(FiredTimers)
  /\ Committed["SignalsDelivered"] = NumberOf("SignalReceived")

LEMMA CommittedInParts == CommittedParts /\ CommittedParts'
<1>1. CommittedParts
  BY DEF CommittedParts, Committed, Counters, StartedRuns, FiredTimers
<1>2. CommittedParts'
  BY DEF CommittedParts, Committed, Counters, StartedRuns, FiredTimers
<1>3. QED
  BY <1>1, <1>2

\* The rows of fired timers are as many as their ids.
LEMMA IDsCounted ==
  ASSUME NEW S, \A t, u \in S : t.id = u.id => t = u,
         NEW n \in Nat, \A t \in S : t.id \in Nat /\ t.id <= n
  PROVE  /\ IsFiniteSet(S) /\ IsFiniteSet({t.id : t \in S})
         /\ Cardinality(S) = Cardinality({t.id : t \in S})
<1> DEFINE ids == {t.id : t \in S}
           f == [i \in ids |-> CHOOSE t \in S : t.id = i]
<1>1. ids \in SUBSET Nat /\ \A i \in ids : i <= n
  OBVIOUS
<1>2. \A i \in ids : f[i] \in S /\ f[i].id = i
  OBVIOUS
<1>3. f \in [ids -> S]
  BY <1>2
<1>4. \A t \in S : t.id \in ids
  OBVIOUS
<1> HIDE DEF ids, f
<1>5. IsFiniteSet(ids)
  BY <1>1, FS_BoundedSetOfNaturals
<1>6. Matched(ids, S)
  <2>1. \A x, y \in ids : f[x] = f[y] => x = y
    BY <1>2
  <2>2. \A t \in S : \E i \in ids : f[i] = t
    BY <1>2, <1>4
  <2>3. QED
    BY <1>3, <2>1, <2>2 DEF Matched
<1>7. IsFiniteSet(S) /\ Cardinality(ids) = Cardinality(S)
  BY <1>5, <1>6, MatchedSize
<1>8. QED
  BY <1>5, <1>7 DEF ids

LEMMA FiredCounted ==
  ASSUME TimerInv
  PROVE  /\ IsFiniteSet(FiredTimers) /\ Cardinality(FiredTimers) \in Nat
         /\ IsFiniteSet({t.id : t \in FiredTimers})
         /\ Cardinality(FiredTimers) = Cardinality({t.id : t \in FiredTimers})
<1>1. /\ serial \in Nat /\ \A t \in timers : t.id \in Nat
  BY DEF TimerInv, CauseInv, IDInv, TypeInv, TypeOK, TablesTypeOK, Timer
<1>2. /\ \A t, u \in FiredTimers : t.id = u.id => t = u
      /\ \A t \in FiredTimers : t.id \in Nat /\ t.id <= serial
  BY <1>1 DEF TimerInv, TimersApart, FiredTimers
<1>3. /\ IsFiniteSet(FiredTimers) /\ IsFiniteSet({t.id : t \in FiredTimers})
      /\ Cardinality(FiredTimers) = Cardinality({t.id : t \in FiredTimers})
  BY <1>1, <1>2, IDsCounted
<1>4. QED
  BY <1>3, FS_CardinalityType

LEMMA StartedCounted == IsFiniteSet(StartedRuns) /\ Cardinality(StartedRuns) \in Nat
<1>1. IsFiniteSet(Runs)
  BY BoundsAssumption, FS_Interval DEF Runs
<1>2. StartedRuns \in SUBSET Runs
  BY DEF StartedRuns
<1>3. QED
  BY <1>1, <1>2, FS_Subset, FS_CardinalityType

CommittedNumbers == \A n \in Counters : Committed[n] \in Nat

LEMMA CommittedCount == TimerInv => CommittedNumbers
<1> SUFFICES ASSUME TimerInv PROVE CommittedNumbers
  OBVIOUS
<1>1. \A type : NumberOf(type) \in Nat
  BY PlacesFinite
<1>2. Cardinality(FiredTimers) \in Nat /\ Cardinality(StartedRuns) \in Nat
  BY FiredCounted, StartedCounted
<1>3. CommittedParts
  BY CommittedInParts
<1>4. QED
  BY <1>1, <1>2, <1>3 DEF CommittedParts, CommittedNumbers, Counters

-----------------------------------------------------------------------------
(* What a step adds to the tables *)

\* The tables gain what a handler that owes this tally will count.
Gains(tally) ==
  \A n \in Counters :
    /\ n \in DOMAIN tally => tally[n] \in Nat
    /\ Committed'[n] = Committed[n] + IF n \in DOMAIN tally THEN tally[n] ELSE 0

NothingGained == \A n \in Counters : Committed'[n] = Committed[n]

LEMMA OneTypes ==
  ASSUME NEW e, NEW type
  PROVE  Cardinality(OfType(<<e>>, type)) = IF e.type = type THEN 1 ELSE 0
<1>1. OfType(<<e>>, type) = IF e.type = type THEN {1} ELSE {}
  BY DEF OfType
<1>2. Cardinality({}) = 0 /\ Cardinality({1}) = 1
  BY FS_EmptySet, FS_Singleton
<1>3. QED
  BY <1>1, <1>2

LEMMA OneAdded ==
  ASSUME TypeInv, NEW q \in Runs, NEW e \in Event, InsertEvents(EventsOf(q, <<e>>))
  PROVE  \A type : /\ e.type = type => NumberOf(type)' = NumberOf(type) + 1
                   /\ e.type # type => NumberOf(type)' = NumberOf(type)
<1>1. PICK new : new = EventsOf(q, <<e>>)
  OBVIOUS
<1>2. /\ InsertEvents(new) /\ new \in [Runs -> Seq(Event)] /\ new[q] = <<e>>
      /\ \A r \in Runs \ {q} : new[r] = <<>>
  BY <1>1, OneEventType DEF EventsOf
<1>3. ASSUME NEW type
      PROVE  /\ e.type = type => NumberOf(type)' = NumberOf(type) + 1
             /\ e.type # type => NumberOf(type)' = NumberOf(type)
  <2>1. NumberOf(type)' = NumberOf(type) + Cardinality(OfType(new[q], type))
    BY <1>2, PlacesGrow
  <2>2. NumberOf(type) \in Nat
    BY PlacesFinite
  <2>3. Cardinality(OfType(new[q], type)) = IF e.type = type THEN 1 ELSE 0
    BY <1>2, OneTypes
  <2>4. QED
    BY <2>1, <2>2, <2>3
<1>4. QED
  BY <1>3

\* A handler that counts one thing.
LEMMA OneGained ==
  ASSUME NEW n \in Counters, CommittedNumbers, Committed'[n] = Committed[n] + 1,
         \A m \in Counters \ {n} : Committed'[m] = Committed[m]
  PROVE  Gains(One(n))
<1>1. DOMAIN One(n) = {n} /\ One(n)[n] = 1
  BY DEF One
<1>2. \A m \in Counters : Committed[m] \in Nat
  BY DEF CommittedNumbers
<1>3. QED
  BY <1>1, <1>2 DEF Gains

\* The counters whose durable value is a number of events.
EventsSame ==
  \A type \in {"WorkflowCompleted", "WorkflowFailed", "ActivityScheduled", "TimerStarted",
               "ActivityCompleted", "ActivityFailed", "SignalReceived"} :
    NumberOf(type)' = NumberOf(type)

LEMMA NothingNew ==
  ASSUME EventsSame, StartedRuns' = StartedRuns, FiredTimers' = FiredTimers
  PROVE  NothingGained
<1>1. CommittedParts /\ CommittedParts'
  BY CommittedInParts
<1>2. QED
  BY <1>1 DEF CommittedParts, NothingGained, Counters, EventsSame

LEMMA StartGains ==
  ASSUME EngineInv, NEW c \in Clients, StartCommit(c)
  PROVE  Gains(One("WorkflowsStarted"))
<1> DEFINE r == client[c].run
           e == [id |-> 1, type |-> "WorkflowStarted", key |-> 0]
<1>1. /\ TypeInv /\ r \in Runs /\ e \in Event
      /\ execs \in [Runs -> Execution] /\ Absent(r)
  BY CommitEvents
  DEF EngineInv, RunInv, StartsApart, Starting, StartCommit, TypeInv, TypeOK, TablesTypeOK
<1>2. /\ InsertEvents(EventsOf(r, <<e>>)) /\ UNCHANGED timers
      /\ execs' = [execs EXCEPT ![r] = [workflow |-> client[c].workflow, status |-> "Running"]]
  BY DEF StartCommit, InsertWorkflowExecution
<1> HIDE DEF r
<1>3. EventsSame
  BY <1>1, <1>2, OneAdded DEF EventsSame
<1>4. FiredTimers' = FiredTimers
  BY <1>2 DEF FiredTimers
<1>5. StartedRuns' = StartedRuns \cup {r} /\ r \notin StartedRuns
  BY <1>1, <1>2 DEF StartedRuns, Absent
<1>6. Cardinality(StartedRuns') = Cardinality(StartedRuns) + 1
  BY <1>5, StartedCounted, FS_AddElement
<1>7. CommittedParts /\ CommittedParts' /\ CommittedNumbers
  BY CommittedInParts, CommittedCount DEF EngineInv
<1>8. /\ Committed'["WorkflowsStarted"] = Committed["WorkflowsStarted"] + 1
      /\ \A n \in Counters \ {"WorkflowsStarted"} : Committed'[n] = Committed[n]
  BY <1>3, <1>4, <1>6, <1>7 DEF CommittedParts, Counters, EventsSame
<1>9. QED
  <2>1. "WorkflowsStarted" \in Counters
    BY DEF Counters
  <2>2. QED
    BY <1>7, <1>8, <2>1, OneGained

\* A transaction that inserts one event, which the counter n counts.
LEMMA EventGains ==
  ASSUME EngineInv, NEW q \in Runs, NEW e \in Event, InsertEvents(EventsOf(q, <<e>>)),
         UNCHANGED <<execs, timers>>,
         NEW n \in {"SignalsDelivered", "activity completed", "activity failed"},
         e.type = CASE n = "SignalsDelivered"   -> "SignalReceived"
                    [] n = "activity completed" -> "ActivityCompleted"
                    [] n = "activity failed"    -> "ActivityFailed"
  PROVE  Gains(One(n))
<1>1. TypeInv
  BY DEF EngineInv, RunInv
<1>2. \A type : /\ e.type = type => NumberOf(type)' = NumberOf(type) + 1
                /\ e.type # type => NumberOf(type)' = NumberOf(type)
  BY <1>1, OneAdded
<1>3. /\ Cardinality(FiredTimers)' = Cardinality(FiredTimers)
      /\ Cardinality(StartedRuns)' = Cardinality(StartedRuns)
  BY DEF FiredTimers, StartedRuns, Absent
<1>4. CommittedParts /\ CommittedParts' /\ CommittedNumbers
  BY CommittedInParts, CommittedCount DEF EngineInv
<1>5. /\ Committed'[n] = Committed[n] + 1
      /\ \A m \in Counters \ {n} : Committed'[m] = Committed[m]
  <2>1. /\ NumberOf(e.type)' = NumberOf(e.type) + 1
        /\ \A type : type # e.type => NumberOf(type)' = NumberOf(type)
    BY <1>2
  <2>2. CASE n = "SignalsDelivered"
    BY <1>3, <1>4, <2>1, <2>2 DEF CommittedParts, Counters
  <2>3. CASE n = "activity completed"
    BY <1>3, <1>4, <2>1, <2>3 DEF CommittedParts, Counters
  <2>4. CASE n = "activity failed"
    BY <1>3, <1>4, <2>1, <2>4 DEF CommittedParts, Counters
  <2>5. QED
    BY <2>2, <2>3, <2>4
<1>6. n \in Counters
  BY DEF Counters
<1>7. QED
  BY <1>4, <1>5, <1>6, OneGained

LEMMA SignalGains ==
  ASSUME EngineInv, NEW c \in Clients, SignalCommit(c)
  PROVE  Gains(One("SignalsDelivered"))
<1> DEFINE r == client[c].run
           e == [id |-> client[c].next, type |-> "SignalReceived", key |-> 0]
<1>1. r \in Runs /\ e \in Event
  BY CommitEvents DEF EngineInv, RunInv, SignalCommit
<1>2. InsertEvents(EventsOf(r, <<e>>)) /\ UNCHANGED <<execs, timers>>
  BY DEF SignalCommit
<1>3. e.type = "SignalReceived"
  OBVIOUS
<1> HIDE DEF r, e
<1>4. QED
  BY <1>1, <1>2, <1>3, EventGains

LEMMA OutcomeGains ==
  ASSUME EngineInv, NEW w \in Workers, CommitActivityTask(w)
  PROVE  Gains(One(IF worker[w].ok THEN "activity completed" ELSE "activity failed"))
<1> DEFINE r == worker[w].task.run
           e == [id |-> worker[w].next, type |-> OutcomeType(worker[w].ok),
                 key |-> worker[w].task.key]
<1>1. r \in Runs /\ e \in Event
  BY CommitEvents DEF EngineInv, RunInv
<1>2. InsertEvents(EventsOf(r, <<e>>)) /\ UNCHANGED <<execs, timers>>
  BY DEF CommitActivityTask, OutcomeType
<1>3. e.type = IF worker[w].ok THEN "ActivityCompleted" ELSE "ActivityFailed"
  BY DEF OutcomeType
<1> HIDE DEF r, e
<1>4. CASE worker[w].ok
  BY <1>1, <1>2, <1>3, <1>4, EventGains
<1>5. CASE ~worker[w].ok
  BY <1>1, <1>2, <1>3, <1>5, EventGains
<1>6. QED
  BY <1>4, <1>5

\* CompleteWorkflowTask counts the commands of each type, and has inserted an
\* event for each.
LEMMA DecisionGains ==
  ASSUME EngineInv, NEW w \in Workers, CommitWorkflowTask(w)
  PROVE  Gains(Tally(worker[w].cmds))
<1> DEFINE r == worker[w].task.run
           cmds == worker[w].cmds
           new == DecisionEvents(w)
<1>1. TypeInv
  BY DEF EngineInv, RunInv
<1>2. /\ r \in Runs /\ new \in [Runs -> Seq(Event)] /\ DOMAIN new[r] = 1..Len(cmds)
      /\ \A i \in 1..Len(cmds) : /\ cmds[i] \in Command
                                 /\ new[r][i].type = Recorded[cmds[i].type]
      /\ \A q \in Runs \ {r} : new[q] = <<>>
  BY <1>1, Decisions
<1>3. /\ InsertEvents(new) /\ \A q \in Runs \ {r} : execs'[q] = execs[q]
      /\ execs'[r].status \in {execs[r].status, "Completed", "Failed"}
      /\ timers \subseteq timers'
      /\ \A t \in timers' : t \in timers \/ t.state = "waiting"
      /\ worker[w].pc = "ready"
  BY <1>1, DecisionCommit
<1>4. Cardinality(FiredTimers)' = Cardinality(FiredTimers)
  <2>1. FiredTimers' = FiredTimers
    BY <1>3 DEF FiredTimers
  <2>2. QED
    BY <2>1
<1>5. Cardinality(StartedRuns)' = Cardinality(StartedRuns)
  <2>1. ~Absent(r)
    BY <1>3 DEF EngineInv, RunInv, ProcessesKnown, Busy
  <2>2. StartedRuns' = StartedRuns
    BY <1>2, <1>3, <2>1 DEF StartedRuns, Absent
  <2>3. QED
    BY <2>2
<1>6. ASSUME NEW type
      PROVE  /\ Cardinality(OfType(new[r], type)) \in Nat
             /\ NumberOf(type)' = NumberOf(type) + Cardinality(OfType(new[r], type))
  BY <1>1, <1>2, <1>3, PlacesGrow
<1> HIDE DEF new, r, cmds
<1>7. ASSUME NEW type \in CommandTypes
      PROVE  OfType(new[r], Recorded[type]) = CommandsOf(type, cmds)
  <2>1. \A i \in 1..Len(cmds) : Recorded[cmds[i].type] = Recorded[type] <=> cmds[i].type = type
    BY <1>2 DEF Command, CommandTypes, Recorded
  <2>2. QED
    BY <1>2, <2>1 DEF OfType, CommandsOf
<1>8. /\ \A type \in CommandTypes : type \in DOMAIN Recorded
      /\ "ScheduleActivity" \in CommandTypes /\ Recorded["ScheduleActivity"] = "ActivityScheduled"
      /\ "StartTimer" \in CommandTypes /\ Recorded["StartTimer"] = "TimerStarted"
      /\ "CompleteWorkflow" \in CommandTypes /\ Recorded["CompleteWorkflow"] = "WorkflowCompleted"
      /\ "FailWorkflow" \in CommandTypes /\ Recorded["FailWorkflow"] = "WorkflowFailed"
  BY DEF CommandTypes, Recorded
<1>9. ASSUME NEW type \in {"ActivityCompleted", "ActivityFailed", "SignalReceived"}
      PROVE  NumberOf(type)' = NumberOf(type)
  <2>1. \A i \in 1..Len(cmds) : Recorded[cmds[i].type] # type
    BY <1>2 DEF Command, CommandTypes, Recorded
  <2>2. OfType(new[r], type) = {}
    BY <1>2, <2>1 DEF OfType
  <2>3. NumberOf(type)' = NumberOf(type) + 0 /\ NumberOf(type) \in Nat
    BY <1>6, <2>2, FS_EmptySet, PlacesFinite
  <2>4. QED
    BY <2>3
<1> DEFINE n(type) == Cardinality(CommandsOf(type, cmds))
<1>10. /\ NumberOf("ActivityScheduled")' = NumberOf("ActivityScheduled") + n("ScheduleActivity")
       /\ NumberOf("TimerStarted")' = NumberOf("TimerStarted") + n("StartTimer")
       /\ NumberOf("WorkflowCompleted")' = NumberOf("WorkflowCompleted") + n("CompleteWorkflow")
       /\ NumberOf("WorkflowFailed")' = NumberOf("WorkflowFailed") + n("FailWorkflow")
  BY <1>6, <1>7, <1>8
<1> HIDE DEF n
<1>11. CommittedParts /\ CommittedParts' /\ CommittedNumbers
  BY CommittedInParts, CommittedCount DEF EngineInv
<1>12. /\ Committed'["ActivitiesScheduled"] = Committed["ActivitiesScheduled"] + n("ScheduleActivity")
       /\ Committed'["TimersStarted"] = Committed["TimersStarted"] + n("StartTimer")
       /\ Committed'["completed"] = Committed["completed"] + n("CompleteWorkflow")
       /\ Committed'["failed"] = Committed["failed"] + n("FailWorkflow")
  BY <1>10, <1>11 DEF CommittedParts
<1> DEFINE counted == {"ActivitiesScheduled", "TimersStarted", "completed", "failed"}
<1>13. \A m \in Counters \ counted : Committed'[m] = Committed[m]
  BY <1>4, <1>5, <1>9, <1>11 DEF CommittedParts, Counters
<1>14. PICK tally : tally = Tally(cmds)
  OBVIOUS
<1>15. /\ DOMAIN tally = counted
       /\ tally["ActivitiesScheduled"] = n("ScheduleActivity")
       /\ tally["TimersStarted"] = n("StartTimer")
       /\ tally["completed"] = n("CompleteWorkflow")
       /\ tally["failed"] = n("FailWorkflow")
  BY <1>14 DEF Tally, n
<1>16. \A m \in Counters : Committed[m] \in Nat
  BY <1>11 DEF CommittedNumbers
<1>17. Gains(tally)
  <2>1. \A type \in CommandTypes : n(type) \in Nat
    BY <1>6, <1>7 DEF n
  <2>2. QED
    BY <1>8, <1>12, <1>13, <1>15, <1>16, <2>1 DEF Gains
<1>18. QED
  BY <1>14, <1>17 DEF cmds

\* A scan counts the timers it has marked: each was a row that had not fired.
LEMMA ScanGains ==
  ASSUME EngineInv, TimerInv', NEW s \in Scanners, ScanCommit(s)
  PROVE  Gains([TimersFired |-> Cardinality(scanner[s].fired)])
<1> DEFINE F == scanner[s].fired
           new == scanner[s].batch
<1>0. /\ TypeInv /\ TimerInv /\ timers \subseteq Timer /\ F \in SUBSET Nat
      /\ new \in [Runs -> Seq(Event)] /\ serial \in Nat
  BY DEF EngineInv, TimerInv, CauseInv, IDInv, TypeInv, TypeOK, TablesTypeOK, ScannerState
<1>1. InsertEvents(new) /\ timers' = MarkTimerFired(F) /\ UNCHANGED execs
  BY DEF ScanCommit
<1>2. \A n \in F : \E t \in timers : t.id = n /\ t.state = "due"
  BY <1>0 DEF TimerInv, RowsDue
<1>3. \A t, u \in timers : t.id = u.id => t = u
  BY <1>0 DEF TimerInv, TimersApart
<1>4. /\ \A t \in timers' : \E u \in timers : FiredRow(t, u, F)
      /\ \A u \in timers : \E t \in timers' : FiredRow(t, u, F)
  BY <1>0, <1>1, FiredRows
<1>5. PICK A, B : A = FiredTimers /\ B = FiredTimers'
  OBVIOUS
<1> DEFINE old == {t.id : t \in A}
           res == {t.id : t \in B}
<1> HIDE DEF F, new
<1>6. res = old \cup F
  <2>1. ASSUME NEW t \in B PROVE t.id \in old \cup F
    BY <1>4, <1>5, <2>1 DEF FiredTimers, FiredRow
  <2>2. ASSUME NEW t \in A PROVE t.id \in res
    BY <1>4, <1>5, <2>2 DEF FiredTimers, FiredRow
  <2>3. ASSUME NEW n \in F PROVE n \in res
    <3>1. PICK u \in timers : u.id = n
      BY <1>2, <2>3
    <3>2. PICK t \in timers' : FiredRow(t, u, F)
      BY <1>4
    <3>3. t.id = n /\ t.state = "fired"
      BY <3>1, <3>2 DEF FiredRow
    <3>4. QED
      BY <1>5, <3>2, <3>3 DEF FiredTimers
  <2>4. QED
    BY <2>1, <2>2, <2>3
<1>7. old \cap F = {}
  BY <1>2, <1>3, <1>5 DEF FiredTimers
<1>8. /\ IsFiniteSet(old) /\ Cardinality(old) = Cardinality(A)
      /\ Cardinality(A) \in Nat
  BY <1>0, <1>5, FiredCounted
<1>9. IsFiniteSet(res) /\ Cardinality(res) = Cardinality(B)
  <2>1. PICK m : m = serial'
    OBVIOUS
  <2>2. /\ m \in Nat /\ \A t \in B : t.id \in Nat /\ t.id <= m
        /\ \A t, u \in B : t.id = u.id => t = u
    BY <1>5, <2>1 DEF TimerInv, TimersApart, FiredTimers, CauseInv, IDInv, TypeInv, TypeOK,
                      TablesTypeOK, Timer
  <2>3. QED
    BY <2>2, IDsCounted
<1>10. IsFiniteSet(F) /\ Cardinality(F) \in Nat
  <2>1. F \in SUBSET res
    BY <1>6
  <2>2. QED
    BY <1>9, <2>1, FS_Subset, FS_CardinalityType
<1> HIDE DEF old, res
<1>11. Cardinality(B) = Cardinality(A) + Cardinality(F)
  <2>1. Cardinality(old \cup F) = Cardinality(old) + Cardinality(F) - Cardinality({})
    BY <1>7, <1>8, <1>10, FS_Union
  <2>2. QED
    BY <1>6, <1>8, <1>9, <1>10, <2>1, FS_EmptySet
<1>12. EventsSame
  <2>1. ASSUME NEW type, type # "TimerFired" PROVE NumberOf(type)' = NumberOf(type)
    <3>1. \A r \in Runs : OfType(new[r], type) = {}
      BY <2>1 DEF new, OfType, EngineInv, RunInv, PastStart
    <3>2. QED
      BY <1>0, <1>1, <3>1, PlacesKept
  <2>2. QED
    BY <2>1 DEF EventsSame
<1>13. Cardinality(StartedRuns)' = Cardinality(StartedRuns)
  BY <1>1 DEF StartedRuns, Absent
<1>14. CommittedParts /\ CommittedParts' /\ CommittedNumbers
  BY <1>0, CommittedInParts, CommittedCount
<1>15. /\ Committed'["TimersFired"] = Committed["TimersFired"] + Cardinality(F)
       /\ \A m \in Counters \ {"TimersFired"} : Committed'[m] = Committed[m]
  BY <1>5, <1>11, <1>12, <1>13, <1>14 DEF CommittedParts, Counters, EventsSame
<1>16. \A m \in Counters : Committed[m] \in Nat
  BY <1>14 DEF CommittedNumbers
<1>17. PICK tally : tally = [TimersFired |-> Cardinality(F)]
  OBVIOUS
<1>18. DOMAIN tally = {"TimersFired"} /\ tally["TimersFired"] = Cardinality(F)
  BY <1>17
<1>19. Gains(tally)
  BY <1>10, <1>15, <1>16, <1>18 DEF Gains
<1>20. QED
  BY <1>17, <1>19 DEF F

-----------------------------------------------------------------------------
(* What a counter and the increments owed to it come to *)

Exact ==
  /\ counters \in [Counters -> Nat] /\ owed \in [Counters -> Nat]
  /\ \A n \in Counters :
       before[n] \in Nat /\ counters[n] + owed[n] = Committed[n] - before[n]

MetricsInv == EngineInv /\ Exact

LEMMA OwedExactly ==
  ASSUME Exact, NEW tally, Owe(tally), Gains(tally), CommittedNumbers
  PROVE  Exact'
<1>1. /\ UNCHANGED <<counters, before>>
      /\ owed' = [n \in Counters |->
                    owed[n] + IF n \in DOMAIN tally THEN tally[n] ELSE 0]
  BY DEF Owe
<1>2. ASSUME NEW n \in Counters
      PROVE  /\ owed'[n] \in Nat
             /\ counters'[n] + owed'[n] = Committed'[n] - before'[n]
  <2>1. PICK k \in Nat : /\ owed'[n] = owed[n] + k
                         /\ Committed'[n] = Committed[n] + k
    <3>1. CASE n \in DOMAIN tally
      BY <1>1, <3>1 DEF Gains
    <3>2. CASE n \notin DOMAIN tally
      BY <1>1, <3>2 DEF Gains
    <3>3. QED
      BY <3>1, <3>2
  <2>2. /\ counters[n] \in Nat /\ owed[n] \in Nat /\ before[n] \in Nat
        /\ Committed[n] \in Nat /\ counters[n] + owed[n] = Committed[n] - before[n]
    BY DEF Exact, CommittedNumbers
  <2>3. counters'[n] = counters[n] /\ before'[n] = before[n]
    BY <1>1
  <2>4. QED
    BY <2>1, <2>2, <2>3
<1>3. owed' \in [Counters -> Nat]
  BY <1>1, <1>2
<1>4. QED
  BY <1>1, <1>2, <1>3 DEF Exact

LEMMA ExactKept ==
  ASSUME Exact, UNCHANGED counts, NothingGained
  PROVE  Exact'
BY DEF Exact, counts, NothingGained

\* A step that commits none of the counted transactions.
LEMMA QuietGains ==
  ASSUME UNCHANGED <<execs, events>>, FiredTimers' = FiredTimers
  PROVE  NothingGained
<1>1. EventsSame
  BY DEF EventsSame, NumberOf, HasType
<1>2. StartedRuns' = StartedRuns
  BY DEF StartedRuns, Absent
<1>3. QED
  BY <1>1, <1>2, NothingNew

LEMMA ExactClient ==
  ASSUME MetricsInv, NEW c \in Clients, ClientSteps(c)
  PROVE  Exact'
<1>1. EngineInv /\ Exact /\ CommittedNumbers
  BY CommittedCount DEF MetricsInv, EngineInv
<1>2. CASE StartCommit(c) /\ Owe(One("WorkflowsStarted"))
  BY <1>1, <1>2, StartGains, OwedExactly
<1>3. CASE SignalCommit(c) /\ Owe(One("SignalsDelivered"))
  BY <1>1, <1>3, SignalGains, OwedExactly
<1>4. CASE /\ \/ \E wf \in Workflows : StartBegin(c, wf) \/ SignalWorkflowID(c, wf)
              \/ \E r \in 0..MaxRuns : SignalRunID(c, r)
              \/ StartCheck(c) \/ SignalCheck(c) \/ SignalRead(c) \/ SignalEnqueue(c)
              \/ ClientAbort(c)
           /\ UNCHANGED counts
  <2>1. UNCHANGED <<execs, events, timers>>
    BY <1>4 DEF StartBegin, SignalWorkflowID, SignalRunID, Resolve, StartCheck, SignalCheck,
                SignalRead, SignalEnqueue, ClientAbort, tables
  <2>2. FiredTimers' = FiredTimers
    BY <2>1 DEF FiredTimers
  <2>3. QED
    BY <1>1, <1>4, <2>1, <2>2, QuietGains, ExactKept
<1>5. QED
  BY <1>2, <1>3, <1>4 DEF ClientSteps

LEMMA ExactWorker ==
  ASSUME MetricsInv, NEW w \in Workers, WorkerSteps(w)
  PROVE  Exact'
<1>1. EngineInv /\ Exact /\ CommittedNumbers
  BY CommittedCount DEF MetricsInv, EngineInv
<1>2. CASE CommitWorkflowTask(w) /\ Owe(Tally(worker[w].cmds))
  BY <1>1, <1>2, DecisionGains, OwedExactly
<1>3. CASE /\ CommitActivityTask(w)
           /\ Owe(One(IF worker[w].ok THEN "activity completed" ELSE "activity failed"))
  BY <1>1, <1>3, OutcomeGains, OwedExactly
<1>4. CASE /\ \/ \E t \in tasks : Poll(w, t)
              \/ FetchHistory(w)
              \/ \E cmds \in CommandLists : CheckRunning(w, cmds)
              \/ DiscardWorkflowTask(w) \/ ReadEvents(w)
              \/ \E ok \in BOOLEAN : GetTask(w, ok)
              \/ CommitRetry(w) \/ Abandon(w)
           /\ UNCHANGED counts
  <2>1. UNCHANGED <<execs, events, timers>>
    BY <1>4 DEF Poll, FetchHistory, CheckRunning, DiscardWorkflowTask, ReadEvents, GetTask,
                CommitRetry, Abandon, tables
  <2>2. FiredTimers' = FiredTimers
    BY <2>1 DEF FiredTimers
  <2>3. QED
    BY <1>1, <1>4, <2>1, <2>2, QuietGains, ExactKept
<1>5. QED
  BY <1>2, <1>3, <1>4 DEF WorkerSteps

LEMMA ExactScanner ==
  ASSUME MetricsInv, TimerInv', NEW s \in Scanners, ScannerSteps(s)
  PROVE  Exact'
<1>1. EngineInv /\ Exact /\ CommittedNumbers
  BY CommittedCount DEF MetricsInv, EngineInv
<1>2. CASE ScanCommit(s) /\ Owe([TimersFired |-> Cardinality(scanner[s].fired)])
  BY <1>1, <1>2, ScanGains, OwedExactly
<1>3. CASE /\ \/ \E due \in SUBSET timers : ScanSelect(s, due)
              \/ \E t \in scanner[s].due : ScanTimer(s, t)
              \/ ScanAbort(s)
           /\ UNCHANGED counts
  <2>1. UNCHANGED <<execs, events, timers>>
    BY <1>3 DEF ScanSelect, ScanTimer, ScanAbort, tables
  <2>2. FiredTimers' = FiredTimers
    BY <2>1 DEF FiredTimers
  <2>3. QED
    BY <1>1, <1>3, <2>1, <2>2, QuietGains, ExactKept
<1>4. QED
  BY <1>2, <1>3 DEF ScannerSteps

LEMMA ExactEngine ==
  ASSUME MetricsInv, EngineNext, UNCHANGED counts
  PROVE  Exact'
<1>1. UNCHANGED <<execs, events>>
  BY DEF EngineNext, ReclaimExpiredLeases, BackoffElapses, TimerDue
<1>2. FiredTimers' = FiredTimers
  <2>1. CASE UNCHANGED timers
    BY <2>1 DEF FiredTimers
  <2>2. ASSUME NEW t \in timers, TimerDue(t) PROVE FiredTimers' = FiredTimers
    <3>1. PICK d : d = [t EXCEPT !.state = "due"]
      OBVIOUS
    <3>2. t \in Timer
      BY DEF MetricsInv, EngineInv, RunInv, TypeInv, TypeOK, TablesTypeOK
    <3>3. d.state = "due" /\ t.state = "waiting" /\ timers' = (timers \ {t}) \cup {d}
      BY <2>2, <3>1, <3>2 DEF TimerDue, Timer
    <3>4. QED
      BY <3>3 DEF FiredTimers
  <2>3. QED
    BY <2>1, <2>2 DEF EngineNext, ReclaimExpiredLeases, BackoffElapses
<1>3. QED
  BY <1>1, <1>2, QuietGains, ExactKept DEF MetricsInv

\* Increments that are made go from what is owed to the counter.
LEMMA ExactCount ==
  ASSUME MetricsInv, NEW n \in Counters, Count(n)
  PROVE  Exact'
<1>1. PICK k \in 1..owed[n] : /\ counters' = [counters EXCEPT ![n] = @ + k]
                              /\ owed' = [owed EXCEPT ![n] = @ - k]
  BY DEF Count
<1>2. UNCHANGED <<execs, events, timers, before>>
  BY DEF Count, vars
<1>3. NothingGained
  BY <1>2, QuietGains DEF FiredTimers
<1>4. /\ counters \in [Counters -> Nat] /\ owed \in [Counters -> Nat] /\ CommittedNumbers
      /\ \A m \in Counters :
           before[m] \in Nat /\ counters[m] + owed[m] = Committed[m] - before[m]
  BY CommittedCount DEF MetricsInv, EngineInv, Exact
<1>5. counters[n] + k \in Nat /\ owed[n] - k \in Nat
  BY <1>1, <1>4
<1>6. counters' \in [Counters -> Nat] /\ owed' \in [Counters -> Nat]
  BY <1>1, <1>4, <1>5
<1>7. ASSUME NEW m \in Counters
      PROVE  before'[m] \in Nat /\ counters'[m] + owed'[m] = Committed'[m] - before'[m]
  <2>1. /\ before'[m] = before[m] /\ Committed'[m] = Committed[m]
        /\ before[m] \in Nat /\ counters[m] + owed[m] = Committed[m] - before[m]
        /\ counters[m] \in Nat /\ owed[m] \in Nat
    BY <1>2, <1>3, <1>4 DEF NothingGained
  <2>2. counters'[m] + owed'[m] = counters[m] + owed[m]
    <3>1. CASE m = n
      BY <1>1, <1>4, <2>1, <3>1
    <3>2. CASE m # n
      BY <1>1, <1>4, <3>2
    <3>3. QED
      BY <3>1, <3>2
  <2>3. QED
    BY <2>1, <2>2
<1>8. QED
  BY <1>6, <1>7 DEF Exact

LEMMA ExactRestart ==
  ASSUME MetricsInv, Restart
  PROVE  Exact'
<1>1. /\ UNCHANGED <<execs, events, timers>>
      /\ counters' = None /\ owed' = None /\ before' = Committed
  BY DEF Restart, tables
<1>2. NothingGained
  BY <1>1, QuietGains DEF FiredTimers
<1>3. CommittedNumbers
  BY CommittedCount DEF MetricsInv, EngineInv
<1>4. None \in [Counters -> Nat] /\ \A n \in Counters : None[n] = 0
  BY DEF None
<1>5. ASSUME NEW n \in Counters
      PROVE  before'[n] \in Nat /\ counters'[n] + owed'[n] = Committed'[n] - before'[n]
  <2>1. before'[n] = Committed[n] /\ Committed'[n] = Committed[n] /\ Committed[n] \in Nat
    BY <1>1, <1>2, <1>3 DEF NothingGained, CommittedNumbers
  <2>2. counters'[n] = 0 /\ owed'[n] = 0
    BY <1>1, <1>4
  <2>3. QED
    BY <2>1, <2>2
<1>6. QED
  BY <1>1, <1>4, <1>5 DEF Exact

LEMMA MetricsStart == MetricsInit => MetricsInv
<1> SUFFICES ASSUME MetricsInit PROVE MetricsInv
  OBVIOUS
<1>1. EngineInv
  BY RunInit, TimerInit DEF MetricsInit, EngineInv
<1>2. /\ timers = {} /\ \A r \in Runs : Absent(r) /\ events[r] = <<>>
      /\ counters = None /\ owed = None /\ before = None
  BY DEF MetricsInit, Init, TablesInit, Absent
<1>3. DOMAIN <<>> = {} /\ Cardinality({}) = 0
  BY FS_EmptySet
<1>4. ASSUME NEW type PROVE NumberOf(type) = 0
  <2>1. Places(type) = {}
    BY <1>2, <1>3 DEF Places
  <2>2. QED
    BY <1>3, <2>1, PlacesCounted DEF Counted
<1>5. FiredTimers = {} /\ StartedRuns = {}
  BY <1>2 DEF FiredTimers, StartedRuns
<1>6. CommittedParts
  BY CommittedInParts
<1>7. \A n \in Counters : Committed[n] = 0
  BY <1>3, <1>4, <1>5, <1>6 DEF CommittedParts, Counters
<1>8. None \in [Counters -> Nat] /\ \A n \in Counters : None[n] = 0
  BY DEF None
<1>9. Exact
  <2>1. ASSUME NEW n \in Counters
        PROVE  before[n] \in Nat /\ counters[n] + owed[n] = Committed[n] - before[n]
    <3>1. before[n] = 0 /\ counters[n] = 0 /\ owed[n] = 0 /\ Committed[n] = 0
      BY <1>2, <1>7, <1>8
    <3>2. QED
      BY <3>1
  <2>2. QED
    BY <1>2, <1>8, <2>1 DEF Exact
<1>10. QED
  BY <1>1, <1>9 DEF MetricsInv

LEMMA MetricsStep == MetricsInv /\ [MetricsNext]_metricsVars => MetricsInv'
<1> SUFFICES ASSUME MetricsInv, [MetricsNext]_metricsVars PROVE MetricsInv'
  OBVIOUS
<1>1. EngineInv'
  BY EngineStep DEF MetricsInv
<1>2. TimerInv'
  BY <1>1 DEF EngineInv
<1>3. ASSUME NEW c \in Clients, ClientSteps(c) PROVE Exact'
  BY <1>3, ExactClient
<1>4. ASSUME NEW w \in Workers, WorkerSteps(w) PROVE Exact'
  BY <1>4, ExactWorker
<1>5. ASSUME NEW s \in Scanners, ScannerSteps(s) PROVE Exact'
  BY <1>2, <1>5, ExactScanner
<1>6. ASSUME NEW n \in Counters, Count(n) PROVE Exact'
  BY <1>6, ExactCount
<1>7. ASSUME UNCHANGED metricsVars PROVE Exact'
  <2>1. UNCHANGED <<execs, events, timers>> /\ UNCHANGED counts
    BY <1>7 DEF metricsVars, vars
  <2>2. FiredTimers' = FiredTimers
    BY <2>1 DEF FiredTimers
  <2>3. NothingGained
    BY <2>1, <2>2, QuietGains
  <2>4. QED
    BY <2>1, <2>3, ExactKept DEF MetricsInv
<1>8. Exact'
  <2>1. EngineNext /\ UNCHANGED counts => Exact'
    BY ExactEngine
  <2>2. Restart => Exact'
    BY ExactRestart
  <2>3. QED
    BY <1>3, <1>4, <1>5, <1>6, <1>7, <2>1, <2>2 DEF MetricsNext
<1>9. QED
  BY <1>1, <1>8 DEF MetricsInv

LEMMA MetricsInvariant == MetricsSpec => []MetricsInv
<1>1. QED
  BY MetricsStart, MetricsStep, PTL DEF MetricsSpec

\* A counter never claims more than the tables have gained since the process
\* started, with any interleaving of handlers that commit, roll back or have
\* committed and not counted yet, and any number of restarts: the metrics are
\* incremented after the commit, and only there.
THEOREM CountersNeverAhead == MetricsSpec => []NeverAheadOfTables
<1>1. ASSUME MetricsInv, NEW n \in Counters
      PROVE  counters[n] <= Committed[n] - before[n]
  <2>1. /\ counters[n] \in Nat /\ owed[n] \in Nat /\ before[n] \in Nat
        /\ Committed[n] \in Nat /\ counters[n] + owed[n] = Committed[n] - before[n]
    BY <1>1, CommittedCount DEF MetricsInv, EngineInv, Exact, CommittedNumbers
  <2>2. QED
    BY <2>1
<1>2. MetricsInv => NeverAheadOfTables
  BY <1>1 DEF NeverAheadOfTables
<1>3. QED
  BY <1>2, MetricsInvariant, PTL

\* And it never claims less for longer than a handler takes from its commit to
\* its increments: Tally counts every command of an answer, a scan every timer
\* it has marked, and a retried or discarded task nothing.  What is counted are
\* lifecycle events: a run that two workers close counts twice.
THEOREM CountersCountEvents == MetricsSpec => []CountsCommittedEvents
<1>1. ASSUME MetricsInv, owed = None, NEW n \in Counters
      PROVE  counters[n] = Committed[n] - before[n]
  <2>1. /\ counters[n] \in Nat /\ counters[n] + owed[n] = Committed[n] - before[n]
    BY <1>1 DEF MetricsInv, Exact
  <2>2. owed[n] = 0
    BY <1>1 DEF None
  <2>3. QED
    BY <2>1, <2>2
<1>2. MetricsInv => CountsCommittedEvents
  BY <1>1 DEF CountsCommittedEvents
<1>3. QED
  BY <1>2, MetricsInvariant, PTL

=============================================================================
