--------------------------- MODULE WriteLeaseProofs ---------------------------
(***************************************************************************)
(* Proofs about WriteLease, for any number of replicas, handlers and       *)
(* ticks, any renewal interval and any timeout.                            *)
(***************************************************************************)
EXTENDS WriteLease, TLAPS

-----------------------------------------------------------------------------
(* The inductive invariant. *)

(* Of two writers of one replica, one waits for the mutex or has ended. *)
MutexKept ==
  \A v, w \in Writer :
    v # w /\ ReplicaOf[v] = ReplicaOf[w] =>
      stage[v] \in {"queued", "done"} \/ stage[w] \in {"queued", "done"}

(* Until something is late, a lease whose flag is set owns the row for one *)
(* interval more than its renewal is away, and a save that has begun keeps *)
(* the row for an interval from its beginning.                             *)
RowKept ==
  /\ \A w \in releasing : stage[w] = "done"
  /\ ~late => \A w \in Handler :
       /\ active[w] => owner = w /\ left = Interval + due[w]
       /\ stage[w] = "saving" =>
            owner = w /\ age[w] < Interval /\ left + age[w] >= Interval

(* What a writer may lack that was saved before: once it has reloaded the  *)
(* row, and from the moment it has a copy to build on.                     *)
Lacks(w) ==
  \A i \in 1..Len(log) :
    /\ stage[w] = "ready" /\ w \notin Command /\ i > had[ReplicaOf[w]] =>
         late \/ log[i] \in Ticker
    /\ stage[w] = "saving" /\ i > seen[w] /\ w \notin misled =>
         /\ ReplicaOf[log[i]] # ReplicaOf[w]
         /\ late \/ log[i] \in Ticker \/ w \in Ticker \cup Command

(* A replica has had what it saved itself.                                 *)
CopiesKept ==
  /\ \A i \in 1..Len(log) : i <= had[ReplicaOf[log[i]]]
  /\ \A w \in Inside : Lacks(w)

IInv == TypeOK /\ MutexKept /\ RowKept /\ CopiesKept /\ LostUpdatesExplained

-----------------------------------------------------------------------------

LEMMA InitHolds == Init => IInv
<1> SUFFICES ASSUME Init PROVE IInv
  OBVIOUS
<1> USE WriterAssumption, ReplicaAssumption, TimeAssumption DEF Writer
<1>1. stage \in [Writer -> Stage] /\ active \in [Handler -> BOOLEAN]
  BY DEF Init, Stage
<1>2. TypeOK
  <2>1. owner \in Handler \cup {NoOne} /\ left \in Nat /\ log \in Seq(Writer) /\ Len(log) = 0
    BY DEF Init
  <2>2. /\ due \in [Handler -> Nat] /\ age \in [Handler -> Nat] /\ waited \in [Handler -> Nat]
        /\ seen \in [Writer -> Nat] /\ had \in [Replica -> Nat] /\ misled \subseteq Writer
    BY DEF Init
  <2>3. /\ \A w \in Handler : active[w] => w \in Holders
        /\ \A w \in Writer : seen[w] <= Len(log)
        /\ \A r \in Replica : had[r] <= Len(log)
    BY <2>1 DEF Init
  <2>4. releasing \subseteq Handler /\ late \in BOOLEAN /\ lost \subseteq Writer \X Writer
    BY DEF Init
  <2> QED BY <1>1, <2>1, <2>2, <2>3, <2>4 DEF TypeOK
<1>3. MutexKept
  BY DEF Init, MutexKept
<1>4. RowKept
  BY DEF Init, RowKept
<1>5. CopiesKept /\ LostUpdatesExplained
  BY DEF Init, CopiesKept, Lacks, Inside, LostUpdatesExplained
<1> QED BY <1>2, <1>3, <1>4, <1>5 DEF IInv

(* Every action keeps the types. *)
LEMMA TypeStep == TypeOK /\ [Next]_vars => TypeOK'
<1> SUFFICES ASSUME TypeOK, [Next]_vars PROVE TypeOK'
  OBVIOUS
<1> USE WriterAssumption, ReplicaAssumption, TimeAssumption
    DEF Stage, Holders, TTL, row
<1>0. \A w \in Writer : ReplicaOf[w] \in Replica
  OBVIOUS
<1>1. ASSUME NEW w \in Handler, TakeMutex(w) PROVE TypeOK'
  BY <1>1 DEF TypeOK, TakeMutex, Move, leases, copies, Writer
<1>2. ASSUME NEW w \in Handler, Acquire(w) \/ AcquireUnheard(w) \/ GiveUp(w) \/ FailToAcquire(w)
      PROVE  TypeOK'
  <2>1. CASE Acquire(w)
    BY <2>1 DEF TypeOK, Acquire, Move, copies, Writer
  <2>2. CASE AcquireUnheard(w)
    <3>1. stage' \in [Writer -> Stage] /\ waited' \in [Handler -> Nat]
      BY <2>2 DEF TypeOK, AcquireUnheard, Move, Writer
    <3>2. \A v \in Handler : v \in Holders => v \in Holders'
      BY <2>2 DEF TypeOK, AcquireUnheard, Move, Writer
    <3>3. owner' \in Handler \cup {NoOne} /\ left' \in Nat
      BY <2>2 DEF AcquireUnheard
    <3> QED BY <2>2, <3>1, <3>2, <3>3 DEF TypeOK, AcquireUnheard, copies
  <2>3. CASE GiveUp(w)
    BY <2>3 DEF TypeOK, GiveUp, Move, copies, Writer
  <2>4. CASE FailToAcquire(w)
    BY <2>4 DEF TypeOK, FailToAcquire, Move, copies, Writer
  <2> QED BY <1>2, <2>1, <2>2, <2>3, <2>4
<1>4. ASSUME NEW w \in Handler, Load(w) PROVE TypeOK'
  <2>1. had' \in [Replica -> Nat] /\ \A r \in Replica : had'[r] <= Len(log)
    BY <1>4, <1>0 DEF TypeOK, Load, Writer
  <2> QED BY <1>4, <1>0, <2>1 DEF TypeOK, Load, Move, leases, Writer
<1>5. ASSUME NEW w \in Handler, BeginSave(w) PROVE TypeOK'
  <2>1. PICK version \in 0..Len(log) : Build(w, version)
    BY <1>5 DEF BeginSave
  <2>2. seen' \in [Writer -> Nat] /\ \A v \in Writer : seen'[v] <= Len(log)
    BY <2>1 DEF TypeOK, Build, Writer
  <2>3. misled' \subseteq Writer
    BY <2>1 DEF TypeOK, Build, Writer
  <2>4. stage' \in [Writer -> Stage] /\ age' \in [Handler -> Nat]
    BY <1>5 DEF TypeOK, BeginSave, Move, Writer
  <2>5. \A v \in Handler : active'[v] => v \in Holders'
    BY <1>5 DEF TypeOK, BeginSave, Move, Writer
  <2> QED BY <1>5, <2>2, <2>3, <2>4, <2>5 DEF TypeOK, BeginSave
<1>6. ASSUME NEW w \in Handler, EndSave(w) PROVE TypeOK'
  BY <1>6, <1>0 DEF TypeOK, EndSave, Store, Overwritten, DropLease, Move, Writer
<1>7. ASSUME NEW w \in Handler, Abandon(w) PROVE TypeOK'
  <2>1. stage' \in [Writer -> Stage] /\ active' \in [Handler -> BOOLEAN] /\ seen' \in [Writer -> Nat]
    BY <1>7 DEF TypeOK, Abandon, DropLease, Move, Writer
  <2>2. \A v \in Handler : active'[v] => v \in Holders'
    BY <1>7 DEF TypeOK, Abandon, DropLease, Move, Writer
  <2> QED BY <1>7, <2>1, <2>2 DEF TypeOK, Abandon, DropLease, Writer
<1>8. ASSUME NEW w \in Handler, LeaseTask(w) PROVE TypeOK'
  <2>1. CASE Renew(w)
    <3>1. owner' \in Handler \cup {NoOne} /\ left' \in Nat /\ due' \in [Handler -> Nat]
      BY <2>1 DEF TypeOK, Renew
    <3>2. active' \in [Handler -> BOOLEAN] /\ \A v \in Handler : active'[v] => active[v]
      BY <2>1 DEF TypeOK, Renew
    <3> QED BY <2>1, <3>1, <3>2 DEF TypeOK, Renew, copies
  <2>2. CASE FailToRenew(w)
    <3>1. owner' \in Handler \cup {NoOne} /\ left' \in Nat
      BY <2>2 DEF TypeOK, FailToRenew
    <3>2. active' \in [Handler -> BOOLEAN] /\ \A v \in Handler : active'[v] => active[v]
      BY <2>2 DEF TypeOK, FailToRenew
    <3> QED BY <2>2, <3>1, <3>2 DEF TypeOK, FailToRenew, copies
  <2>3. CASE Release(w)
    <3>1. owner' \in Handler \cup {NoOne} /\ left' \in Nat
      BY <2>3 DEF TypeOK, Release
    <3> QED BY <2>3, <3>1 DEF TypeOK, Release, copies
  <2>4. CASE FailToRelease(w)
    BY <2>4 DEF TypeOK, FailToRelease, copies
  <2> QED BY <1>8, <2>1, <2>2, <2>3, <2>4 DEF LeaseTask
<1>9. ASSUME NEW w \in Ticker, TickerStep(w) PROVE TypeOK'
  <2>1. CASE BeginTick(w)
    <3>1. PICK version \in 0..Len(log) : Build(w, version)
      BY <2>1 DEF BeginTick
    <3>2. seen' \in [Writer -> Nat] /\ \A v \in Writer : seen'[v] <= Len(log)
      BY <3>1 DEF TypeOK, Build, Writer
    <3>3. misled' \subseteq Writer
      BY <3>1 DEF TypeOK, Build, Writer
    <3>4. /\ stage' \in [Writer -> Stage]
          /\ \A v \in Handler : v \in Holders => v \in Holders'
      BY <2>1 DEF TypeOK, BeginTick, Move, Writer
    <3> QED BY <2>1, <3>2, <3>3, <3>4 DEF TypeOK, BeginTick, leases
  <2>2. CASE EndTick(w)
    BY <2>2, <1>0 DEF TypeOK, EndTick, Store, Overwritten, Move, leases, Writer
  <2>3. CASE SkipTick(w)
    BY <2>3 DEF TypeOK, SkipTick, Move, leases, Writer
  <2> QED BY <1>9, <2>1, <2>2, <2>3 DEF TickerStep
<1>11. ASSUME NEW r \in Replica, Crash(r) PROVE TypeOK'
  <2>1. stage' \in [Writer -> Stage] /\ active' \in [Handler -> BOOLEAN]
    BY <1>11 DEF TypeOK, Crash, Writer
  <2>2. \A w \in Handler : active'[w] => w \in Holders'
    BY <1>11 DEF TypeOK, Crash, Writer
  <2>3. due' \in [Handler -> Nat] /\ age' \in [Handler -> Nat] /\ waited' \in [Handler -> Nat]
    BY <1>11 DEF TypeOK, Crash
  <2>4. seen' \in [Writer -> Nat]
    BY <1>11 DEF TypeOK, Crash
  <2>5. \A w \in Writer : seen'[w] <= Len(log)
    BY <1>11 DEF TypeOK, Crash
  <2>7. releasing' \subseteq Handler
    BY <1>11 DEF TypeOK, Crash
  <2>8. UNCHANGED <<owner, left, log, had, misled, late, lost>>
    BY <1>11 DEF TypeOK, Crash
  <2> QED BY <2>1, <2>2, <2>3, <2>4, <2>5, <2>7, <2>8 DEF TypeOK
<1>12. CASE Tick
  <2>1. due' \in [Handler -> Nat] /\ age' \in [Handler -> Nat] /\ waited' \in [Handler -> Nat]
    BY <1>12 DEF TypeOK, Tick, Less
  <2>2. owner' \in Handler \cup {NoOne} /\ left' \in Nat
    BY <1>12 DEF TypeOK, Tick, Less
  <2>3. late' \in BOOLEAN
    BY <1>12 DEF TypeOK, Tick, Overdue, Slow
  <2>4. UNCHANGED <<stage, active, owner, releasing, copies>>
    BY <1>12 DEF Tick
  <2> QED BY <2>1, <2>2, <2>3, <2>4 DEF TypeOK, copies
<1>13. CASE UNCHANGED vars
  BY <1>13 DEF TypeOK, vars, leases, copies
<1> QED
  BY <1>1, <1>2, <1>4, <1>5, <1>6, <1>7, <1>8, <1>9, <1>11, <1>12, <1>13
  DEF Next, HandlerStep

(* The mutex is taken only when it is free. *)
LEMMA MutexStep == TypeOK /\ MutexKept /\ [Next]_vars => MutexKept'
<1> SUFFICES ASSUME TypeOK, MutexKept, [Next]_vars PROVE MutexKept'
  OBVIOUS
<1>1. CASE UNCHANGED stage
  BY <1>1 DEF MutexKept
<1>2. ASSUME NEW w \in Writer, stage[w] \notin {"queued", "done"},
             NEW s \in Stage, stage' = [stage EXCEPT ![w] = s]
      PROVE  MutexKept'
  BY <1>2 DEF MutexKept, TypeOK
<1>3. ASSUME NEW w \in Writer, NEW s \in Stage, MutexFree(ReplicaOf[w]),
             stage' = [stage EXCEPT ![w] = s]
      PROVE  MutexKept'
  BY <1>3 DEF MutexKept, TypeOK, MutexFree
<1>4. ASSUME NEW w \in Writer, stage' = [stage EXCEPT ![w] = "done"]
      PROVE  MutexKept'
  BY <1>4 DEF MutexKept, TypeOK
<1>5. ASSUME NEW r \in Replica, Crash(r) PROVE MutexKept'
  BY <1>5 DEF MutexKept, TypeOK, Crash
<1>6. ASSUME NEW w \in Handler, HandlerStep(w) PROVE MutexKept'
  BY <1>2, <1>3, <1>4, <1>6
  DEF HandlerStep, TakeMutex, Acquire, AcquireUnheard, GiveUp, FailToAcquire, Load,
      BeginSave, EndSave, Abandon, DropLease, Move, Stage, Writer, Holders
<1>7. ASSUME NEW w \in Ticker, TickerStep(w) PROVE MutexKept'
  BY <1>3, <1>4, <1>7 DEF TickerStep, BeginTick, EndTick, SkipTick, Move, Stage, Writer
<1>8. ASSUME NEW w \in Handler, LeaseTask(w) PROVE MutexKept'
  BY <1>1, <1>8 DEF LeaseTask, Renew, FailToRenew, Release, FailToRelease
<1> QED
  BY <1>1, <1>5, <1>6, <1>7, <1>8 DEF Next, Tick, vars

-----------------------------------------------------------------------------
(* The row. *)

(* Whoever may be writing under a lease keeps others from acquiring it. *)
LEMMA RowHeld ==
  ASSUME TypeOK, RowKept, ~late, NEW w \in Handler, w \in Inside
  PROVE  owner = w /\ ~RowFree
<1>1. owner = w /\ left > 0
  BY TimeAssumption DEF TypeOK, RowKept, Inside
<1> QED
  BY <1>1, WriterAssumption, TimeAssumption DEF RowFree, Writer, TypeOK

LEMMA RowStep == TypeOK /\ RowKept /\ [Next]_vars => RowKept'
<1> SUFFICES ASSUME TypeOK, RowKept, [Next]_vars PROVE RowKept'
  OBVIOUS
<1> USE WriterAssumption, TimeAssumption DEF TTL, Holders, row
<1>0. ASSUME ~late, NEW w \in Handler, active[w] \/ stage[w] = "saving" PROVE ~RowFree
  BY <1>0 DEF RowKept, RowFree, TypeOK, Writer
<1>1. ASSUME NEW w \in Handler, TakeMutex(w) PROVE RowKept'
  BY <1>1 DEF RowKept, TypeOK, TakeMutex, Move, leases, Writer
<1>2. ASSUME NEW w \in Handler, Acquire(w) \/ AcquireUnheard(w) PROVE RowKept'
  <2>1. ASSUME ~late, NEW v \in Handler PROVE ~active[v] /\ stage[v] # "saving"
    BY <1>0, <1>2, <2>1 DEF Acquire, AcquireUnheard
  <2>2. CASE Acquire(w)
    BY <2>1, <2>2 DEF RowKept, TypeOK, Acquire, Move, Writer
  <2>3. CASE AcquireUnheard(w)
    BY <2>1, <2>3 DEF RowKept, TypeOK, AcquireUnheard, Move, Writer
  <2> QED BY <1>2, <2>2, <2>3
<1>3. ASSUME NEW w \in Handler, GiveUp(w) \/ FailToAcquire(w) PROVE RowKept'
  BY <1>3 DEF RowKept, TypeOK, GiveUp, FailToAcquire, Move, Writer
<1>4. ASSUME NEW w \in Handler, Load(w) PROVE RowKept'
  BY <1>4 DEF RowKept, TypeOK, Load, Move, leases, Writer
<1>5. ASSUME NEW w \in Handler, BeginSave(w) PROVE RowKept'
  BY <1>5 DEF RowKept, TypeOK, BeginSave, Move, Writer
<1>6. ASSUME NEW w \in Handler, EndSave(w) \/ Abandon(w) PROVE RowKept'
  <2>1. DropLease(w) /\ UNCHANGED late
    BY <1>6 DEF EndSave, Abandon
  <2> QED BY <2>1 DEF RowKept, TypeOK, DropLease, Move, Writer
<1>7. ASSUME NEW w \in Handler, Renew(w) \/ FailToRenew(w) PROVE RowKept'
  <2>1. UNCHANGED <<stage, age, releasing, late>>
    BY <1>7 DEF Renew, FailToRenew
  <2>2. ASSUME ~late PROVE owner = w /\ left = Interval
    BY <1>7, <2>2 DEF Renew, FailToRenew, RowKept, TypeOK
  <2>3. ASSUME ~late, NEW v \in Handler, v # w PROVE ~active[v] /\ stage[v] # "saving"
    BY <2>2, <2>3 DEF RowKept
  <2>4. ASSUME ~late PROVE owner' = w
    BY <1>7, <2>2, <2>4 DEF Renew, FailToRenew, TypeOK
  <2>5. ASSUME ~late PROVE left' >= Interval /\ left' \in Nat
    BY <1>7, <2>2, <2>5 DEF Renew, FailToRenew, TypeOK
  <2>6. ASSUME ~late, active'[w] PROVE left' = Interval + due'[w]
    BY <1>7, <2>2, <2>6 DEF Renew, FailToRenew, TypeOK
  <2>7. ASSUME NEW v \in Handler, v # w PROVE active'[v] = active[v]
    BY <1>7, <2>7 DEF Renew, FailToRenew, TypeOK
  <2>8. ASSUME ~late, NEW v \in Handler
        PROVE  /\ active'[v] => owner' = v /\ left' = Interval + due'[v]
               /\ stage[v] = "saving" =>
                    owner' = v /\ age[v] < Interval /\ left' + age[v] >= Interval
    <3>1. CASE v # w
      BY <2>3, <2>7, <2>8, <3>1
    <3>2. CASE v = w
      <4>1. stage[w] = "saving" => age[w] < Interval
        BY <2>8 DEF RowKept
      <4>2. age[w] \in Nat
        BY DEF TypeOK
      <4> QED BY <2>4, <2>5, <2>6, <2>8, <3>2, <4>1, <4>2
    <3> QED BY <3>1, <3>2
  <2> QED BY <2>1, <2>8 DEF RowKept
<1>8. ASSUME NEW w \in Handler, Release(w) \/ FailToRelease(w) PROVE RowKept'
  <2>1. stage[w] = "done" /\ ~active[w]
    BY <1>8 DEF RowKept, TypeOK, Release, FailToRelease
  <2>2. UNCHANGED <<stage, active, due, age, late>> /\ releasing' \subseteq releasing
    BY <1>8 DEF Release, FailToRelease
  <2>3. left' = left /\ (owner # w => owner' = owner)
    BY <1>8 DEF Release, FailToRelease, TypeOK
  <2> QED BY <2>1, <2>2, <2>3 DEF RowKept
<1>9. ASSUME NEW w \in Ticker, TickerStep(w) PROVE RowKept'
  <2>1. /\ \A v \in Handler : stage'[v] = stage[v]
        /\ UNCHANGED <<leases, late>>
    BY <1>9 DEF TickerStep, BeginTick, EndTick, SkipTick, Move, TypeOK, Writer
  <2> QED BY <2>1 DEF RowKept, TypeOK, leases
<1>11. ASSUME NEW r \in Replica, Crash(r) PROVE RowKept'
  BY <1>11 DEF RowKept, TypeOK, Crash, Writer
<1>12. CASE Tick
  <2> SUFFICES ASSUME ~late', NEW w \in Handler
      PROVE  /\ active'[w] => owner' = w /\ left' = Interval + due'[w]
             /\ stage'[w] = "saving" =>
                  owner' = w /\ age'[w] < Interval /\ left' + age'[w] >= Interval
    BY <1>12 DEF Tick, RowKept
  <2>1. ~late /\ ~Overdue /\ ~Slow
    BY <1>12 DEF Tick
  <2>2. active'[w] = active[w] /\ stage'[w] = stage[w] /\ owner' = owner
    BY <1>12 DEF Tick, TypeOK
  <2>3. left \in Nat /\ due[w] \in Nat /\ age[w] \in Nat
    BY DEF TypeOK
  <2>4. left' = Less(left) /\ due'[w] = Less(due[w])
    BY <1>12 DEF Tick, TypeOK
  <2>5. ASSUME active[w] PROVE owner = w /\ left' = Interval + due'[w]
    <3>1. due[w] # 0
      BY <2>1, <2>5 DEF Overdue, TypeOK
    <3>2. owner = w /\ left = Interval + due[w]
      BY <2>1, <2>5 DEF RowKept
    <3> QED BY <2>3, <2>4, <3>1, <3>2 DEF Less
  <2>6. ASSUME stage[w] = "saving"
        PROVE  owner = w /\ age'[w] < Interval /\ left' + age'[w] >= Interval
    <3>1. owner = w /\ age[w] < Interval /\ left + age[w] >= Interval
      BY <2>1, <2>6 DEF RowKept
    <3>2. age[w] + 1 < Interval
      BY <2>1, <2>3, <2>6 DEF Slow
    <3>3. age'[w] = age[w] + 1
      BY <1>12, <2>6, <3>1 DEF Tick
    <3> QED BY <2>3, <2>4, <3>1, <3>2, <3>3 DEF Less
  <2> QED BY <2>2, <2>5, <2>6
<1>13. CASE UNCHANGED vars
  BY <1>13 DEF RowKept, vars, leases
<1> QED
  BY <1>1, <1>2, <1>3, <1>4, <1>5, <1>6, <1>7, <1>8, <1>9, <1>11, <1>12, <1>13
  DEF Next, HandlerStep, LeaseTask

-----------------------------------------------------------------------------
(* The copies. *)

(* Writers inside together are of different replicas, and while nothing is *)
(* late one of them is a ticker.                                           *)
LEMMA InsideApart ==
  ASSUME TypeOK, MutexKept, RowKept,
         NEW v \in Writer, NEW w \in Writer, v # w, v \in Inside, w \in Writer,
         stage[w] \notin {"queued", "done"}
  PROVE  /\ ReplicaOf[v] # ReplicaOf[w]
         /\ w \in Inside => late \/ v \in Ticker \/ w \in Ticker
<1>1. ReplicaOf[v] # ReplicaOf[w]
  BY DEF MutexKept, Inside
<1>2. ASSUME ~late, w \in Inside, v \in Handler, w \in Handler PROVE FALSE
  BY <1>2, RowHeld
<1> QED BY <1>1, <1>2 DEF Writer

LEMMA CopiesStep == TypeOK /\ MutexKept /\ RowKept /\ CopiesKept /\ [Next]_vars => CopiesKept'
<1> SUFFICES ASSUME TypeOK, MutexKept, RowKept, CopiesKept, [Next]_vars PROVE CopiesKept'
  OBVIOUS
<1> USE WriterAssumption, ReplicaAssumption
<1>0. \A w \in Writer : ReplicaOf[w] \in Replica
  OBVIOUS
<1>1. ASSUME UNCHANGED <<log, had, misled>>, late => late', Inside' \subseteq Inside,
             \A v \in Inside' : seen'[v] = seen[v] /\ stage'[v] = stage[v]
      PROVE  CopiesKept'
  BY <1>1 DEF CopiesKept, Lacks
<1>2. ASSUME NEW w \in Handler,
             TakeMutex(w) \/ Acquire(w) \/ AcquireUnheard(w) \/ GiveUp(w) \/ FailToAcquire(w)
      PROVE  CopiesKept'
  <2>1. UNCHANGED <<log, had, misled, seen, late>>
    BY <1>2 DEF TakeMutex, Acquire, AcquireUnheard, GiveUp, FailToAcquire, copies
  <2>2. Inside' \subseteq Inside /\ \A v \in Inside' : stage'[v] = stage[v]
    <3>1. stage[w] \in {"queued", "asking"} /\ stage'[w] \in {"asking", "holding", "done"}
      BY <1>2 DEF TakeMutex, Acquire, AcquireUnheard, GiveUp, FailToAcquire, Move, TypeOK, Writer
    <3>2. \A v \in Writer : v # w => stage'[v] = stage[v]
      BY <1>2 DEF TakeMutex, Acquire, AcquireUnheard, GiveUp, FailToAcquire, Move, TypeOK
    <3>3. \A v \in Handler : v # w => active'[v] = active[v]
      BY <1>2 DEF TakeMutex, Acquire, AcquireUnheard, GiveUp, FailToAcquire, TypeOK, leases
    <3> QED BY <3>1, <3>2, <3>3 DEF Inside, Writer
  <2> QED BY <1>1, <2>1, <2>2
<1>3. ASSUME NEW w \in Handler, Load(w) PROVE CopiesKept'
  <2>1. UNCHANGED <<log, seen, misled, late>> /\ stage[w] = "holding" /\ w \in Writer
    BY <1>3 DEF Load, Writer
  <2>2. stage'[w] = "ready" /\ \A v \in Writer : v # w => stage'[v] = stage[v]
    BY <1>3 DEF Load, Move, TypeOK, Writer
  <2>3. Inside' \subseteq Inside \cup {w}
    BY <1>3, <2>2 DEF Load, Inside, leases, Writer
  <2>4. Len(log) \in Nat /\ \A q \in Replica : had[q] \in Nat /\ had[q] <= Len(log)
    BY DEF TypeOK
  <2>5. /\ \A q \in Replica : q # ReplicaOf[w] => had'[q] = had[q]
        /\ w \notin Command => had'[ReplicaOf[w]] = Len(log)
        /\ \A q \in Replica : had'[q] = had[q] \/ had'[q] = Len(log)
    BY <1>0, <1>3, <2>1 DEF Load, TypeOK
  <2>6. \A i \in 1..Len(log') : i <= had'[ReplicaOf[log'[i]]]
    <3>1. \A i \in 1..Len(log) : ReplicaOf[log[i]] \in Replica
      BY <1>0 DEF TypeOK
    <3> QED BY <2>1, <2>4, <2>5, <3>1 DEF CopiesKept
  <2>7. ASSUME NEW v \in Inside' PROVE Lacks(v)'
    <3>1. CASE v = w
      BY <1>0, <2>1, <2>2, <2>4, <2>5, <3>1 DEF Lacks
    <3>2. CASE v # w
      <4>1. v \in Inside /\ v \in Writer /\ stage'[v] = stage[v] /\ Lacks(v)
        BY <2>2, <2>3, <3>2 DEF Inside, Writer, CopiesKept
      <4>2. ReplicaOf[v] # ReplicaOf[w]
        BY <2>1, <3>2, <4>1, InsideApart
      <4>3. had'[ReplicaOf[v]] = had[ReplicaOf[v]]
        BY <1>0, <2>5, <4>1, <4>2
      <4> QED BY <2>1, <4>1, <4>3 DEF Lacks
    <3> QED BY <3>1, <3>2
  <2> QED BY <2>6, <2>7 DEF CopiesKept
<1>16. ASSUME NEW w \in Writer, NEW version \in 0..Len(log), Build(w, version),
              w \in Ticker \cup Command \/ (w \in Inside /\ stage[w] = "ready"),
              stage' = [stage EXCEPT ![w] = "saving"], UNCHANGED <<log, had, active, late>>
       PROVE  CopiesKept'
  <2>1. /\ seen'[w] = version /\ stage'[w] = "saving"
        /\ \A v \in Writer : v # w => seen'[v] = seen[v] /\ stage'[v] = stage[v]
    BY <1>16 DEF Build, TypeOK
  <2>2. /\ version < had[ReplicaOf[w]] => w \in misled'
        /\ \A v \in misled : v \in misled'
    BY <1>16 DEF Build
  <2>3. version \in Nat /\ \A q \in Replica : had[q] \in Nat
    BY DEF TypeOK
  <2>4. ASSUME NEW v \in Inside' PROVE Lacks(v)'
    <3>1. CASE v = w
      <4> SUFFICES ASSUME NEW i \in 1..Len(log), i > version, w \notin misled'
                   PROVE  /\ ReplicaOf[log[i]] # ReplicaOf[w]
                          /\ late \/ log[i] \in Ticker \/ w \in Ticker \cup Command
        BY <1>16, <2>1, <3>1 DEF Lacks
      <4>1. i > had[ReplicaOf[w]]
        BY <1>0, <2>2, <2>3
      <4>2. ReplicaOf[log[i]] # ReplicaOf[w]
        <5>1. i <= had[ReplicaOf[log[i]]]
          BY DEF CopiesKept
        <5> QED BY <1>0, <2>3, <4>1, <5>1
      <4>3. w \notin Ticker \cup Command => late \/ log[i] \in Ticker
        BY <1>16, <4>1 DEF CopiesKept, Lacks
      <4> QED BY <4>2, <4>3
    <3>2. CASE v # w
      <4>1. v \in Inside /\ v \in Writer
        BY <1>16, <2>1, <3>2 DEF Inside, Writer
      <4>2. Lacks(v)
        BY <4>1 DEF CopiesKept
      <4> QED BY <1>16, <2>1, <2>2, <3>2, <4>1, <4>2 DEF Lacks
    <3> QED BY <3>1, <3>2
  <2> QED BY <1>16, <2>4 DEF CopiesKept
<1>4. ASSUME NEW w \in Handler, BeginSave(w) PROVE CopiesKept'
  <2>1. PICK version \in 0..Len(log) : Build(w, version)
    BY <1>4 DEF BeginSave
  <2>2. /\ w \in Writer /\ w \in Inside /\ stage[w] = "ready"
        /\ stage' = [stage EXCEPT ![w] = "saving"] /\ UNCHANGED <<log, had, active, late>>
    BY <1>4 DEF BeginSave, Move, Inside, Writer
  <2> QED BY <1>16, <2>1, <2>2
<1>5. ASSUME NEW w \in Writer, w \in Inside, Store(w), UNCHANGED <<misled, late>>,
             Inside' \subseteq Inside \ {w},
             \A v \in Inside' : seen'[v] = seen[v] /\ stage'[v] = stage[v]
      PROVE  CopiesKept'
  <2> DEFINE r == ReplicaOf[w]
  <2>1. /\ log \in Seq(Writer) /\ Len(log) \in Nat /\ Len(log') = Len(log) + 1
        /\ \A i \in 1..Len(log) : log'[i] = log[i] /\ log[i] \in Writer
        /\ log'[Len(log) + 1] = w
    BY <1>5 DEF TypeOK, Store
  <2>2. /\ had'[r] = Len(log) + 1 /\ \A q \in Replica : q # r => had'[q] = had[q]
        /\ \A q \in Replica : had[q] \in Nat /\ had[q] <= Len(log)
    BY <1>0, <1>5 DEF TypeOK, Store
  <2>3. \A i \in 1..Len(log') : i <= had'[ReplicaOf[log'[i]]]
    <3> SUFFICES ASSUME NEW i \in 1..Len(log') PROVE i <= had'[ReplicaOf[log'[i]]]
      OBVIOUS
    <3>1. CASE i = Len(log) + 1
      BY <2>1, <2>2, <3>1
    <3>2. CASE i # Len(log) + 1
      <4>1. i \in 1..Len(log) /\ log'[i] = log[i] /\ ReplicaOf[log[i]] \in Replica
        BY <1>0, <2>1, <3>2
      <4>2. i <= had[ReplicaOf[log[i]]]
        BY <4>1 DEF CopiesKept
      <4> QED BY <2>1, <2>2, <4>1, <4>2
    <3> QED BY <3>1, <3>2
  <2>4. ASSUME NEW v \in Inside' PROVE Lacks(v)'
    <3>1. v \in Inside /\ v # w /\ v \in Writer /\ stage[w] \notin {"queued", "done"}
      BY <1>5, <2>4 DEF Inside, Writer
    <3>2. ReplicaOf[v] # r /\ (late \/ w \in Ticker \/ v \in Ticker)
      BY <1>5, <3>1, InsideApart
    <3>3. had'[ReplicaOf[v]] = had[ReplicaOf[v]]
      BY <1>0, <2>2, <3>1, <3>2
    <3>4. Lacks(v) /\ seen'[v] = seen[v] /\ stage'[v] = stage[v]
      BY <1>5, <2>4, <3>1 DEF CopiesKept
    <3>5. stage[v] = "ready" => v \notin Ticker
      BY <3>1, WriterAssumption DEF Inside
    <3> SUFFICES ASSUME NEW i \in 1..Len(log')
                 PROVE
                   /\ stage[v] = "ready" /\ v \notin Command /\ i > had[ReplicaOf[v]] =>
                        late \/ log'[i] \in Ticker
                   /\ stage[v] = "saving" /\ i > seen[v] /\ v \notin misled =>
                        /\ ReplicaOf[log'[i]] # ReplicaOf[v]
                        /\ late \/ log'[i] \in Ticker \/ v \in Ticker \cup Command
      BY <1>5, <3>3, <3>4 DEF Lacks
    <3>6. CASE i = Len(log) + 1
      BY <2>1, <3>2, <3>5, <3>6
    <3>7. CASE i # Len(log) + 1
      <4>1. i \in 1..Len(log) /\ log'[i] = log[i]
        BY <2>1, <3>7
      <4> QED BY <3>4, <4>1 DEF Lacks
    <3> QED BY <3>6, <3>7
  <2> QED BY <2>3, <2>4 DEF CopiesKept
<1>6. ASSUME NEW w \in Handler, EndSave(w) PROVE CopiesKept'
  <2>1. w \in Inside /\ w \in Writer
    BY <1>6 DEF EndSave, Inside, Writer
  <2>2. /\ Inside' \subseteq Inside \ {w}
        /\ \A v \in Inside' : seen'[v] = seen[v] /\ stage'[v] = stage[v]
    BY <1>6 DEF EndSave, DropLease, Move, Inside, TypeOK, Writer
  <2> QED BY <1>5, <1>6, <2>1, <2>2 DEF EndSave
<1>7. ASSUME NEW w \in Handler, Abandon(w) PROVE CopiesKept'
  <2>1. /\ Inside' \subseteq Inside \ {w}
        /\ \A v \in Inside' : seen'[v] = seen[v] /\ stage'[v] = stage[v]
    BY <1>7 DEF Abandon, DropLease, Move, Inside, TypeOK, Writer
  <2> QED BY <1>1, <1>7, <2>1 DEF Abandon
<1>8. ASSUME NEW w \in Handler, LeaseTask(w) PROVE CopiesKept'
  <2>1. Inside' \subseteq Inside /\ UNCHANGED stage
    <3>1. UNCHANGED stage /\ \A v \in Handler : active'[v] => active[v]
      BY <1>8 DEF LeaseTask, Renew, FailToRenew, Release, FailToRelease, TypeOK
    <3> QED BY <3>1 DEF Inside
  <2>2. UNCHANGED <<log, had, misled, seen, late>>
    BY <1>8 DEF LeaseTask, Renew, FailToRenew, Release, FailToRelease, copies
  <2> QED BY <1>1, <2>1, <2>2
<1>9. ASSUME NEW w \in Ticker, BeginTick(w) PROVE CopiesKept'
  <2>1. PICK version \in 0..Len(log) : Build(w, version)
    BY <1>9 DEF BeginTick
  <2>2. /\ w \in Writer /\ w \in Ticker \cup Command
        /\ stage' = [stage EXCEPT ![w] = "saving"] /\ UNCHANGED <<log, had, active, late>>
    BY <1>9 DEF BeginTick, Move, leases, Writer
  <2> QED BY <1>16, <2>1, <2>2
<1>10. ASSUME NEW w \in Ticker, EndTick(w) PROVE CopiesKept'
  <2>1. w \in Inside /\ w \in Writer
    BY <1>10 DEF EndTick, Inside, Writer
  <2>2. /\ Inside' \subseteq Inside \ {w}
        /\ \A v \in Inside' : seen'[v] = seen[v] /\ stage'[v] = stage[v]
    BY <1>10, <2>1 DEF EndTick, Move, Inside, TypeOK, leases, Writer
  <2> QED BY <1>5, <1>10, <2>1, <2>2 DEF EndTick
<1>11. ASSUME NEW w \in Ticker, SkipTick(w) PROVE CopiesKept'
  <2>1. /\ Inside' \subseteq Inside \ {w}
        /\ \A v \in Inside' : seen'[v] = seen[v] /\ stage'[v] = stage[v]
    BY <1>11 DEF SkipTick, Move, Inside, TypeOK, leases, Writer
  <2> QED BY <1>1, <1>11, <2>1 DEF SkipTick
<1>13. ASSUME NEW r \in Replica, Crash(r) PROVE CopiesKept'
  <2>1. Inside' \subseteq Inside /\ \A v \in Inside' : stage'[v] = stage[v]
    <3>1. \A v \in Writer : stage'[v] # "done" => stage'[v] = stage[v]
      BY <1>13 DEF Crash
    <3>2. \A v \in Handler : active'[v] => active[v]
      BY <1>13 DEF Crash
    <3> QED BY <3>1, <3>2 DEF Inside, Writer
  <2>2. UNCHANGED <<log, had, misled, late>>
    BY <1>13 DEF Crash
  <2>3. \A v \in Inside' : seen'[v] = seen[v]
    <3>1. ASSUME NEW v \in Writer, ReplicaOf[v] = r PROVE v \notin Inside'
      BY <1>13, <3>1 DEF Crash, Inside, Writer
    <3>2. \A v \in Writer : ReplicaOf[v] # r => seen'[v] = seen[v]
      BY <1>13 DEF Crash
    <3> QED BY <3>1, <3>2 DEF Inside, Writer
  <2> QED BY <1>1, <2>1, <2>2, <2>3
<1>14. CASE Tick
  <2>1. Inside' = Inside /\ UNCHANGED <<stage, log, had, misled, seen>> /\ (late => late')
    BY <1>14 DEF Tick, Inside, copies
  <2> QED BY <1>1, <2>1
<1>15. CASE UNCHANGED vars
  <2>1. Inside' = Inside /\ UNCHANGED <<stage, log, had, misled, seen, late>>
    BY <1>15 DEF vars, leases, copies, Inside
  <2> QED BY <1>1, <2>1
<1> QED
  BY <1>2, <1>3, <1>4, <1>6, <1>7, <1>8, <1>9, <1>10, <1>11, <1>13, <1>14, <1>15
  DEF Next, HandlerStep, TickerStep

LEMMA LostStep ==
  TypeOK /\ CopiesKept /\ LostUpdatesExplained /\ [Next]_vars => LostUpdatesExplained'
<1> SUFFICES ASSUME TypeOK, CopiesKept, LostUpdatesExplained, [Next]_vars
    PROVE  LostUpdatesExplained'
  OBVIOUS
<1>1. CASE UNCHANGED lost /\ misled \subseteq misled' /\ (late => late')
  BY <1>1 DEF LostUpdatesExplained
<1>2. ASSUME NEW w \in Writer, stage[w] = "saving", Store(w), UNCHANGED <<misled, late>>
      PROVE  LostUpdatesExplained'
  <2>1. w \in Inside /\ Len(log) \in Nat /\ seen[w] \in Nat /\ Lacks(w)
    BY <1>2 DEF Inside, TypeOK, CopiesKept
  <2>2. ASSUME NEW i \in (seen[w] + 1)..Len(log), w \notin misled
        PROVE  /\ ReplicaOf[log[i]] # ReplicaOf[w]
               /\ late \/ log[i] \in Ticker \/ w \in Ticker \cup Command
    <3>1. i \in 1..Len(log) /\ i > seen[w]
      BY <2>1
    <3> QED BY <1>2, <2>1, <2>2, <3>1 DEF Lacks
  <2>3. \A pair \in lost' : pair \in lost \/ \E i \in (seen[w] + 1)..Len(log) : pair = <<log[i], w>>
    BY <1>2 DEF Store, Overwritten
  <2>4. ASSUME NEW pair \in lost', pair[2] \notin misled
        PROVE  /\ ReplicaOf[pair[1]] # ReplicaOf[pair[2]]
               /\ late \/ pair[1] \in Ticker \/ pair[2] \in Ticker \cup Command
    <3>1. CASE pair \in lost
      BY <2>4, <3>1 DEF LostUpdatesExplained
    <3>2. CASE \E i \in (seen[w] + 1)..Len(log) : pair = <<log[i], w>>
      BY <2>2, <2>4, <3>2
    <3> QED BY <2>3, <3>1, <3>2
  <2> QED BY <1>2, <2>4 DEF LostUpdatesExplained
<1>3. ASSUME NEW w \in Handler, HandlerStep(w) \/ LeaseTask(w) PROVE LostUpdatesExplained'
  <2>1. CASE EndSave(w)
    BY <1>2, <2>1 DEF EndSave, Writer
  <2>2. CASE ~EndSave(w)
    BY <1>1, <1>3, <2>2
    DEF HandlerStep, LeaseTask, TakeMutex, Acquire, AcquireUnheard, GiveUp, FailToAcquire,
        Load, BeginSave, Build, Abandon, Renew, FailToRenew, Release, FailToRelease, copies
  <2> QED BY <2>1, <2>2
<1>4. ASSUME NEW w \in Ticker, TickerStep(w) PROVE LostUpdatesExplained'
  <2>1. CASE EndTick(w)
    BY <1>2, <2>1 DEF EndTick, Writer
  <2> QED BY <1>1, <1>4, <2>1 DEF TickerStep, BeginTick, Build, SkipTick
<1>5. CASE Tick \/ UNCHANGED vars \/ \E r \in Replica : Crash(r)
  <2>1. CASE Tick
    <3>1. UNCHANGED <<lost, misled>> /\ (late => late')
      BY <2>1 DEF Tick, copies
    <3> QED BY <1>1, <3>1
  <2>2. CASE UNCHANGED vars
    <3>1. UNCHANGED <<lost, misled, late>>
      BY <2>2 DEF vars, copies
    <3> QED BY <1>1, <3>1
  <2>3. CASE \E r \in Replica : Crash(r)
    <3>1. UNCHANGED <<lost, misled, late>>
      BY <2>3 DEF Crash
    <3> QED BY <1>1, <3>1
  <2> QED BY <1>5, <2>1, <2>2, <2>3
<1> QED
  BY <1>3, <1>4, <1>5 DEF Next

-----------------------------------------------------------------------------

(* The invariant holds in every reachable state. *)
THEOREM LeaseInvariantHolds == Spec => []IInv
<1>1. IInv /\ [Next]_vars => IInv'
  BY TypeStep, MutexStep, RowStep, CopiesStep, LostStep DEF IInv
<1> QED BY InitHolds, <1>1, PTL DEF Spec

(* Every variable keeps its type. *)
THEOREM LeaseTypeCorrect == Spec => []TypeOK
<1>1. IInv => TypeOK
  BY DEF IInv
<1> QED BY LeaseInvariantHolds, <1>1, PTL

(* A change is lost only to a writer that built on an older copy than its  *)
(* replica had, or between replicas, and then only if something was late   *)
(* or a tick or a cached copy took part: for any number of replicas,       *)
(* handlers, ticks, crashes, lost releases and failed renewals, and        *)
(* whatever loads and evictions do to the caches.                          *)
THEOREM LostUpdatesAreExplained == Spec => []LostUpdatesExplained
<1>1. IInv => LostUpdatesExplained
  BY DEF IInv
<1> QED BY LeaseInvariantHolds, <1>1, PTL

(* The lease implements exclusive writing. *)
LEMMA EnterStep ==
  ASSUME TypeOK, MutexKept, RowKept, NEW w \in Writer, w \notin Inside, w \in Inside',
         Inside' \subseteq Inside \cup {w}, Inside \subseteq Inside', late' = late,
         MutexFree(ReplicaOf[w]) \/ stage[w] \notin {"queued", "done"},
         \A v \in Inside : late \/ v \in Ticker \/ w \in Ticker
  PROVE  Exclusive!Enter(w)
<1>1. Inside' = Inside \cup {w}
  OBVIOUS
<1>2. ASSUME NEW v \in Inside PROVE ReplicaOf[v] # ReplicaOf[w]
  <2>1. v \in Writer /\ v # w /\ stage[v] \notin {"queued", "done"}
    BY <1>2 DEF Inside, Writer
  <2>2. CASE MutexFree(ReplicaOf[w])
    BY <2>1, <2>2 DEF MutexFree
  <2>3. CASE stage[w] \notin {"queued", "done"}
    BY <2>1, <2>3 DEF MutexKept
  <2> QED BY <2>2, <2>3
<1>3. Inside \cap Exclusive!Neighbours(w) = {}
  BY <1>2 DEF Exclusive!Neighbours
<1>4. late \/ w \in Ticker \/ Inside \subseteq Ticker
  OBVIOUS
<1> QED BY <1>1, <1>3, <1>4 DEF Exclusive!Enter

LEMMA ImplementationStep == IInv /\ [Next]_vars => [Exclusive!Next]_(Exclusive!state)
<1> SUFFICES ASSUME IInv, [Next]_vars PROVE [Exclusive!Next]_(Exclusive!state)
  OBVIOUS
<1> USE WriterAssumption DEF IInv
<1>1. ASSUME Inside' \subseteq Inside, late' = late PROVE [Exclusive!Next]_(Exclusive!state)
  <2>1. Inside' = Inside \ (Inside \ Inside') /\ Inside \ Inside' \in SUBSET Writer
    BY <1>1 DEF Inside, Writer
  <2>2. Exclusive!Leave(Inside \ Inside')
    BY <1>1, <2>1 DEF Exclusive!Leave
  <2> QED BY <2>1, <2>2 DEF Exclusive!Next
<1>2. ASSUME NEW w \in Handler, HandlerStep(w) \/ LeaseTask(w), ~Load(w)
      PROVE  Inside' \subseteq Inside /\ late' = late
  <2>1. late' = late
    BY <1>2 DEF HandlerStep, LeaseTask, TakeMutex, Acquire, AcquireUnheard, GiveUp,
        FailToAcquire, BeginSave, EndSave, Abandon, Renew, FailToRenew, Release, FailToRelease
  <2>2. \A v \in Writer : v # w => stage'[v] = stage[v]
    BY <1>2 DEF HandlerStep, LeaseTask, TakeMutex, Acquire, AcquireUnheard, GiveUp,
        FailToAcquire, BeginSave, EndSave, Abandon, DropLease, Renew, FailToRenew, Release,
        FailToRelease, Move, TypeOK
  <2>3. \A v \in Handler : v # w => (active'[v] => active[v])
    BY <1>2 DEF HandlerStep, LeaseTask, TakeMutex, Acquire, AcquireUnheard, GiveUp,
        FailToAcquire, BeginSave, EndSave, Abandon, DropLease, Renew, FailToRenew, Release,
        FailToRelease, TypeOK, leases
  <2>4. w \in Inside' => w \in Inside
    <3>1. CASE BeginSave(w)
      BY <3>1 DEF BeginSave, Inside
    <3>2. CASE LeaseTask(w)
      BY <3>2 DEF LeaseTask, Renew, FailToRenew, Release, FailToRelease, Inside, TypeOK
    <3>3. CASE ~BeginSave(w) /\ HandlerStep(w)
      BY <1>2, <3>3 DEF HandlerStep, TakeMutex, Acquire, AcquireUnheard, GiveUp,
          FailToAcquire, EndSave, Abandon, DropLease, Move, Inside, TypeOK, Writer
    <3> QED BY <1>2, <3>1, <3>2, <3>3
  <2> QED BY <2>1, <2>2, <2>3, <2>4 DEF Inside, Writer
<1>3. ASSUME NEW w \in Handler, Load(w) PROVE Exclusive!Next
  <2>1. /\ w \in Writer /\ w \notin Inside /\ stage[w] \notin {"queued", "done"} /\ late' = late
        /\ UNCHANGED active /\ active[w]
    BY <1>3 DEF Load, Inside, leases, Writer
  <2>2. stage'[w] = "ready" /\ \A v \in Writer : v # w => stage'[v] = stage[v]
    BY <1>3 DEF Load, Move, TypeOK, Writer
  <2>3. w \in Inside' /\ Inside' \subseteq Inside \cup {w} /\ Inside \subseteq Inside'
    BY <2>1, <2>2 DEF Inside, Writer
  <2>4. ASSUME NEW v \in Inside, ~late, v \notin Ticker PROVE FALSE
    <3>1. v \in Handler /\ v # w
      BY <2>1, <2>4 DEF Inside, Writer
    <3>2. owner = v
      BY <2>4, <3>1, RowHeld
    <3>3. owner = w
      BY <2>1, <2>4 DEF RowKept
    <3> QED BY <3>1, <3>2, <3>3
  <2>5. Exclusive!Enter(w)
    BY <2>1, <2>3, <2>4, EnterStep
  <2> QED BY <2>1, <2>5 DEF Exclusive!Next
<1>4. ASSUME NEW w \in Ticker, BeginTick(w) PROVE Exclusive!Next
  <2>1. /\ w \in Writer /\ w \notin Inside /\ MutexFree(ReplicaOf[w]) /\ late' = late
        /\ UNCHANGED active
    BY <1>4 DEF BeginTick, Inside, leases, Writer
  <2>2. stage'[w] = "saving" /\ \A v \in Writer : v # w => stage'[v] = stage[v]
    BY <1>4, <2>1 DEF BeginTick, Move, TypeOK
  <2>3. w \in Inside' /\ Inside' \subseteq Inside \cup {w} /\ Inside \subseteq Inside'
    BY <2>1, <2>2 DEF Inside, Writer
  <2>4. Exclusive!Enter(w)
    BY <2>1, <2>3, EnterStep
  <2> QED BY <2>1, <2>4 DEF Exclusive!Next
<1>5. ASSUME NEW w \in Ticker, EndTick(w) \/ SkipTick(w)
      PROVE  Inside' \subseteq Inside /\ late' = late
  <2>1. late' = late /\ UNCHANGED active /\ w \in Writer
    BY <1>5 DEF EndTick, SkipTick, leases, Writer
  <2>2. stage'[w] = "done" /\ \A v \in Writer : v # w => stage'[v] = stage[v]
    BY <1>5, <2>1 DEF EndTick, SkipTick, Move, TypeOK
  <2> QED BY <2>1, <2>2 DEF Inside, Writer
<1>6. ASSUME NEW r \in Replica, Crash(r)
      PROVE  Inside' \subseteq Inside /\ late' = late
  <2>1. late' = late
    BY <1>6 DEF Crash
  <2>2. \A v \in Writer : stage'[v] # "done" => stage'[v] = stage[v]
    BY <1>6 DEF Crash
  <2>3. \A v \in Handler : active'[v] => active[v]
    BY <1>6 DEF Crash
  <2> QED BY <2>1, <2>2, <2>3 DEF Inside, Writer
<1>7. CASE Tick
  <2>1. Inside' = Inside /\ (late' = late \/ late' = TRUE)
    BY <1>7 DEF Tick, Inside, TypeOK, Overdue, Slow
  <2> QED BY <2>1 DEF Exclusive!Next, Exclusive!Excuse, Exclusive!state
<1>8. CASE UNCHANGED vars
  BY <1>8 DEF vars, leases, Inside, Exclusive!state
<1> QED
  BY <1>1, <1>2, <1>3, <1>4, <1>5, <1>6, <1>7, <1>8 DEF Next, TickerStep

THEOREM LeaseIsExclusive == Spec => ImplementsExclusiveWriter
<1>1. Init => Exclusive!Init
  BY WriterAssumption DEF Init, Exclusive!Init, Inside, Writer
<1> QED
  BY <1>1, LeaseInvariantHolds, ImplementationStep, PTL
  DEF Spec, ImplementsExclusiveWriter, Exclusive!Spec
=============================================================================
