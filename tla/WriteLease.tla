------------------------------ MODULE WriteLease ------------------------------
(***************************************************************************)
(* The write lease of one session (SessionWriteLease of the app server and *)
(* the session_leases row of the store) with several replicas.             *)
(*                                                                         *)
(* A writer is one handler, hence one lease id, or one pass of the ticker; *)
(* it takes its replica's mutex first, and a handler then asks for the row *)
(* until it gets it or has waited too long.  Time passes in units of Tick; *)
(* a row lasts two renewal intervals.  A store call takes effect at once   *)
(* in the model; that it is slow is the time that passes before it.        *)
(*                                                                         *)
(* log is the stored session, as the sequence of the writers whose saves   *)
(* made it, whether they heard of it or not.  (What a dropped handler      *)
(* leaves to be committed after its lease is in no log: nobody was told.)  *)
(* A variable of a writer that has ended is reset to 0, which nothing      *)
(* reads.                                                                  *)
(* A writer changes the copy that is cached when it comes to that.  The    *)
(* lock does not protect this copy: the listener evicts it and any request *)
(* may load the row at any time, as slowly as the store answers, so it may *)
(* be any version there ever was.  How that comes about on one replica is  *)
(* the subject of SessionCache.                                            *)
(***************************************************************************)
EXTENDS Naturals, Sequences

CONSTANTS
  Handler,    \* requests and tasks that use SessionWriteLease
  Command,    \* the handlers among them that do not reload the row first
  Ticker,     \* passes of advance_game_ticks over this session
  Replica,
  ReplicaOf,  \* where a writer runs
  NoOne,      \* no owner of the row
  Interval,   \* the renewal interval, half of SESSION_LEASE_TTL
  Patience    \* SESSION_LEASE_TIMEOUT

Writer == Handler \cup Ticker

ASSUME WriterAssumption  ==
  Handler \cap Ticker = {} /\ Command \subseteq Handler /\ NoOne \notin Writer
ASSUME ReplicaAssumption == ReplicaOf \in [Writer -> Replica]
ASSUME TimeAssumption    == Interval \in Nat \ {0} /\ Patience \in Nat

VARIABLES
  stage,      \* how far a writer has come
  active,     \* is_active of a handler's lease
  due,        \* the time until a handler's next renewal
  age,        \* how long a handler's save has been under way
  waited,     \* how long a handler has asked for the row
  owner,      \* lease_id in the row of session_leases, NoOne when there is none
  left,       \* the time until the row's expires_at
  releasing,  \* lease ids whose dropped lease still has to be released
  log,        \* the stored session
  seen,       \* the version of it a writer builds on
  had,        \* history: the newest version a replica saved, or a writer of it reloaded
  misled,     \* history: the writers that built on an older version than that
  late,       \* history: a renewal or a save took longer than an interval
  lost        \* history: <<w, v>>: v saved a version without w's change

row    == <<owner, left>>
leases == <<active, due, age, waited, row, releasing>>
copies == <<log, seen, had, misled, lost>>
vars   == <<stage, leases, copies, late>>

TTL == Interval + Interval

-----------------------------------------------------------------------------
(* The replica's mutex and the lease of a writer. *)

Stage == {"queued", "asking", "holding", "ready", "saving", "done"}

Holders     == {w \in Handler : stage[w] \in {"holding", "ready", "saving"}}
Neighbours(w) == {v \in Writer : ReplicaOf[v] = ReplicaOf[w]}
MutexFree(r) ==
  \A v \in Writer : ReplicaOf[v] = r => stage[v] \in {"queued", "done"}

Init ==
  /\ stage = [w \in Writer |-> "queued"]
  /\ active = [w \in Handler |-> FALSE]
  /\ due = [w \in Handler |-> 0]
  /\ age = [w \in Handler |-> 0]
  /\ waited = [w \in Handler |-> 0]
  /\ owner = NoOne /\ left = 0
  /\ releasing = {}
  /\ log = <<>>
  /\ seen = [w \in Writer |-> 0]
  /\ had = [r \in Replica |-> 0]
  /\ misled = {}
  /\ late = FALSE
  /\ lost = {}

Move(w, next) == stage' = [stage EXCEPT ![w] = next]

(* A handler asks, holding the mutex of its replica. *)
TakeMutex(w) ==
  /\ stage[w] = "queued"
  /\ MutexFree(ReplicaOf[w])
  /\ Move(w, "asking")
  /\ UNCHANGED <<leases, copies, late>>

RowFree == owner = NoOne \/ left = 0

AcquireBlindly(w) ==                  \* variant: the row's owner is not asked about
  /\ stage[w] = "asking"
  /\ Move(w, "holding")
  /\ owner' = w /\ left' = TTL
  /\ active' = [active EXCEPT ![w] = TRUE]
  /\ due' = [due EXCEPT ![w] = Interval]
  /\ waited' = [waited EXCEPT ![w] = 0]
  /\ UNCHANGED <<age, releasing, copies, late>>
Acquire(w) ==
  /\ stage[w] = "asking"
  /\ RowFree
  /\ Move(w, "holding")
  /\ owner' = w /\ left' = TTL
  /\ active' = [active EXCEPT ![w] = TRUE]
  /\ due' = [due EXCEPT ![w] = Interval]
  /\ waited' = [waited EXCEPT ![w] = 0]
  /\ UNCHANGED <<age, releasing, copies, late>>

(* The row is written, but the handler never learns of it: the store's     *)
(* answer is lost, or its client hangs up and the handler is dropped.      *)
AcquireUnheard(w) ==
  /\ stage[w] = "asking"
  /\ RowFree
  /\ Move(w, "done")
  /\ owner' = w /\ left' = TTL
  /\ waited' = [waited EXCEPT ![w] = 0]
  /\ UNCHANGED <<active, due, age, releasing, copies, late>>

(* Somebody else's row has outlasted the timeout, or the store failed.     *)
GiveUp(w) ==
  /\ stage[w] = "asking"
  /\ ~RowFree /\ waited[w] >= Patience
  /\ Move(w, "done")
  /\ waited' = [waited EXCEPT ![w] = 0]
  /\ UNCHANGED <<active, due, age, row, releasing, copies, late>>

FailToAcquire(w) ==
  /\ stage[w] = "asking"
  /\ Move(w, "done")
  /\ waited' = [waited EXCEPT ![w] = 0]
  /\ UNCHANGED <<active, due, age, row, releasing, copies, late>>

-----------------------------------------------------------------------------
(* The renewal task of a lease, aborted when the lease is dropped. *)

RenewForever(w) ==                    \* variant: nobody aborts the task
  /\ due[w] = 0 /\ owner = w
  /\ left' = TTL
  /\ due' = [due EXCEPT ![w] = Interval]
  /\ UNCHANGED <<stage, active, age, waited, owner, releasing, copies, late>>
Renew(w) ==
  /\ w \in Holders
  /\ active[w] /\ due[w] = 0
  /\ \/ /\ owner = w
        /\ left' = TTL
        /\ due' = [due EXCEPT ![w] = Interval]
        /\ UNCHANGED <<active, owner>>
     \/ /\ owner # w
        /\ active' = [active EXCEPT ![w] = FALSE]
        /\ UNCHANGED <<row, due>>
  /\ UNCHANGED <<stage, age, waited, releasing, copies, late>>

(* The store reports an error, the row renewed or not: the task ends. *)
FailToRenew(w) ==
  /\ w \in Holders
  /\ active[w] /\ due[w] = 0
  /\ \/ UNCHANGED left
     \/ owner = w /\ left' = TTL
  /\ active' = [active EXCEPT ![w] = FALSE]
  /\ UNCHANGED <<stage, due, age, waited, owner, releasing, copies, late>>

-----------------------------------------------------------------------------
(* The handler's work, and what ends it. *)

(* ensure_active, then the session: joins, attaches, closes and the judge  *)
(* call reload_cached_session, a command only ensure_session_cached.       *)
Load(w) ==
  /\ stage[w] = "holding"
  /\ active[w]
  /\ Move(w, "ready")
  /\ had' = IF w \in Command THEN had ELSE [had EXCEPT ![ReplicaOf[w]] = Len(log)]
  /\ UNCHANGED <<leases, log, seen, misled, lost, late>>

(* What is cached then may be older than what was reloaded.                *)
Build(w, version) ==
  /\ seen' = [seen EXCEPT ![w] = version]
  /\ misled' = IF version < had[ReplicaOf[w]] THEN misled \cup {w} ELSE misled

BeginSave(w) ==
  /\ stage[w] = "ready"
  /\ active[w]
  /\ Move(w, "saving")
  /\ age' = [age EXCEPT ![w] = 0]
  /\ \E version \in 0..Len(log) : Build(w, version)
  /\ UNCHANGED <<active, due, waited, row, releasing, log, had, lost, late>>

(* The store takes what the writer built on the version it had seen: every *)
(* change made since then is gone.                                         *)
Overwritten(w) == {<<log[i], w>> : i \in (seen[w] + 1)..Len(log)}

Store(w) ==
  /\ log' = Append(log, w)
  /\ lost' = lost \cup Overwritten(w)
  /\ had' = [had EXCEPT ![ReplicaOf[w]] = Len(log) + 1]

(* A lease that is dropped clears its flag, aborts its renewal and leaves  *)
(* the row to a task of its own.                                           *)
DropLeaseKeepingFlag(w) ==            \* variant: is_active stays set
  /\ Move(w, "done")
  /\ releasing' = releasing \cup {w}
  /\ due' = [due EXCEPT ![w] = 0]
  /\ age' = [age EXCEPT ![w] = 0]
  /\ seen' = [seen EXCEPT ![w] = 0]
  /\ UNCHANGED <<active, waited, row>>
DropLease(w) ==
  /\ Move(w, "done")
  /\ active' = [active EXCEPT ![w] = FALSE]
  /\ releasing' = releasing \cup {w}
  /\ due' = [due EXCEPT ![w] = 0]
  /\ age' = [age EXCEPT ![w] = 0]
  /\ seen' = [seen EXCEPT ![w] = 0]
  /\ UNCHANGED <<waited, row>>

EndSave(w) ==
  /\ stage[w] = "saving"
  /\ Store(w)
  /\ DropLease(w)
  /\ UNCHANGED <<misled, late>>

(* A lost flag, a failed reload or save, nothing to save, or a client that *)
(* hangs up.                                                               *)
Abandon(w) ==
  /\ w \in Holders
  /\ DropLease(w)
  /\ UNCHANGED <<log, had, misled, lost, late>>

Release(w) ==
  /\ w \in releasing
  /\ releasing' = releasing \ {w}
  /\ owner' = IF owner = w THEN NoOne ELSE owner
  /\ UNCHANGED <<stage, active, due, age, waited, left, copies, late>>

FailToRelease(w) ==
  /\ w \in releasing
  /\ releasing' = releasing \ {w}
  /\ UNCHANGED <<stage, active, due, age, waited, row, copies, late>>

-----------------------------------------------------------------------------
(* The ticker: the mutex, no lease, and the cached copy as it is. *)

TickWithoutMutex(w) ==                \* variant: the write lock is not taken
  /\ stage[w] = "queued"
  /\ Move(w, "saving")
  /\ \E version \in 0..Len(log) : Build(w, version)
  /\ UNCHANGED <<leases, log, had, lost, late>>
BeginTick(w) ==
  /\ stage[w] = "queued"
  /\ MutexFree(ReplicaOf[w])
  /\ Move(w, "saving")
  /\ \E version \in 0..Len(log) : Build(w, version)
  /\ UNCHANGED <<leases, log, had, lost, late>>

EndTick(w) ==
  /\ stage[w] = "saving"
  /\ Store(w)
  /\ Move(w, "done")
  /\ seen' = [seen EXCEPT ![w] = 0]
  /\ UNCHANGED <<leases, misled, late>>

(* The session is not cached, the tick is not saved, or its save fails. *)
SkipTick(w) ==
  /\ stage[w] \in {"queued", "saving"}
  /\ Move(w, "done")
  /\ seen' = [seen EXCEPT ![w] = 0]
  /\ UNCHANGED <<leases, log, had, misled, lost, late>>

-----------------------------------------------------------------------------
(* The world. *)

(* A replica dies with its handlers; their rows stay. *)
Crash(r) ==
  LET dead == {w \in Writer : ReplicaOf[w] = r} IN
  /\ ~MutexFree(r)
  /\ stage' = [w \in Writer |->
                 IF w \in dead /\ stage[w] # "queued" THEN "done" ELSE stage[w]]
  /\ active' = [w \in Handler |-> active[w] /\ w \notin dead]
  /\ due' = [w \in Handler |-> IF w \in dead THEN 0 ELSE due[w]]
  /\ age' = [w \in Handler |-> IF w \in dead THEN 0 ELSE age[w]]
  /\ waited' = [w \in Handler |-> IF w \in dead THEN 0 ELSE waited[w]]
  /\ seen' = [w \in Writer |-> IF w \in dead THEN 0 ELSE seen[w]]
  /\ releasing' = releasing \ dead
  /\ UNCHANGED <<row, log, had, misled, lost, late>>

Less(n) == IF n = 0 THEN 0 ELSE n - 1

Overdue == \E w \in Holders : active[w] /\ due[w] = 0
Slow    == \E w \in Handler : stage[w] = "saving" /\ age[w] + 1 >= Interval

Tick ==
  /\ left' = Less(left)
  /\ due' = [w \in Handler |-> Less(due[w])]
  /\ age' = [w \in Handler |->
       IF stage[w] = "saving" /\ age[w] < Interval THEN age[w] + 1 ELSE age[w]]
  /\ waited' = [w \in Handler |->
       IF stage[w] = "asking" /\ waited[w] < Patience THEN waited[w] + 1 ELSE waited[w]]
  /\ late' = (late \/ Overdue \/ Slow)
  /\ UNCHANGED <<stage, active, owner, releasing, copies>>

-----------------------------------------------------------------------------

HandlerStep(w) ==
  \/ TakeMutex(w) \/ Acquire(w) \/ AcquireUnheard(w) \/ GiveUp(w) \/ FailToAcquire(w)
  \/ Load(w) \/ BeginSave(w) \/ EndSave(w) \/ Abandon(w)
LeaseTask(w) ==
  Renew(w) \/ FailToRenew(w) \/ Release(w) \/ FailToRelease(w)
TickerStep(w) == BeginTick(w) \/ EndTick(w) \/ SkipTick(w)

Next ==
  \/ \E w \in Handler : HandlerStep(w) \/ LeaseTask(w)
  \/ \E w \in Ticker : TickerStep(w)
  \/ \E r \in Replica : Crash(r)
  \/ Tick

Spec == Init /\ [][Next]_vars

(* The fair specification: the executor runs every writer and every task,  *)
(* store calls return, and time passes.  A store that keeps failing is     *)
(* allowed, and so is any delay: nothing is asked of FailToAcquire or of   *)
(* Crash.                                                                  *)
HandlerRuns(w) ==
  \/ TakeMutex(w) \/ Acquire(w) \/ GiveUp(w)
  \/ Load(w) \/ BeginSave(w) \/ EndSave(w) \/ Abandon(w)

FairSpec ==
  /\ Spec
  /\ \A w \in Handler : WF_vars(HandlerRuns(w)) /\ WF_vars(LeaseTask(w))
  /\ \A w \in Ticker : WF_vars(TickerStep(w))
  /\ WF_vars(Tick)

-----------------------------------------------------------------------------
(* Properties. *)

(* Every variable keeps its type, only a handler that holds the lease has  *)
(* its flag set, and a copy never claims more than the store has had.      *)
TypeOK ==
  /\ stage \in [Writer -> Stage]
  /\ active \in [Handler -> BOOLEAN] /\ \A w \in Handler : active[w] => w \in Holders
  /\ due \in [Handler -> Nat] /\ age \in [Handler -> Nat] /\ waited \in [Handler -> Nat]
  /\ owner \in Handler \cup {NoOne} /\ left \in Nat
  /\ releasing \subseteq Handler
  /\ log \in Seq(Writer)
  /\ seen \in [Writer -> Nat] /\ \A w \in Writer : seen[w] <= Len(log)
  /\ had \in [Replica -> Nat] /\ \A r \in Replica : had[r] <= Len(log)
  /\ misled \subseteq Writer
  /\ late \in BOOLEAN
  /\ lost \subseteq Writer \X Writer

(* A save loses a change that was answered before it only if it was built  *)
(* on an older copy than its own replica had saved or, holding the lock,   *)
(* reloaded - a load that a save overtook, or a handler whose save seemed  *)
(* to fail, has put it back into the cache -                               *)
(* or if the two come from different replicas, and then only if a renewal  *)
(* or a save took longer than the interval, the lost change was a tick,    *)
(* which is saved without a lease, or the save is a command's or a tick's, *)
(* which do not reload: another replica's change may not have reached them.*)
(* So the mutex, where the ticker has nothing else, and the lease leave no *)
(* other way to lose one.                                                  *)
LostUpdatesExplained ==
  \A pair \in lost :
    \/ pair[2] \in misled
    \/ /\ ReplicaOf[pair[1]] # ReplicaOf[pair[2]]
       /\ late \/ pair[1] \in Ticker \/ pair[2] \in Ticker \cup Command

(* The lease implements exclusive writing: a writer is inside from the     *)
(* moment it has the session to build on until its save has ended, or its  *)
(* flag is cleared before it began one.                                    *)
Inside ==
  {w \in Writer : stage[w] = "saving"} \cup {w \in Handler : stage[w] = "ready" /\ active[w]}
Exclusive == INSTANCE ExclusiveWriter WITH inside <- Inside, Unleased <- Ticker
ImplementsExclusiveWriter == Exclusive!Spec

(* The row comes free again and again: whoever owns it releases it, loses  *)
(* it or lets it expire, even if its release never arrives.                *)
RowComesFree == []<>RowFree
=============================================================================
