-------------------------- MODULE ModelCallsProofs --------------------------
(***************************************************************************)
(* The calls of language models, for any number of requests, permits,      *)
(* rounds and providers: permits and queue add up, and a call is given up  *)
(* for failures only after all it may try.                                 *)
(*                                                                         *)
(* A round begins where the shared cursor pointed, and from there on is    *)
(* the call's own; so what it has tried is a stretch of the circle of      *)
(* providers, and all of it once it is as long as the pool.                *)
(***************************************************************************)
EXTENDS MCDeadlines, FiniteSetTheorems, SequenceTheorems, NaturalsInduction, TLAPS

Stage   == InCall \cup {"idle", "waiting", "granted", "done"}
Reason  == {"content", "uncut", "timeout", "conflict", "unconfigured", "exhausted"}
Verdict == [says : {"content", "conflict", "local", "placeholder", "busy", "error"},
            why : Reason]
Request == [stage : Stage, kind : Kind \cup {"none"}, start : Nat, tried : SUBSET Nat,
            asked : Nat, round : 0..Retries, answer : Verdict \cup {"none"}]

Pooled ==
  /\ pool \in [Role -> Seq(Entry \ {"keyless"})] /\ cursor \in [Role -> Nat]
  /\ \A r \in Role : cursor[r] = 0 \/ cursor[r] < Len(pool[r])
  /\ token \in {"none", "good", "stale"} /\ creation \in BOOLEAN

Queued ==
  /\ queue \in Seq(Job) /\ IsInjective(queue)
  /\ ToSet(queue) = {j \in Job : job[j].stage = "waiting"}

(* The provider, of n, asked after k others when the round began at s.     *)
NthOf(n, s, k) == ((s + k) % n) + 1

(* The m providers of n from where a round began.                          *)
Turned(n, s, m) == {NthOf(n, s, k) : k \in 0..(m - 1)}

Size(c) == Len(pool[RoleOf(c.kind)])

InTurn(c) ==
  /\ c.kind = "none" => c.stage = "idle"
  /\ c.stage \in InCall => c.start < Size(c) /\ c.asked < Size(c)
  /\ c.stage = "asking" => c.tried = Turned(Size(c), c.start, c.asked)
  /\ c.stage \in {"fetching", "calling"} => c.tried = Turned(Size(c), c.start, c.asked + 1)
  /\ c.stage = "pausing" => c.kind # "judge" /\ c.round < Retries
  /\ c.stage = "done" => c.answer \in Verdict
  /\ c.stage = "done" /\ c.answer.why = "exhausted" =>
       c.tried = 1..Size(c) /\ (c.kind # "judge" => c.round = Retries)

Holds(c) == c.kind # "judge" /\ c.stage \in InCall \cup {"granted"}

CallsInv ==
  /\ Pooled /\ Queued
  /\ job \in [Job -> Request] /\ \A j \in Job : InTurn(job[j])
  /\ Cardinality(Holders) <= Permits

-----------------------------------------------------------------------------
(* Going round the providers.                                              *)

(* Of numbers below twice n, the remainder by n.                           *)
LEMMA Remainder ==
  ASSUME NEW n \in Nat \ {0}, NEW a \in Nat
  PROVE  /\ a % n \in 0..(n - 1)
         /\ a < n => a % n = a
         /\ n <= a /\ a < n + n => a % n = a - n
<1>1. a % n \in 0..(n - 1)
  OBVIOUS
<1>2. a < n => a % n = a
  OBVIOUS
<1>3. n <= a /\ a < n + n => a % n = a - n
  OBVIOUS
<1> QED BY <1>1, <1>2, <1>3

(* One more provider is the next one on the circle.                        *)
LEMMA TurnsOn ==
  ASSUME NEW n \in Nat \ {0}, NEW s \in Nat, NEW m \in Nat
  PROVE  /\ NthOf(n, s, m) \in 1..n
         /\ Turned(n, s, 0) = {}
         /\ Turned(n, s, m + 1) = Turned(n, s, m) \cup {NthOf(n, s, m)}
<1>1. s + m \in Nat
  OBVIOUS
<1>2. NthOf(n, s, m) \in 1..n
  BY <1>1, Remainder DEF NthOf
<1>3. 0..(m + 1 - 1) = (0..(m - 1)) \cup {m} /\ 0..(0 - 1) = {}
  OBVIOUS
<1>4. Turned(n, s, 0) = {}
  BY <1>3 DEF Turned
<1>5. Turned(n, s, m + 1) = Turned(n, s, m) \cup {NthOf(n, s, m)}
  BY <1>3 DEF Turned
<1> QED BY <1>2, <1>4, <1>5

(* A full turn meets all.                                                  *)
LEMMA FullTurn ==
  ASSUME NEW n \in Nat \ {0}, NEW s \in Nat, s < n
  PROVE  Turned(n, s, n) = 1..n
<1>1. ASSUME NEW k \in 0..(n - 1) PROVE NthOf(n, s, k) \in 1..n
  BY TurnsOn
<1>2. ASSUME NEW i \in 1..n PROVE \E k \in 0..(n - 1) : i = NthOf(n, s, k)
  <2>1. CASE s <= i - 1
    <3>1. i - 1 - s \in 0..(n - 1) /\ s + (i - 1 - s) = i - 1 /\ i - 1 \in Nat /\ i - 1 < n
      BY <2>1
    <3>2. (i - 1) % n = i - 1
      BY <3>1, Remainder
    <3> QED BY <3>1, <3>2 DEF NthOf
  <2>2. CASE i - 1 < s
    <3> DEFINE a == s + (i - 1 - s + n)
    <3>1. /\ i - 1 - s + n \in 0..(n - 1) /\ a = i - 1 + n
          /\ a \in Nat /\ n <= a /\ a < n + n
      BY <2>2
    <3>2. a % n = a - n
      <4> HIDE DEF a
      <4> QED BY <3>1, Remainder
    <3>3. (a % n) + 1 = i
      BY <3>1, <3>2
    <3> QED BY <3>1, <3>3 DEF NthOf
  <2> QED BY <2>1, <2>2
<1> QED BY <1>1, <1>2 DEF Turned

-----------------------------------------------------------------------------
(* The pool.                                                               *)

(* Every nonempty set of numbers has a least one.                          *)
LEMMA LeastOf ==
  ASSUME NEW T \in SUBSET Nat, T # {}
  PROVE  \E m \in T : \A n \in T : m <= n
<1> DEFINE Less == {ss \in Nat \X Nat : ss[1] < ss[2]}
<1>1. Less = OpToRel(<, Nat)
  BY DEF OpToRel
<1>2. IsWellFoundedOn(Less, Nat)
  BY <1>1, NatLessThanWellFounded, Zenon
<1>3. PICK m \in T : \A n \in T : <<n, m>> \notin Less
  BY <1>2, WFMin
<1>4. ASSUME NEW n \in T PROVE m <= n
  <2>1. <<n, m>> \in Nat \X Nat /\ <<n, m>>[1] = n /\ <<n, m>>[2] = m
    OBVIOUS
  <2>2. n < m => <<n, m>> \in Less
    BY <2>1
  <2> HIDE DEF Less
  <2> QED BY <1>3, <2>2
<1> QED BY <1>4

(* The entries up to n that can be used, and what says that f gives them.  *)
Taking(es, f, n) == IF n = 0 THEN <<>>
                    ELSE IF Usable(es[n]) THEN Append(f[n - 1], es[n]) ELSE f[n - 1]
Takes(es, f, n)  == DOMAIN f = 0..n /\ \A i \in 0..n : f[i] = Taking(es, f, i)

(* Such a function has only usable entries, and there is one.              *)
LEMMA TakenUsable ==
  ASSUME NEW es \in Seq(Entry), NEW n \in 0..Len(es), NEW f, Takes(es, f, n)
  PROVE  \A i \in 0..n : f[i] \in Seq(Entry \ {"keyless"})
<1> DEFINE Bad == {i \in 0..n : f[i] \notin Seq(Entry \ {"keyless"})}
<1>1. SUFFICES ASSUME Bad # {} PROVE FALSE
  OBVIOUS
<1>2. PICK m \in Bad : \A i \in Bad : m <= i
  <2>1. Bad \in SUBSET Nat
    OBVIOUS
  <2> HIDE DEF Bad
  <2> QED BY <1>1, <2>1, LeastOf
<1>3. m \in 0..n /\ f[m] = Taking(es, f, m) /\ f[m] \notin Seq(Entry \ {"keyless"})
  BY <1>2 DEF Takes
<1>4. m # 0
  BY <1>3 DEF Taking
<1>5. m - 1 \in 0..n /\ m - 1 \notin Bad
  BY <1>2, <1>3, <1>4
<1>6. f[m - 1] \in Seq(Entry \ {"keyless"})
  BY <1>5
<1>7. es[m] \in Entry
  BY <1>3, <1>4
<1> QED BY <1>3, <1>4, <1>6, <1>7 DEF Taking, Usable

(* One more entry extends what takes those before it, so there is one for  *)
(* all.                                                                    *)
LEMMA TakingExists ==
  ASSUME NEW es \in Seq(Entry)
  PROVE  \E f : Takes(es, f, Len(es))
<1> DEFINE Bad == {n \in 0..Len(es) : ~\E f : Takes(es, f, n)}
<1>1. SUFFICES ASSUME Bad # {} PROVE FALSE
  <2>1. Len(es) \in 0..Len(es)
    OBVIOUS
  <2> QED BY <2>1
<1>2. PICK m \in Bad : \A i \in Bad : m <= i
  <2>1. Bad \in SUBSET Nat
    OBVIOUS
  <2> HIDE DEF Bad
  <2> QED BY <1>1, <2>1, LeastOf
<1>3. m \in 0..Len(es) /\ ~\E f : Takes(es, f, m)
  BY <1>2
<1>4. m # 0
  <2>1. Takes(es, [i \in 0..0 |-> <<>>], 0)
    BY DEF Takes, Taking
  <2> QED BY <1>3, <2>1
<1>5. m - 1 \in 0..Len(es) /\ m - 1 \notin Bad
  BY <1>2, <1>3, <1>4
<1>6. PICK f : Takes(es, f, m - 1)
  BY <1>5
<1> DEFINE whole == [i \in 0..m |-> IF i = m THEN Taking(es, f, m) ELSE f[i]]
<1>7. ASSUME NEW i \in 0..m PROVE whole[i] = Taking(es, whole, i)
  <2>1. CASE i = m
    <3>1. whole[m] = Taking(es, f, m) /\ whole[m - 1] = f[m - 1]
      BY <1>3, <1>4
    <3> QED BY <1>4, <2>1, <3>1 DEF Taking
  <2>2. CASE i # m
    <3>1. i \in 0..(m - 1) /\ f[i] = Taking(es, f, i) /\ whole[i] = f[i]
      BY <1>3, <1>4, <1>6, <2>2 DEF Takes
    <3>2. i # 0 => whole[i - 1] = f[i - 1]
      BY <3>1
    <3> QED BY <3>1, <3>2 DEF Taking
  <2> QED BY <2>1, <2>2
<1>8. Takes(es, whole, m)
  BY <1>7 DEF Takes
<1> QED BY <1>3, <1>8

(* Of a list of entries those that have a key, or need none, are kept.     *)
LEMMA ResolvedUsable ==
  ASSUME NEW es \in Seq(Entry)
  PROVE  Resolved(es) \in Seq(Entry \ {"keyless"})
<1> DEFINE kept == CHOOSE f : f = [n \in 0..Len(es) |-> Taking(es, f, n)]
<1>1. \E f : f = [n \in 0..Len(es) |-> Taking(es, f, n)]
  <2>1. PICK f : Takes(es, f, Len(es))
    BY TakingExists
  <2> DEFINE whole == [n \in 0..Len(es) |-> f[n]]
  <2>2. whole = [n \in 0..Len(es) |-> Taking(es, whole, n)]
    BY <2>1 DEF Takes, Taking
  <2> QED BY <2>2
<1>2. kept = [n \in 0..Len(es) |-> Taking(es, kept, n)]
  BY <1>1, Zenon
<1>3. Resolved(es) = kept[Len(es)]
  BY DEF Resolved, Taking
<1> HIDE DEF kept
<1>4. Takes(es, kept, Len(es)) /\ Len(es) \in 0..Len(es)
  BY <1>2 DEF Takes
<1> QED BY <1>3, <1>4, TakenUsable

-----------------------------------------------------------------------------
(* The queue.                                                              *)

(* Who leaves the queue leaves the others in it, once each.                *)
LEMMA QueueWithout ==
  ASSUME NEW q \in Seq(Job), IsInjective(q), NEW j
  PROVE  /\ Without(q, j) \in Seq(Job) /\ IsInjective(Without(q, j))
         /\ ToSet(Without(q, j)) = ToSet(q) \ {j}
<1>1. CASE j \notin ToSet(q)
  BY <1>1 DEF Without
<1>2. CASE j \in ToSet(q)
  <2> DEFINE i == CHOOSE x \in DOMAIN q : q[x] = j
             a == SubSeq(q, 1, i - 1)
             b == SubSeq(q, i + 1, Len(q))
             r == a \o b
  <2>1. i \in 1..Len(q) /\ q[i] = j
    BY <1>2 DEF ToSet
  <2>2. Without(q, j) = r
    BY <1>2 DEF Without, RemoveAt
  <2> HIDE DEF i
  <2>3. a \in Seq(Job) /\ Len(a) = i - 1 /\ \A k \in 1..(i - 1) : a[k] = q[k]
    <3>1. 1 \in 1..(Len(q) + 1) /\ i - 1 \in (1 - 1)..Len(q)
      BY <2>1
    <3>2. /\ a \in Seq(Job) /\ Len(a) = (i - 1) - 1 + 1
          /\ \A k \in 1..((i - 1) - 1 + 1) : a[k] = q[1 + k - 1]
      BY <3>1, SubSeqProperties, SMTT(20)
    <3> QED BY <2>1, <3>2
  <2>4. b \in Seq(Job) /\ Len(b) = Len(q) - i /\ \A k \in 1..(Len(q) - i) : b[k] = q[i + k]
    <3>1. i + 1 \in 1..(Len(q) + 1) /\ Len(q) \in (i + 1 - 1)..Len(q)
      BY <2>1
    <3>2. /\ b \in Seq(Job) /\ Len(b) = Len(q) - (i + 1) + 1
          /\ \A k \in 1..(Len(q) - (i + 1) + 1) : b[k] = q[(i + 1) + k - 1]
      BY <3>1, SubSeqProperties, SMTT(20)
    <3> QED BY <2>1, <3>2
  <2> HIDE DEF a, b
  <2>5. /\ r \in Seq(Job) /\ Len(r) = Len(q) - 1
        /\ \A k \in 1..(Len(q) - 1) : r[k] = IF k < i THEN q[k] ELSE q[k + 1]
    <3>1. /\ r \in Seq(Job) /\ Len(r) = Len(a) + Len(b)
          /\ \A k \in 1..(Len(a) + Len(b)) : r[k] = IF k <= Len(a) THEN a[k] ELSE b[k - Len(a)]
      BY <2>3, <2>4, ConcatProperties
    <3> HIDE DEF r
    <3>2. Len(a) + Len(b) = Len(q) - 1 /\ Len(a) = i - 1
      BY <2>1, <2>3, <2>4
    <3>3. ASSUME NEW k \in 1..(Len(q) - 1) PROVE r[k] = IF k < i THEN q[k] ELSE q[k + 1]
      <4>1. r[k] = IF k <= i - 1 THEN a[k] ELSE b[k - (i - 1)]
        BY <3>1, <3>2
      <4>2. CASE k < i
        BY <2>1, <2>3, <4>1, <4>2
      <4>3. CASE ~(k < i)
        <5>1. k - (i - 1) \in 1..(Len(q) - i) /\ i + (k - (i - 1)) = k + 1 /\ ~(k <= i - 1)
          BY <2>1, <4>3
        <5>2. b[k - (i - 1)] = q[k + 1]
          BY <2>4, <5>1
        <5> QED BY <4>1, <4>3, <5>1, <5>2
      <4> QED BY <4>2, <4>3
    <3> QED BY <3>1, <3>2, <3>3
  <2> HIDE DEF r
  <2>6. IsInjective(r)
    <3> SUFFICES ASSUME NEW k \in 1..(Len(q) - 1), NEW l \in 1..(Len(q) - 1), r[k] = r[l]
                 PROVE  k = l
      BY <2>5 DEF IsInjective
    <3> DEFINE from(x) == IF x < i THEN x ELSE x + 1
    <3>1. from(k) \in 1..Len(q) /\ from(l) \in 1..Len(q) /\ q[from(k)] = q[from(l)]
      BY <2>1, <2>5
    <3>2. from(k) = from(l)
      <4> HIDE DEF from
      <4> QED BY <3>1 DEF IsInjective
    <3> QED BY <2>1, <3>2
  <2>7. ASSUME NEW x \in ToSet(r) PROVE x \in ToSet(q) \ {j}
    <3>1. PICK k \in 1..(Len(q) - 1) : x = r[k]
      BY <2>5 DEF ToSet
    <3> DEFINE l == IF k < i THEN k ELSE k + 1
    <3>2. l \in 1..Len(q) /\ l # i /\ x = q[l]
      BY <2>1, <2>5, <3>1
    <3> HIDE DEF l
    <3> QED BY <2>1, <3>2 DEF ToSet, IsInjective
  <2>8. ASSUME NEW x \in ToSet(q) \ {j} PROVE x \in ToSet(r)
    <3>1. PICK l \in 1..Len(q) : x = q[l]
      BY DEF ToSet
    <3> DEFINE k == IF l < i THEN l ELSE l - 1
    <3>2. k \in 1..(Len(q) - 1) /\ r[k] = x
      BY <2>1, <2>5, <3>1
    <3> HIDE DEF k
    <3> QED BY <2>5, <3>2 DEF ToSet
  <2> QED BY <2>2, <2>5, <2>6, <2>7, <2>8
<1> QED BY <1>1, <1>2

(* Who joins it comes last.                                                *)
LEMMA QueueJoined ==
  ASSUME NEW q \in Seq(Job), IsInjective(q), NEW j \in Job, j \notin ToSet(q)
  PROVE  /\ Append(q, j) \in Seq(Job) /\ IsInjective(Append(q, j))
         /\ ToSet(Append(q, j)) = ToSet(q) \cup {j}
<1> DEFINE r == Append(q, j)
<1>1. /\ r \in Seq(Job) /\ Len(r) = Len(q) + 1
      /\ \A k \in 1..Len(q) : r[k] = q[k]
      /\ r[Len(q) + 1] = j
  OBVIOUS
<1> HIDE DEF r
<1>2. IsInjective(r)
  BY <1>1 DEF IsInjective, ToSet
<1>3. ToSet(r) = ToSet(q) \cup {j}
  BY <1>1 DEF ToSet
<1> QED BY <1>1, <1>2, <1>3 DEF r

(* Who is served was first, and is in the queue no more.                   *)
LEMMA QueueServed ==
  ASSUME NEW q \in Seq(Job), IsInjective(q), q # <<>>
  PROVE  /\ Tail(q) \in Seq(Job) /\ IsInjective(Tail(q))
         /\ ToSet(Tail(q)) = ToSet(q) \ {Head(q)} /\ Head(q) \in Job
<1> DEFINE r == Tail(q)
<1>1. /\ r \in Seq(Job) /\ Len(r) = Len(q) - 1 /\ Len(q) \in Nat \ {0}
      /\ \A k \in 1..(Len(q) - 1) : r[k] = q[k + 1]
      /\ Head(q) = q[1] /\ Head(q) \in Job
  OBVIOUS
<1> HIDE DEF r
<1>2. IsInjective(r)
  BY <1>1 DEF IsInjective
<1>3. ToSet(r) = ToSet(q) \ {Head(q)}
  <2>1. ASSUME NEW x \in ToSet(r) PROVE x \in ToSet(q) /\ x # Head(q)
    BY <1>1 DEF ToSet, IsInjective
  <2>2. ASSUME NEW x \in ToSet(q), x # Head(q) PROVE x \in ToSet(r)
    <3>1. PICK l \in 1..Len(q) : x = q[l]
      BY DEF ToSet
    <3>2. l - 1 \in 1..(Len(q) - 1) /\ r[l - 1] = x
      BY <1>1, <2>2, <3>1
    <3> QED BY <1>1, <3>2 DEF ToSet
  <2> QED BY <2>1, <2>2
<1> QED BY <1>1, <1>2, <1>3 DEF r

-----------------------------------------------------------------------------
(* Requests. *)

(* Nobody's request.                                                       *)
LEMMA NoCallTyped == NoCall \in Request /\ InTurn(NoCall) /\ ~Holds(NoCall)
<1>1. NoCall \in Request
  BY RetriesAssumption DEF NoCall, Request, Stage, InCall
<1>2. InTurn(NoCall) /\ ~Holds(NoCall)
  BY DEF NoCall, InTurn, Holds, InCall
<1> QED BY <1>1, <1>2

(* The queue is right when a request moves and neither joins nor leaves it,*)
LEMMA SameQueue ==
  ASSUME CallsInv, NEW j \in Job, NEW new, job' = [job EXCEPT ![j] = new], queue' = queue,
         new.stage = "waiting" <=> job[j].stage = "waiting"
  PROVE  Queued'
<1>1. \A k \in Job : job'[k].stage = "waiting" <=> job[k].stage = "waiting"
  BY DEF CallsInv
<1> QED BY <1>1 DEF CallsInv, Queued

(* and when it leaves it.                                                  *)
LEMMA LeftQueue ==
  ASSUME CallsInv, NEW j \in Job, NEW new, job' = [job EXCEPT ![j] = new],
         queue' = Without(queue, j), new.stage # "waiting"
  PROVE  Queued'
<1>1. \A k \in Job : job'[k].stage = "waiting" <=> k # j /\ job[k].stage = "waiting"
  BY DEF CallsInv
<1>2. /\ queue' \in Seq(Job) /\ IsInjective(queue')
      /\ ToSet(queue') = ToSet(queue) \ {j}
  BY QueueWithout DEF CallsInv, Queued
<1> QED BY <1>1, <1>2 DEF CallsInv, Queued

(* A request that moves alone, within what it may hold and has been given, *)
(* leaves all in order.                                                    *)
LEMMA JobMoves ==
  ASSUME CallsInv, NEW j \in Job, NEW new \in Request, InTurn(new),
         job' = [job EXCEPT ![j] = new], pool' = pool, Pooled', Queued',
         Holds(new) => Holds(job[j]) \/ Free > 0
  PROVE  CallsInv'
<1>1. job' \in [Job -> Request] /\ \A k \in Job : job'[k] = IF k = j THEN new ELSE job[k]
  BY DEF CallsInv
<1>2. \A k \in Job : InTurn(job[k])'
  BY <1>1 DEF CallsInv, InTurn, Size
<1>3. Cardinality(Holders') <= Permits
  <2>1. Holders = {k \in Job : Holds(job[k])} /\ Holders' = {k \in Job : Holds(job'[k])}
    BY DEF Holders, Holds
  <2>2. IsFiniteSet(Holders) /\ Cardinality(Holders) \in Nat
    BY JobAssumption, FS_Subset, FS_CardinalityType DEF Holders
  <2>3. CASE Holds(new) => Holds(job[j])
    <3>1. Holders' \in SUBSET Holders
      BY <1>1, <2>1, <2>3
    <3>2. Cardinality(Holders') <= Cardinality(Holders) /\ Cardinality(Holders') \in Nat
      BY <2>2, <3>1, FS_Subset, FS_CardinalityType
    <3> QED BY <2>2, <3>2, PermitsAssumption DEF CallsInv
  <2>4. CASE Free > 0
    <3>1. Holders' \in SUBSET (Holders \cup {j})
      BY <1>1, <2>1
    <3>2. /\ IsFiniteSet(Holders \cup {j})
          /\ Cardinality(Holders \cup {j}) \in {Cardinality(Holders), Cardinality(Holders) + 1}
      BY <2>2, FS_AddElement
    <3>3. Cardinality(Holders') <= Cardinality(Holders \cup {j}) /\ Cardinality(Holders') \in Nat
      BY <3>1, <3>2, FS_Subset, FS_CardinalityType
    <3>4. Cardinality(Holders) + 1 <= Permits
      BY <2>2, <2>4, PermitsAssumption DEF Free
    <3> QED BY <2>2, <3>2, <3>3, <3>4, PermitsAssumption
  <2> QED BY <2>3, <2>4
<1> QED BY <1>1, <1>2, <1>3 DEF CallsInv

-----------------------------------------------------------------------------
(* The steps. *)

(* At first nobody asks and nobody holds a permit.                         *)
LEMMA InitCalls == ASSUME Init PROVE CallsInv
<1>1. pool \in [Role -> Seq(Entry \ {"keyless"})]
  <2>1. PICK e \in Environment : pool = [r \in Role |-> Resolved(e[r])]
    BY DEF Init
  <2>2. \A r \in Role : Resolved(e[r]) \in Seq(Entry \ {"keyless"})
    BY EnvironmentAssumption, ResolvedUsable
  <2> QED BY <2>1, <2>2
<1>2. Pooled
  BY <1>1 DEF Init, Pooled
<1>3. job = [j \in Job |-> NoCall] /\ queue = <<>>
  BY DEF Init
<1>4. Queued
  BY <1>3 DEF Queued, NoCall, IsInjective, ToSet
<1>5. Holders = {}
  BY <1>3 DEF Holders, NoCall, InCall
<1>6. Cardinality(Holders) <= Permits
  BY <1>5, FS_EmptySet, PermitsAssumption
<1> QED BY <1>2, <1>3, <1>4, <1>6, NoCallTyped DEF CallsInv

(* Who asks gets a permit only if one is free, and else the end of the     *)
(* queue.                                                                  *)
LEMMA AskKeeps == ASSUME CallsInv, NEW j \in Job, NEW kind \in Kind, Ask(j, kind) PROVE CallsInv'
<1> DEFINE now == kind = "judge" \/ (queue = <<>> /\ Free > 0)
           stage == IF now THEN "granted" ELSE "waiting"
           new == [NoCall EXCEPT !.kind = kind, !.stage = stage]
<1>1. /\ job[j].stage = "idle" /\ job' = [job EXCEPT ![j] = new]
      /\ queue' = IF now THEN queue ELSE Append(queue, j)
      /\ pool' = pool /\ cursor' = cursor /\ token' = token /\ creation' = creation
  BY DEF Ask
<1>2. stage \in {"granted", "waiting"} /\ (stage = "granted" <=> now)
  OBVIOUS
<1> HIDE DEF stage
<1>3. new \in Request /\ new.kind = kind /\ new.stage = stage
  BY <1>2, NoCallTyped DEF Request, Stage, InCall
<1> HIDE DEF new
<1>4. InTurn(new)
  BY <1>2, <1>3 DEF InTurn, InCall, Kind
<1>5. Pooled'
  BY <1>1 DEF CallsInv, Pooled
<1>6. Queued'
  <2>1. CASE now
    BY <1>1, <1>2, <1>3, <2>1, SameQueue
  <2>2. CASE ~now
    <3>1. queue \in Seq(Job) /\ IsInjective(queue) /\ j \notin ToSet(queue)
      BY <1>1 DEF CallsInv, Queued
    <3>2. /\ queue' \in Seq(Job) /\ IsInjective(queue')
          /\ ToSet(queue') = ToSet(queue) \cup {j}
      BY <1>1, <2>2, <3>1, QueueJoined
    <3>3. \A k \in Job : job'[k].stage = "waiting" <=> k = j \/ job[k].stage = "waiting"
      BY <1>1, <1>2, <1>3, <2>2 DEF CallsInv
    <3> QED BY <3>2, <3>3 DEF CallsInv, Queued
  <2> QED BY <2>1, <2>2
<1>7. Holds(new) => Free > 0
  BY <1>2, <1>3 DEF Holds, InCall
<1> HIDE DEF now
<1> QED BY <1>1, <1>3, <1>4, <1>5, <1>6, <1>7, JobMoves

(* The first of the queue gets a permit that is free.                      *)
LEMMA GrantKeeps == ASSUME CallsInv, NEW j \in Job, Grant(j) PROVE CallsInv'
<1> DEFINE new == [job[j] EXCEPT !.stage = "granted"]
<1>1. /\ job' = [job EXCEPT ![j] = new] /\ queue # <<>> /\ Head(queue) = j /\ Free > 0
      /\ queue' = Tail(queue)
      /\ pool' = pool /\ cursor' = cursor /\ token' = token /\ creation' = creation
  BY DEF Grant
<1>2. queue \in Seq(Job) /\ IsInjective(queue) /\ job[j] \in Request
  BY DEF CallsInv, Queued
<1>3. /\ queue' \in Seq(Job) /\ IsInjective(queue')
      /\ ToSet(queue') = ToSet(queue) \ {j}
  BY <1>1, <1>2, QueueServed
<1>4. job[j].stage = "waiting"
  <2>1. j \in ToSet(queue)
    BY <1>1, <1>2 DEF ToSet
  <2> QED BY <2>1 DEF CallsInv, Queued
<1>5. new \in Request /\ new.kind = job[j].kind /\ new.stage = "granted"
  BY <1>2 DEF Request, Stage
<1> HIDE DEF new
<1>6. InTurn(new)
  BY <1>4, <1>5 DEF CallsInv, InTurn, InCall
<1>7. Pooled'
  BY <1>1 DEF CallsInv, Pooled
<1>8. Queued'
  <2>1. \A k \in Job : job'[k].stage = "waiting" <=> k # j /\ job[k].stage = "waiting"
    BY <1>1, <1>5 DEF CallsInv
  <2> QED BY <1>3, <2>1 DEF CallsInv, Queued
<1> QED BY <1>1, <1>5, <1>6, <1>7, <1>8, JobMoves

(* The end of a call has an answer and its reason.                         *)
LEMMA EndedTyped ==
  ASSUME CallsInv, NEW j \in Job, NEW end \in Reason
  PROVE  /\ Ended(j, end) \in Request /\ Ended(j, end).stage = "done"
         /\ Ended(j, end).answer \in Verdict /\ Ended(j, end).answer.why = end
         /\ Ended(j, end).kind = job[j].kind /\ Ended(j, end).tried = job[j].tried
         /\ Ended(j, end).round = job[j].round
<1> DEFINE verdict == [says |-> Answer(job[j].kind, end), why |-> end]
<1>1. verdict \in Verdict /\ verdict.why = end
  BY DEF Verdict, Answer
<1>2. Ended(j, end) = [job[j] EXCEPT !.stage = "done", !.answer = verdict]
  BY DEF Ended
<1>3. job[j] \in Request
  BY DEF CallsInv
<1> HIDE DEF verdict
<1> QED BY <1>1, <1>2, <1>3 DEF Request, Stage

(* It is in order to end a call in any way but by giving it up.            *)
LEMMA FinishKeeps ==
  ASSUME CallsInv, NEW j \in Job, job[j].stage # "idle", NEW end \in Reason \ {"exhausted"},
         Finish(j, end), pool' = pool, Pooled', Queued'
  PROVE  CallsInv'
<1> DEFINE new == Ended(j, end)
<1>1. job' = [job EXCEPT ![j] = new]
  BY DEF Finish
<1>2. /\ new \in Request /\ new.stage = "done" /\ new.answer \in Verdict
      /\ new.answer.why = end /\ new.kind = job[j].kind
  BY EndedTyped
<1> HIDE DEF new
<1>3. InTurn(new) /\ ~Holds(new)
  BY <1>2 DEF CallsInv, InTurn, Holds, InCall
<1> QED BY <1>1, <1>2, <1>3, JobMoves

(* Who gives up waiting leaves the queue, wherever in it.                  *)
LEMMA TimeOutKeeps == ASSUME CallsInv, NEW j \in Job, TimeOut(j) PROVE CallsInv'
<1>1. /\ job[j].stage = "waiting" /\ queue' = Without(queue, j) /\ Finish(j, "timeout")
      /\ pool' = pool /\ cursor' = cursor /\ token' = token /\ creation' = creation
  BY DEF TimeOut
<1>2. job' = [job EXCEPT ![j] = Ended(j, "timeout")] /\ "timeout" \in Reason \ {"exhausted"}
  BY <1>1 DEF Finish, Reason
<1>3. Ended(j, "timeout").stage # "waiting"
  BY <1>2, EndedTyped
<1>4. Pooled'
  BY <1>1 DEF CallsInv, Pooled
<1>5. Queued'
  BY <1>1, <1>2, <1>3, LeftQueue
<1> QED BY <1>1, <1>2, <1>4, <1>5, FinishKeeps

(* A call that has its permit is ended.                                    *)
LEMMA EndKeeps ==
  ASSUME CallsInv, NEW j \in Job, job[j].stage \notin {"idle", "waiting"},
         NEW end \in Reason \ {"exhausted"},
         Finish(j, end), pool' = pool, queue' = queue, Pooled'
  PROVE  CallsInv'
<1>1. job' = [job EXCEPT ![j] = Ended(j, end)] /\ Ended(j, end).stage # "waiting"
  BY EndedTyped DEF Finish
<1>2. Queued'
  BY <1>1, SameQueue
<1> QED BY <1>2, FinishKeeps

(* The cursor moves on, round the pool.                                    *)
LEMMA RoundKeeps ==
  ASSUME CallsInv, NEW j \in Job, job[j].stage \in {"granted", "pausing"},
         NEW round \in 0..Retries, Providers(j) # <<>>, StartRound(j, round),
         pool' = pool, token' = token, queue' = queue, creation' = creation
  PROVE  CallsInv'
<1> DEFINE r == RoleOf(job[j].kind)
           n == Len(pool[r])
           new == [job[j] EXCEPT !.stage = "asking", !.start = cursor[r], !.asked = 0,
                                 !.tried = {}, !.round = round]
<1>1. /\ job' = [job EXCEPT ![j] = new]
      /\ cursor' = [cursor EXCEPT ![r] = (cursor[r] + 1) % n]
  BY DEF StartRound
<1>2. r \in Role /\ job[j] \in Request /\ pool[r] \in Seq(Entry \ {"keyless"})
  BY DEF CallsInv, Pooled, RoleOf, Role
<1>3. n \in Nat \ {0} /\ cursor[r] \in Nat /\ cursor[r] < n
  BY <1>2 DEF CallsInv, Pooled, Providers
<1>4. /\ new \in Request /\ new.stage = "asking" /\ new.kind = job[j].kind
      /\ new.start = cursor[r] /\ new.asked = 0 /\ new.tried = {}
  BY <1>2, <1>3 DEF Request, Stage, InCall
<1>5. Size(new) = n
  BY <1>4 DEF Size
<1> HIDE DEF new
<1>6. InTurn(new)
  BY <1>3, <1>4, <1>5, TurnsOn DEF CallsInv, InTurn, InCall
<1>7. Pooled'
  <2>1. (cursor[r] + 1) % n \in Nat /\ (cursor[r] + 1) % n < n
    <3>1. cursor[r] + 1 \in Nat
      BY <1>3
    <3> HIDE DEF n, r
    <3>2. (cursor[r] + 1) % n \in 0..(n - 1)
      BY <1>3, <3>1, Remainder
    <3> QED BY <1>3, <3>2
  <2> QED BY <1>1, <1>2, <2>1 DEF CallsInv, Pooled
<1>8. Queued'
  BY <1>1, <1>4, SameQueue
<1>9. Holds(new) => Holds(job[j])
  BY <1>4 DEF Holds, InCall
<1> QED BY <1>1, <1>4, <1>6, <1>7, <1>8, <1>9, JobMoves

(* A call begins its first round, or ends before it.                       *)
LEMMA BeginKeeps == ASSUME CallsInv, NEW j \in Job, Begin(j) PROVE CallsInv'
<1>1. /\ job[j].stage = "granted" /\ queue' = queue
      /\ pool' = pool /\ token' = token /\ creation' = creation
  BY DEF Begin
<1>2. CASE Finish(j, "conflict") /\ cursor' = cursor
  <2>1. Pooled' /\ "conflict" \in Reason \ {"exhausted"}
    BY <1>1, <1>2 DEF CallsInv, Pooled, Reason
  <2> QED BY <1>1, <1>2, <2>1, EndKeeps
<1>3. CASE Finish(j, "unconfigured") /\ cursor' = cursor
  <2>1. Pooled' /\ "unconfigured" \in Reason \ {"exhausted"}
    BY <1>1, <1>3 DEF CallsInv, Pooled, Reason
  <2> QED BY <1>1, <1>3, <2>1, EndKeeps
<1>4. CASE Providers(j) # <<>> /\ StartRound(j, 0)
  <2>1. 0 \in 0..Retries
    BY RetriesAssumption
  <2> QED BY <1>1, <1>4, <2>1, RoundKeeps
<1> QED BY <1>2, <1>3, <1>4 DEF Begin

(* A drawing that has rounds left begins the next.                         *)
LEMMA GoRoundKeeps == ASSUME CallsInv, NEW j \in Job, GoRoundAgain(j) PROVE CallsInv'
<1>1. /\ job[j].stage = "pausing" /\ StartRound(j, job[j].round + 1) /\ queue' = queue
      /\ pool' = pool /\ token' = token /\ creation' = creation
  BY DEF GoRoundAgain
<1>2. job[j].round + 1 \in 0..Retries
  BY <1>1, RetriesAssumption DEF CallsInv, InTurn, Request
<1>3. Providers(j) # <<>>
  <2>1. job[j].start \in Nat /\ job[j].start < Len(Providers(j))
    BY <1>1 DEF CallsInv, InTurn, InCall, Request, Providers, Size
  <2> QED BY <2>1
<1> QED BY <1>1, <1>2, <1>3, RoundKeeps

(* The size of a call's pool, and where it is in it.                       *)
LEMMA InPool ==
  ASSUME CallsInv, NEW j \in Job, job[j].stage \in InCall
  PROVE  /\ Size(job[j]) \in Nat \ {0} /\ DOMAIN Providers(j) = 1..Size(job[j])
         /\ job[j].start \in Nat /\ job[j].start < Size(job[j])
         /\ job[j].asked \in Nat /\ job[j].asked < Size(job[j])
         /\ ProviderOf(j) = NthOf(Size(job[j]), job[j].start, job[j].asked)
         /\ ProviderOf(j) \in DOMAIN Providers(j)
<1>1. /\ job[j] \in Request /\ RoleOf(job[j].kind) \in Role
      /\ job[j].start < Size(job[j]) /\ job[j].asked < Size(job[j])
  BY DEF CallsInv, InTurn, RoleOf, Role
<1>2. Providers(j) \in Seq(Entry \ {"keyless"}) /\ Size(job[j]) = Len(Providers(j))
  BY <1>1 DEF CallsInv, Pooled, Providers, Size
<1>3. /\ job[j].start \in Nat /\ job[j].asked \in Nat /\ Size(job[j]) \in Nat \ {0}
      /\ DOMAIN Providers(j) = 1..Size(job[j])
  BY <1>1, <1>2 DEF Request
<1>4. ProviderOf(j) = NthOf(Size(job[j]), job[j].start, job[j].asked)
  BY <1>2 DEF ProviderOf, NthOf
<1>5. ProviderOf(j) \in 1..Size(job[j])
  BY <1>3, <1>4, TurnsOn
<1> QED BY <1>1, <1>3, <1>4, <1>5

(* The provider that is asked is counted as tried.                         *)
LEMMA CallKeeps == ASSUME CallsInv, NEW j \in Job, Call(j) PROVE CallsInv'
<1> DEFINE next == IF OnVertex(j) /\ token # "good" THEN "fetching" ELSE "calling"
           tried == job[j].tried \cup {ProviderOf(j)}
           new == [job[j] EXCEPT !.stage = next, !.tried = tried]
<1>1. /\ job[j].stage = "asking" /\ job' = [job EXCEPT ![j] = new] /\ queue' = queue
      /\ pool' = pool /\ cursor' = cursor /\ token' = token /\ creation' = creation
  BY DEF Call
<1>2. next \in {"fetching", "calling"} /\ job[j] \in Request
  BY DEF CallsInv
<1> HIDE DEF next
<1>3. /\ Size(job[j]) \in Nat \ {0}
      /\ job[j].start \in Nat /\ job[j].asked \in Nat
      /\ ProviderOf(j) = NthOf(Size(job[j]), job[j].start, job[j].asked)
      /\ ProviderOf(j) \in 1..Size(job[j])
  BY <1>1, InPool DEF InCall
<1>4. tried = Turned(Size(job[j]), job[j].start, job[j].asked + 1)
  <2>1. job[j].tried = Turned(Size(job[j]), job[j].start, job[j].asked)
    BY <1>1 DEF CallsInv, InTurn
  <2> DEFINE n == Size(job[j])
             s == job[j].start
             m == job[j].asked
  <2>2. /\ n \in Nat \ {0} /\ s \in Nat /\ m \in Nat /\ tried = job[j].tried \cup {NthOf(n, s, m)}
        /\ job[j].tried = Turned(n, s, m)
    BY <1>3, <2>1
  <2> HIDE DEF tried
  <2>3. tried = Turned(n, s, m + 1)
    <3> HIDE DEF n, s, m
    <3>1. Turned(n, s, m + 1) = Turned(n, s, m) \cup {NthOf(n, s, m)}
      BY <2>2, TurnsOn
    <3> QED BY <2>2, <3>1
  <2> QED BY <2>3
<1>5. tried \in SUBSET Nat
  BY <1>2, <1>3 DEF Request
<1> HIDE DEF tried
<1>6. /\ new \in Request /\ new.stage = next /\ new.kind = job[j].kind /\ new.tried = tried
      /\ new.start = job[j].start /\ new.asked = job[j].asked
  BY <1>2, <1>5 DEF Request, Stage, InCall
<1>7. Size(new) = Size(job[j])
  BY <1>6 DEF Size
<1> HIDE DEF new
<1>8. InTurn(new)
  BY <1>1, <1>2, <1>4, <1>6, <1>7 DEF CallsInv, InTurn, InCall
<1>9. Pooled' /\ Queued'
  <2>1. Queued'
    BY <1>1, <1>2, <1>6, SameQueue
  <2> QED BY <1>1, <2>1 DEF CallsInv, Pooled
<1>10. Holds(new) => Holds(job[j])
  BY <1>1, <1>6 DEF Holds, InCall
<1> QED BY <1>1, <1>6, <1>8, <1>9, <1>10, JobMoves

(* After a failure the next provider is asked, or all have been.           *)
LEMMA FailOverKeeps ==
  ASSUME CallsInv, NEW j \in Job, job[j].stage \in {"fetching", "calling"}, FailOver(j),
         pool' = pool, queue' = queue, Pooled'
  PROVE  CallsInv'
<1> DEFINE n == Size(job[j])
           asked == job[j].asked + 1
           onwards == [job[j] EXCEPT !.stage = "asking", !.asked = asked]
<1>1. /\ n \in Nat \ {0} /\ n = Len(Providers(j))
      /\ job[j].start \in Nat /\ job[j].start < n /\ job[j].asked \in Nat /\ job[j].asked < n
  BY InPool DEF InCall, Size, Providers
<1>2. /\ job[j] \in Request /\ job[j].tried = Turned(n, job[j].start, job[j].asked + 1)
      /\ job[j].kind # "none"
  BY DEF CallsInv, InTurn
<1>3. CASE asked < n /\ job' = [job EXCEPT ![j] = onwards]
  <2>0. asked \in Nat
    BY <1>1
  <2> HIDE DEF asked
  <2>1. /\ onwards \in Request /\ onwards.stage = "asking" /\ onwards.kind = job[j].kind
        /\ onwards.start = job[j].start /\ onwards.asked = asked
        /\ onwards.tried = job[j].tried
    BY <1>2, <2>0 DEF Request, Stage, InCall
  <2>2. Size(onwards) = n
    BY <2>1 DEF Size
  <2> HIDE DEF onwards, n
  <2>3. InTurn(onwards)
    BY <1>1, <1>2, <1>3, <2>1, <2>2 DEF InTurn, InCall, asked
  <2>4. Queued'
    BY <1>3, <2>1, SameQueue
  <2>5. Holds(onwards) => Holds(job[j])
    BY <2>1 DEF Holds, InCall
  <2> QED BY <1>3, <2>1, <2>3, <2>4, <2>5, JobMoves
<1>4. CASE ~(asked < n) /\ job' = [job EXCEPT ![j] = Paused(j)]
           /\ job[j].kind # "judge" /\ job[j].round < Retries
  <2> DEFINE new == Paused(j)
  <2>1. /\ new \in Request /\ new.stage = "pausing" /\ new.kind = job[j].kind
        /\ new.start = job[j].start /\ new.asked = job[j].asked /\ new.round = job[j].round
    BY <1>2 DEF Paused, Request, Stage, InCall
  <2>2. Size(new) = n
    BY <2>1 DEF Size
  <2> HIDE DEF new, n
  <2>3. InTurn(new)
    BY <1>1, <1>2, <1>4, <2>1, <2>2 DEF InTurn, InCall
  <2>4. Queued'
    BY <1>4, <2>1, SameQueue DEF new
  <2>5. Holds(new) => Holds(job[j])
    BY <2>1 DEF Holds, InCall
  <2> QED BY <1>4, <2>1, <2>3, <2>4, <2>5, JobMoves DEF new
<1>5. CASE ~(asked < n) /\ job' = [job EXCEPT ![j] = Ended(j, "exhausted")]
           /\ ~(job[j].kind # "judge" /\ job[j].round < Retries)
  <2> DEFINE new == Ended(j, "exhausted")
  <2>1. /\ new \in Request /\ new.stage = "done" /\ new.answer \in Verdict
        /\ new.kind = job[j].kind /\ new.tried = job[j].tried /\ new.round = job[j].round
    <3>1. "exhausted" \in Reason
      BY DEF Reason
    <3> QED BY <3>1, EndedTyped
  <2>2. Size(new) = n
    BY <2>1 DEF Size
  <2> HIDE DEF new, n
  <2>3. job[j].asked + 1 = n /\ job[j].tried = 1..n
    BY <1>1, <1>2, <1>5, FullTurn
  <2>4. job[j].kind # "judge" => job[j].round = Retries
    BY <1>2, <1>5, RetriesAssumption DEF Request
  <2>5. InTurn(new)
    BY <1>2, <2>1, <2>2, <2>3, <2>4 DEF InTurn, InCall
  <2>6. Queued'
    BY <1>5, <2>1, SameQueue DEF new
  <2>7. ~Holds(new)
    BY <2>1 DEF Holds, InCall
  <2> QED BY <1>5, <2>1, <2>5, <2>6, <2>7, JobMoves DEF new
<1> QED BY <1>1, <1>3, <1>4, <1>5 DEF FailOver, Exhausted

(* With a token the call goes on, without one it counts as failed.         *)
LEMMA FetchKeeps == ASSUME CallsInv, NEW j \in Job, FetchToken(j) PROVE CallsInv'
<1>1. /\ job[j].stage = "fetching" /\ queue' = queue
      /\ pool' = pool /\ cursor' = cursor /\ creation' = creation
  BY DEF FetchToken
<1>2. CASE token' = "good" /\ job' = [job EXCEPT ![j].stage = "calling"]
  <2> DEFINE new == [job[j] EXCEPT !.stage = "calling"]
  <2>1. job' = [job EXCEPT ![j] = new] /\ job[j] \in Request
    BY <1>2 DEF CallsInv
  <2>2. /\ new \in Request /\ new.stage = "calling" /\ new.kind = job[j].kind
        /\ new.tried = job[j].tried /\ new.start = job[j].start /\ new.asked = job[j].asked
    BY <2>1 DEF Request, Stage, InCall
  <2>3. Size(new) = Size(job[j])
    BY <2>2 DEF Size
  <2> HIDE DEF new
  <2>4. InTurn(new) /\ (Holds(new) => Holds(job[j]))
    BY <1>1, <2>2, <2>3 DEF CallsInv, InTurn, Holds, InCall
  <2>5. Pooled'
    BY <1>1, <1>2 DEF CallsInv, Pooled
  <2>6. Queued'
    BY <1>1, <2>1, <2>2, SameQueue
  <2> QED BY <1>1, <2>1, <2>2, <2>4, <2>5, <2>6, JobMoves
<1>3. CASE FailOver(j) /\ token' = token
  <2>1. Pooled'
    BY <1>1, <1>3 DEF CallsInv, Pooled
  <2> QED BY <1>1, <1>3, <2>1, FailOverKeeps
<1> QED BY <1>2, <1>3 DEF FetchToken

(* A reply that is taken ends the call, any other fails it.                *)
LEMMA ReplyKeeps == ASSUME CallsInv, NEW j \in Job, GetReply(j) PROVE CallsInv'
<1>1. /\ job[j].stage = "calling" /\ queue' = queue
      /\ pool' = pool /\ cursor' = cursor /\ token' = token /\ creation' = creation
  BY DEF GetReply
<1>2. Pooled'
  BY <1>1 DEF CallsInv, Pooled
<1>3. ASSUME NEW end \in {"uncut", "content"}, Finish(j, end) PROVE CallsInv'
  <2>1. end \in Reason \ {"exhausted"}
    BY DEF Reason
  <2> QED BY <1>1, <1>2, <1>3, <2>1, EndKeeps
<1>4. CASE FailOver(j)
  BY <1>1, <1>2, <1>4, FailOverKeeps
<1>5. \A fits \in BOOLEAN : EndOf(job[j].kind, fits) \in {"uncut", "content"}
  BY DEF EndOf
<1> QED BY <1>3, <1>4, <1>5 DEF GetReply

(* Who has an answer holds nothing any more.                               *)
LEMMA DeliverKeeps == ASSUME CallsInv, NEW j \in Job, Deliver(j) PROVE CallsInv'
<1>1. /\ job[j].stage = "done" /\ job' = [job EXCEPT ![j] = NoCall] /\ queue' = queue
      /\ pool' = pool /\ cursor' = cursor /\ token' = token /\ creation' = creation
  BY DEF Deliver
<1>2. Pooled'
  BY <1>1 DEF CallsInv, Pooled
<1>3. NoCall.stage # "waiting"
  BY DEF NoCall
<1>4. Queued'
  BY <1>1, <1>3, SameQueue
<1> QED BY <1>1, <1>2, <1>4, NoCallTyped, JobMoves

(* Nor who hangs up, be it in the queue.                                   *)
LEMMA HangUpKeeps == ASSUME CallsInv, NEW j \in Job, HangUp(j) PROVE CallsInv'
<1>1. /\ job' = [job EXCEPT ![j] = NoCall] /\ queue' = Without(queue, j)
      /\ pool' = pool /\ cursor' = cursor /\ token' = token /\ creation' = creation
  BY DEF HangUp
<1>2. Pooled'
  BY <1>1 DEF CallsInv, Pooled
<1>3. NoCall.stage # "waiting"
  BY DEF NoCall
<1>4. Queued'
  BY <1>1, <1>3, LeftQueue
<1> QED BY <1>1, <1>2, <1>4, NoCallTyped, JobMoves

(* Nothing moves but the token, or the phase of the session.               *)
LEMMA OthersKeep ==
  ASSUME CallsInv, pool' = pool, cursor' = cursor, queue' = queue, job' = job,
         token' \in {"none", "good", "stale"}, creation' \in BOOLEAN
  PROVE  CallsInv'
<1>1. Pooled'
  BY DEF CallsInv, Pooled
<1>2. Queued'
  BY DEF CallsInv, Queued
<1>3. \A j \in Job : InTurn(job[j])'
  BY DEF CallsInv, InTurn, Size
<1>4. Holders' = Holders
  BY DEF Holders
<1> QED BY <1>1, <1>2, <1>3, <1>4 DEF CallsInv

(* Every step keeps the calls in order.                                    *)
LEMMA CallsKept == ASSUME CallsInv, [Next]_vars PROVE CallsInv'
<1>1. CASE UNCHANGED vars
  <2>1. token \in {"none", "good", "stale"} /\ creation \in BOOLEAN
    BY DEF CallsInv, Pooled
  <2> QED BY <1>1, <2>1, OthersKeep DEF vars
<1>2. CASE TokenExpires \/ LeaveCreation
  <2>1. token \in {"none", "good", "stale"} /\ creation \in BOOLEAN
    BY DEF CallsInv, Pooled
  <2> QED BY <1>2, <2>1, OthersKeep DEF TokenExpires, LeaveCreation
<1>3. CASE \E j \in Job : Proceed(j)
  BY <1>3, GrantKeeps, TimeOutKeeps, BeginKeeps, CallKeeps, FetchKeeps, ReplyKeeps,
     GoRoundKeeps, DeliverKeeps DEF Proceed
<1>4. CASE \E j \in Job : HangUp(j)
  BY <1>4, HangUpKeeps
<1>5. CASE \E j \in Job, kind \in Kind : Ask(j, kind)
  BY <1>5, AskKeeps
<1> QED BY <1>1, <1>2, <1>3, <1>4, <1>5 DEF Next

(* Then permits, queue and pool add up, and calls are given up after all.  *)
LEMMA CallsOrdered == ASSUME CallsInv PROVE CallsInOrder
<1>1. \A r \in Role : pool[r] \in Seq(Entry \ {"keyless"}) /\ cursor[r] \in 0..Len(pool[r])
  BY DEF CallsInv, Pooled
<1>2. \A r \in Role : /\ \A i \in DOMAIN pool[r] : pool[r][i] \in Entry \ {"keyless"}
                       /\ cursor[r] \in 0..Len(pool[r])
  BY <1>1
<1>3. Free \in 0..Permits
  <2>1. Cardinality(Holders) \in Nat
    BY JobAssumption, FS_Subset, FS_CardinalityType DEF Holders
  <2> QED BY <2>1, PermitsAssumption DEF CallsInv, Free
<1>4. ASSUME NEW j \in Job
      PROVE  /\ job[j].stage \in InCall \cup {"idle", "waiting", "granted", "done"}
             /\ job[j].stage \in InCall => ProviderOf(j) \in DOMAIN Providers(j)
  BY InPool DEF CallsInv, Request, Stage
<1>5. TypeOK
  BY <1>2, <1>3, <1>4 DEF CallsInv, Pooled, Queued, TypeOK
<1>6. GivenUpAfterAll
  <2> SUFFICES ASSUME NEW j \in Job, job[j].stage = "done", job[j].answer.why = "exhausted"
               PROVE  /\ job[j].tried = DOMAIN Providers(j)
                      /\ job[j].kind # "judge" => job[j].round = Retries
    BY DEF GivenUpAfterAll
  <2>1. RoleOf(job[j].kind) \in Role
    BY DEF RoleOf, Role
  <2>2. DOMAIN Providers(j) = 1..Size(job[j])
    BY <1>1, <2>1 DEF Providers, Size
  <2> QED BY <2>2 DEF CallsInv, InTurn
<1> QED BY <1>5, <1>6 DEF CallsInOrder

(* CallsInOrder of the run: permits, queue, pool and cursor add up at      *)
(* every moment, and a call that is given up for failures has tried each   *)
(* provider, a drawing in as many rounds as are allowed, however many      *)
(* other calls move the cursor (acquire_image_job_permit,                  *)
(* provider_attempt_indices, generate_image_with_system_instruction).      *)
THEOREM CallsStayInOrder == FairSpec => []CallsInOrder
<1>1. PartInit => CallsInv
  BY InitCalls DEF PartInit
<1>2. CallsInv /\ [PartNext]_<<part, vars, hostVars>> => CallsInv'
  <2> SUFFICES ASSUME CallsInv, [PartNext]_<<part, vars, hostVars>> PROVE CallsInv'
    OBVIOUS
  <2>1. [Next]_vars
    BY DEF PartNext, vars
  <2> QED BY <2>1, CallsKept
<1>3. CallsInv => CallsInOrder
  BY CallsOrdered
<1> QED BY <1>1, <1>2, <1>3, PTL DEF FairSpec
=============================================================================
