------------------------- MODULE SessionCacheProofs -------------------------
(***************************************************************************)
(* Answered work is saved, for any number of commands, sockets and saves,  *)
(* as long as nothing was undone.                                          *)
(***************************************************************************)
EXTENDS SessionCache, Integers, TLAPS

(* While nothing was undone, every copy a later save can start from has    *)
(* all the answered work: the cached one, the one being saved, the one a   *)
(* failing handler would put back, and the one a dropped handler was       *)
(* committing.                                                             *)
Kept == ~undone =>
  /\ acked \subseteq store.work
  /\ cache # NoCopy => IF Idle THEN acked \subseteq cache.work ELSE cache = writer.copy
  /\ ~Idle => acked \subseteq writer.copy.work
  /\ ~Idle /\ writer.before # NoCopy /\ writer.by # "close" =>
       acked \subseteq writer.before.work
  /\ stray # NoCopy => acked \subseteq stray.work

IInv == TypeOK /\ Kept

LEMMA TouchedCopy ==
  ASSUME NEW copy \in Copy, clock \in Nat
  PROVE  /\ Touched(copy) \in Copy
         /\ Touched(copy) # NoCopy
         /\ Touched(copy).work = copy.work
<1>1. Touched(copy) \in Copy /\ Touched(copy).work = copy.work
  BY DEF Touched, Copy
<1>2. QED
  BY <1>1, NoCopyAssumption

LEMMA AnnouncedNotes ==
  ASSUME NEW copy \in Copy, notes \in Seq(Note)
  PROVE  Announced(copy) \in Seq(Note)
<1>1. copy.stamp \in Nat
  BY DEF Copy
<1>2. <<[typed |-> TRUE, stamp |-> copy.stamp], [typed |-> FALSE, stamp |-> copy.stamp]>>
        \in Seq(Note)
  BY <1>1 DEF Note
<1>3. QED
  BY <1>2 DEF Announced

(* A handler that changes the session from a copy that has all answered    *)
(* work.                                                                   *)
LEMMA ChangeKeeps ==
  ASSUME IInv, Idle, NEW copy \in Copy, NEW before \in Copy \cup {NoCopy},
         NEW by \in {"command", "ticker", "reload", "close"},
         Change(by, copy, before),
         by # "ticker" => before # NoCopy,
         ~undone' => acked \subseteq copy.work,
         ~undone' /\ before # NoCopy /\ by # "close" => acked \subseteq before.work,
         UNCHANGED <<store, stray, acked>>, ~undone' => ~undone
  PROVE  /\ cache' \in Copy \cup {NoCopy}
         /\ writer' \in Writer
         /\ clock' \in Nat
         /\ Idle' <=> writer'.copy = NoCopy
         /\ writer'.by \in {"command", "reload", "close"} => writer'.before # NoCopy
         /\ Kept'
<1>1. clock \in Nat
  BY DEF IInv, TypeOK
<1>2. Touched(copy) \in Copy /\ Touched(copy) # NoCopy /\ Touched(copy).work = copy.work
  BY <1>1, TouchedCopy
<1>3. /\ writer' = [by |-> by, copy |-> Touched(copy), before |-> before]
      /\ cache' = Touched(copy) /\ clock' = clock + 1
  BY DEF Change
<1>4. writer' \in Writer /\ writer'.by = by /\ writer'.copy = Touched(copy)
        /\ writer'.before = before
  BY <1>2, <1>3 DEF Writer
<1>5. ~Idle'
  BY <1>4 DEF Idle
<1>6. Kept'
  BY <1>2, <1>3, <1>4, <1>5 DEF IInv, Kept
<1>7. QED
  BY <1>1, <1>2, <1>3, <1>4, <1>5, <1>6

LEMMA HandlersKeepInvariant ==
  ASSUME IInv,
         \/ BeginLoad \/ BeginClose
         \/ \E copy \in loading : FinishLoad(copy)
         \/ \E i \in Item \ Notes : Command(i)
         \/ \E i \in Notes : Refuse(i)
         \/ \E awards \in BOOLEAN : Tick(awards)
         \/ \E base \in {store} \cup loading :
              Reload(base) \/ \E seen \in closing : FinishClose(seen, base)
  PROVE  IInv'
<1> USE DEF IInv, told, past
<1>1. /\ store \in Copy /\ cache \in Copy \cup {NoCopy} /\ clock \in Nat
      /\ loading \subseteq Copy /\ closing \subseteq Copy \cup {NoCopy}
  BY DEF TypeOK
<1>2. ASSUME BeginLoad PROVE IInv'
  BY <1>1, <1>2 DEF BeginLoad, TypeOK, Kept, Idle
<1>3. ASSUME NEW copy \in loading, FinishLoad(copy) PROVE IInv'
  <2>1. /\ undone' \in BOOLEAN /\ damaged' \in BOOLEAN /\ ahead' \in BOOLEAN
        /\ cache' \in {cache, copy}
        /\ ~undone' => ~undone /\ (cache' = cache \/ (Idle /\ cache' = store))
    <3>1. CASE Cached(copy)
      BY <3>1 DEF Cached, TypeOK
    <3>2. CASE UNCHANGED <<cache, undone, damaged, ahead>>
      BY <3>2 DEF TypeOK
    <3>3. QED
      BY <1>3, <3>1, <3>2 DEF FinishLoad
  <2>2. TypeOK'
    BY <1>1, <1>3, <2>1 DEF FinishLoad, TypeOK, Idle
  <2>3. Kept'
    BY <1>1, <1>3, <2>1 DEF FinishLoad, Kept, Idle
  <2>4. QED
    BY <2>2, <2>3
<1> DEFINE Based(base) ==
             /\ undone' = (undone \/ base # store)
             /\ damaged' = (base # store)
             /\ ahead' = FALSE
<1>8. ASSUME NEW base \in {store} \cup loading, NEW by \in {"reload", "close"},
             NEW before \in Copy, by = "reload" => before = base, Idle,
             Change(by, base, before) \/ (cache' = base /\ UNCHANGED <<writer, clock>>),
             Based(base), closing' \subseteq closing,
             UNCHANGED <<loading, store, stray, told, acked, unsaved>>
      PROVE  IInv'
  <2>1. /\ base \in Copy
        /\ undone' \in BOOLEAN /\ damaged' \in BOOLEAN /\ ahead' \in BOOLEAN
        /\ ~undone' => ~undone /\ base = store
    BY <1>1, <1>8 DEF TypeOK
  <2>2. CASE Change(by, base, before)
    <3>1. ~undone' => acked \subseteq base.work
      BY <2>1 DEF Kept
    <3>2. /\ cache' \in Copy \cup {NoCopy} /\ writer' \in Writer /\ clock' \in Nat
          /\ Idle' <=> writer'.copy = NoCopy
          /\ writer'.by \in {"command", "reload", "close"} => writer'.before # NoCopy
          /\ Kept'
      BY <1>8, <2>1, <2>2, <3>1, ChangeKeeps, NoCopyAssumption
    <3>3. QED
      BY <1>1, <1>8, <2>1, <3>2 DEF told, TypeOK
  <2>3. CASE cache' = base /\ UNCHANGED <<writer, clock>>
    BY <1>1, <1>8, <2>1, <2>3 DEF told, TypeOK, Kept, Idle
  <2>4. QED
    BY <1>8, <2>2, <2>3
<1>9. ASSUME NEW base \in {store} \cup loading, Reload(base) PROVE IInv'
  <2>1. base \in Copy /\ Idle /\ Based(base)
    BY <1>1, <1>9 DEF Reload, ReloadThenChange
  <2>2. Change("reload", base, base) \/ (cache' = base /\ UNCHANGED <<writer, clock>>)
    BY <1>9 DEF Reload, ReloadThenChange
  <2>3. closing' \subseteq closing /\ UNCHANGED <<loading, store, stray, told, acked, unsaved>>
    BY <1>9 DEF Reload
  <2> HIDE DEF Based
  <2>4. QED
    BY <1>8, <2>1, <2>2, <2>3
<1>4. ASSUME BeginClose PROVE IInv'
  BY <1>1, <1>4 DEF BeginClose, TypeOK, Kept, Idle
<1>5. ASSUME NEW i \in Item \ Notes, Command(i) PROVE IInv'
  <2> DEFINE copy == [cache EXCEPT !.work = @ \cup {i}]
  <2>1. cache \in Copy /\ Idle
    BY <1>1, <1>5 DEF Command
  <2>2. copy \in Copy /\ copy.work = cache.work \cup {i}
    BY <2>1 DEF Copy
  <2>3. Change("command", copy, cache)
    BY <1>5 DEF Command
  <2>4. ~undone => acked \subseteq cache.work
    BY <1>5, <2>1 DEF Command, Kept
  <2> HIDE DEF copy
  <2>5. /\ cache' \in Copy \cup {NoCopy} /\ writer' \in Writer /\ clock' \in Nat
        /\ Idle' <=> writer'.copy = NoCopy
        /\ writer'.by \in {"command", "reload", "close"} => writer'.before # NoCopy
        /\ Kept'
    BY <1>5, <2>1, <2>2, <2>3, <2>4, ChangeKeeps, NoCopyAssumption DEF Command
  <2>6. QED
    BY <1>5, <2>5 DEF Command, TypeOK
<1>6. ASSUME NEW awards \in BOOLEAN, Tick(awards) PROVE IInv'
  <2> DEFINE next == [cache EXCEPT !.ticks = @ + 1]
  <2>1. cache \in Copy /\ Idle
    BY <1>1, <1>6 DEF Tick
  <2>2. next \in Copy /\ next.work = cache.work
    BY <2>1 DEF Copy
  <2>3. ~undone => acked \subseteq cache.work
    BY <1>6, <2>1 DEF Tick, Kept
  <2>4. CASE Change("ticker", next, NoCopy)
    <3> HIDE DEF next
    <3>1. /\ cache' \in Copy \cup {NoCopy} /\ writer' \in Writer /\ clock' \in Nat
          /\ Idle' <=> writer'.copy = NoCopy
          /\ writer'.by \in {"command", "reload", "close"} => writer'.before # NoCopy
          /\ Kept'
      BY <1>6, <2>1, <2>2, <2>3, <2>4, ChangeKeeps DEF Tick
    <3>2. QED
      BY <1>6, <3>1 DEF Tick, TypeOK
  <2>5. CASE clock' = clock + 1 /\ cache' = Touched(next) /\ UNCHANGED writer
    <3> HIDE DEF next
    <3>1. Touched(next) \in Copy /\ Touched(next).work = cache.work
      BY <1>1, <2>2, TouchedCopy
    <3>2. QED
      BY <1>1, <1>6, <2>1, <2>3, <2>5, <3>1 DEF Tick, TypeOK, Kept, Idle
  <2>6. QED
    BY <1>6, <2>4, <2>5 DEF Tick
<1>7. ASSUME NEW base \in {store} \cup loading, NEW seen \in closing, FinishClose(seen, base)
      PROVE  IInv'
  <2> DEFINE before == IF seen = NoCopy THEN base ELSE seen
  <2>1. before \in Copy /\ Idle /\ Based(base)
    BY <1>1, <1>7 DEF FinishClose, ReloadThenChange
  <2>2. Change("close", base, before) \/ (cache' = base /\ UNCHANGED <<writer, clock>>)
    BY <1>7 DEF FinishClose, ReloadThenChange
  <2>3. closing' \subseteq closing /\ UNCHANGED <<loading, store, stray, told, acked, unsaved>>
    BY <1>7 DEF FinishClose
  <2> HIDE DEF Based, before
  <2>4. QED
    BY <1>8, <2>1, <2>2, <2>3
<1>10. ASSUME NEW i \in Notes, Refuse(i) PROVE IInv'
  <2>1. cache \in Copy /\ i \in Item /\ Idle /\ UNCHANGED <<store, writer, stray, acked, undone>>
    BY <1>1, <1>10, NotesAssumption DEF Refuse
  <2>2. cache' \in Copy /\ cache.work \subseteq cache'.work
    BY <1>10, <2>1 DEF Refuse, Copy
  <2>3. TypeOK'
    BY <1>10, <2>1, <2>2 DEF Refuse, TypeOK, Idle
  <2>4. Kept'
    BY <2>1, <2>2, NoCopyAssumption DEF Kept, Idle
  <2>5. QED
    BY <2>3, <2>4
<1>11. QED
  BY <1>2, <1>3, <1>4, <1>5, <1>6, <1>7, <1>9, <1>10

LEMMA SavesKeepInvariant ==
  ASSUME IInv, Commit \/ FailSave \/ HangUp \/ Land \/ Restart
  PROVE  IInv'
<1> USE DEF IInv
<1>1. /\ store \in Copy /\ writer \in Writer /\ notes \in Seq(Note)
      /\ cache \in Copy \cup {NoCopy} /\ acked \subseteq Item
  BY DEF TypeOK
<1>2. ASSUME ~Idle PROVE writer.copy \in Copy /\ writer.copy.work \subseteq Item
  BY <1>1, <1>2 DEF TypeOK, Writer, Copy
<1>3. Nobody \in Writer /\ Nobody.by = "nobody" /\ Nobody.copy = NoCopy
  BY DEF Nobody, Writer
<1>4. ASSUME Commit PROVE IInv'
  <2>1. /\ ~Idle /\ stray = NoCopy /\ stray' = stray
        /\ store' = writer.copy /\ notes' = Announced(writer.copy)
    BY <1>4 DEF Commit, Committed
  <2>2. store' \in Copy /\ notes' \in Seq(Note)
    BY <1>1, <1>2, <2>1, AnnouncedNotes
  <2>3. acked' \subseteq Item /\ acked' \subseteq acked \cup writer.copy.work
    BY <1>1, <1>2, <1>4, <2>1 DEF Commit, Answered
  <2>4. writer' = Nobody /\ Idle'
    BY <1>3, <1>4 DEF Commit, Idle
  <2>5. TypeOK'
    BY <1>3, <1>4, <2>2, <2>3, <2>4 DEF Commit, TypeOK
  <2>6. Kept'
    BY <1>4, <2>1, <2>3, <2>4 DEF Commit, Kept
  <2>7. QED
    BY <2>5, <2>6
<1>5. ASSUME FailSave PROVE IInv'
  <2>1. /\ ~Idle /\ writer' = Nobody
        /\ UNCHANGED <<loading, stray, closing, clock, recent, acked, ahead>>
    BY <1>5 DEF FailSave
  <2>2. /\ store' \in Copy /\ notes' \in Seq(Note)
        /\ ~undone => acked \subseteq store'.work
    BY <1>1, <1>2, <1>5, <2>1, AnnouncedNotes DEF FailSave, Committed, Kept
  <2>3. Idle'
    BY <1>3, <2>1 DEF Idle
  <2>4. unsaved' \in Nat /\ damaged' \in BOOLEAN /\ undone' \in BOOLEAN
    <3>1. unsaved' \in Nat
      BY <1>5 DEF FailSave, TypeOK
    <3>2. damaged' \in BOOLEAN
      BY <1>5 DEF FailSave, TypeOK
    <3>3. undone' \in BOOLEAN
      BY <1>5 DEF FailSave, TypeOK
    <3>4. QED
      BY <3>1, <3>2, <3>3
  <2>5. /\ cache' \in Copy \cup {NoCopy}
        /\ ~undone' => ~undone /\ writer.by # "close"
        /\ ~undone' /\ cache' # NoCopy => acked \subseteq cache'.work
    BY <1>1, <1>5, <2>1 DEF FailSave, TypeOK, Kept, Writer
  <2>6. TypeOK'
    BY <1>3, <2>1, <2>2, <2>3, <2>4, <2>5 DEF TypeOK
  <2>7. Kept'
    BY <2>1, <2>2, <2>3, <2>5 DEF Kept
  <2>8. QED
    BY <2>6, <2>7
<1>6. ASSUME Restart PROVE IInv'
  <2>1. store' \in Copy /\ (~undone => acked \subseteq store'.work)
    BY <1>1, <1>2, <1>6 DEF Restart, TypeOK, Kept
  <2>2. writer' = Nobody /\ Idle' /\ cache' = NoCopy
    BY <1>3, <1>6 DEF Restart, Idle
  <2>3. notes' \in Seq(Note)
    BY <1>6 DEF Restart
  <2>4. TypeOK'
    BY <1>3, <1>6, <2>1, <2>2, <2>3 DEF Restart, TypeOK
  <2>5. Kept'
    BY <1>6, <2>1, <2>2 DEF Restart, Kept
  <2>6. QED
    BY <2>4, <2>5
<1>7. ASSUME HangUp PROVE IInv'
  <2>1. ~Idle /\ writer' = Nobody /\ Idle'
    BY <1>3, <1>7 DEF HangUp, Idle
  <2>2. stray' \in {stray, writer.copy}
    BY <1>7 DEF HangUp
  <2>3. TypeOK'
    BY <1>2, <1>3, <1>7, <2>1, <2>2 DEF HangUp, told, TypeOK
  <2>4. Kept'
    BY <1>7, <2>1, <2>2 DEF HangUp, Kept
  <2>5. QED
    BY <2>3, <2>4
<1>8. ASSUME Land PROVE IInv'
  <2>1. stray \in Copy /\ store' = stray /\ stray' = NoCopy /\ notes' \in Seq(Note)
    BY <1>1, <1>8, AnnouncedNotes DEF Land, TypeOK
  <2>2. TypeOK'
    BY <1>8, <2>1 DEF Land, past, TypeOK, Idle
  <2>3. Kept'
    BY <1>8, <2>1 DEF Land, past, Kept, Idle
  <2>4. QED
    BY <2>2, <2>3
<1>9. QED
  BY <1>4, <1>5, <1>6, <1>7, <1>8

LEMMA ListenerKeepsInvariant ==
  ASSUME IInv, HearUpdate \/ HearLegacyUpdate \/ LoseListener
  PROVE  IInv'
<1> USE DEF IInv, told, past
<1>1. ASSUME notes # <<>>
      PROVE  Tail(notes) \in Seq(Note) /\ Head(notes).stamp \in Nat
  <2>1. notes \in Seq(Note)
    BY DEF TypeOK
  <2>2. Head(notes) \in Note /\ Tail(notes) \in Seq(Note)
    BY <1>1, <2>1
  <2>3. QED
    BY <2>2 DEF Note
<1>2. ASSUME HearUpdate PROVE IInv'
  <2>1. cache' \in {cache, NoCopy} /\ recent' \in Nat /\ notes' \in Seq(Note)
    BY <1>1, <1>2 DEF HearUpdate, Evict, TypeOK
  <2>2. QED
    BY <1>2, <2>1 DEF HearUpdate, TypeOK, Kept, Idle
<1>3. ASSUME HearLegacyUpdate PROVE IInv'
  <2>1. cache' \in {cache, NoCopy} /\ notes' \in Seq(Note)
    BY <1>1, <1>3 DEF HearLegacyUpdate, Evict
  <2>2. QED
    BY <1>3, <2>1 DEF HearLegacyUpdate, TypeOK, Kept, Idle
<1>4. ASSUME LoseListener PROVE IInv'
  <2>1. notes' \in Seq(Note)
    BY <1>4 DEF LoseListener
  <2>2. QED
    BY <1>4, <2>1 DEF LoseListener, copies, TypeOK, Kept, Idle
<1>5. QED
  BY <1>2, <1>3, <1>4

LEMMA InitIsKept == Init => IInv
<1> SUFFICES ASSUME Init PROVE IInv
  OBVIOUS
<1>1. Fresh \in Copy /\ Nobody \in Writer /\ Nobody.by = "nobody" /\ Nobody.copy = NoCopy
  BY DEF Fresh, Copy, Nobody, Writer
<1>2. TypeOK
  <2>1. undone \in BOOLEAN /\ damaged \in BOOLEAN /\ ahead \in BOOLEAN
    BY DEF Init
  <2>2. writer \in Writer /\ (Idle <=> writer.copy = NoCopy) /\ writer.by = "nobody"
    BY <1>1 DEF Init, Idle
  <2>3. notes \in Seq(Note)
    BY DEF Init
  <2>4. clock \in Nat /\ recent \in Nat /\ unsaved \in Nat
    BY DEF Init
  <2>5. QED
    BY <1>1, <2>1, <2>2, <2>3, <2>4 DEF Init, TypeOK
<1>3. Kept
  BY <1>1 DEF Init, Kept, Idle
<1>4. QED
  BY <1>2, <1>3 DEF IInv

LEMMA NextKeepsInvariant == IInv /\ [Next]_vars => IInv'
<1> SUFFICES ASSUME IInv, [Next]_vars PROVE IInv'
  OBVIOUS
<1>1. CASE UNCHANGED vars
  <2> USE <1>1 DEF vars, copies, told, past
  <2>1. TypeOK'
    <3>1. damaged' \in BOOLEAN /\ undone' \in BOOLEAN /\ ahead' \in BOOLEAN
      BY DEF IInv, TypeOK
    <3>2. QED
      BY <3>1 DEF IInv, TypeOK, Idle
  <2>2. Kept'
    BY DEF IInv, Kept, Idle
  <2>3. QED
    BY <2>1, <2>2 DEF IInv
<1>2. CASE Next
  BY <1>2, HandlersKeepInvariant, SavesKeepInvariant, ListenerKeepsInvariant DEF Next
<1>3. QED
  BY <1>1, <1>2

(* The invariant of the copies holds in every reachable state.             *)
THEOREM CopiesKept == Spec => []IInv
BY InitIsKept, NextKeepsInvariant, PTL DEF Spec

(* Every variable keeps its type.                                          *)
THEOREM CacheTypeCorrect == Spec => []TypeOK
<1>1. IInv => TypeOK
  BY DEF IInv
<1>2. QED
  BY <1>1, CopiesKept, PTL

(* Work a client was told is done stays in the database through every      *)
(* failed or half-done save, eviction and restart, unless a load           *)
(* overlapped a save or a failed close put back an old copy.               *)
THEOREM AnsweredWorkKept == Spec => []AnsweredWorkIsSaved
<1>1. IInv => AnsweredWorkIsSaved
  BY DEF IInv, Kept, AnsweredWorkIsSaved
<1>2. QED
  BY <1>1, CopiesKept, PTL

-----------------------------------------------------------------------------
(* That the cache catches up.  Stamps tell copies apart: of all the copies *)
(* somebody has in hand, two with one stamp have the same ticks, and none  *)
(* lacks work of the one that was saved or is to be; it has more only if a *)
(* refused handover left it there.                                         *)
InHand == ({cache, store, stray, writer.copy, writer.before} \cup loading \cup closing) \ {NoCopy}
Written == ({store, stray, writer.copy} \cup loading) \ {NoCopy}

StampsTell ==
  /\ \A c \in InHand : c.stamp <= clock
  /\ \A c, d \in InHand : c.stamp = d.stamp => c.ticks = d.ticks
  /\ \A c \in Written, d \in InHand : c.stamp = d.stamp => c.work \subseteq d.work
  /\ cache # NoCopy /\ ~damaged /\ (~Idle \/ ~ahead) =>
       \A c \in Written : c.stamp = cache.stamp => c.work = cache.work

(* A copy that is not the store's is on its way out: the announcement of   *)
(* the stored one is still to be heard.                                    *)
Announcing == \E i \in 1 .. Len(notes) : notes[i].typed /\ notes[i].stamp = store.stamp

(* The saves of the ticker that failed, if the one under way does.         *)
LastDue(t) == t - ((t % Day) % SaveEvery)
Missed     == IF writer.by = "ticker" THEN unsaved + 1 ELSE unsaved

(* Other work than the stored copy's is in the cache only while a handler  *)
(* saves it, or after one was dropped.                                     *)
Follows ==
  ~damaged /\ cache # NoCopy /\ ~Announcing =>
    /\ store.work \subseteq cache.work
    /\ writer.by \in {"nobody", "ticker"} /\ ~ahead => cache.work = store.work
    /\ LastDue(cache.ticks) <= store.ticks + (SaveEvery * Missed)

(* The remainder of the next number is the next remainder, or zero.        *)
LEMMA NextRemainder ==
  ASSUME NEW n \in Nat \ {0}, NEW t \in Nat
  PROVE  /\ t % n \in 0 .. n - 1
         /\ (t + 1) % n = 0 \/ (t + 1) % n = (t % n) + 1
<1> DEFINE p == t \div n
           q == (t + 1) \div n
           r == t % n
           s == (t + 1) % n
<1>1. /\ t = (n * p) + r /\ r \in 0 .. n - 1
      /\ t + 1 = (n * q) + s /\ s \in 0 .. n - 1
      /\ p \in Int /\ q \in Int
  OBVIOUS
<1>2. s = 0 \/ s = r + 1
  <2> HIDE DEF p, q, r, s
  <2>1. n * (q - p) = r + 1 - s
    BY <1>1
  <2>2. q - p <= 1
    BY <1>1, <2>1
  <2>3. q - p >= 0
    BY <1>1, <2>1
  <2> QED BY <1>1, <2>1, <2>2, <2>3
<1> QED BY <1>1, <1>2

(* The tick last due to be saved is less than one saving interval ago,     *)
(* also across the end of a day, and moves only with a tick that is due.   *)
LEMMA LastDueMoves ==
  ASSUME NEW t \in Nat
  PROVE  /\ LastDue(t) \in Int /\ LastDue(t) <= t /\ t < LastDue(t) + SaveEvery
         /\ LastDue(t + 1) = LastDue(t) \/ (LastDue(t + 1) = t + 1 /\ ((t + 1) % Day) % SaveEvery = 0)
<1>1. Day \in Nat \ {0} /\ SaveEvery \in Nat \ {0}
  BY ClockAssumption
<1> DEFINE r == t % Day
           s == (t + 1) % Day
<1>2. r \in Nat /\ s \in Nat /\ (s = 0 \/ s = r + 1)
  <2>1. r \in 0 .. Day - 1 /\ (s = 0 \/ s = r + 1)
    BY <1>1, NextRemainder
  <2> HIDE DEF r, s
  <2> QED BY <1>1, <2>1
<1> HIDE DEF r, s
<1>3. r % SaveEvery \in 0 .. SaveEvery - 1 /\ s % SaveEvery \in 0 .. SaveEvery - 1
  BY <1>1, <1>2, NextRemainder
<1>4. s % SaveEvery = 0 \/ s % SaveEvery = (r % SaveEvery) + 1
  <2>1. CASE s = 0
    BY <1>1, <2>1
  <2>2. CASE s = r + 1
    BY <1>1, <1>2, <2>2, NextRemainder
  <2> QED BY <1>2, <2>1, <2>2
<1>5. LastDue(t) = t - (r % SaveEvery) /\ LastDue(t + 1) = t + 1 - (s % SaveEvery)
  BY <1>1 DEF LastDue, r, s
<1> DEFINE x == r % SaveEvery
           y == s % SaveEvery
<1>6. /\ x \in 0 .. SaveEvery - 1 /\ y \in 0 .. SaveEvery - 1 /\ (y = 0 \/ y = x + 1)
      /\ LastDue(t) = t - x /\ LastDue(t + 1) = t + 1 - y
  BY <1>3, <1>4, <1>5
<1>7. y = ((t + 1) % Day) % SaveEvery
  BY DEF s
<1> HIDE DEF x, y
<1> QED BY <1>1, <1>6, <1>7

(* The steps after which the cached copy still fits those that are written *)
(* if it has to: it is gone, no longer has to, is one of those, or stays.  *)
CacheFits ==
  \/ cache' = NoCopy \/ damaged' \/ (Idle' /\ ahead') \/ cache' \in Written
  \/ cache' = cache /\ (damaged => damaged') /\ (Idle /\ ahead => Idle' /\ ahead')

(* Nothing new in anybody's hands.                                         *)
LEMMA StampsStay ==
  ASSUME TypeOK, StampsTell, InHand' \subseteq InHand, Written' \subseteq Written,
         clock' = clock, CacheFits
  PROVE  StampsTell'
<1>1. Written \subseteq InHand
  BY DEF Written, InHand
<1>2. CASE cache' \in Written
  BY <1>1, <1>2 DEF StampsTell
<1>3. CASE cache' = NoCopy \/ damaged' \/ (Idle' /\ ahead')
  BY <1>3 DEF StampsTell
<1>4. CASE cache' = cache /\ (damaged => damaged') /\ (Idle /\ ahead => Idle' /\ ahead')
  BY <1>4 DEF StampsTell
<1> QED BY <1>2, <1>3, <1>4 DEF CacheFits

(* One copy more, and its stamp was drawn for it.                          *)
LEMMA StampsDrawn ==
  ASSUME TypeOK, StampsTell, NEW new \in Copy, new.stamp = clock + 1, clock' = clock + 1,
         InHand' \subseteq InHand \cup {new}, Written' \subseteq Written \cup {new},
         cache' = new
  PROVE  StampsTell'
<1>1. \A c \in InHand : c \in Copy /\ c.stamp \in Nat
  BY DEF TypeOK, InHand, Writer, Copy
<1>2. clock \in Nat
  BY DEF TypeOK
<1>3. \A c \in InHand : c.stamp < new.stamp
  BY <1>1, <1>2 DEF StampsTell
<1>4. Written \subseteq InHand
  BY DEF Written, InHand
<1>5. \A c \in InHand' : c.stamp <= clock'
  BY <1>1, <1>2, <1>3 DEF StampsTell
<1>6. \A c, d \in InHand' : c.stamp = d.stamp => c = d \/ (c \in InHand /\ d \in InHand)
  BY <1>1, <1>2, <1>3
<1>7. \A c \in Written', d \in InHand' :
        c.stamp = d.stamp => c = d \/ (c \in Written /\ d \in InHand)
  BY <1>1, <1>2, <1>3, <1>4
<1>8. \A c \in Written' : c.stamp = new.stamp => c = new
  BY <1>1, <1>2, <1>3, <1>4
<1> QED BY <1>5, <1>6, <1>7, <1>8 DEF StampsTell

(* A handler's change draws a stamp.                                       *)
LEMMA ChangeStamps ==
  ASSUME TypeOK, StampsTell, NEW copy \in Copy, NEW by, NEW before \in InHand \cup {NoCopy},
         Change(by, copy, before), closing' \subseteq closing,
         UNCHANGED <<store, stray, loading>>
  PROVE  StampsTell'
<1>1. clock \in Nat
  BY DEF TypeOK
<1>2. Touched(copy) \in Copy /\ Touched(copy).stamp = clock + 1
  BY <1>1 DEF Touched, Copy
<1>3. /\ InHand' \subseteq InHand \cup {Touched(copy)}
      /\ Written' \subseteq Written \cup {Touched(copy)}
  BY DEF Change, InHand, Written
<1>4. clock' = clock + 1 /\ cache' = Touched(copy)
  BY DEF Change
<1> QED BY <1>2, <1>3, <1>4, StampsDrawn

(* What is heard next, and what is still to be heard.                      *)
LEMMA Hearing ==
  ASSUME TypeOK, notes # <<>>, notes' = Tail(notes), UNCHANGED store
  PROVE  Announcing => Announcing' \/ (Head(notes).typed /\ Head(notes).stamp = store.stamp)
<1> SUFFICES ASSUME NEW i \in 1 .. Len(notes), notes[i].typed, notes[i].stamp = store.stamp
             PROVE  Announcing' \/ (Head(notes).typed /\ Head(notes).stamp = store.stamp)
  BY DEF Announcing
<1>1. notes \in Seq(Note)
  BY DEF TypeOK
<1>2. CASE i = 1
  BY <1>1, <1>2
<1>3. CASE i # 1
  <2>1. i - 1 \in 1 .. Len(Tail(notes)) /\ Tail(notes)[i - 1] = notes[i]
    BY <1>1, <1>3
  <2> QED BY <2>1 DEF Announcing
<1> QED BY <1>2, <1>3

(* What is put at the end of a queue by two.                               *)
LEMMA TwoAppended ==
  ASSUME NEW S, NEW q \in Seq(S), NEW x \in S, NEW y \in S
  PROVE  /\ Len(q \o <<x, y>>) = Len(q) + 2 /\ Len(q) \in Nat
         /\ (q \o <<x, y>>)[Len(q) + 1] = x
OBVIOUS

(* A save that goes through announces what it saved.                       *)
LEMMA SavedIsAnnounced ==
  ASSUME TypeOK, NEW copy \in Copy, store' = copy, notes' = Announced(copy)
  PROVE  Announcing'
<1> DEFINE s     == copy.stamp
           typed == [typed |-> TRUE, stamp |-> s]
           plain == [typed |-> FALSE, stamp |-> s]
<1>1. s \in Nat
  BY DEF Copy
<1>2. store'.stamp = s /\ notes' = notes \o <<typed, plain>>
  BY DEF Announced
<1>3. notes \in Seq(Note) /\ typed \in Note /\ plain \in Note
  BY <1>1 DEF TypeOK, Note
<1>4. typed.typed /\ typed.stamp = s
  OBVIOUS
<1> HIDE DEF s, typed, plain
<1>5. /\ Len(notes') = Len(notes) + 2 /\ Len(notes) \in Nat
      /\ notes'[Len(notes) + 1] = typed
  BY <1>2, <1>3, TwoAppended
<1> QED BY <1>2, <1>4, <1>5 DEF Announcing

(* Whatever is the stored copy follows it.                                 *)
LEMMA StoreFollows ==
  ASSUME NEW s \in Copy, NEW m \in Nat
  PROVE  LastDue(s.ticks) <= s.ticks + (SaveEvery * m)
<1>1. s.ticks \in Nat /\ SaveEvery \in Nat
  BY ClockAssumption DEF Copy
<1>2. SaveEvery * m \in Nat
  BY <1>1
<1> DEFINE k == SaveEvery * m
<1> HIDE DEF k
<1>3. LastDue(s.ticks) <= s.ticks + k
  <2>1. LastDue(s.ticks) \in Int /\ LastDue(s.ticks) <= s.ticks
    BY <1>1, LastDueMoves
  <2>2. k \in Nat
    BY <1>2 DEF k
  <2> QED BY <1>1, <2>1, <2>2
<1> QED BY <1>3 DEF k

(* A tick: if it was due and its save fails, that is one failure more.     *)
LEMMA TickFollows ==
  ASSUME TypeOK, Follows, NEW awards \in BOOLEAN, Tick(awards)
  PROVE  Follows'
<1> SUFFICES ASSUME ~damaged', ~Announcing'
             PROVE  /\ store'.work \subseteq cache'.work
                    /\ ~ahead' => cache'.work = store'.work
                    /\ LastDue(cache'.ticks) <= store'.ticks + (SaveEvery * Missed')
  BY DEF Follows
<1> DEFINE next == [cache EXCEPT !.ticks = @ + 1]
           t    == cache.ticks
           k    == SaveEvery * unsaved
<1>1. /\ cache \in Copy /\ Idle /\ unsaved \in Nat /\ store \in Copy /\ SaveEvery \in Nat
      /\ writer.by = "nobody" /\ clock \in Nat /\ t \in Nat /\ store.ticks \in Nat
  BY ClockAssumption DEF Tick, Idle, TypeOK, Copy
<1>2. UNCHANGED <<store, notes, damaged, ahead, unsaved>>
  BY DEF Tick, told, past
<1>3. /\ store.work \subseteq cache.work
      /\ ~ahead => cache.work = store.work
      /\ LastDue(t) <= store.ticks + k
  <2>1. ~Announcing
    BY <1>2 DEF Announcing
  <2> QED BY <1>1, <1>2, <2>1, NoCopyAssumption DEF Follows, Missed
<1>4. next \in Copy /\ next.work = cache.work /\ next.ticks = t + 1
  BY <1>1 DEF Copy
<1> HIDE DEF next, t
<1>5. \/ Change("ticker", next, NoCopy)
      \/ ~Due(next) /\ cache' = Touched(next) /\ UNCHANGED writer
  BY DEF Tick, next
<1>6. cache' = Touched(next)
  BY <1>5 DEF Change
<1>7. /\ store'.work \subseteq cache'.work
      /\ ~ahead' => cache'.work = store'.work
      /\ cache'.ticks = t + 1
  BY <1>1, <1>2, <1>3, <1>4, <1>6 DEF Touched, Copy
<1>8. /\ LastDue(t) \in Int /\ t < LastDue(t) + SaveEvery
      /\ LastDue(t + 1) = LastDue(t)
         \/ (LastDue(t + 1) = t + 1 /\ ((t + 1) % Day) % SaveEvery = 0)
  BY <1>1, LastDueMoves
<1>9. k \in Nat /\ SaveEvery * (unsaved + 1) = k + SaveEvery
  BY <1>1
<1> HIDE DEF k
<1>10. LastDue(t + 1) <= store.ticks + (SaveEvery * Missed')
  <2>1. CASE Change("ticker", next, NoCopy)
    <3>1. Missed' = unsaved + 1
      BY <1>2, <2>1 DEF Change, Missed
    <3>2. LastDue(t + 1) <= store.ticks + k + SaveEvery
      BY <1>1, <1>3, <1>8, <1>9
    <3> QED BY <1>1, <1>9, <3>1, <3>2
  <2>2. CASE ~Due(next) /\ UNCHANGED writer
    <3>1. Missed' = unsaved
      BY <1>1, <1>2, <2>2 DEF Missed
    <3>2. LastDue(t + 1) = LastDue(t)
      BY <1>4, <1>8, <2>2 DEF Due
    <3> QED BY <1>3, <3>1, <3>2 DEF k
  <2> QED BY <1>5, <2>1, <2>2
<1> QED BY <1>2, <1>7, <1>10

(* The invariant of following: types, stamps, and that what is cached is   *)
(* the stored copy and some ticks, or will be evicted.                     *)
FollowInv == TypeOK /\ StampsTell /\ Follows

(* A load, a reload, a command, a closing socket.                          *)
LEMMA HandlersFollow ==
  ASSUME FollowInv,
         \/ BeginLoad \/ BeginClose
         \/ \E copy \in loading : FinishLoad(copy)
         \/ \E i \in Item \ Notes : Command(i)
         \/ \E i \in Notes : Refuse(i)
         \/ \E awards \in BOOLEAN : Tick(awards)
         \/ \E base \in {store} \cup loading :
              Reload(base) \/ \E seen \in closing : FinishClose(seen, base)
  PROVE  StampsTell' /\ Follows'
<1> USE DEF told, past
<1>1. /\ store \in Copy /\ cache \in Copy \cup {NoCopy} /\ unsaved \in Nat
      /\ loading \subseteq Copy
      /\ TypeOK /\ StampsTell /\ Follows
      /\ store \in InHand /\ loading \subseteq InHand
  BY NoCopyAssumption DEF FollowInv, TypeOK, InHand
<1>2. ASSUME cache' = store, UNCHANGED <<store, unsaved>> PROVE Follows'
  <2>1. Missed' \in Nat
    BY <1>1, <1>2 DEF Missed
  <2> QED BY <1>1, <1>2, <2>1, StoreFollows DEF Follows
<1>3. CASE BeginLoad \/ BeginClose
  <2>1. /\ InHand' \subseteq InHand /\ Written' \subseteq Written
        /\ clock' = clock /\ CacheFits
    BY <1>1, <1>3 DEF BeginLoad, BeginClose, InHand, Written, CacheFits, Idle
  <2>2. Follows'
    BY <1>1, <1>3 DEF BeginLoad, BeginClose, Follows, Announcing, Missed
  <2> QED BY <1>1, <2>1, <2>2, StampsStay
<1>4. ASSUME NEW copy \in loading, FinishLoad(copy) PROVE StampsTell' /\ Follows'
  <2>1. /\ InHand' \subseteq InHand /\ Written' \subseteq Written /\ copy \in Written
        /\ clock' = clock
    BY <1>1, <1>4, NoCopyAssumption DEF FinishLoad, Cached, InHand, Written
  <2>5. CacheFits
    BY <1>4, <2>1 DEF FinishLoad, Cached, CacheFits, Idle
  <2> SUFFICES Follows'
    BY <1>1, <2>1, <2>5, StampsStay
  <2>2. CASE Cached(copy) /\ copy = store
    BY <1>2, <1>4, <2>2 DEF FinishLoad, Cached
  <2>3. CASE Cached(copy) /\ copy # store
    BY <2>3 DEF Cached, Follows
  <2>4. CASE UNCHANGED <<cache, undone, damaged, ahead>>
    BY <1>1, <1>4, <2>4 DEF FinishLoad, Follows, Announcing, Missed
  <2> QED BY <1>4, <2>2, <2>3, <2>4 DEF FinishLoad
<1>5. ASSUME NEW base \in {store} \cup loading, NEW by \in {"reload", "close"},
             NEW before \in InHand, damaged' = (base # store),
             Change(by, base, before) \/ (cache' = base /\ UNCHANGED <<writer, clock>>),
             closing' \subseteq closing, UNCHANGED <<loading, store, stray, told, unsaved>>
      PROVE  StampsTell' /\ Follows'
  <2>1. base \in Copy /\ base \in InHand /\ base \in Written
    BY <1>1, NoCopyAssumption DEF Written
  <2>2. CASE Change(by, base, before)
    <3>1. /\ cache'.work = base.work /\ cache'.ticks = base.ticks
          /\ writer'.by = by
      BY <2>1, <2>2 DEF Change, Touched, Copy
    <3>2. Missed' \in Nat
      BY <1>1, <1>5, <3>1 DEF Missed
    <3>3. Follows'
      BY <1>1, <1>5, <3>1, <3>2, StoreFollows DEF Follows
    <3> QED BY <1>1, <1>5, <2>1, <2>2, <3>3, ChangeStamps
  <2>3. CASE cache' = base /\ UNCHANGED <<writer, clock>>
    <3>1. InHand' \subseteq InHand /\ Written' \subseteq Written /\ CacheFits
      BY <1>5, <2>1, <2>3 DEF InHand, Written, CacheFits
    <3>2. Follows'
      BY <1>2, <1>5, <2>3 DEF Follows
    <3> QED BY <1>1, <2>3, <3>1, <3>2, StampsStay
  <2> QED BY <1>5, <2>2, <2>3
<1>6. ASSUME NEW i \in Item \ Notes, Command(i) PROVE StampsTell' /\ Follows'
  <2> DEFINE copy == [cache EXCEPT !.work = @ \cup {i}]
  <2>1. cache \in Copy /\ copy \in Copy /\ cache \in InHand /\ Idle
    BY <1>1, <1>6, NoCopyAssumption DEF Command, Copy, InHand
  <2>2. copy.work = cache.work \cup {i} /\ copy.ticks = cache.ticks
    BY <2>1 DEF Copy
  <2>3. Change("command", copy, cache)
    BY <1>6 DEF Command
  <2> HIDE DEF copy
  <2>4. /\ cache'.work = cache.work \cup {i} /\ cache'.ticks = cache.ticks
        /\ writer'.by = "command" /\ writer.by = "nobody"
    BY <2>1, <2>2, <2>3 DEF Change, Touched, Copy, Idle
  <2>5. Missed' = Missed /\ (Announcing' <=> Announcing) /\ damaged' = damaged /\ store' = store
    BY <1>6, <2>4 DEF Command, Missed, Announcing
  <2>6. Follows'
    BY <1>1, <2>1, <2>4, <2>5, NoCopyAssumption DEF Follows
  <2> QED BY <1>1, <1>6, <2>1, <2>3, <2>6, ChangeStamps DEF Command
<1>7. ASSUME NEW awards \in BOOLEAN, Tick(awards) PROVE StampsTell' /\ Follows'
  <2> DEFINE next == [cache EXCEPT !.ticks = @ + 1]
  <2>1. cache \in Copy /\ next \in Copy
    BY <1>1, <1>7 DEF Tick, Copy
  <2>2. CASE Change("ticker", next, NoCopy)
    <3> HIDE DEF next
    <3> QED BY <1>1, <1>7, <2>1, <2>2, ChangeStamps, TickFollows DEF Tick
  <2>3. CASE clock' = clock + 1 /\ cache' = Touched(next) /\ UNCHANGED writer
    <3> HIDE DEF next
    <3>1. clock \in Nat
      BY <1>1 DEF TypeOK
    <3>2. Touched(next) \in Copy /\ Touched(next).stamp = clock + 1
      BY <2>1, <3>1 DEF Touched, Copy
    <3>3. InHand' \subseteq InHand \cup {Touched(next)} /\ Written' \subseteq Written
      BY <1>7, <2>3 DEF Tick, InHand, Written
    <3> QED BY <1>1, <1>7, <2>3, <3>2, <3>3, StampsDrawn, TickFollows
  <2> QED BY <1>7, <2>2, <2>3 DEF Tick
<1>8. ASSUME NEW base \in {store} \cup loading, Reload(base) PROVE StampsTell' /\ Follows'
  <2>1. base \in InHand /\ damaged' = (base # store)
    BY <1>1, <1>8 DEF Reload, ReloadThenChange
  <2>2. Change("reload", base, base) \/ (cache' = base /\ UNCHANGED <<writer, clock>>)
    BY <1>8 DEF Reload, ReloadThenChange
  <2>3. closing' \subseteq closing /\ UNCHANGED <<loading, store, stray, told, unsaved>>
    BY <1>8 DEF Reload
  <2> QED BY <1>5, <2>1, <2>2, <2>3
<1>9. ASSUME NEW base \in {store} \cup loading, NEW seen \in closing, FinishClose(seen, base)
      PROVE  StampsTell' /\ Follows'
  <2> DEFINE before == IF seen = NoCopy THEN base ELSE seen
  <2>1. before \in InHand /\ damaged' = (base # store)
    BY <1>1, <1>9 DEF FinishClose, ReloadThenChange, InHand
  <2>2. Change("close", base, before) \/ (cache' = base /\ UNCHANGED <<writer, clock>>)
    BY <1>9 DEF FinishClose, ReloadThenChange
  <2>3. closing' \subseteq closing /\ UNCHANGED <<loading, store, stray, told, unsaved>>
    BY <1>9 DEF FinishClose
  <2> HIDE DEF before
  <2> QED BY <1>5, <2>1, <2>2, <2>3
<1>10. ASSUME NEW i \in Notes, Refuse(i) PROVE StampsTell' /\ Follows'
  <2>1. /\ cache \in Copy /\ cache \in InHand /\ UNCHANGED <<store, writer, clock>>
        /\ cache' = [cache EXCEPT !.work = @ \cup {i}] /\ ahead' /\ damaged' = damaged
    BY <1>1, <1>10 DEF Refuse, InHand
  <2>2. cache'.work = cache.work \cup {i} /\ UNCHANGED <<cache.ticks, cache.stamp>>
    BY <2>1 DEF Copy
  <2>3. InHand' \subseteq InHand \cup {cache'} /\ Written' = Written
    BY <1>10 DEF Refuse, InHand, Written
  <2>4. \A d \in InHand' : \E e \in InHand :
          d.stamp = e.stamp /\ d.ticks = e.ticks /\ e.work \subseteq d.work
    BY <2>1, <2>2, <2>3
  <2>5. Idle' /\ ahead'
    BY <1>10, <2>1 DEF Refuse, Idle
  <2>6. \A c \in InHand' : c.stamp <= clock'
    BY <1>1, <2>1, <2>4 DEF StampsTell
  <2>7. \A c, d \in InHand' : c.stamp = d.stamp => c.ticks = d.ticks
    BY <1>1, <2>4 DEF StampsTell
  <2>8. \A c \in Written', d \in InHand' : c.stamp = d.stamp => c.work \subseteq d.work
    <3> SUFFICES ASSUME NEW c \in Written, NEW d \in InHand', c.stamp = d.stamp
                 PROVE  c.work \subseteq d.work
      BY <2>3
    <3>1. PICK e \in InHand : d.stamp = e.stamp /\ e.work \subseteq d.work
      BY <2>4
    <3> QED BY <1>1, <3>1 DEF StampsTell
  <2>9. StampsTell'
    BY <2>5, <2>6, <2>7, <2>8 DEF StampsTell
  <2>10. Missed' = Missed /\ (Announcing' <=> Announcing)
    BY <1>10, <2>1 DEF Refuse, Missed, Announcing
  <2>11. Follows'
    BY <1>1, <2>1, <2>2, <2>10, NoCopyAssumption DEF Follows
  <2> QED BY <2>9, <2>11
<1> QED BY <1>3, <1>4, <1>6, <1>7, <1>8, <1>9, <1>10

(* A save that goes through is announced; one of the ticker that does not  *)
(* is counted, any other leaves damage; a hang-up changes nothing that is  *)
(* cached or stored; a restart leaves nothing cached.                      *)
LEMMA SavesFollow ==
  ASSUME FollowInv, Commit \/ FailSave \/ HangUp \/ Land \/ Restart
  PROVE  StampsTell' /\ Follows'
<1>1. /\ writer \in Writer /\ (Idle <=> writer.copy = NoCopy) /\ TypeOK
      /\ StampsTell /\ Follows
      /\ writer.by \in {"command", "reload", "close"} => writer.before # NoCopy
      /\ stray \in Copy \cup {NoCopy}
  BY DEF FollowInv, TypeOK
<1>2. Nobody.copy = NoCopy /\ Nobody.before = NoCopy /\ Nobody.by = "nobody"
  BY DEF Nobody
<1>3. InHand' \subseteq InHand /\ Written' \subseteq Written /\ clock' = clock /\ CacheFits
  <2>1. CASE Commit
    <3>1. ~Idle /\ UNCHANGED <<cache, damaged>>
      BY <2>1 DEF Commit, Committed
    <3>2. InHand' \subseteq InHand /\ Written' \subseteq Written /\ clock' = clock
      BY <1>1, <1>2, <2>1 DEF Commit, Committed, InHand, Written
    <3> QED BY <3>1, <3>2 DEF CacheFits
  <2>2. CASE FailSave
    <3>1. ~Idle /\ (UNCHANGED <<cache, damaged>> \/ damaged')
      BY <2>2 DEF FailSave
    <3>2. InHand' \subseteq InHand /\ Written' \subseteq Written /\ clock' = clock
      BY <1>1, <1>2, <2>2 DEF FailSave, Committed, InHand, Written
    <3> QED BY <3>1, <3>2 DEF CacheFits
  <2>3. CASE Restart
    BY <1>1, <1>2, <2>3 DEF Restart, InHand, Written, CacheFits
  <2>4. CASE HangUp
    <3>1. Idle' /\ ahead'
      BY <1>2, <2>4 DEF HangUp, Idle
    <3>2. InHand' \subseteq InHand /\ Written' \subseteq Written /\ clock' = clock
      BY <1>1, <1>2, <2>4 DEF HangUp, InHand, Written
    <3> QED BY <3>1, <3>2 DEF CacheFits
  <2>5. CASE Land
    BY <1>1, <1>2, <2>5 DEF Land, past, InHand, Written, CacheFits, Idle
  <2> QED BY <2>1, <2>2, <2>3, <2>4, <2>5
<1> SUFFICES Follows'
  BY <1>1, <1>3, StampsStay
<1>4. CASE Committed
  <2>1. writer.copy \in Copy
    BY <1>1, <1>4 DEF Committed, Writer
  <2> QED BY <1>1, <1>4, <2>1, SavedIsAnnounced DEF Committed, Follows
<1>5. CASE FailSave /\ UNCHANGED <<store, notes>>
  <2>1. CASE writer.by = "ticker"
    <3>1. Missed' = Missed /\ UNCHANGED <<cache, damaged>>
      BY <1>2, <1>5, <2>1 DEF FailSave, Missed
    <3>2. Announcing' <=> Announcing
      BY <1>5 DEF Announcing
    <3>3. UNCHANGED <<store, ahead>>
      BY <1>5 DEF FailSave
    <3> QED BY <1>1, <2>1, <3>1, <3>2, <3>3 DEF Follows
  <2>2. CASE writer.by # "ticker"
    BY <1>5, <2>2 DEF FailSave, Follows
  <2> QED BY <2>1, <2>2
<1>6. CASE Restart
  BY <1>6 DEF Restart, Follows
<1>7. CASE HangUp
  <2>1. Missed' = Missed /\ (Announcing' <=> Announcing)
    BY <1>2, <1>7 DEF HangUp, told, Missed, Announcing
  <2>2. UNCHANGED <<store, cache, damaged>> /\ ahead'
    BY <1>7 DEF HangUp
  <2> QED BY <1>1, <2>1, <2>2 DEF Follows
<1>8. CASE Land
  <2>1. stray \in Copy /\ store' = stray /\ notes' = Announced(stray)
    BY <1>1, <1>8 DEF Land
  <2> QED BY <1>1, <2>1, SavedIsAnnounced DEF Follows
<1> QED BY <1>4, <1>5, <1>6, <1>7, <1>8 DEF Commit, FailSave

(* The listener keeps what was announced, if it still is what is stored,   *)
(* and evicts anything else.                                               *)
LEMMA ListenerFollows ==
  ASSUME FollowInv, HearUpdate \/ HearLegacyUpdate \/ LoseListener
  PROVE  StampsTell' /\ Follows'
<1>1. /\ store \in Copy /\ cache \in Copy \cup {NoCopy} /\ unsaved \in Nat
      /\ TypeOK /\ StampsTell /\ Follows
      /\ store \in InHand
  BY NoCopyAssumption DEF FollowInv, TypeOK, InHand
<1>2. InHand' \subseteq InHand /\ Written' \subseteq Written /\ clock' = clock /\ CacheFits
  <2>1. InHand' \subseteq InHand /\ Written' \subseteq Written /\ clock' = clock
    BY DEF HearUpdate, HearLegacyUpdate, LoseListener, copies, Evict, InHand, Written
  <2>2. /\ cache' = NoCopy \/ cache' = cache
        /\ damaged => damaged'
        /\ UNCHANGED <<writer, ahead>>
    BY DEF HearUpdate, HearLegacyUpdate, LoseListener, copies, past, Evict
  <2> QED BY <2>1, <2>2 DEF CacheFits, Idle
<1>3. /\ UNCHANGED <<writer, unsaved, store, ahead>> /\ Missed' = Missed
      /\ cache' = NoCopy \/ cache' = cache
  BY DEF HearUpdate, HearLegacyUpdate, LoseListener, copies, past, Evict, Missed
<1>4. CASE LoseListener
  BY <1>1, <1>2, <1>4, StampsStay DEF LoseListener, Follows
<1>5. CASE HearUpdate /\ cache' # NoCopy
  <2>1. cache' = cache /\ Holds(Head(notes).stamp) /\ damaged' = damaged
    BY <1>5 DEF HearUpdate, Evict, past
  <2>2. CASE Announcing /\ ~Announcing'
    <3>1. cache.stamp = store.stamp /\ cache \in InHand
      BY <1>1, <1>5, <2>1, <2>2, Hearing DEF HearUpdate, Holds, InHand
    <3>2. /\ cache.ticks = store.ticks /\ store.work \subseteq cache.work
          /\ ~damaged /\ ~ahead => store.work = cache.work
      BY <1>1, <3>1, NoCopyAssumption DEF StampsTell, Written, InHand
    <3>3. Missed \in Nat
      BY <1>1 DEF Missed
    <3> QED BY <1>1, <1>2, <1>3, <2>1, <3>2, <3>3, StampsStay, StoreFollows DEF Follows
  <2>3. CASE ~Announcing \/ Announcing'
    BY <1>1, <1>2, <1>3, <2>1, <2>3, StampsStay DEF Follows
  <2> QED BY <2>2, <2>3
<1>6. CASE HearLegacyUpdate /\ cache' # NoCopy
  <2>1. cache' = cache /\ damaged' = damaged
    BY <1>6 DEF HearLegacyUpdate, Evict, past
  <2>2. Announcing => Announcing'
    BY <1>1, <1>6, Hearing DEF HearLegacyUpdate
  <2> QED BY <1>1, <1>2, <1>3, <2>1, <2>2, StampsStay DEF Follows
<1>7. CASE cache' = NoCopy
  BY <1>1, <1>2, <1>7, StampsStay DEF Follows
<1> QED BY <1>4, <1>5, <1>6, <1>7

(* Once the listener has heard everything and no save is under way, the    *)
(* cached copy has the stored work, and more only after a client hung up,  *)
(* the judge lost its lease or a handover was refused, and no more ticks   *)
(* than one saving interval for each save of the ticker that failed and    *)
(* one for the next: for any number of commands, sockets, loads, hang-ups, *)
(* lost notes and restarts, a day of any length and any interval.          *)
THEOREM CacheFollowsStore == Spec => []CacheCatchesUp
<1>1. Init => FollowInv
  <2> SUFFICES ASSUME Init PROVE FollowInv
    OBVIOUS
  <2>1. TypeOK
    BY InitIsKept DEF IInv
  <2>2. Fresh.stamp = 0 /\ Fresh \in Copy
    BY DEF Fresh, Copy
  <2>3. InHand \subseteq {Fresh} /\ Written \subseteq {Fresh} /\ cache \in {Fresh, NoCopy}
    BY DEF Init, InHand, Written, Nobody
  <2>4. StampsTell
    BY <2>2, <2>3 DEF Init, StampsTell
  <2>5. Missed \in Nat
    BY DEF Init, Missed
  <2>6. Follows
    BY <2>2, <2>5, StoreFollows DEF Init, Follows
  <2> QED BY <2>1, <2>4, <2>6 DEF FollowInv
<1>2. IInv /\ FollowInv /\ [Next]_vars => FollowInv'
  <2> SUFFICES ASSUME IInv, FollowInv, [Next]_vars PROVE FollowInv'
    OBVIOUS
  <2>1. TypeOK'
    BY NextKeepsInvariant DEF IInv
  <2>2. CASE UNCHANGED vars
    <3>1. StampsTell'
      BY <2>2 DEF vars, copies, past, FollowInv, StampsTell, InHand, Written, Idle
    <3>2. Follows'
      BY <2>2 DEF vars, copies, told, past, FollowInv, Follows, Announcing, Missed
    <3> QED BY <2>1, <3>1, <3>2 DEF FollowInv
  <2>3. CASE Next
    BY <2>1, <2>3, HandlersFollow, SavesFollow, ListenerFollows DEF Next, FollowInv
  <2> QED BY <2>2, <2>3
<1>3. FollowInv => CacheCatchesUp
  <2> SUFFICES ASSUME FollowInv, Settled
               PROVE  /\ store.work \subseteq cache.work
                      /\ cache.work # store.work => ahead
                      /\ cache.ticks < store.ticks + SaveEvery * (1 + unsaved)
    BY DEF CacheCatchesUp
  <2> DEFINE k == SaveEvery * unsaved
  <2>1. /\ cache \in Copy /\ store \in Copy /\ unsaved \in Nat /\ SaveEvery \in Nat
        /\ cache.ticks \in Nat /\ store.ticks \in Nat
    BY ClockAssumption DEF FollowInv, TypeOK, Settled, Copy
  <2>2. ~Announcing
    BY DEF Settled, Announcing
  <2>3. /\ store.work \subseteq cache.work
        /\ cache.work # store.work => ahead
        /\ LastDue(cache.ticks) <= store.ticks + k
    BY <2>2 DEF FollowInv, Follows, Settled, Missed, Idle
  <2>4. k \in Nat /\ SaveEvery * (1 + unsaved) = k + SaveEvery
    BY <2>1
  <2>5. LastDue(cache.ticks) \in Int /\ cache.ticks < LastDue(cache.ticks) + SaveEvery
    BY <2>1, LastDueMoves
  <2> HIDE DEF k
  <2> QED BY <2>1, <2>3, <2>4, <2>5
<1> QED BY <1>1, <1>2, <1>3, CopiesKept, PTL DEF Spec
=============================================================================
