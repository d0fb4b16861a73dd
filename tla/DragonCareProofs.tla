-------------------------- MODULE DragonCareProofs ---------------------------
(***************************************************************************)
(* That the counters of a dragon add up, and that no dip of its happiness  *)
(* goes unseen, for any clock, thresholds and bounds.  The counters need   *)
(* nothing but themselves.  The dip needs to know what the cooldown says:  *)
(* while it is 2 the deepest happiness may be the present one, which no    *)
(* tick has looked at yet; otherwise a tick has.                           *)
(***************************************************************************)
EXTENDS DragonCare, TLAPS

Fields == {"active", "rate", "hunger", "energy", "happiness", "foodTries", "playTries",
           "cooldown", "shield", "ticks2", "lowest", "wrongFood", "wrongPlay", "wrongSleep",
           "rightSleep", "violations", "total", "right", "stacks", "decay", "peak",
           "foundFood", "foundPlay"}

(* What a proof needs of the types.                                        *)
HasFields(d) == DOMAIN d = Fields
Numbers(d) ==
  /\ d.foodTries \in Nat /\ d.playTries \in Nat /\ d.wrongFood \in Nat /\ d.wrongPlay \in Nat
  /\ d.wrongSleep \in Nat /\ d.rightSleep \in Nat /\ d.total \in Nat /\ d.right \in Nat
  /\ d.stacks \in Nat /\ d.peak \in Nat /\ d.ticks2 \in Nat

(* The counters of one dragon, as in CountsAddUp.                          *)
Sums(d) ==
  /\ d.total = d.right + d.wrongFood + d.wrongPlay + d.wrongSleep
  /\ d.foodTries + d.playTries + d.rightSleep + d.wrongSleep <= d.total
  /\ d.stacks <= d.peak
  /\ d.peak <= d.wrongFood + d.wrongPlay + d.wrongSleep
  /\ d.rightSleep + (IF d.foundFood THEN 1 ELSE 0) + (IF d.foundPlay THEN 1 ELSE 0) <= d.right

Sound(d) == HasFields(d) /\ Numbers(d) /\ Sums(d)

CountsInv == Sound(dragon) /\ ticks \in Nat /\ dragon.ticks2 <= ticks

-----------------------------------------------------------------------------
(* A dragon at the start of a care phase has counted nothing.              *)
LEMMA FreshSound ==
  ASSUME NEW a, NEW r
  PROVE  Sound(Fresh(a, r)) /\ Fresh(a, r).ticks2 = 0
BY DEF Fresh, Sound, HasFields, Numbers, Sums, Fields

(* A right meal is counted once, and so is a wrong one.                    *)
LEMMA FeedSound ==
  ASSUME Sound(dragon), NEW f \in BOOLEAN, Feed(f)
  PROVE  Sound(dragon') /\ dragon'.ticks2 = dragon.ticks2
<1> DEFINE fed  == [Applied(dragon) EXCEPT !.shield = 0, !.foodTries = @ + 1]
           good == [Right(fed, 20) EXCEPT !.foundFood = TRUE, !.hunger = Up(@, 40)]
           bad  == Hurt([fed EXCEPT !.wrongFood = @ + 1, !.hunger = Up(@, 5)],
                        dragon.wrongFood + 1)
<1>1. HasFields(good) /\ HasFields(bad)
  BY DEF Sound, HasFields, Applied, Right, Hurt, Stacked
<1>2. Numbers(good) /\ good.ticks2 = dragon.ticks2
  BY DEF Sound, HasFields, Numbers, Fields, Applied, Right, Down
<1>3. Sums(good)
  BY DEF Sound, HasFields, Numbers, Fields, Sums, Applied, Right, Down
<1>4. Numbers(bad) /\ bad.ticks2 = dragon.ticks2
  BY DEF Sound, HasFields, Numbers, Fields, Applied, Hurt, Stacked, AtLeast
<1>5. Sums(bad)
  BY DEF Sound, HasFields, Numbers, Fields, Sums, Applied, Hurt, Stacked, AtLeast
<1>6. dragon' = good \/ dragon' = bad
  BY DEF Feed, Became
<1> QED BY <1>1, <1>2, <1>3, <1>4, <1>5, <1>6 DEF Sound

(* So is a right game, or a wrong one.                                     *)
LEMMA PlaySound ==
  ASSUME Sound(dragon), NEW f \in BOOLEAN, Play(f)
  PROVE  Sound(dragon') /\ dragon'.ticks2 = dragon.ticks2
<1> DEFINE played == [Applied(dragon) EXCEPT !.shield = 0, !.playTries = @ + 1]
           good == [Right(played, 30) EXCEPT !.foundPlay = TRUE, !.energy = Down(@, 20)]
           bad  == Hurt([played EXCEPT !.wrongPlay = @ + 1, !.energy = Down(@, 15)],
                        dragon.wrongPlay + 1)
<1>1. HasFields(good) /\ HasFields(bad)
  BY DEF Sound, HasFields, Applied, Right, Hurt, Stacked
<1>2. Numbers(good) /\ good.ticks2 = dragon.ticks2
  BY DEF Sound, HasFields, Numbers, Fields, Applied, Right, Down
<1>3. Sums(good)
  BY DEF Sound, HasFields, Numbers, Fields, Sums, Applied, Right, Down
<1>4. Numbers(bad) /\ bad.ticks2 = dragon.ticks2
  BY DEF Sound, HasFields, Numbers, Fields, Applied, Hurt, Stacked, AtLeast
<1>5. Sums(bad)
  BY DEF Sound, HasFields, Numbers, Fields, Sums, Applied, Hurt, Stacked, AtLeast
<1>6. dragon' = good \/ dragon' = bad
  BY DEF Play, Became
<1> QED BY <1>1, <1>2, <1>3, <1>4, <1>5, <1>6 DEF Sound

(* And a rest, at the right time or the wrong one.                         *)
LEMMA SleepSound ==
  ASSUME Sound(dragon), Sleep
  PROVE  Sound(dragon') /\ dragon'.ticks2 = dragon.ticks2
<1> DEFINE slept == [Applied(dragon) EXCEPT !.energy = Up(@, 50), !.shield = 1]
           good  == [Right(slept, 15) EXCEPT !.rightSleep = @ + 1]
           bad   == [Stacked(slept) EXCEPT !.wrongSleep = @ + 1]
<1>1. HasFields(good) /\ HasFields(bad)
  BY DEF Sound, HasFields, Applied, Right, Stacked
<1>2. Numbers(good) /\ good.ticks2 = dragon.ticks2
  BY DEF Sound, HasFields, Numbers, Fields, Applied, Right, Down
<1>3. Sums(good)
  BY DEF Sound, HasFields, Numbers, Fields, Sums, Applied, Right, Down
<1>4. Numbers(bad) /\ bad.ticks2 = dragon.ticks2
  BY DEF Sound, HasFields, Numbers, Fields, Applied, Stacked, AtLeast
<1>5. Sums(bad)
  BY DEF Sound, HasFields, Numbers, Fields, Sums, Applied, Stacked, AtLeast
<1>6. dragon' = good \/ dragon' = bad
  BY DEF Sleep, Became
<1> QED BY <1>1, <1>2, <1>3, <1>4, <1>5, <1>6 DEF Sound

(* A tick gives tries and stacks up, and adds to none of the counters.     *)
LEMMA TickSound ==
  ASSUME Sound(dragon), AdvanceTick
  PROVE  /\ Sound(dragon')
         /\ dragon'.ticks2 = dragon.ticks2 \/ dragon'.ticks2 = dragon.ticks2 + 1
<1> DEFINE t  == (time + 1) % DayLength
           d1 == NewTries(dragon, t)
           d2 == Decayed(d1, t)
           d3 == Forgiven(d2)
           d4 == Watched(d3)
<1>1. Sound(d1) /\ d1.ticks2 = dragon.ticks2
  BY DEF Sound, HasFields, Numbers, Fields, Sums, NewTries
<1>2. Sound(d2) /\ d2.ticks2 = d1.ticks2
  <2> HIDE DEF d1
  <2> QED BY <1>1 DEF Sound, HasFields, Numbers, Fields, Sums, Decayed
<1>3. Sound(d3) /\ d3.ticks2 = d2.ticks2
  <2> HIDE DEF d2
  <2>1. \/ d3 = [d2 EXCEPT !.decay = 0] \/ d3 = [d2 EXCEPT !.decay = @ + 1]
        \/ d2.stacks > 0 /\ d3 = [d2 EXCEPT !.stacks = @ - 1, !.decay = 0]
    BY DEF Forgiven
  <2> HIDE DEF d3
  <2>2. ASSUME NEW n, d3 = [d2 EXCEPT !.decay = n] PROVE Sound(d3) /\ d3.ticks2 = d2.ticks2
    BY <1>2, <2>2 DEF Sound, HasFields, Numbers, Fields, Sums
  <2>3. ASSUME d2.stacks > 0, d3 = [d2 EXCEPT !.stacks = @ - 1, !.decay = 0]
        PROVE  Sound(d3) /\ d3.ticks2 = d2.ticks2
    <3>1. HasFields(d3)
      BY <1>2, <2>3 DEF Sound, HasFields
    <3>2. Numbers(d3) /\ d3.ticks2 = d2.ticks2
      BY <1>2, <2>3 DEF Sound, HasFields, Numbers, Fields
    <3>3. Sums(d3)
      BY <1>2, <2>3 DEF Sound, HasFields, Numbers, Fields, Sums
    <3> QED BY <3>1, <3>2, <3>3 DEF Sound
  <2> QED BY <2>1, <2>2, <2>3
<1>4. Sound(d4) /\ (d4.ticks2 = d3.ticks2 \/ d4.ticks2 = d3.ticks2 + 1)
  <2> HIDE DEF d3
  <2> QED BY <1>3 DEF Sound, HasFields, Numbers, Fields, Sums, Watched
<1>5. dragon' = d4 \/ dragon' = dragon
  BY DEF AdvanceTick
<1> QED
  <2> HIDE DEF d1, d2, d3, d4
  <2> QED BY <1>1, <1>2, <1>3, <1>4, <1>5

(* Every step keeps the counters sound.                                    *)
LEMMA CountsKept == ASSUME CountsInv, Next PROVE CountsInv'
<1> USE DEF CountsInv
<1>1. ASSUME NEW f \in BOOLEAN, Feed(f) \/ Play(f) PROVE CountsInv'
  <2>1. ticks' = ticks
    BY <1>1 DEF Feed, Play, Became
  <2> QED BY <1>1, <2>1, FeedSound, PlaySound
<1>2. CASE Sleep
  <2>1. ticks' = ticks
    BY <1>2 DEF Sleep, Became
  <2> QED BY <1>2, <2>1, SleepSound
<1>3. CASE Impatient
  BY <1>3 DEF Impatient, Became, Sound, HasFields, Numbers, Fields, Sums
<1>4. CASE AdvanceTick
  <2>1. ticks' = ticks + 1
    BY <1>4 DEF AdvanceTick
  <2> QED BY <1>4, <2>1, TickSound DEF Sound, Numbers
<1>5. ASSUME NEW p \in Player, EnterPhase2(p) PROVE CountsInv'
  BY <1>5, FreshSound DEF EnterPhase2, StatsReset
<1>6. CASE Restart
  BY <1>6, FreshSound DEF Restart, BeginPhase1
<1>7. CASE UNCHANGED <<dragon, ticks>>
  BY <1>7
<1>8. ASSUME NEW p \in Player, Connect(p) \/ Disconnect(p) PROVE UNCHANGED <<dragon, ticks>>
  BY <1>8 DEF Connect, Disconnect
<1>9. StartHandover \/ EndGame \/ JudgeDelivers \/ AdvanceOverduePhase \/ StartVoting
      => UNCHANGED <<dragon, ticks>>
  BY DEF StartHandover, EndGame, JudgeDelivers, AdvanceOverduePhase, StartVoting, Leave,
         VoteAfterJudge
<1> QED BY <1>1, <1>2, <1>3, <1>4, <1>5, <1>6, <1>7, <1>8, <1>9 DEF Next

(* Whatever actions, ticks and phases follow one another, each action is   *)
(* counted once, stacks come from wrong ones, finds from right ones.       *)
THEOREM CountersHold == Spec => []CountsAddUp
<1>1. Init => CountsInv
  BY FreshSound DEF Init, CountsInv
<1>2. CountsInv /\ [Next]_vars => CountsInv'
  <2>1. ASSUME CountsInv, UNCHANGED vars PROVE CountsInv'
    BY <2>1 DEF vars, CountsInv
  <2> QED BY <2>1, CountsKept
<1>3. CountsInv => CountsAddUp
  BY DEF CountsInv, CountsAddUp, Sound, Sums
<1> QED BY <1>1, <1>2, <1>3, PTL DEF Spec

-----------------------------------------------------------------------------
(* What a proof about happiness needs of the types.                        *)
Mood(d) ==
  /\ HasFields(d)
  /\ d.happiness \in Nat /\ d.lowest \in Nat /\ d.cooldown \in Nat /\ d.stacks \in Nat

(* What the lowest happiness, as ticks have seen it, has to do with the    *)
(* deepest there was.                                                      *)
DipsSeen ==
  /\ dragon.cooldown > 0 => deepest <= dragon.happiness
  /\ phase = "Phase2" =>
       /\ dragon.cooldown < 2 => dragon.lowest = deepest
       /\ dragon.cooldown >= 2 => deepest = AtMost(dragon.lowest, dragon.happiness)
       /\ dragon.lowest = 0 => "rock_bottom" \in awards[owner]

ComebacksLow ==
  /\ phase \in {"Phase1", "Handover", "Phase2"} =>
       \A p \in Player : "comeback_kid" \notin awards[p]
  /\ phase \in {"Judge", "Voting"} /\ "comeback_kid" \in awards[owner] =>
       deepest <= Threshold["low"]

DipTypes == /\ Mood(dragon) /\ deepest \in Nat /\ owner \in Player /\ DOMAIN awards = Player
            /\ phase \in {"Phase1", "Handover", "Phase2", "Judge", "Voting"}
DipInv == DipTypes /\ DipsSeen /\ ComebacksLow

(* What an action that is applied leaves of the dragon's mood.             *)
Done(d) == Mood(d) /\ d.cooldown = 2 /\ d.lowest = dragon.lowest

(* What a wrong meal or game does to happiness and nothing else.           *)
LEMMA HurtMood ==
  ASSUME NEW d, Mood(d), NEW wrongs \in Nat
  PROVE  /\ Mood(Hurt(d, wrongs + 1))
         /\ Hurt(d, wrongs + 1).cooldown = d.cooldown /\ Hurt(d, wrongs + 1).lowest = d.lowest
<1> DEFINE n == 12 + 3 * AtMost(wrongs + 1 - 1, 3)
           h == Hurt(d, wrongs + 1)
<1>1. /\ HasFields(h) /\ h.cooldown = d.cooldown /\ h.lowest = d.lowest
      /\ h.stacks = d.stacks + 1
  BY DEF Mood, HasFields, Fields, Hurt, Stacked
<1>2. h.happiness = Down(d.happiness, n)
  BY DEF Mood, HasFields, Fields, Hurt, Stacked
<1>3. n \in Nat
  BY DEF AtMost
<1> HIDE DEF h, n
<1>4. Mood(h)
  BY <1>1, <1>2, <1>3 DEF Mood, Down
<1> QED BY <1>1, <1>4 DEF h

(* Feeding, right or wrong, is done once it is applied.                    *)
LEMMA FeedDone ==
  ASSUME Mood(dragon), Numbers(dragon), NEW f \in BOOLEAN, Feed(f)
  PROVE  Done(dragon')
<1> DEFINE done  == [Applied(dragon) EXCEPT !.shield = 0, !.foodTries = @ + 1]
           good  == [Right(done, 20) EXCEPT !.foundFood = TRUE, !.hunger = Up(@, 40)]
           spoilt == [done EXCEPT !.wrongFood = @ + 1, !.hunger = Up(@, 5)]
           bad   == Hurt(spoilt, dragon.wrongFood + 1)
<1>1. /\ HasFields(good) /\ good.cooldown = 2 /\ good.lowest = dragon.lowest
      /\ good.happiness = Up(dragon.happiness, 20) /\ good.stacks = Down(dragon.stacks, 1)
  BY DEF Mood, HasFields, Fields, Applied, Right
<1>2. /\ HasFields(spoilt) /\ spoilt.cooldown = 2 /\ spoilt.lowest = dragon.lowest
      /\ spoilt.happiness = dragon.happiness /\ spoilt.stacks = dragon.stacks
  BY DEF Mood, HasFields, Fields, Applied
<1>3. dragon' = good \/ dragon' = bad
  BY DEF Feed, Became
<1> HIDE DEF good, spoilt
<1>4. Done(good)
  BY <1>1 DEF Done, Mood, Up, Down
<1>5. Done(bad)
  BY <1>2, HurtMood DEF Done, Mood, Numbers
<1> QED BY <1>3, <1>4, <1>5

(* So is playing.                                                          *)
LEMMA PlayDone ==
  ASSUME Mood(dragon), Numbers(dragon), NEW f \in BOOLEAN, Play(f)
  PROVE  Done(dragon')
<1> DEFINE done  == [Applied(dragon) EXCEPT !.shield = 0, !.playTries = @ + 1]
           good  == [Right(done, 30) EXCEPT !.foundPlay = TRUE, !.energy = Down(@, 20)]
           spoilt == [done EXCEPT !.wrongPlay = @ + 1, !.energy = Down(@, 15)]
           bad   == Hurt(spoilt, dragon.wrongPlay + 1)
<1>1. /\ HasFields(good) /\ good.cooldown = 2 /\ good.lowest = dragon.lowest
      /\ good.happiness = Up(dragon.happiness, 30) /\ good.stacks = Down(dragon.stacks, 1)
  BY DEF Mood, HasFields, Fields, Applied, Right
<1>2. /\ HasFields(spoilt) /\ spoilt.cooldown = 2 /\ spoilt.lowest = dragon.lowest
      /\ spoilt.happiness = dragon.happiness /\ spoilt.stacks = dragon.stacks
  BY DEF Mood, HasFields, Fields, Applied
<1>3. dragon' = good \/ dragon' = bad
  BY DEF Play, Became
<1> HIDE DEF good, spoilt
<1>4. Done(good)
  BY <1>1 DEF Done, Mood, Up, Down
<1>5. Done(bad)
  BY <1>2, HurtMood DEF Done, Mood, Numbers
<1> QED BY <1>3, <1>4, <1>5

(* So is a rest.                                                           *)
LEMMA SleepDone == ASSUME Mood(dragon), Sleep PROVE Done(dragon')
<1> DEFINE slept == [Applied(dragon) EXCEPT !.energy = Up(@, 50), !.shield = 1]
           good  == [Right(slept, 15) EXCEPT !.rightSleep = @ + 1]
           bad   == [Stacked(slept) EXCEPT !.wrongSleep = @ + 1]
<1>1. /\ HasFields(good) /\ good.cooldown = 2 /\ good.lowest = dragon.lowest
      /\ good.happiness = Up(dragon.happiness, 15) /\ good.stacks = Down(dragon.stacks, 1)
  BY DEF Mood, HasFields, Fields, Applied, Right
<1>2. /\ HasFields(bad) /\ bad.cooldown = 2 /\ bad.lowest = dragon.lowest
      /\ bad.happiness = dragon.happiness /\ bad.stacks = dragon.stacks + 1
  BY DEF Mood, HasFields, Fields, Applied, Stacked
<1>3. dragon' = good \/ dragon' = bad
  BY DEF Sleep, Became
<1> HIDE DEF good, bad
<1>4. Done(good)
  BY <1>1 DEF Done, Mood, Up, Down
<1>5. Done(bad)
  BY <1>2 DEF Done, Mood
<1> QED BY <1>3, <1>4, <1>5

(* A tick makes nobody happier, and in phase 2 it looks at what it left.   *)
LEMMA DecayedMood ==
  ASSUME NEW d, Mood(d), NEW t
  PROVE  /\ Mood(Decayed(d, t)) /\ Decayed(d, t).happiness <= d.happiness
         /\ Decayed(d, t).cooldown = Down(d.cooldown, 1) /\ Decayed(d, t).lowest = d.lowest
<1> DEFINE speed  == IF phase = "Phase2" THEN 2 ELSE 1
           wrong  == WrongTime(d, t)
           hunger == Down(d.hunger, speed)
           energy == Down(d.energy, d.rate * (IF wrong THEN 2 ELSE 1) * speed)
           sorrow == 1 + (IF hunger < 20 THEN 1 ELSE 0) + (IF energy < 20 THEN 1 ELSE 0)
                       + (IF wrong /\ d.shield = 0 THEN 1 ELSE 0) + AtMost(d.stacks, 4)
           e == [d EXCEPT !.hunger = hunger, !.energy = energy,
                          !.happiness = Down(@, sorrow * speed),
                          !.cooldown = Down(@, 1), !.shield = Down(@, 1)]
<1>1. Decayed(d, t) = e
  BY DEF Decayed
<1>2. sorrow \in Nat
  <2> HIDE DEF hunger, energy, wrong
  <2> QED BY DEF Mood, AtMost
<1>3. sorrow * speed \in Nat
  <2> HIDE DEF sorrow
  <2> QED BY <1>2
<1> HIDE DEF sorrow, speed, hunger, energy
<1>4. /\ HasFields(e) /\ e.happiness = Down(d.happiness, sorrow * speed)
      /\ e.cooldown = Down(d.cooldown, 1) /\ e.stacks = d.stacks /\ e.lowest = d.lowest
  BY DEF Mood, HasFields, Fields
<1> HIDE DEF e
<1>5. Mood(e) /\ e.happiness <= d.happiness
  BY <1>3, <1>4 DEF Mood, Down
<1> QED BY <1>1, <1>4, <1>5

(* The whole of a tick whose owner is connected.                           *)
LEMMA TickMood ==
  ASSUME Mood(dragon), AdvanceTick, owner \in here
  PROVE  /\ Mood(dragon') /\ dragon'.happiness <= dragon.happiness
         /\ dragon'.cooldown = Down(dragon.cooldown, 1)
         /\ phase = "Phase2" => dragon'.lowest = AtMost(dragon.lowest, dragon'.happiness)
         /\ deepest' = AtMost(deepest, dragon'.happiness)
         /\ awards' = [awards EXCEPT ![owner] = @ \cup TickAwards(dragon')]
<1> DEFINE t  == (time + 1) % DayLength
           d1 == NewTries(dragon, t)
           d2 == Decayed(d1, t)
           d3 == Forgiven(d2)
           d4 == Watched(d3)
           Same(d, e) == /\ e.happiness = d.happiness /\ e.cooldown = d.cooldown
                         /\ e.lowest = d.lowest
<1>1. Mood(d1) /\ Same(dragon, d1)
  BY DEF Mood, HasFields, Fields, NewTries
<1>2. /\ Mood(d2) /\ d2.happiness <= d1.happiness
      /\ d2.cooldown = Down(d1.cooldown, 1) /\ d2.lowest = d1.lowest
  BY <1>1, DecayedMood
<1>3. Mood(d3) /\ Same(d2, d3)
  <2> HIDE DEF d2
  <2>1. \/ d3 = [d2 EXCEPT !.decay = 0] \/ d3 = [d2 EXCEPT !.decay = @ + 1]
        \/ d2.stacks > 0 /\ d3 = [d2 EXCEPT !.stacks = @ - 1, !.decay = 0]
    BY DEF Forgiven
  <2> HIDE DEF d3
  <2>2. ASSUME NEW n, d3 = [d2 EXCEPT !.decay = n] PROVE Mood(d3) /\ Same(d2, d3)
    BY <1>2, <2>2 DEF Mood, HasFields, Fields
  <2>3. ASSUME d2.stacks > 0, d3 = [d2 EXCEPT !.stacks = @ - 1, !.decay = 0]
        PROVE  Mood(d3) /\ Same(d2, d3)
    BY <1>2, <2>3 DEF Mood, HasFields, Fields
  <2> QED BY <2>1, <2>2, <2>3
<1>4. /\ Mood(d4) /\ d4.happiness = d3.happiness /\ d4.cooldown = d3.cooldown
      /\ d4.lowest = IF phase = "Phase2" THEN AtMost(d3.lowest, d3.happiness) ELSE d3.lowest
  <2> HIDE DEF d3
  <2> QED BY <1>3 DEF Mood, HasFields, Fields, Watched, AtMost
<1>5. dragon' = d4 /\ deepest' = AtMost(deepest, d4.happiness)
      /\ awards' = [awards EXCEPT ![owner] = @ \cup TickAwards(d4)]
  BY DEF AdvanceTick, Give, Remember
<1> HIDE DEF d1, d2, d3, d4
<1> QED BY <1>1, <1>2, <1>3, <1>4, <1>5 DEF Mood

(* An action that is applied leaves a cooldown, and what it did to the     *)
(* happiness is still there for the next tick to see.                      *)
LEMMA ActionKeepsDips ==
  ASSUME CountsInv, DipInv,
         \/ \E f \in BOOLEAN : Feed(f) \/ Play(f)
         \/ Sleep
  PROVE  DipInv'
<1>1. Done(dragon') /\ dragon.cooldown = 0
  BY FeedDone, PlayDone, SleepDone DEF CountsInv, Sound, DipInv, DipTypes, Feed, Play, Sleep
<1>2. PICK S : /\ awards' = [awards EXCEPT ![owner] = @ \cup S]
               /\ "comeback_kid" \notin S
  <2>1. \A d, first : \A a \in ActionAward : "comeback_kid" \notin Inline(d, first, a)
    BY DEF Inline, ActionAward
  <2> QED BY <2>1 DEF Feed, Play, Sleep, Became, Give, ActionAward
<1>3. UNCHANGED <<phase, owner>> /\ deepest' = AtMost(deepest, dragon'.happiness) /\ InCare
  BY DEF Feed, Play, Sleep, Became, Remember, MayAct
<1>4. DipTypes'
  BY <1>1, <1>2, <1>3 DEF DipInv, DipTypes, Done, Mood, AtMost
<1>5. DipsSeen'
  BY <1>1, <1>2, <1>3, <1>4 DEF DipInv, DipTypes, DipsSeen, Done, Mood, AtMost
<1>6. ComebacksLow'
  BY <1>2, <1>3 DEF DipInv, DipTypes, ComebacksLow, InCare
<1> QED BY <1>4, <1>5, <1>6 DEF DipInv

(* An action during the cooldown changes no happiness.                     *)
LEMMA ImpatienceKeepsDips == ASSUME DipInv, Impatient PROVE DipInv'
<1>1. /\ HasFields(dragon') /\ dragon'.happiness = dragon.happiness
      /\ dragon'.lowest = dragon.lowest /\ dragon'.cooldown = dragon.cooldown
      /\ dragon'.stacks = dragon.stacks
  BY DEF Impatient, Became, DipInv, DipTypes, Mood, HasFields, Fields
<1>2. awards' = [awards EXCEPT ![owner] = @ \cup {}] /\ UNCHANGED <<phase, owner>>
      /\ deepest' = AtMost(deepest, dragon'.happiness) /\ dragon.cooldown > 0
  BY DEF Impatient, Became, Give, Remember
<1>3. DipTypes'
  BY <1>1, <1>2 DEF DipInv, DipTypes, Mood, AtMost
<1>4. DipsSeen'
  BY <1>1, <1>2 DEF DipInv, DipTypes, Mood, DipsSeen, AtMost
<1>5. ComebacksLow'
  BY <1>1, <1>2 DEF DipInv, DipTypes, Mood, ComebacksLow, AtMost, Impatient, InCare
<1> QED BY <1>3, <1>4, <1>5 DEF DipInv

(* A tick sees what has happened since the last one.                       *)
LEMMA TickKeepsDips == ASSUME DipInv, AdvanceTick PROVE DipInv'
<1>1. UNCHANGED <<phase, owner>> /\ InCare
  BY DEF AdvanceTick
<1>2. CASE owner \in here
  <2>1. /\ Mood(dragon') /\ dragon'.happiness <= dragon.happiness
        /\ dragon'.cooldown = Down(dragon.cooldown, 1)
        /\ phase = "Phase2" => dragon'.lowest = AtMost(dragon.lowest, dragon'.happiness)
        /\ deepest' = AtMost(deepest, dragon'.happiness)
        /\ awards' = [awards EXCEPT ![owner] = @ \cup TickAwards(dragon')]
    BY <1>2, TickMood DEF DipInv, DipTypes
  <2>2. /\ "comeback_kid" \notin TickAwards(dragon')
        /\ dragon'.happiness = 0 => "rock_bottom" \in TickAwards(dragon')
    BY DEF TickAwards
  <2>3. DipTypes'
    BY <1>1, <2>1 DEF DipInv, DipTypes, Mood, AtMost
  <2>4. DipsSeen'
    <3>1. deepest' <= dragon'.happiness
      BY <2>1 DEF DipInv, DipTypes, Mood, AtMost
    <3>2. phase = "Phase2" => dragon'.lowest = deepest'
      BY <2>1 DEF DipInv, DipTypes, DipsSeen, Mood, AtMost
    <3>3. phase = "Phase2" => deepest' = AtMost(dragon'.lowest, dragon'.happiness)
      BY <2>1, <3>1, <3>2 DEF Mood, AtMost
    <3>4. phase = "Phase2" /\ dragon'.lowest = 0 => dragon.lowest = 0 \/ dragon'.happiness = 0
      BY <2>1 DEF AtMost
    <3>5. phase = "Phase2" /\ dragon'.lowest = 0 => "rock_bottom" \in awards'[owner]
      BY <2>1, <2>2, <3>4 DEF DipInv, DipTypes, DipsSeen
    <3> QED BY <1>1, <3>1, <3>2, <3>3, <3>5 DEF DipsSeen
  <2>5. ComebacksLow'
    BY <1>1, <2>1, <2>2 DEF DipInv, DipTypes, ComebacksLow, InCare
  <2> QED BY <2>3, <2>4, <2>5 DEF DipInv
<1>3. CASE owner \notin here
  BY <1>1, <1>3 DEF AdvanceTick, DipInv, DipTypes, DipsSeen, ComebacksLow
<1> QED BY <1>2, <1>3

(* Phases begin with a fresh dragon and end with the awards of phase 2.    *)
LEMMA FreshMood ==
  ASSUME NEW a, NEW r
  PROVE  Mood(Fresh(a, r)) /\ Fresh(a, r).cooldown = 0 /\ Fresh(a, r).lowest = 100
BY DEF Fresh, Mood, HasFields, Fields

(* A comeback is awarded to one that was low.                              *)
LEMMA LeavingKeepsDips ==
  ASSUME DipInv, NEW next \in {"Judge", "Voting"}, Leave(next)
  PROVE  DipInv'
<1>1. /\ UNCHANGED <<dragon, owner, deepest>> /\ phase = "Phase2" /\ phase' = next
      /\ awards' = [awards EXCEPT ![owner] = @ \cup Earned(dragon)]
  BY DEF Leave, AwardPhaseEnd, Give
<1>2. deepest <= dragon.lowest
  BY <1>1 DEF DipInv, DipTypes, DipsSeen, Mood, AtMost
<1>3. "comeback_kid" \in Earned(dragon) => dragon.lowest <= Threshold["low"]
  BY DEF Earned, EndAward
<1>4. Threshold["low"] \in Nat
  BY ThresholdAssumption DEF Need
<1>5. "comeback_kid" \in awards'[owner] => deepest <= Threshold["low"]
  BY <1>1, <1>2, <1>3, <1>4 DEF DipInv, DipTypes, ComebacksLow, Mood
<1> QED BY <1>1, <1>5 DEF DipInv, DipTypes, DipsSeen, ComebacksLow

(* Every step keeps the invariant.                                         *)
LEMMA DipsKept == ASSUME CountsInv, DipInv, Next PROVE DipInv'
<1>1. ASSUME NEW p \in Player, EnterPhase2(p) PROVE DipInv'
  BY <1>1, FreshMood
     DEF EnterPhase2, StatsReset, DipInv, DipTypes, DipsSeen, ComebacksLow, AtMost
<1>2. CASE Restart
  BY <1>2, FreshMood, PlayerAssumption
     DEF Restart, BeginPhase1, DipInv, DipTypes, DipsSeen, ComebacksLow
<1>3. ASSUME NEW p \in Player, Connect(p) \/ Disconnect(p) PROVE DipInv'
  BY <1>3 DEF Connect, Disconnect, DipInv, DipTypes, DipsSeen, ComebacksLow
<1>4. CASE StartHandover \/ VoteAfterJudge
  BY <1>4 DEF StartHandover, VoteAfterJudge, DipInv, DipTypes, DipsSeen, ComebacksLow
<1>5. CASE EndGame \/ JudgeDelivers \/ AdvanceOverduePhase \/ StartVoting
  BY <1>4, <1>5, LeavingKeepsDips DEF EndGame, JudgeDelivers, AdvanceOverduePhase, StartVoting
<1> QED BY <1>1, <1>2, <1>3, <1>4, <1>5, ActionKeepsDips, ImpatienceKeepsDips, TickKeepsDips
        DEF Next

(* Though only ticks look at the lowest happiness, an action's dip is      *)
(* never missed: for any clock, thresholds and course of the game, once a  *)
(* tick has passed the lowest is the deepest there was, happiness that was *)
(* at zero has earned rock_bottom, and a comeback came from below.         *)
THEOREM NoDipIsMissed == Spec => []NoDipUnseen
<1>1. Init => CountsInv /\ DipInv
  <2>1. Init => CountsInv
    BY FreshSound DEF Init, CountsInv
  <2>2. Init => DipInv
    BY FreshMood, PlayerAssumption DEF Init, DipInv, DipTypes, DipsSeen, ComebacksLow
  <2> QED BY <2>1, <2>2
<1>2. CountsInv /\ DipInv /\ [Next]_vars => (CountsInv /\ DipInv)'
  <2>1. ASSUME CountsInv, DipInv, UNCHANGED vars PROVE (CountsInv /\ DipInv)'
    BY <2>1 DEF vars, CountsInv, DipInv, DipTypes, DipsSeen, ComebacksLow
  <2> QED BY <2>1, CountsKept, DipsKept
<1>3. CountsInv /\ DipInv => NoDipUnseen
  BY DEF DipInv, DipTypes, DipsSeen, ComebacksLow, Mood, NoDipUnseen
<1> QED BY <1>1, <1>2, <1>3, PTL DEF Spec

-----------------------------------------------------------------------------
(* A dragon at the start of a care phase has its types.                    *)
LEMMA FreshTyped ==
  ASSUME NEW a \in {"Day", "Night"}, NEW r \in 1 .. 2
  PROVE  Fresh(a, r) \in Dragon
<1>1. 0 \in 0 .. DecayTicks - 1
  BY ClockAssumption
<1> QED BY <1>1 DEF Fresh, Dragon, Stat

(* What every applied action does keeps them.                              *)
LEMMA AppliedTyped ==
  ASSUME NEW d \in Dragon
  PROVE  Applied(d) \in Dragon
<1>1. d.total + 1 \in Nat /\ 2 \in 0 .. 2
  BY DEF Dragon
<1> QED BY <1>1 DEF Dragon, Applied

(* So does what a right action adds.                                       *)
LEMMA RightTyped ==
  ASSUME NEW d \in Dragon, NEW n \in Nat
  PROVE  Right(d, n) \in Dragon
<1>1. Up(d.happiness, n) \in Stat /\ Down(d.stacks, 1) \in Nat /\ d.right + 1 \in Nat
  BY DEF Dragon, Up, Down, Stat
<1> QED BY <1>1 DEF Dragon, Right

(* And a penalty.                                                          *)
LEMMA StackedTyped ==
  ASSUME NEW d \in Dragon
  PROVE  Stacked(d) \in Dragon
<1>1. AtLeast(d.peak, d.stacks + 1) \in Nat /\ d.stacks + 1 \in Nat
  BY DEF Dragon, AtLeast
<1> QED BY <1>1 DEF Dragon, Stacked

(* And what a wrong meal or game does to happiness.                        *)
LEMMA HurtTyped ==
  ASSUME NEW d \in Dragon, NEW wrongs \in Nat
  PROVE  Hurt(d, wrongs + 1) \in Dragon
<1> DEFINE n == 12 + 3 * AtMost(wrongs + 1 - 1, 3)
<1>1. Stacked(d) \in Dragon
  BY StackedTyped
<1>2. n \in Nat
  BY DEF AtMost
<1> HIDE DEF n
<1>3. Down(Stacked(d).happiness, n) \in Stat
  BY <1>1, <1>2 DEF Dragon, Down, Stat
<1>4. [Stacked(d) EXCEPT !.happiness = Down(@, n)] \in Dragon
  BY <1>1, <1>3 DEF Dragon
<1> QED BY <1>4 DEF Hurt, n

(* A meal keeps the types.                                                 *)
LEMMA FeedTyped ==
  ASSUME dragon \in Dragon, NEW f \in BOOLEAN, Feed(f)
  PROVE  dragon' \in Dragon
<1> DEFINE applied == Applied(dragon)
           fed     == [applied EXCEPT !.shield = 0, !.foodTries = @ + 1]
           right   == Right(fed, 20)
           good    == [right EXCEPT !.foundFood = TRUE, !.hunger = Up(@, 40)]
           spoilt  == [fed EXCEPT !.wrongFood = @ + 1, !.hunger = Up(@, 5)]
           bad     == Hurt(spoilt, dragon.wrongFood + 1)
<1>1. dragon' = good \/ dragon' = bad
  BY DEF Feed, Became
<1>2. applied \in Dragon
  BY AppliedTyped
<1>3. fed \in Dragon
  <2> HIDE DEF applied
  <2>1. applied.foodTries + 1 \in Nat /\ 0 \in 0 .. 1
    BY <1>2 DEF Dragon
  <2> QED BY <1>2, <2>1 DEF Dragon
<1>4. right \in Dragon
  BY <1>3, RightTyped
<1>5. good \in Dragon
  <2> HIDE DEF right
  <2>1. Up(right.hunger, 40) \in Stat
    BY <1>4 DEF Dragon, Stat, Up
  <2> QED BY <1>4, <2>1 DEF Dragon
<1>6. spoilt \in Dragon
  <2> HIDE DEF fed
  <2>1. Up(fed.hunger, 5) \in Stat /\ fed.wrongFood + 1 \in Nat
    BY <1>3 DEF Dragon, Stat, Up
  <2> QED BY <1>3, <2>1 DEF Dragon
<1>7. bad \in Dragon
  <2>1. dragon.wrongFood \in Nat
    BY DEF Dragon
  <2> QED BY <1>6, <2>1, HurtTyped
<1> QED BY <1>1, <1>5, <1>7

(* So does a game.                                                         *)
LEMMA PlayTyped ==
  ASSUME dragon \in Dragon, NEW f \in BOOLEAN, Play(f)
  PROVE  dragon' \in Dragon
<1> DEFINE applied == Applied(dragon)
           played  == [applied EXCEPT !.shield = 0, !.playTries = @ + 1]
           right   == Right(played, 30)
           good    == [right EXCEPT !.foundPlay = TRUE, !.energy = Down(@, 20)]
           spoilt  == [played EXCEPT !.wrongPlay = @ + 1, !.energy = Down(@, 15)]
           bad     == Hurt(spoilt, dragon.wrongPlay + 1)
<1>1. dragon' = good \/ dragon' = bad
  BY DEF Play, Became
<1>2. applied \in Dragon
  BY AppliedTyped
<1>3. played \in Dragon
  <2> HIDE DEF applied
  <2>1. applied.playTries + 1 \in Nat /\ 0 \in 0 .. 1
    BY <1>2 DEF Dragon
  <2> QED BY <1>2, <2>1 DEF Dragon
<1>4. right \in Dragon
  BY <1>3, RightTyped
<1>5. good \in Dragon
  <2> HIDE DEF right
  <2>1. Down(right.energy, 20) \in Stat
    BY <1>4 DEF Dragon, Stat, Down
  <2> QED BY <1>4, <2>1 DEF Dragon
<1>6. spoilt \in Dragon
  <2> HIDE DEF played
  <2>1. Down(played.energy, 15) \in Stat /\ played.wrongPlay + 1 \in Nat
    BY <1>3 DEF Dragon, Stat, Down
  <2> QED BY <1>3, <2>1 DEF Dragon
<1>7. bad \in Dragon
  <2>1. dragon.wrongPlay \in Nat
    BY DEF Dragon
  <2> QED BY <1>6, <2>1, HurtTyped
<1> QED BY <1>1, <1>5, <1>7

(* And a rest.                                                             *)
LEMMA SleepTyped ==
  ASSUME dragon \in Dragon, Sleep
  PROVE  dragon' \in Dragon
<1> DEFINE applied == Applied(dragon)
           slept   == [applied EXCEPT !.energy = Up(@, 50), !.shield = 1]
           right   == Right(slept, 15)
           good    == [right EXCEPT !.rightSleep = @ + 1]
           stacked == Stacked(slept)
           bad     == [stacked EXCEPT !.wrongSleep = @ + 1]
<1>1. dragon' = good \/ dragon' = bad
  BY DEF Sleep, Became
<1>2. applied \in Dragon
  BY AppliedTyped
<1>3. slept \in Dragon
  <2> HIDE DEF applied
  <2>1. Up(applied.energy, 50) \in Stat /\ 1 \in 0 .. 1
    BY <1>2 DEF Dragon, Stat, Up
  <2> QED BY <1>2, <2>1 DEF Dragon
<1>4. right \in Dragon /\ stacked \in Dragon
  BY <1>3, RightTyped, StackedTyped
<1>5. good \in Dragon
  <2> HIDE DEF right
  <2>1. right.rightSleep + 1 \in Nat
    BY <1>4 DEF Dragon
  <2> QED BY <1>4, <2>1 DEF Dragon
<1>6. bad \in Dragon
  <2> HIDE DEF stacked
  <2>1. stacked.wrongSleep + 1 \in Nat
    BY <1>4 DEF Dragon
  <2> QED BY <1>4, <2>1 DEF Dragon
<1> QED BY <1>1, <1>5, <1>6

(* And a tick, however much it takes.                                      *)
LEMMA DecayedTyped ==
  ASSUME NEW d \in Dragon, NEW t
  PROVE  Decayed(d, t) \in Dragon
<1> DEFINE speed  == IF phase = "Phase2" THEN 2 ELSE 1
           wrong  == WrongTime(d, t)
           hunger == Down(d.hunger, speed)
           energy == Down(d.energy, d.rate * (IF wrong THEN 2 ELSE 1) * speed)
           sorrow == 1 + (IF hunger < 20 THEN 1 ELSE 0) + (IF energy < 20 THEN 1 ELSE 0)
                       + (IF wrong /\ d.shield = 0 THEN 1 ELSE 0) + AtMost(d.stacks, 4)
           tired  == d.rate * (IF wrong THEN 2 ELSE 1) * speed
<1>1. hunger \in Stat
  BY DEF Dragon, Stat, Down
<1>2. energy \in Stat
  <2>1. d.rate = 1 \/ d.rate = 2
    BY DEF Dragon
  <2>2. tired \in Nat
    <3> HIDE DEF wrong
    <3> QED BY <2>1
  <2>3. energy = Down(d.energy, tired)
    OBVIOUS
  <2> HIDE DEF tired, energy
  <2> QED BY <2>2, <2>3 DEF Dragon, Stat, Down
<1>3. sorrow \in Nat
  <2> HIDE DEF hunger, energy, wrong
  <2> QED BY DEF Dragon, AtMost
<1>4. Down(d.happiness, sorrow * speed) \in Stat
  <2>1. sorrow * speed \in Nat
    <3> HIDE DEF sorrow
    <3> QED BY <1>3
  <2> HIDE DEF sorrow, speed
  <2> QED BY <2>1 DEF Dragon, Stat, Down
<1>5. Down(d.cooldown, 1) \in 0 .. 2 /\ Down(d.shield, 1) \in 0 .. 1
  BY DEF Dragon, Down
<1> HIDE DEF hunger, energy, sorrow, speed
<1>6. [d EXCEPT !.hunger = hunger, !.energy = energy, !.happiness = Down(@, sorrow * speed),
                !.cooldown = Down(@, 1), !.shield = Down(@, 1)] \in Dragon
  BY <1>1, <1>2, <1>4, <1>5 DEF Dragon
<1> QED BY <1>6 DEF Decayed, hunger, energy, sorrow, speed

(* The whole of a tick.                                                    *)
LEMMA TickTyped ==
  ASSUME dragon \in Dragon, AdvanceTick
  PROVE  dragon' \in Dragon
<1> DEFINE t  == (time + 1) % DayLength
           d1 == NewTries(dragon, t)
           d2 == Decayed(d1, t)
           d3 == Forgiven(d2)
           d4 == Watched(d3)
<1>1. d1 \in Dragon
  BY DEF NewTries, Dragon
<1>2. d2 \in Dragon
  BY <1>1, DecayedTyped
<1>3. d3 \in Dragon
  <2> HIDE DEF d2
  <2>1. DecayTicks \in Nat \ {0} /\ d2.decay \in 0 .. DecayTicks - 1 /\ d2.stacks \in Nat
    BY <1>2, ClockAssumption DEF Dragon
  <2>2. CASE d2.stacks = 0
    BY <1>2, <2>1, <2>2 DEF Forgiven, Dragon
  <2>3. CASE d2.stacks # 0 /\ d2.decay + 1 >= DecayTicks
    <3>1. d3 = [d2 EXCEPT !.stacks = @ - 1, !.decay = 0]
      BY <2>1, <2>3 DEF Forgiven
    <3>2. d2.stacks - 1 \in Nat /\ 0 \in 0 .. DecayTicks - 1
      BY <2>1, <2>3
    <3> HIDE DEF d3
    <3> QED BY <1>2, <3>1, <3>2 DEF Dragon
  <2>4. CASE d2.stacks # 0 /\ ~(d2.decay + 1 >= DecayTicks)
    <3>1. d3 = [d2 EXCEPT !.decay = @ + 1]
      BY <2>1, <2>4 DEF Forgiven
    <3>2. d2.decay + 1 \in 0 .. DecayTicks - 1
      BY <2>1, <2>4
    <3> HIDE DEF d3
    <3> QED BY <1>2, <3>1, <3>2 DEF Dragon
  <2> QED BY <2>2, <2>3, <2>4
<1>4. d4 \in Dragon
  <2> HIDE DEF d3
  <2>1. d3.ticks2 + 1 \in Nat /\ AtMost(d3.lowest, d3.happiness) \in Stat
    BY <1>3 DEF Dragon, Stat, AtMost
  <2> QED BY <1>3, <2>1 DEF Watched, Dragon
<1>5. dragon' = d4 \/ dragon' = dragon
  BY DEF AdvanceTick
<1> HIDE DEF d4
<1> QED BY <1>4, <1>5

(* An action gives only an action's awards, a tick a tick's.               *)
LEMMA ActionAwards ==
  ASSUME NEW d, NEW first \in BOOLEAN, NEW a \in ActionAward
  PROVE  /\ Inline(d, first, a) \subseteq ActionAward
         /\ QuickStudy(d) => "speed_learner" \in Inline(d, first, a)
BY DEF Inline, ActionAward

(* An action in care leaves the happiness in its range, and may give its   *)
(* owner only an action's awards; whoever is quick enough is among them.   *)
LEMMA ActionEffect ==
  ASSUME TypeOK,
         \/ \E f \in BOOLEAN : Feed(f) \/ Play(f)
         \/ Sleep
  PROVE  /\ dragon' \in Dragon /\ InCare /\ UNCHANGED <<phase, time, owner, here, ticks>>
         /\ deepest' = AtMost(deepest, dragon'.happiness)
         /\ \E S \in SUBSET ActionAward :
              /\ awards' = [awards EXCEPT ![owner] = @ \cup S]
              /\ QuickStudy(dragon') => "speed_learner" \in S
<1>1. dragon' \in Dragon
  BY FeedTyped, PlayTyped, SleepTyped DEF TypeOK
<1>2. InCare /\ UNCHANGED <<phase, time, owner, here, ticks>>
      /\ deepest' = AtMost(deepest, dragon'.happiness)
  BY DEF Feed, Play, Sleep, Became, Remember, MayAct
<1>3. PICK first \in BOOLEAN, a \in ActionAward :
        awards' = [awards EXCEPT ![owner] = @ \cup Inline(dragon', first, a)]
  <2>1. {"master_chef", "playful_spirit"} \subseteq ActionAward
    BY DEF ActionAward
  <2>2. ASSUME NEW d, NEW first \in BOOLEAN, NEW a \in ActionAward,
               Became(d, Inline(d, first, a))
        PROVE  \E x \in BOOLEAN, y \in ActionAward :
                 awards' = [awards EXCEPT ![owner] = @ \cup Inline(dragon', x, y)]
    BY <2>2 DEF Became, Give
  <2>3. ASSUME NEW f \in BOOLEAN, Feed(f)
        PROVE  \E d : \E x \in BOOLEAN, y \in ActionAward : Became(d, Inline(d, x, y))
    <3> DEFINE fed  == [Applied(dragon) EXCEPT !.shield = 0, !.foodTries = @ + 1]
               good == [Right(fed, 20) EXCEPT !.foundFood = TRUE, !.hunger = Up(@, 40)]
               bad  == Hurt([fed EXCEPT !.wrongFood = @ + 1, !.hunger = Up(@, 5)],
                            dragon.wrongFood + 1)
    <3>1. \/ Became(good, Inline(good, good.foodTries = 1, "master_chef"))
          \/ Became(bad, Inline(bad, FALSE, "master_chef"))
      BY <2>3 DEF Feed
    <3> HIDE DEF good, bad
    <3>2. (good.foodTries = 1) \in BOOLEAN
      OBVIOUS
    <3> QED BY <2>1, <3>1, <3>2
  <2>4. ASSUME NEW f \in BOOLEAN, Play(f)
        PROVE  \E d : \E x \in BOOLEAN, y \in ActionAward : Became(d, Inline(d, x, y))
    <3> DEFINE played == [Applied(dragon) EXCEPT !.shield = 0, !.playTries = @ + 1]
               good   == [Right(played, 30) EXCEPT !.foundPlay = TRUE, !.energy = Down(@, 20)]
               bad    == Hurt([played EXCEPT !.wrongPlay = @ + 1, !.energy = Down(@, 15)],
                              dragon.wrongPlay + 1)
    <3>1. \/ Became(good, Inline(good, good.playTries = 1, "playful_spirit"))
          \/ Became(bad, Inline(bad, FALSE, "playful_spirit"))
      BY <2>4 DEF Play
    <3> HIDE DEF good, bad
    <3>2. (good.playTries = 1) \in BOOLEAN
      OBVIOUS
    <3> QED BY <2>1, <3>1, <3>2
  <2>5. ASSUME Sleep
        PROVE  \E d : \E x \in BOOLEAN, y \in ActionAward : Became(d, Inline(d, x, y))
    BY <2>1, <2>5 DEF Sleep
  <2> QED BY <2>2, <2>3, <2>4, <2>5
<1>4. /\ Inline(dragon', first, a) \in SUBSET ActionAward
      /\ QuickStudy(dragon') => "speed_learner" \in Inline(dragon', first, a)
  BY ActionAwards
<1> QED BY <1>1, <1>2, <1>3, <1>4

(* Every step keeps the types.                                             *)
LEMMA TypesStep == ASSUME TypeOK, [Next]_vars PROVE TypeOK'
<1> USE DEF TypeOK
<1>1. CASE (\E f \in BOOLEAN : Feed(f) \/ Play(f)) \/ Sleep
  <2>1. deepest' \in Stat
    BY <1>1, ActionEffect DEF Dragon, Stat, AtMost
  <2>2. awards' \in [Player -> SUBSET (ActionAward \cup TickAward \cup EndAward)]
    BY <1>1, ActionEffect
  <2> QED BY <1>1, <2>1, <2>2, ActionEffect
<1>2. CASE Impatient
  <2>1. dragon' \in Dragon
    <3>1. dragon.violations + 1 \in Nat
      BY DEF Dragon
    <3> QED BY <1>2, <3>1 DEF Impatient, Became, Dragon
  <2>2. deepest' \in Stat
    BY <1>2, <2>1 DEF Impatient, Became, Remember, Dragon, Stat, AtMost
  <2> QED BY <1>2, <2>1, <2>2 DEF Impatient, Became, Give
<1>3. CASE AdvanceTick
  <2>1. dragon' \in Dragon
    BY <1>3, TickTyped
  <2>2. time' \in 0 .. DayLength - 1 /\ ticks' \in Nat
    <3>1. DayLength \in Nat \ {0}
      BY ClockAssumption
    <3> QED BY <1>3, <3>1 DEF AdvanceTick
  <2>3. deepest' \in Stat
    <3>1. deepest' = deepest \/ deepest' = AtMost(deepest, dragon'.happiness)
      BY <1>3 DEF AdvanceTick, Remember
    <3> QED BY <2>1, <3>1 DEF Dragon, Stat, AtMost
  <2>4. awards' \in [Player -> SUBSET (ActionAward \cup TickAward \cup EndAward)]
    <3>1. PICK S : awards' = awards \/ (awards' = [awards EXCEPT ![owner] = @ \cup S]
                                        /\ S \subseteq TickAward)
      <4>1. \A d : TickAwards(d) \subseteq TickAward
        BY DEF TickAwards, TickAward
      <4> QED BY <1>3, <4>1 DEF AdvanceTick, Give
    <3> QED BY <3>1
  <2> QED BY <1>3, <2>1, <2>2, <2>3, <2>4 DEF AdvanceTick
<1>4. ASSUME NEW p \in Player, EnterPhase2(p) PROVE TypeOK'
  <2>1. dragon' \in Dragon
    BY <1>4, FreshTyped DEF EnterPhase2, StatsReset, Dragon
  <2> QED BY <1>4, <2>1 DEF EnterPhase2, Stat
<1>5. CASE Restart
  <2>1. Morning \in 0 .. DayLength - 1
    BY ClockAssumption
  <2> QED BY <1>5, <2>1, FreshTyped, PlayerAssumption DEF Restart, BeginPhase1, Stat
<1>6. ASSUME NEW p \in Player, Connect(p) \/ Disconnect(p) PROVE TypeOK'
  BY <1>6 DEF Connect, Disconnect
<1>7. CASE StartHandover \/ VoteAfterJudge
  BY <1>7 DEF StartHandover, VoteAfterJudge
<1>8. ASSUME NEW next \in {"Judge", "Voting"}, Leave(next) PROVE TypeOK'
  BY <1>8 DEF Leave, AwardPhaseEnd, Give, Earned
<1>9. CASE UNCHANGED vars
  BY <1>9 DEF vars
<1> QED
  BY <1>1, <1>2, <1>3, <1>4, <1>5, <1>6, <1>7, <1>8, <1>9
     DEF Next, EndGame, JudgeDelivers, AdvanceOverduePhase, StartVoting

(* The first dragon has its types.                                         *)
LEMMA TypesAtFirst == Init => TypeOK
<1>1. Morning \in 0 .. DayLength - 1
  BY ClockAssumption
<1> QED BY <1>1, FreshTyped, PlayerAssumption DEF Init, TypeOK, Stat

(* Every variable keeps its type: no stat leaves 0 .. 100 and no timer its *)
(* range, whatever actions, ticks and penalties add and take.              *)
THEOREM TypesKept == Spec => []TypeOK
BY TypesAtFirst, TypesStep, PTL DEF Spec

-----------------------------------------------------------------------------
(* The awards of a game so far are those that were earned.                 *)
AwardInv == TypeOK /\ CountsInv /\ DipInv /\ FastLearnersAwarded /\ PhaseEndAwarded

(* The kinds of awards are apart.                                          *)
LEMMA KindsOfAwards ==
  /\ \A S \in SUBSET ActionAward : S \cap EndAward = {} /\ "steady_hand" \notin S
  /\ \A S \in SUBSET TickAward : S \cap EndAward = {} /\ "speed_learner" \notin S
  /\ \A S \in SUBSET EndAward : "speed_learner" \notin S /\ "steady_hand" \notin S
<1>1. ActionAward \cap EndAward = {} /\ TickAward \cap EndAward = {}
  BY DEF ActionAward, TickAward, EndAward
<1>2. /\ "steady_hand" \notin ActionAward \cup EndAward
      /\ "speed_learner" \notin TickAward \cup EndAward
  BY DEF ActionAward, TickAward, EndAward
<1> QED BY <1>1, <1>2

(* A tick finds no food and no game.                                       *)
LEMMA TickFinds ==
  ASSUME HasFields(dragon), AdvanceTick
  PROVE  QuickStudy(dragon') => QuickStudy(dragon)
<1> DEFINE t  == (time + 1) % DayLength
           d1 == NewTries(dragon, t)
           d2 == Decayed(d1, t)
           d3 == Forgiven(d2)
           d4 == Watched(d3)
           Same(d, e) == /\ HasFields(e) /\ e.foundFood = d.foundFood
                         /\ e.foundPlay = d.foundPlay /\ e.total = d.total
<1>1. Same(dragon, d1)
  BY DEF HasFields, Fields, NewTries
<1>2. Same(d1, d2)
  <2> HIDE DEF d1
  <2> QED BY <1>1 DEF HasFields, Fields, Decayed
<1>3. Same(d2, d3)
  <2> HIDE DEF d2
  <2>1. \/ d3 = [d2 EXCEPT !.decay = 0] \/ d3 = [d2 EXCEPT !.decay = @ + 1]
        \/ d3 = [d2 EXCEPT !.stacks = @ - 1, !.decay = 0]
    BY DEF Forgiven
  <2> HIDE DEF d3
  <2> QED BY <1>2, <2>1 DEF HasFields, Fields
<1>4. Same(d3, d4)
  <2> HIDE DEF d3
  <2> QED BY <1>3 DEF HasFields, Fields, Watched
<1>5. dragon' = d4 \/ dragon' = dragon
  BY DEF AdvanceTick
<1> HIDE DEF d1, d2, d3, d4
<1> QED BY <1>1, <1>2, <1>3, <1>4, <1>5 DEF QuickStudy

(* What is true of the awards after a step, if only S was given.           *)
LEMMA GivenInCare ==
  ASSUME TypeOK, PhaseEndAwarded, InCare, UNCHANGED <<phase, owner>>, NEW S,
         awards' = [awards EXCEPT ![owner] = @ \cup S], S \cap EndAward = {}
  PROVE  PhaseEndAwarded'
<1>1. \A p \in Player : awards'[p] = IF p = owner THEN awards[p] \cup S ELSE awards[p]
  BY DEF TypeOK
<1>2. phase \notin {"Judge", "Voting"} /\ phase' \notin {"Judge", "Voting"}
  BY DEF InCare
<1>3. \A p \in Player : awards[p] \cap EndAward = {}
  BY <1>2 DEF PhaseEndAwarded
<1>4. \A p \in Player : awards'[p] \cap EndAward = {}
  BY <1>1, <1>3
<1> QED BY <1>2, <1>4 DEF PhaseEndAwarded

(* An action.                                                              *)
LEMMA ActionAwarded ==
  ASSUME AwardInv,
         \/ \E f \in BOOLEAN : Feed(f) \/ Play(f)
         \/ Sleep
  PROVE  FastLearnersAwarded' /\ PhaseEndAwarded' /\ SteadyHandIsSteady
<1>1. PICK S \in SUBSET ActionAward : /\ awards' = [awards EXCEPT ![owner] = @ \cup S]
                                      /\ QuickStudy(dragon') => "speed_learner" \in S
  BY ActionEffect DEF AwardInv
<1>2. InCare /\ UNCHANGED <<phase, owner>>
  BY ActionEffect DEF AwardInv
<1>3. FastLearnersAwarded'
  BY <1>1, <1>2 DEF AwardInv, TypeOK, FastLearnersAwarded
<1>4. PhaseEndAwarded'
  BY <1>1, <1>2, GivenInCare, KindsOfAwards DEF AwardInv
<1>5. SteadyHandIsSteady
  BY <1>1, KindsOfAwards DEF AwardInv, TypeOK, SteadyHandIsSteady
<1> QED BY <1>3, <1>4, <1>5

(* A tick.                                                                 *)
LEMMA TickAwarded ==
  ASSUME AwardInv, AdvanceTick, CountsInv', DipInv', TypeOK'
  PROVE  FastLearnersAwarded' /\ PhaseEndAwarded' /\ SteadyHandIsSteady
<1>1. UNCHANGED <<phase, owner>> /\ InCare
  BY DEF AdvanceTick
<1>2. CASE owner \in here
  <2>1. /\ dragon'.happiness <= dragon.happiness
        /\ dragon'.cooldown = Down(dragon.cooldown, 1)
        /\ awards' = [awards EXCEPT ![owner] = @ \cup TickAwards(dragon')]
    BY <1>2, TickMood DEF AwardInv, DipInv, DipTypes
  <2>2. TickAwards(dragon') \in SUBSET TickAward
    BY DEF TickAwards, TickAward
  <2>3. QuickStudy(dragon') => QuickStudy(dragon)
    BY <1>2, TickFinds DEF AwardInv, CountsInv, Sound
  <2>4. FastLearnersAwarded'
    BY <1>1, <2>1, <2>3 DEF AwardInv, TypeOK, FastLearnersAwarded, InCare
  <2>5. PhaseEndAwarded'
    BY <1>1, <2>1, <2>2, GivenInCare, KindsOfAwards DEF AwardInv
  <2>6. SteadyHandIsSteady
    <3> SUFFICES ASSUME NEW p \in Player, "steady_hand" \in awards'[p] \ awards[p]
                 PROVE  phase = "Phase2" /\ deepest' >= 60 /\ ticks' >= Threshold["steady"]
      BY DEF SteadyHandIsSteady
    <3>1. "steady_hand" \in TickAwards(dragon')
      BY <2>1 DEF AwardInv, TypeOK
    <3>2. phase = "Phase2" /\ dragon'.lowest >= 60 /\ dragon'.ticks2 >= Threshold["steady"]
      BY <1>1, <3>1 DEF TickAwards, Steady
    <3>3. dragon'.cooldown < 2
      BY <2>1 DEF AwardInv, TypeOK, Dragon, Down
    <3>4. deepest' = dragon'.lowest
      BY <1>1, <3>2, <3>3 DEF DipInv, DipsSeen
    <3>5. Threshold["steady"] \in Nat
      BY ThresholdAssumption DEF Need
    <3>6. ticks' >= dragon'.ticks2 /\ ticks' \in Nat /\ dragon'.ticks2 \in Nat
      BY DEF CountsInv, Sound, Numbers
    <3> QED BY <3>2, <3>4, <3>5, <3>6
  <2> QED BY <2>4, <2>5, <2>6
<1>3. CASE owner \notin here
  BY <1>1, <1>3 DEF AdvanceTick, AwardInv, FastLearnersAwarded, PhaseEndAwarded,
                    SteadyHandIsSteady, InCare
<1> QED BY <1>2, <1>3

(* The end of phase 2.                                                     *)
LEMMA LeavingAwarded ==
  ASSUME AwardInv, NEW next \in {"Judge", "Voting"}, Leave(next)
  PROVE  FastLearnersAwarded' /\ PhaseEndAwarded' /\ SteadyHandIsSteady
<1>1. /\ UNCHANGED <<dragon, owner>> /\ phase = "Phase2" /\ phase' = next
      /\ awards' = [awards EXCEPT ![owner] = @ \cup Earned(dragon)]
  BY DEF Leave, AwardPhaseEnd, Give
<1>2. Earned(dragon) \in SUBSET EndAward
  BY DEF Earned
<1>3. \A p \in Player : awards'[p] = IF p = owner THEN awards[p] \cup Earned(dragon)
                                     ELSE awards[p]
  BY <1>1 DEF AwardInv, TypeOK
<1>4. \A p \in Player : awards[p] \cap EndAward = {}
  BY <1>1 DEF AwardInv, PhaseEndAwarded
<1>5. \A p \in Player : awards'[p] \cap EndAward = IF p = owner THEN Earned(dragon) ELSE {}
  BY <1>2, <1>3, <1>4
<1>6. PhaseEndAwarded'
  BY <1>1, <1>5 DEF PhaseEndAwarded
<1>7. FastLearnersAwarded'
  BY <1>1 DEF FastLearnersAwarded, InCare
<1>8. SteadyHandIsSteady
  BY <1>2, <1>3, KindsOfAwards DEF SteadyHandIsSteady
<1> QED BY <1>6, <1>7, <1>8

(* Every step gives what it must, and nothing else.                        *)
LEMMA AwardsStep ==
  ASSUME AwardInv, Next, CountsInv', DipInv', TypeOK'
  PROVE  FastLearnersAwarded' /\ PhaseEndAwarded' /\ SteadyHandIsSteady
<1> USE DEF AwardInv
<1>1. CASE Impatient
  <2>1. awards' = awards
    BY <1>1 DEF Impatient, Became, Give, TypeOK
  <2>2. /\ dragon'.foundFood = dragon.foundFood /\ dragon'.foundPlay = dragon.foundPlay
        /\ dragon'.total = dragon.total /\ UNCHANGED <<phase, owner>> /\ InCare
    BY <1>1 DEF Impatient, Became, TypeOK, Dragon
  <2>3. FastLearnersAwarded'
    BY <2>1, <2>2 DEF FastLearnersAwarded, QuickStudy, InCare
  <2>4. PhaseEndAwarded'
    BY <2>1, <2>2 DEF PhaseEndAwarded, InCare
  <2> QED BY <2>1, <2>3, <2>4 DEF SteadyHandIsSteady
<1>2. ASSUME NEW p \in Player, EnterPhase2(p)
      PROVE  FastLearnersAwarded' /\ PhaseEndAwarded' /\ SteadyHandIsSteady
  <2>1. ~dragon'.foundFood
    BY <1>2 DEF EnterPhase2, StatsReset, Fresh
  <2> QED BY <1>2, <2>1
          DEF EnterPhase2, FastLearnersAwarded, QuickStudy, PhaseEndAwarded, SteadyHandIsSteady
<1>3. CASE Restart
  <2>1. ~dragon'.foundFood
    BY <1>3 DEF Restart, BeginPhase1, Fresh
  <2> QED BY <1>3, <2>1
          DEF Restart, BeginPhase1, FastLearnersAwarded, QuickStudy, PhaseEndAwarded,
              SteadyHandIsSteady
<1>4. ASSUME NEW p \in Player, Connect(p) \/ Disconnect(p)
      PROVE  FastLearnersAwarded' /\ PhaseEndAwarded' /\ SteadyHandIsSteady
  BY <1>4 DEF Connect, Disconnect, FastLearnersAwarded, PhaseEndAwarded, SteadyHandIsSteady,
              InCare
<1>5. CASE StartHandover \/ VoteAfterJudge
  BY <1>5 DEF StartHandover, VoteAfterJudge, FastLearnersAwarded, PhaseEndAwarded,
              SteadyHandIsSteady, InCare
<1>6. CASE EndGame \/ JudgeDelivers \/ AdvanceOverduePhase \/ StartVoting
  BY <1>5, <1>6, LeavingAwarded DEF EndGame, JudgeDelivers, AdvanceOverduePhase, StartVoting
<1> QED BY <1>1, <1>2, <1>3, <1>4, <1>5, <1>6, ActionAwarded, TickAwarded DEF Next

(* Every step keeps the invariant.                                         *)
LEMMA AwardInvKept ==
  ASSUME AwardInv, [Next]_vars
  PROVE  AwardInv' /\ [SteadyHandIsSteady]_vars
<1>1. TypeOK'
  BY TypesStep DEF AwardInv
<1>2. CASE Next
  <2>1. CountsInv' /\ DipInv'
    BY <1>2, CountsKept, DipsKept DEF AwardInv
  <2> QED BY <1>1, <1>2, <2>1, AwardsStep DEF AwardInv
<1>3. CASE UNCHANGED vars
  BY <1>1, <1>3 DEF vars, AwardInv, CountsInv, DipInv, DipTypes, DipsSeen, ComebacksLow,
                    FastLearnersAwarded, PhaseEndAwarded, InCare
<1> QED BY <1>2, <1>3

(* For any thresholds, clock and course of the game, a fast learner is     *)
(* awarded beside whatever else the action earns, the keeper has exactly   *)
(* the awards its final counters have earned, and steady_hand is given for *)
(* a phase 2 in which happiness was never below 60.                        *)
THEOREM AwardsAreGivenWhenEarned == Spec => AwardsAreEarned
<1>1. Init => AwardInv
  <2>1. Init => CountsInv
    BY FreshSound DEF Init, CountsInv
  <2>2. Init => DipInv
    BY FreshMood, PlayerAssumption DEF Init, DipInv, DipTypes, DipsSeen, ComebacksLow
  <2>3. Init => FastLearnersAwarded /\ PhaseEndAwarded
    BY DEF Init, FastLearnersAwarded, PhaseEndAwarded, QuickStudy, Fresh
  <2> QED BY <2>1, <2>2, <2>3, TypesAtFirst DEF AwardInv
<1>2. AwardInv /\ [Next]_vars
        => AwardInv' /\ [FastLearnersAwarded' /\ PhaseEndAwarded' /\ SteadyHandIsSteady]_vars
  BY AwardInvKept DEF AwardInv
<1> QED BY <1>1, <1>2, PTL DEF Spec, AwardsAreEarned
=============================================================================
