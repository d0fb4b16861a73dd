----------------------------- MODULE DragonCare -----------------------------
(***************************************************************************)
(* The care of one dragon through a game: the actions of whoever has it,   *)
(* the clock's ticks, and the achievements given by an action, by a tick   *)
(* or when phase 2 ends.  Its creator has it in phase 1, its keeper in     *)
(* phase 2; the rotation that chooses the keeper is Workshop's.            *)
(*                                                                         *)
(* Foods, games and their names are abstracted to whether a choice is the  *)
(* dragon's favourite.  Speech, emotions and the counters that are only    *)
(* shown are left out.  The amounts are the code's; the length of a day    *)
(* and the numbers of actions and ticks an award asks for are constants,   *)
(* so that a small game can earn every award.                              *)
(***************************************************************************)
EXTENDS Naturals, FiniteSets

CONSTANTS
  Player,         \* the players of the workshop
  Creator,        \* the one who created this dragon
  DayLength, Dawn, Dusk, Morning, \* ticks of a day, its light part, phase 1's start
  DecayTicks,     \* ticks after which a penalty stack goes away (6)
  Threshold,      \* what the awards ask for
  MaxTicks, MaxActions, \* bounds: ticks and actions of each care phase
  MaxViolations   \* bound: actions during the cooldown in one phase

Need == {"steady", "noMistakes", "zen", "masher", "rests", "rhythm", "helicopter",
         "low", "comeback", "chaos", "perfect"}

ASSUME PlayerAssumption == Creator \in Player
ASSUME ClockAssumption  ==
  /\ {DayLength, Dawn, Dusk, Morning, DecayTicks} \subseteq Nat
  /\ Dawn < Dusk /\ Dusk <= DayLength /\ Morning < DayLength /\ DecayTicks > 0
ASSUME ThresholdAssumption == Threshold \in [Need -> Nat]
ASSUME BoundAssumption ==
  /\ MaxTicks \in [{"Phase1", "Phase2"} -> Nat] /\ MaxActions \in [{"Phase1", "Phase2"} -> Nat]
  /\ MaxViolations \in Nat

VARIABLES
  phase,   \* the session's phase, as far as care goes
  time,    \* tick of the day
  owner,   \* current_owner_id of the dragon
  here,    \* the players who are connected
  dragon,  \* the dragon's stats and counters
  awards,  \* achievements of each player
  ticks,   \* history: ticks of this phase, seen by the dragon or not
  deepest  \* history: the lowest happiness any change of this phase left

vars == <<phase, time, owner, here, dragon, awards, ticks, deepest>>

-----------------------------------------------------------------------------
(* State. *)

InCare     == phase \in {"Phase1", "Phase2"}
Stat       == 0 .. 100
Daytime(t) == Dawn <= t /\ t < Dusk

ActionAward == {"master_chef", "playful_spirit", "speed_learner"}
TickAward   == {"rock_bottom", "steady_hand"}
EndAward    == {"no_mistakes", "zen_master", "button_masher", "restful_rhythm",
                "helicopter_parent", "comeback_kid", "chaos_gremlin", "perfectionist"}

Dragon == [
  active      : {"Day", "Night"},   \* active_time
  rate        : 1 .. 2,             \* sleep_rate
  hunger      : Stat,
  energy      : Stat,
  happiness   : Stat,
  foodTries   : Nat,                \* tries since the last dawn or dusk
  playTries   : Nat,
  cooldown    : 0 .. 2,
  shield      : 0 .. 1,             \* sleep_shield_ticks
  ticks2      : Nat,                \* phase2_ticks
  lowest      : Stat,               \* phase2_lowest_happiness
  wrongFood   : Nat,
  wrongPlay   : Nat,
  wrongSleep  : Nat,
  rightSleep  : Nat,                \* correct_sleep_count
  violations  : Nat,                \* cooldown_violations
  total       : Nat,                \* total_actions
  right       : Nat,                \* correct_actions
  stacks      : Nat,                \* penalty_stacks
  decay       : 0 .. DecayTicks - 1, \* penalty_decay_timer
  peak        : Nat,                \* peak_penalty_stacks
  foundFood   : BOOLEAN,
  foundPlay   : BOOLEAN ]

(* A dragon at the start of a care phase. *)
Fresh(active, rate) == [
  active |-> active, rate |-> rate, hunger |-> 80, energy |-> 80, happiness |-> 80,
  foodTries |-> 0, playTries |-> 0, cooldown |-> 0, shield |-> 0, ticks2 |-> 0,
  lowest |-> 100, wrongFood |-> 0, wrongPlay |-> 0, wrongSleep |-> 0,
  rightSleep |-> 0, violations |-> 0, total |-> 0, right |-> 0, stacks |-> 0,
  decay |-> 0, peak |-> 0, foundFood |-> FALSE, foundPlay |-> FALSE ]

Down(x, n)    == IF n > x THEN 0 ELSE x - n
Up(x, n)      == IF x + n > 100 THEN 100 ELSE x + n
AtMost(x, n)  == IF x < n THEN x ELSE n
AtLeast(x, n) == IF x > n THEN x ELSE n

Remember(d)    == deepest' = AtMost(deepest, d.happiness)
Give(p, S)     == awards' = [awards EXCEPT ![p] = @ \cup S]

-----------------------------------------------------------------------------
(* Actions of the player who has the dragon. *)

(* What every applied action does, and what a right or a wrong one adds. *)
Applied(d)  == [d EXCEPT !.cooldown = 2, !.total = @ + 1]
Right(d, n) == [d EXCEPT !.right = @ + 1, !.happiness = Up(@, n), !.stacks = Down(@, 1)]
Stacked(d)  == [d EXCEPT !.stacks = @ + 1, !.peak = AtLeast(@, d.stacks + 1)]
Hurt(d, wrongs) == [Stacked(d) EXCEPT !.happiness = Down(@, 12 + 3 * AtMost(wrongs - 1, 3))]

QuickStudy(d) == d.foundFood /\ d.foundPlay /\ d.total <= 3

(* The award the action itself returns, and the one stored beside it. *)
Inline(d, first, award) ==
  (IF first THEN {award} ELSE {}) \cup (IF QuickStudy(d) THEN {"speed_learner"} ELSE {})

MayAct == InCare /\ dragon.total < MaxActions[phase]

(* dragon becomes d, and its owner earns S. *)
Became(d, S) ==
  /\ dragon' = d
  /\ Give(owner, S)
  /\ Remember(d)
  /\ UNCHANGED <<phase, time, owner, here, ticks>>

Feed(favourite) ==
  LET fed  == [Applied(dragon) EXCEPT !.shield = 0, !.foodTries = @ + 1]
      good == [Right(fed, 20) EXCEPT !.foundFood = TRUE, !.hunger = Up(@, 40)]
      bad  == Hurt([fed EXCEPT !.wrongFood = @ + 1, !.hunger = Up(@, 5)], dragon.wrongFood + 1)
  IN  /\ MayAct /\ dragon.cooldown = 0 /\ dragon.hunger < 95
      /\ IF favourite
           THEN Became(good, Inline(good, good.foodTries = 1, "master_chef"))
           ELSE Became(bad, Inline(bad, FALSE, "master_chef"))

Play(favourite) ==
  LET played == [Applied(dragon) EXCEPT !.shield = 0, !.playTries = @ + 1]
      good   == [Right(played, 30) EXCEPT !.foundPlay = TRUE, !.energy = Down(@, 20)]
      bad    == Hurt([played EXCEPT !.wrongPlay = @ + 1, !.energy = Down(@, 15)],
                     dragon.wrongPlay + 1)
  IN  /\ MayAct /\ dragon.cooldown = 0 /\ dragon.hunger >= 20 /\ dragon.energy >= 20
      /\ IF favourite
           THEN Became(good, Inline(good, good.playTries = 1, "playful_spirit"))
           ELSE Became(bad, Inline(bad, FALSE, "playful_spirit"))

WrongTime(d, t) == (d.active = "Day") # Daytime(t)

Sleep ==
  LET slept == [Applied(dragon) EXCEPT !.energy = Up(@, 50), !.shield = 1]
      good  == [Right(slept, 15) EXCEPT !.rightSleep = @ + 1]
      bad   == [Stacked(slept) EXCEPT !.wrongSleep = @ + 1]
      d     == IF WrongTime(dragon, time) THEN good ELSE bad
  IN  /\ MayAct /\ dragon.cooldown = 0 /\ dragon.energy < 90
      /\ Became(d, Inline(d, FALSE, "master_chef"))

(* An action during the cooldown is counted and does nothing else. *)
Impatient ==
  /\ InCare /\ dragon.cooldown > 0
  /\ dragon.violations < MaxViolations
  /\ Became([dragon EXCEPT !.violations = @ + 1], {})

-----------------------------------------------------------------------------
(* The clock. *)

(* One tick of a dragon whose owner is connected, at time t. *)
Decayed(d, t) ==
  LET speed  == IF phase = "Phase2" THEN 2 ELSE 1
      wrong  == WrongTime(d, t)
      hunger == Down(d.hunger, speed)
      energy == Down(d.energy, d.rate * (IF wrong THEN 2 ELSE 1) * speed)
      sorrow == 1 + (IF hunger < 20 THEN 1 ELSE 0) + (IF energy < 20 THEN 1 ELSE 0)
                  + (IF wrong /\ d.shield = 0 THEN 1 ELSE 0) + AtMost(d.stacks, 4)
  IN  [d EXCEPT !.hunger = hunger, !.energy = energy,
                !.happiness = Down(@, sorrow * speed),
                !.cooldown = Down(@, 1), !.shield = Down(@, 1)]

ClockTurned(t) == Daytime(t) # Daytime((t + DayLength - 1) % DayLength)
NewTries(d, t) == IF ClockTurned(t) THEN [d EXCEPT !.foodTries = 0, !.playTries = 0] ELSE d

(* A variant that is one tick late. *)
ForgivenLate(d) ==
  CASE d.stacks = 0               -> [d EXCEPT !.decay = 0]
    [] d.stacks > 0 /\ d.decay + 1 > DecayTicks ->
         [d EXCEPT !.stacks = @ - 1, !.decay = 0]
    [] OTHER                      -> [d EXCEPT !.decay = @ + 1]

Forgiven(d) ==
  CASE d.stacks = 0               -> [d EXCEPT !.decay = 0]
    [] d.stacks > 0 /\ d.decay + 1 >= DecayTicks ->
         [d EXCEPT !.stacks = @ - 1, !.decay = 0]
    [] OTHER                      -> [d EXCEPT !.decay = @ + 1]

(* A variant that looks at the happiness of before the tick. *)
WatchedEarly(d) ==
  IF phase = "Phase2"
    THEN [d EXCEPT !.ticks2 = @ + 1, !.lowest = AtMost(@, dragon.happiness)]
    ELSE d

Watched(d) ==
  IF phase = "Phase2"
    THEN [d EXCEPT !.ticks2 = @ + 1, !.lowest = AtMost(@, d.happiness)]
    ELSE d

Steady(d) ==
  /\ phase = "Phase2"
  /\ d.happiness >= 60 /\ d.lowest >= 60 /\ d.ticks2 >= Threshold["steady"]

TickAwards(d) ==
  (IF d.happiness = 0 THEN {"rock_bottom"} ELSE {}) \cup
  (IF Steady(d) THEN {"steady_hand"} ELSE {})

(* The clock moves whoever is connected; the dragon of someone who is not  *)
(* connected does not feel it.                                             *)
AdvanceTick ==
  LET t == (time + 1) % DayLength
      d == Watched(Forgiven(Decayed(NewTries(dragon, t), t)))
  IN  /\ InCare /\ ticks < MaxTicks[phase]
      /\ time' = t
      /\ ticks' = ticks + 1
      /\ IF owner \in here
           THEN dragon' = d /\ Give(owner, TickAwards(d)) /\ Remember(d)
           ELSE UNCHANGED <<dragon, awards, deepest>>
      /\ UNCHANGED <<phase, owner, here>>

Connect(p)    == /\ here' = here \cup {p}
                 /\ UNCHANGED <<phase, time, owner, dragon, awards, ticks, deepest>>
Disconnect(p) == /\ here' = here \ {p}
                 /\ UNCHANGED <<phase, time, owner, dragon, awards, ticks, deepest>>

-----------------------------------------------------------------------------
(* Phases. *)

(* Phase 1 begins with new dragons and nobody awarded. *)
BeginPhase1 ==
  /\ phase' = "Phase1" /\ time' = Morning /\ owner' = Creator
  /\ \E a \in {"Day", "Night"}, r \in 1 .. 2 : dragon' = Fresh(a, r)
  /\ awards' = [p \in Player |-> {}]
  /\ ticks' = 0 /\ deepest' = 100

(* A reset, in any phase, drops the game; the next one starts afresh. *)
Restart == BeginPhase1 /\ UNCHANGED here

StartHandover == /\ phase = "Phase1" /\ phase' = "Handover"
                 /\ UNCHANGED <<time, owner, here, dragon, awards, ticks, deepest>>

(* A variant that keeps the number of right actions. *)
ResetKeepingRight(d) == [Fresh(d.active, d.rate) EXCEPT !.right = d.right]

(* The dragon goes to its keeper, its stats and counters start again. *)
StatsReset(d) == Fresh(d.active, d.rate)

EnterPhase2(p) ==
  /\ phase = "Handover" /\ phase' = "Phase2"
  /\ owner' = p /\ dragon' = StatsReset(dragon)
  /\ ticks' = 0 /\ deepest' = 100
  /\ UNCHANGED <<time, here, awards>>

(* What the counters of the phase that ends have earned. *)
Earned(d) ==
  LET wrong == d.wrongFood + d.wrongPlay + d.wrongSleep
      won   == [a \in EndAward |->
        CASE a = "no_mistakes"       -> /\ wrong = 0 /\ (d.foundFood \/ d.foundPlay)
                                        /\ d.total >= Threshold["noMistakes"]
          [] a = "zen_master"        -> d.stacks = 0 /\ d.total >= Threshold["zen"]
          [] a = "button_masher"     -> d.violations >= Threshold["masher"]
          [] a = "restful_rhythm"    -> /\ d.rightSleep >= Threshold["rests"]
                                        /\ d.wrongSleep = 0
                                        /\ d.total >= Threshold["rhythm"]
          [] a = "helicopter_parent" -> d.total >= Threshold["helicopter"]
          [] a = "comeback_kid"      -> /\ d.lowest <= Threshold["low"]
                                        /\ d.happiness >= Threshold["comeback"]
          [] a = "chaos_gremlin"     -> d.peak >= Threshold["chaos"]
          [] a = "perfectionist"     -> /\ d.total >= Threshold["perfect"]
                                        /\ d.right * 100 >= d.total * 80]
  IN  {a \in EndAward : won[a]}

AwardPhaseEnd == Give(owner, Earned(dragon))

(* The four ways out of phase 2. *)
Leave(next) == /\ phase = "Phase2" /\ phase' = next
               /\ AwardPhaseEnd
               /\ UNCHANGED <<time, owner, here, dragon, ticks, deepest>>

(* A variant that leaves without the awards. *)
LeaveUnawarded(next) == /\ phase = "Phase2" /\ phase' = next
                        /\ UNCHANGED <<time, owner, here, dragon, awards, ticks, deepest>>

EndGame              == Leave("Voting")
JudgeDelivers        == Leave("Judge")
AdvanceUnawarded     == LeaveUnawarded("Voting")
AdvanceOverduePhase  == Leave("Voting")
VoteAfterJudge       == /\ phase = "Judge" /\ phase' = "Voting"
                        /\ UNCHANGED <<time, owner, here, dragon, awards, ticks, deepest>>
StartVoting          == Leave("Voting") \/ VoteAfterJudge

-----------------------------------------------------------------------------
(* The specification. *)

Init ==
  /\ phase = "Phase1" /\ time = Morning /\ owner = Creator
  /\ \E a \in {"Day", "Night"}, r \in 1 .. 2 : dragon = Fresh(a, r)
  /\ here \in SUBSET Player
  /\ awards = [p \in Player |-> {}]
  /\ ticks = 0 /\ deepest = 100

Next ==
  \/ \E right \in BOOLEAN : Feed(right) \/ Play(right)
  \/ Sleep
  \/ Impatient
  \/ AdvanceTick
  \/ \E p \in Player : Connect(p) \/ Disconnect(p) \/ EnterPhase2(p)
  \/ StartHandover
  \/ EndGame
  \/ JudgeDelivers
  \/ AdvanceOverduePhase
  \/ StartVoting
  \/ Restart

Spec == Init /\ [][Next]_vars

-----------------------------------------------------------------------------
(* Properties. *)

(* Every variable keeps its type: above all, no stat leaves 0 .. 100 and   *)
(* no timer its range, whatever is added or taken, in whatever order.      *)
TypeOK ==
  /\ phase \in {"Phase1", "Handover", "Phase2", "Judge", "Voting"}
  /\ time \in 0 .. DayLength - 1
  /\ owner \in Player /\ here \subseteq Player
  /\ dragon \in Dragon
  /\ awards \in [Player -> SUBSET (ActionAward \cup TickAward \cup EndAward)]
  /\ ticks \in Nat /\ deepest \in Stat

(* The counters the judge and the awards read tell one story: each action  *)
(* of this phase is counted once and as one kind, stacks come from wrong   *)
(* actions, and what is found was found by a right one.                    *)
CountsAddUp ==
  /\ dragon.total = dragon.right + dragon.wrongFood + dragon.wrongPlay + dragon.wrongSleep
  /\ dragon.foodTries + dragon.playTries + dragon.rightSleep + dragon.wrongSleep <= dragon.total
  /\ dragon.stacks <= dragon.peak
  /\ dragon.peak <= dragon.wrongFood + dragon.wrongPlay + dragon.wrongSleep
  /\ dragon.rightSleep + (IF dragon.foundFood THEN 1 ELSE 0)
                       + (IF dragon.foundPlay THEN 1 ELSE 0) <= dragon.right
  /\ dragon.ticks2 <= ticks

(* phase2_lowest_happiness is read at ticks only, and so might miss a dip  *)
(* that an action makes and the next one repairs.  It does not: the        *)
(* cooldown puts a tick between any two actions, so once a tick has passed *)
(* after the last action the lowest is the deepest happiness there was,    *)
(* and a dragon that was at zero has earned its owner rock_bottom.  A      *)
(* comeback is only awarded to one that really was low.                    *)
NoDipUnseen ==
  /\ phase = "Phase2" /\ dragon.ticks2 > 0 /\ dragon.cooldown < 2 =>
       /\ dragon.lowest = deepest
       /\ deepest = 0 => "rock_bottom" \in awards[owner]
  /\ phase \in {"Judge", "Voting"} /\ "comeback_kid" \in awards[owner] =>
       deepest <= Threshold["low"]

(* Whoever finds the dragon's food and its game within three actions of a  *)
(* phase is a speed_learner, also when the same action earns another       *)
(* award, which is then the only one the action returns.                   *)
FastLearnersAwarded ==
  InCare /\ QuickStudy(dragon) => "speed_learner" \in awards[owner]

(* However phase 2 ended, by the host, the deadline or a judge that        *)
(* delivered early, its keeper has exactly the phase-end awards the final  *)
(* counters have earned, and nobody has any before.                        *)
PhaseEndAwarded ==
  \A p \in Player :
    awards[p] \cap EndAward =
      IF p = owner /\ phase \in {"Judge", "Voting"} THEN Earned(dragon) ELSE {}

(* steady_hand is given for a whole phase 2 of happiness: when it is, the  *)
(* dragon has never been below 60, between ticks neither, and enough       *)
(* ticks have passed.                                                      *)
SteadyHandIsSteady ==
  \A p \in Player :
    "steady_hand" \in awards'[p] \ awards[p] =>
      phase = "Phase2" /\ deepest' >= 60 /\ ticks' >= Threshold["steady"]

(* Awards are given when they are earned, and only then, whatever the      *)
(* order of actions, ticks, absences and ways to leave the phase.          *)
AwardsAreEarned ==
  [][FastLearnersAwarded' /\ PhaseEndAwarded' /\ SteadyHandIsSteady]_vars
=============================================================================
