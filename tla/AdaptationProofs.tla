--------------------------- MODULE AdaptationProofs ---------------------------
(***************************************************************************)
(* The resolution does not flap, for every number of levels and all          *)
(* holdoffs and dwells.                                                       *)
(***************************************************************************)
EXTENDS Adaptation, Induction

\* The controller's counters, and the step it is at.
ControllerOK ==
    /\ flags \in Flags /\ step \in Steps
    /\ holdoffs \in [improve : Nat, degrade : Nat, resImprove : Nat]
    /\ dwells \in [level : Nat, stable : Nat]
    /\ sinceLevel \in 0 .. (ResStableDwell + ResImproveHoldoff)

\* Since the level changed, the level has been right at most at every update, and the holdoff
\* of the resolution began to run down only after the stable dwell.
Waited ==
    /\ dwells.stable <= sinceLevel
    /\ dwells.stable <= ResStableDwell
    /\ holdoffs.resImprove <= ResImproveHoldoff
    /\ flags.resolution /\ holdoffs.resImprove < ResImproveHoldoff =>
          sinceLevel + 1 >= ResStableDwell + (ResImproveHoldoff - holdoffs.resImprove)

-----------------------------------------------------------------------------
(* The steps that an update moves to.                                       *)

LEMMA StepsOK ==
    /\ Levels \in Nat \ {0} /\ 3 * Levels - 1 \in Nat /\ 3 * Levels - 1 \in Steps /\ 0 \in Steps
    /\ Steps \subseteq Nat
BY AdaptationAssumption DEF Steps

LEMMA StepsNatural == ASSUME NEW s \in Steps PROVE s \in Nat
BY StepsOK

LEMMA NextImproveOK ==
    ASSUME NEW s \in Steps, NEW f
    PROVE  NextImproveStep(s, f) \in Steps /\ NextImproveStep(s, f) <= s
<1> DEFINE better == {t \in Steps : t < s /\ Effective(t, f)}
<1>1. CASE better = {}
  BY <1>1, StepsOK DEF NextImproveStep, Steps
<1>2. CASE better # {}
  <2>1. better \subseteq 0 .. (3 * Levels - 1)
    BY DEF Steps
  <2>2. Max(better) \in better
    <3> HIDE DEF better
    <3>. QED  BY <1>2, <2>1, StepsOK, MaxOfNaturals
  <2>3. NextImproveStep(s, f) = Max(better)
    BY <1>2 DEF NextImproveStep
  <2>4. NextImproveStep(s, f) \in Steps /\ NextImproveStep(s, f) < s
    BY <2>2, <2>3
  <2>. QED  BY <2>4, StepsNatural
<1>. QED  BY <1>1, <1>2

LEMMA NextDegradeOK ==
    ASSUME NEW s \in Steps, NEW f
    PROVE  NextDegradeStep(s, f) \in Steps /\ s <= NextDegradeStep(s, f)
<1> DEFINE worse == {t \in Steps : t > s /\ Effective(t, f)}
<1>1. CASE worse = {}
  BY <1>1, StepsOK DEF NextDegradeStep, Steps
<1>2. CASE worse # {}
  <2>1. Min(worse) \in worse
    <3>1. worse \subseteq Nat
      BY StepsOK
    <3> HIDE DEF worse
    <3>. QED  BY <1>2, <3>1, MinOfNaturals
  <2>2. NextDegradeStep(s, f) = Min(worse)
    BY <1>2 DEF NextDegradeStep
  <2>3. NextDegradeStep(s, f) \in Steps /\ s < NextDegradeStep(s, f)
    BY <2>1, <2>2
  <2>. QED  BY <2>3, StepsNatural
<1>. QED  BY <1>1, <1>2

LEMMA NormalizeOK ==
    ASSUME NEW s \in Steps, NEW f
    PROVE  NormalizeStep(s, f) \in Steps /\ Level(NormalizeStep(s, f)) = Level(s)
<1> DEFINE T == {t \in Steps : t <= s /\ Level(t) = Level(s) /\ Effective(t, f)}
<1>1. 3 * (s \div 3) \in T
  <2>1. /\ 3 * (s \div 3) \in Steps /\ 3 * (s \div 3) <= s
        /\ (3 * (s \div 3)) \div 3 = s \div 3 /\ (3 * (s \div 3)) % 3 = 0
    BY StepsOK DEF Steps
  <2>. QED  BY <2>1 DEF Effective, Level, Substep
<1>2. T \subseteq 0 .. (3 * Levels - 1)
  BY DEF Steps
<1>3. Max(T) \in T
  <2> HIDE DEF T
  <2>. QED  BY <1>1, <1>2, StepsOK, MaxOfNaturals
<1>. QED  BY <1>3 DEF NormalizeStep

LEMMA TargetOK ==
    ASSUME NEW value \in Stresses, NEW worsen \in BOOLEAN
    PROVE  Target[value][worsen] \in Steps
<1> DEFINE T == {s \in Steps : 3 * value < Threshold(s) + (IF worsen THEN Hysteresis ELSE -Hysteresis)}
                   \cup {3 * Levels - 1}
<1>1. T \subseteq Steps /\ T \subseteq Nat /\ T # {}
  BY StepsOK
<1>2. Min(T) \in T
  <2> HIDE DEF T
  <2>. QED  BY <1>1, MinOfNaturals
<1>. QED  BY <1>1, <1>2 DEF Target, StressToStep

LEMMA LevelNatural == ASSUME NEW s \in Steps PROVE Level(s) \in Nat
BY StepsOK DEF Level

LEMMA LevelMonotone ==
    ASSUME NEW s \in Steps, NEW t \in Steps, s <= t
    PROVE  Level(s) <= Level(t)
BY StepsOK DEF Level

-----------------------------------------------------------------------------
(* An update.                                                               *)

\* An update that changes the step: what it leaves, and what it asks of a rise of the resolution.
ChangeOf(next, holds, right) ==
    /\ Changes(next, holds, right)
    /\ next \in Steps
    /\ holds \in [improve : Nat, degrade : Nat, resImprove : Nat]
    /\ right \in 0 .. ResStableDwell /\ right <= dwells.stable + 1
    /\ holds.resImprove \in {holdoffs.resImprove, ResImproveHoldoff}
    /\ flags.resolution /\ Level(next) # Level(step) => holds.resImprove = ResImproveHoldoff
    /\ flags.resolution /\ Level(next) < Level(step) => right = ResStableDwell /\ holdoffs.resImprove = 0

\* One that waits.
WaitOf(holds, level, right) ==
    /\ Waits(holds, level, right)
    /\ holds \in [improve : Nat, degrade : Nat, resImprove : Nat] /\ level \in Nat
    /\ right \in 0 .. ResStableDwell /\ right <= dwells.stable + 1
    /\ \/ holds.resImprove = holdoffs.resImprove
       \/ holds.resImprove = holdoffs.resImprove - 1 /\ right = ResStableDwell

LEMMA UpdateIs ==
    ASSUME ControllerOK, NEW value \in Stresses, AbrUpdate(value)
    PROVE  /\ UNCHANGED flags
           /\ \/ \E next, holds, right : ChangeOf(next, holds, right)
              \/ \E holds, level, right : WaitOf(holds, level, right)
<1> DEFINE worse  == Target[value][TRUE]
           better == Target[value][FALSE]
           jump   == Level(worse) > Level(step)
           right  == IF worse <= step THEN Min({dwells.stable + 1, ResStableDwell}) ELSE 0
           dwell  == IF worse <= step THEN MinLevelDwell ELSE
                     IF jump /\ flags.resolution THEN ResDegradeDwell ELSE DegradeDwell
           down   == IF jump THEN NormalizeStep(worse, flags) ELSE NextDegradeStep(step, flags)
           up     == NextImproveStep(step, flags)
           resDown == flags.resolution /\ (jump \/ Level(down) > Level(step))
           resUp  == flags.resolution /\ Level(up) < Level(step)
<1> USE DEF ControllerOK
<1>1. worse \in Steps /\ better \in Steps /\ step \in Steps
  BY TargetOK
<1>2. /\ ResStableDwell \in Nat /\ ImproveHoldoff \in Nat /\ DegradeHoldoff \in Nat
      /\ ResImproveHoldoff \in Nat /\ ResDegradeHoldoff \in Nat
  BY AdaptationAssumption
<1>3. right \in 0 .. ResStableDwell /\ right <= dwells.stable + 1
  <2>1. dwells.stable + 1 \in Nat
    OBVIOUS
  <2>2. Min({dwells.stable + 1, ResStableDwell}) =
           IF dwells.stable + 1 <= ResStableDwell THEN dwells.stable + 1 ELSE ResStableDwell
    BY <1>2, <2>1, MinOfTwo
  <2>3. CASE worse <= step
    BY <1>2, <2>1, <2>2, <2>3
  <2>4. CASE ~(worse <= step)
    BY <1>2, <2>1, <2>4
  <2>. QED  BY <2>3, <2>4
<1>4. down \in Steps /\ Level(step) <= Level(down)
  <2>1. CASE jump
    <3>1. down \in Steps /\ Level(down) = Level(worse)
      BY <1>1, <2>1, NormalizeOK
    <3>2. Level(worse) \in Nat /\ Level(step) \in Nat
      BY <1>1, LevelNatural
    <3> HIDE DEF worse, down
    <3>. QED  BY <2>1, <3>1, <3>2
  <2>2. CASE ~jump
    BY <1>1, <2>2, NextDegradeOK, LevelMonotone
  <2>. QED  BY <2>1, <2>2
<1>5. up \in Steps /\ Level(up) <= Level(step)
  BY <1>1, NextImproveOK, LevelMonotone
<1> HIDE DEF worse, better, down, up
<1>6. Level(step) \in Nat /\ Level(up) \in Nat /\ Level(down) \in Nat
  BY <1>1, <1>4, <1>5, LevelNatural
<1>7. Rested \in [improve : Nat, degrade : Nat, resImprove : Nat] /\ Rested.resImprove = ResImproveHoldoff
  BY <1>2 DEF Rested
<1>8. UNCHANGED flags
  BY DEF AbrUpdate
<1> HIDE DEF right
<1>9. IF dwells.level < dwell THEN Waits(holdoffs, dwells.level + 1, right)
      ELSE IF worse > step THEN
         IF holdoffs.degrade > 0 THEN Waits([holdoffs EXCEPT !.degrade = Spend(@)], dwells.level, right)
         ELSE Changes(down, [Rested EXCEPT !.degrade = IF resDown THEN ResDegradeHoldoff ELSE @], right)
      ELSE IF better < step THEN
         IF resUp /\ right < ResStableDwell THEN Waits(holdoffs, dwells.level, right)
         ELSE IF resUp /\ holdoffs.resImprove > 0
              THEN Waits([holdoffs EXCEPT !.resImprove = Spend(@)], dwells.level, right)
         ELSE IF ~resUp /\ holdoffs.improve > 0
              THEN Waits([holdoffs EXCEPT !.improve = Spend(@)], dwells.level, right)
         ELSE Changes(up, [Rested EXCEPT !.resImprove = IF resUp THEN @ ELSE holdoffs.resImprove], right)
      ELSE Waits([Rested EXCEPT !.resImprove = holdoffs.resImprove], dwells.level, right)
  BY DEF AbrUpdate, worse, better, down, up, right
<1> HIDE DEF dwell, resDown
<1>10. \A n \in Nat : Spend(n) \in Nat /\ (n > 0 => Spend(n) = n - 1)
  BY DEF Spend
<1>11. dwells.level \in Nat
  OBVIOUS
<1>12. ASSUME NEW holds, NEW level, Waits(holds, level, right), level \in Nat,
              holds \in [improve : Nat, degrade : Nat, resImprove : Nat],
              \/ holds.resImprove = holdoffs.resImprove
              \/ holds.resImprove = holdoffs.resImprove - 1 /\ right = ResStableDwell
       PROVE  \E h, l, r : WaitOf(h, l, r)
  BY <1>3, <1>12 DEF WaitOf
<1>13. CASE dwells.level < dwell
  <2>1. Waits(holdoffs, dwells.level + 1, right)
    BY <1>9, <1>13
  <2>. QED  BY <1>8, <1>11, <1>12, <2>1
<1>14. CASE ~(dwells.level < dwell) /\ worse > step
  <2>1. CASE holdoffs.degrade > 0
    <3> DEFINE holds == [holdoffs EXCEPT !.degrade = Spend(@)]
    <3>1. Waits(holds, dwells.level, right)
      BY <1>9, <1>14, <2>1
    <3>2. holds \in [improve : Nat, degrade : Nat, resImprove : Nat] /\ holds.resImprove = holdoffs.resImprove
      BY <1>10
    <3> HIDE DEF holds
    <3>. QED  BY <1>8, <1>11, <1>12, <3>1, <3>2
  <2>2. CASE ~(holdoffs.degrade > 0)
    <3> DEFINE holds == [Rested EXCEPT !.degrade = IF resDown THEN ResDegradeHoldoff ELSE @]
    <3>1. Changes(down, holds, right)
      BY <1>9, <1>14, <2>2
    <3>2. /\ holds \in [improve : Nat, degrade : Nat, resImprove : Nat]
          /\ holds.resImprove = ResImproveHoldoff
      BY <1>2, <1>7
    <3>3. ~(Level(down) < Level(step))
      BY <1>4, <1>6
    <3> HIDE DEF holds
    <3>4. ChangeOf(down, holds, right)
      BY <1>3, <1>4, <3>1, <3>2, <3>3 DEF ChangeOf
    <3>. QED  BY <1>8, <3>4
  <2>. QED  BY <2>1, <2>2
<1>15. CASE ~(dwells.level < dwell) /\ ~(worse > step) /\ better < step
  <2>1. CASE resUp /\ right < ResStableDwell
    <3>1. Waits(holdoffs, dwells.level, right)
      BY <1>9, <1>15, <2>1
    <3>. QED  BY <1>8, <1>11, <1>12, <3>1
  <2>2. CASE resUp /\ ~(right < ResStableDwell) /\ holdoffs.resImprove > 0
    <3> DEFINE holds == [holdoffs EXCEPT !.resImprove = Spend(@)]
    <3>1. Waits(holds, dwells.level, right)
      BY <1>9, <1>15, <2>2
    <3>2. /\ holds \in [improve : Nat, degrade : Nat, resImprove : Nat]
          /\ holds.resImprove = holdoffs.resImprove - 1
      BY <1>10, <2>2
    <3>3. right = ResStableDwell
      BY <1>2, <1>3, <2>2
    <3> HIDE DEF holds
    <3>. QED  BY <1>8, <1>11, <1>12, <3>1, <3>2, <3>3
  <2>3. CASE ~resUp /\ holdoffs.improve > 0
    <3> DEFINE holds == [holdoffs EXCEPT !.improve = Spend(@)]
    <3>1. Waits(holds, dwells.level, right)
      BY <1>9, <1>15, <2>3
    <3>2. holds \in [improve : Nat, degrade : Nat, resImprove : Nat] /\ holds.resImprove = holdoffs.resImprove
      BY <1>10
    <3> HIDE DEF holds
    <3>. QED  BY <1>8, <1>11, <1>12, <3>1, <3>2
  <2>4. CASE /\ resUp => ~(right < ResStableDwell) /\ ~(holdoffs.resImprove > 0)
             /\ ~resUp => ~(holdoffs.improve > 0)
    <3> DEFINE holds == [Rested EXCEPT !.resImprove = IF resUp THEN @ ELSE holdoffs.resImprove]
    <3>1. Changes(up, holds, right)
      BY <1>9, <1>15, <2>4
    <3>2. /\ holds \in [improve : Nat, degrade : Nat, resImprove : Nat]
          /\ resUp => holds.resImprove = ResImproveHoldoff
          /\ ~resUp => holds.resImprove = holdoffs.resImprove
      BY <1>7
    <3>3. flags.resolution /\ Level(up) # Level(step) => resUp
      BY <1>5, <1>6
    <3>4. resUp => right = ResStableDwell /\ holdoffs.resImprove = 0
      BY <1>2, <1>3, <2>4
    <3>5. flags.resolution /\ Level(up) < Level(step) => resUp
      OBVIOUS
    <3> HIDE DEF holds, resUp
    <3>6. ChangeOf(up, holds, right)
      BY <1>3, <1>5, <3>1, <3>2, <3>3, <3>4, <3>5 DEF ChangeOf
    <3>. QED  BY <1>8, <3>6
  <2>. QED  BY <2>1, <2>2, <2>3, <2>4
<1>16. CASE ~(dwells.level < dwell) /\ ~(worse > step) /\ ~(better < step)
  <2> DEFINE holds == [Rested EXCEPT !.resImprove = holdoffs.resImprove]
  <2>1. Waits(holds, dwells.level, right)
    BY <1>9, <1>16
  <2>2. holds \in [improve : Nat, degrade : Nat, resImprove : Nat] /\ holds.resImprove = holdoffs.resImprove
    BY <1>7
  <2> HIDE DEF holds
  <2>. QED  BY <1>8, <1>11, <1>12, <2>1, <2>2
<1>. QED  BY <1>13, <1>14, <1>15, <1>16

\* What an update leaves, and that a rise of the resolution waited.
LEMMA UpdateKeeps ==
    ASSUME ControllerOK, Waited, NEW value \in Stresses, AbrUpdate(value)
    PROVE  /\ ControllerOK' /\ Waited'
           /\ flags.resolution /\ Level(step') < Level(step) => sinceLevel + 1 >= ResStableDwell + ResImproveHoldoff
<1> DEFINE N == ResStableDwell + ResImproveHoldoff
<1> USE DEF ControllerOK, Waited
<1>1. /\ UNCHANGED flags
      /\ \/ \E next, holds, right : ChangeOf(next, holds, right)
         \/ \E holds, level, right : WaitOf(holds, level, right)
  BY UpdateIs
<1>2. ResStableDwell \in Nat /\ ResImproveHoldoff \in Nat /\ sinceLevel \in Nat /\ N \in Nat
  BY AdaptationAssumption
<1>3. Min({sinceLevel + 1, N}) = IF sinceLevel + 1 <= N THEN sinceLevel + 1 ELSE N
  BY <1>2, MinOfTwo
<1>4. ASSUME NEW next, NEW holds, NEW right, ChangeOf(next, holds, right)
      PROVE  /\ ControllerOK' /\ Waited'
             /\ flags.resolution /\ Level(step') < Level(step) => sinceLevel + 1 >= N
  <2>1. /\ step' = next /\ next \in Steps /\ holdoffs' = holds
        /\ dwells' = [level |-> 0, stable |-> IF Level(next) # Level(step) THEN 0 ELSE right]
        /\ sinceLevel' = IF Level(next) # Level(step) THEN 0 ELSE Min({sinceLevel + 1, N})
        /\ holds \in [improve : Nat, degrade : Nat, resImprove : Nat]
        /\ right \in 0 .. ResStableDwell /\ right <= dwells.stable + 1
    BY <1>4 DEF ChangeOf, Changes
  <2>2. /\ holds.resImprove \in {holdoffs.resImprove, ResImproveHoldoff}
        /\ flags.resolution /\ Level(next) # Level(step) => holds.resImprove = ResImproveHoldoff
        /\ flags.resolution /\ Level(next) < Level(step) => right = ResStableDwell /\ holdoffs.resImprove = 0
    BY <1>4 DEF ChangeOf
  <2>3. flags.resolution /\ Level(step') < Level(step) => sinceLevel + 1 >= N
    BY <1>2, <2>1, <2>2
  <2>4. CASE Level(next) # Level(step)
    BY <1>1, <1>2, <2>1, <2>2, <2>3, <2>4
  <2>5. CASE Level(next) = Level(step)
    BY <1>1, <1>2, <1>3, <2>1, <2>2, <2>3, <2>5
  <2>. QED  BY <2>4, <2>5
<1>5. ASSUME NEW holds, NEW level, NEW right, WaitOf(holds, level, right)
      PROVE  ControllerOK' /\ Waited' /\ step' = step
  <2>1. /\ step' = step /\ holdoffs' = holds /\ dwells' = [level |-> level, stable |-> right]
        /\ sinceLevel' = Min({sinceLevel + 1, N})
        /\ holds \in [improve : Nat, degrade : Nat, resImprove : Nat] /\ level \in Nat
        /\ right \in 0 .. ResStableDwell /\ right <= dwells.stable + 1
        /\ \/ holds.resImprove = holdoffs.resImprove
           \/ holds.resImprove = holdoffs.resImprove - 1 /\ right = ResStableDwell
    BY <1>5 DEF WaitOf, Waits
  <2>. QED  BY <1>1, <1>2, <1>3, <2>1
<1>6. ~(Level(step) < Level(step))
  BY LevelNatural
<1>. QED  BY <1>1, <1>4, <1>5, <1>6

-----------------------------------------------------------------------------

LEMMA WaitedInit == Init => ControllerOK /\ Waited
<1>1. 0 \in Steps
  BY StepsOK
<1>. QED  BY <1>1, AdaptationAssumption DEF Init, ControllerOK, Waited, Rested

LEMMA WaitedNext ==
    ASSUME ControllerOK, Waited, [Next]_vars
    PROVE  /\ ControllerOK' /\ Waited'
           /\ flags.resolution /\ Level(step') < Level(step) => sinceLevel + 1 >= ResStableDwell + ResImproveHoldoff
<1>1. CASE \E value \in Stresses : AbrUpdate(value)
  BY <1>1, UpdateKeeps
<1>2. CASE UNCHANGED <<flags, step, holdoffs, dwells, sinceLevel>>
  <2>1. ~(Level(step) < Level(step))
    BY LevelNatural DEF ControllerOK
  <2>. QED  BY <1>2, <2>1 DEF ControllerOK, Waited
<1>3. ASSUME NEW value \in Stresses, SvcUpdate(value) \/ Steady(value)
      PROVE  UNCHANGED <<flags, step, holdoffs, dwells, sinceLevel>>
  BY <1>3 DEF SvcUpdate, Steady, controller
<1>4. ASSUME NEW count \in LayerCounts, Reconfigure(count) PROVE UNCHANGED <<flags, step, holdoffs, dwells, sinceLevel>>
  BY <1>4 DEF Reconfigure, controller
<1>5. ASSUME \/ ReadGeneration \/ ReadConfig \/ ReadWidth \/ CaptureFrame \/ UNCHANGED vars
             \/ \E opened \in BOOLEAN : ApplyVideoConfig(opened)
      PROVE  UNCHANGED <<flags, step, holdoffs, dwells, sinceLevel>>
  BY <1>5 DEF ReadGeneration, ReadConfig, ApplyVideoConfig, ReadWidth, CaptureFrame, vars, controller
<1>. QED  BY <1>1, <1>2, <1>3, <1>4, <1>5 DEF Next

(***************************************************************************)
(* The resolution rises only after the stable dwell and then the holdoff,    *)
(* whatever the stress does, for every number of levels and all dwells and   *)
(* holdoffs (moq_loc_abr_update).                                             *)
(***************************************************************************)
THEOREM NoFlapping == Spec => UpgradesApart
<1>1. Init => ControllerOK /\ Waited
  BY WaitedInit
<1>2. ControllerOK /\ Waited /\ [Next]_vars => (ControllerOK /\ Waited)'
  BY WaitedNext
<1>3. ControllerOK /\ Waited /\ [Next]_vars =>
         [flags.resolution /\ Level(step') < Level(step) => sinceLevel + 1 >= ResStableDwell + ResImproveHoldoff]_vars
  BY WaitedNext
<1>. QED  BY <1>1, <1>2, <1>3, PTL DEF Spec, UpgradesApart

=============================================================================
