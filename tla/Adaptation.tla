----------------------------- MODULE Adaptation -----------------------------
(***************************************************************************)
(* Adaptive streaming of the live senders (examples/moq-loc-abr.c,           *)
(* moq-loc-svc.c, and their threads in moq-loc-send.c).  A thread turns      *)
(* the stress of the network into a step: every level of quality has three   *)
(* (as configured, less bitrate, fewer frames).  The thread that captures    *)
(* scales to the resolution of the step, and the one that encodes opens its  *)
(* encoder again for it; each reads the controller in sections of its own.   *)
(* Codecs with layers have a controller that bounds the layers instead.      *)
(* Stress is in thousandths; how it is measured is left out.                 *)
(***************************************************************************)
EXTENDS Integers, FiniteSetsExt

CONSTANTS
    NULL,
    Stresses,        \* values that the stress takes, in thousandths
    Flags,           \* what may be adapted: [resolution, bitrate, framerate]
    Levels,          \* MOQ_LOC_ABR_LEVELS, of which there are six
    MaxQuality,      \* as configured: [width, height, fps, bitrate]
    ImproveHoldoff, DegradeHoldoff, ResImproveHoldoff, ResDegradeHoldoff,
    ResStableDwell, MinLevelDwell, DegradeDwell, ResDegradeDwell,
    Hysteresis,      \* MOQ_LOC_ABR_STRESS_HYSTERESIS, in thousandths
    LayerCounts,     \* numbers of layers of a codec that has them
    LayerHoldoff     \* updates before a bound of the layers is raised again

ASSUME AdaptationAssumption ==
    /\ Stresses \subseteq 0..1000 /\ Stresses # {}
    /\ Levels \in 1..6 /\ Flags \subseteq [resolution : BOOLEAN, bitrate : BOOLEAN, framerate : BOOLEAN]
    /\ {ImproveHoldoff, DegradeHoldoff, ResImproveHoldoff, ResDegradeHoldoff, ResStableDwell,
        MinLevelDwell, DegradeDwell, ResDegradeDwell, Hysteresis, LayerHoldoff} \subseteq Nat
    /\ LayerCounts \subseteq Nat \ {0}

VARIABLES
    stress,    \* of every update from now on, NULL while it changes
    flags,     \* what is adapted
    step,      \* 3 * level + substep
    holdoffs,  \* updates to wait: improve, degrade, resImprove
    dwells,    \* updates since the step changed, and since the level was right
    layers,    \* of a codec with layers: how many, the bound, the holdoff
    encoder,   \* open, the step of its settings, the generation it applied, the one it read and the step it read
    captured,  \* width read by the capturing thread, and of the latest frame
    sinceLevel \* updates since the level last changed (history)

controller == <<step, holdoffs, dwells, layers, sinceLevel>>
vars == <<stress, flags, step, holdoffs, dwells, layers, encoder, captured, sinceLevel>>

Steps == 0..(3 * Levels - 1)
Level(s) == s \div 3
Substep(s) == s % 3

-----------------------------------------------------------------------------
(* The ladder of settings.                                                  *)

EvenDim(n) == IF n <= 0 THEN 2 ELSE n + (n % 2)
Rounded(a, b) == (2 * a + b) \div (2 * b)
ScaleResolution(percent, minWidth) ==
    LET W == MaxQuality.width
        H == MaxQuality.height
        least == IF minWidth > 0 THEN minWidth ELSE EvenDim(W \div 4)
        w == EvenDim(Max({(W * percent) \div 100, least}))
        wide == Min({w, W})
        high == EvenDim(Rounded(wide * H, W))
    IN  IF high > H THEN EvenDim(Rounded(H * W, H)) ELSE wide

Ladder(level) ==
    LET at(s) == s[level + 1]
    IN  [width   |-> ScaleResolution(at(<<100, 78, 58, 42, 28, 16>>), at(<<0, 0, 0, 320, 320, 160>>)),
         fps     |-> Max({(MaxQuality.fps * at(<<100, 85, 65, 45, 30, 15>>)) \div 100, at(<<1, 1, 1, 1, 5, 2>>)}),
         bitrate |-> Max({(MaxQuality.bitrate * at(<<100, 70, 50, 36, 25, 16>>)) \div 100, at(<<0, 0, 0, 0, 64000, 32000>>)})]

\* moq_loc_abr_apply_step; what is not adapted stays that of the first level.
Settings(s, f) ==
    LET base == Ladder(Level(s))
        last == Level(s) = Levels - 1
        next == IF last THEN base ELSE Ladder(Level(s) + 1)
        Lower(a, b) == IF last THEN a \div 2 ELSE (a + b) \div 2
    IN  [width   |-> IF f.resolution THEN base.width ELSE Ladder(0).width,
         bitrate |-> IF ~f.bitrate THEN Ladder(0).bitrate ELSE
                     IF Substep(s) >= 1 THEN Lower(base.bitrate, next.bitrate) ELSE base.bitrate,
         fps     |-> IF ~f.framerate THEN Ladder(0).fps ELSE
                     IF Substep(s) = 2 THEN Max({1, Lower(base.fps, next.fps)}) ELSE base.fps]

\* The ladder as it is built once (moq_loc_abr_build_ladder), by flags.
Quality == [f \in Flags |-> [s \in Steps |-> Settings(s, f)]]

-----------------------------------------------------------------------------
(* Steps.                                                                   *)

Effective(s, f) == CASE Substep(s) = 0 -> TRUE
                     [] Substep(s) = 1 -> f.bitrate
                     [] OTHER -> f.bitrate \/ f.framerate
NormalizeStep(s, f) == Max({t \in Steps : t <= s /\ Level(t) = Level(s) /\ Effective(t, f)})
NextDegradeStep(s, f) ==
    LET worse == {t \in Steps : t > s /\ Effective(t, f)} IN IF worse = {} THEN 3 * Levels - 1 ELSE Min(worse)
NextImproveStep(s, f) ==
    LET better == {t \in Steps : t < s /\ Effective(t, f)} IN IF better = {} THEN 0 ELSE Max(better)

\* Thresholds are compared three times as large: the spans are in thirds.
LevelStart(level) == <<0, 120, 280, 420, 580, 740>>[level + 1]
LevelEnd(level) == IF level = Levels - 1 THEN 1000 ELSE LevelStart(level + 1)
Threshold(s) == 3 * LevelStart(Level(s)) + (LevelEnd(Level(s)) - LevelStart(Level(s))) * (Substep(s) + 1)

\* Mutant: the margins are the wrong way round.
StressToStepSwapped(value, worsen) ==
    Min({s \in Steps : 3 * value < Threshold(s) + (IF worsen THEN -Hysteresis ELSE Hysteresis)} \cup {3 * Levels - 1})
StressToStep(value, worsen) ==
    Min({s \in Steps : 3 * value < Threshold(s) + (IF worsen THEN Hysteresis ELSE -Hysteresis)} \cup {3 * Levels - 1})

Target == [value \in Stresses |-> [worsen \in BOOLEAN |-> StressToStep(value, worsen)]]

-----------------------------------------------------------------------------
(* The controllers.                                                         *)

Spend(n) == IF n > 0 THEN n - 1 ELSE 0
Rested == [improve |-> ImproveHoldoff, degrade |-> DegradeHoldoff, resImprove |-> ResImproveHoldoff]

Stress(value) == stress \in {NULL, value}

\* Whatever took the last generation took an older one from now on.
Older(e) == [e EXCEPT !.applied = "old", !.seen = IF @ = NULL THEN NULL ELSE "old"]

\* Mutant: the holdoff of the resolution goes on where it was.
ChangesUnrested(next, holds, right) ==
    /\ step' = next /\ holdoffs' = [holds EXCEPT !.resImprove = holdoffs.resImprove]
    /\ dwells' = [level |-> 0, stable |-> IF Level(next) # Level(step) THEN 0 ELSE right]
    /\ sinceLevel' = IF Level(next) # Level(step) THEN 0 ELSE Min({sinceLevel + 1, ResStableDwell + ResImproveHoldoff})
    /\ encoder' = Older(encoder)
Changes(next, holds, right) ==
    /\ step' = next /\ holdoffs' = holds
    /\ dwells' = [level |-> 0, stable |-> IF Level(next) # Level(step) THEN 0 ELSE right]
    /\ sinceLevel' = IF Level(next) # Level(step) THEN 0 ELSE Min({sinceLevel + 1, ResStableDwell + ResImproveHoldoff})
    /\ encoder' = Older(encoder)
Waits(holds, level, right) ==
    /\ holdoffs' = holds /\ dwells' = [level |-> level, stable |-> right]
    /\ sinceLevel' = Min({sinceLevel + 1, ResStableDwell + ResImproveHoldoff})
    /\ UNCHANGED <<step, encoder>>

AbrUpdate(value) ==
    /\ layers = NULL /\ Stress(value)
    /\ LET worse  == Target[value][TRUE]
           better == Target[value][FALSE]
           jump   == Level(worse) > Level(step)
           right  == IF worse <= step THEN Min({dwells.stable + 1, ResStableDwell}) ELSE 0
           dwell  == IF worse <= step THEN MinLevelDwell ELSE
                     IF jump /\ flags.resolution THEN ResDegradeDwell ELSE DegradeDwell
           down   == IF jump THEN NormalizeStep(worse, flags) ELSE NextDegradeStep(step, flags)
           up     == NextImproveStep(step, flags)
           resDown == flags.resolution /\ (jump \/ Level(down) > Level(step))
           resUp  == flags.resolution /\ Level(up) < Level(step)
       IN  IF dwells.level < dwell THEN Waits(holdoffs, dwells.level + 1, right)
           ELSE IF worse > step THEN
              IF holdoffs.degrade > 0 THEN Waits([holdoffs EXCEPT !.degrade = Spend(@)], dwells.level, right)
              ELSE Changes(down, [Rested EXCEPT !.degrade = IF resDown THEN ResDegradeHoldoff ELSE @], right)
           ELSE IF better < step THEN
              IF resUp /\ right < ResStableDwell THEN Waits(holdoffs, dwells.level, right)
              ELSE IF resUp /\ holdoffs.resImprove > 0
                   THEN Waits([holdoffs EXCEPT !.resImprove = Spend(@)], dwells.level, right)
              ELSE IF ~resUp /\ holdoffs.improve > 0
                   THEN Waits([holdoffs EXCEPT !.improve = Spend(@)], dwells.level, right)
              ELSE Changes(up, [Rested EXCEPT !.resImprove = IF resUp THEN @ ELSE holdoffs.resImprove], right)
           ELSE Waits([Rested EXCEPT !.resImprove = holdoffs.resImprove], dwells.level, right)
    /\ UNCHANGED <<stress, flags, layers, captured>>

TargetMaxLayer(count, value) == (count - 1) - ((value * (count - 1) + 490) \div 1000)

Bounded(l, target) ==
    IF target < l.max THEN [l EXCEPT !.max = target, !.holdoff = LayerHoldoff] ELSE
    IF l.holdoff > 0 THEN [l EXCEPT !.holdoff = @ - 1] ELSE
    IF target > l.max THEN [l EXCEPT !.max = target, !.holdoff = LayerHoldoff] ELSE l
SvcUpdate(value) ==
    /\ layers # NULL /\ Stress(value)
    /\ layers' = IF layers.count < 2 THEN layers ELSE Bounded(layers, TargetMaxLayer(layers.count, value))
    /\ UNCHANGED <<stress, flags, step, holdoffs, dwells, sinceLevel, encoder, captured>>
\* A catalog names other numbers of layers.
Reconfigure(count) ==
    /\ layers # NULL /\ stress = NULL /\ count # layers.count
    /\ layers' = [count |-> count, max |-> count - 1, holdoff |-> 0]
    /\ UNCHANGED <<stress, flags, step, holdoffs, dwells, sinceLevel, encoder, captured>>

\* The network: from some moment on nothing changes.
Steady(value) ==
    /\ stress = NULL /\ stress' = value
    /\ UNCHANGED <<flags, encoder, captured, controller>>

-----------------------------------------------------------------------------
(* The threads of the sender.                                               *)

ReadGeneration ==
    /\ layers = NULL /\ encoder.seen = NULL /\ encoder.applied = "old"
    /\ encoder' = [encoder EXCEPT !.seen = "current"]
    /\ UNCHANGED <<stress, flags, captured, controller>>

ReadConfig ==
    /\ encoder.seen # NULL /\ encoder.config = NULL
    /\ encoder' = [encoder EXCEPT !.config = step]
    /\ UNCHANGED <<stress, flags, captured, controller>>

\* Mutant: the generation is read again once the settings are applied.
AppliedLate(e) == [e EXCEPT !.open = TRUE, !.step = e.config, !.applied = "current", !.seen = NULL, !.config = NULL]
Applied(e) == [e EXCEPT !.open = TRUE, !.step = e.config, !.applied = e.seen, !.seen = NULL, !.config = NULL]
Reopens(to) == \/ ~encoder.open
               \/ Quality[flags][to].width # Quality[flags][encoder.step].width
               \/ Quality[flags][to].fps # Quality[flags][encoder.step].fps
ApplyVideoConfig(opened) ==
    /\ encoder.config # NULL
    /\ ~opened => Reopens(encoder.config)
    /\ encoder' = IF opened THEN Applied(encoder) ELSE [encoder EXCEPT !.open = FALSE, !.seen = NULL, !.config = NULL]
    /\ captured' = IF opened /\ Reopens(encoder.config) THEN [captured EXCEPT !.frame = NULL] ELSE captured
    /\ UNCHANGED <<stress, flags, controller>>

ReadWidth ==
    /\ layers = NULL /\ captured.width = NULL
    /\ captured' = [captured EXCEPT !.width = Quality[flags][step].width]
    /\ UNCHANGED <<stress, flags, encoder, controller>>
CaptureFrame ==
    /\ captured.width # NULL
    /\ captured' = [width |-> NULL, frame |-> captured.width]
    /\ UNCHANGED <<stress, flags, encoder, controller>>

Init ==
    /\ stress = NULL /\ flags \in Flags
    /\ step = 0 /\ holdoffs = Rested
    /\ dwells = [level |-> MinLevelDwell, stable |-> 0]
    /\ layers \in {NULL} \cup {[count |-> n, max |-> n - 1, holdoff |-> 0] : n \in LayerCounts}
    /\ encoder = [open |-> TRUE, step |-> 0, applied |-> "current", seen |-> NULL, config |-> NULL]
    /\ captured = [width |-> NULL, frame |-> NULL]
    /\ sinceLevel = ResStableDwell + ResImproveHoldoff

Next ==
    \/ \E value \in Stresses : AbrUpdate(value) \/ SvcUpdate(value)
    \/ \E count \in LayerCounts : Reconfigure(count)
    \/ \E value \in Stresses : Steady(value)
    \/ ReadGeneration \/ ReadConfig
    \/ \E opened \in BOOLEAN : ApplyVideoConfig(opened)
    \/ ReadWidth
    \/ CaptureFrame

\* The threads go on, and an encoder that can be opened is at last.
Fairness ==
    /\ WF_vars(\E value \in Stresses : AbrUpdate(value) \/ SvcUpdate(value))
    /\ WF_vars(ReadGeneration \/ ReadConfig) /\ SF_vars(ApplyVideoConfig(TRUE))
    /\ WF_vars(ReadWidth \/ CaptureFrame)
Spec == Init /\ [][Next]_vars /\ Fairness

-----------------------------------------------------------------------------
(* Properties.                                                              *)

\* Resolution does not flap: from a change of level to the next rise of the resolution the
\* stable dwell and the holdoff both pass, one after the other (moq_loc_abr_update).
UpgradesApart ==
    [][flags.resolution /\ Level(step') < Level(step) => sinceLevel + 1 >= ResStableDwell + ResImproveHoldoff]_vars

\* Under a stress that stays, the controller comes to rest where both of its targets agree
\* to stay, and the bound of the layers at the layer the stress allows.  (Once the stress
\* is not NULL it stays as it is.)
AtRest == IF layers = NULL THEN Target[stress][TRUE] <= step /\ step <= Target[stress][FALSE]
          ELSE layers.count < 2 \/ layers.max = TargetMaxLayer(layers.count, stress)
Settles == <>[](stress # NULL => AtRest)

\* What the controller comes to rest at is applied: the encoder ends up with these settings,
\* and with frames of its own width to encode (imquic_demo_video_enc_thread skips others).
EncoderFollows ==
    <>[](stress # NULL /\ layers = NULL =>
            /\ encoder.open /\ Quality[flags][encoder.step] = Quality[flags][step]
            /\ captured.frame # NULL => captured.frame = Quality[flags][step].width)

=============================================================================
