---------------------------- MODULE FgLearningProofs ----------------------------
(***************************************************************************)
(* Theorems about the learning run, for any number of cycles, cap on       *)
(* gauge losses, runs and mishaps, with a reset or a failed write at any   *)
(* point: the counters stay within their caps, a cell is verified only     *)
(* after cycles that are accounted for, and a verdict that is shown is     *)
(* stored unless its saves were given up.                                  *)
(*                                                                         *)
(* What NVS holds may be half of a save.  BookInv says how it can differ   *)
(* from what the controller holds: the stored stage may be ahead, but the  *)
(* stored counters never are.  EarnedInv adds what the discharges so far   *)
(* pay for.  HeldInv, about the verdict, needs neither.                    *)
(***************************************************************************)
EXTENDS FgLearning, TLAPS

\* Stages in which a gauge reset costs the cycle.
Cycling == {"Charge", "Rest", "Discharge", "CycleDone"}

\* A save of the controller's own values, not of an armed or a cleared run.
Own == job.next \in {"loop", "hold", "ship"}

\* What is being saved is what the controller holds, or the end of its discharge.
GoalInv ==
  /\ at = "saving" /\ job.next \in {"loop", "hold"} => job.goal = ctl
  /\ job.next = "hold" => ctl.stage \in Terminal
  /\ job.next = "ship" =>
       /\ ctl.stage = "Discharge" /\ job.goal.stage = "CycleDone"
       /\ job.goal.cycle = ctl.cycle /\ job.goal.losses = ctl.losses
  /\ job.next = "clear" => job.goal = Default /\ ctl = Default
  /\ job.next = "arm" =>
       job.goal = [stage |-> "Charge", cycle |-> 1, losses |-> 0] /\ ctl = Default

\* How far a save has come; a run being armed starts from no run.
SavedInv ==
  /\ job.key \in {2, 3} /\ job.next # "clear" => nvs.stage = job.goal.stage
  /\ job.next = "arm" => nvs.stage \in {"Idle", "Charge"}

\* The stored counters are never ahead of the controller's.
BehindInv ==
  at \in {"loop", "saving"} /\ Own => nvs.cycle <= ctl.cycle /\ nvs.losses <= ctl.losses

\* A run that still cycles has not used up its losses, which may be those of the runs before.
LossCap == ITPOR_LOSS_CAP + runs
LossInv ==
  /\ ctl.losses <= LossCap /\ nvs.losses <= LossCap
  /\ ctl.stage \in Cycling => ctl.losses < LossCap
  /\ nvs.stage \in Cycling \/ job.next = "arm" => nvs.losses < LossCap

\* Verifying is never stored, and follows the last cycle.
VerifyInv ==
  /\ nvs.stage # "Verify" /\ job.goal.stage # "Verify"
  /\ ctl.stage = "Verify" => ctl.cycle = CYCLE_TARGET

\* Outside a save there is no job, and outside a run no controller.
PlaceInv ==
  /\ at # "saving" => job = NoJob
  /\ at = "normal" => nvs.stage = "Idle" /\ ctl = Default

BookInv ==
  /\ LearningTypeOK
  /\ GoalInv /\ SavedInv /\ BehindInv /\ LossInv /\ VerifyInv /\ PlaceInv

\* The cycles that a stage and its cycle stand for are accounted for.
paid == drains + credit
Earned(s) ==
  /\ s.stage \in {"Charge", "Rest", "Discharge"} => s.cycle <= paid + 1
  /\ s.stage = "CycleDone" => s.cycle <= paid
  /\ s.stage \in {"Verify", "Complete"} => paid >= CYCLE_TARGET

\* A cell at the cutoff has paid for its cycle; one that drains was full before, or its
\* charge is known to be skipped; and an arming finds its credit in the book.
EarnedInv ==
  /\ Earned(ctl) /\ Earned(job.goal) /\ Earned(nvs)
  /\ top = "drained" =>
       ctl.cycle <= paid /\ nvs.cycle <= paid /\ job.goal.cycle <= paid
  /\ ctl.stage \in {"Rest", "Discharge"} => top # "no"
  /\ job.next = "arm" => top = "no" /\ drains = 0 /\ nvs.cycle <= credit + 1

-----------------------------------------------------------------------------
(* Resuming.                                                                *)

\* What is resumed from a stage that cycles: the counters never fall, a cycle is begun only
\* after CycleDone, and only the last one leads to Verify.
LEMMA ResumeFacts ==
  ASSUME NEW s \in Settings, NEW por \in BOOLEAN, NEW n \in 0..MaxRuns,
         s.stage \in Cycling, s.losses < ITPOR_LOSS_CAP + n
  PROVE  LET r == resume_on_boot(s, por)
         IN /\ r \in Settings
            /\ s.losses <= r.losses /\ r.losses <= ITPOR_LOSS_CAP + n
            /\ r.stage \in Cycling => r.losses < ITPOR_LOSS_CAP + n
            /\ \/ r.cycle = s.cycle
               \/ r.cycle = s.cycle + 1 /\ s.stage = "CycleDone" /\ r.stage = "Charge"
            /\ r.stage \in {"Charge", "Discharge", "Verify", "Failed"}
            /\ r.stage = "Verify" => s.stage = "CycleDone" /\ r.cycle = CYCLE_TARGET
<1> USE TargetAssumption, LearningAssumption
<1>0. s.cycle \in 0..CYCLE_TARGET /\ s.losses \in 0..(ITPOR_LOSS_CAP + MaxRuns)
  BY DEF Settings
<1>1. CASE por
  <2>1. resume_on_boot(s, por) = por_loss_restart(s)
    BY <1>1 DEF resume_on_boot, Cycling
  <2> QED
    BY <1>0, <2>1 DEF por_loss_restart, Settings, Stages, Terminal, Cycling
<1>2. CASE ~por /\ s.stage = "CycleDone" /\ s.cycle < CYCLE_TARGET
  <2>1. resume_on_boot(s, por) = NextCycle(s)
    BY <1>2 DEF resume_on_boot
  <2> QED
    BY <1>0, <1>2, <2>1 DEF NextCycle, Settings, Stages, Terminal, Cycling
<1>3. CASE ~por /\ s.stage = "CycleDone" /\ ~(s.cycle < CYCLE_TARGET)
  <2>1. resume_on_boot(s, por) = [s EXCEPT !.stage = "Verify"]
    BY <1>3 DEF resume_on_boot
  <2> QED
    BY <1>0, <1>3, <2>1 DEF Settings, Stages, Terminal, Cycling
<1>4. CASE ~por /\ s.stage # "CycleDone"
  <2>1. resume_on_boot(s, por) = [s EXCEPT !.stage = IF plugged THEN "Charge" ELSE "Discharge"]
    BY <1>4 DEF resume_on_boot, Cycling
  <2> QED
    BY <1>0, <1>4, <2>1 DEF Settings, Stages, Terminal, Cycling
<1> QED
  BY <1>1, <1>2, <1>3, <1>4

-----------------------------------------------------------------------------
(* The bookkeeping is kept by every action.                                 *)

\* The fields of a well-typed state.
LEMMA Fields ==
  ASSUME LearningTypeOK
  PROVE  /\ nvs.stage \in Stages /\ nvs.cycle \in 0..CYCLE_TARGET
         /\ nvs.losses \in 0..(ITPOR_LOSS_CAP + MaxRuns)
         /\ ctl.stage \in Stages /\ ctl.cycle \in 0..CYCLE_TARGET
         /\ ctl.losses \in 0..(ITPOR_LOSS_CAP + MaxRuns)
         /\ job.goal \in Settings /\ job.goal.stage \in Stages
         /\ job.goal.cycle \in 0..CYCLE_TARGET
         /\ job.goal.losses \in 0..(ITPOR_LOSS_CAP + MaxRuns)
         /\ job.key \in 1..4 /\ job.tries \in 0..EDV_COMMIT_RETRY_MAX
         /\ job.next \in {"loop", "hold", "ship", "clear", "arm"}
         /\ runs \in 0..MaxRuns /\ MaxRuns \in Nat
  BY LearningAssumption DEF LearningTypeOK, Settings, Jobs

\* No run, and no save.
LEMMA Nothing ==
  /\ Default \in Settings /\ Default.stage = "Idle" /\ Default.cycle = 0 /\ Default.losses = 0
  /\ NoJob \in Jobs /\ NoJob.goal = Default /\ NoJob.key = 4 /\ NoJob.next = "loop"
  BY TargetAssumption, LearningAssumption
     DEF Default, NoJob, Settings, Stages, Jobs, EDV_COMMIT_RETRY_MAX

\* Writing one key changes that field alone.
LEMMA KeyFacts ==
  ASSUME NEW s \in Settings, NEW g \in Settings, NEW k \in 1..3
  PROVE  LET w == [s EXCEPT ![Keys[k]] = g[Keys[k]]]
         IN /\ w \in Settings
            /\ w.stage = IF k = 1 THEN g.stage ELSE s.stage
            /\ w.cycle = IF k = 2 THEN g.cycle ELSE s.cycle
            /\ w.losses = IF k = 3 THEN g.losses ELSE s.losses
<1>1. CASE k = 1
  <2>1. [s EXCEPT ![Keys[k]] = g[Keys[k]]] = [s EXCEPT !.stage = g.stage]
    BY <1>1 DEF Keys
  <2> QED
    BY <1>1, <2>1 DEF Settings
<1>2. CASE k = 2
  <2>1. [s EXCEPT ![Keys[k]] = g[Keys[k]]] = [s EXCEPT !.cycle = g.cycle]
    BY <1>2 DEF Keys
  <2> QED
    BY <1>2, <2>1 DEF Settings
<1>3. CASE k = 3
  <2>1. [s EXCEPT ![Keys[k]] = g[Keys[k]]] = [s EXCEPT !.losses = g.losses]
    BY <1>3 DEF Keys
  <2> QED
    BY <1>3, <2>1 DEF Settings
<1> QED
  BY <1>1, <1>2, <1>3

\* One key more is stored: the stage first, so that it may be ahead of the counters.
LEMMA WriteKeyBook ==
  ASSUME BookInv, WriteKey
  PROVE  BookInv'
<1> USE TargetAssumption, Fields DEF BookInv
<1>1. /\ UNCHANGED <<ctl, at, plugged, soc, top, drains, runs, mishaps>>
      /\ at = "saving" /\ job.key \in 1..3
      /\ job' = [job EXCEPT !.key = @ + 1]
      /\ nvs' = [nvs EXCEPT ![Keys[job.key]] = job.goal[Keys[job.key]]]
      /\ credit' \in 0..CYCLE_TARGET /\ unsaved' \in 0..2
  BY DEF WriteKey, worldVars, boundVars, LearningTypeOK
<1>2. /\ job' \in Jobs /\ job'.key = job.key + 1
      /\ job'.goal = job.goal /\ job'.next = job.next
  BY <1>1 DEF LearningTypeOK, Jobs
<1>3. /\ nvs' \in Settings
      /\ nvs'.stage = IF job.key = 1 THEN job.goal.stage ELSE nvs.stage
      /\ nvs'.cycle = IF job.key = 2 THEN job.goal.cycle ELSE nvs.cycle
      /\ nvs'.losses = IF job.key = 3 THEN job.goal.losses ELSE nvs.losses
  <2>1. nvs \in Settings /\ job.goal \in Settings
    BY DEF LearningTypeOK
  <2> QED
    BY ONLY <1>1, <2>1, KeyFacts
<1>4. LearningTypeOK'
  BY <1>1, <1>2, <1>3 DEF LearningTypeOK
<1>5. GoalInv'
  BY <1>1, <1>2 DEF GoalInv
<1>6. SavedInv'
  BY <1>1, <1>2, <1>3 DEF SavedInv, GoalInv
<1>7. BehindInv'
  BY <1>1, <1>2, <1>3 DEF BehindInv, Own, GoalInv
<1>8. LossInv'
  BY <1>1, <1>2, <1>3, Nothing
     DEF LossInv, LossCap, SavedInv, BehindInv, GoalInv, Own, Cycling
<1>9. VerifyInv'
  BY <1>1, <1>2, <1>3 DEF VerifyInv
<1>10. PlaceInv'
  BY <1>1, <1>2, <1>3 DEF PlaceInv, SavedInv
<1> QED
  BY <1>4, <1>5, <1>6, <1>7, <1>8, <1>9, <1>10

\* A failed write leaves NVS as it is.
LEMMA WriteFailsBook ==
  ASSUME BookInv, WriteFails
  PROVE  BookInv'
<1> USE Fields DEF BookInv
<1>1. /\ UNCHANGED <<nvs, ctl, at, plugged, soc, top, drains, credit, runs>>
      /\ at = "saving" /\ job.key \in 1..3 /\ unsaved' \in 0..2
      /\ mishaps < MaxMishaps /\ mishaps' = mishaps + 1
  BY DEF WriteFails, worldVars, LearningTypeOK
<1>2. /\ job' \in Jobs /\ job'.goal = job.goal /\ job'.next = job.next
      /\ job'.key \in {1, 4} \/ (job'.key = job.key + 1 /\ job.next = "clear")
  <2>1. CASE job.next = "clear"
    BY <1>1, <2>1 DEF WriteFails, LearningTypeOK, Jobs
  <2>2. CASE job.next # "clear" /\ job.tries > 1
    <3>1. job' = [goal |-> job.goal, key |-> 1, next |-> job.next, tries |-> job.tries - 1]
      BY <2>2 DEF WriteFails
    <3>2. job.tries - 1 \in 0..EDV_COMMIT_RETRY_MAX
      BY <2>2 DEF EDV_COMMIT_RETRY_MAX
    <3> QED
      BY <3>1, <3>2 DEF Jobs
  <2>3. CASE job.next # "clear" /\ ~(job.tries > 1)
    <3>1. job' = [job EXCEPT !.key = 4]
      BY <2>3 DEF WriteFails
    <3> QED
      BY <3>1 DEF LearningTypeOK, Jobs
  <2> QED
    BY <2>1, <2>2, <2>3
<1>3. LearningTypeOK'
  BY <1>1, <1>2, LearningAssumption DEF LearningTypeOK
<1>4. GoalInv' /\ SavedInv'
  BY <1>1, <1>2 DEF GoalInv, SavedInv
<1>5. BehindInv' /\ LossInv' /\ VerifyInv'
  BY <1>1, <1>2 DEF BehindInv, Own, LossInv, LossCap, VerifyInv
<1>6. PlaceInv'
  BY <1>1, <1>2 DEF PlaceInv, SavedInv
<1> QED
  BY <1>3, <1>4, <1>5, <1>6

\* What follows a save finds what it stored.
LEMMA SaveEndsBook ==
  ASSUME BookInv, SaveEnds
  PROVE  BookInv'
<1> USE Fields, Nothing DEF BookInv
<1>1. /\ UNCHANGED <<nvs, ctl, plugged, soc, top, drains, credit, unsaved, runs, mishaps>>
      /\ at = "saving" /\ job.key = 4 /\ job' = NoJob
      /\ at' = CASE job.next = "hold" -> "held"
                 [] job.next = "ship" -> "ship"
                 [] job.next = "loop" -> "loop"
                 [] OTHER -> "boot"
  BY DEF SaveEnds, worldVars, historyVars, boundVars
<1>2. /\ at' \in {"held", "ship", "loop", "boot"}
      /\ at' = "held" => job.next = "hold"
      /\ at' = "loop" => job.next = "loop"
  BY <1>1
<1>3. LearningTypeOK'
  BY <1>1, <1>2 DEF LearningTypeOK
<1>4. GoalInv' /\ SavedInv' /\ VerifyInv'
  BY <1>1, <1>2 DEF GoalInv, SavedInv, VerifyInv
<1>5. BehindInv'
  BY <1>1, <1>2 DEF BehindInv, Own
<1>6. LossInv'
  BY <1>1, <1>2, TargetAssumption DEF LossInv, LossCap
<1>7. PlaceInv'
  BY <1>1, <1>2 DEF PlaceInv, GoalInv
<1> QED
  BY <1>3, <1>4, <1>5, <1>6, <1>7

\* A save begins with its first key, its goal well typed.
LEMMA SaveFacts ==
  ASSUME NEW goal \in Settings, NEW next \in {"loop", "hold", "ship", "clear", "arm"},
         Save(goal, next)
  PROVE  /\ at' = "saving" /\ job' \in Jobs
         /\ job'.goal = goal /\ job'.key = 1 /\ job'.next = next
  BY DEF Save, Jobs, EDV_COMMIT_RETRY_MAX

\* Arming begins where there is no run.
LEMMA ArmBook ==
  ASSUME BookInv, Arm
  PROVE  BookInv'
<1> USE Fields, TargetAssumption DEF BookInv
<1> DEFINE First == [stage |-> "Charge", cycle |-> 1, losses |-> 0]
<1>1. /\ UNCHANGED <<nvs, ctl, plugged, soc, mishaps>>
      /\ at = "normal" /\ runs < MaxRuns /\ runs' = runs + 1
      /\ Save(First, "arm") /\ top' = "no" /\ drains' = 0
      /\ credit' \in 0..CYCLE_TARGET /\ unsaved' = unsaved
  BY DEF Arm, worldVars
<1>2. First \in Settings /\ First.stage = "Charge"
  BY DEF Settings, Stages
<1> HIDE DEF First
<1>3. /\ at' = "saving" /\ job' \in Jobs
      /\ job'.goal = First /\ job'.key = 1 /\ job'.next = "arm"
  BY <1>1, <1>2, SaveFacts
<1>4. LearningTypeOK'
  BY <1>1, <1>3, LearningAssumption DEF LearningTypeOK
<1>5. GoalInv'
  BY <1>1, <1>3 DEF GoalInv, PlaceInv, First
<1>6. LossInv'
  BY <1>1 DEF LossInv, LossCap
<1>7. SavedInv' /\ BehindInv' /\ VerifyInv' /\ PlaceInv'
  BY <1>1, <1>2, <1>3 DEF SavedInv, BehindInv, VerifyInv, PlaceInv, Own
<1> QED
  BY <1>4, <1>5, <1>6, <1>7

\* The next boot takes the run up from what is stored.
LEMMA BootBook ==
  ASSUME BookInv, Boot
  PROVE  BookInv'
<1> USE Fields, Nothing, TargetAssumption DEF BookInv
<1>1. /\ UNCHANGED <<nvs, job, plugged, soc, drains, credit, runs, mishaps>>
      /\ at = "boot" /\ job = NoJob /\ unsaved' = 0
  BY DEF Boot, worldVars, boundVars, PlaceInv
<1>2. CASE nvs.stage = "Idle"
  <2>1. at' = "normal" /\ ctl' = Default /\ top' = top
    BY <1>2 DEF Boot
  <2>2. LearningTypeOK'
    BY <1>1, <2>1 DEF LearningTypeOK
  <2>3. GoalInv' /\ SavedInv' /\ BehindInv' /\ LossInv' /\ VerifyInv' /\ PlaceInv'
    BY <1>1, <1>2, <2>1
       DEF GoalInv, SavedInv, BehindInv, LossInv, LossCap, VerifyInv, PlaceInv, Own, Cycling
  <2> QED
    BY <2>2, <2>3
<1>3. CASE nvs.stage # "Idle"
  <2>1. PICK por \in BOOLEAN :
          /\ at' = "loop" /\ top' \in {"no", "skipped", top}
          /\ ctl' = IF nvs.stage \in Terminal THEN nvs ELSE resume_on_boot(nvs, por)
    BY <1>3 DEF Boot, Began
  <2>2. /\ ctl' \in Settings
        /\ nvs.cycle <= ctl'.cycle /\ nvs.losses <= ctl'.losses
        /\ ctl'.losses <= LossCap
        /\ ctl'.stage \in Cycling => ctl'.losses < LossCap
        /\ ctl'.stage = "Verify" => ctl'.cycle = CYCLE_TARGET
    <3>1. CASE nvs.stage \in Terminal
      BY <2>1, <3>1 DEF LearningTypeOK, LossInv, Terminal, Cycling
    <3>2. CASE nvs.stage \notin Terminal
      <4>1. nvs \in Settings /\ nvs.stage \in Cycling /\ nvs.losses < ITPOR_LOSS_CAP + runs
        BY <1>1, <1>3, <3>2 DEF LearningTypeOK, LossInv, LossCap, VerifyInv, Cycling, Stages
      <4>2. ctl' = resume_on_boot(nvs, por)
        BY <2>1, <3>2
      <4> QED
        BY <4>1, <4>2, ResumeFacts DEF LossCap
    <3> QED
      BY <3>1, <3>2
  <2>3. LearningTypeOK'
    BY <1>1, <2>1, <2>2 DEF LearningTypeOK
  <2>4. GoalInv' /\ SavedInv' /\ BehindInv' /\ LossInv' /\ VerifyInv' /\ PlaceInv'
    BY <1>1, <2>1, <2>2
       DEF GoalInv, SavedInv, BehindInv, LossInv, LossCap, VerifyInv, PlaceInv, Own
  <2> QED
    BY <2>3, <2>4
<1> QED
  BY <1>2, <1>3

Tops == {"no", "full", "drained", "skipped"}

\* A save that the loop begins: its goal has the counters of the controller, and what the
\* controller holds stays ahead of NVS.
LEMMA PollBook ==
  ASSUME BookInv, at = "loop", UNCHANGED <<nvs, plugged, soc, runs, mishaps>>,
         top' \in Tops, drains' \in 0..CYCLE_TARGET, credit' \in 0..CYCLE_TARGET,
         unsaved' = unsaved,
         NEW goal \in Settings, NEW next \in {"loop", "hold", "ship"}, Save(goal, next),
         ctl' \in Settings, ctl'.cycle = ctl.cycle, ctl'.losses = ctl.losses,
         ctl'.stage # "Verify", goal.stage # "Verify",
         ctl'.stage \in Cycling => ctl'.losses < LossCap,
         next \in {"loop", "hold"} => goal = ctl',
         next = "hold" => ctl'.stage \in Terminal,
         next = "ship" =>
           /\ ctl'.stage = "Discharge" /\ goal.stage = "CycleDone"
           /\ goal.cycle = ctl.cycle /\ goal.losses = ctl.losses
  PROVE  BookInv'
<1> USE Fields, Nothing DEF BookInv
<1>1. /\ at' = "saving" /\ job' \in Jobs
      /\ job'.goal = goal /\ job'.key = 1 /\ job'.next = next
  BY SaveFacts
<1>2. job = NoJob
  BY DEF PlaceInv
<1>3. LearningTypeOK'
  BY <1>1 DEF LearningTypeOK, Tops
<1>4. GoalInv' /\ SavedInv' /\ PlaceInv'
  BY <1>1 DEF GoalInv, SavedInv, PlaceInv
<1>5. BehindInv' /\ LossInv' /\ VerifyInv'
  BY <1>1, <1>2 DEF BehindInv, LossInv, LossCap, VerifyInv, Own
<1> QED
  BY <1>3, <1>4, <1>5

\* Moving to another stage keeps the counters.
LEMMA AdvanceBook ==
  ASSUME BookInv, Polling, NEW stage \in {"Rest", "Discharge", "Failed"}, Advance(stage),
         ctl.stage \in Cycling, top' \in {top, "full"}, UNCHANGED <<drains, credit, unsaved>>
  PROVE  BookInv' /\ ctl' \in Settings /\ ctl'.stage = stage /\ ctl'.cycle = ctl.cycle
<1>1. /\ at = "loop" /\ UNCHANGED <<nvs, plugged, soc, runs, mishaps>>
  BY DEF Polling, worldVars, boundVars
<1>2. ctl' = [ctl EXCEPT !.stage = stage] /\ Save(ctl', "loop")
  BY DEF Advance
<1>3. /\ ctl' \in Settings /\ ctl'.stage = stage
      /\ ctl'.cycle = ctl.cycle /\ ctl'.losses = ctl.losses
  BY <1>2 DEF BookInv, LearningTypeOK, Settings, Stages, Terminal
<1>4. top' \in Tops /\ drains' \in 0..CYCLE_TARGET /\ credit' \in 0..CYCLE_TARGET
  BY DEF BookInv, LearningTypeOK, Tops
<1>5. ctl.losses < LossCap
  BY DEF BookInv, LossInv
<1> QED
  BY <1>1, <1>2, <1>3, <1>4, <1>5, PollBook

\* Every pass of the loop.
LEMMA PollsBook ==
  ASSUME BookInv, Poll
  PROVE  BookInv'
<1> USE Fields
<1>0. /\ at = "loop" /\ UNCHANGED <<nvs, plugged, soc, runs, mishaps>> /\ Polling
  BY DEF Poll, Charged, ChargeTimeout, Rested, handle_edv_ship, run_verify, handback_terminal,
         Polling, worldVars, boundVars
<1>1. CASE Charged
  BY <1>1, AdvanceBook DEF Charged, Cycling
<1>2. CASE ChargeTimeout
  BY <1>2, AdvanceBook DEF ChargeTimeout, Cycling, historyVars
<1>3. CASE Rested
  BY <1>3, AdvanceBook DEF Rested, Cycling, historyVars
<1>4. CASE handle_edv_ship
  <2> DEFINE goal == [ctl EXCEPT !.stage = "CycleDone"]
  <2>1. /\ goal \in Settings /\ goal.stage = "CycleDone"
        /\ goal.cycle = ctl.cycle /\ goal.losses = ctl.losses
    BY DEF BookInv, LearningTypeOK, Settings, Stages
  <2>2. ctl' = ctl /\ ctl.stage = "Discharge" /\ Save(goal, "ship")
    BY <1>4 DEF handle_edv_ship
  <2>3. /\ top' \in Tops /\ drains' \in 0..CYCLE_TARGET /\ credit' \in 0..CYCLE_TARGET
        /\ unsaved' = unsaved
    BY <1>4, TargetAssumption DEF handle_edv_ship, BookInv, LearningTypeOK, Tops
  <2>4. ctl \in Settings /\ ctl.losses < LossCap
    BY <2>2 DEF BookInv, LearningTypeOK, LossInv, Cycling
  <2> HIDE DEF goal
  <2> QED
    BY <1>0, <2>1, <2>2, <2>3, <2>4, PollBook
<1>5. CASE run_verify
  <2>1. ctl.stage = "Verify" /\ ctl.cycle = CYCLE_TARGET /\ ctl \in Settings
    BY <1>5 DEF run_verify, BookInv, VerifyInv, LearningTypeOK
  <2>2. PICK stage \in Terminal : ctl' = [ctl EXCEPT !.stage = stage] /\ Save(ctl', "loop")
    BY <1>5, <2>1, TargetAssumption DEF run_verify, Terminal
  <2>3. /\ ctl' \in Settings /\ ctl'.stage = stage
        /\ ctl'.cycle = ctl.cycle /\ ctl'.losses = ctl.losses
    BY <2>1, <2>2 DEF Settings, Stages
  <2>4. UNCHANGED <<top, drains, credit, unsaved>>
    BY <1>5, <2>3 DEF run_verify, Began, Terminal
  <2>5. top \in Tops /\ drains \in 0..CYCLE_TARGET /\ credit \in 0..CYCLE_TARGET
    BY DEF BookInv, LearningTypeOK, Tops
  <2> QED
    BY <1>0, <2>2, <2>3, <2>4, <2>5, PollBook DEF Terminal, Cycling
<1>6. CASE handback_terminal
  <2>1. /\ ctl' = ctl /\ ctl.stage \in Terminal /\ Save(ctl, "hold")
        /\ UNCHANGED <<top, drains, credit, unsaved>>
    BY <1>6 DEF handback_terminal, historyVars
  <2>2. /\ ctl \in Settings
        /\ top \in Tops /\ drains \in 0..CYCLE_TARGET /\ credit \in 0..CYCLE_TARGET
    BY DEF BookInv, LearningTypeOK, Tops
  <2> QED
    BY <1>0, <2>1, <2>2, PollBook DEF Terminal, Cycling
<1> QED
  BY <1>1, <1>2, <1>3, <1>4, <1>5, <1>6 DEF Poll

\* Aborting forgets the run, and NVS may keep a part of it.
LEMMA AbortBook ==
  ASSUME BookInv, poll_abort_button
  PROVE  BookInv'
<1> USE Fields, Nothing DEF BookInv
<1>1. /\ UNCHANGED <<nvs, plugged, soc, top, drains, credit, unsaved, runs, mishaps>>
      /\ at \in {"held", "loop"} /\ ctl' = Default /\ Save(Default, "clear")
  BY DEF poll_abort_button, worldVars, historyVars, boundVars
<1>2. /\ at' = "saving" /\ job' \in Jobs
      /\ job'.goal = Default /\ job'.key = 1 /\ job'.next = "clear"
  BY <1>1, SaveFacts
<1>3. job = NoJob
  BY <1>1 DEF PlaceInv
<1>4. LearningTypeOK'
  BY <1>1, <1>2 DEF LearningTypeOK
<1>5. GoalInv' /\ SavedInv' /\ PlaceInv'
  BY <1>1, <1>2 DEF GoalInv, SavedInv, PlaceInv
<1>6. BehindInv' /\ LossInv' /\ VerifyInv'
  BY <1>1, <1>2, <1>3, TargetAssumption DEF BehindInv, LossInv, LossCap, VerifyInv, Own, Cycling
<1> QED
  BY <1>4, <1>5, <1>6

\* The operator and the cell keep the types.
LEMMA WorldTypes ==
  ASSUME LearningTypeOK,
         \/ FollowPrompt \/ Replug \/ Wake \/ CellCharges \/ CellDrains \/ Reset
         \/ UNCHANGED vars,
         UNCHANGED <<nvs, ctl, at, job>>
  PROVE  LearningTypeOK'
<1>1. /\ plugged' \in BOOLEAN /\ soc' \in {"empty", "part", "full"}
      /\ UNCHANGED <<top, drains, credit, unsaved, runs>>
  BY DEF LearningTypeOK, FollowPrompt, Replug, Wake, CellCharges, CellDrains, Reset, Mishap,
         vars, worldVars, historyVars, boundVars
<1>2. mishaps' \in 0..MaxMishaps
  BY LearningAssumption
     DEF LearningTypeOK, FollowPrompt, Replug, Wake, CellCharges, CellDrains, Reset, Mishap,
         vars, boundVars
<1> QED
  BY <1>1, <1>2 DEF LearningTypeOK

LEMMA WorldRuns ==
  ASSUME \/ FollowPrompt \/ Replug \/ Wake \/ CellCharges \/ CellDrains \/ Reset
         \/ UNCHANGED vars
  PROVE  runs' = runs
BY DEF FollowPrompt, Replug, Wake, CellCharges, CellDrains, Reset, Mishap, vars, boundVars

\* The operator, the cell and a reset touch no save, or end it where it is.
LEMMA WorldBook ==
  ASSUME BookInv,
         \/ FollowPrompt \/ Replug \/ Wake \/ CellCharges \/ CellDrains \/ Reset
         \/ UNCHANGED vars
  PROVE  BookInv'
<1> USE Fields, Nothing DEF BookInv
<1>1. CASE UNCHANGED <<nvs, ctl, at, job>>
  <2>1. LearningTypeOK'
    BY <1>1, WorldTypes
  <2> QED
    BY <1>1, <2>1, WorldRuns
       DEF GoalInv, SavedInv, BehindInv, LossInv, LossCap, VerifyInv, PlaceInv, Own
<1>2. CASE Wake
  <2>1. /\ at = "ship" /\ at' = "boot"
        /\ UNCHANGED <<nvs, ctl, job, plugged, soc, top, drains, credit, unsaved, runs>>
        /\ mishaps' \in 0..MaxMishaps
    BY <1>2, LearningAssumption DEF Wake, worldVars, historyVars, LearningTypeOK
  <2>2. LearningTypeOK'
    BY <2>1 DEF LearningTypeOK
  <2> QED
    BY <2>1, <2>2
       DEF GoalInv, SavedInv, BehindInv, LossInv, LossCap, VerifyInv, PlaceInv, Own
<1>3. CASE Reset
  <2>1. /\ at' = "boot" /\ ctl' = Default /\ job' = NoJob
        /\ UNCHANGED <<nvs, plugged, soc, top, drains, credit, unsaved, runs>>
        /\ mishaps' \in 0..MaxMishaps
    BY <1>3, LearningAssumption DEF Reset, Mishap, worldVars, historyVars, LearningTypeOK
  <2>2. LearningTypeOK'
    BY <2>1 DEF LearningTypeOK
  <2>3. GoalInv' /\ SavedInv' /\ PlaceInv'
    BY <2>1 DEF GoalInv, SavedInv, PlaceInv
  <2>4. BehindInv' /\ LossInv' /\ VerifyInv'
    BY <2>1, TargetAssumption DEF BehindInv, LossInv, LossCap, VerifyInv, Own, Cycling
  <2> QED
    BY <2>2, <2>3, <2>4
<1> QED
  BY <1>1, <1>2, <1>3
     DEF FollowPrompt, Replug, CellCharges, CellDrains, vars, deviceVars

\* At first there is no run.
LEMMA InitBook == Init => BookInv
<1> SUFFICES ASSUME Init PROVE BookInv
  OBVIOUS
<1> USE Nothing, LearningAssumption, TargetAssumption
<1>1. LearningTypeOK
  BY DEF Init, LearningTypeOK
<1>2. GoalInv /\ SavedInv /\ BehindInv
  BY DEF Init, GoalInv, SavedInv, BehindInv
<1>3. LossInv /\ VerifyInv /\ PlaceInv
  BY DEF Init, LossInv, LossCap, VerifyInv, PlaceInv, Cycling
<1> QED
  BY <1>1, <1>2, <1>3 DEF BookInv

\* Every step of the specification, stuttering included.
LEMMA StepBook ==
  ASSUME BookInv, [Next]_vars
  PROVE  BookInv'
<1>1. CASE Arm
  BY <1>1, ArmBook
<1>2. CASE Boot
  BY <1>2, BootBook
<1>3. CASE Poll
  BY <1>3, PollsBook
<1>4. CASE poll_abort_button
  BY <1>4, AbortBook
<1>5. CASE WriteKey \/ WriteFails \/ SaveEnds
  BY <1>5, WriteKeyBook, WriteFailsBook, SaveEndsBook
<1>6. CASE \/ FollowPrompt \/ Replug \/ Wake \/ CellCharges \/ CellDrains \/ Reset
           \/ UNCHANGED vars
  BY <1>6, WorldBook
<1> QED
  BY <1>1, <1>2, <1>3, <1>4, <1>5, <1>6 DEF Next

LEMMA BookKept == Spec => []BookInv
<1>1. BookInv /\ [Next]_vars => BookInv'
  BY StepBook
<1> QED
  BY <1>1, InitBook, PTL DEF Spec

\* The settings, the controller and the save under way are well formed: however saves are
\* torn, that of an arming included, the stored cycle never passes its target and the losses
\* pass their cap by one a run at most.
THEOREM LearningTypes == Spec => []LearningTypeOK
<1>1. BookInv => LearningTypeOK
  BY DEF BookInv
<1> QED
  BY <1>1, BookKept, PTL

-----------------------------------------------------------------------------
(* The verdict.                                                             *)

\* A verdict is shown behind its save, which fails only by being given up; and a pass reaches
\* that save stored, or with the save of the verification given up.
HeldInv ==
  /\ job.next \in {"loop", "hold"} => job.tries <= 1
  /\ at = "saving" /\ job.next = "hold" /\ job.key = 4 =>
       nvs.stage = ctl.stage \/ unsaved >= SavesLost
  /\ /\ ctl.stage = "Complete"
     /\ at = "loop" \/ (at = "saving" /\ job.next = "hold")
                    \/ (at = "saving" /\ job.next = "loop" /\ job.key = 4)
     => nvs.stage = "Complete" \/ unsaved >= 1
  /\ VerdictStored

\* A save that begins has stored nothing yet, and no verdict is shown over it.
LEMMA HeldSave ==
  ASSUME HeldInv, NEW goal \in Settings, NEW next \in {"loop", "hold", "ship", "clear", "arm"},
         Save(goal, next), UNCHANGED <<nvs, unsaved>>,
         next = "hold" => at = "loop" /\ ctl' = ctl
  PROVE  HeldInv'
<1>1. /\ at' = "saving" /\ job'.key = 1 /\ job'.next = next
      /\ next # "ship" => job'.tries = 1
  BY DEF Save
<1> QED
  BY <1>1 DEF HeldInv, VerdictStored

LEMMA HeldPoll ==
  ASSUME BookInv, BookInv', HeldInv, Arm \/ Poll \/ poll_abort_button PROVE HeldInv'
<1>0. ctl \in Settings /\ ctl' \in Settings /\ Default \in Settings
  BY Nothing DEF BookInv, LearningTypeOK
<1>1. CASE Arm
  <2>1. [stage |-> "Charge", cycle |-> 1, losses |-> 0] \in Settings
    BY TargetAssumption, LearningAssumption DEF Settings, Stages
  <2> QED
    BY <1>1, <2>1, HeldSave DEF Arm
<1>2. CASE poll_abort_button
  BY <1>0, <1>2, HeldSave DEF poll_abort_button, historyVars
<1>3. CASE Charged \/ ChargeTimeout \/ Rested
  BY <1>0, <1>3, HeldSave DEF Charged, ChargeTimeout, Rested, Advance, Polling, historyVars
<1>4. CASE handle_edv_ship
  <2>1. [ctl EXCEPT !.stage = "CycleDone"] \in Settings
    BY <1>0 DEF Settings, Stages
  <2> QED
    BY <1>4, <2>1, HeldSave DEF handle_edv_ship, Polling
<1>5. CASE run_verify
  BY <1>0, <1>5, HeldSave DEF run_verify, Polling
<1>6. CASE handback_terminal
  BY <1>0, <1>6, HeldSave DEF handback_terminal, Polling, historyVars
<1> QED
  BY <1>1, <1>2, <1>3, <1>4, <1>5, <1>6 DEF Poll

\* A key that is written keeps what was stored before it; a write that fails gives the save
\* up and is counted.
LEMMA HeldSaving ==
  ASSUME BookInv, BookInv', HeldInv, WriteKey \/ WriteFails \/ SaveEnds PROVE HeldInv'
<1> USE Fields
<1>0. /\ LearningTypeOK /\ LearningTypeOK' /\ GoalInv /\ SavedInv /\ unsaved \in 0..2
      /\ at = "saving"
  BY DEF BookInv, LearningTypeOK, WriteKey, WriteFails, SaveEnds
<1>1. CASE WriteKey
  <2>1. /\ job'.goal = job.goal /\ job'.key = job.key + 1 /\ job'.next = job.next
        /\ job'.tries = job.tries /\ job.key \in 1..3
        /\ at' = "saving" /\ ctl' = ctl /\ unsaved' = IF job.key = 3 THEN 0 ELSE unsaved
        /\ nvs' = [nvs EXCEPT ![Keys[job.key]] = job.goal[Keys[job.key]]]
    BY <1>0, <1>1 DEF WriteKey, LearningTypeOK, Jobs
  <2>2. nvs'.stage = IF job.key = 1 THEN job.goal.stage ELSE nvs.stage
    <3>1. nvs \in Settings /\ job.goal \in Settings
      BY <1>0 DEF LearningTypeOK
    <3> QED
      BY ONLY <2>1, <3>1, KeyFacts
  <2>3. job.next \in {"loop", "hold"} => nvs'.stage = ctl.stage
    BY <1>0, <2>1, <2>2 DEF GoalInv, SavedInv
  <2> QED
    BY <2>1, <2>3 DEF HeldInv, VerdictStored
<1>2. CASE WriteFails
  <2>1. /\ job'.next = job.next /\ UNCHANGED <<nvs, ctl, at>> /\ job.key \in 1..3
    BY <1>0, <1>2 DEF WriteFails, LearningTypeOK, Jobs
  <2>2. CASE job.next \in {"loop", "hold"}
    <3>1. /\ job'.tries = job.tries /\ job'.key = 4
          /\ unsaved' = IF unsaved < 2 THEN unsaved + 1 ELSE unsaved
      BY <1>0, <1>2, <2>2 DEF WriteFails, HeldInv, LearningTypeOK, Jobs
    <3>2. job.next = "hold" /\ ctl.stage = "Complete" =>
            nvs.stage = "Complete" \/ unsaved >= 1
      BY <1>0 DEF HeldInv
    <3> QED
      BY <1>0, <2>1, <2>2, <3>1, <3>2 DEF HeldInv, VerdictStored, SavesLost
  <2> QED
    BY <1>0, <2>1, <2>2 DEF HeldInv, VerdictStored
<1>3. CASE SaveEnds
  <2>1. /\ job' = NoJob /\ NoJob.tries = 0 /\ job.key = 4 /\ UNCHANGED <<nvs, ctl, unsaved>>
        /\ at' = "held" => job.next = "hold"
        /\ at' = "loop" => job.next = "loop"
        /\ at' # "saving"
    BY <1>0, <1>3 DEF SaveEnds, NoJob, historyVars
  <2>2. at' = "held" => ctl.stage \in Terminal
    BY <1>0, <2>1 DEF GoalInv
  <2> QED
    BY <1>0, <2>1, <2>2, Nothing DEF HeldInv, VerdictStored, SavesLost
<1> QED
  BY <1>1, <1>2, <1>3

\* A boot takes up a pass only from NVS.
LEMMA HeldElse ==
  ASSUME BookInv, HeldInv,
         \/ Boot \/ FollowPrompt \/ Replug \/ Wake \/ CellCharges \/ CellDrains \/ Reset
         \/ UNCHANGED vars
  PROVE  HeldInv'
<1>1. CASE Boot
  <2>1. /\ at = "boot" /\ at' \in {"normal", "loop"} /\ UNCHANGED <<nvs, job>>
        /\ job = NoJob /\ NoJob.tries = 0 /\ NoJob.next = "loop"
    BY <1>1 DEF Boot, BookInv, PlaceInv, NoJob
  <2>2. ctl'.stage = "Complete" => nvs.stage = "Complete"
    <3>1. CASE nvs.stage \in Cycling
      <4>1. PICK por \in BOOLEAN : ctl' = resume_on_boot(nvs, por)
        BY <1>1, <3>1 DEF Boot, Cycling, Terminal
      <4>2. nvs \in Settings /\ nvs.losses < ITPOR_LOSS_CAP + runs /\ runs \in 0..MaxRuns
        BY <3>1 DEF BookInv, LearningTypeOK, LossInv, LossCap
      <4> QED
        BY <3>1, <4>1, <4>2, ResumeFacts
    <3>2. CASE nvs.stage \in Terminal
      BY <1>1, <3>2 DEF Boot, Terminal
    <3>3. CASE nvs.stage = "Idle"
      BY <1>1, <3>3, Nothing DEF Boot
    <3> QED
      BY <3>1, <3>2, <3>3, Fields DEF BookInv, VerifyInv, Stages, Cycling
  <2> QED
    BY <2>1, <2>2 DEF HeldInv, VerdictStored
<1>2. CASE Wake
  BY <1>2 DEF Wake, HeldInv, VerdictStored, historyVars
<1>3. CASE Reset
  BY <1>3, Nothing DEF Reset, HeldInv, VerdictStored, NoJob
<1>4. CASE UNCHANGED <<deviceVars, unsaved>>
  BY <1>4 DEF deviceVars, HeldInv, VerdictStored, SavesLost
<1> QED
  BY <1>1, <1>2, <1>3, <1>4
     DEF FollowPrompt, Replug, CellCharges, CellDrains, vars, historyVars

\* A verdict on the screen is the stored one unless its save was given up, and for a pass the
\* save before it too, with writes that may fail at any key of any save, this one included
\* (fg_learning_runner.cpp, handback_terminal()).
THEOREM VerdictKept == Spec => []VerdictStored
<1>1. Init => HeldInv
  BY Nothing DEF Init, HeldInv, VerdictStored, NoJob, Default
<1>2. BookInv /\ BookInv' /\ HeldInv /\ [Next]_vars => HeldInv'
  BY HeldPoll, HeldSaving, HeldElse DEF Next
<1>3. HeldInv => VerdictStored
  BY DEF HeldInv
<1> QED
  BY <1>1, <1>2, <1>3, BookKept, PTL DEF Spec

-----------------------------------------------------------------------------
(* What the stages stand for has been earned.                               *)

\* A stored stage needs no more than the goal it comes from: its cycle is not ahead, and an
\* arming keeps its credit until its own cycle replaces the one it found.
LEMMA WriteKeyEarned ==
  ASSUME BookInv, BookInv', EarnedInv, WriteKey
  PROVE  EarnedInv'
<1> USE Fields, Nothing, TargetAssumption
<1>1. /\ LearningTypeOK /\ LearningTypeOK' /\ GoalInv /\ SavedInv /\ BehindInv
      /\ drains \in Nat /\ credit \in Nat /\ credit' \in Nat
  BY DEF BookInv, LearningTypeOK
<1>2. /\ ctl' = ctl /\ top' = top /\ drains' = drains
      /\ at = "saving" /\ job.key \in 1..3
      /\ job'.goal = job.goal /\ job'.next = job.next
      /\ credit' = IF job.next = "arm" /\ job.key = 2 THEN 0 ELSE credit
  BY <1>1 DEF WriteKey, LearningTypeOK, Jobs
<1>3. /\ nvs'.stage = IF job.key = 1 THEN job.goal.stage ELSE nvs.stage
      /\ nvs'.cycle = IF job.key = 2 THEN job.goal.cycle ELSE nvs.cycle
  <2>1. /\ nvs' = [nvs EXCEPT ![Keys[job.key]] = job.goal[Keys[job.key]]]
        /\ nvs \in Settings /\ job.goal \in Settings
    BY <1>1 DEF WriteKey, LearningTypeOK
  <2> QED
    BY ONLY <1>2, <2>1, KeyFacts
<1>4. nvs'.cycle \in Nat /\ ctl.cycle \in Nat /\ job.goal.cycle \in Nat /\ nvs.cycle \in Nat
  BY <1>1 DEF LearningTypeOK, Settings
<1>5. CASE Own
  <2>1. credit' = credit
    BY <1>2, <1>5 DEF Own
  <2>2. nvs.cycle <= job.goal.cycle
    BY <1>1, <1>2, <1>5 DEF BehindInv, GoalInv, Own
  <2>3. nvs'.stage = job.goal.stage
    BY <1>1, <1>2, <1>3, <1>5 DEF SavedInv, Own
  <2>4. nvs'.cycle <= job.goal.cycle
    BY <1>1, <1>3, <2>2
  <2>5. Earned(nvs)'
    BY <1>1, <1>2, <1>4, <2>1, <2>3, <2>4 DEF EarnedInv, Earned, paid
  <2>6. job'.next # "arm"
    BY <1>2, <1>5 DEF Own
  <2> QED
    BY <1>2, <1>3, <2>1, <2>5, <2>6 DEF EarnedInv, Earned, paid
<1>6. CASE job.next = "clear"
  <2>1. job.goal.stage = "Idle" /\ job.goal.cycle = 0 /\ credit' = credit
    BY <1>1, <1>2, <1>6 DEF GoalInv
  <2>2. Earned(nvs)'
    BY <1>1, <1>2, <1>3, <1>4, <2>1 DEF EarnedInv, Earned, paid
  <2> QED
    BY <1>1, <1>2, <1>3, <1>6, <2>1, <2>2 DEF EarnedInv, Earned, paid
<1>7. CASE job.next = "arm"
  <2>1. /\ job.goal.stage = "Charge" /\ job.goal.cycle = 1 /\ ctl = Default
        /\ top = "no" /\ drains = 0 /\ nvs.cycle <= credit + 1
        /\ nvs.stage \in {"Idle", "Charge"}
    BY <1>1, <1>7 DEF GoalInv, SavedInv, EarnedInv
  <2>2. nvs'.cycle <= credit' + 1 /\ nvs'.stage \in {"Idle", "Charge"}
    BY <1>1, <1>2, <1>3, <1>4, <1>7, <2>1
  <2> QED
    BY <1>1, <1>2, <1>4, <2>1, <2>2 DEF EarnedInv, Earned, paid
<1> QED
  BY <1>1, <1>5, <1>6, <1>7 DEF Own

\* A resumed run is not ahead of its discharges.
LEMMA BootEarned ==
  ASSUME BookInv, BookInv', EarnedInv, Boot
  PROVE  EarnedInv'
<1> USE Fields, Nothing, TargetAssumption
<1>1. /\ LearningTypeOK /\ LearningTypeOK' /\ drains \in Nat /\ credit \in Nat
      /\ job = NoJob /\ UNCHANGED <<nvs, job, drains, credit>>
  BY DEF BookInv, LearningTypeOK, PlaceInv, Boot, boundVars
<1>2. CASE nvs.stage = "Idle"
  <2>1. ctl' = Default /\ top' = top
    BY <1>2 DEF Boot
  <2> QED
    BY <1>1, <2>1 DEF EarnedInv, Earned, paid
<1>3. CASE nvs.stage # "Idle"
  <2>1. PICK por \in BOOLEAN :
          /\ ctl' = IF nvs.stage \in Terminal THEN nvs ELSE resume_on_boot(nvs, por)
          /\ top' = CASE ctl'.stage = "Charge" -> "no"
                      [] ctl'.stage = "Discharge" /\ top = "no" -> "skipped"
                      [] OTHER -> top
    BY <1>3 DEF Boot, Began
  <2>2. CASE nvs.stage \in Terminal
    <3>1. ctl' = nvs /\ top' = top
      BY <2>1, <2>2 DEF Terminal
    <3> QED
      BY <1>1, <2>2, <3>1 DEF EarnedInv, Earned, Terminal, paid
  <2>3. CASE nvs.stage \notin Terminal
    <3>1. /\ nvs \in Settings /\ nvs.stage \in Cycling /\ nvs.losses < ITPOR_LOSS_CAP + runs
          /\ runs \in 0..MaxRuns
      BY <1>1, <1>3, <2>3
         DEF BookInv, LearningTypeOK, LossInv, LossCap, VerifyInv, Cycling, Stages
    <3>2. ctl' = resume_on_boot(nvs, por)
      BY <2>1, <2>3
    <3>3. /\ \/ ctl'.cycle = nvs.cycle
             \/ ctl'.cycle = nvs.cycle + 1 /\ nvs.stage = "CycleDone" /\ ctl'.stage = "Charge"
          /\ ctl'.stage \in {"Charge", "Discharge", "Verify", "Failed"}
          /\ ctl'.stage = "Verify" => nvs.stage = "CycleDone" /\ ctl'.cycle = CYCLE_TARGET
      BY <3>1, <3>2, ResumeFacts
    <3>4. Earned(nvs) /\ (top = "drained" => nvs.cycle <= paid)
      BY <1>1 DEF EarnedInv
    <3>5. Earned(ctl)'
      BY <1>1, <3>1, <3>3, <3>4 DEF Earned, Cycling, paid
    <3>6. top' = "drained" => ctl'.cycle <= paid
      BY <1>1, <2>1, <3>3, <3>4
    <3>7. ctl'.stage \in {"Rest", "Discharge"} => top' # "no"
      BY <2>1, <3>3
    <3>8. top' = "drained" => top = "drained"
      BY <2>1
    <3> QED
      BY <1>1, <3>4, <3>5, <3>6, <3>7, <3>8 DEF EarnedInv, Earned, paid
  <2> QED
    BY <2>2, <2>3
<1> QED
  BY <1>2, <1>3

\* A pass of the loop: a full charge is noted, and the cutoff pays for the cycle.
LEMMA PollEarned ==
  ASSUME BookInv, BookInv', EarnedInv, Poll
  PROVE  EarnedInv'
<1> USE Fields, Nothing, TargetAssumption
<1>1. /\ LearningTypeOK /\ LearningTypeOK'
      /\ drains \in 0..CYCLE_TARGET /\ credit \in 0..CYCLE_TARGET
      /\ at = "loop" /\ at' = "saving" /\ job = NoJob /\ nvs' = nvs /\ nvs.cycle <= ctl.cycle
  <2>1. at = "loop" /\ nvs' = nvs /\ at' = "saving"
    BY DEF Poll, Charged, ChargeTimeout, Rested, handle_edv_ship, run_verify, handback_terminal,
           Polling, Advance, Save
  <2> QED
    BY <2>1 DEF BookInv, LearningTypeOK, PlaceInv, BehindInv, Own
<1>2. Earned(ctl) /\ Earned(nvs)
  BY <1>1 DEF EarnedInv
<1>3. ASSUME NEW stage \in {"Rest", "Discharge", "Failed"}, Advance(stage),
             ctl.stage \in {"Charge", "Rest"}, drains' = drains, credit' = credit,
             top' = IF stage = "Rest" THEN "full" ELSE top,
             stage = "Discharge" => top # "no"
      PROVE  EarnedInv'
  <2>1. ctl' = [ctl EXCEPT !.stage = stage] /\ Save(ctl', "loop")
    BY <1>3 DEF Advance
  <2>2. ctl'.stage = stage /\ ctl'.cycle = ctl.cycle
    BY <1>1, <2>1 DEF LearningTypeOK, Settings
  <2>3. job'.goal = ctl' /\ job'.next = "loop"
    BY <1>1, <2>1, SaveFacts DEF LearningTypeOK
  <2>4. Earned(ctl)' /\ Earned(nvs)'
    BY <1>1, <1>2, <1>3, <2>2 DEF Earned, paid
  <2>5. top' = "drained" => ctl'.cycle <= paid /\ nvs.cycle <= paid
    BY <1>3, <2>2 DEF EarnedInv, paid
  <2> QED
    BY <1>1, <1>3, <2>2, <2>3, <2>4, <2>5 DEF EarnedInv, Earned, paid
<1>4. CASE Charged
  BY <1>3, <1>4 DEF Charged
<1>5. CASE ChargeTimeout
  BY <1>3, <1>5 DEF ChargeTimeout, historyVars
<1>6. CASE Rested
  BY <1>3, <1>6 DEF Rested, historyVars, EarnedInv
<1>7. CASE handle_edv_ship
  <2> DEFINE goal == [ctl EXCEPT !.stage = "CycleDone"]
  <2>1. /\ ctl' = ctl /\ ctl.stage = "Discharge" /\ Save(goal, "ship") /\ top' = "drained"
        /\ drains' = IF top = "full" /\ drains < CYCLE_TARGET THEN drains + 1 ELSE drains
        /\ credit' = IF top = "skipped" /\ credit < CYCLE_TARGET THEN credit + 1 ELSE credit
    BY <1>7 DEF handle_edv_ship
  <2>2. goal \in Settings /\ goal.stage = "CycleDone" /\ goal.cycle = ctl.cycle
    BY <1>1 DEF LearningTypeOK, Settings, Stages
  <2> HIDE DEF goal
  <2>3. job'.goal = goal /\ job'.next = "ship"
    BY <2>1, <2>2, SaveFacts
  <2>4. ctl.cycle <= paid' /\ paid <= paid'
    <3>1. top \in {"full", "drained", "skipped"}
      BY <1>1, <2>1 DEF EarnedInv, LearningTypeOK
    <3>2. /\ ctl.cycle <= drains + credit + 1 /\ ctl.cycle \in 0..CYCLE_TARGET
          /\ top = "drained" => ctl.cycle <= drains + credit
      BY <1>1, <1>2, <2>1 DEF EarnedInv, Earned, paid
    <3> QED
      BY <1>1, <2>1, <3>1, <3>2 DEF paid
  <2>5. Earned(nvs)' /\ Earned(ctl)'
    BY <1>1, <1>2, <2>1, <2>4 DEF Earned, paid, LearningTypeOK
  <2> QED
    BY <1>1, <2>1, <2>2, <2>3, <2>4, <2>5 DEF EarnedInv, Earned, paid
<1>8. CASE run_verify
  <2>1. ctl.stage = "Verify" /\ ctl.cycle = CYCLE_TARGET /\ ctl \in Settings
    BY <1>8 DEF run_verify, BookInv, VerifyInv, LearningTypeOK
  <2>2. PICK stage \in Terminal : ctl' = [ctl EXCEPT !.stage = stage] /\ Save(ctl', "loop")
    BY <1>8, <2>1 DEF run_verify, Terminal
  <2>3. ctl'.stage = stage /\ ctl'.cycle = ctl.cycle
    BY <2>1, <2>2 DEF Settings
  <2>4. top' = top /\ drains' = drains /\ credit' = credit
    BY <1>8, <2>3 DEF run_verify, Began, Terminal
  <2>5. job'.goal = ctl' /\ job'.next = "loop"
    BY <1>1, <2>2, SaveFacts DEF LearningTypeOK
  <2> QED
    BY <1>1, <1>2, <2>1, <2>2, <2>3, <2>4, <2>5 DEF EarnedInv, Earned, paid, Terminal
<1>9. CASE handback_terminal
  <2>1. /\ ctl' = ctl /\ Save(ctl, "hold") /\ UNCHANGED <<top, drains, credit>>
    BY <1>9 DEF handback_terminal, historyVars
  <2>2. job'.goal = ctl /\ job'.next = "hold"
    BY <1>1, <2>1, SaveFacts DEF LearningTypeOK
  <2> QED
    BY <1>1, <1>2, <2>1, <2>2 DEF EarnedInv, Earned, paid
<1> QED
  BY <1>4, <1>5, <1>6, <1>7, <1>8, <1>9 DEF Poll

\* Arming credits what it finds in the book, aborting and resets end in nothing, and a save
\* that ends or fails changes nothing that is counted.
LEMMA OtherEarned ==
  ASSUME BookInv, BookInv', EarnedInv,
         \/ Arm \/ poll_abort_button \/ WriteFails \/ SaveEnds \/ FollowPrompt \/ Replug
         \/ Wake \/ CellCharges \/ CellDrains \/ Reset \/ UNCHANGED vars
  PROVE  EarnedInv'
<1> USE Fields, Nothing, TargetAssumption
<1>1. /\ LearningTypeOK /\ LearningTypeOK' /\ nvs' = nvs
      /\ drains \in 0..CYCLE_TARGET /\ credit \in 0..CYCLE_TARGET
      /\ at # "saving" => job = NoJob
  BY DEF BookInv, PlaceInv, LearningTypeOK, Arm, poll_abort_button, WriteFails, SaveEnds,
         FollowPrompt, Replug, Wake, CellCharges, CellDrains, Reset, vars, deviceVars
<1>2. CASE Arm
  <2> DEFINE First == [stage |-> "Charge", cycle |-> 1, losses |-> 0]
  <2>1. /\ at = "normal" /\ ctl' = ctl /\ top' = "no" /\ drains' = 0 /\ Save(First, "arm")
        /\ credit' = IF nvs.cycle > 0 THEN nvs.cycle - 1 ELSE 0
    BY <1>2 DEF Arm
  <2>2. First \in Settings /\ First.stage = "Charge" /\ First.cycle = 1
    BY LearningAssumption DEF Settings, Stages
  <2> HIDE DEF First
  <2>3. job'.goal = First /\ job'.next = "arm"
    BY <2>1, <2>2, SaveFacts
  <2>4. ctl = Default /\ nvs.stage = "Idle"
    BY <2>1 DEF BookInv, PlaceInv
  <2>5. credit' \in Nat /\ nvs.cycle <= credit' + 1
    BY <1>1, <2>1 DEF LearningTypeOK
  <2> QED
    BY <1>1, <2>1, <2>2, <2>3, <2>4, <2>5 DEF EarnedInv, Earned, paid
<1>3. CASE poll_abort_button
  <2>1. /\ at \in {"held", "loop"} /\ ctl' = Default /\ Save(Default, "clear")
        /\ UNCHANGED <<top, drains, credit>>
    BY <1>3 DEF poll_abort_button, historyVars
  <2>2. job'.goal = Default /\ job'.next = "clear"
    BY <2>1, SaveFacts
  <2> QED
    BY <1>1, <2>1, <2>2 DEF EarnedInv, Earned, paid
<1>4. CASE WriteFails
  <2>1. UNCHANGED <<ctl, top, drains, credit>>
    BY <1>4 DEF WriteFails
  <2>2. job'.goal = job.goal /\ job'.next = job.next
    BY <1>1, <1>4 DEF WriteFails, LearningTypeOK, Jobs
  <2> QED
    BY <1>1, <2>1, <2>2 DEF EarnedInv, Earned, paid
<1>5. CASE SaveEnds
  <2>1. UNCHANGED <<ctl, top, drains, credit>> /\ job' = NoJob
    BY <1>5 DEF SaveEnds, historyVars
  <2> QED
    BY <1>1, <2>1 DEF EarnedInv, Earned, paid
<1>6. CASE Reset
  <2>1. UNCHANGED <<top, drains, credit>> /\ ctl' = Default /\ job' = NoJob
    BY <1>6 DEF Reset, historyVars
  <2> QED
    BY <1>1, <2>1 DEF EarnedInv, Earned, paid
<1>7. CASE \/ FollowPrompt \/ Replug \/ Wake \/ CellCharges \/ CellDrains \/ UNCHANGED vars
  <2>1. UNCHANGED <<ctl, job, top, drains, credit>>
    BY <1>7 DEF FollowPrompt, Replug, Wake, CellCharges, CellDrains, vars, deviceVars, historyVars
  <2> QED
    BY <1>1, <2>1 DEF EarnedInv, Earned, paid
<1> QED
  BY <1>2, <1>3, <1>4, <1>5, <1>6, <1>7

\* A cell is verified, and passed, only after cycles that are accounted for one by one:
\* discharges from full to the cutoff, charges that a reset on battery skipped, and cycles
\* that an arming cut short left in the book, whatever resets, failed writes, gauge resets and
\* cable changes happen and wherever they fall.
THEOREM CyclesAreEarned == Spec => []CyclesEarned
<1>1. Init => EarnedInv
  BY Nothing, TargetAssumption DEF Init, EarnedInv, Earned, paid
<1>2. BookInv /\ BookInv' /\ EarnedInv /\ [Next]_vars => EarnedInv'
  <2> SUFFICES ASSUME BookInv, BookInv', EarnedInv, [Next]_vars PROVE EarnedInv'
    OBVIOUS
  <2>1. CASE Boot
    BY <2>1, BootEarned
  <2>2. CASE Poll
    BY <2>2, PollEarned
  <2>3. CASE WriteKey
    BY <2>3, WriteKeyEarned
  <2> QED
    BY <2>1, <2>2, <2>3, OtherEarned DEF Next
<1>3. BookInv /\ EarnedInv => CyclesEarned
  BY DEF EarnedInv, Earned, CyclesEarned, paid
<1> QED
  BY <1>1, <1>2, <1>3, BookKept, PTL DEF Spec
=============================================================================
