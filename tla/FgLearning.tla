------------------------------ MODULE FgLearning ------------------------------
(***************************************************************************)
(* The factory run that teaches the fuel gauge its cell: the stages of     *)
(* FgLearningController, the FgLearningRunner that drives them through     *)
(* resets and ship mode, and the state it keeps in NVS                     *)
(* (go_settings.cpp), which every boot resumes from.                       *)
(*                                                                         *)
(* NVS keeps each key as it is written, so a reset or a failing write      *)
(* between two keys of a save leaves a mixture.  A key that is missing     *)
(* reads as its default, so erasing one writes the default.  The journal,  *)
(* the reason of a failure, the screens and the gauge's own registers are  *)
(* left out; what the gauge and the charger answer is chosen freely.       *)
(***************************************************************************)
EXTENDS Naturals, Sequences

CONSTANTS
  CYCLE_TARGET,     \* full cycles before the learned values are verified
  ITPOR_LOSS_CAP,   \* restarts after a gauge reset before the run fails
  MaxRuns,          \* bound: runs armed
  MaxMishaps        \* bound: resets, failed writes and plugs that no prompt asked for

VARIABLES
  nvs,       \* the stored stage, cycle and losses
  ctl,       \* the controller's _stage, _cycle and _itpor_losses
  at,        \* where the device is: "normal", "boot", "loop", "saving", "held" or "ship"
  job,       \* the save under way: its values, the next key, what follows, tries left
  plugged,   \* the charger is connected
  soc,       \* the cell: "empty" at the cutoff, "part" or "full"
  top,       \* history: since the stage was last Charge, "no" full charge, "full" or "drained";
             \* "skipped" when a reset on battery resumed in Discharge without one
  drains,    \* history: discharges from full to the cutoff in this run, up to CYCLE_TARGET
  credit,    \* history: cycles of the book that were skipped, or left by an earlier run
  unsaved,   \* history: saves given up since the boot or the last whole one, up to 2
  runs,      \* runs armed so far
  mishaps    \* mishaps so far

deviceVars == <<nvs, ctl, at, job>>
worldVars == <<plugged, soc>>
historyVars == <<top, drains, credit, unsaved>>
boundVars == <<runs, mishaps>>
vars == <<deviceVars, worldVars, historyVars, boundVars>>

ASSUME TargetAssumption == CYCLE_TARGET \in Nat \ {0} /\ ITPOR_LOSS_CAP \in Nat \ {0}
ASSUME LearningAssumption == MaxRuns \in Nat /\ MaxMishaps \in Nat

Terminal == {"Complete", "Failed"}
Stages ==
  {"Idle", "Charge", "Rest", "Discharge", "CycleDone", "Verify"} \cup Terminal

\* FactorySettings with every key missing.
Default == [stage |-> "Idle", cycle |-> 0, losses |-> 0]
Keys == <<"stage", "cycle", "losses">>
NoJob == [goal |-> Default, key |-> 4, next |-> "loop", tries |-> 0]

Init ==
  /\ nvs = Default /\ ctl = Default /\ at = "normal" /\ job = NoJob
  /\ plugged \in BOOLEAN /\ soc \in {"empty", "part", "full"}
  /\ top = "no" /\ drains = 0 /\ credit = 0 /\ unsaved = 0 /\ runs = 0 /\ mishaps = 0

-----------------------------------------------------------------------------
(* Saving, one key after the other.                                         *)

EDV_COMMIT_RETRY_MAX == 3

\* save_fg_learning_state() begins; next is what the caller does after it.
Save(goal, next) ==
  /\ at' = "saving"
  /\ job' = [goal |-> goal, key |-> 1, next |-> next,
             tries |-> IF next = "ship" THEN EDV_COMMIT_RETRY_MAX ELSE 1]

WriteKey ==
  /\ at = "saving" /\ job.key <= 3
  /\ nvs' = [nvs EXCEPT ![Keys[job.key]] = job.goal[Keys[job.key]]]
  /\ job' = [job EXCEPT !.key = @ + 1]
  /\ credit' = IF job.next = "arm" /\ job.key = 2 THEN 0 ELSE credit
  /\ unsaved' = IF job.key = 3 THEN 0 ELSE unsaved
  /\ UNCHANGED <<ctl, at, worldVars, top, drains, boundVars>>

\* A failed write ends the save, which only the cutoff tries again; erasing goes on.
WriteFails ==
  /\ at = "saving" /\ job.key <= 3
  /\ mishaps < MaxMishaps /\ mishaps' = mishaps + 1
  /\ job' = CASE job.next = "clear" -> [job EXCEPT !.key = @ + 1]
              [] job.next # "clear" /\ job.tries > 1 ->
                   [goal |-> job.goal, key |-> 1, next |-> job.next, tries |-> job.tries - 1]
              [] OTHER -> [job EXCEPT !.key = 4]
  /\ unsaved' = IF job.next \in {"loop", "hold"} /\ unsaved < 2 THEN unsaved + 1 ELSE unsaved
  /\ UNCHANGED <<nvs, ctl, at, worldVars, top, drains, credit, runs>>

SaveEnds ==
  /\ at = "saving" /\ job.key = 4
  /\ at' = CASE job.next = "hold" -> "held"
             [] job.next = "ship" -> "ship"
             [] job.next = "loop" -> "loop"
             [] OTHER -> "boot"
  /\ job' = NoJob
  /\ UNCHANGED <<nvs, ctl, worldVars, historyVars, boundVars>>

-----------------------------------------------------------------------------
(* Arming, booting and resuming.                                            *)

\* arm_fg_learning(): the device reboots whatever the save answers.
Arm ==
  /\ at = "normal" /\ runs < MaxRuns /\ runs' = runs + 1
  /\ Save([stage |-> "Charge", cycle |-> 1, losses |-> 0], "arm")
  /\ top' = "no" /\ drains' = 0
  /\ credit' = IF nvs.cycle > 0 THEN nvs.cycle - 1 ELSE 0
  /\ UNCHANGED <<nvs, ctl, worldVars, unsaved, mishaps>>

\* Broken variant: the loss is not counted.
por_loss_restart_Free(s) == [s EXCEPT !.stage = "Charge"]

\* por_loss_restart()
por_loss_restart(s) ==
  [stage |-> IF s.losses + 1 >= ITPOR_LOSS_CAP THEN "Failed" ELSE "Charge",
   cycle |-> s.cycle, losses |-> s.losses + 1]

NextCycle(s) == [stage |-> "Charge", cycle |-> s.cycle + 1, losses |-> s.losses]

\* Broken variant: one cycle more than the target.
resume_on_boot_Past(s, por) ==
  IF s.stage = "CycleDone" /\ ~por
  THEN IF s.cycle <= CYCLE_TARGET THEN NextCycle(s)
       ELSE [s EXCEPT !.stage = "Verify"]
  ELSE s

\* Broken variant: the cycle under way counts as done.
resume_on_boot_Early(s, por) ==
  CASE s.stage \in {"CycleDone", "Charge", "Rest", "Discharge"} /\ por -> por_loss_restart(s)
    [] s.stage \in {"CycleDone", "Discharge"} /\ ~por ->
         IF s.cycle < CYCLE_TARGET THEN NextCycle(s)
         ELSE [s EXCEPT !.stage = "Verify"]
    [] s.stage \in {"Charge", "Rest"} /\ ~por ->
         [s EXCEPT !.stage = IF plugged THEN "Charge" ELSE "Discharge"]
    [] OTHER -> s

\* FgLearningController::resume_on_boot(), where the gauge reports a reset or not.
resume_on_boot(s, por) ==
  CASE s.stage \in {"CycleDone", "Charge", "Rest", "Discharge"} /\ por -> por_loss_restart(s)
    [] s.stage = "CycleDone" /\ ~por ->
         IF s.cycle < CYCLE_TARGET THEN NextCycle(s)
         ELSE [s EXCEPT !.stage = "Verify"]
    [] s.stage \in {"Charge", "Rest", "Discharge"} /\ ~por ->
         [s EXCEPT !.stage = IF plugged THEN "Charge" ELSE "Discharge"]
    [] OTHER -> s

\* A stage that charges again starts the cycle over; one that resumes in Discharge although
\* the charge had not completed skips it.
Began(s) ==
  top' = CASE s.stage = "Charge" -> "no"
           [] s.stage = "Discharge" /\ top = "no" -> "skipped"
           [] OTHER -> top

\* GoApp::run() and the runner's resume_on_boot(); a stored verdict is not resumed from.
Boot ==
  /\ at = "boot"
  /\ IF nvs.stage = "Idle"
     THEN at' = "normal" /\ ctl' = Default /\ UNCHANGED top
     ELSE \E por \in BOOLEAN :
            LET s == IF nvs.stage \in Terminal THEN nvs ELSE resume_on_boot(nvs, por)
            IN at' = "loop" /\ ctl' = s /\ Began(s)
  /\ unsaved' = 0
  /\ UNCHANGED <<nvs, job, worldVars, drains, credit, boundVars>>

-----------------------------------------------------------------------------
(* One pass of the runner's loop.                                           *)

Polling == at = "loop" /\ UNCHANGED <<nvs, worldVars, boundVars>>

\* tick() moves to another stage, and apply_action() saves it.
Advance(stage) ==
  /\ ctl' = [ctl EXCEPT !.stage = stage]
  /\ Save(ctl', "loop")

\* The gauge's FC flag, or the charger's termination.
Charged ==
  /\ Polling /\ ctl.stage = "Charge" /\ soc = "full"
  /\ Advance("Rest")
  /\ top' = "full" /\ UNCHANGED <<drains, credit, unsaved>>

ChargeTimeout ==
  /\ Polling /\ ctl.stage = "Charge"
  /\ Advance("Failed")
  /\ UNCHANGED historyVars

Rested ==
  /\ Polling /\ ctl.stage = "Rest"
  /\ Advance("Discharge")
  /\ UNCHANGED historyVars

\* handle_edv_ship(): the controller itself stays in Discharge.
handle_edv_ship ==
  /\ Polling /\ ctl.stage = "Discharge" /\ soc = "empty"
  /\ Save([ctl EXCEPT !.stage = "CycleDone"], "ship")
  /\ top' = "drained"
  /\ drains' = IF top = "full" /\ drains < CYCLE_TARGET THEN drains + 1 ELSE drains
  /\ credit' = IF top = "skipped" /\ credit < CYCLE_TARGET THEN credit + 1 ELSE credit
  /\ UNCHANGED <<ctl, unsaved>>

\* run_verify() and on_verify_result()
run_verify ==
  /\ Polling /\ ctl.stage = "Verify"
  /\ \E pass \in BOOLEAN :
       ctl' = CASE pass -> [ctl EXCEPT !.stage = "Complete"]
                [] ~pass /\ ctl.cycle >= CYCLE_TARGET -> [ctl EXCEPT !.stage = "Failed"]
                [] OTHER -> NextCycle(ctl)
  /\ Save(ctl', "loop")
  /\ Began(ctl') /\ UNCHANGED <<drains, credit, unsaved>>

\* Broken variant: the verdict was saved when the stage changed.
handback_terminal_Saved ==
  /\ Polling /\ ctl.stage \in Terminal
  /\ at' = "held"
  /\ UNCHANGED <<ctl, job, historyVars>>

\* handback_terminal()
handback_terminal ==
  /\ Polling /\ ctl.stage \in Terminal
  /\ Save(ctl, "hold")
  /\ UNCHANGED <<ctl, historyVars>>

\* poll_abort_button(): forget the run and reboot.
poll_abort_button ==
  /\ at = "held" \/ (at = "loop" /\ ctl.stage \notin Terminal)
  /\ ctl' = Default
  /\ Save(Default, "clear")
  /\ UNCHANGED <<nvs, worldVars, historyVars, boundVars>>

Poll ==
  \/ Charged \/ ChargeTimeout \/ Rested \/ handle_edv_ship \/ run_verify
  \/ handback_terminal

-----------------------------------------------------------------------------
(* The operator, the cell and resets.                                       *)

Mishap == mishaps < MaxMishaps /\ mishaps' = mishaps + 1 /\ UNCHANGED runs

Prompted ==
  \/ at = "ship" /\ ~plugged
  \/ at = "loop" /\ ctl.stage = "Charge" /\ ~plugged
  \/ at = "loop" /\ ctl.stage = "Discharge" /\ plugged

FollowPrompt ==
  /\ Prompted
  /\ plugged' = ~plugged
  /\ UNCHANGED <<deviceVars, soc, historyVars, boundVars>>

Replug ==
  /\ Mishap
  /\ plugged' = ~plugged
  /\ UNCHANGED <<deviceVars, soc, historyVars>>

\* Ship mode ends when the charger comes back, or at the button.
Wake ==
  /\ at = "ship"
  /\ plugged \/ mishaps < MaxMishaps
  /\ at' = "boot"
  /\ mishaps' = IF plugged THEN mishaps ELSE mishaps + 1
  /\ UNCHANGED <<nvs, ctl, job, worldVars, historyVars, runs>>

CellCharges ==
  /\ at = "loop" /\ ctl.stage = "Charge" /\ plugged /\ soc # "full"
  /\ soc' = IF soc = "empty" THEN "part" ELSE "full"
  /\ UNCHANGED <<deviceVars, plugged, historyVars, boundVars>>

CellDrains ==
  /\ at = "loop" /\ ctl.stage = "Discharge" /\ ~plugged /\ soc # "empty"
  /\ soc' = IF soc = "full" THEN "part" ELSE "empty"
  /\ UNCHANGED <<deviceVars, plugged, historyVars, boundVars>>

\* The device resets wherever it is.
Reset ==
  /\ at \in {"loop", "saving", "held"}
  /\ Mishap
  /\ at' = "boot" /\ ctl' = Default /\ job' = NoJob
  /\ UNCHANGED <<nvs, worldVars, historyVars>>

Next ==
  \/ Arm \/ Boot \/ Poll \/ poll_abort_button
  \/ WriteKey \/ WriteFails \/ SaveEnds
  \/ FollowPrompt \/ Replug \/ Wake \/ CellCharges \/ CellDrains \/ Reset

\* The device runs, and the operator and the cell do what the run waits for.
Fairness ==
  /\ WF_vars(Boot) /\ WF_vars(WriteKey) /\ WF_vars(SaveEnds) /\ WF_vars(Poll)
  /\ WF_vars(FollowPrompt) /\ WF_vars(Wake) /\ WF_vars(CellCharges) /\ WF_vars(CellDrains)

Spec == Init /\ [][Next]_vars /\ Fairness

-----------------------------------------------------------------------------
(* Properties.                                                              *)

\* The counters are uint8 in the code.  The cycle never passes its target.  The losses may
\* pass their cap by one in each run whose arming was cut short over the losses of another.
Settings ==
  [stage : Stages, cycle : 0..CYCLE_TARGET, losses : 0..(ITPOR_LOSS_CAP + MaxRuns)]

Jobs == [goal : Settings, key : 1..4, next : {"loop", "hold", "ship", "clear", "arm"},
         tries : 0..EDV_COMMIT_RETRY_MAX]

LearningTypeOK ==
  /\ nvs \in Settings /\ ctl \in Settings
  /\ at \in {"normal", "boot", "loop", "saving", "held", "ship"}
  /\ job \in Jobs
  /\ plugged \in BOOLEAN /\ soc \in {"empty", "part", "full"}
  /\ top \in {"no", "full", "drained", "skipped"}
  /\ {drains, credit} \subseteq 0..CYCLE_TARGET /\ unsaved \in 0..2
  /\ runs \in 0..MaxRuns /\ mishaps \in 0..MaxMishaps

\* The learned values are verified, and a cell is passed, only after CYCLE_TARGET cycles that
\* are accounted for one by one: discharges from a full charge down to the cutoff in this run,
\* however often it was reset, shipped, restarted or stored half-way, and otherwise only
\* discharges whose charge a reset on battery skipped (fg_learning_controller.cpp:122) and
\* cycles that an arming cut short left in the book from an earlier run.
CyclesEarned ==
  /\ ctl.stage \in {"Verify", "Complete"} => drains + credit >= CYCLE_TARGET
  /\ nvs.stage = "Complete" => drains + credit >= CYCLE_TARGET

\* A verdict that is shown is the one that is stored, so that the next boot shows it again,
\* unless its save was given up, whose result handback_terminal() does not look at; and a pass
\* is lost only when the save before that, at the end of the verification, was given up too.
SavesLost == IF ctl.stage = "Complete" THEN 2 ELSE 1
VerdictStored ==
  at = "held" => ctl.stage \in Terminal /\ (nvs.stage = ctl.stage \/ unsaved >= SavesLost)

\* A run comes to a verdict or is aborted: the restarts after gauge resets are bounded.
RunConcludes == (at = "loop") ~> (at \in {"held", "normal"})
=============================================================================
