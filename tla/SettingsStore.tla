----------------------------- MODULE SettingsStore -----------------------------
(***************************************************************************)
(* The settings of the device and what a boot finds of them.  The          *)
(* orchestrator (go_orchestrator.cpp) keeps one record; its writers are    *)
(* the user, a BLE client, the cloud, a client of the local API, a         *)
(* provisioning session and, in the factory, serial commands.  Each makes  *)
(* a candidate, which is checked as a whole, saved key by key in NVS       *)
(* (go_settings.cpp) and only then put in force.  Manufacturing mode       *)
(* enters Stationary without saving.                                       *)
(*                                                                         *)
(* NVS keeps each key as it is written, so power cut during a save leaves  *)
(* a mixture, which the next boot loads field by field.  Fields that play  *)
(* no part in another one's meaning are one field, corr, after the         *)
(* corrections, the last that is written.                                  *)
(***************************************************************************)
EXTENDS Naturals, Sequences

CONSTANT Faults   \* what goes wrong, of AllFaults

\* "cut": power is lost during a save; "provision": during the save of a provisioning result;
\* "fail": a key cannot be written.
AllFaults == {"cut", "provision", "fail"}

VARIABLES
  settings,        \* _settings, with _mode
  nvs,             \* the stored keys
  manufacturing,   \* _manufacturing_mode
  at,              \* "run", "saving" or "off"
  job              \* the save under way: its candidate, the next key, what follows

vars == <<settings, nvs, manufacturing, at, job>>

Modes == {"Portable", "Stationary", "Offline"}
Controls == {"Cloud", "Local", "Both"}
Settings == [mode : Modes, cloud : {"on", "off"}, control : Controls, onboarded : BOOLEAN,
             corr : {"none", "set"}]

\* GoSettings as constructed: what a missing key loads as.
Defaults == [mode |-> "Portable", cloud |-> "on", control |-> "Both", onboarded |-> FALSE,
             corr |-> "none"]

\* The order in which save_go_settings() writes.
Keys == <<"mode", "cloud", "control", "onboarded", "corr">>

NoJob == [goal |-> Defaults, key |-> 1, next |-> "run"]

Init ==
  /\ settings = Defaults /\ nvs = Defaults /\ manufacturing = FALSE
  /\ at = "run" /\ job = NoJob

-----------------------------------------------------------------------------
(* Saving and loading.                                                      *)

\* is_go_settings_valid(), as far as it relates fields.
Valid(s) == ~(s.control = "Cloud" /\ s.cloud = "off")

\* activate_settings_candidate() begins: an invalid candidate is refused, and one that
\* changes nothing is not saved unless it must be.
Activate(candidate, force, next) ==
  /\ at = "run"
  /\ Valid(candidate) /\ (candidate # settings \/ force)
  /\ at' = "saving"
  /\ job' = [goal |-> candidate, key |-> 1, next |-> next]
  /\ UNCHANGED <<settings, nvs, manufacturing>>

WriteKey ==
  /\ at = "saving" /\ job.key <= Len(Keys)
  /\ nvs' = [nvs EXCEPT ![Keys[job.key]] = job.goal[Keys[job.key]]]
  /\ job' = [job EXCEPT !.key = @ + 1]
  /\ UNCHANGED <<settings, manufacturing, at>>

\* The candidate is in force once all of it is stored.
SaveEnds ==
  /\ at = "saving" /\ job.key > Len(Keys)
  /\ settings' = job.goal
  /\ at' = IF job.next = "run" \/ job.next = "provision" THEN "run" ELSE "off"
  /\ job' = NoJob
  /\ UNCHANGED <<nvs, manufacturing>>

\* A key that is not written ends the save and leaves the settings as they were; the keys
\* before it stay.  A shutdown goes on, a reset does not reboot.
SaveFails ==
  /\ at = "saving" /\ "fail" \in Faults
  /\ at' = IF job.next = "shutdown" THEN "off" ELSE "run"
  /\ job' = NoJob
  /\ UNCHANGED <<settings, nvs, manufacturing>>

-----------------------------------------------------------------------------
(* The writers.                                                             *)

\* apply_settings_change() and on_ble_config_write(): neither the control nor the connection;
\* choosing another mode ends onboarding.
UserChange ==
  \E mode \in Modes, corr \in {"none", "set"} :
    Activate([mode |-> mode, cloud |-> settings.cloud, control |-> settings.control,
              onboarded |-> settings.onboarded \/ mode # settings.mode, corr |-> corr],
             FALSE, "run")

\* mark_onboarding_done(): the guide acknowledged, or a phone paired.
MarkOnboardingDone ==
  Activate([settings EXCEPT !.onboarded = TRUE], FALSE, "run")

\* apply_config_update() for the cloud, which owns neither the control nor the connection.
CloudUpdate ==
  /\ settings.mode = "Stationary" /\ settings.control \in {"Cloud", "Both"}
  /\ \E corr \in {"none", "set"} : Activate([settings EXCEPT !.corr = corr], FALSE, "run")

\* apply_config_update() for a client of the local API: under Cloud control only a recovery
\* of the control, alone.
LocalUpdate ==
  /\ settings.mode = "Stationary"
  /\ \E cloud \in {"on", "off"}, control \in Controls, corr \in {"none", "set"} :
       /\ settings.control = "Cloud" => cloud = settings.cloud /\ corr = settings.corr
       /\ Activate([mode |-> settings.mode, cloud |-> cloud, control |-> control,
                    onboarded |-> settings.onboarded, corr |-> corr], FALSE, "run")

\* ProvisioningEvent::Connected, in Stationary or attached to a phone in Portable: switching
\* the cloud off takes it the control.
ProvisioningConnected ==
  /\ settings.mode # "Offline"
  /\ \E cloud \in {"on", "off"} :
       Activate([settings EXCEPT !.cloud = cloud,
                   !.control = IF cloud = "off" /\ @ = "Cloud" THEN "Local" ELSE @],
                FALSE, "provision")

\* handle_serial_command(): a calibration, as long as the device is the factory's.
SerialCalibrates ==
  /\ ~settings.onboarded \/ manufacturing
  /\ \E corr \in {"none", "set"} : Activate([settings EXCEPT !.corr = corr], FALSE, "run")

\* factory_reset(): saved even when nothing changes; the corrections may be kept.
Reset(keep, next) ==
  Activate([Defaults EXCEPT !.corr = IF keep \/ manufacturing THEN settings.corr ELSE @],
           TRUE, next)

\* By the button or a phone, which reboots, and by a serial command, which does not.
FactoryReset ==
  \/ Reset(FALSE, "reboot")
  \/ (~settings.onboarded \/ manufacturing) /\ Reset(TRUE, "run")

\* enter_manufacturing_mode(): Stationary until the next boot, which is not saved.
EnterManufacturing ==
  /\ at = "run" /\ ~settings.onboarded /\ ~manufacturing
  /\ manufacturing' = TRUE
  /\ settings' = IF Valid(settings) THEN [settings EXCEPT !.mode = "Stationary"] ELSE settings
  /\ UNCHANGED <<nvs, at, job>>

-----------------------------------------------------------------------------
(* Power.                                                                   *)

\* shutdown(): a device of the factory is reset first.
Shutdown ==
  \/ manufacturing /\ Reset(TRUE, "shutdown")
  \/ /\ at = "run" /\ ~manufacturing
     /\ at' = "off"
     /\ UNCHANGED <<settings, nvs, manufacturing, job>>

\* Power is lost, the device panics, or it reboots by itself, as when the factory's Wi-Fi
\* is not found.
PowerCut ==
  /\ at # "off"
  /\ at = "saving" => (IF job.next = "provision" THEN "provision" ELSE "cut") \in Faults
  /\ at' = "off" /\ job' = NoJob
  /\ UNCHANGED <<settings, nvs, manufacturing>>

\* load_go_settings(): each field by itself.
Boot ==
  /\ at = "off" /\ at' = "run"
  /\ settings' = nvs /\ manufacturing' = FALSE
  /\ UNCHANGED <<nvs, job>>

Writer ==
  \/ UserChange \/ MarkOnboardingDone \/ CloudUpdate \/ LocalUpdate
  \/ ProvisioningConnected \/ SerialCalibrates \/ FactoryReset

Next ==
  \/ Writer \/ EnterManufacturing \/ Shutdown
  \/ WriteKey \/ SaveEnds \/ SaveFails \/ PowerCut \/ Boot

Spec == Init /\ [][Next]_vars

-----------------------------------------------------------------------------
(* Properties.                                                              *)

SettingsTypeOK ==
  /\ settings \in Settings /\ nvs \in Settings /\ manufacturing \in BOOLEAN
  /\ at \in {"run", "saving", "off"}
  /\ job \in [goal : Settings, key : 1..(Len(Keys) + 1),
              next : {"run", "provision", "reboot", "shutdown"}]

\* Cloud control with the cloud connection off is never in force, and a boot never loads it,
\* although NVS may hold half of a save when the power goes.
StoredValid == Valid(settings) /\ (at # "saving" => Valid(nvs))

\* Manufacturing enters Stationary "ephemerally": a unit that has not been onboarded boots in
\* Portable, where its first-use guide opens (products/go/docs/orchestrator.md:330).
FreshOnboarding == at = "off" /\ ~nvs.onboarded => nvs.mode = "Portable"
=============================================================================
