------------------------------ MODULE OtaBleProofs ------------------------------
(***************************************************************************)
(* Proofs about OtaBle: for images and chunks of any size, any stall       *)
(* window and any number of transfers, whatever the two tasks do between   *)
(* each other's steps.                                                     *)
(***************************************************************************)
EXTENDS OtaBle, TLAPS

\* OtaTypeOK in two parts: what the fields that drive the transfer may be, and the numbers.
Fields ==
  /\ portable \in BOOLEAN /\ isActive \in BOOLEAN /\ signal \in BOOLEAN
  /\ writing \in BOOLEAN /\ staged \in BOOLEAN
  /\ state \in {"Idle", "Starting", "Downloading", "Applying"}
  /\ pending \in {"None", "Finish", "Abort"}
  /\ cause \in Failures /\ result \in Failures \cup {"Ok"}
  /\ task \in {"idle", "begin", "enter", "wait", "abort", "finish", "emit", "clear", "rest", "reboot"}
  /\ status \in {"None", "Downloading", "Applying", "Done", "Failed"}

Numbers ==
  /\ total \in 0..MaxTotal /\ accepted \in 0..MaxTotal /\ chunk \in 0..MaxTotal
  /\ lastBytes \in 0..MaxTotal /\ flashed \in 0..MaxTotal
  /\ idleTicks \in 0..StallTicks /\ starts \in 0..MaxStarts

\* Where the product task is says what the transfer, the writer and the phone are at.
TaskInv ==
  /\ ~portable => task = "idle"
  /\ task \in {"idle", "reboot"} => /\ state \in {"Idle", "Starting"}
                                    /\ (isActive <=> state = "Starting")
  /\ task = "begin" => state = "Starting" /\ isActive
  /\ task \in {"enter", "wait", "abort"} =>
       state = "Downloading" /\ isActive /\ status = "Downloading"
  /\ task = "finish" => state = "Applying" /\ isActive /\ status = "Applying"
  /\ task = "emit" => state # "Idle" /\ isActive /\ (result = "Ok" => status = "Applying")
  /\ task \in {"clear", "rest"} => state # "Idle" /\ ~isActive
  /\ task = "abort" => result # "Ok"
  /\ writing => task \in {"enter", "wait", "abort", "finish"}

\* The bytes of the two tasks: a chunk on its way still fits; nothing comes before the ready
\* notification; from then on what is accepted is what is flashed.
BytesInv ==
  /\ accepted + chunk <= total
  /\ state = "Starting" => accepted = 0 /\ chunk = 0
  /\ state # "Starting" => flashed = accepted
  /\ state = "Starting" /\ task \in {"emit", "clear", "rest"} => flashed = 0

\* A latched terminal and a chunk in the writer exclude each other; only the stall watchdog
\* aborts with nothing latched.
LatchInv ==
  /\ pending # "None" => chunk = 0
  /\ task = "abort" => pending # "None" \/ idleTicks = StallTicks
  /\ task = "finish" \/ (task = "emit" /\ staged) =>
       pending = "Finish" /\ accepted = total /\ state = "Applying"
  /\ staged => task \in {"emit", "clear", "rest", "reboot"} /\ result = "Ok"

OtaInv == Fields /\ Numbers /\ TaskInv /\ BytesInv /\ LatchInv

-----------------------------------------------------------------------------
(* The host task, and flash writes that return.                             *)

\* A callback of the host task.
LEMMA HostStep ==
  ASSUME OtaInv, Host
  PROVE  OtaInv'
<1> USE OtaAssumption DEF OtaInv, Fields, Numbers, TaskInv, BytesInv, LatchInv, Lengths, Failures,
                          hostVars, runVars, writerVars, HostFree, LatchAbort
<1>1. ASSUME NEW n \in Lengths, Start(n)
      PROVE  OtaInv'
  BY <1>1 DEF Start
<1>2. CASE RejectStart
  BY <1>2 DEF RejectStart
<1>3. CASE End
  BY <1>3 DEF End
<1>4. CASE Abort
  <2>1. Fields'
    <3>1. LatchAbort("Aborted")
      BY <1>4 DEF Abort
    <3>2. pending' \in {"None", "Finish", "Abort"} /\ signal' \in BOOLEAN
      BY <3>1
    <3>3. cause' \in Failures
      BY <3>1
    <3> QED
      BY <1>4, <3>2, <3>3 DEF Abort
  <2>2. Numbers'
    BY <1>4 DEF Abort
  <2>3. TaskInv'
    BY <1>4 DEF Abort
  <2>4. BytesInv'
    BY <1>4 DEF Abort
  <2>5. LatchInv'
    BY <1>4 DEF Abort
  <2> QED
    BY <2>1, <2>2, <2>3, <2>4, <2>5
<1>5. CASE Disconnect
  <2>1. Fields'
    <3>1. LatchAbort("TransportError")
      BY <1>5 DEF Disconnect
    <3>2. pending' \in {"None", "Finish", "Abort"} /\ signal' \in BOOLEAN
      BY <3>1
    <3>3. cause' \in Failures
      BY <3>1
    <3> QED
      BY <1>5, <3>2, <3>3 DEF Disconnect
  <2>2. Numbers'
    BY <1>5 DEF Disconnect
  <2>3. TaskInv'
    BY <1>5 DEF Disconnect
  <2>4. BytesInv'
    BY <1>5 DEF Disconnect
  <2>5. LatchInv'
    BY <1>5 DEF Disconnect
  <2> QED
    BY <2>1, <2>2, <2>3, <2>4, <2>5
<1>6. CASE DataViolation
  <2>1. Fields'
    <3>1. LatchAbort("TransportError")
      BY <1>6 DEF DataViolation
    <3>2. pending' \in {"None", "Finish", "Abort"} /\ signal' \in BOOLEAN
      BY <3>1
    <3>3. cause' \in Failures
      BY <3>1
    <3> QED
      BY <1>6, <3>2, <3>3 DEF DataViolation
  <2>2. Numbers'
    BY <1>6 DEF DataViolation
  <2>3. TaskInv'
    BY <1>6 DEF DataViolation
  <2>4. BytesInv'
    BY <1>6 DEF DataViolation
  <2>5. LatchInv'
    BY <1>6 DEF DataViolation
  <2> QED
    BY <2>1, <2>2, <2>3, <2>4, <2>5
<1>7. ASSUME NEW len \in Lengths, Data(len)
      PROVE  OtaInv'
  BY <1>7 DEF Data
<1> QED
  BY <1>1, <1>2, <1>3, <1>4, <1>5, <1>6, <1>7 DEF Host

\* The write of a chunk returns, perhaps on a writer that is closed by now.
LEMMA ReturnStep ==
  ASSUME OtaInv, HostReturns
  PROVE  OtaInv'
<1> USE OtaAssumption DEF OtaInv, Fields, Numbers, TaskInv, BytesInv, LatchInv, Lengths, Failures,
                          hostVars, runVars, writerVars, HostFree, LatchAbort
<1>1. ASSUME NEW ok \in BOOLEAN, DataWritten(ok)
      PROVE  OtaInv'
  <2>1. Fields'
    BY <1>1 DEF DataWritten
  <2>2. Numbers'
    BY <1>1 DEF DataWritten
  <2>3. TaskInv'
    BY <1>1 DEF DataWritten
  <2>4. BytesInv'
    BY <1>1 DEF DataWritten
  <2>5. LatchInv'
    BY <1>1 DEF DataWritten
  <2> QED
    BY <2>1, <2>2, <2>3, <2>4, <2>5
<1> QED
  BY <1>1 DEF HostReturns

-----------------------------------------------------------------------------
(* The product task.                                                        *)

\* A step of run(), of the poll or of the reboot after it.
LEMMA ProductStep ==
  ASSUME OtaInv, Product
  PROVE  OtaInv'
<1> USE OtaAssumption DEF OtaInv, Fields, Numbers, TaskInv, BytesInv, LatchInv, Lengths, Failures,
                          hostVars, runVars, writerVars, HostFree, LatchAbort
<1>1. CASE Poll
  BY <1>1 DEF Poll
<1>2. ASSUME NEW ok \in BOOLEAN, BeginDone(ok)
      PROVE  OtaInv'
  BY <1>2 DEF BeginDone
<1>3. CASE EnterLoop
  BY <1>3 DEF EnterLoop
<1>4. CASE Command
  BY <1>4 DEF Command, FinishStep
<1>5. CASE StraySignal
  BY <1>5 DEF StraySignal
<1>6. CASE ProgressTick
  BY <1>6 DEF ProgressTick
<1>7. CASE AbortDone
  BY <1>7 DEF AbortDone
<1>8. ASSUME NEW outcome \in {"Ok", "InvalidImage", "FlashError"}, FinishDone(outcome)
      PROVE  OtaInv'
  BY <1>8 DEF FinishDone
<1>9. CASE EmitTerminal
  <2>1. Fields'
    BY <1>9 DEF EmitTerminal
  <2>2. Numbers'
    BY <1>9 DEF EmitTerminal
  <2>3. TaskInv'
    BY <1>9 DEF EmitTerminal
  <2>4. BytesInv'
    BY <1>9 DEF EmitTerminal
  <2>5. LatchInv'
    BY <1>9 DEF EmitTerminal
  <2> QED
    BY <2>1, <2>2, <2>3, <2>4, <2>5
<1>10. CASE ClearPending
  BY <1>10 DEF ClearPending
<1>11. CASE ComeToRest
  BY <1>11 DEF ComeToRest
<1>12. CASE Reboot
  <2>1. Fields'
    BY <1>12 DEF Reboot
  <2>2. Numbers'
    BY <1>12 DEF Reboot
  <2>3. TaskInv'
    BY <1>12 DEF Reboot
  <2>4. BytesInv'
    BY <1>12 DEF Reboot
  <2>5. LatchInv'
    BY <1>12 DEF Reboot
  <2> QED
    BY <2>1, <2>2, <2>3, <2>4, <2>5
<1> QED
  BY <1>1, <1>2, <1>3, <1>4, <1>5, <1>6, <1>7, <1>8, <1>9, <1>10, <1>11, <1>12 DEF Product

\* The service goes with the Portable mode, and comes back as it was left.
LEMMA ModeStep ==
  ASSUME OtaInv, Teardown \/ Setup
  PROVE  OtaInv'
<1> USE OtaAssumption DEF OtaInv, Fields, Numbers, TaskInv, BytesInv, LatchInv, Lengths, Failures,
                          hostVars, runVars, writerVars, HostFree, LatchAbort
<1>1. CASE Teardown
  <2>1. Fields'
    BY <1>1 DEF Teardown
  <2>2. Numbers'
    BY <1>1 DEF Teardown
  <2>3. TaskInv'
    BY <1>1 DEF Teardown
  <2>4. BytesInv'
    BY <1>1 DEF Teardown
  <2>5. LatchInv'
    BY <1>1 DEF Teardown
  <2> QED
    BY <2>1, <2>2, <2>3, <2>4, <2>5
<1>2. CASE Setup
  BY <1>2 DEF Setup
<1> QED
  BY <1>1, <1>2

-----------------------------------------------------------------------------
(* Everything together.                                                     *)

LEMMA InitOta == Init => OtaInv
<1> SUFFICES ASSUME Init PROVE OtaInv
  OBVIOUS
<1> USE OtaAssumption DEF Init
<1>1. Fields
  BY DEF Fields, Failures
<1>2. Numbers
  BY DEF Numbers
<1>3. TaskInv /\ BytesInv /\ LatchInv
  BY DEF TaskInv, BytesInv, LatchInv
<1> QED
  BY <1>1, <1>2, <1>3 DEF OtaInv

LEMMA NextOta ==
  ASSUME OtaInv, [Next]_vars
  PROVE  OtaInv'
<1>1. CASE UNCHANGED vars
  BY <1>1 DEF vars, OtaInv, Fields, Numbers, TaskInv, BytesInv, LatchInv
<1> QED
  BY <1>1, HostStep, ReturnStep, ProductStep, ModeStep DEF Next

\* The invariant of both tasks.
THEOREM OtaSafe == Spec => []OtaInv
BY InitOta, NextOta, PTL DEF Spec

\* The fields of both tasks keep their ranges, and the bytes accepted or in hand never exceed
\* what the START declared, whatever that was.
THEOREM OtaTypes == Spec => []OtaTypeOK
<1>1. OtaInv => OtaTypeOK
  BY DEF OtaInv, Fields, Numbers, BytesInv, OtaTypeOK
<1> QED
  BY <1>1, OtaSafe, PTL

\* What esp_ota_end() is given and the boot partition is switched to is whole, whatever the
\* size and the chunks: exactly the declared bytes are flashed and none is still on its way.
THEOREM ImageWhole == Spec => []WholeImage
<1>1. OtaInv => WholeImage
  BY DEF OtaInv, Fields, Numbers, TaskInv, BytesInv, LatchInv, WholeImage, HostFree
<1> QED
  BY <1>1, OtaSafe, PTL

\* The poll calls run() only for a START that waits: it never reboots without an update.
THEOREM PollDrives == Spec => []PollFindsStart
<1>1. OtaInv => PollFindsStart
  BY DEF OtaInv, Fields, TaskInv, PollFindsStart
<1> QED
  BY <1>1, OtaSafe, PTL

\* Once run() has returned the writer is closed and the next START finds Idle.
THEOREM TransferClosed == Spec => []NothingLeftOpen
<1>1. OtaInv => NothingLeftOpen
  BY DEF OtaInv, Fields, TaskInv, NothingLeftOpen
<1> QED
  BY <1>1, OtaSafe, PTL

\* Both tasks are in the writer at once only under the abort of the stall watchdog, whatever
\* its window.
THEOREM WriterShared == Spec => []SharedOnlyInStall
<1>1. OtaInv => SharedOnlyInStall
  BY DEF OtaInv, Fields, Numbers, TaskInv, BytesInv, LatchInv, SharedOnlyInStall, InWriter, HostFree
<1> QED
  BY <1>1, OtaSafe, PTL

\* The phone is told of a transfer in order: announced, applied, done, and nothing after a
\* terminal notification but a new transfer.
THEOREM StatusInOrder == Spec => StatusOrder
<1>1. ASSUME OtaInv, [Next]_vars
      PROVE  [status' # status => StatusSteps]_vars
  <2> USE <1>1 DEF OtaInv, Fields, TaskInv, StatusSteps
  <2>1. CASE UNCHANGED vars
    BY <2>1
  <2>2. CASE Host \/ HostReturns
    BY <2>2 DEF Host, HostReturns, Start, RejectStart, End, Abort, Disconnect, DataViolation, Data,
                DataWritten
  <2>3. CASE Product
    BY <2>3 DEF Product, Poll, BeginDone, EnterLoop, Command, FinishStep, StraySignal, ProgressTick,
                AbortDone, FinishDone, EmitTerminal, ClearPending, ComeToRest, Reboot
  <2>4. CASE Teardown \/ Setup
    BY <2>4 DEF Teardown, Setup
  <2> QED
    BY <2>1, <2>2, <2>3, <2>4 DEF Next
<1> QED
  BY <1>1, OtaSafe, PTL DEF Spec, StatusOrder
=============================================================================
