--------------------------------- MODULE OtaBle ---------------------------------
(***************************************************************************)
(* The firmware update a phone pushes over BLE: OtaBleService              *)
(* (components/airgradient-ota/services/ota_ble_service.cpp) on the flash  *)
(* writer, polled by the orchestrator in Portable mode.                    *)
(*                                                                         *)
(* Two tasks share it.  The NimBLE host task runs the Control and Data     *)
(* callbacks and flashes each chunk inside the callback; the orchestrator  *)
(* (the product task) runs begin, finish and abort inside run().  The      *)
(* target has one core and the host task the higher priority: a callback   *)
(* runs to its end except while it waits in writer.write(), and it may     *)
(* preempt the product task anywhere, inside the writer too.               *)
(***************************************************************************)
EXTENDS Integers

CONSTANTS
  MaxTotal,    \* bound: declared image sizes 1..MaxTotal, chunks of 1..MaxTotal bytes
  StallTicks,  \* STALL_TIMEOUT_MS / PROGRESS_INTERVAL_MS
  MaxStarts    \* bound: accepted STARTs in a behaviour

ASSUME OtaAssumption ==
  /\ MaxTotal \in Nat \ {0} /\ StallTicks \in Nat \ {0} /\ MaxStarts \in Nat \ {0}

VARIABLES
  portable,   \* the service is set up: operating mode is Portable
  state,      \* _state
  isActive,   \* _is_active
  pending,    \* _pending
  cause,      \* _terminal_status, the reason of a latched abort
  total,      \* _total
  accepted,   \* _bytes_accepted
  signal,     \* _signal, a binary semaphore
  chunk,      \* length of the chunk the host task has inside writer.write(), or 0
  task,       \* where the product task is
  lastBytes,  \* run()'s last_bytes
  idleTicks,  \* run()'s idle_ms, in progress intervals
  result,     \* _result, what run() returns
  writing,    \* the writer's _in_progress
  flashed,    \* bytes written since the writer's begin()
  staged,     \* the boot partition has been switched to the new image
  status,     \* the last state notified to the phone
  starts      \* number of STARTs accepted

hostVars == <<chunk, total, accepted>>
runVars == <<lastBytes, idleTicks, result>>
writerVars == <<writing, flashed, staged>>
vars == <<portable, state, isActive, pending, cause, total, accepted, signal, chunk, task,
          lastBytes, idleTicks, result, writing, flashed, staged, status, starts>>

Lengths == 1..MaxTotal
Failures == {"TransportError", "FlashError", "InvalidImage", "Aborted"}

-----------------------------------------------------------------------------
(* The NimBLE host task.                                                    *)

HostFree == chunk = 0

\* _latch_abort(): the first cause wins and wakes run().
LatchAbort(why) ==
  IF pending = "None"
    THEN pending' = "Abort" /\ cause' = why /\ signal' = TRUE
    ELSE UNCHANGED <<pending, cause, signal>>

\* A well-formed START; only one transfer at a time.
Start(n) ==
  /\ portable /\ HostFree /\ state = "Idle" /\ starts < MaxStarts
  /\ total' = n /\ accepted' = 0
  /\ pending' = "None"
  /\ state' = "Starting"
  /\ isActive' = TRUE
  /\ signal' = TRUE
  /\ starts' = starts + 1
  /\ UNCHANGED <<portable, cause, chunk, task, runVars, writerVars, status>>

\* Broken variant: is_active is raised before the START is validated.
RejectStartActive ==
  /\ portable /\ HostFree /\ state = "Idle"
  /\ isActive' = TRUE /\ status' = "Failed"
  /\ UNCHANGED <<portable, state, pending, cause, signal, hostVars, task, runVars, writerVars, starts>>

\* A control write that does not decode, or a START that declares no valid size,
\* is answered at once when no transfer is live.
RejectStart ==
  /\ portable /\ HostFree /\ state = "Idle"
  /\ status' = "Failed"
  /\ UNCHANGED <<portable, state, isActive, pending, cause, signal, hostVars, task, runVars,
                 writerVars, starts>>

\* END: only while downloading and with no terminal latched.
End ==
  /\ portable /\ HostFree /\ state = "Downloading" /\ pending = "None"
  /\ pending' = "Finish" /\ signal' = TRUE
  /\ UNCHANGED <<portable, state, isActive, cause, hostVars, task, runVars, writerVars, status, starts>>

\* ABORT from the phone.
Abort ==
  /\ portable /\ HostFree /\ state # "Idle"
  /\ LatchAbort("Aborted")
  /\ UNCHANGED <<portable, state, isActive, hostVars, task, runVars, writerVars, status, starts>>

\* handle_disconnect()
Disconnect ==
  /\ portable /\ HostFree /\ isActive
  /\ LatchAbort("TransportError")
  /\ UNCHANGED <<portable, state, isActive, hostVars, task, runVars, writerVars, status, starts>>

\* A Data write before the ready notification, or an empty, oversized or
\* overflowing one: a protocol violation.
DataViolation ==
  /\ portable /\ HostFree
  /\ state = "Starting" \/ (state = "Downloading" /\ pending = "None")
  /\ LatchAbort("TransportError")
  /\ UNCHANGED <<portable, state, isActive, hostVars, task, runVars, writerVars, status, starts>>

\* Broken variants of the Data callback: a latched terminal does not stop it; the
\* declared size does not.
DataAfterLatch(len) ==
  /\ portable /\ HostFree
  /\ state = "Downloading"
  /\ accepted + len <= total
  /\ chunk' = len
  /\ UNCHANGED <<portable, state, isActive, pending, cause, signal, total, accepted, task, runVars,
                 writerVars, status, starts>>
DataUnbounded(len) ==
  /\ portable /\ HostFree
  /\ state = "Downloading" /\ pending = "None"
  /\ chunk' = len
  /\ UNCHANGED <<portable, state, isActive, pending, cause, signal, total, accepted, task, runVars,
                 writerVars, status, starts>>

\* A Data write that fits: the callback enters writer.write().  In any other state,
\* or after a terminal was latched, the write is ignored.
Data(len) ==
  /\ portable /\ HostFree
  /\ state = "Downloading" /\ pending = "None"
  /\ accepted + len <= total
  /\ chunk' = len
  /\ UNCHANGED <<portable, state, isActive, pending, cause, signal, total, accepted, task, runVars,
                 writerVars, status, starts>>

\* writer.write() returns: it fails on a writer that is closed by now.
DataWritten(ok) ==
  /\ ~HostFree
  /\ ok => writing
  /\ IF ok THEN /\ flashed' = flashed + chunk /\ accepted' = accepted + chunk
                /\ UNCHANGED <<pending, cause, signal>>
           ELSE LatchAbort("FlashError") /\ UNCHANGED <<flashed, accepted>>
  /\ chunk' = 0
  /\ UNCHANGED <<portable, state, isActive, total, task, runVars, writing, staged, status, starts>>

-----------------------------------------------------------------------------
(* The product task.                                                        *)

\* The poll finds a latched START and calls run(0), which drives a transfer only
\* from Starting and otherwise returns Ok: a reboot, in finish_ota().
Poll ==
  /\ portable /\ task = "idle" /\ isActive
  /\ IF state = "Starting" THEN task' = "begin" /\ UNCHANGED result
                           ELSE task' = "reboot" /\ result' = "Ok"
  /\ UNCHANGED <<portable, state, isActive, pending, cause, signal, hostVars, lastBytes, idleTicks,
                 writerVars, status, starts>>

\* _begin_step(): writer.begin() returns.
BeginDone(ok) ==
  /\ task = "begin"
  /\ flashed' = 0
  /\ writing' = ok
  /\ IF ok THEN /\ state' = "Downloading" /\ status' = "Downloading" /\ task' = "enter"
                /\ UNCHANGED result
           ELSE task' = "emit" /\ result' = "FlashError" /\ UNCHANGED <<state, status>>
  /\ UNCHANGED <<portable, isActive, pending, cause, signal, hostVars, lastBytes, idleTicks, staged,
                 starts>>

\* Chunks may arrive between the ready notification and the loop.
EnterLoop ==
  /\ task = "enter"
  /\ lastBytes' = accepted /\ idleTicks' = 0
  /\ task' = "wait"
  /\ UNCHANGED <<portable, state, isActive, pending, cause, signal, hostVars, result, writerVars,
                 status, starts>>

\* Broken variants of _finish_step(): no truncation guard; no abort of a truncated
\* image; no Applying notification.
FinishUnchecked ==
  state' = "Applying" /\ status' = "Applying" /\ task' = "finish" /\ UNCHANGED result
FinishLeavingOpen ==
  IF accepted # total
    THEN task' = "emit" /\ result' = "TransportError" /\ UNCHANGED <<state, status>>
    ELSE state' = "Applying" /\ status' = "Applying" /\ task' = "finish" /\ UNCHANGED result
FinishSilently ==
  IF accepted # total
    THEN task' = "abort" /\ result' = "TransportError" /\ UNCHANGED <<state, status>>
    ELSE state' = "Applying" /\ task' = "finish" /\ UNCHANGED <<status, result>>

\* _finish_step() up to writer.finish(): a truncated image is aborted.
FinishStep ==
  IF accepted # total
    THEN task' = "abort" /\ result' = "TransportError" /\ UNCHANGED <<state, status>>
    ELSE state' = "Applying" /\ status' = "Applying" /\ task' = "finish" /\ UNCHANGED result

\* The take returned, signalled or not, and a command is latched.
Command ==
  /\ task = "wait" /\ pending # "None"
  /\ signal' = FALSE
  /\ IF pending = "Finish"
       THEN FinishStep
       ELSE task' = "abort" /\ result' = cause /\ UNCHANGED <<state, status>>
  /\ UNCHANGED <<portable, isActive, pending, cause, hostVars, lastBytes, idleTicks, writerVars, starts>>

\* The START's own signal, or one whose command an earlier tick has handled.
StraySignal ==
  /\ task = "wait" /\ signal /\ pending = "None"
  /\ signal' = FALSE
  /\ UNCHANGED <<portable, state, isActive, pending, cause, hostVars, task, runVars, writerVars,
                 status, starts>>

\* Broken variant: every tick restarts the stall window.
ProgressTickForgetful ==
  /\ task = "wait" /\ ~signal /\ pending = "None"
  /\ lastBytes' = accepted /\ idleTicks' = 0
  /\ status' = "Downloading"
  /\ UNCHANGED <<portable, state, isActive, pending, cause, signal, hostVars, task, result, writerVars,
                 starts>>

\* The progress interval passed with nothing latched: the stall watchdog.
ProgressTick ==
  /\ task = "wait" /\ ~signal /\ pending = "None"
  /\ \/ /\ accepted # lastBytes
        /\ lastBytes' = accepted /\ idleTicks' = 0
        /\ status' = "Downloading" /\ UNCHANGED <<task, result>>
     \/ /\ accepted = lastBytes /\ idleTicks + 1 < StallTicks
        /\ idleTicks' = idleTicks + 1
        /\ status' = "Downloading" /\ UNCHANGED <<lastBytes, task, result>>
     \/ /\ accepted = lastBytes /\ idleTicks + 1 >= StallTicks
        /\ idleTicks' = StallTicks
        /\ task' = "abort" /\ result' = "TransportError"
        /\ UNCHANGED <<lastBytes, status>>
  /\ UNCHANGED <<portable, state, isActive, pending, cause, signal, hostVars, writerVars, starts>>

\* writer.abort() returns.
AbortDone ==
  /\ task = "abort"
  /\ writing' = FALSE
  /\ task' = "emit"
  /\ UNCHANGED <<portable, state, isActive, pending, cause, signal, hostVars, runVars, flashed,
                 staged, status, starts>>

\* writer.finish() returns; esp_ota_end() closes the writer whatever it finds.
FinishDone(outcome) ==
  /\ task = "finish"
  /\ writing' = FALSE
  /\ staged' = (staged \/ outcome = "Ok")
  /\ result' = outcome
  /\ task' = "emit"
  /\ UNCHANGED <<portable, state, isActive, pending, cause, signal, hostVars, lastBytes, idleTicks,
                 flashed, status, starts>>

\* _emit_terminal(), store by store: the host task may latch in between.
EmitTerminal ==
  /\ task = "emit"
  /\ status' = IF result = "Ok" THEN "Done" ELSE "Failed"
  /\ isActive' = FALSE
  /\ task' = "clear"
  /\ UNCHANGED <<portable, state, pending, cause, signal, hostVars, runVars, writerVars, starts>>
ClearPending ==
  /\ task = "clear"
  /\ pending' = "None"
  /\ task' = "rest"
  /\ UNCHANGED <<portable, state, isActive, cause, signal, hostVars, runVars, writerVars, status, starts>>
ComeToRest ==
  /\ task = "rest"
  /\ state' = "Idle"
  /\ task' = IF result = "Ok" THEN "reboot" ELSE "idle"
  /\ UNCHANGED <<portable, isActive, pending, cause, signal, hostVars, runVars, writerVars, status,
                 starts>>

\* finish_ota(Ok) reboots into the staged image.
Reboot ==
  /\ task = "reboot"
  /\ portable' = TRUE /\ state' = "Idle" /\ isActive' = FALSE /\ pending' = "None"
  /\ cause' = "Aborted" /\ total' = 0 /\ accepted' = 0 /\ signal' = FALSE /\ chunk' = 0
  /\ task' = "idle" /\ lastBytes' = 0 /\ idleTicks' = 0 /\ result' = "Ok"
  /\ writing' = FALSE /\ flashed' = 0 /\ staged' = FALSE
  /\ status' = "None"
  /\ UNCHANGED starts

\* A mode change tears the service down between polls; a START the poll has not
\* seen is latched as aborted and waits for the next time in Portable.
Teardown ==
  /\ portable /\ task = "idle"
  /\ portable' = FALSE
  /\ IF isActive THEN LatchAbort("Aborted") ELSE UNCHANGED <<pending, cause, signal>>
  /\ UNCHANGED <<state, isActive, hostVars, task, runVars, writerVars, status, starts>>
Setup ==
  /\ ~portable
  /\ portable' = TRUE /\ status' = "None"
  /\ UNCHANGED <<state, isActive, pending, cause, signal, hostVars, task, runVars, writerVars, starts>>

-----------------------------------------------------------------------------
Init ==
  /\ portable = TRUE
  /\ state = "Idle" /\ isActive = FALSE /\ pending = "None" /\ cause = "Aborted"
  /\ total = 0 /\ accepted = 0 /\ signal = FALSE /\ chunk = 0
  /\ task = "idle" /\ lastBytes = 0 /\ idleTicks = 0 /\ result = "Ok"
  /\ writing = FALSE /\ flashed = 0 /\ staged = FALSE
  /\ status = "None" /\ starts = 0

Host ==
  \/ \E n \in Lengths : Start(n)
  \/ RejectStart
  \/ End
  \/ Abort
  \/ Disconnect
  \/ DataViolation
  \/ \E len \in Lengths : Data(len)

HostReturns == \E ok \in BOOLEAN : DataWritten(ok)

Product ==
  \/ Poll
  \/ \E ok \in BOOLEAN : BeginDone(ok)
  \/ EnterLoop
  \/ Command
  \/ StraySignal
  \/ ProgressTick
  \/ AbortDone
  \/ \E outcome \in {"Ok", "InvalidImage", "FlashError"} : FinishDone(outcome)
  \/ EmitTerminal
  \/ ClearPending
  \/ ComeToRest
  \/ Reboot

Next == Host \/ HostReturns \/ Product \/ Teardown \/ Setup

\* The scheduler runs the orchestrator, flash writes return, and the phone owes
\* nothing.
Spec == Init /\ [][Next]_vars /\ WF_vars(Product) /\ WF_vars(HostReturns)

-----------------------------------------------------------------------------
\* Type invariant: the fields of both tasks; and the bytes accepted, with those in the host
\* task's hand, are never more than the START declared (ota_ble_service.cpp, the bound in the
\* data handler), whatever is aborted, restarted or late.
OtaTypeOK ==
  /\ {portable, isActive, signal, writing, staged} \subseteq BOOLEAN
  /\ state \in {"Idle", "Starting", "Downloading", "Applying"}
  /\ pending \in {"None", "Finish", "Abort"}
  /\ cause \in Failures /\ result \in Failures \cup {"Ok"}
  /\ {total, accepted, chunk, lastBytes, flashed} \subseteq 0..MaxTotal
  /\ accepted + chunk <= total
  /\ task \in {"idle", "begin", "enter", "wait", "abort", "finish", "emit", "clear", "rest", "reboot"}
  /\ idleTicks \in 0..StallTicks
  /\ status \in {"None", "Downloading", "Applying", "Done", "Failed"}
  /\ starts \in 0..MaxStarts

\* The image handed to esp_ota_end() and switched to is whole: exactly the declared
\* bytes were flashed, and no chunk is still on its way into the flash.
WholeImage ==
  task = "finish" \/ (task = "emit" /\ staged) => flashed = total /\ accepted = total /\ HostFree

\* The poll never calls run() with nothing to drive, which would return Ok and
\* reboot the device without an update.
PollFindsStart == isActive /\ task = "idle" => state = "Starting"

\* Once run() has returned nothing of the transfer is left open: the writer is
\* closed, and the next START finds Idle.
NothingLeftOpen == task = "idle" /\ ~isActive => state = "Idle" /\ ~writing

InWriter == task \in {"begin", "abort", "finish"}
\* The two tasks are inside the writer at once only when the stall watchdog, which
\* latches nothing, aborts under a chunk that arrives late.
SharedOnlyInStall ==
  InWriter /\ ~HostFree => task = "abort" /\ idleTicks = StallTicks

\* As components/airgradient-ota/services/ota_ble_service.h:34 has it: "The two never
\* touch the writer concurrently".
WriterExclusive == ~(InWriter /\ ~HostFree)

StatusSteps ==
  /\ status' = "Applying" => status = "Downloading"
  /\ status' = "Done" => status \in {"Applying", "Done"}
  /\ status = "Failed" /\ status' = "Downloading" => task = "begin"
\* What the phone is told of a transfer makes sense in order: a new transfer is
\* announced before it is applied, only an applied one is done, and nothing follows
\* a terminal notification but a new transfer.
StatusOrder == [][status' # status => StatusSteps]_vars

\* Every transfer ends, however silent the phone: run() always gets to its terminal
\* edge unless the service is torn down first.
TransferEnds == isActive ~> (~isActive \/ ~portable)
=============================================================================
