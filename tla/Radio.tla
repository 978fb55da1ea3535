------------------------------- MODULE Radio -------------------------------
(***************************************************************************)
(* The SX1262 driver (firmware/src/radio.rs) under the dispatcher loop     *)
(* that calls it: listen before talk, ask the airtime budget, transmit,    *)
(* poll the receiver.  Three                                               *)
(* parties interleave: the chip, whose latched flags drive the DIO1 line;  *)
(* the interrupt handler, which turns a high line into a sticky task       *)
(* notification; and the dispatcher task, which runs each operation as a   *)
(* script of SPI commands, any of which can fail and end the operation.    *)
(*                                                                         *)
(* Time is left out: a poll may expire at any moment, while the waits for  *)
(* TxDone and CadDone expire only when the chip is no longer busy with it, *)
(* their deadlines being well above the time the chip needs.               *)
(***************************************************************************)
EXTENDS AirtimeBudget, Sequences

CONSTANTS CadFailLimit,  \* CAD_FAIL_LIMIT
          MaxFaults      \* bound on commands that fail and on faults of the chip

ASSUME RadioAssumption == CadFailLimit \in Nat \ {0} /\ MaxFaults \in Nat

VARIABLES
    chip,      \* [mode, irq, mask, buf]: IrqStatus, the mask, the newest unread packet
    armed,     \* the GPIO interrupt is enabled
    notified,  \* the dispatcher task's notification is set
    op,        \* the operation under way, or "top" of the loop
    step,      \* the command of its script that is next
    wait,      \* where GpioDio1Wait::wait_high is
    got,       \* the IRQ status that get_irq returned
    in_continuous_rx, cad_err_streak,
    front,     \* the airtime of the first frame in the TX queue, 0 if it is empty
    budget,    \* the AirtimeBudget
    sent,      \* history: the confirmed transmissions that started in the window
    faults     \* failures so far

duty == <<budget, sent>>
task == <<op, step, wait, got, in_continuous_rx, cad_err_streak, front, duty>>
vars == <<chip, armed, notified, task, faults>>

-----------------------------------------------------------------------------
\* The position of each flag in the 16-bit IRQ words.
Bit == [TxDone |-> 0, RxDone |-> 1, CrcErr |-> 6, CadDone |-> 7, CadDetected |-> 8]
Irqs == DOMAIN Bit

\* A mask sent as two bytes: `as u8` drops the flags above bit 7 from the low one.
Mask(hi, lo) == {f \in hi : Bit[f] >= 8} \cup {f \in lo : Bit[f] < 8}

\* Variant: the flags are cleared before they are read.
ScriptClearFirst ==
    [cad |-> <<"SetStandby", "SetCadParams", "ClearIrq", "MaskCad", "SetCad",
               "Wait", "GetIrq", "ClearIrq">>,
     tx  |-> <<"SetPacketParams", "WriteBuffer", "MaskTx", "ClearIrq", "SetTx",
               "Wait", "ClearTxDone">>,
     rx  |-> <<"MaskRx", "ClearIrq", "SetRx",
               "Wait", "ClearIrq", "GetIrq", "GetRxBufferStatus", "ReadBuffer">>]

\* channel_activity_detection, transmit and try_receive, command by command.
Script ==
    [cad |-> <<"SetStandby", "SetCadParams", "ClearIrq", "MaskCad", "SetCad",
               "Wait", "GetIrq", "ClearIrq">>,
     tx  |-> <<"SetPacketParams", "WriteBuffer", "MaskTx", "ClearIrq", "SetTx",
               "Wait", "ClearTxDone">>,
     rx  |-> <<"MaskRx", "ClearIrq", "SetRx",
               "Wait", "GetIrq", "ClearIrq", "GetRxBufferStatus", "ReadBuffer">>]

\* Where a script waits, and what it waits for.
WaitStep == [cad |-> 6, tx |-> 6, rx |-> 4]
Awaited == [cad |-> {"CadDone"}, tx |-> {"TxDone"}, rx |-> {"RxDone", "CrcErr"}]

Command == IF op = "top" THEN "none" ELSE Script[op][step]

\* DIO1 is high while a flag routed to it is set.
Line == chip.irq \cap chip.mask # {}

\* The chip sets only the flags its mask lets through.
Raise(fs) == chip.irq \cup (fs \cap chip.mask)

\* The chip's side of a command.  Clearing the flags of a packet outside the
\* script of the read forgets that packet.
Executed(cmd) ==
    CASE cmd = "SetStandby" -> [chip EXCEPT !.mode = "standby"]
      [] cmd = "MaskCad" -> [chip EXCEPT !.mask =
                                Mask({"CadDone"}, {"CadDone", "CadDetected"})]
      [] cmd = "MaskTx" -> [chip EXCEPT !.mask = Mask({}, {"TxDone"})]
      [] cmd = "MaskRx" -> [chip EXCEPT !.mask = Mask({"RxDone"}, {"RxDone", "CrcErr"})]
      [] cmd = "ClearIrq" -> [chip EXCEPT !.irq = {},
                                !.buf = IF op = "rx" /\ step > WaitStep["rx"]
                                        THEN @ ELSE "none"]
      [] cmd = "ClearTxDone" -> [chip EXCEPT !.irq = @ \ {"TxDone"}]
      [] cmd = "SetCad" -> [chip EXCEPT !.mode = IF @ = "standby" THEN "cad" ELSE @]
      [] cmd = "SetTx" -> [chip EXCEPT !.mode = "tx"]
      [] cmd = "SetRx" -> [chip EXCEPT !.mode = "rx"]
      [] cmd = "GetRxBufferStatus" -> [chip EXCEPT !.buf = "none"]
      [] OTHER -> chip

\* Variant: the radio counts as armed as soon as its flags are routed.
ArmedAfterEarly(cmd) ==
    CASE cmd = "SetStandby" -> FALSE
      [] cmd = "ClearIrq" /\ op = "tx" -> FALSE
      [] cmd = "MaskRx" -> TRUE
      [] OTHER -> in_continuous_rx

\* The value of in_continuous_rx once a command has succeeded.  transmit clears
\* it after its clear_irq, before it waits for the chip to take SetTx.
ArmedAfter(cmd) ==
    CASE cmd = "SetStandby" -> FALSE
      [] cmd = "ClearIrq" /\ op = "tx" -> FALSE
      [] cmd = "SetRx" -> TRUE
      [] OTHER -> in_continuous_rx

-----------------------------------------------------------------------------
Init ==
    /\ chip = [mode |-> "standby", irq |-> {}, mask |-> {}, buf |-> "none"]
    /\ armed = FALSE /\ notified = FALSE
    /\ op = "top" /\ step = 1 /\ wait = "none" /\ got = {}
    /\ in_continuous_rx = FALSE /\ cad_err_streak = 0
    /\ front = 0 /\ budget = NewBudget /\ sent = {}
    /\ faults = 0

\* An operation begins; try_receive arms the receiver only when it must.
Begin(o) ==
    /\ op' = o
    /\ step' = IF o = "rx" /\ in_continuous_rx' THEN WaitStep["rx"] ELSE 1
    /\ wait' = "none" /\ got' = {}

\* After CAD and TX comes the poll of the receiver, after that the next loop.
After(o) == IF o = "rx" THEN "top" ELSE "rx"

\* Clear to send: the first frame is transmitted if the airtime budget allows it.
ClearToSend == Begin(IF CanTransmit(budget, front) THEN "tx" ELSE "rx")

\* A failed CAD pass; the third in a row transmits without listening.
CadFailed ==
    IF cad_err_streak + 1 >= CadFailLimit
    THEN cad_err_streak' = 0 /\ ClearToSend
    ELSE cad_err_streak' = cad_err_streak + 1 /\ Begin("rx")

\* An operation returns an error.
Failed ==
    IF op = "cad" THEN CadFailed
    ELSE Begin(After(op)) /\ UNCHANGED cad_err_streak

\* The top of the loop: CAD when a frame is queued and no backoff runs.
StartCad ==
    /\ op = "top" /\ front # 0
    /\ Begin("cad")
    /\ UNCHANGED <<chip, armed, notified, in_continuous_rx, cad_err_streak, front, duty, faults>>

StartRx ==
    /\ op = "top"
    /\ UNCHANGED <<chip, armed, notified, in_continuous_rx, cad_err_streak, front, duty, faults>>
    /\ Begin("rx")

\* Something enqueues a frame.
Enqueue ==
    /\ op = "top" /\ front = 0
    /\ front' \in Airtimes
    /\ UNCHANGED <<chip, armed, notified, op, step, wait, got, in_continuous_rx,
                   cad_err_streak, duty, faults>>

\* d ticks pass.
Pass(b, s, d) ==
    /\ budget' = Aged(b, d)
    /\ sent' = {r \in {Older(q, d) : q \in s} : r.age <= WindowMs}

\* Time passes between two iterations.
Tick ==
    /\ op = "top" /\ sent # {}
    /\ Pass(budget, sent, 1)
    /\ UNCHANGED <<chip, armed, notified, op, step, wait, got, in_continuous_rx,
                   cad_err_streak, front, faults>>

\* A command that is not the last of its script succeeds.
Continue ==
    /\ step < Len(Script[op])
    /\ step' = step + 1
    /\ got' = IF Command = "GetIrq" THEN chip.irq ELSE got
    /\ UNCHANGED <<op, wait, cad_err_streak, front, duty>>

\* CAD completes: a busy channel backs off.
CadDone ==
    /\ op = "cad"
    /\ cad_err_streak' = 0
    /\ IF "CadDetected" \in got THEN Begin("rx") ELSE ClearToSend
    /\ UNCHANGED <<front, duty>>

\* transmit returns Ok: the frame leaves the queue, which may hold another, and
\* is recorded; the loop was blocked for its airtime.
TxDone ==
    /\ op = "tx"
    /\ front' \in Airtimes \cup {0}
    /\ Pass(RecordTx(budget, front), sent \cup {[age |-> 0, duration |-> front]}, front)
    /\ Begin("rx")
    /\ UNCHANGED cad_err_streak

RxDone ==
    /\ op = "rx"
    /\ Begin("top")
    /\ UNCHANGED <<cad_err_streak, front, duty>>

\* A poll that read no RxDone, or a CRC error, ends after its clear_irq; the
\* packets those flags stood for are given up.
NothingRead == op = "rx" /\ step = 6 /\ ("RxDone" \notin got \/ "CrcErr" \in got)

CommandSucceeds ==
    /\ op # "top" /\ Command # "Wait"
    /\ in_continuous_rx' = ArmedAfter(Command)
    /\ chip' = IF NothingRead /\ "CrcErr" \in got
               THEN [Executed(Command) EXCEPT !.buf = "none"]
               ELSE Executed(Command)
    /\ \/ ~NothingRead /\ Continue
       \/ step = Len(Script[op]) /\ (CadDone \/ TxDone)
       \/ (NothingRead \/ step = Len(Script[op])) /\ RxDone
    /\ UNCHANGED <<armed, notified, faults>>

\* The SPI transfer fails or BUSY stays high: the command is not executed and
\* the operation returns.  A packet whose flags are cleared already is lost.
CommandFails ==
    /\ op # "top" /\ Command # "Wait" /\ faults < MaxFaults
    /\ faults' = faults + 1
    /\ chip' = IF Command = "GetRxBufferStatus" THEN [chip EXCEPT !.buf = "none"] ELSE chip
    /\ UNCHANGED <<armed, notified, in_continuous_rx, front, duty>>
    /\ Failed

-----------------------------------------------------------------------------
Asserted == wait' = "none" /\ step' = step + 1 /\ UNCHANGED <<op, got, cad_err_streak>>

\* TimedOut: an empty poll for the receiver, an error for CAD and TX.
TimedOut == Failed

\* Variant: the interrupt is taken to be still enabled from the last wait.
ArmNot == wait' = "block" /\ UNCHANGED armed

\* set_interrupt_type and enable_interrupt.
Arm == wait' = "block" /\ armed' = TRUE

\* wait_high: the fast path, or arming the interrupt.
WaitHigh ==
    /\ Command = "Wait" /\ wait = "none"
    /\ IF Line THEN Asserted /\ UNCHANGED armed
       ELSE Arm /\ UNCHANGED <<op, step, got, cad_err_streak>>
    /\ UNCHANGED <<chip, notified, in_continuous_rx, front, duty, faults>>

\* Arming fails: spin_poll_fallback.
ArmFails ==
    /\ Command = "Wait" /\ wait = "none" /\ ~Line /\ faults < MaxFaults
    /\ faults' = faults + 1
    /\ wait' = "spin"
    /\ UNCHANGED <<chip, armed, notified, op, step, got, in_continuous_rx,
                   cad_err_streak, front, duty>>

\* Notification::wait returns with the notification, which it consumes.
Wake ==
    /\ wait = "block" /\ notified
    /\ notified' = FALSE
    /\ wait' = "recheck"
    /\ UNCHANGED <<chip, armed, op, step, got, in_continuous_rx, cad_err_streak,
                   front, duty, faults>>

\* A wake is a hint: only a high line is Asserted, a stale one waits again.
Recheck ==
    /\ wait = "recheck"
    /\ IF Line THEN Asserted
       ELSE wait' = "block" /\ UNCHANGED <<op, step, got, cad_err_streak>>
    /\ UNCHANGED <<chip, armed, notified, in_continuous_rx, front, duty, faults>>

SpinSeesLine ==
    /\ wait = "spin" /\ Line
    /\ Asserted
    /\ UNCHANGED <<chip, armed, notified, in_continuous_rx, front, duty, faults>>

\* The deadline passes; the interrupt is disabled only in the next step.
Timeout ==
    /\ wait = "block" /\ (op = "rx" \/ chip.mode # op)
    /\ wait' = "disable"
    /\ UNCHANGED <<chip, armed, notified, op, step, got, in_continuous_rx,
                   cad_err_streak, front, duty, faults>>

Disable ==
    /\ wait = "disable"
    /\ armed' = FALSE
    /\ UNCHANGED <<chip, notified, in_continuous_rx, front, duty, faults>>
    /\ TimedOut

SpinTimeout ==
    /\ wait = "spin" /\ ~Line /\ (op = "rx" \/ chip.mode # op)
    /\ UNCHANGED <<chip, armed, notified, in_continuous_rx, front, duty, faults>>
    /\ TimedOut

-----------------------------------------------------------------------------
\* The level-triggered interrupt fires: it notifies and disables itself.
Isr ==
    /\ armed /\ Line
    /\ notified' = TRUE /\ armed' = FALSE
    /\ UNCHANGED <<chip, task, faults>>

\* A packet ends, with or without a CRC error; unheard if it is not flagged.
Packet ==
    /\ chip.mode = "rx"
    /\ \E bad \in BOOLEAN :
           chip' = [chip EXCEPT
               !.irq = Raise({"RxDone"} \cup (IF bad THEN {"CrcErr"} ELSE {})),
               !.buf = IF "RxDone" \notin chip.mask THEN "none"
                       ELSE IF bad THEN "bad" ELSE "good"]
    /\ UNCHANGED <<armed, notified, task, faults>>

\* CAD ends and falls back to standby, having detected activity or not.
CadEnds ==
    /\ chip.mode = "cad"
    /\ \E active \in BOOLEAN :
           chip' = [chip EXCEPT !.mode = "standby",
               !.irq = Raise({"CadDone"} \cup (IF active THEN {"CadDetected"} ELSE {}))]
    /\ UNCHANGED <<armed, notified, task, faults>>

TxEnds ==
    /\ chip.mode = "tx"
    /\ chip' = [chip EXCEPT !.mode = "standby", !.irq = Raise({"TxDone"})]
    /\ UNCHANGED <<armed, notified, task, faults>>

\* The chip gives up an operation without a flag.
ChipFault ==
    /\ chip.mode \in {"cad", "tx"} /\ faults < MaxFaults
    /\ chip' = [chip EXCEPT !.mode = "standby"]
    /\ faults' = faults + 1
    /\ UNCHANGED <<armed, notified, task>>

Dispatcher ==
    \/ StartCad \/ StartRx \/ CommandSucceeds \/ CommandFails
    \/ WaitHigh \/ ArmFails \/ Wake \/ Recheck \/ SpinSeesLine
    \/ Timeout \/ Disable \/ SpinTimeout

Next == Dispatcher \/ Enqueue \/ Tick \/ Isr \/ Packet \/ CadEnds \/ TxEnds \/ ChipFault

(***************************************************************************)
(* The dispatcher task never stops, the interrupt fires, a backoff ends    *)
(* after at most three seconds, and the chip finishes what it started.     *)
(***************************************************************************)
Fairness ==
    /\ WF_vars(Dispatcher)
    /\ SF_vars(StartCad)
    /\ WF_vars(Isr)
    /\ WF_vars(CadEnds \/ TxEnds)

Spec == Init /\ [][Next]_vars /\ Fairness

-----------------------------------------------------------------------------
TypeOK ==
    /\ chip \in [mode : {"standby", "rx", "cad", "tx"}, irq : SUBSET Irqs,
                 mask : SUBSET Irqs, buf : {"none", "good", "bad"}]
    /\ armed \in BOOLEAN /\ notified \in BOOLEAN
    /\ op \in {"top", "cad", "tx", "rx"} /\ step \in 1..8
    /\ wait \in {"none", "block", "recheck", "disable", "spin"}
    /\ got \subseteq Irqs
    /\ in_continuous_rx \in BOOLEAN
    /\ cad_err_streak \in 0..(CadFailLimit - 1)
    /\ front \in Airtimes \cup {0}
    /\ budget \in Budgets
    /\ sent \subseteq TxRecord
    /\ faults \in 0..MaxFaults

(***************************************************************************)
(* "Asserted => DIO1 is asserted right now" (radio.rs, GpioDio1Wait), and  *)
(* by what was waited for: when an operation goes on after its wait, a     *)
(* flag it awaits is set, so neither a notification left by an earlier     *)
(* wait nor a flag of another operation makes transmit report a frame that *)
(* is still on the air, or CAD a verdict it does not have.                 *)
(***************************************************************************)
AssertedIsOwn ==
    op # "top" /\ step = WaitStep[op] + 1 => chip.irq \cap Awaited[op] # {}

(***************************************************************************)
(* No wake-up is lost between the line, the interrupt that disables        *)
(* itself, the disabling after a timeout and the sticky notification: a    *)
(* task blocked on a high line has its interrupt enabled or its            *)
(* notification set.                                                       *)
(***************************************************************************)
NoLostWakeup == wait = "block" /\ Line => armed \/ notified

\* GpioDio1Wait::wait_high returns for its own reason, and does return.
WaitInv == TypeOK /\ AssertedIsOwn /\ NoLostWakeup

Listening == chip.mode = "rx" /\ "RxDone" \in chip.mask

(***************************************************************************)
(* "The radio is (and remains) in continuous RX for the entire call"       *)
(* (radio.rs, try_receive) rests on in_continuous_rx telling the truth     *)
(* after any command failed.  The one gap: transmit reroutes the flags     *)
(* before it clears in_continuous_rx, so a failure between the two, after  *)
(* CAD was given up, leaves the receiver deaf; then the frame is still     *)
(* queued, and its next attempt repairs it.                                *)
(***************************************************************************)
DeafOnlyWhilePending ==
    op = "rx" /\ step = WaitStep["rx"] => Listening \/ front # 0

(***************************************************************************)
(* "a packet whose preamble arrives between software polls is still        *)
(* demodulated and waiting at the next poll" (radio.rs,                    *)
(* start_continuous_rx): while no CAD pass and no transmission takes the   *)
(* radio out of RX, an intact packet nobody has read is flagged, or the    *)
(* poll under way has seen its flag and goes on to read it.                *)
(***************************************************************************)
UnreadStaysFlagged ==
    op \in {"top", "rx"} /\ in_continuous_rx /\ chip.buf = "good" =>
        \/ "RxDone" \in chip.irq
        \/ op = "rx" /\ step > WaitStep["rx"] + 1 /\ "RxDone" \in got

\* The receiver loses nothing but what a CAD pass, a transmission or a failed
\* command costs: try_receive polls a radio that listens and reads what it heard.
ReceiverHears == DeafOnlyWhilePending /\ UnreadStaysFlagged

(***************************************************************************)
(* AirtimeBudget's doc ("sliding-window (60 s) duty-cycle enforcer (<= 10  *)
(* %)", firmware-core/src/dispatcher.rs:8), with CAD passes that fail,     *)
(* blind transmissions and retries in between: the confirmed transmissions *)
(* that started within the last window never add up to more than the       *)
(* budget.                                                                 *)
(***************************************************************************)
DutyBounded == Cardinality(UNION {{r} \X (1..r.duration) : r \in sent}) <= MaxMs

(***************************************************************************)
(* Whatever the CAD passes, transmissions and failures before, the radio   *)
(* listens again, for ever, once commands stop failing.                    *)
(***************************************************************************)
ListeningResumes == []<>Listening
=============================================================================
