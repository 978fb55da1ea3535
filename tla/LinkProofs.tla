----------------------------- MODULE LinkProofs -----------------------------
(***************************************************************************)
(* Proofs about the device's three links to the outside: the radio (Radio), *)
(* the GNSS module (GpsClock) and the USB host (HostLink), for every value *)
(* of their constants.  The three are independent specifications.          *)
(***************************************************************************)
EXTENDS Radio, GpsClock, HostLink, TLAPS, FiniteSetTheorems,
        FunctionTheorems, SequenceTheorems, WellFoundedInduction

-----------------------------------------------------------------------------
(***************************************************************************)
(* Radio: waits return for their own reason and no wake-up is lost, and the *)
(* receiver polls a radio that listens, and what is sent stays within the  *)
(* airtime budget.                                                         *)
(***************************************************************************)

\* The flags each operation routes to DIO1: CAD loses CadDetected, whose bit does
\* not fit the byte it is sent in.
RxMask == {"RxDone", "CrcErr"}
TxMask == {"TxDone"}
CadMask == {"CadDone"}

\* The receiver is armed, or its script has only SetRx left to send.
Receiving == in_continuous_rx \/ (op = "rx" /\ step = 3)

\* A wait is under way only at the script's Wait, and a frame is queued for as
\* long as it is being sent.
ScriptInv ==
    /\ op = "tx" => step <= 7
    /\ wait # "none" => op # "top" /\ step = WaitStep[op]
    /\ op \in {"cad", "tx"} => front # 0

\* Which flags are routed, step by step.
RouteInv ==
    /\ op = "cad" /\ step >= 5 => chip.mask = CadMask
    /\ op = "tx" /\ step >= 4 => chip.mask = TxMask
    /\ op = "rx" /\ step # 1 /\ step # 4 => chip.mask = RxMask

\* in_continuous_rx tells the truth about the mode, and about the routed flags
\* unless a transmission was cut off after it had rerouted them.
ArmedInv ==
    /\ op = "cad" /\ step >= 2 => ~in_continuous_rx
    /\ op = "tx" /\ step >= 5 => ~in_continuous_rx
    /\ op = "rx" /\ step <= 3 => ~in_continuous_rx
    /\ op = "rx" /\ step >= 4 => in_continuous_rx
    /\ in_continuous_rx => /\ chip.mode = "rx"
                           /\ chip.mask = RxMask \/ (chip.mask = TxMask /\ front # 0)

\* While the radio receives only the receiver's flags are set, a CRC error never
\* without RxDone, and an intact packet is flagged until the poll that has seen
\* its flag clears it.
UnreadInv ==
    /\ Receiving => /\ chip.irq \subseteq RxMask
                    /\ "CrcErr" \in chip.irq => "RxDone" \in chip.irq
                    /\ chip.buf = "good" => "RxDone" \in chip.irq \/ (op = "rx" /\ step = 7)
    /\ op = "rx" /\ step \in {6, 7} => "RxDone" \in got

\* The interrupt stays enabled through a stale notification: only the handler
\* disables it, on a line that is high and stays so.
WakeInv == wait \in {"block", "recheck"} => armed \/ Line

IInv ==
    /\ TypeOK /\ AssertedIsOwn /\ NoLostWakeup
    /\ ScriptInv /\ RouteInv /\ ArmedInv /\ UnreadInv /\ WakeInv

ChipType == [mode : {"standby", "rx", "cad", "tx"}, irq : SUBSET Irqs,
             mask : SUBSET Irqs, buf : {"none", "good", "bad"}]

-----------------------------------------------------------------------------
(* The tables *)

LEMMA IrqNames ==
    /\ Irqs = {"TxDone", "RxDone", "CrcErr", "CadDone", "CadDetected"}
    /\ RxMask \subseteq Irqs /\ TxMask \subseteq Irqs /\ CadMask \subseteq Irqs
BY DEF Irqs, Bit, RxMask, TxMask, CadMask

\* What is left of each mask once it was sent as two bytes.
LEMMA MaskFacts ==
    /\ Mask({"CadDone"}, {"CadDone", "CadDetected"}) = CadMask
    /\ Mask({}, {"TxDone"}) = TxMask
    /\ Mask({"RxDone"}, {"RxDone", "CrcErr"}) = RxMask
<1>1. /\ Bit["TxDone"] = 0 /\ Bit["RxDone"] = 1 /\ Bit["CrcErr"] = 6
      /\ Bit["CadDone"] = 7 /\ Bit["CadDetected"] = 8
  BY DEF Bit
<1>2. Mask({"CadDone"}, {"CadDone", "CadDetected"}) = CadMask
  BY <1>1 DEF Mask, CadMask
<1>3. Mask({}, {"TxDone"}) = TxMask
  BY <1>1 DEF Mask, TxMask
<1>4. Mask({"RxDone"}, {"RxDone", "CrcErr"}) = RxMask
  BY <1>1 DEF Mask, RxMask
<1> QED  BY <1>2, <1>3, <1>4

LEMMA CadScript ==
    op = "cad" =>
        /\ Len(Script[op]) = 8 /\ WaitStep[op] = 6 /\ Awaited[op] = CadMask
        /\ step = 1 => Command = "SetStandby"
        /\ step = 2 => Command = "SetCadParams"
        /\ step = 3 => Command = "ClearIrq"
        /\ step = 4 => Command = "MaskCad"
        /\ step = 5 => Command = "SetCad"
        /\ step = 6 => Command = "Wait"
        /\ step = 7 => Command = "GetIrq"
        /\ step = 8 => Command = "ClearIrq"
BY DEF Command, Script, WaitStep, Awaited, CadMask

LEMMA TxScript ==
    op = "tx" =>
        /\ Len(Script[op]) = 7 /\ WaitStep[op] = 6 /\ Awaited[op] = TxMask
        /\ step = 1 => Command = "SetPacketParams"
        /\ step = 2 => Command = "WriteBuffer"
        /\ step = 3 => Command = "MaskTx"
        /\ step = 4 => Command = "ClearIrq"
        /\ step = 5 => Command = "SetTx"
        /\ step = 6 => Command = "Wait"
        /\ step = 7 => Command = "ClearTxDone"
BY DEF Command, Script, WaitStep, Awaited, TxMask

LEMMA RxScript ==
    op = "rx" =>
        /\ Len(Script[op]) = 8 /\ WaitStep[op] = 4 /\ Awaited[op] = RxMask
        /\ step = 1 => Command = "MaskRx"
        /\ step = 2 => Command = "ClearIrq"
        /\ step = 3 => Command = "SetRx"
        /\ step = 4 => Command = "Wait"
        /\ step = 5 => Command = "GetIrq"
        /\ step = 6 => Command = "ClearIrq"
        /\ step = 7 => Command = "GetRxBufferStatus"
        /\ step = 8 => Command = "ReadBuffer"
BY DEF Command, Script, WaitStep, Awaited, RxMask

-----------------------------------------------------------------------------
(* Types *)

LEMMA ConstantFacts ==
    /\ WindowMs \in Nat /\ WindowMs >= 1
    /\ Slots \in Nat /\ Slots >= 1
    /\ Airtimes \subseteq Nat /\ 0 \notin Airtimes
    /\ CadFailLimit \in Nat /\ CadFailLimit >= 1
    /\ MaxFaults \in Nat
BY AirtimeBudgetAssumption, RadioAssumption

LEMMA OlderType ==
    ASSUME NEW r \in TxRecord, NEW d \in Nat
    PROVE  Older(r, d) \in TxRecord
BY ConstantFacts DEF Older, TxRecord

LEMMA NewBudgetType == NewBudget \in Budgets
BY ConstantFacts DEF NewBudget, Budgets, TxRecord

LEMMA AgedType ==
    ASSUME NEW b \in Budgets, NEW d \in Nat
    PROVE  Aged(b, d) \in Budgets
<1> DEFINE R == [i \in DOMAIN b.records |-> Older(b.records[i], d)]
<1>1. R \in [0..(Slots - 1) -> TxRecord]
  BY OlderType DEF Budgets
<1>2. Aged(b, d) = [b EXCEPT !.records = R]
  BY DEF Aged
<1> HIDE DEF R
<1> QED  BY <1>1, <1>2 DEF Budgets

LEMMA RecordTxType ==
    ASSUME NEW b \in Budgets, NEW d \in Airtimes \cup {0}
    PROVE  RecordTx(b, d) \in Budgets
<1> DEFINE R == [b.records EXCEPT ![b.head] = [age |-> 0, duration |-> d]]
           H == (b.head + 1) % Slots
           C == IF b.count < Slots THEN b.count + 1 ELSE b.count
<1>1. [age |-> 0, duration |-> d] \in TxRecord
  BY ConstantFacts DEF TxRecord
<1>2. R \in [0..(Slots - 1) -> TxRecord]
  BY <1>1 DEF Budgets
<1>3. H \in 0..(Slots - 1)
  BY ConstantFacts DEF Budgets
<1>4. C \in 0..Slots
  BY ConstantFacts DEF Budgets
<1>5. RecordTx(b, d) = [records |-> R, head |-> H, count |-> C]
  BY DEF RecordTx
<1> HIDE DEF R, H, C
<1> QED  BY <1>2, <1>3, <1>4, <1>5 DEF Budgets

LEMMA PassType ==
    ASSUME NEW b \in Budgets, NEW s \in SUBSET TxRecord, NEW d \in Nat, Pass(b, s, d)
    PROVE  budget' \in Budgets /\ sent' \subseteq TxRecord
BY AgedType, OlderType DEF Pass

LEMMA ExecutedType ==
    ASSUME chip \in ChipType, NEW cmd
    PROVE  Executed(cmd) \in ChipType
BY MaskFacts, IrqNames DEF Executed, ChipType

-----------------------------------------------------------------------------
(* An operation begins *)

\* What in_continuous_rx promises between two operations.
Settled ==
    in_continuous_rx =>
        /\ chip.mode = "rx"
        /\ chip.mask = RxMask \/ (chip.mask = TxMask /\ front # 0)
        /\ chip.irq \subseteq RxMask
        /\ "CrcErr" \in chip.irq => "RxDone" \in chip.irq
        /\ chip.buf = "good" => "RxDone" \in chip.irq

LEMMA SettledFact == IInv /\ ~(op = "rx" /\ step = 7) => Settled
BY DEF IInv, ArmedInv, UnreadInv, Receiving, Settled

LEMMA BeginFact ==
    ASSUME NEW o \in {"top", "cad", "tx", "rx"}, Begin(o)
    PROVE  /\ op' = o /\ wait' = "none" /\ got' = {}
           /\ step' = 1 \/ (step' = 4 /\ o = "rx")
           /\ o = "rx" => (step' = 1 /\ ~in_continuous_rx') \/ (step' = 4 /\ in_continuous_rx')
BY DEF Begin, WaitStep

LEMMA BeginType ==
    ASSUME NEW o \in {"top", "cad", "tx", "rx"}, Begin(o)
    PROVE  /\ op' \in {"top", "cad", "tx", "rx"} /\ step' \in 1..8
           /\ wait' \in {"none", "block", "recheck", "disable", "spin"}
           /\ got' \subseteq Irqs
BY BeginFact

\* An operation that begins in a settled state meets the invariant.
LEMMA BeginStep ==
    ASSUME NEW o \in {"top", "cad", "tx", "rx"}, Begin(o), TypeOK', Settled',
           o \in {"cad", "tx"} => front' # 0
    PROVE  IInv'
<1>1. /\ op' = o /\ wait' = "none" /\ got' = {}
      /\ step' = 1 \/ (step' = 4 /\ o = "rx")
      /\ o = "rx" => (step' = 1 /\ ~in_continuous_rx') \/ (step' = 4 /\ in_continuous_rx')
  BY BeginFact
<1>2. AssertedIsOwn'
  BY <1>1 DEF AssertedIsOwn, WaitStep
<1>3. NoLostWakeup' /\ WakeInv' /\ ScriptInv' /\ RouteInv'
  BY <1>1 DEF NoLostWakeup, WakeInv, ScriptInv, RouteInv
<1>4. ArmedInv'
  BY <1>1 DEF ArmedInv, Settled
<1>5. UnreadInv'
  BY <1>1 DEF UnreadInv, Receiving, Settled
<1> QED  BY <1>2, <1>3, <1>4, <1>5 DEF IInv

LEMMA ClearToSendFact ==
    ASSUME ClearToSend
    PROVE  \E o \in {"tx", "rx"} : Begin(o)
BY DEF ClearToSend

\* A failed operation is followed by the next one; only CAD by a transmission.
LEMMA FailedFact ==
    ASSUME TypeOK, op # "top", Failed
    PROVE  /\ cad_err_streak' \in 0..(CadFailLimit - 1)
           /\ \E o \in {"top", "tx", "rx"} : Begin(o) /\ (o = "tx" => op = "cad")
<1>1. CASE op = "cad"
  <2>1. CadFailed
    BY <1>1 DEF Failed
  <2>2. CASE cad_err_streak + 1 >= CadFailLimit
    BY <1>1, <2>1, <2>2, ClearToSendFact, ConstantFacts DEF CadFailed
  <2>3. CASE ~(cad_err_streak + 1 >= CadFailLimit)
    BY <1>1, <2>1, <2>3, ConstantFacts DEF CadFailed, TypeOK
  <2> QED  BY <2>2, <2>3
<1>2. CASE op # "cad"
  BY <1>2 DEF Failed, After, TypeOK
<1> QED  BY <1>1, <1>2

LEMMA InitIInv == Init => IInv
<1> SUFFICES ASSUME Init PROVE IInv
  OBVIOUS
<1>a. chip \in ChipType
  BY DEF Init, ChipType
<1>b. cad_err_streak \in 0..(CadFailLimit - 1) /\ faults \in 0..MaxFaults /\ step \in 1..8
  BY ConstantFacts DEF Init
<1>c. budget \in Budgets
  BY NewBudgetType DEF Init
<1>1. TypeOK
  BY <1>a, <1>b, <1>c DEF Init, TypeOK, ChipType
<1>2. AssertedIsOwn /\ NoLostWakeup /\ ScriptInv /\ RouteInv /\ ArmedInv /\ WakeInv
  BY DEF Init, AssertedIsOwn, NoLostWakeup, ScriptInv, RouteInv, ArmedInv, WakeInv
<1>3. UnreadInv
  BY DEF Init, UnreadInv, Receiving
<1> QED  BY <1>1, <1>2, <1>3 DEF IInv

LEMMA StartStep == IInv /\ (StartCad \/ StartRx) => IInv'
<1> SUFFICES ASSUME IInv, StartCad \/ StartRx PROVE IInv'
  OBVIOUS
<1>1. /\ op = "top"
      /\ UNCHANGED <<chip, armed, notified, in_continuous_rx, cad_err_streak, front, duty, faults>>
  BY DEF StartCad, StartRx
<1>2. PICK o \in {"cad", "rx"} : Begin(o) /\ (o = "cad" => front # 0)
  BY DEF StartCad, StartRx
<1>3. TypeOK'
  BY <1>1, <1>2, BeginType DEF IInv, TypeOK, duty
<1>4. Settled'
  BY <1>1, SettledFact DEF Settled
<1> QED  BY <1>1, <1>2, <1>3, <1>4, BeginStep

LEMMA EnqueueTickStep == IInv /\ (Enqueue \/ Tick) => IInv'
<1> SUFFICES ASSUME IInv, Enqueue \/ Tick PROVE IInv'
  OBVIOUS
<1>1. /\ op = "top"
      /\ UNCHANGED <<chip, armed, notified, op, step, wait, got, in_continuous_rx,
                     cad_err_streak, faults>>
      /\ front' = front \/ (front = 0 /\ front' \in Airtimes)
  BY DEF Enqueue, Tick
<1>2. budget' \in Budgets /\ sent' \subseteq TxRecord
  <2>1. budget \in Budgets /\ sent \in SUBSET TxRecord
    BY DEF IInv, TypeOK
  <2> QED  BY <2>1, PassType DEF Enqueue, Tick, duty
<1>3. TypeOK'
  BY <1>1, <1>2 DEF IInv, TypeOK
<1> QED
  BY <1>1, <1>3, ConstantFacts
     DEF IInv, AssertedIsOwn, NoLostWakeup, Line, ScriptInv, RouteInv, ArmedInv, UnreadInv,
         Receiving, WakeInv

-----------------------------------------------------------------------------
(* A command succeeds *)

\* A command is never a wait, so nobody waits while it runs.
LEMMA CommandNotWaiting ==
    ASSUME IInv, op # "top", Command # "Wait"
    PROVE  wait = "none"
<1>1. op \in {"cad", "tx", "rx"}
  BY DEF IInv, TypeOK
<1> QED  BY <1>1, CadScript, TxScript, RxScript DEF IInv, ScriptInv

LEMMA SucceedsType == IInv /\ CommandSucceeds => TypeOK'
<1> SUFFICES ASSUME IInv, CommandSucceeds PROVE TypeOK'
  OBVIOUS
<1> USE DEF IInv
<1>0. op \in {"cad", "tx", "rx"}
  BY DEF CommandSucceeds, TypeOK
<1>1. chip' \in ChipType
  <2>1. Executed(Command) \in ChipType
    BY ExecutedType DEF TypeOK, ChipType
  <2>2. [Executed(Command) EXCEPT !.buf = "none"] \in ChipType
    BY <2>1 DEF ChipType
  <2> QED  BY <2>1, <2>2 DEF CommandSucceeds
<1>2. in_continuous_rx' \in BOOLEAN
  BY DEF CommandSucceeds, ArmedAfter, TypeOK
<1>3. CASE Continue
  <2>1. step' \in 1..8
    <3> DEFINE n == Len(Script[op])
    <3>1. n = 7 \/ n = 8
      BY <1>0, CadScript, TxScript, RxScript
    <3>2. step \in 1..8 /\ step < n /\ step' = step + 1
      BY <1>3 DEF Continue, TypeOK
    <3> HIDE DEF n
    <3> QED  BY <3>1, <3>2
  <2>2. got' \subseteq Irqs
    <3>1. chip.irq \subseteq Irqs /\ got \subseteq Irqs
      BY DEF TypeOK
    <3>2. got' = chip.irq \/ got' = got
      BY <1>3 DEF Continue
    <3> QED  BY <3>1, <3>2
  <2> QED
    BY <1>1, <1>2, <1>3, <2>1, <2>2 DEF CommandSucceeds, Continue, TypeOK, ChipType, duty
<1>4. CASE CadDone
  <2>1. PICK o \in {"tx", "rx"} : Begin(o)
    BY <1>4, ClearToSendFact DEF CadDone
  <2> QED
    BY <1>1, <1>2, <1>4, <2>1, BeginType, ConstantFacts
       DEF CommandSucceeds, CadDone, TypeOK, ChipType, duty
<1>5. CASE TxDone
  <2> DEFINE b == RecordTx(budget, front)
             t == sent \cup {[age |-> 0, duration |-> front]}
  <2>1. Pass(b, t, front) /\ Begin("rx") /\ front' \in Airtimes \cup {0}
        /\ cad_err_streak' = cad_err_streak
    BY <1>5 DEF TxDone
  <2>2. b \in Budgets /\ front \in Nat
    BY RecordTxType, ConstantFacts DEF TypeOK
  <2>3. t \in SUBSET TxRecord
    BY ConstantFacts DEF TypeOK, TxRecord
  <2> HIDE DEF b, t
  <2>4. budget' \in Budgets /\ sent' \subseteq TxRecord
    BY <2>1, <2>2, <2>3, PassType
  <2> QED
    BY <1>1, <1>2, <2>1, <2>4, BeginType DEF CommandSucceeds, TypeOK, ChipType
<1>6. CASE RxDone
  BY <1>1, <1>2, <1>6, BeginType DEF CommandSucceeds, RxDone, TypeOK, ChipType, duty
<1> QED  BY <1>3, <1>4, <1>5, <1>6 DEF CommandSucceeds

LEMMA CadSucceeds == IInv /\ op = "cad" /\ CommandSucceeds => IInv'
<1> SUFFICES ASSUME IInv, op = "cad", CommandSucceeds PROVE IInv'
  OBVIOUS
<1>1. /\ Command # "Wait" /\ chip \in ChipType /\ step \in 1..8
      /\ chip' = Executed(Command) /\ in_continuous_rx' = ArmedAfter(Command)
  BY DEF CommandSucceeds, NothingRead, IInv, TypeOK, ChipType
<1>2. wait = "none" /\ front # 0
  BY <1>1, CommandNotWaiting DEF IInv, ScriptInv
<1>3. TypeOK'
  BY SucceedsType
<1>4. CASE step = 8
  <2>1. Command = "ClearIrq"
    BY <1>4, CadScript
  <2>2. ~in_continuous_rx'
    BY <1>1, <1>4, <2>1 DEF ArmedAfter, IInv, ArmedInv
  <2>3. CadDone
    <3> DEFINE n == Len(Script[op])
    <3>1. n = 8
      BY CadScript
    <3>2. Continue => step < n
      BY DEF Continue
    <3> HIDE DEF n
    <3>3. ~Continue
      BY <1>4, <3>1, <3>2
    <3> QED  BY <3>3 DEF CommandSucceeds, TxDone, RxDone
  <2>4. PICK o \in {"tx", "rx"} : Begin(o)
    BY <2>3, ClearToSendFact DEF CadDone
  <2>5. front' = front
    BY <2>3 DEF CadDone
  <2> QED  BY <1>2, <1>3, <2>2, <2>4, <2>5, BeginStep DEF Settled
<1>5. CASE step # 8
  <2>1. op' = op /\ step' = step + 1 /\ wait' = wait /\ front' = front
    BY <1>5, CadScript DEF CommandSucceeds, CadDone, TxDone, RxDone, Continue
  <2>2. NoLostWakeup' /\ WakeInv' /\ ScriptInv'
    BY <1>2, <2>1 DEF NoLostWakeup, WakeInv, ScriptInv
  <2>3. step # 6
    BY <1>1, CadScript
  <2>4. AssertedIsOwn'
    BY <1>1, <2>1, <2>3 DEF AssertedIsOwn, WaitStep
  <2>5. ~in_continuous_rx'
    BY <1>1, <1>5, CadScript DEF ArmedAfter, IInv, ArmedInv
  <2>6. step' >= 5 => chip'.mask = CadMask
    <3>1. CASE step = 4
      BY <1>1, <3>1, CadScript, MaskFacts DEF Executed, ChipType
    <3>2. CASE step \in {5, 7}
      BY <1>1, <3>2, CadScript DEF Executed, ChipType, IInv, RouteInv
    <3> QED  BY <1>1, <1>5, <2>1, <2>3, <3>1, <3>2
  <2>7. RouteInv' /\ ArmedInv' /\ UnreadInv'
    BY <2>1, <2>5, <2>6 DEF RouteInv, ArmedInv, UnreadInv, Receiving
  <2> QED  BY <1>3, <2>2, <2>4, <2>7 DEF IInv
<1> QED  BY <1>4, <1>5

LEMMA TxSucceeds == IInv /\ op = "tx" /\ CommandSucceeds => IInv'
<1> SUFFICES ASSUME IInv, op = "tx", CommandSucceeds PROVE IInv'
  OBVIOUS
<1>1. /\ Command # "Wait" /\ chip \in ChipType /\ step \in 1..7
      /\ chip' = Executed(Command) /\ in_continuous_rx' = ArmedAfter(Command)
  BY DEF CommandSucceeds, NothingRead, IInv, TypeOK, ChipType, ScriptInv
<1>2. wait = "none" /\ front # 0
  BY <1>1, CommandNotWaiting DEF IInv, ScriptInv
<1>3. TypeOK'
  BY SucceedsType
<1>4. CASE step = 7
  <2>1. Command = "ClearTxDone"
    BY <1>4, TxScript
  <2>2. ~in_continuous_rx'
    BY <1>1, <1>4, <2>1 DEF ArmedAfter, IInv, ArmedInv
  <2>3. Begin("rx")
    <3> DEFINE n == Len(Script[op])
    <3>1. n = 7
      BY TxScript
    <3>2. Continue => step < n
      BY DEF Continue
    <3> HIDE DEF n
    <3>3. ~Continue
      BY <1>4, <3>1, <3>2
    <3> QED  BY <3>3 DEF CommandSucceeds, CadDone, RxDone, TxDone
  <2> QED  BY <1>3, <2>2, <2>3, BeginStep DEF Settled
<1>5. CASE step # 7
  <2>1. op' = op /\ step' = step + 1 /\ wait' = wait /\ front' = front
    BY <1>5, TxScript DEF CommandSucceeds, CadDone, TxDone, RxDone, Continue
  <2>2. step # 6
    BY <1>1, TxScript
  <2>3. NoLostWakeup' /\ WakeInv' /\ ScriptInv'
    BY <1>1, <1>2, <1>5, <2>1 DEF NoLostWakeup, WakeInv, ScriptInv
  <2>4. AssertedIsOwn'
    BY <1>1, <2>1, <2>2 DEF AssertedIsOwn, WaitStep
  <2>5. step' >= 4 => chip'.mask = TxMask
    <3>1. CASE step = 3
      BY <1>1, <3>1, TxScript, MaskFacts DEF Executed, ChipType
    <3>2. CASE step \in {4, 5}
      BY <1>1, <3>2, TxScript DEF Executed, ChipType, IInv, RouteInv
    <3> QED  BY <1>1, <1>5, <2>1, <2>2, <3>1, <3>2
  <2>6. CASE step \in {4, 5}
    <3>1. ~in_continuous_rx'
      BY <1>1, <2>6, TxScript DEF ArmedAfter, IInv, ArmedInv
    <3> QED
      BY <1>3, <2>1, <2>3, <2>4, <2>5, <3>1
         DEF IInv, RouteInv, ArmedInv, UnreadInv, Receiving
  <2>7. CASE step \in {1, 2, 3}
    <3>1. in_continuous_rx' = in_continuous_rx
      BY <1>1, <2>7, TxScript DEF ArmedAfter
    <3>2. chip'.mode = chip.mode /\ chip'.irq = chip.irq /\ chip'.buf = chip.buf
      BY <1>1, <2>7, TxScript DEF Executed, ChipType
    <3>3. chip'.mask = chip.mask \/ chip'.mask = TxMask
      BY <1>1, <2>7, TxScript, MaskFacts DEF Executed, ChipType
    <3>4. RouteInv'
      BY <2>1, <2>5 DEF RouteInv
    <3>5. ArmedInv'
      BY <1>2, <2>1, <2>7, <3>1, <3>2, <3>3 DEF IInv, ArmedInv
    <3>6. UnreadInv'
      BY <2>1, <3>1, <3>2 DEF IInv, UnreadInv, Receiving
    <3> QED  BY <1>3, <2>3, <2>4, <3>4, <3>5, <3>6 DEF IInv
  <2> QED  BY <1>1, <1>5, <2>2, <2>6, <2>7
<1> QED  BY <1>4, <1>5

\* The clear_irq of a poll leaves the packet where it is.
LEMMA ClearKeepsPacket ==
    ASSUME op = "rx", step = 6
    PROVE  Executed("ClearIrq") = [chip EXCEPT !.irq = {}, !.buf = chip.buf]
<1>1. WaitStep["rx"] = 4
  BY DEF WaitStep
<1> QED  BY <1>1 DEF Executed

\* Up to its wait the receiver's script routes, clears and listens; from then on
\* only the poll that has seen a packet's flag clears it.
LEMMA RxContinues ==
    ASSUME IInv, op = "rx", CommandSucceeds, Continue
    PROVE  IInv'
<1>1. /\ Command # "Wait" /\ chip \in ChipType /\ step \in 1..8
      /\ in_continuous_rx' = ArmedAfter(Command)
  BY DEF CommandSucceeds, IInv, TypeOK, ChipType
<1>2. wait = "none"
  BY <1>1, CommandNotWaiting
<1>3. TypeOK'
  BY SucceedsType
<1>4. op' = op /\ step' = step + 1 /\ wait' = wait /\ front' = front
  BY DEF Continue
<1>5. step # 4 /\ step # 8
  <2> DEFINE n == Len(Script[op])
  <2>1. n = 8 /\ step < n
    BY RxScript DEF Continue
  <2> HIDE DEF n
  <2>2. step # 8
    BY <1>1, <2>1
  <2> QED  BY <1>1, <2>2, RxScript
<1>6. NoLostWakeup' /\ WakeInv' /\ ScriptInv'
  BY <1>2, <1>4 DEF NoLostWakeup, WakeInv, ScriptInv
<1>7. AssertedIsOwn'
  BY <1>1, <1>4, <1>5 DEF AssertedIsOwn, WaitStep
<1> DEFINE Goal == RouteInv' /\ ArmedInv' /\ UnreadInv'
<1>8. CASE step = 1
  <2>1. chip' = [chip EXCEPT !.mask = RxMask]
    BY <1>8, RxScript, MaskFacts DEF CommandSucceeds, Executed, NothingRead
  <2>2. ~in_continuous_rx'
    BY <1>1, <1>8, RxScript DEF ArmedAfter, IInv, ArmedInv
  <2>3. Goal
    BY <1>1, <1>4, <1>8, <2>1, <2>2
       DEF RouteInv, ArmedInv, UnreadInv, Receiving, ChipType
  <2> QED  BY <1>3, <1>6, <1>7, <2>3 DEF IInv
<1>9. CASE step = 2
  <2>1. chip' = [chip EXCEPT !.irq = {}, !.buf = "none"]
    BY <1>9, RxScript DEF CommandSucceeds, Executed, NothingRead, WaitStep
  <2>2. ~in_continuous_rx' /\ chip.mask = RxMask
    BY <1>1, <1>9, RxScript DEF ArmedAfter, IInv, ArmedInv, RouteInv
  <2>3. Goal
    BY <1>1, <1>4, <1>9, <2>1, <2>2
       DEF RouteInv, ArmedInv, UnreadInv, Receiving, ChipType
  <2> QED  BY <1>3, <1>6, <1>7, <2>3 DEF IInv
<1>10. CASE step = 3
  <2>1. chip' = [chip EXCEPT !.mode = "rx"]
    BY <1>10, RxScript DEF CommandSucceeds, Executed, NothingRead
  <2>2. in_continuous_rx' /\ chip.mask = RxMask
    BY <1>1, <1>10, RxScript DEF ArmedAfter, IInv, RouteInv
  <2>3. /\ chip.irq \subseteq RxMask
        /\ "CrcErr" \in chip.irq => "RxDone" \in chip.irq
        /\ chip.buf = "good" => "RxDone" \in chip.irq
    BY <1>10 DEF IInv, UnreadInv, Receiving
  <2>4. Goal
    BY <1>1, <1>4, <1>10, <2>1, <2>2, <2>3
       DEF RouteInv, ArmedInv, UnreadInv, Receiving, ChipType
  <2> QED  BY <1>3, <1>6, <1>7, <2>4 DEF IInv
<1>11. CASE step \in {5, 6, 7}
  <2>1. in_continuous_rx /\ in_continuous_rx'
    BY <1>1, <1>11, RxScript DEF ArmedAfter, IInv, ArmedInv
  <2>2. /\ chip.mode = "rx" /\ chip.mask = RxMask /\ chip.irq \subseteq RxMask
        /\ "CrcErr" \in chip.irq => "RxDone" \in chip.irq
        /\ chip.buf = "good" => "RxDone" \in chip.irq \/ step = 7
    BY <1>11, <2>1 DEF IInv, ArmedInv, RouteInv, UnreadInv, Receiving
  <2>3. CASE step = 5
    <3>1. chip' = chip /\ got' = chip.irq
      BY <2>3, RxScript DEF CommandSucceeds, Executed, NothingRead, Continue
    <3>2. "RxDone" \in chip.irq
      BY <2>2, <2>3 DEF IInv, AssertedIsOwn, WaitStep, Awaited
    <3>3. Goal
      BY <1>4, <2>1, <2>2, <2>3, <3>1, <3>2 DEF RouteInv, ArmedInv, UnreadInv, Receiving
    <3> QED  BY <1>3, <1>6, <1>7, <3>3 DEF IInv
  <2>4. CASE step = 6
    <3> DEFINE cleared == [chip EXCEPT !.irq = {}, !.buf = chip.buf]
    <3>1. chip' = cleared \/ chip' = [cleared EXCEPT !.buf = "none"]
      <4>1. Executed("ClearIrq") = cleared
        BY <2>4, ClearKeepsPacket
      <4> QED  BY <2>4, <4>1, RxScript DEF CommandSucceeds
    <3>2. got' = got /\ "RxDone" \in got
      BY <2>4, RxScript DEF Continue, IInv, UnreadInv
    <3>3. chip'.irq = {} /\ chip'.mode = "rx" /\ chip'.mask = RxMask
      BY <1>1, <2>2, <3>1 DEF ChipType
    <3>4. Goal
      BY <1>4, <2>1, <2>4, <3>2, <3>3 DEF RouteInv, ArmedInv, UnreadInv, Receiving
    <3> QED  BY <1>3, <1>6, <1>7, <3>4 DEF IInv
  <2>5. CASE step = 7
    <3>1. chip' = [chip EXCEPT !.buf = "none"]
      BY <1>1, <2>5, RxScript DEF CommandSucceeds, Executed, NothingRead
    <3>2. Goal
      BY <1>1, <1>4, <2>1, <2>2, <2>5, <3>1
         DEF RouteInv, ArmedInv, UnreadInv, Receiving, ChipType
    <3> QED  BY <1>3, <1>6, <1>7, <3>2 DEF IInv
  <2> QED  BY <1>11, <2>3, <2>4, <2>5
<1> QED  BY <1>1, <1>5, <1>8, <1>9, <1>10, <1>11

\* The poll ends: with a packet, with none, or with one given up.
LEMMA RxEnds ==
    ASSUME IInv, op = "rx", CommandSucceeds, RxDone
    PROVE  IInv'
<1>1. /\ chip \in ChipType /\ step \in 1..8
      /\ in_continuous_rx' = ArmedAfter(Command) /\ front' = front
      /\ NothingRead \/ step = 8
  <2> DEFINE n == Len(Script[op])
  <2>1. n = 8 /\ (NothingRead \/ step = n \/ Continue)
    BY RxScript DEF CommandSucceeds
  <2>2. ~Continue
    BY DEF Continue, RxDone, Begin
  <2> HIDE DEF n
  <2> QED  BY <2>1, <2>2 DEF CommandSucceeds, RxDone, IInv, TypeOK, ChipType
<1>2. TypeOK'
  BY SucceedsType
<1>3. Begin("top")
  BY DEF RxDone
<1>4. Settled'
  <2>1. CASE step = 8
    <3>1. chip' = chip
      BY <2>1, RxScript DEF CommandSucceeds, Executed, NothingRead
    <3>2. in_continuous_rx' = in_continuous_rx
      BY <1>1, <2>1, RxScript DEF ArmedAfter
    <3> QED  BY <1>1, <2>1, <3>1, <3>2, SettledFact DEF Settled
  <2>2. CASE step = 6 /\ NothingRead
    <3>1. "RxDone" \in got /\ "CrcErr" \in got
      BY <2>2 DEF NothingRead, IInv, UnreadInv
    <3> DEFINE cleared == [chip EXCEPT !.irq = {}, !.buf = chip.buf]
    <3>2. Executed("ClearIrq") = cleared
      BY <2>2, ClearKeepsPacket
    <3>3. chip' = [cleared EXCEPT !.buf = "none"]
      BY <2>2, <3>1, <3>2, RxScript DEF CommandSucceeds
    <3>4. in_continuous_rx' = in_continuous_rx
      BY <1>1, <2>2, RxScript DEF ArmedAfter
    <3>5. Settled
      BY <2>2, SettledFact
    <3> QED  BY <1>1, <3>3, <3>4, <3>5 DEF Settled, ChipType
  <2> QED  BY <1>1, <2>1, <2>2 DEF NothingRead
<1> QED  BY <1>2, <1>3, <1>4, BeginStep

LEMMA CommandSucceedsStep == IInv /\ CommandSucceeds => IInv'
<1> SUFFICES ASSUME IInv, CommandSucceeds PROVE IInv'
  OBVIOUS
<1>1. op \in {"cad", "tx", "rx"}
  BY DEF CommandSucceeds, IInv, TypeOK
<1>2. CASE op = "rx"
  BY <1>2, RxContinues, RxEnds DEF CommandSucceeds, CadDone, TxDone
<1> QED  BY <1>1, <1>2, CadSucceeds, TxSucceeds

-----------------------------------------------------------------------------
(* An operation fails *)

\* Whatever fails, the next operation begins in the state the chip was left in.
LEMMA FailedStep ==
    ASSUME IInv, op # "top", Failed,
           chip' \in ChipType, armed' \in BOOLEAN, notified' \in BOOLEAN,
           faults' \in 0..MaxFaults, Settled',
           UNCHANGED <<in_continuous_rx, front, duty>>
    PROVE  IInv'
<1>1. cad_err_streak' \in 0..(CadFailLimit - 1)
  BY FailedFact DEF IInv
<1>2. PICK o \in {"top", "tx", "rx"} : Begin(o) /\ (o = "tx" => op = "cad")
  BY FailedFact DEF IInv
<1>3. TypeOK'
  BY <1>1, <1>2, BeginType DEF IInv, TypeOK, ChipType, duty
<1>4. o = "tx" => front' # 0
  BY <1>2 DEF IInv, ScriptInv
<1> QED  BY <1>2, <1>3, <1>4, BeginStep

LEMMA CommandFailsStep == IInv /\ CommandFails => IInv'
<1> SUFFICES ASSUME IInv, CommandFails PROVE IInv'
  OBVIOUS
<1>1. /\ op # "top" /\ Failed /\ faults < MaxFaults /\ faults' = faults + 1
      /\ chip' = IF Command = "GetRxBufferStatus" THEN [chip EXCEPT !.buf = "none"] ELSE chip
      /\ UNCHANGED <<armed, notified, in_continuous_rx, front, duty>>
  BY DEF CommandFails
<1>2. chip \in ChipType /\ chip' \in ChipType
  BY <1>1 DEF IInv, TypeOK, ChipType
<1>3. armed' \in BOOLEAN /\ notified' \in BOOLEAN /\ faults' \in 0..MaxFaults
  BY <1>1, ConstantFacts DEF IInv, TypeOK
<1>4. Settled'
  <2>1. CASE op = "rx" /\ step = 7
    <3>1. chip' = [chip EXCEPT !.buf = "none"]
      BY <1>1, <2>1, RxScript
    <3> QED
      BY <1>1, <1>2, <2>1, <3>1 DEF Settled, IInv, ArmedInv, UnreadInv, Receiving, ChipType
  <2>2. CASE ~(op = "rx" /\ step = 7)
    <3>1. Settled
      BY <2>2, SettledFact
    <3>2. /\ chip'.mode = chip.mode /\ chip'.mask = chip.mask /\ chip'.irq = chip.irq
          /\ chip'.buf = chip.buf \/ chip'.buf = "none"
      BY <1>1, <1>2 DEF ChipType
    <3> QED  BY <1>1, <3>1, <3>2 DEF Settled
  <2> QED  BY <2>1, <2>2
<1> QED  BY <1>1, <1>2, <1>3, <1>4, FailedStep

\* A wait that times out: nothing but the interrupt has changed.
LEMMA TimedOutStep == IInv /\ (Disable \/ SpinTimeout) => IInv'
<1> SUFFICES ASSUME IInv, Disable \/ SpinTimeout PROVE IInv'
  OBVIOUS
<1>1. /\ wait # "none" /\ Failed /\ armed' \in BOOLEAN
      /\ UNCHANGED <<chip, notified, in_continuous_rx, front, duty, faults>>
  BY DEF Disable, SpinTimeout, TimedOut, IInv, TypeOK
<1>2. op # "top" /\ step = WaitStep[op]
  BY <1>1 DEF IInv, ScriptInv
<1>3. ~(op = "rx" /\ step = 7)
  BY <1>2 DEF WaitStep
<1>4. Settled'
  BY <1>1, <1>3, SettledFact DEF Settled
<1>5. chip' \in ChipType /\ notified' \in BOOLEAN /\ faults' \in 0..MaxFaults
  BY <1>1 DEF IInv, TypeOK, ChipType
<1> QED  BY <1>1, <1>2, <1>4, <1>5, FailedStep

-----------------------------------------------------------------------------
(* The wait and the interrupt *)

\* A step that leaves the operation where it is, and the chip and the receiver
\* alone, can only disturb the wake-up.
LEMMA SameStep ==
    ASSUME IInv, UNCHANGED <<chip, op, step, got, in_continuous_rx, cad_err_streak, front, duty>>,
           armed' \in BOOLEAN, notified' \in BOOLEAN, faults' \in 0..MaxFaults,
           wait' \in {"none", "block", "recheck", "disable", "spin"},
           ScriptInv', NoLostWakeup', WakeInv'
    PROVE  IInv'
<1>1. TypeOK'
  BY DEF IInv, TypeOK, duty
<1>2. AssertedIsOwn' /\ RouteInv' /\ ArmedInv' /\ UnreadInv'
  BY DEF IInv, AssertedIsOwn, RouteInv, ArmedInv, UnreadInv, Receiving
<1> QED  BY <1>1, <1>2 DEF IInv

LEMMA AtWait ==
    ASSUME IInv, Command = "Wait"
    PROVE  op \in {"cad", "tx", "rx"} /\ step = WaitStep[op]
<1>1. op \in {"cad", "tx", "rx"}
  BY DEF Command, IInv, TypeOK
<1>2. step \in 1..8 /\ (op = "tx" => step \in 1..7)
  BY DEF IInv, TypeOK, ScriptInv
<1> QED  BY <1>1, <1>2, CadScript, TxScript, RxScript

\* The line is high only by a flag of the operation that waits.
LEMMA LineIsOwn ==
    ASSUME IInv, op \in {"cad", "tx", "rx"}, step = WaitStep[op], Line
    PROVE  /\ chip.irq \cap Awaited[op] # {}
           /\ op = "rx" => chip.mask = RxMask
<1>1. CASE op = "cad"
  BY <1>1, CadScript DEF IInv, RouteInv, Line
<1>2. CASE op = "tx"
  BY <1>2, TxScript DEF IInv, RouteInv, Line
<1>3. CASE op = "rx"
  <2>1. step = 4 /\ Awaited[op] = RxMask
    BY <1>3, RxScript
  <2>2. chip.irq \subseteq RxMask /\ (chip.mask = RxMask \/ chip.mask = TxMask)
    BY <1>3, <2>1 DEF IInv, ArmedInv, UnreadInv, Receiving
  <2> QED  BY <2>1, <2>2 DEF Line, RxMask, TxMask
<1> QED  BY <1>1, <1>2, <1>3

LEMMA AssertedStep ==
    ASSUME IInv, op \in {"cad", "tx", "rx"}, step = WaitStep[op], Line, Asserted,
           armed' \in BOOLEAN, notified' \in BOOLEAN, faults' \in 0..MaxFaults,
           UNCHANGED <<chip, in_continuous_rx, front, duty>>
    PROVE  IInv'
<1>1. wait' = "none" /\ step' = step + 1 /\ UNCHANGED <<op, got, cad_err_streak>>
  BY DEF Asserted
<1>2. (op = "rx" /\ step = 4) \/ (op \in {"cad", "tx"} /\ step = 6)
  BY CadScript, TxScript, RxScript
<1>3. TypeOK'
  BY <1>1, <1>2 DEF IInv, TypeOK, duty
<1>4. AssertedIsOwn'
  BY <1>1, LineIsOwn DEF AssertedIsOwn
<1>5. NoLostWakeup' /\ WakeInv' /\ ScriptInv'
  BY <1>1, <1>2 DEF NoLostWakeup, WakeInv, ScriptInv, IInv
<1>6. RouteInv'
  BY <1>1, <1>2, LineIsOwn DEF IInv, RouteInv
<1>7. ArmedInv'
  BY <1>1, <1>2 DEF IInv, ArmedInv
<1>8. UnreadInv'
  BY <1>1, <1>2 DEF IInv, UnreadInv, Receiving
<1> QED  BY <1>3, <1>4, <1>5, <1>6, <1>7, <1>8 DEF IInv

LEMMA WaitHighStep == IInv /\ WaitHigh => IInv'
<1> SUFFICES ASSUME IInv, WaitHigh PROVE IInv'
  OBVIOUS
<1>1. Command = "Wait" /\ UNCHANGED <<chip, notified, in_continuous_rx, front, duty, faults>>
  BY DEF WaitHigh
<1>2. op \in {"cad", "tx", "rx"} /\ step = WaitStep[op]
  BY <1>1, AtWait
<1>3. notified' \in BOOLEAN /\ faults' \in 0..MaxFaults
  BY <1>1 DEF IInv, TypeOK
<1>4. CASE Line
  <2>1. Asserted /\ armed' \in BOOLEAN
    BY <1>4 DEF WaitHigh, IInv, TypeOK
  <2> QED  BY <1>1, <1>2, <1>3, <1>4, <2>1, AssertedStep
<1>5. CASE ~Line
  <2>1. wait' = "block" /\ armed' = TRUE /\ UNCHANGED <<op, step, got, cad_err_streak>>
    BY <1>5 DEF WaitHigh, Arm
  <2>2. ScriptInv' /\ NoLostWakeup' /\ WakeInv'
    BY <1>1, <1>2, <2>1 DEF IInv, ScriptInv, NoLostWakeup, WakeInv
  <2> QED  BY <1>1, <1>3, <2>1, <2>2, SameStep
<1> QED  BY <1>4, <1>5

LEMMA ArmFailsStep == IInv /\ ArmFails => IInv'
<1> SUFFICES ASSUME IInv, ArmFails PROVE IInv'
  OBVIOUS
<1>1. op \in {"cad", "tx", "rx"} /\ step = WaitStep[op]
  BY AtWait DEF ArmFails
<1>2. /\ wait' = "spin" /\ faults < MaxFaults /\ faults' = faults + 1
      /\ UNCHANGED <<chip, armed, notified, op, step, got, in_continuous_rx,
                     cad_err_streak, front, duty>>
  BY DEF ArmFails
<1>3. ScriptInv' /\ NoLostWakeup' /\ WakeInv'
  BY <1>1, <1>2 DEF IInv, ScriptInv, NoLostWakeup, WakeInv
<1>4. armed' \in BOOLEAN /\ notified' \in BOOLEAN /\ faults' \in 0..MaxFaults
  BY <1>2, ConstantFacts DEF IInv, TypeOK
<1> QED  BY <1>2, <1>3, <1>4, SameStep

LEMMA WakeStep == IInv /\ (Wake \/ Timeout) => IInv'
<1> SUFFICES ASSUME IInv, Wake \/ Timeout PROVE IInv'
  OBVIOUS
<1>1. /\ wait = "block" /\ wait' \in {"recheck", "disable"} /\ notified' \in BOOLEAN
      /\ UNCHANGED <<chip, armed, op, step, got, in_continuous_rx, cad_err_streak,
                     front, duty, faults>>
  BY DEF Wake, Timeout, IInv, TypeOK
<1>2. ScriptInv' /\ NoLostWakeup' /\ WakeInv'
  BY <1>1 DEF IInv, ScriptInv, NoLostWakeup, WakeInv, Line
<1>3. armed' \in BOOLEAN /\ faults' \in 0..MaxFaults
  BY <1>1 DEF IInv, TypeOK
<1> QED  BY <1>1, <1>2, <1>3, SameStep

LEMMA RecheckStep == IInv /\ (Recheck \/ SpinSeesLine) => IInv'
<1> SUFFICES ASSUME IInv, Recheck \/ SpinSeesLine PROVE IInv'
  OBVIOUS
<1>1. /\ wait \in {"recheck", "spin"}
      /\ UNCHANGED <<chip, armed, notified, in_continuous_rx, front, duty, faults>>
  BY DEF Recheck, SpinSeesLine
<1>2. op \in {"cad", "tx", "rx"} /\ step = WaitStep[op]
  BY <1>1 DEF IInv, ScriptInv, TypeOK
<1>3. armed' \in BOOLEAN /\ notified' \in BOOLEAN /\ faults' \in 0..MaxFaults
  BY <1>1 DEF IInv, TypeOK
<1>4. CASE Line
  <2>1. Asserted
    BY <1>4 DEF Recheck, SpinSeesLine
  <2> QED  BY <1>1, <1>2, <1>3, <1>4, <2>1, AssertedStep
<1>5. CASE ~Line
  <2>1. wait = "recheck" /\ wait' = "block" /\ UNCHANGED <<op, step, got, cad_err_streak>>
    BY <1>5 DEF Recheck, SpinSeesLine
  <2>2. ScriptInv'
    BY <1>1, <1>2, <2>1 DEF IInv, ScriptInv
  <2>3. armed
    BY <1>5, <2>1 DEF IInv, WakeInv
  <2>4. NoLostWakeup' /\ WakeInv'
    BY <1>1, <2>3 DEF NoLostWakeup, WakeInv
  <2> QED  BY <1>1, <1>3, <2>1, <2>2, <2>4, SameStep
<1> QED  BY <1>4, <1>5

LEMMA IsrStep == IInv /\ Isr => IInv'
<1> SUFFICES ASSUME IInv, Isr PROVE IInv'
  OBVIOUS
<1>1. /\ Line /\ notified' = TRUE /\ armed' = FALSE
      /\ UNCHANGED <<chip, op, step, wait, got, in_continuous_rx, cad_err_streak, front, duty, faults>>
  BY DEF Isr, task
<1>2. Line'
  BY <1>1 DEF Line
<1>3. ScriptInv' /\ NoLostWakeup' /\ WakeInv'
  BY <1>1, <1>2 DEF IInv, ScriptInv, NoLostWakeup, WakeInv
<1>4. wait' \in {"none", "block", "recheck", "disable", "spin"} /\ faults' \in 0..MaxFaults
  BY <1>1 DEF IInv, TypeOK
<1> QED  BY <1>1, <1>3, <1>4, SameStep

-----------------------------------------------------------------------------
(* The chip *)

\* A step of the chip only adds flags, and leaves what is routed alone.
LEMMA ChipStep ==
    ASSUME IInv, UNCHANGED <<armed, notified, task>>, faults' \in 0..MaxFaults,
           chip' \in ChipType, chip'.mask = chip.mask, chip.irq \subseteq chip'.irq,
           in_continuous_rx => chip'.mode = "rx", UnreadInv'
    PROVE  IInv'
<1>1. UNCHANGED <<op, step, wait, got, in_continuous_rx, cad_err_streak, front, duty>>
  BY DEF task
<1>2. TypeOK'
  BY <1>1 DEF IInv, TypeOK, ChipType, duty
<1>3. AssertedIsOwn' /\ ScriptInv' /\ RouteInv'
  BY <1>1 DEF IInv, AssertedIsOwn, ScriptInv, RouteInv
<1>4. ArmedInv'
  BY <1>1 DEF IInv, ArmedInv
<1>5. WakeInv'
  BY <1>1 DEF IInv, WakeInv, Line
<1>6. NoLostWakeup'
  BY <1>1 DEF IInv, WakeInv, NoLostWakeup, Line
<1> QED  BY <1>2, <1>3, <1>4, <1>5, <1>6 DEF IInv

LEMMA PacketStep == IInv /\ Packet => IInv'
<1> SUFFICES ASSUME IInv, Packet PROVE IInv'
  OBVIOUS
<1>1. PICK bad \in BOOLEAN :
          chip' = [chip EXCEPT
              !.irq = Raise({"RxDone"} \cup (IF bad THEN {"CrcErr"} ELSE {})),
              !.buf = IF "RxDone" \notin chip.mask THEN "none"
                      ELSE IF bad THEN "bad" ELSE "good"]
  BY DEF Packet
<1>2. chip.mode = "rx" /\ UNCHANGED <<armed, notified, task, faults>>
  BY DEF Packet
<1>3. chip \in ChipType
  BY DEF IInv, TypeOK, ChipType
<1> DEFINE fs == {"RxDone"} \cup (IF bad THEN {"CrcErr"} ELSE {})
<1>4. fs \subseteq RxMask /\ "RxDone" \in fs
  BY DEF RxMask
<1> HIDE DEF fs
<1>5. /\ chip'.irq = chip.irq \cup (fs \cap chip.mask)
      /\ chip'.mode = chip.mode /\ chip'.mask = chip.mask
      /\ chip'.buf \in {"none", "good", "bad"}
      /\ chip'.buf = "good" => "RxDone" \in chip.mask
  BY <1>1, <1>3 DEF Raise, ChipType, fs
<1>6. chip' \in ChipType
  <2>1. Raise(fs) \in SUBSET Irqs
    BY <1>3, <1>4, IrqNames DEF Raise, ChipType
  <2> QED  BY <1>1, <1>3, <2>1 DEF ChipType, fs
<1>7. Receiving => chip.mask = RxMask \/ chip.mask = TxMask
  BY DEF Receiving, IInv, ArmedInv, RouteInv
<1>8. UNCHANGED <<op, step, got, in_continuous_rx>>
  BY <1>2 DEF task
<1>9. UnreadInv'
  BY <1>4, <1>5, <1>7, <1>8 DEF IInv, UnreadInv, Receiving, RxMask, TxMask
<1>10. faults' \in 0..MaxFaults
  BY <1>2 DEF IInv, TypeOK
<1> QED  BY <1>2, <1>5, <1>6, <1>9, <1>10, ChipStep

\* CAD and TX end outside of reception, with flags that are not the receiver's.
LEMMA EndsStep ==
    ASSUME IInv, chip.mode \in {"cad", "tx"}, NEW fs \in SUBSET Irqs, fs \cap RxMask = {},
           chip' = [chip EXCEPT !.mode = "standby", !.irq = Raise(fs)],
           faults' \in 0..MaxFaults, UNCHANGED <<armed, notified, task>>
    PROVE  IInv'
<1>1. chip \in ChipType
  BY DEF IInv, TypeOK, ChipType
<1>2. /\ chip'.irq = chip.irq \cup (fs \cap chip.mask)
      /\ chip'.mask = chip.mask /\ chip'.buf = chip.buf
  BY <1>1 DEF Raise, ChipType
<1>3. chip' \in ChipType
  BY <1>1 DEF Raise, ChipType
<1>4. ~in_continuous_rx
  BY DEF IInv, ArmedInv
<1>5. UNCHANGED <<op, step, got, in_continuous_rx>>
  BY DEF task
<1>6. Receiving => chip.mask = RxMask
  BY <1>4 DEF Receiving, IInv, RouteInv
<1>7. UnreadInv'
  BY <1>2, <1>5, <1>6 DEF IInv, UnreadInv, Receiving
<1> QED  BY <1>2, <1>3, <1>4, <1>7, ChipStep

LEMMA CadEndsStep == IInv /\ CadEnds => IInv'
<1> SUFFICES ASSUME IInv, CadEnds PROVE IInv'
  OBVIOUS
<1>1. PICK active \in BOOLEAN :
          chip' = [chip EXCEPT !.mode = "standby",
              !.irq = Raise({"CadDone"} \cup (IF active THEN {"CadDetected"} ELSE {}))]
  BY DEF CadEnds
<1> DEFINE fs == {"CadDone"} \cup (IF active THEN {"CadDetected"} ELSE {})
<1>2. fs \in SUBSET Irqs /\ fs \cap RxMask = {}
  BY IrqNames DEF RxMask
<1>3. chip' = [chip EXCEPT !.mode = "standby", !.irq = Raise(fs)]
  BY <1>1
<1>4. chip.mode = "cad" /\ UNCHANGED <<armed, notified, task>> /\ faults' \in 0..MaxFaults
  BY DEF CadEnds, IInv, TypeOK
<1> HIDE DEF fs
<1> QED  BY <1>2, <1>3, <1>4, EndsStep

LEMMA TxEndsStep == IInv /\ TxEnds => IInv'
<1> SUFFICES ASSUME IInv, TxEnds PROVE IInv'
  OBVIOUS
<1>1. {"TxDone"} \in SUBSET Irqs /\ {"TxDone"} \cap RxMask = {}
  BY IrqNames DEF RxMask
<1>2. /\ chip.mode = "tx" /\ UNCHANGED <<armed, notified, task>> /\ faults' \in 0..MaxFaults
      /\ chip' = [chip EXCEPT !.mode = "standby", !.irq = Raise({"TxDone"})]
  BY DEF TxEnds, IInv, TypeOK
<1> QED  BY <1>1, <1>2, EndsStep

LEMMA ChipFaultStep == IInv /\ ChipFault => IInv'
<1> SUFFICES ASSUME IInv, ChipFault PROVE IInv'
  OBVIOUS
<1>1. /\ chip.mode \in {"cad", "tx"} /\ chip' = [chip EXCEPT !.mode = "standby"]
      /\ UNCHANGED <<armed, notified, task>> /\ faults' \in 0..MaxFaults
  BY ConstantFacts DEF ChipFault, IInv, TypeOK
<1>2. chip \in ChipType
  BY DEF IInv, TypeOK, ChipType
<1>3. /\ chip' \in ChipType /\ chip'.irq = chip.irq
      /\ chip'.mask = chip.mask /\ chip'.buf = chip.buf
  BY <1>1, <1>2 DEF ChipType
<1>4. ~in_continuous_rx
  BY <1>1 DEF IInv, ArmedInv
<1>5. UnreadInv'
  BY <1>1, <1>3 DEF task, IInv, UnreadInv, Receiving
<1> QED  BY <1>1, <1>3, <1>4, <1>5, ChipStep

-----------------------------------------------------------------------------
LEMMA IInvStep == IInv /\ [Next]_vars => IInv'
<1> SUFFICES ASSUME IInv, [Next]_vars PROVE IInv'
  OBVIOUS
<1>1. CASE UNCHANGED vars
  <2>1. UNCHANGED <<chip, armed, notified, op, step, wait, got, in_continuous_rx,
                    cad_err_streak, front, duty, faults>>
    BY <1>1 DEF vars, task
  <2>2. /\ armed' \in BOOLEAN /\ notified' \in BOOLEAN /\ faults' \in 0..MaxFaults
        /\ wait' \in {"none", "block", "recheck", "disable", "spin"}
    BY <2>1 DEF IInv, TypeOK
  <2>3. ScriptInv' /\ NoLostWakeup' /\ WakeInv'
    BY <2>1 DEF IInv, ScriptInv, NoLostWakeup, WakeInv, Line
  <2> QED  BY <2>1, <2>2, <2>3, SameStep
<1> QED
  BY <1>1, StartStep, CommandSucceedsStep, CommandFailsStep, WaitHighStep, ArmFailsStep,
     WakeStep, RecheckStep, TimedOutStep, EnqueueTickStep, IsrStep, PacketStep, CadEndsStep,
     TxEndsStep, ChipFaultStep
     DEF Next, Dispatcher

LEMMA IInvHolds == Spec => []IInv
BY InitIInv, IInvStep, PTL DEF Spec

\* A wait of the driver goes on only when a flag of its own operation is set, and
\* a task blocked on a high line has its interrupt enabled or its notification
\* set: whatever commands fail, whenever the interrupt fires and however often a
\* notification is left over from an earlier wait.
THEOREM WaitHolds == Spec => []WaitInv
<1>1. IInv => WaitInv
  BY DEF IInv, WaitInv
<1> QED  BY <1>1, IInvHolds, PTL

\* try_receive polls a radio that listens, unless a transmission cut off after it
\* had rerouted the flags is still queued, and an intact packet nobody has read
\* stays flagged until the poll that reads it.
THEOREM ReceiverHolds == Spec => []ReceiverHears
<1>1. IInv => DeafOnlyWhilePending
  <2> SUFFICES ASSUME IInv, op = "rx", step = WaitStep["rx"] PROVE Listening \/ front # 0
    BY DEF DeafOnlyWhilePending
  <2>1. step = 4
    BY DEF WaitStep
  <2> QED  BY <2>1 DEF IInv, ArmedInv, Listening, RxMask
<1>2. IInv => UnreadStaysFlagged
  <2> SUFFICES ASSUME IInv, in_continuous_rx, chip.buf = "good"
               PROVE  \/ "RxDone" \in chip.irq
                      \/ op = "rx" /\ step > WaitStep["rx"] + 1 /\ "RxDone" \in got
    BY DEF UnreadStaysFlagged
  <2>1. WaitStep["rx"] = 4
    BY DEF WaitStep
  <2>2. "RxDone" \in chip.irq \/ (op = "rx" /\ step = 7 /\ "RxDone" \in got)
    BY DEF IInv, UnreadInv, Receiving
  <2> QED  BY <2>1, <2>2
<1>3. IInv => ReceiverHears
  BY <1>1, <1>2 DEF ReceiverHears
<1> QED  BY <1>3, IInvHolds, PTL

-----------------------------------------------------------------------------
(***************************************************************************)
(* The airtime budget.  The ring counts every transmission of the window   *)
(* as long as it has a slot for every frame that fits in the budget.       *)
(***************************************************************************)
EnoughSlots == \A a \in Airtimes : MaxMs <= Slots * a

\* The ticks of airtime that the ring counts, and those of the transmissions s.
RingTicks(b) == UNION {{i} \X (1..b.records[i].duration) : i \in InWindow(b)}

SentTicks(s) == UNION {{r} \X (1..r.duration) : r \in s}

\* Slot i was written before slot j, the next one to be written being h.
WrittenBefore(h, i, j) == (h <= i /\ j < h) \/ (i < j /\ (j < h \/ h <= i))

\* The valid slots hold transmissions, the oldest in the slot to be written next.
RingInv(b) ==
    /\ b \in Budgets
    /\ b.count < Slots => b.head = b.count
    /\ \A i \in 0..(b.count - 1) :
          b.records[i].duration \in Airtimes /\ b.records[i].duration <= MaxMs
    /\ \A i, j \in 0..(b.count - 1) :
          WrittenBefore(b.head, i, j) => b.records[j].age <= b.records[i].age

Counted(b, s) == \A r \in s : \E i \in InWindow(b) : b.records[i] = r

DutyInv ==
    /\ RingInv(budget)
    /\ Counted(budget, sent)
    /\ UsedInWindow(budget) <= MaxMs
    /\ op = "tx" => CanTransmit(budget, front) /\ front \in Airtimes

LEMMA RingTicksIn ==
    ASSUME NEW b, NEW x
    PROVE  x \in RingTicks(b) <=>
               \E i \in InWindow(b) : \E t \in 1..b.records[i].duration : x = <<i, t>>
  BY DEF RingTicks

LEMMA SentTicksIn ==
    ASSUME NEW s, NEW x
    PROVE  x \in SentTicks(s) <=> \E r \in s : \E t \in 1..r.duration : x = <<r, t>>
  BY DEF SentTicks

LEMMA BudgetFacts ==
    ASSUME NEW b \in Budgets
    PROVE  /\ b.count \in 0..Slots /\ b.head \in 0..(Slots - 1)
           /\ b.count \in Nat /\ b.head \in Nat /\ Slots \in Nat /\ Slots >= 1
           /\ 0..(b.count - 1) \subseteq 0..(Slots - 1)
           /\ \A i \in 0..(Slots - 1) :
                 /\ b.records[i] \in TxRecord
                 /\ b.records[i].age \in 0..(WindowMs + 1) /\ b.records[i].age \in Nat
                 /\ b.records[i].duration \in Nat
<1>1. /\ b.count \in 0..Slots /\ b.head \in 0..(Slots - 1)
      /\ b.records \in [0..(Slots - 1) -> TxRecord]
  BY DEF Budgets
<1>2. \A i \in 0..(Slots - 1) : b.records[i] \in TxRecord
  BY <1>1
<1>3. \A r \in TxRecord : r.age \in 0..(WindowMs + 1) /\ r.age \in Nat /\ r.duration \in Nat
  <2>1. \A a \in 0..(WindowMs + 1) : a \in Nat
    BY ConstantFacts
  <2>2. \A a \in Airtimes \cup {0} : a \in Nat
    BY ConstantFacts
  <2> QED
    BY <2>1, <2>2 DEF TxRecord
<1>4. 0..(b.count - 1) \subseteq 0..(Slots - 1)
  BY <1>1, ConstantFacts
<1> QED
  BY <1>1, <1>2, <1>3, <1>4, ConstantFacts

\* A ring counts finitely many ticks.
LEMMA TicksFinite ==
    ASSUME NEW b, RingInv(b)
    PROVE  /\ IsFiniteSet(RingTicks(b)) /\ Cardinality(RingTicks(b)) \in Nat
           /\ UsedInWindow(b) = Cardinality(RingTicks(b))
<1> DEFINE P == (0..(Slots - 1)) \X (1..MaxMs)
<1>1. MaxMs \in Nat /\ Slots \in Nat
  BY AirtimeBudgetAssumption
<1>2. IsFiniteSet(0..(Slots - 1)) /\ IsFiniteSet(1..MaxMs)
  BY <1>1, FS_Interval
<1>3. IsFiniteSet(P)
  BY <1>2, FS_Product
<1>4. RingTicks(b) \subseteq P
  <2> SUFFICES ASSUME NEW x \in RingTicks(b) PROVE x \in P
    OBVIOUS
  <2>1. PICK i \in InWindow(b) : \E t \in 1..b.records[i].duration : x = <<i, t>>
    BY RingTicksIn
  <2>2. b \in Budgets
    BY DEF RingInv
  <2>3. i \in 0..(b.count - 1) /\ i \in 0..(Slots - 1)
    BY <2>2, BudgetFacts DEF InWindow
  <2>4. b.records[i].duration <= MaxMs /\ b.records[i].duration \in Nat
    BY <2>2, <2>3, BudgetFacts DEF RingInv
  <2>5. PICK t \in 1..b.records[i].duration : x = <<i, t>>
    BY <2>1
  <2>6. t \in 1..MaxMs
    BY <1>1, <2>4
  <2> QED
    BY <2>3, <2>5, <2>6
<1> HIDE DEF P
<1>5. IsFiniteSet(RingTicks(b))
  BY <1>3, <1>4, FS_Subset
<1> QED
  BY <1>5, FS_CardinalityType DEF UsedInWindow, RingTicks

\* Records that get older leave the window and never enter it.
LEMMA AgedRing ==
    ASSUME NEW b, RingInv(b), NEW s \in SUBSET TxRecord, Counted(b, s), NEW d \in Nat,
           UsedInWindow(b) <= MaxMs,
           NEW c, c = Aged(b, d),
           NEW u, u = {r \in {Older(q, d) : q \in s} : r.age <= WindowMs}
    PROVE  RingInv(c) /\ Counted(c, u) /\ UsedInWindow(c) <= MaxMs
<1>1. b \in Budgets /\ WindowMs \in Nat /\ MaxMs \in Nat
  BY AirtimeBudgetAssumption DEF RingInv
<1>2. c \in Budgets
  BY <1>1, AgedType
<1>3. /\ c.count = b.count /\ c.head = b.head
      /\ \A i \in 0..(Slots - 1) : c.records[i] = Older(b.records[i], d)
  BY <1>1 DEF Aged, Budgets
<1>4. \A r \in TxRecord :
          /\ Older(r, d).duration = r.duration
          /\ Older(r, d).age = IF r.age + d > WindowMs THEN WindowMs + 1 ELSE r.age + d
  BY DEF Older, TxRecord
<1>5. \A i \in 0..(Slots - 1) :
          /\ c.records[i].duration = b.records[i].duration
          /\ c.records[i].age = IF b.records[i].age + d > WindowMs THEN WindowMs + 1
                                ELSE b.records[i].age + d
  BY <1>1, <1>3, <1>4, BudgetFacts
<1>6. InWindow(c) \subseteq InWindow(b)
  BY <1>1, <1>3, <1>5, BudgetFacts DEF InWindow
<1>7. RingInv(c)
  <2>1. \A i \in 0..(c.count - 1) :
            c.records[i].duration \in Airtimes /\ c.records[i].duration <= MaxMs
    BY <1>1, <1>3, <1>5, BudgetFacts DEF RingInv
  <2>2. ASSUME NEW i \in 0..(c.count - 1), NEW j \in 0..(c.count - 1),
               WrittenBefore(c.head, i, j)
        PROVE  c.records[j].age <= c.records[i].age
    <3>1. b.records[j].age <= b.records[i].age
      BY <1>3, <2>2 DEF RingInv
    <3>2. i \in 0..(Slots - 1) /\ j \in 0..(Slots - 1)
      BY <1>1, <1>3, BudgetFacts
    <3> QED
      BY <1>1, <1>5, <3>1, <3>2, BudgetFacts
  <2> QED
    BY <1>2, <1>3, <2>1, <2>2 DEF RingInv
<1>8. Counted(c, u)
  <2> SUFFICES ASSUME NEW r \in u PROVE \E i \in InWindow(c) : c.records[i] = r
    BY DEF Counted
  <2>1. PICK q \in s : r = Older(q, d)
    OBVIOUS
  <2>2. PICK i \in InWindow(b) : b.records[i] = q
    BY DEF Counted
  <2>3. i \in 0..(b.count - 1) /\ i \in 0..(Slots - 1)
    BY <1>1, BudgetFacts DEF InWindow
  <2>4. c.records[i] = r
    BY <1>3, <2>1, <2>2, <2>3
  <2> QED
    BY <1>3, <2>3, <2>4 DEF InWindow
<1>9. RingTicks(c) \subseteq RingTicks(b)
  <2> SUFFICES ASSUME NEW x \in RingTicks(c) PROVE x \in RingTicks(b)
    OBVIOUS
  <2>1. PICK i \in InWindow(c) : \E t \in 1..c.records[i].duration : x = <<i, t>>
    BY RingTicksIn
  <2>2. i \in 0..(Slots - 1)
    BY <1>2, BudgetFacts DEF InWindow
  <2> QED
    BY <1>5, <1>6, <2>1, <2>2, RingTicksIn
<1>10. Cardinality(RingTicks(c)) <= Cardinality(RingTicks(b))
  BY <1>9, TicksFinite, FS_Subset
<1> QED
  BY <1>1, <1>7, <1>8, <1>10, TicksFinite

\* The slot after h, where the ring wraps.
LEMMA NextSlot ==
    ASSUME NEW h \in 0..(Slots - 1)
    PROVE  (h + 1) % Slots = IF h + 1 = Slots THEN 0 ELSE h + 1
  BY ConstantFacts

\* A ring that is in the window all round has no airtime left.
LEMMA FullRing ==
    ASSUME EnoughSlots, NEW b, RingInv(b), NEW d \in Airtimes, CanTransmit(b, d)
    PROVE  b.head \notin InWindow(b)
<1> SUFFICES ASSUME b.head \in InWindow(b) PROVE FALSE
  OBVIOUS
<1> DEFINE h == b.head
<1>1. b \in Budgets /\ MaxMs \in Nat /\ Slots \in Nat \ {0} /\ Airtimes \subseteq Nat \ {0}
  BY AirtimeBudgetAssumption DEF RingInv
<1>2. h \in 0..(b.count - 1) /\ b.records[h].age <= WindowMs
  BY DEF InWindow
<1>3. b.count = Slots
  BY <1>1, <1>2, BudgetFacts DEF RingInv
<1>4. \A j \in 0..(Slots - 1) : b.records[j].age <= WindowMs
  <2> SUFFICES ASSUME NEW j \in 0..(Slots - 1) PROVE b.records[j].age <= WindowMs
    OBVIOUS
  <2>1. CASE j = h
    BY <1>2, <2>1
  <2>2. CASE j # h
    <3>1. WrittenBefore(h, h, j)
      BY <1>1, <2>2, BudgetFacts DEF WrittenBefore
    <3>2. b.records[j].age <= b.records[h].age
      BY <1>2, <1>3, <3>1 DEF RingInv
    <3>3. b.records[j].age \in Nat /\ b.records[h].age \in Nat /\ WindowMs \in Nat
      BY <1>1, BudgetFacts, ConstantFacts
    <3> QED
      BY <1>2, <3>2, <3>3
  <2> QED
    BY <2>1, <2>2
<1>5. InWindow(b) = 0..(Slots - 1)
  BY <1>3, <1>4 DEF InWindow
<1>6. PICK a \in Airtimes : \A e \in Airtimes : a <= e
  <2>1. PICK m \in Airtimes : \A y \in Airtimes : <<y, m>> \notin OpToRel(<, Nat)
    BY <1>1, NatLessThanWellFounded, WFMin
  <2>2. \A y \in Airtimes : ~(y < m)
    BY <1>1, <2>1 DEF OpToRel
  <2> QED
    BY <1>1, <2>2
<1> DEFINE P == (0..(Slots - 1)) \X (1..a)
<1>7. P \subseteq RingTicks(b)
  <2> SUFFICES ASSUME NEW i \in 0..(Slots - 1), NEW t \in 1..a PROVE <<i, t>> \in RingTicks(b)
    OBVIOUS
  <2>1. b.records[i].duration \in Airtimes
    BY <1>3 DEF RingInv
  <2>2. a <= b.records[i].duration /\ b.records[i].duration \in Nat /\ a \in Nat
    BY <1>1, <1>6, <2>1
  <2>3. t \in 1..b.records[i].duration
    BY <2>2
  <2> QED
    BY <1>5, <2>3, RingTicksIn
<1>8. /\ IsFiniteSet(0..(Slots - 1)) /\ Cardinality(0..(Slots - 1)) = Slots
      /\ IsFiniteSet(1..a) /\ Cardinality(1..a) = a
  BY <1>1, <1>6, FS_Interval
<1>9. Cardinality(P) = Slots * a
  BY <1>8, FS_Product
<1> HIDE DEF P
<1>10. Cardinality(P) <= UsedInWindow(b)
  BY <1>7, TicksFinite, FS_Subset
<1>11. MaxMs <= UsedInWindow(b) /\ UsedInWindow(b) \in Nat
  <2>1. MaxMs <= Cardinality(P)
    BY <1>6, <1>9 DEF EnoughSlots
  <2>2. Cardinality(P) \in Nat
    BY <1>7, TicksFinite, FS_Subset, FS_CardinalityType
  <2>3. UsedInWindow(b) \in Nat
    BY TicksFinite
  <2> QED
    BY <1>1, <1>10, <2>1, <2>2, <2>3
<1>12. UsedInWindow(b) + d <= MaxMs /\ d \in Nat \ {0}
  BY <1>1 DEF CanTransmit
<1> QED
  BY <1>1, <1>11, <1>12

\* A transmission the budget allowed is recorded over none that still counts.
LEMMA RecordedRing ==
    ASSUME EnoughSlots, NEW b, RingInv(b), NEW s, Counted(b, s),
           NEW d \in Airtimes, CanTransmit(b, d),
           NEW c, c = RecordTx(b, d),
           NEW u, u = s \cup {[age |-> 0, duration |-> d]}
    PROVE  RingInv(c) /\ Counted(c, u) /\ UsedInWindow(c) <= MaxMs
<1> DEFINE h == b.head
           new == [age |-> 0, duration |-> d]
<1>1. b \in Budgets /\ MaxMs \in Nat /\ WindowMs \in Nat /\ d \in Nat \ {0}
  BY AirtimeBudgetAssumption DEF RingInv
<1>2. c \in Budgets
  BY <1>1, RecordTxType
<1>3. /\ c.head = IF h + 1 = Slots THEN 0 ELSE h + 1
      /\ c.count = IF b.count < Slots THEN b.count + 1 ELSE b.count
      /\ c.records = [b.records EXCEPT ![h] = new]
  BY <1>1, BudgetFacts, NextSlot DEF RecordTx
<1>4. /\ h \in 0..(Slots - 1) /\ c.records[h] = new
      /\ \A i \in 0..(Slots - 1) : i # h => c.records[i] = b.records[i]
  BY <1>1, <1>3, BudgetFacts DEF Budgets
<1>5. new.age = 0 /\ new.duration = d
  OBVIOUS
<1> HIDE DEF new
<1>6. \A i \in 0..(c.count - 1) : i \in 0..(Slots - 1) /\ (i # h => i \in 0..(b.count - 1))
  BY <1>1, <1>2, <1>3, BudgetFacts DEF RingInv
<1>7. h \in 0..(c.count - 1) /\ \A i \in 0..(b.count - 1) : i \in 0..(c.count - 1)
  BY <1>1, <1>3, BudgetFacts DEF RingInv
<1>8. UsedInWindow(b) + d <= MaxMs /\ UsedInWindow(b) \in Nat
  BY TicksFinite DEF CanTransmit
<1>9. RingInv(c)
  <2>1. c.count < Slots => c.head = c.count
    BY <1>1, <1>3, BudgetFacts DEF RingInv
  <2>2. ASSUME NEW i \in 0..(c.count - 1)
        PROVE  c.records[i].duration \in Airtimes /\ c.records[i].duration <= MaxMs
    <3>1. CASE i = h
      BY <1>1, <1>4, <1>5, <1>8, <3>1
    <3>2. CASE i # h
      BY <1>4, <1>6, <3>2 DEF RingInv
    <3> QED
      BY <3>1, <3>2
  <2>3. ASSUME NEW i \in 0..(c.count - 1), NEW j \in 0..(c.count - 1),
               WrittenBefore(c.head, i, j)
        PROVE  c.records[j].age <= c.records[i].age
    <3>1. i \in 0..(Slots - 1) /\ j \in 0..(Slots - 1)
      BY <1>6
    <3>2. CASE j = h
      BY <1>2, <1>4, <1>5, <3>1, <3>2, BudgetFacts
    <3>3. CASE j # h
      <4>1. i # h /\ WrittenBefore(h, i, j)
        BY <1>1, <1>3, <1>4, <2>3, <3>1, <3>3, BudgetFacts DEF WrittenBefore
      <4> QED
        BY <1>4, <1>6, <3>1, <3>3, <4>1 DEF RingInv
    <3> QED
      BY <3>2, <3>3
  <2> QED
    BY <1>2, <2>1, <2>2, <2>3 DEF RingInv
<1>10. h \notin InWindow(b)
  BY FullRing
<1>11. Counted(c, u)
  <2> SUFFICES ASSUME NEW r \in u PROVE \E i \in InWindow(c) : c.records[i] = r
    BY DEF Counted
  <2>1. CASE r = new
    BY <1>1, <1>4, <1>5, <1>7, <2>1 DEF InWindow
  <2>2. CASE r \in s
    <3>1. PICK i \in InWindow(b) : b.records[i] = r
      BY <2>2 DEF Counted
    <3>2. i # h /\ i \in 0..(b.count - 1) /\ i \in 0..(Slots - 1)
      BY <1>1, <1>10, BudgetFacts DEF InWindow
    <3> QED
      BY <1>4, <1>7, <3>1, <3>2 DEF InWindow
  <2> QED
    BY <2>1, <2>2 DEF new
<1> DEFINE N == {h} \X (1..d)
<1>12. RingTicks(c) \subseteq RingTicks(b) \cup N
  <2> SUFFICES ASSUME NEW x \in RingTicks(c) PROVE x \in RingTicks(b) \cup N
    OBVIOUS
  <2>1. PICK i \in InWindow(c) : \E t \in 1..c.records[i].duration : x = <<i, t>>
    BY RingTicksIn
  <2>2. i \in 0..(c.count - 1) /\ i \in 0..(Slots - 1)
    BY <1>6 DEF InWindow
  <2>3. CASE i = h
    BY <1>4, <1>5, <2>1, <2>3
  <2>4. CASE i # h
    <3>1. i \in InWindow(b) /\ c.records[i] = b.records[i]
      BY <1>4, <1>6, <2>2, <2>4 DEF InWindow
    <3> QED
      BY <2>1, <3>1, RingTicksIn
  <2> QED
    BY <2>3, <2>4
<1>13. IsFiniteSet(N) /\ Cardinality(N) = d
  <2>1. IsFiniteSet({h}) /\ Cardinality({h}) = 1
    BY FS_Singleton, Zenon
  <2>2. IsFiniteSet(1..d) /\ Cardinality(1..d) = d
    BY <1>1, FS_Interval
  <2>3. IsFiniteSet(N) /\ Cardinality(N) = Cardinality({h}) * Cardinality(1..d)
    BY <2>1, <2>2, FS_Product
  <2> QED
    BY <1>1, <2>1, <2>2, <2>3
<1> HIDE DEF N
<1>14. Cardinality(RingTicks(c)) <= Cardinality(RingTicks(b)) + d
  <2>1. /\ IsFiniteSet(RingTicks(b)) /\ Cardinality(RingTicks(b)) \in Nat
        /\ IsFiniteSet(RingTicks(c)) /\ Cardinality(RingTicks(c)) \in Nat
    BY <1>9, TicksFinite
  <2>2. /\ IsFiniteSet(RingTicks(b) \cup N)
        /\ Cardinality(RingTicks(b) \cup N) =
               Cardinality(RingTicks(b)) + d - Cardinality(RingTicks(b) \cap N)
    BY <1>13, <2>1, FS_Union
  <2>3. Cardinality(RingTicks(b) \cap N) \in Nat
    BY <2>1, FS_Subset, FS_CardinalityType
  <2>4. Cardinality(RingTicks(c)) <= Cardinality(RingTicks(b) \cup N)
    BY <1>12, <2>2, FS_Subset
  <2> QED
    BY <1>1, <2>1, <2>2, <2>3, <2>4
<1>15. UsedInWindow(c) <= MaxMs
  BY <1>1, <1>8, <1>9, <1>14, TicksFinite
<1> QED
  BY <1>9, <1>11, <1>15

\* What the ring counts, no transmission of the window exceeds.
LEMMA CountedBound ==
    ASSUME NEW b, RingInv(b), NEW s, Counted(b, s)
    PROVE  /\ Cardinality(SentTicks(s)) <= UsedInWindow(b)
           /\ Cardinality(SentTicks(s)) \in Nat
<1> DEFINE Slot(r) == CHOOSE i \in InWindow(b) : b.records[i] = r
           f == [p \in SentTicks(s) |-> <<Slot(p[1]), p[2]>>]
<1>1. \A r \in s : Slot(r) \in InWindow(b) /\ b.records[Slot(r)] = r
  BY DEF Counted
<1> HIDE DEF Slot
<1>2. f \in [SentTicks(s) -> RingTicks(b)]
  <2> SUFFICES ASSUME NEW p \in SentTicks(s) PROVE <<Slot(p[1]), p[2]>> \in RingTicks(b)
    OBVIOUS
  <2>1. PICK r \in s : \E t \in 1..r.duration : p = <<r, t>>
    BY SentTicksIn
  <2>2. p[1] = r /\ p[2] \in 1..r.duration
    BY <2>1
  <2> QED
    BY <1>1, <2>2, RingTicksIn
<1>3. \A p, q \in SentTicks(s) : f[p] = f[q] => p = q
  <2> SUFFICES ASSUME NEW p \in SentTicks(s), NEW q \in SentTicks(s), f[p] = f[q] PROVE p = q
    OBVIOUS
  <2>1. PICK r \in s : \E t \in 1..r.duration : p = <<r, t>>
    BY SentTicksIn
  <2>2. PICK o \in s : \E t \in 1..o.duration : q = <<o, t>>
    BY SentTicksIn
  <2>3. Slot(p[1]) = Slot(q[1]) /\ p[2] = q[2]
    OBVIOUS
  <2>4. r = o
    BY <1>1, <2>1, <2>2, <2>3
  <2> QED
    BY <2>1, <2>2, <2>3, <2>4
<1> HIDE DEF f
<1>4. f \in Injection(SentTicks(s), RingTicks(b))
  BY <1>2, <1>3 DEF Injection, IsInjective
<1> QED
  BY <1>4, TicksFinite, FS_Injection, FS_CardinalityType

-----------------------------------------------------------------------------
LEMMA DutyInit == Init => DutyInv
<1> SUFFICES ASSUME Init PROVE DutyInv
  OBVIOUS
<1>1. budget = NewBudget /\ sent = {} /\ op = "top"
  BY DEF Init
<1>2. budget \in Budgets /\ budget.count = 0 /\ budget.head = 0
  BY <1>1, NewBudgetType DEF NewBudget
<1>3. RingInv(budget)
  BY <1>2 DEF RingInv
<1>4. Counted(budget, sent)
  BY <1>1 DEF Counted
<1>5. InWindow(budget) = {}
  BY <1>2 DEF InWindow
<1>6. RingTicks(budget) = {}
  BY <1>5, RingTicksIn
<1>7. UsedInWindow(budget) = 0
  BY <1>3, <1>6, TicksFinite, FS_EmptySet
<1>8. UsedInWindow(budget) <= MaxMs
  BY <1>7, AirtimeBudgetAssumption
<1> QED
  BY <1>1, <1>3, <1>4, <1>8 DEF DutyInv

\* A step that leaves the ring alone, and starts a transmission only when the
\* budget allows it.
LEMMA DutySame ==
    ASSUME DutyInv, UNCHANGED <<budget, sent>>,
           op' = "tx" => /\ front' = front /\ front \in Airtimes
                         /\ op = "tx" \/ CanTransmit(budget, front)
    PROVE  DutyInv'
  BY DEF DutyInv, CanTransmit

LEMMA FrontQueued == IInv /\ op \in {"cad", "tx"} => front \in Airtimes
  BY DEF IInv, TypeOK, ScriptInv

LEMMA DutyPass ==
    ASSUME NEW b, RingInv(b), NEW s \in SUBSET TxRecord, Counted(b, s), NEW d \in Nat,
           UsedInWindow(b) <= MaxMs, Pass(b, s, d), op' # "tx"
    PROVE  DutyInv'
<1>1. /\ budget' = Aged(b, d)
      /\ sent' = {r \in {Older(q, d) : q \in s} : r.age <= WindowMs}
  BY DEF Pass
<1>2. RingInv(budget') /\ Counted(budget', sent') /\ UsedInWindow(budget') <= MaxMs
  BY <1>1, AgedRing
<1> QED
  BY <1>2 DEF DutyInv

\* Clear to send: a transmission begins only if the budget allows it.
LEMMA ClearDuty ==
    ASSUME IInv, DutyInv, op = "cad", ClearToSend \/ Begin("rx"), UNCHANGED <<budget, sent, front>>
    PROVE  DutyInv'
<1>1. op' = "tx" => CanTransmit(budget, front)
  BY DEF ClearToSend, Begin
<1> QED
  BY <1>1, FrontQueued, DutySame

LEMMA SucceedsDuty == EnoughSlots /\ IInv /\ DutyInv /\ CommandSucceeds => DutyInv'
<1> SUFFICES ASSUME EnoughSlots, IInv, DutyInv, CommandSucceeds PROVE DutyInv'
  OBVIOUS
<1>1. CASE Continue
  BY <1>1, FrontQueued, DutySame DEF Continue, duty
<1>2. CASE CadDone
  BY <1>2, ClearDuty DEF CadDone, duty
<1>3. CASE TxDone
  <2> DEFINE b == RecordTx(budget, front)
             s == sent \cup {[age |-> 0, duration |-> front]}
  <2>1. front \in Airtimes /\ CanTransmit(budget, front)
    BY <1>3 DEF TxDone, DutyInv
  <2>2. RingInv(b) /\ Counted(b, s) /\ UsedInWindow(b) <= MaxMs
    BY <2>1, RecordedRing DEF DutyInv
  <2>3. s \in SUBSET TxRecord
    <3>1. [age |-> 0, duration |-> front] \in TxRecord
      BY <2>1, ConstantFacts DEF TxRecord
    <3> QED
      BY <3>1 DEF IInv, TypeOK
  <2>4. Pass(b, s, front) /\ op' = "rx" /\ front \in Nat
    BY <1>3, <2>1, ConstantFacts DEF TxDone, Begin
  <2> HIDE DEF b, s
  <2> QED
    BY <2>2, <2>3, <2>4, DutyPass
<1>4. CASE RxDone
  BY <1>4, DutySame DEF RxDone, Begin, duty
<1> QED
  BY <1>1, <1>2, <1>3, <1>4 DEF CommandSucceeds

\* An operation that fails, or times out, starts a transmission only after CAD.
LEMMA FailedDuty ==
    ASSUME IInv, DutyInv, op # "top", Failed, UNCHANGED <<budget, sent, front>>
    PROVE  DutyInv'
<1>1. CASE op = "cad"
  BY <1>1, ClearDuty DEF Failed, CadFailed
<1>2. CASE op # "cad"
  BY <1>2, DutySame DEF Failed, After, Begin
<1> QED
  BY <1>1, <1>2

LEMMA DutyStep == EnoughSlots /\ IInv /\ DutyInv /\ [Next]_vars => DutyInv'
<1> SUFFICES ASSUME EnoughSlots, IInv, DutyInv, [Next]_vars PROVE DutyInv'
  OBVIOUS
<1>1. CASE Isr \/ Packet \/ CadEnds \/ TxEnds \/ ChipFault \/ UNCHANGED vars
  <2>1. UNCHANGED <<op, front, budget, sent>>
    BY <1>1 DEF Isr, Packet, CadEnds, TxEnds, ChipFault, vars, task, duty
  <2> QED
    BY <2>1, FrontQueued, DutySame
<1>2. CASE Enqueue
  BY <1>2, DutySame DEF Enqueue, duty
<1>3. CASE Tick
  BY <1>3, DutyPass DEF Tick, DutyInv, IInv, TypeOK
<1>4. CASE StartCad \/ StartRx
  BY <1>4, DutySame DEF StartCad, StartRx, Begin, duty
<1>5. CASE CommandSucceeds
  BY <1>5, SucceedsDuty
<1>6. CASE CommandFails
  BY <1>6, FailedDuty DEF CommandFails, duty
<1>7. CASE WaitHigh \/ ArmFails \/ Wake \/ Recheck \/ SpinSeesLine \/ Timeout
  <2>1. UNCHANGED <<op, front, budget, sent>>
    BY <1>7 DEF WaitHigh, ArmFails, Wake, Recheck, SpinSeesLine, Timeout, Asserted, duty
  <2> QED
    BY <2>1, FrontQueued, DutySame
<1>8. CASE Disable \/ SpinTimeout
  <2>1. op # "top" /\ UNCHANGED <<budget, sent, front>>
    BY <1>8 DEF Disable, SpinTimeout, IInv, ScriptInv, duty
  <2> QED
    BY <1>8, <2>1, FailedDuty DEF Disable, SpinTimeout, TimedOut
<1> QED
  BY <1>1, <1>2, <1>3, <1>4, <1>5, <1>6, <1>7, <1>8 DEF Next, Dispatcher

\* The confirmed transmissions that started within a window never add up to more
\* than the budget (can_transmit, record_tx), whatever CAD passes fail and whatever
\* is sent blindly or again: for every window, every budget and every ring with a
\* slot for each frame that fits in the budget.
THEOREM DutyHolds == EnoughSlots => (Spec => []DutyBounded)
<1> SUFFICES ASSUME EnoughSlots PROVE Spec => []DutyBounded
  OBVIOUS
<1>1. DutyInv => DutyBounded
  <2> SUFFICES ASSUME DutyInv PROVE DutyBounded
    OBVIOUS
  <2>1. Cardinality(SentTicks(sent)) <= UsedInWindow(budget) /\ UsedInWindow(budget) <= MaxMs
    BY CountedBound DEF DutyInv
  <2>2. UsedInWindow(budget) \in Nat /\ MaxMs \in Nat /\ Cardinality(SentTicks(sent)) \in Nat
    BY CountedBound, TicksFinite, AirtimeBudgetAssumption DEF DutyInv
  <2> QED
    BY <2>1, <2>2 DEF DutyBounded, SentTicks
<1>2. Init => DutyInv
  BY DutyInit
<1>3. IInv /\ DutyInv /\ [Next]_vars => DutyInv'
  BY DutyStep
<1> QED
  BY <1>1, <1>2, <1>3, IInvHolds, PTL DEF Spec

-----------------------------------------------------------------------------
(***************************************************************************)
(* GpsClock: the driver's rate, cache and power-management lock stay true, *)
(* and the clock only gets better.                                         *)
(***************************************************************************)

(***************************************************************************)
(* What DriverInv needs to be inductive.  A re-probe runs the UART at its  *)
(* candidate, only before any sentence was seen; a rate in doubt is the    *)
(* one the UART runs at; a sentence was seen at the module's rate unless   *)
(* noise passed for it; and a fix, without which the driver never goes     *)
(* quiet, came in a sentence.                                              *)
(***************************************************************************)
RateInv ==
    /\ drv.probe # 0 => ~drv.confirmed /\ ~drv.seen /\ uart = drv.probe
    /\ ~drv.confirmed /\ drv.probe = 0 => drv.detected = uart
    /\ drv.seen /\ ~misled => uart = module.rate
    /\ drv.fix => drv.seen
    /\ ~drv.active => drv.fix

GpsIInv == DriverInv /\ RateInv

\* The driver's fields and their ranges.
DriverType ==
    [detected : 1..Rates, confirmed : BOOLEAN, age : 0..Silence,
     probe : 0..Rates, probed : 0..ProbeWindow, seen : BOOLEAN, fix : BOOLEAN,
     sync : {"none", "rtc", "fix"}, offset : Offsets \cup {Unset},
     active : BOOLEAN, period : 0..(ActiveWindow + QuietInterval)]

\* The facts about the constants that the arithmetic below needs.
LEMMA GpsConstantFacts ==
    /\ Rates \in Nat /\ Rates >= 1 /\ 1 \in 1..Rates
    /\ Silence \in Nat /\ Silence >= 1
    /\ ProbeWindow \in Nat /\ ProbeWindow >= 1
    /\ ActiveWindow \in Nat /\ ActiveWindow >= 1
    /\ QuietInterval \in Nat /\ QuietInterval >= 1
    /\ Ceiling \in Nat /\ Ceiling >= 1
    /\ MaxBoots \in Nat
    /\ 0 \in 0..Silence /\ 0 \in 0..ProbeWindow
    /\ 0 \in 0..(ActiveWindow + QuietInterval)
BY GpsClockAssumption

LEMMA DrvType == GpsTypeOK => drv \in DriverType
BY DEF GpsTypeOK, DriverType

\* A saturating counter stays within its limit, and one within a larger range
\* does not leave it.
LEMMA LaterFact ==
    ASSUME NEW limit \in Nat, NEW top \in Nat, limit <= top, NEW n \in 0..top
    PROVE  Later(n, limit) \in 0..top
BY DEF Later

\* The driver's type survives what a re-probe does to it.
LEMMA ProbeType ==
    ASSUME NEW d \in DriverType, NEW j \in 1..Rates
    PROVE  /\ [d EXCEPT !.probe = j, !.probed = 0] \in DriverType
           /\ [d EXCEPT !.detected = j, !.confirmed = TRUE, !.probe = 0] \in DriverType
<1>1. j \in 0..Rates /\ 0 \in 0..Rates /\ 0 \in 0..ProbeWindow
  BY GpsConstantFacts
<1> QED  BY <1>1 DEF DriverType

-----------------------------------------------------------------------------
(* The driver a boot starts with *)

LEMMA FreshFact ==
    ASSUME NEW rate \in 1..Rates, NEW c \in BOOLEAN
    PROVE  /\ Fresh(rate, c) \in DriverType
           /\ Fresh(rate, c).detected = rate /\ Fresh(rate, c).confirmed = c
           /\ Fresh(rate, c).probe = 0 /\ ~Fresh(rate, c).seen
           /\ ~Fresh(rate, c).fix /\ Fresh(rate, c).active
           /\ Fresh(rate, c).sync = "none"
BY GpsConstantFacts DEF Fresh, DriverType

LEMMA GpsInitIInv == GpsInit => GpsIInv
<1> SUFFICES ASSUME GpsInit PROVE GpsIInv
  OBVIOUS
<1>1. /\ module.rate \in 1..Rates /\ module.awake \in BOOLEAN
      /\ uart \in 1..Rates /\ flash \in 0..Rates /\ heard \subseteq 1..Rates
      /\ misled \in BOOLEAN
  BY GpsConstantFacts DEF GpsInit
<1>2. /\ drv = Fresh(uart, TRUE) /\ lock = 1 /\ adopted = Unset /\ boots = 0
      /\ module \in [rate : 1..Rates, awake : BOOLEAN]
  BY DEF GpsInit
<1>a. /\ drv \in DriverType /\ drv.detected = uart /\ drv.confirmed
      /\ drv.probe = 0 /\ ~drv.seen /\ ~drv.fix /\ drv.active
  BY <1>1, <1>2, FreshFact
<1>b. boots \in 0..MaxBoots /\ lock \in Nat
  BY <1>2, GpsConstantFacts
<1>3. GpsTypeOK
  BY <1>1, <1>2, <1>a, <1>b DEF GpsTypeOK, DriverType
<1>4. LockCoversReading /\ RateInv
  BY <1>2, <1>a DEF LockCoversReading, RateInv
<1>5. ConfirmedIsRight /\ CacheWasHeard
  BY <1>1, <1>a DEF GpsInit, ConfirmedIsRight, CacheWasHeard
<1> QED  BY <1>3, <1>4, <1>5 DEF GpsIInv, DriverInv

LEMMA RebootStep == GpsIInv /\ Reboot => GpsIInv'
<1> SUFFICES ASSUME GpsIInv, Reboot PROVE GpsIInv'
  OBVIOUS
<1> USE DEF GpsIInv, DriverInv
<1>1. PICK m \in [rate : 1..Rates, awake : BOOLEAN], bad \in SUBSET (1..Rates) :
          /\ module' = m
          /\ IF flash = 0 \/ (flash # 1 /\ flash \in bad) THEN FullProbe(m, bad) ELSE UseCached
  BY DEF Reboot
<1>2. lock' = 1 /\ adopted' = Unset /\ boots' \in 0..MaxBoots
  BY GpsConstantFacts DEF Reboot, GpsTypeOK
<1>3. CASE FullProbe(m, bad)
  <2> DEFINE found == m.awake /\ m.rate \notin bad
             rate == IF found THEN m.rate ELSE 1
  <2>1. rate \in 1..Rates /\ found \in BOOLEAN
    BY GpsConstantFacts
  <2>2. /\ drv' = Fresh(rate, TRUE)
        /\ uart' \in IF found \/ 1 \notin bad THEN {rate} ELSE 1..Rates
        /\ flash' \in IF found THEN {flash, rate} ELSE {flash}
        /\ heard' = IF found THEN heard \cup {rate} ELSE heard
        /\ misled' = ~found
    BY <1>3 DEF FullProbe
  <2>3. found => rate = m.rate
    OBVIOUS
  <2> HIDE DEF found, rate
  <2>4. uart' \in 1..Rates /\ (found => uart' = rate)
    BY <2>1, <2>2
  <2>a. /\ drv' \in DriverType /\ drv'.detected = rate /\ drv'.confirmed
        /\ drv'.probe = 0 /\ ~drv'.seen /\ ~drv'.fix /\ drv'.active
    BY <2>1, <2>2, FreshFact
  <2>b. flash' \in 0..Rates /\ heard' \subseteq 1..Rates /\ misled' \in BOOLEAN
    BY <2>1, <2>2 DEF GpsTypeOK
  <2>5. GpsTypeOK'
    BY <1>1, <1>2, <2>4, <2>a, <2>b DEF GpsTypeOK, DriverType
  <2>6. LockCoversReading' /\ RateInv'
    BY <1>2, <2>a DEF LockCoversReading, RateInv
  <2>7. ConfirmedIsRight' /\ CacheWasHeard'
    BY <1>1, <2>2, <2>3, <2>4, <2>a DEF ConfirmedIsRight, CacheWasHeard
  <2> QED  BY <2>5, <2>6, <2>7
<1>4. CASE flash # 0 /\ UseCached
  <2>1. flash \in 1..Rates
    BY <1>4, GpsConstantFacts DEF GpsTypeOK
  <2>2. GpsTypeOK'
    BY <1>1, <1>2, <1>4, <2>1, FreshFact, GpsConstantFacts DEF UseCached, GpsTypeOK, DriverType
  <2>3. LockCoversReading' /\ RateInv' /\ ConfirmedIsRight' /\ CacheWasHeard'
    BY <1>2, <1>4, <2>1, FreshFact
       DEF UseCached, LockCoversReading, RateInv, ConfirmedIsRight, CacheWasHeard
  <2> QED  BY <2>2, <2>3
<1> QED  BY <1>1, <1>3, <1>4

-----------------------------------------------------------------------------
(* The re-probe *)

\* A window for candidate i or later, entered before any sentence was seen.
LEMMA BeginWindowStep ==
    ASSUME GpsIInv, ~drv.confirmed, ~drv.seen, NEW i \in Nat, i >= 1, BeginWindow(i),
           UNCHANGED <<lock, adopted, module, heard, boots>>
    PROVE  GpsIInv'
<1> USE DEF GpsIInv, DriverInv
<1>1. drv.active
  BY DEF RateInv
<1>2. drv \in DriverType
  BY DrvType
<1>3. ASSUME NEW j \in i..Rates, uart' = j,
             drv' = [drv EXCEPT !.probe = j, !.probed = 0], UNCHANGED <<flash, misled>>
      PROVE  GpsIInv'
  <2>1. j \in 1..Rates
    BY GpsConstantFacts
  <2>2. drv' \in DriverType
    BY <1>2, <1>3, <2>1, ProbeType
  <2>3. GpsTypeOK'
    BY <1>3, <2>1, <2>2 DEF GpsTypeOK, DriverType
  <2>a. /\ drv'.probe = j /\ drv'.active = drv.active /\ drv'.fix = drv.fix
        /\ drv'.seen = drv.seen /\ drv'.confirmed = drv.confirmed
    BY <1>2, <1>3 DEF DriverType
  <2>4. LockCoversReading' /\ ConfirmedIsRight' /\ CacheWasHeard' /\ RateInv'
    BY <1>1, <1>3, <2>1, <2>a
       DEF LockCoversReading, ConfirmedIsRight, CacheWasHeard, RateInv
  <2> QED  BY <2>3, <2>4
<1>4. CASE ConcludeNoMatch
  <2>1. drv' \in DriverType
    BY <1>2, <1>4, ProbeType, GpsConstantFacts DEF ConcludeNoMatch
  <2>2. GpsTypeOK'
    BY <1>4, <2>1, GpsConstantFacts DEF ConcludeNoMatch, GpsTypeOK, DriverType
  <2>a. /\ drv'.probe = 0 /\ drv'.active = drv.active /\ drv'.fix = drv.fix
        /\ drv'.seen = drv.seen /\ drv'.confirmed = TRUE
        /\ misled' = TRUE /\ flash' = flash
    BY <1>2, <1>4 DEF ConcludeNoMatch, DriverType
  <2>3. LockCoversReading' /\ ConfirmedIsRight' /\ CacheWasHeard' /\ RateInv'
    BY <1>1, <2>a DEF LockCoversReading, ConfirmedIsRight, CacheWasHeard, RateInv
  <2> QED  BY <2>2, <2>3
<1> QED  BY <1>3, <1>4 DEF BeginWindow

LEMMA StartReprobeStep == GpsIInv /\ StartReprobe => GpsIInv'
BY BeginWindowStep DEF StartReprobe, Stale

LEMMA ServiceReprobeStep == GpsIInv /\ ServiceReprobe => GpsIInv'
<1> SUFFICES ASSUME GpsIInv, ServiceReprobe PROVE GpsIInv'
  OBVIOUS
<1> USE DEF GpsIInv, DriverInv
<1>1. drv.probe # 0 /\ ~drv.confirmed /\ ~drv.seen /\ uart = drv.probe /\ drv.active
  BY DEF ServiceReprobe, RateInv
<1>2. drv \in DriverType /\ drv.probe \in 1..Rates
  BY <1>1, DrvType DEF GpsTypeOK
<1>3. CASE module.awake /\ uart = module.rate
  <2>1. /\ drv' = [drv EXCEPT !.detected = drv.probe, !.confirmed = TRUE, !.probe = 0]
        /\ flash' \in {flash, drv.probe} /\ heard' = heard \cup {uart}
        /\ UNCHANGED <<uart, misled, lock, adopted, module, boots>>
    BY <1>3 DEF ServiceReprobe, LockRate
  <2>2. drv' \in DriverType
    BY <1>2, <2>1, ProbeType
  <2>3. GpsTypeOK'
    BY <1>1, <1>2, <2>1, <2>2 DEF GpsTypeOK, DriverType
  <2>a. /\ drv'.probe = 0 /\ drv'.active = drv.active /\ drv'.fix = drv.fix
        /\ drv'.seen = drv.seen /\ drv'.confirmed = TRUE /\ drv'.detected = uart
    BY <1>1, <1>2, <2>1 DEF DriverType
  <2>4. LockCoversReading' /\ ConfirmedIsRight' /\ CacheWasHeard' /\ RateInv'
    BY <1>1, <1>3, <2>1, <2>a DEF LockCoversReading, ConfirmedIsRight, CacheWasHeard, RateInv
  <2> QED  BY <2>3, <2>4
<1>4. CASE ~(module.awake /\ uart = module.rate)
  <2>1. BeginWindow(drv.probe + 1) /\ UNCHANGED <<lock, adopted, module, heard, boots>>
    BY <1>4 DEF ServiceReprobe
  <2>2. drv.probe + 1 \in Nat /\ drv.probe + 1 >= 1
    BY <1>2, GpsConstantFacts
  <2> QED  BY <1>1, <2>1, <2>2, BeginWindowStep
<1> QED  BY <1>3, <1>4

-----------------------------------------------------------------------------
(* Reading and the duty cycle *)

\* Earlier traffic confirms a rate that is right already.
LEMMA LatchedFact ==
    ASSUME GpsIInv, drv.probe = 0
    PROVE  /\ Latched \in DriverType
           /\ Latched.confirmed = (drv.confirmed \/ drv.seen)
           /\ Latched.detected = drv.detected /\ Latched.probe = 0
           /\ Latched.seen = drv.seen /\ Latched.fix = drv.fix
           /\ Latched.active = drv.active /\ Latched.period = drv.period
           /\ Latched.sync = drv.sync /\ Latched.offset = drv.offset
           /\ Latched.confirmed /\ ~misled => uart = module.rate /\ Latched.detected = uart
           /\ ~Latched.confirmed => Latched.detected = uart
<1> USE DEF GpsIInv, DriverInv
<1>1. drv \in DriverType
  BY DrvType
<1>2. /\ Latched \in DriverType
      /\ Latched.confirmed = (drv.confirmed \/ drv.seen)
      /\ Latched.detected = drv.detected /\ Latched.probe = 0
      /\ Latched.seen = drv.seen /\ Latched.fix = drv.fix
      /\ Latched.active = drv.active /\ Latched.period = drv.period
      /\ Latched.sync = drv.sync /\ Latched.offset = drv.offset
  BY <1>1 DEF Latched, DriverType
<1> QED  BY <1>2 DEF RateInv, ConfirmedIsRight

\* The end of a poll, whatever it read: d is the driver then, and m says whether
\* noise has passed for a sentence by then.
LEMMA EndPollStep ==
    ASSUME GpsIInv, drv.probe = 0, drv.active,
           NEW d \in DriverType, EndPoll(d),
           d.probe = 0, d.active,
           d.confirmed = Latched.confirmed, d.detected = drv.detected,
           d.fix => d.seen,
           d.seen /\ ~misled' => uart = module.rate,
           misled' \in BOOLEAN, misled => misled',
           heard \subseteq heard', heard' \subseteq 1..Rates,
           UNCHANGED <<uart, flash, adopted, module, boots>>
    PROVE  GpsIInv'
<1> USE DEF GpsIInv, DriverInv
<1>1. CASE ShouldClose(d)
  <2>1. drv' = [d EXCEPT !.active = FALSE, !.period = 0] /\ lock' = lock - 1 /\ d.fix
    BY <1>1 DEF EndPoll, ShouldClose
  <2>2. drv' \in DriverType
    BY <2>1, GpsConstantFacts DEF DriverType
  <2>3. lock' = 0
    BY <2>1 DEF LockCoversReading
  <2>4. GpsTypeOK'
    BY <2>2, <2>3 DEF GpsTypeOK, DriverType
  <2>5. LockCoversReading' /\ ConfirmedIsRight' /\ CacheWasHeard' /\ RateInv'
    BY <2>1, <2>3, LatchedFact
       DEF LockCoversReading, ConfirmedIsRight, CacheWasHeard, RateInv, DriverType
  <2> QED  BY <2>4, <2>5
<1>2. CASE ~ShouldClose(d)
  <2>1. drv' = d /\ lock' = lock
    BY <1>2 DEF EndPoll
  <2>2. GpsTypeOK'
    BY <2>1 DEF GpsTypeOK, DriverType
  <2>3. LockCoversReading' /\ ConfirmedIsRight' /\ CacheWasHeard' /\ RateInv'
    BY <2>1, LatchedFact DEF LockCoversReading, ConfirmedIsRight, CacheWasHeard, RateInv
  <2> QED  BY <2>2, <2>3
<1> QED  BY <1>1, <1>2

LEMMA ReadNothingStep == GpsIInv /\ ReadNothing => GpsIInv'
<1> SUFFICES ASSUME GpsIInv, ReadNothing PROVE GpsIInv'
  OBVIOUS
<1>1. /\ drv.probe = 0 /\ drv.active /\ EndPoll(Latched)
      /\ UNCHANGED <<uart, flash, adopted, module, heard, misled, boots>>
  BY DEF ReadNothing, Reading
<1>2. heard \subseteq 1..Rates /\ misled \in BOOLEAN
  BY DEF GpsIInv, DriverInv, GpsTypeOK
<1>3. (drv.fix => drv.seen) /\ (drv.seen /\ ~misled => uart = module.rate)
  BY DEF GpsIInv, RateInv
<1> QED  BY <1>1, <1>2, <1>3, LatchedFact, EndPollStep

LEMMA ReadNoiseStep == GpsIInv /\ ReadNoise => GpsIInv'
<1> SUFFICES ASSUME GpsIInv, ReadNoise PROVE GpsIInv'
  OBVIOUS
<1> DEFINE d == [Latched EXCEPT !.seen = TRUE]
<1>1. /\ drv.probe = 0 /\ drv.active /\ EndPoll(d) /\ misled' = TRUE
      /\ UNCHANGED <<uart, flash, adopted, module, heard, boots>>
  BY DEF ReadNoise, Reading
<1>2. heard \subseteq 1..Rates
  BY DEF GpsIInv, DriverInv, GpsTypeOK
<1>3. /\ d \in DriverType /\ d.probe = 0 /\ d.active /\ d.seen
      /\ d.confirmed = Latched.confirmed /\ d.detected = drv.detected
  BY <1>1, LatchedFact DEF DriverType
<1> HIDE DEF d
<1> QED  BY <1>1, <1>2, <1>3, EndPollStep

LEMMA ReadGgaStep == GpsIInv /\ ReadGga => GpsIInv'
<1> SUFFICES ASSUME GpsIInv, ReadGga PROVE GpsIInv'
  OBVIOUS
<1>1. /\ drv.probe = 0 /\ drv.active /\ uart = module.rate /\ heard' = heard \cup {uart}
      /\ UNCHANGED <<uart, flash, adopted, module, misled, boots>>
  BY DEF ReadGga, Talking, Reading
<1>2. PICK fix \in BOOLEAN : EndPoll([Latched EXCEPT !.seen = TRUE, !.fix = @ \/ fix])
  BY DEF ReadGga
<1> DEFINE d == [Latched EXCEPT !.seen = TRUE, !.fix = @ \/ fix]
<1>3. heard' \subseteq 1..Rates /\ misled \in BOOLEAN
  BY <1>1 DEF GpsIInv, DriverInv, GpsTypeOK
<1>4. /\ d \in DriverType /\ d.probe = 0 /\ d.active /\ d.seen
      /\ d.confirmed = Latched.confirmed /\ d.detected = drv.detected
  BY <1>1, LatchedFact DEF DriverType
<1>5. EndPoll(d)
  BY <1>2
<1> HIDE DEF d
<1> QED  BY <1>1, <1>3, <1>4, <1>5, EndPollStep

\* Setting the clock changes nothing else.
LEMMA SyncedFact ==
    ASSUME NEW d \in DriverType, NEW v \in BOOLEAN, NEW o \in Offsets
    PROVE  /\ Synced(d, v, o) \in DriverType
           /\ Synced(d, v, o).probe = d.probe /\ Synced(d, v, o).active = d.active
           /\ Synced(d, v, o).seen = d.seen /\ Synced(d, v, o).fix = d.fix
           /\ Synced(d, v, o).confirmed = d.confirmed
           /\ Synced(d, v, o).detected = d.detected
BY DEF Synced, AcceptsSync, DriverType

LEMMA ReadRmcStep == GpsIInv /\ ReadRmc => GpsIInv'
<1> SUFFICES ASSUME GpsIInv, ReadRmc PROVE GpsIInv'
  OBVIOUS
<1>1. /\ drv.probe = 0 /\ drv.active /\ uart = module.rate /\ heard' = heard \cup {uart}
      /\ UNCHANGED <<uart, flash, adopted, module, misled, boots>>
  BY DEF ReadRmc, Talking, Reading
<1> DEFINE d == [Latched EXCEPT !.seen = TRUE]
<1>2. PICK verified \in BOOLEAN, o \in Offsets, set \in BOOLEAN :
          EndPoll(IF set THEN Synced(d, verified, o) ELSE d)
  BY DEF ReadRmc
<1> DEFINE e == IF set THEN Synced(d, verified, o) ELSE d
<1>3. heard' \subseteq 1..Rates /\ misled \in BOOLEAN
  BY <1>1 DEF GpsIInv, DriverInv, GpsTypeOK
<1>4. /\ d \in DriverType /\ d.probe = 0 /\ d.active /\ d.seen
      /\ d.confirmed = Latched.confirmed /\ d.detected = drv.detected
  BY <1>1, LatchedFact DEF DriverType
<1>5. EndPoll(e)
  BY <1>2
<1> HIDE DEF d
<1>6. /\ e \in DriverType /\ e.probe = 0 /\ e.active /\ e.seen
      /\ e.confirmed = Latched.confirmed /\ e.detected = drv.detected
  BY <1>4, SyncedFact
<1> HIDE DEF e
<1> QED  BY <1>1, <1>3, <1>5, <1>6, EndPollStep

LEMMA ReopenStep == GpsIInv /\ Reopen => GpsIInv'
<1> SUFFICES ASSUME GpsIInv, Reopen PROVE GpsIInv'
  OBVIOUS
<1> USE DEF GpsIInv, DriverInv
<1>1. /\ drv.probe = 0 /\ ~drv.active /\ lock' = lock + 1
      /\ drv' = [Latched EXCEPT !.active = TRUE, !.period = 0]
      /\ UNCHANGED <<uart, flash, adopted, module, heard, misled, boots>>
  BY DEF Reopen
<1>2. drv' \in DriverType
  BY <1>1, LatchedFact, GpsConstantFacts DEF DriverType
<1>3. lock' = 1
  BY <1>1 DEF LockCoversReading
<1>4. GpsTypeOK'
  BY <1>1, <1>2, <1>3 DEF GpsTypeOK, DriverType
<1>5. LockCoversReading' /\ ConfirmedIsRight' /\ CacheWasHeard' /\ RateInv'
  BY <1>1, <1>3, LatchedFact
     DEF LockCoversReading, ConfirmedIsRight, CacheWasHeard, RateInv, DriverType
<1> QED  BY <1>4, <1>5

-----------------------------------------------------------------------------
(* The clock, the time and the module *)

LEMMA ServerTimeStep == GpsIInv /\ ServerTime => GpsIInv'
<1> SUFFICES ASSUME GpsIInv, ServerTime PROVE GpsIInv'
  OBVIOUS
<1> USE DEF GpsIInv, DriverInv
<1>1. PICK ts \in Readings : adopted' = Adopted(ts)
  BY DEF ServerTime
<1>2. adopted' \in Offsets \cup {Unset}
  BY <1>1, GpsConstantFacts DEF Adopted, GpsTypeOK, Readings, Offsets
<1>3. GpsTypeOK'
  BY <1>2 DEF ServerTime, GpsTypeOK
<1> QED
  BY <1>3 DEF ServerTime, LockCoversReading, ConfirmedIsRight, CacheWasHeard, RateInv

LEMMA GpsTickStep == GpsIInv /\ GpsTick => GpsIInv'
<1> SUFFICES ASSUME GpsIInv, GpsTick PROVE GpsIInv'
  OBVIOUS
<1> USE DEF GpsIInv, DriverInv
<1> DEFINE a == Later(drv.age, Silence)
           p == Later(drv.probed, ProbeWindow)
           q == Later(drv.period, IF drv.active THEN ActiveWindow ELSE QuietInterval)
<1>1. drv \in DriverType
  BY DrvType
<1>2. a \in 0..Silence /\ p \in 0..ProbeWindow
  BY <1>1, LaterFact, GpsConstantFacts DEF DriverType
<1>3. q \in 0..(ActiveWindow + QuietInterval)
  <2>1. /\ ActiveWindow <= ActiveWindow + QuietInterval
        /\ QuietInterval <= ActiveWindow + QuietInterval
        /\ ActiveWindow + QuietInterval \in Nat
    BY GpsConstantFacts
  <2>2. drv.period \in 0..(ActiveWindow + QuietInterval)
    BY <1>1 DEF DriverType
  <2> QED  BY <2>1, <2>2, LaterFact, GpsConstantFacts
<1>4. drv' = [drv EXCEPT !.age = a, !.probed = p, !.period = q]
  BY DEF GpsTick
<1> HIDE DEF a, p, q
<1>5. drv' \in DriverType
  BY <1>1, <1>2, <1>3, <1>4 DEF DriverType
<1>6. GpsTypeOK'
  BY <1>5 DEF GpsTick, GpsTypeOK, DriverType
<1>7. LockCoversReading' /\ ConfirmedIsRight' /\ CacheWasHeard' /\ RateInv'
  <2>1. UNCHANGED <<uart, flash, lock, adopted, module, heard, misled, boots>>
    BY DEF GpsTick
  <2> QED
    BY <1>1, <1>4, <2>1
       DEF LockCoversReading, ConfirmedIsRight, CacheWasHeard, RateInv, DriverType
<1> QED  BY <1>6, <1>7

LEMMA WakesStep == GpsIInv /\ Wakes => GpsIInv'
<1> SUFFICES ASSUME GpsIInv, Wakes PROVE GpsIInv'
  OBVIOUS
<1> USE DEF GpsIInv, DriverInv
<1>1. GpsTypeOK'
  BY DEF Wakes, GpsTypeOK
<1>2. module'.rate = module.rate
  BY DEF Wakes, GpsTypeOK
<1> QED
  BY <1>1, <1>2 DEF Wakes, LockCoversReading, ConfirmedIsRight, CacheWasHeard, RateInv

-----------------------------------------------------------------------------
LEMMA GpsIInvStep == GpsIInv /\ [GpsNext]_gpsVars => GpsIInv'
<1> SUFFICES ASSUME GpsIInv, [GpsNext]_gpsVars PROVE GpsIInv'
  OBVIOUS
<1>1. CASE UNCHANGED gpsVars
  BY <1>1 DEF gpsVars, GpsIInv, DriverInv, GpsTypeOK, LockCoversReading, ConfirmedIsRight,
              CacheWasHeard, RateInv
<1> QED
  BY <1>1, StartReprobeStep, ServiceReprobeStep, ReadNothingStep, ReadNoiseStep, ReadGgaStep,
     ReadRmcStep, ReopenStep, ServerTimeStep, GpsTickStep, WakesStep, RebootStep
     DEF GpsNext, Poll

LEMMA GpsIInvHolds == GpsSpec => []GpsIInv
BY GpsInitIInv, GpsIInvStep, PTL DEF GpsSpec

\* Through re-probes, duty cycles, restarts and swapped modules the driver holds
\* the APB lock exactly while it reads the UART, a rate it takes for confirmed is
\* the module's unless it was misled, and the cache holds only rates at which a
\* module was heard.
THEOREM DriverHolds == GpsSpec => []DriverInv
<1>1. GpsIInv => DriverInv
  BY DEF GpsIInv
<1> QED  BY <1>1, GpsIInvHolds, PTL

-----------------------------------------------------------------------------
(* The clock *)

\* How a step may change the driver's sync, and the room servers' clock beside it.
SyncKept == drv'.sync = drv.sync /\ drv'.offset = drv.offset
SyncBetter ==
    drv'.sync = "fix" \/ (drv.sync = "none" /\ drv'.sync = "rtc")

\* A re-probe leaves the sync alone.
LEMMA ProbeSync ==
    ASSUME NEW d \in DriverType, NEW j
    PROVE  /\ [d EXCEPT !.probe = j, !.probed = 0].sync = d.sync
           /\ [d EXCEPT !.probe = j, !.probed = 0].offset = d.offset
           /\ [d EXCEPT !.detected = j, !.confirmed = TRUE, !.probe = 0].sync = d.sync
           /\ [d EXCEPT !.detected = j, !.confirmed = TRUE, !.probe = 0].offset = d.offset
BY DEF DriverType

\* Whatever a poll reads, EndPoll leaves the sync as it is in d.
LEMMA EndPollSync ==
    ASSUME NEW d \in DriverType, EndPoll(d)
    PROVE  drv'.sync = d.sync /\ drv'.offset = d.offset
BY DEF EndPoll, DriverType

LEMMA SyncedSync ==
    ASSUME NEW d \in DriverType, NEW v \in BOOLEAN, NEW o \in Offsets
    PROVE  \/ Synced(d, v, o).sync = d.sync /\ Synced(d, v, o).offset = d.offset
           \/ Synced(d, v, o).sync = "fix"
           \/ d.sync = "none" /\ Synced(d, v, o).sync = "rtc"
BY DEF Synced, AcceptsSync, DriverType

\* Within a boot a step keeps the sync or replaces it by a better one, and leaves
\* the adopted clock alone unless it is a server's timestamp.
LEMMA SyncStep ==
    ASSUME GpsIInv, GpsNext, boots' = boots
    PROVE  /\ SyncKept \/ SyncBetter
           /\ adopted' = adopted \/ (SyncKept /\ \E ts \in Readings : adopted' = Adopted(ts))
<1> USE DEF SyncKept, SyncBetter
<1>0. drv \in DriverType
  BY DrvType DEF GpsIInv, DriverInv
<1>1. CASE StartReprobe \/ ServiceReprobe
  <2>1. adopted' = adopted
    BY <1>1 DEF StartReprobe, ServiceReprobe
  <2>2. CASE LockRate \/ ConcludeNoMatch
    <3>1. PICK j : drv' = [drv EXCEPT !.detected = j, !.confirmed = TRUE, !.probe = 0]
      BY <2>2 DEF LockRate, ConcludeNoMatch
    <3> QED  BY <1>0, <2>1, <3>1, ProbeSync
  <2>3. ASSUME NEW j, drv' = [drv EXCEPT !.probe = j, !.probed = 0] PROVE SyncKept
    BY <1>0, <2>3, ProbeSync
  <2>4. \/ LockRate \/ ConcludeNoMatch
        \/ \E j \in 1..Rates : drv' = [drv EXCEPT !.probe = j, !.probed = 0]
        \/ \E j \in (drv.probe + 1)..Rates : drv' = [drv EXCEPT !.probe = j, !.probed = 0]
    BY <1>1 DEF StartReprobe, ServiceReprobe, BeginWindow
  <2> QED  BY <2>1, <2>2, <2>3, <2>4
<1>2. CASE ReadNothing
  <2>1. drv.probe = 0 /\ EndPoll(Latched) /\ adopted' = adopted
    BY <1>2 DEF ReadNothing, Reading
  <2> QED  BY <2>1, LatchedFact, EndPollSync
<1>3. CASE ReadNoise
  <2> DEFINE d == [Latched EXCEPT !.seen = TRUE]
  <2>1. drv.probe = 0 /\ EndPoll(d) /\ adopted' = adopted
    BY <1>3 DEF ReadNoise, Reading
  <2>2. d \in DriverType /\ d.sync = drv.sync /\ d.offset = drv.offset
    BY <2>1, LatchedFact DEF DriverType
  <2> HIDE DEF d
  <2> QED  BY <2>1, <2>2, EndPollSync
<1>4. CASE ReadGga
  <2>1. PICK fix \in BOOLEAN : EndPoll([Latched EXCEPT !.seen = TRUE, !.fix = @ \/ fix])
    BY <1>4 DEF ReadGga
  <2> DEFINE d == [Latched EXCEPT !.seen = TRUE, !.fix = @ \/ fix]
  <2>2. drv.probe = 0 /\ adopted' = adopted
    BY <1>4 DEF ReadGga, Talking, Reading
  <2>3. d \in DriverType /\ d.sync = drv.sync /\ d.offset = drv.offset
    BY <2>2, LatchedFact DEF DriverType
  <2>4. EndPoll(d)
    BY <2>1
  <2> HIDE DEF d
  <2> QED  BY <2>2, <2>3, <2>4, EndPollSync
<1>5. CASE ReadRmc
  <2> DEFINE d == [Latched EXCEPT !.seen = TRUE]
  <2>1. PICK verified \in BOOLEAN, o \in Offsets, set \in BOOLEAN :
            EndPoll(IF set THEN Synced(d, verified, o) ELSE d)
    BY <1>5 DEF ReadRmc
  <2>2. drv.probe = 0 /\ adopted' = adopted
    BY <1>5 DEF ReadRmc, Talking, Reading
  <2>3. d \in DriverType /\ d.sync = drv.sync /\ d.offset = drv.offset
    BY <2>2, LatchedFact DEF DriverType
  <2> HIDE DEF d
  <2>4. CASE set
    <3>1. EndPoll(Synced(d, verified, o)) /\ Synced(d, verified, o) \in DriverType
      BY <2>1, <2>3, <2>4, SyncedFact
    <3> QED  BY <2>2, <2>3, <3>1, EndPollSync, SyncedSync
  <2>5. CASE ~set
    BY <2>1, <2>2, <2>3, <2>5, EndPollSync
  <2> QED  BY <2>4, <2>5
<1>6. CASE Reopen
  <2>1. /\ drv.probe = 0 /\ adopted' = adopted
        /\ drv' = [Latched EXCEPT !.active = TRUE, !.period = 0]
    BY <1>6 DEF Reopen
  <2> QED  BY <2>1, LatchedFact DEF DriverType
<1>7. CASE ServerTime
  BY <1>7 DEF ServerTime
<1>8. CASE GpsTick
  BY <1>0, <1>8 DEF GpsTick, DriverType
<1>9. CASE Wakes
  BY <1>9 DEF Wakes
<1>10. CASE Reboot
  BY <1>10 DEF Reboot, GpsIInv, DriverInv, GpsTypeOK
<1> QED
  BY <1>1, <1>2, <1>3, <1>4, <1>5, <1>6, <1>7, <1>8, <1>9, <1>10 DEF GpsNext, Poll

\* In whatever order fixes, backup-RTC readings and servers' timestamps come in, a
\* sync is never downgraded within a boot, an unverified anchor is set once, a room
\* server's clock never goes back, and the trusted source never gets worse.
THEOREM ClockImproves == GpsSpec => ClockOnlyImproves
<1> DEFINE SyncOk ==
             boots' = boots =>
               /\ drv.sync = "fix" => drv'.sync = "fix"
               /\ drv.sync = "rtc" => \/ drv'.sync = "fix"
                                      \/ drv'.sync = "rtc" /\ drv'.offset = drv.offset
           TrustOk ==
             boots' = boots =>
               /\ Source = "RoomServer" => Source' \in {"RoomServer", "Gps"}
               /\ Source = "RoomServer" /\ Source' = "RoomServer" => TrustedClock' >= TrustedClock
               /\ Source = "Gps" => Source' = "Gps"
<1>1. GpsIInv /\ [GpsNext]_gpsVars => [SyncOk]_gpsVars
  BY SyncStep DEF SyncKept, SyncBetter
<1>2. GpsIInv /\ [GpsNext]_gpsVars => [TrustOk]_gpsVars
  <2> SUFFICES ASSUME GpsIInv, GpsNext, boots' = boots
               PROVE  /\ Source = "RoomServer" => Source' \in {"RoomServer", "Gps"}
                      /\ Source = "RoomServer" /\ Source' = "RoomServer"
                             => TrustedClock' >= TrustedClock
                      /\ Source = "Gps" => Source' = "Gps"
    OBVIOUS
  <2>1. SyncKept \/ SyncBetter
    BY SyncStep
  <2>2. Source = "Gps" => Source' = "Gps"
    BY <2>1 DEF Source, Verified, SyncKept, SyncBetter
  <2>3. Source = "RoomServer" => adopted # Unset /\ ~Verified
    BY DEF Source
  <2>4. adopted # Unset => adopted \in Nat /\ adopted \in Offsets
    BY GpsConstantFacts DEF GpsIInv, DriverInv, GpsTypeOK, Offsets
  <2>5. Source = "RoomServer" => adopted' # Unset /\ adopted' >= adopted
    BY <2>3, <2>4, SyncStep, GpsConstantFacts DEF Adopted, Readings, Unset, Offsets
  <2>6. Source = "RoomServer" => Source' \in {"RoomServer", "Gps"}
    BY <2>5 DEF Source
  <2>7. Source = "RoomServer" /\ Source' = "RoomServer" => TrustedClock' >= TrustedClock
    BY <2>5 DEF TrustedClock
  <2> QED  BY <2>2, <2>6, <2>7
<1> QED
  BY <1>1, <1>2, GpsIInvHolds, PTL DEF GpsSpec, ClockOnlyImproves, SyncOnlyImproves, TrustedNeverBack

-----------------------------------------------------------------------------
(***************************************************************************)
(* HostLink: a command is answered by its own reply, and the cards the host *)
(* collects carry increasing timestamps.                                   *)
(***************************************************************************)

-----------------------------------------------------------------------------
(***************************************************************************)
(* The inductive invariant.                                                *)
(***************************************************************************)
\* What has been answered and not yet taken, in the order the host will take it.
Pipe == inbox \o toHost

Frames ==
    [type : {"OK", "ERROR", "ENTRY", "STATUS", "IDENTITY"}]
        \cup [type : {"DONE"}, total : Nat]
        \cup [type : {"ADVERT"}, ts : Nat]

Requests == [cmd : Commands, id : Nat]

Hosts ==
    [phase : {"wait", "again", "second", "stream"}, cmd : Commands,
     sends : 1..MaxSends, stray : 0..MaxStray, got : Nat]

HostInv ==
    /\ host = Idle \/ host \in Hosts
    /\ host.phase = "second" => host.cmd.kind = "status"
    /\ host.phase = "stream" => host.cmd.kind = "list"
    /\ host.phase = "again" => Doubtful(host.cmd) \subseteq resent /\ host.sends < MaxSends

WireInv ==
    /\ inbox \in Seq(Frames) /\ toHost \in Seq(Frames)
    /\ toDev \in Seq(Requests)
    /\ items \in Seq(Items) /\ Len(items) <= MaxItems
    /\ lastTs \in Nat /\ issued \in Nat /\ cards \in Seq(Nat)
    /\ resent \in SUBSET {"edit", "list"}
    /\ applied \in BOOLEAN /\ unearned \in BOOLEAN /\ whole \in BOOLEAN

\* The cards cs were stamped in order, before those on their way in p, and these in
\* order too, none later than last.
Stamped(p, cs, last) ==
    /\ \A i, j \in 1..Len(cs) : i < j => cs[i] < cs[j]
    /\ \A i \in 1..Len(cs) : cs[i] <= last
    /\ \A i \in 1..Len(p) : p[i].type = "ADVERT" =>
          /\ p[i].ts <= last
          /\ \A k \in 1..Len(cs) : cs[k] < p[i].ts
          /\ \A j \in 1..Len(p) : i < j /\ p[j].type = "ADVERT" => p[i].ts < p[j].ts

EditIn(td) == \E i \in 1..Len(td) : IsEdit(td[i].cmd)

OkIn(p) == \E i \in 1..Len(p) : p[i].type = "OK"

\* Edit id is on its way in td, or its acknowledgement in p, and only one of them.
EditsOne(p, td, id) ==
    /\ \A i \in 1..Len(td) : IsEdit(td[i].cmd) =>
          /\ td[i].id = id
          /\ \A j \in 1..Len(td) : IsEdit(td[j].cmd) => i = j
          /\ ~OkIn(p)
    /\ \A i, j \in 1..Len(p) : p[i].type = "OK" /\ p[j].type = "OK" => i = j

IsList(f) == f.type \in {"ENTRY", "DONE"}

ListIn(p) == \E i \in 1..Len(p) : IsList(p[i])

AskedIn(td) == \E i \in 1..Len(td) : td[i].cmd.kind = "list"

\* A listing is on its way in td, or its answer in p, and only one of them: the
\* entries the host has not got yet, in one piece, and the end.
ListsOne(p, td, had) ==
    /\ \A i \in 1..Len(td) : td[i].cmd.kind = "list" =>
          /\ had = 0
          /\ \A j \in 1..Len(td) : td[j].cmd.kind = "list" => i = j
          /\ ~ListIn(p)
    /\ \A n \in 1..Len(p) : p[n].type = "DONE" =>
          /\ had <= p[n].total /\ p[n].total - had < n
          /\ \A i \in 1..Len(p) :
                /\ p[i].type = "DONE" => i = n
                /\ p[i].type = "ENTRY" <=> n - (p[n].total - had) <= i /\ i < n

Editing == host.phase = "wait" /\ IsEdit(host.cmd)

Listing == host.phase \in {"wait", "stream"} /\ host.cmd.kind = "list"

CardInv == Stamped(Pipe, cards, lastTs)

\* As long as no edit was sent twice or given up, the one under way is the one the
\* host waits for, and its acknowledgement says that it was carried out.
EditInv ==
    "edit" \notin resent =>
        /\ EditsOne(Pipe, toDev, issued)
        /\ EditIn(toDev) \/ OkIn(Pipe) => Editing
        /\ OkIn(Pipe) => applied
        /\ ~unearned

ListInv ==
    "list" \notin resent =>
        /\ host # Idle => ListsOne(Pipe, toDev, host.got)
        /\ AskedIn(toDev) \/ ListIn(Pipe) => Listing
        /\ whole

LinkIInv == WireInv /\ HostInv /\ CardInv /\ EditInv /\ ListInv

-----------------------------------------------------------------------------
(***************************************************************************)
(* Sequences of frames.                                                    *)
(***************************************************************************)
\* q is what is left of p with off frames taken or flushed.
From(q, p, off) == Len(q) + off <= Len(p) /\ \A i \in 1..Len(q) : q[i] = p[i + off]

\* The answer a was written behind p.
Behind(q, p, a) ==
    /\ Len(q) = Len(p) + Len(a)
    /\ \A i \in 1..Len(p) : q[i] = p[i]
    /\ \A i \in 1..Len(a) : q[Len(p) + i] = a[i]

LEMMA LenNat == \A S : \A q \in Seq(S) : Len(q) \in Nat
  OBVIOUS

LEMMA Joined ==
    ASSUME NEW S, NEW a \in Seq(S), NEW b \in Seq(S), NEW q, q = a \o b
    PROVE  /\ q \in Seq(S) /\ Len(q) = Len(a) + Len(b)
           /\ \A i \in 1..Len(a) : q[i] = a[i]
           /\ \A i \in 1..Len(b) : q[Len(a) + i] = b[i]
<1>1. /\ q \in Seq(S) /\ Len(q) = Len(a) + Len(b)
      /\ \A i \in 1..Len(a) + Len(b) : q[i] = IF i <= Len(a) THEN a[i] ELSE b[i - Len(a)]
  BY ConcatProperties, Zenon
<1>2. Len(a) \in Nat /\ Len(b) \in Nat
  OBVIOUS
<1>3. ASSUME NEW i \in 1..Len(a) PROVE q[i] = a[i]
  BY <1>1, <1>2
<1>4. ASSUME NEW i \in 1..Len(b) PROVE q[Len(a) + i] = b[i]
  <2>1. Len(a) + i \in 1..Len(a) + Len(b) /\ ~(Len(a) + i <= Len(a)) /\ (Len(a) + i) - Len(a) = i
    BY <1>2
  <2> QED
    BY <1>1, <2>1
<1> QED
  BY <1>1, <1>3, <1>4

LEMMA TailIs ==
    ASSUME NEW S, NEW b \in Seq(S), b # <<>>
    PROVE  /\ Head(b) = b[1] /\ b[1] \in S /\ Tail(b) \in Seq(S)
           /\ Len(b) \in Nat /\ Len(b) >= 1 /\ Len(Tail(b)) = Len(b) - 1
           /\ \A i \in 1..Len(Tail(b)) : Tail(b)[i] = b[i + 1]
  OBVIOUS

LEMMA AppendIs ==
    ASSUME NEW S, NEW b \in Seq(S), NEW e \in S
    PROVE  /\ Append(b, e) \in Seq(S) /\ Len(Append(b, e)) = Len(b) + 1 /\ Len(b) \in Nat
           /\ \A i \in 1..Len(b) : Append(b, e)[i] = b[i]
           /\ Append(b, e)[Len(b) + 1] = e
  OBVIOUS

\* A frame arrives: the pipe is the same.
LEMMA ArriveSeq ==
    ASSUME NEW S, NEW a \in Seq(S), NEW b \in Seq(S), b # <<>>
    PROVE  From(Append(a, Head(b)) \o Tail(b), a \o b, 0)
<1> DEFINE h == Head(b)
           c == Append(a, h)
           t == Tail(b)
           p == a \o b
           q == c \o t
<1>0. q = c \o t
  OBVIOUS
<1>1. /\ h = b[1] /\ h \in S /\ t \in Seq(S) /\ Len(b) \in Nat /\ Len(b) >= 1
      /\ Len(t) = Len(b) - 1 /\ \A i \in 1..Len(t) : t[i] = b[i + 1]
  BY TailIs
<1> HIDE DEF h, t
<1>2. /\ c \in Seq(S) /\ Len(c) = Len(a) + 1 /\ Len(a) \in Nat
      /\ \A i \in 1..Len(a) : c[i] = a[i]
      /\ c[Len(a) + 1] = h
  BY <1>1, AppendIs
<1>3. /\ p \in Seq(S) /\ Len(p) = Len(a) + Len(b)
      /\ \A i \in 1..Len(a) : p[i] = a[i]
      /\ \A i \in 1..Len(b) : p[Len(a) + i] = b[i]
  BY Joined
<1> HIDE DEF c, p, q
<1>4. /\ q \in Seq(S) /\ Len(q) = Len(c) + Len(t)
      /\ \A i \in 1..Len(c) : q[i] = c[i]
      /\ \A i \in 1..Len(t) : q[Len(c) + i] = t[i]
  <2>1. c \in Seq(S) /\ t \in Seq(S)
    BY <1>1, <1>2
  <2> QED
    BY <2>1, <1>0, Joined
<1>5. Len(q) = Len(p) /\ Len(q) \in Nat
  BY <1>1, <1>2, <1>3, <1>4
<1>6. ASSUME NEW i \in 1..Len(q) PROVE q[i] = p[i]
  <2>1. CASE i <= Len(a)
    BY <1>1, <1>2, <1>3, <1>4, <2>1
  <2>2. CASE i = Len(a) + 1
    <3>1. i \in 1..Len(c) /\ q[i] = c[i] /\ c[i] = h
      BY <1>2, <1>4, <2>2
    <3>2. 1 \in 1..Len(b) /\ p[Len(a) + 1] = b[1]
      BY <1>1, <1>3
    <3> QED
      BY <1>1, <2>2, <3>1, <3>2
  <2>3. CASE i > Len(a) + 1
    <3> DEFINE k == i - Len(c)
    <3>1. k \in 1..Len(t) /\ k + 1 \in 1..Len(b) /\ Len(c) + k = i /\ Len(a) + (k + 1) = i
      BY <1>1, <1>2, <1>4, <2>3
    <3> HIDE DEF k
    <3>2. q[i] = t[k] /\ t[k] = b[k + 1] /\ p[i] = b[k + 1]
      BY <1>1, <1>3, <1>4, <3>1
    <3> QED
      BY <3>2
  <2>4. Len(a) \in Nat
    BY <1>2
  <2> QED
    BY <2>1, <2>2, <2>3, <2>4
<1>7. Len(q) + 0 <= Len(p) /\ \A i \in 1..Len(q) : i + 0 = i
  BY <1>5
<1> QED
  BY <1>6, <1>7 DEF From, q, c, t, p, h

\* The host takes the first frame of its buffer.
LEMMA TakeSeq ==
    ASSUME NEW S, NEW a \in Seq(S), NEW b \in Seq(S), a # <<>>
    PROVE  /\ From(Tail(a) \o b, a \o b, 1)
           /\ Len(Tail(a) \o b) = Len(a \o b) - 1
           /\ Len(a \o b) >= 1 /\ (a \o b)[1] = Head(a)
<1> DEFINE t == Tail(a)
           p == a \o b
           q == t \o b
<1>0. q = t \o b
  OBVIOUS
<1>1. /\ Head(a) = a[1] /\ t \in Seq(S) /\ Len(a) \in Nat /\ Len(a) >= 1
      /\ Len(t) = Len(a) - 1 /\ \A i \in 1..Len(t) : t[i] = a[i + 1]
  BY TailIs
<1> HIDE DEF t
<1>2. /\ p \in Seq(S) /\ Len(p) = Len(a) + Len(b) /\ Len(b) \in Nat
      /\ \A i \in 1..Len(a) : p[i] = a[i]
      /\ \A i \in 1..Len(b) : p[Len(a) + i] = b[i]
  BY Joined, LenNat
<1> HIDE DEF p, q
<1>3. /\ q \in Seq(S) /\ Len(q) = Len(t) + Len(b)
      /\ \A i \in 1..Len(t) : q[i] = t[i]
      /\ \A i \in 1..Len(b) : q[Len(t) + i] = b[i]
  <2>1. t \in Seq(S)
    BY <1>1
  <2> QED
    BY <2>1, <1>0, Joined
<1>4. ASSUME NEW i \in 1..Len(q) PROVE q[i] = p[i + 1]
  <2>1. CASE i <= Len(t)
    <3>1. i \in 1..Len(t) /\ i + 1 \in 1..Len(a)
      BY <1>1, <2>1
    <3> QED
      BY <1>1, <1>2, <1>3, <3>1
  <2>2. CASE ~(i <= Len(t))
    <3> DEFINE k == i - Len(t)
    <3>1. k \in 1..Len(b) /\ Len(t) + k = i /\ Len(a) + k = i + 1
      BY <1>1, <1>2, <1>3, <2>2
    <3> HIDE DEF k
    <3>2. q[i] = b[k] /\ p[i + 1] = b[k]
      BY <1>2, <1>3, <3>1
    <3> QED
      BY <3>2
  <2> QED
    BY <2>1, <2>2
<1>5. Len(q) = Len(p) - 1 /\ Len(q) + 1 <= Len(p) /\ Len(p) >= 1 /\ 1 \in 1..Len(a)
  BY <1>1, <1>2, <1>3
<1>6. p[1] = Head(a)
  BY <1>1, <1>2, <1>5
<1> QED
  BY <1>4, <1>5, <1>6 DEF From, q, p, t

\* A flush keeps what is still on the wire; a reset what is in the host's buffers.
LEMMA FlushSeq ==
    ASSUME NEW S, NEW a \in Seq(S), NEW b \in Seq(S)
    PROVE  /\ Len(a) \in Nat /\ From(<<>> \o b, a \o b, Len(a))
           /\ From(a \o <<>>, a \o b, 0)
<1> DEFINE p == a \o b
<1>1. <<>> \o b = b /\ a \o <<>> = a
  BY ConcatEmptySeq, Zenon
<1>2. /\ p \in Seq(S) /\ Len(p) = Len(a) + Len(b) /\ Len(b) \in Nat /\ Len(a) \in Nat
      /\ \A i \in 1..Len(a) : p[i] = a[i]
      /\ \A i \in 1..Len(b) : p[Len(a) + i] = b[i]
  BY Joined, LenNat
<1> HIDE DEF p
<1>3. From(b, p, Len(a))
  <2>1. \A i \in 1..Len(b) : Len(a) + i = i + Len(a)
    BY <1>2
  <2> QED
    BY <1>2, <2>1 DEF From
<1>4. From(a, p, 0)
  BY <1>2 DEF From
<1> QED
  BY <1>1, <1>2, <1>3, <1>4, Zenon DEF p

\* The device answers.
LEMMA ServeSeq ==
    ASSUME NEW S, NEW a \in Seq(S), NEW b \in Seq(S), NEW c \in Seq(S)
    PROVE  Behind(a \o (b \o c), a \o b, c)
<1> DEFINE p == a \o b
           r == p \o c
<1>1. a \o (b \o c) = r
  BY ConcatAssociative
<1>2. p \in Seq(S)
  BY Joined
<1> HIDE DEF p
<1>3. Behind(r, p, c)
  BY <1>2, Joined DEF Behind
<1> QED
  BY <1>1, <1>3, Zenon DEF p

-----------------------------------------------------------------------------
(***************************************************************************)
(* The three facts about what is under way, one frame at a time.           *)
(***************************************************************************)
LEMMA FrameFacts ==
    ASSUME NEW f \in Frames
    PROVE  /\ f.type \in {"OK", "ERROR", "ENTRY", "STATUS", "IDENTITY", "DONE", "ADVERT"}
           /\ f.type = "ADVERT" => f.ts \in Nat
           /\ f.type = "DONE" => f.total \in Nat
  BY DEF Frames

LEMMA StampedFrom ==
    ASSUME NEW p \in Seq(Frames), NEW q \in Seq(Frames), NEW off \in Nat, From(q, p, off),
           NEW cs \in Seq(Nat), NEW last \in Nat, Stamped(p, cs, last)
    PROVE  Stamped(q, cs, last)
<1>1. Len(q) \in Nat /\ Len(p) \in Nat /\ Len(q) + off <= Len(p)
  BY DEF From
<1>2. ASSUME NEW i \in 1..Len(q) PROVE i + off \in 1..Len(p) /\ q[i] = p[i + off]
  BY <1>1 DEF From
<1>3. ASSUME NEW i \in 1..Len(q), q[i].type = "ADVERT"
      PROVE  /\ q[i].ts <= last
             /\ \A k \in 1..Len(cs) : cs[k] < q[i].ts
             /\ \A j \in 1..Len(q) : i < j /\ q[j].type = "ADVERT" => q[i].ts < q[j].ts
  <2>1. i + off \in 1..Len(p) /\ q[i] = p[i + off]
    BY <1>2
  <2>2. q[i].ts <= last /\ \A k \in 1..Len(cs) : cs[k] < q[i].ts
    BY <1>3, <2>1 DEF Stamped
  <2>3. ASSUME NEW j \in 1..Len(q), i < j, q[j].type = "ADVERT" PROVE q[i].ts < q[j].ts
    <3>1. j + off \in 1..Len(p) /\ q[j] = p[j + off] /\ i + off < j + off
      BY <1>1, <1>2, <2>3
    <3> QED
      BY <1>3, <2>1, <2>3, <3>1 DEF Stamped
  <2> QED
    BY <2>2, <2>3
<1> QED
  BY <1>3 DEF Stamped

\* The host is given the card at the head.
LEMMA StampedTake ==
    ASSUME NEW p \in Seq(Frames), NEW q \in Seq(Frames), From(q, p, 1), Len(p) >= 1,
           NEW cs \in Seq(Nat), NEW last \in Nat, Stamped(p, cs, last), p[1].type = "ADVERT"
    PROVE  Stamped(q, Append(cs, p[1].ts), last)
<1> DEFINE t == p[1].ts
           ds == Append(cs, t)
<1>1. Len(q) \in Nat /\ Len(p) \in Nat /\ Len(q) + 1 <= Len(p) /\ Len(cs) \in Nat
  BY DEF From
<1>2. t \in Nat /\ t <= last /\ \A k \in 1..Len(cs) : cs[k] < t
  <2>1. 1 \in 1..Len(p) /\ p[1] \in Frames
    BY <1>1
  <2> QED
    BY <2>1, FrameFacts DEF Stamped
<1>3. /\ ds \in Seq(Nat) /\ Len(ds) = Len(cs) + 1
      /\ \A i \in 1..Len(cs) : ds[i] = cs[i]
      /\ ds[Len(cs) + 1] = t
  BY <1>2, AppendIs
<1>4. Stamped(q, cs, last)
  BY StampedFrom
<1>5. ASSUME NEW i \in 1..Len(q), q[i].type = "ADVERT" PROVE t < q[i].ts
  <2>1. i + 1 \in 1..Len(p) /\ q[i] = p[i + 1] /\ 1 < i + 1 /\ 1 \in 1..Len(p)
    BY <1>1 DEF From
  <2> QED
    BY <1>5, <2>1 DEF Stamped
<1> HIDE DEF t, ds
<1>6. ASSUME NEW i \in 1..Len(ds), NEW j \in 1..Len(ds), i < j PROVE ds[i] < ds[j]
  <2>1. i \in 1..Len(cs) /\ ds[i] = cs[i]
    BY <1>1, <1>3, <1>6
  <2>2. CASE j \in 1..Len(cs)
    BY <1>3, <1>4, <1>6, <2>1, <2>2 DEF Stamped
  <2>3. CASE j = Len(cs) + 1
    BY <1>2, <1>3, <2>1, <2>3
  <2> QED
    BY <1>1, <1>3, <2>2, <2>3
<1>7. ASSUME NEW i \in 1..Len(ds)
      PROVE  /\ ds[i] <= last
             /\ \A k \in 1..Len(q) : q[k].type = "ADVERT" => ds[i] < q[k].ts
  <2>1. CASE i \in 1..Len(cs)
    BY <1>3, <1>4, <2>1 DEF Stamped
  <2>2. CASE i = Len(cs) + 1
    BY <1>2, <1>3, <1>5, <2>2
  <2> QED
    BY <1>1, <1>3, <2>1, <2>2
<1>8. Stamped(q, ds, last)
  BY <1>4, <1>6, <1>7 DEF Stamped
<1> QED
  BY <1>8 DEF ds, t

\* An answer that is no card.
LEMMA StampedOther ==
    ASSUME NEW p \in Seq(Frames), NEW q \in Seq(Frames), NEW a \in Seq(Frames), Behind(q, p, a),
           \A i \in 1..Len(a) : a[i].type # "ADVERT",
           NEW cs \in Seq(Nat), NEW last \in Nat, Stamped(p, cs, last)
    PROVE  Stamped(q, cs, last)
<1>1. Len(q) = Len(p) + Len(a) /\ Len(p) \in Nat /\ Len(a) \in Nat
  BY DEF Behind
<1>2. ASSUME NEW i \in 1..Len(q), q[i].type = "ADVERT"
      PROVE  i \in 1..Len(p) /\ q[i] = p[i]
  <2>1. CASE i \in 1..Len(p)
    BY <2>1 DEF Behind
  <2>2. CASE i \notin 1..Len(p)
    <3>1. i - Len(p) \in 1..Len(a) /\ Len(p) + (i - Len(p)) = i
      BY <1>1, <2>2
    <3>2. q[i] = a[i - Len(p)]
      BY <3>1 DEF Behind
    <3> QED
      BY <1>2, <3>1, <3>2
  <2> QED
    BY <2>1, <2>2
<1> QED
  BY <1>2 DEF Stamped

\* A card stamped after every one before it.
LEMMA StampedCard ==
    ASSUME NEW p \in Seq(Frames), NEW q \in Seq(Frames), NEW f \in Frames,
           Behind(q, p, <<f>>), f.type = "ADVERT",
           NEW cs \in Seq(Nat), NEW last \in Nat, Stamped(p, cs, last), last < f.ts
    PROVE  Stamped(q, cs, f.ts)
<1> DEFINE t == f.ts
<1>1. t \in Nat /\ last < t
  BY FrameFacts
<1>2. Len(q) = Len(p) + 1 /\ Len(p) \in Nat /\ q[Len(p) + 1] = f
  <2>1. Len(<<f>>) = 1 /\ <<f>>[1] = f /\ 1 \in 1..Len(<<f>>)
    OBVIOUS
  <2> QED
    BY <2>1 DEF Behind
<1>3. \A i \in 1..Len(p) : q[i] = p[i]
  BY DEF Behind
<1>4. \A i \in 1..Len(cs) : cs[i] <= last /\ cs[i] < t /\ cs[i] \in Nat
  <2>1. \A i \in 1..Len(cs) : cs[i] <= last /\ cs[i] \in Nat
    BY DEF Stamped
  <2> QED
    BY <1>1, <2>1
<1>5. ASSUME NEW i \in 1..Len(p), p[i].type = "ADVERT" PROVE p[i].ts <= last /\ p[i].ts < t
  <2>1. p[i] \in Frames /\ p[i].ts <= last
    BY <1>5 DEF Stamped
  <2>2. p[i].ts \in Nat
    BY <1>5, <2>1, FrameFacts
  <2> QED
    BY <1>1, <2>1, <2>2
<1> HIDE DEF t
<1>6. ASSUME NEW i \in 1..Len(q), q[i].type = "ADVERT"
      PROVE  /\ q[i].ts <= t
             /\ \A k \in 1..Len(cs) : cs[k] < q[i].ts
             /\ \A j \in 1..Len(q) : i < j /\ q[j].type = "ADVERT" => q[i].ts < q[j].ts
  <2>1. CASE i \in 1..Len(p)
    <3>1. q[i] = p[i] /\ q[i].ts < t /\ q[i].ts <= last
      BY <1>3, <1>5, <1>6, <2>1
    <3>2. \A k \in 1..Len(cs) : cs[k] < q[i].ts
      BY <1>6, <2>1, <3>1 DEF Stamped
    <3>3. ASSUME NEW j \in 1..Len(q), i < j, q[j].type = "ADVERT" PROVE q[i].ts < q[j].ts
      <4>1. CASE j \in 1..Len(p)
        BY <1>3, <1>6, <2>1, <3>1, <3>3, <4>1 DEF Stamped
      <4>2. CASE j = Len(p) + 1
        BY <1>2, <3>1, <4>2 DEF t
      <4> QED
        BY <1>2, <4>1, <4>2
    <3>4. q[i].ts <= t
      <4>1. q[i] \in Frames
        BY <1>6
      <4>2. q[i].ts \in Nat
        BY <1>6, <4>1, FrameFacts
      <4> QED
        BY <1>1, <3>1, <4>2
    <3> QED
      BY <3>2, <3>3, <3>4
  <2>2. CASE i = Len(p) + 1
    <3>1. q[i].ts = t
      BY <1>2, <2>2 DEF t
    <3>2. \A j \in 1..Len(q) : ~(i < j)
      BY <1>2, <2>2
    <3> QED
      BY <1>1, <1>4, <3>1, <3>2
  <2> QED
    BY <1>2, <2>1, <2>2
<1>7. \A i \in 1..Len(cs) : cs[i] <= t
  BY <1>1, <1>4
<1> QED
  BY <1>6, <1>7 DEF Stamped, t

-----------------------------------------------------------------------------
\* Edits and their acknowledgements.
LEMMA OkFrom ==
    ASSUME NEW p \in Seq(Frames), NEW q \in Seq(Frames), NEW off \in Nat, From(q, p, off), OkIn(q)
    PROVE  OkIn(p)
<1>1. PICK i \in 1..Len(q) : q[i].type = "OK"
  BY DEF OkIn
<1>2. i + off \in 1..Len(p) /\ q[i] = p[i + off]
  BY DEF From
<1> QED
  BY <1>1, <1>2 DEF OkIn

LEMMA EditsFrom ==
    ASSUME NEW p \in Seq(Frames), NEW q \in Seq(Frames), NEW off \in Nat, From(q, p, off),
           NEW td, NEW id, EditsOne(p, td, id)
    PROVE  EditsOne(q, td, id)
<1>1. OkIn(q) => OkIn(p)
  BY OkFrom
<1>2. ASSUME NEW i \in 1..Len(q), NEW j \in 1..Len(q), q[i].type = "OK", q[j].type = "OK"
      PROVE  i = j
  <2>1. i + off \in 1..Len(p) /\ q[i] = p[i + off] /\ j + off \in 1..Len(p) /\ q[j] = p[j + off]
    BY DEF From
  <2>2. i + off = j + off
    BY <1>2, <2>1 DEF EditsOne
  <2> QED
    BY <2>2
<1> QED
  BY <1>1, <1>2 DEF EditsOne

LEMMA EditsNone ==
    ASSUME NEW p, NEW td, NEW id, ~EditIn(td), ~OkIn(p)
    PROVE  EditsOne(p, td, id)
  BY DEF EditsOne, EditIn, OkIn

LEMMA EditsTaken ==
    ASSUME NEW p \in Seq(Frames), NEW q \in Seq(Frames), From(q, p, 1), Len(p) >= 1,
           NEW td, NEW id, EditsOne(p, td, id), p[1].type = "OK"
    PROVE  ~OkIn(q) /\ ~EditIn(td)
<1>1. 1 \in 1..Len(p) /\ OkIn(p)
  BY DEF OkIn
<1>2. ~EditIn(td)
  BY <1>1 DEF EditsOne, EditIn
<1>3. ASSUME NEW i \in 1..Len(q), q[i].type = "OK" PROVE FALSE
  <2>1. i + 1 \in 1..Len(p) /\ q[i] = p[i + 1] /\ i + 1 # 1
    BY DEF From
  <2> QED
    BY <1>1, <1>3, <2>1 DEF EditsOne
<1> QED
  BY <1>2, <1>3 DEF OkIn

LEMMA EditTail ==
    ASSUME NEW td \in Seq(Requests), td # <<>>
    PROVE  /\ EditIn(Tail(td)) => EditIn(td)
           /\ AskedIn(Tail(td)) => AskedIn(td)
           /\ IsEdit(Head(td).cmd) => EditIn(td)
           /\ Head(td).cmd.kind = "list" => AskedIn(td)
<1>1. /\ Head(td) = td[1] /\ Len(td) \in Nat /\ Len(td) >= 1 /\ Len(Tail(td)) = Len(td) - 1
      /\ \A i \in 1..Len(Tail(td)) : Tail(td)[i] = td[i + 1]
  BY TailIs
<1>2. \A i \in 1..Len(Tail(td)) : i + 1 \in 1..Len(td)
  BY <1>1
<1>3. 1 \in 1..Len(td)
  BY <1>1
<1> QED
  BY <1>1, <1>2, <1>3 DEF EditIn, AskedIn

LEMMA EditsTail ==
    ASSUME NEW td \in Seq(Requests), td # <<>>, NEW p, NEW id, EditsOne(p, td, id)
    PROVE  /\ EditsOne(p, Tail(td), id)
           /\ IsEdit(Head(td).cmd) => ~EditIn(Tail(td)) /\ ~OkIn(p) /\ Head(td).id = id
<1>1. /\ Head(td) = td[1] /\ Len(td) \in Nat /\ Len(td) >= 1 /\ Len(Tail(td)) = Len(td) - 1
      /\ \A i \in 1..Len(Tail(td)) : Tail(td)[i] = td[i + 1]
  BY TailIs
<1>2. \A i \in 1..Len(Tail(td)) : i + 1 \in 1..Len(td) /\ i + 1 # 1
  BY <1>1
<1>3. 1 \in 1..Len(td)
  BY <1>1
<1>4. ASSUME IsEdit(Head(td).cmd) PROVE ~EditIn(Tail(td)) /\ ~OkIn(p) /\ Head(td).id = id
  BY <1>1, <1>2, <1>3, <1>4 DEF EditsOne, EditIn
<1>5. ASSUME NEW i \in 1..Len(Tail(td)), IsEdit(Tail(td)[i].cmd)
      PROVE  /\ Tail(td)[i].id = id /\ ~OkIn(p)
             /\ \A j \in 1..Len(Tail(td)) : IsEdit(Tail(td)[j].cmd) => i = j
  <2>1. i + 1 \in 1..Len(td) /\ Tail(td)[i] = td[i + 1]
    BY <1>1, <1>2
  <2>2. Tail(td)[i].id = id /\ ~OkIn(p)
    BY <1>5, <2>1 DEF EditsOne
  <2>3. ASSUME NEW j \in 1..Len(Tail(td)), IsEdit(Tail(td)[j].cmd) PROVE i = j
    <3>1. j + 1 \in 1..Len(td) /\ Tail(td)[j] = td[j + 1]
      BY <1>1, <1>2
    <3>2. i + 1 = j + 1
      BY <1>5, <2>1, <2>3, <3>1 DEF EditsOne
    <3> QED
      BY <3>2
  <2> QED
    BY <2>2, <2>3
<1> QED
  BY <1>4, <1>5 DEF EditsOne

LEMMA OkOther ==
    ASSUME NEW p \in Seq(Frames), NEW q \in Seq(Frames), NEW a \in Seq(Frames), Behind(q, p, a),
           \A i \in 1..Len(a) : a[i].type # "OK",
           NEW td, NEW id, EditsOne(p, td, id)
    PROVE  EditsOne(q, td, id) /\ (OkIn(q) => OkIn(p))
<1>1. Len(q) = Len(p) + Len(a) /\ Len(p) \in Nat /\ Len(a) \in Nat
  BY DEF Behind
<1>2. ASSUME NEW i \in 1..Len(q), q[i].type = "OK"
      PROVE  i \in 1..Len(p) /\ q[i] = p[i]
  <2>1. CASE i \in 1..Len(p)
    BY <2>1 DEF Behind
  <2>2. CASE i \notin 1..Len(p)
    <3>1. i - Len(p) \in 1..Len(a) /\ Len(p) + (i - Len(p)) = i
      BY <1>1, <2>2
    <3>2. q[i] = a[i - Len(p)]
      BY <3>1 DEF Behind
    <3> QED
      BY <1>2, <3>1, <3>2
  <2> QED
    BY <2>1, <2>2
<1>3. OkIn(q) => OkIn(p)
  BY <1>2 DEF OkIn
<1> QED
  BY <1>2, <1>3 DEF EditsOne

LEMMA OkBehind ==
    ASSUME NEW p \in Seq(Frames), NEW q \in Seq(Frames), NEW f \in Frames, Behind(q, p, <<f>>),
           ~OkIn(p), NEW td, NEW id, ~EditIn(td)
    PROVE  EditsOne(q, td, id)
<1>1. Len(q) = Len(p) + 1 /\ Len(p) \in Nat /\ \A i \in 1..Len(p) : q[i] = p[i]
  <2>1. Len(<<f>>) = 1
    OBVIOUS
  <2> QED
    BY <2>1 DEF Behind
<1>2. \A i \in 1..Len(q) : q[i].type = "OK" => i = Len(p) + 1
  BY <1>1 DEF OkIn
<1> QED
  BY <1>1, <1>2 DEF EditsOne, EditIn

\* A request goes out while none of its kind is under way.
LEMMA SentIn ==
    ASSUME NEW td \in Seq(Requests), NEW r \in Requests
    PROVE  /\ EditIn(Append(td, r)) => EditIn(td) \/ IsEdit(r.cmd)
           /\ AskedIn(Append(td, r)) => AskedIn(td) \/ r.cmd.kind = "list"
<1>1. /\ Len(Append(td, r)) = Len(td) + 1 /\ Len(td) \in Nat
      /\ \A i \in 1..Len(td) : Append(td, r)[i] = td[i]
      /\ Append(td, r)[Len(td) + 1] = r
  BY AppendIs
<1>2. \A i \in 1..Len(Append(td, r)) : i \in 1..Len(td) \/ i = Len(td) + 1
  BY <1>1
<1> QED
  BY <1>1, <1>2 DEF EditIn, AskedIn

LEMMA EditSent ==
    ASSUME NEW td \in Seq(Requests), NEW r \in Requests, ~EditIn(td), NEW p, ~OkIn(p)
    PROVE  EditsOne(p, Append(td, r), r.id)
<1>1. /\ Len(Append(td, r)) = Len(td) + 1 /\ Len(td) \in Nat
      /\ \A i \in 1..Len(td) : Append(td, r)[i] = td[i]
      /\ Append(td, r)[Len(td) + 1] = r
  BY AppendIs
<1>2. \A i \in 1..Len(Append(td, r)) : i \in 1..Len(td) \/ i = Len(td) + 1
  BY <1>1
<1>3. \A i \in 1..Len(Append(td, r)) : IsEdit(Append(td, r)[i].cmd) => i = Len(td) + 1
  BY <1>1, <1>2 DEF EditIn
<1> QED
  BY <1>1, <1>3 DEF EditsOne, OkIn

-----------------------------------------------------------------------------
\* Listings and their answers.
LEMMA ListFrom ==
    ASSUME NEW p \in Seq(Frames), NEW q \in Seq(Frames), NEW off \in Nat, From(q, p, off), ListIn(q)
    PROVE  ListIn(p)
<1>1. PICK i \in 1..Len(q) : IsList(q[i])
  BY DEF ListIn
<1>2. i + off \in 1..Len(p) /\ q[i] = p[i + off]
  BY DEF From
<1> QED
  BY <1>1, <1>2 DEF ListIn

LEMMA ListsFrom ==
    ASSUME NEW p \in Seq(Frames), NEW q \in Seq(Frames), From(q, p, 0),
           NEW td, NEW had, ListsOne(p, td, had)
    PROVE  ListsOne(q, td, had)
<1>1. ListIn(q) => ListIn(p)
  BY ListFrom
<1>2. \A i \in 1..Len(q) : i \in 1..Len(p) /\ q[i] = p[i]
  BY DEF From
<1> QED
  BY <1>1, <1>2 DEF ListsOne

LEMMA ListsNone ==
    ASSUME NEW p, NEW td, NEW had, ~AskedIn(td), ~ListIn(p)
    PROVE  ListsOne(p, td, had)
  BY DEF ListsOne, AskedIn, ListIn, IsList

LEMMA ListsTakeOther ==
    ASSUME NEW p \in Seq(Frames), NEW q \in Seq(Frames), From(q, p, 1), Len(q) = Len(p) - 1,
           Len(p) >= 1,
           NEW td, NEW had \in Nat, ListsOne(p, td, had), ~IsList(p[1])
    PROVE  ListsOne(q, td, had)
<1>1. ListIn(q) => ListIn(p)
  BY ListFrom
<1>2. Len(p) \in Nat /\ \A i \in 1..Len(q) : i + 1 \in 1..Len(p) /\ q[i] = p[i + 1]
  BY DEF From
<1>3. ASSUME NEW n \in 1..Len(q), q[n].type = "DONE"
      PROVE  /\ had <= q[n].total /\ q[n].total - had < n
             /\ \A i \in 1..Len(q) :
                   /\ q[i].type = "DONE" => i = n
                   /\ q[i].type = "ENTRY" <=> n - (q[n].total - had) <= i /\ i < n
  <2> DEFINE m == q[n].total - had
  <2>1. n + 1 \in 1..Len(p) /\ q[n] = p[n + 1] /\ q[n] \in Frames
    BY <1>2
  <2>2. q[n].total \in Nat
    BY <1>3, <2>1, FrameFacts
  <2>3. /\ had <= q[n].total /\ m < n + 1
        /\ \A i \in 1..Len(p) :
                   /\ p[i].type = "DONE" => i = n + 1
                   /\ p[i].type = "ENTRY" <=> (n + 1) - m <= i /\ i < n + 1
    BY <1>3, <2>1 DEF ListsOne
  <2>4. m \in Nat
    BY <2>2, <2>3
  <2> HIDE DEF m
  <2>5. m < n
    <3>1. 1 \in 1..Len(p) /\ p[1].type # "ENTRY"
      BY <1>2 DEF IsList
    <3>2. ~((n + 1) - m <= 1 /\ 1 < n + 1)
      BY <2>3, <3>1
    <3> QED
      BY <2>4, <3>2
  <2>6. ASSUME NEW i \in 1..Len(q)
        PROVE  /\ q[i].type = "DONE" => i = n
               /\ q[i].type = "ENTRY" <=> n - m <= i /\ i < n
    <3>1. i + 1 \in 1..Len(p) /\ q[i] = p[i + 1]
      BY <1>2
    <3>2. /\ q[i].type = "DONE" => i + 1 = n + 1
          /\ q[i].type = "ENTRY" <=> (n + 1) - m <= i + 1 /\ i + 1 < n + 1
      BY <2>3, <3>1
    <3> QED
      BY <2>4, <3>2
  <2> QED
    BY <2>3, <2>5, <2>6 DEF m
<1> QED
  BY <1>1, <1>3 DEF ListsOne

LEMMA ListsTakeEntry ==
    ASSUME NEW p \in Seq(Frames), NEW q \in Seq(Frames), From(q, p, 1), Len(q) = Len(p) - 1,
           Len(p) >= 1,
           NEW td, NEW had \in Nat, ListsOne(p, td, had), p[1].type = "ENTRY"
    PROVE  ListsOne(q, td, had + 1)
<1>1. ListIn(p) /\ 1 \in 1..Len(p)
  BY DEF ListIn, IsList
<1>2. \A i \in 1..Len(td) : td[i].cmd.kind # "list"
  BY <1>1 DEF ListsOne
<1>3. Len(p) \in Nat /\ \A i \in 1..Len(q) : i + 1 \in 1..Len(p) /\ q[i] = p[i + 1]
  BY DEF From
<1>4. ASSUME NEW n \in 1..Len(q), q[n].type = "DONE"
      PROVE  /\ had + 1 <= q[n].total /\ q[n].total - (had + 1) < n
             /\ \A i \in 1..Len(q) :
                   /\ q[i].type = "DONE" => i = n
                   /\ q[i].type = "ENTRY" <=> n - (q[n].total - (had + 1)) <= i /\ i < n
  <2> DEFINE t == q[n].total
  <2>1. n + 1 \in 1..Len(p) /\ q[n] = p[n + 1] /\ q[n] \in Frames
    BY <1>3
  <2>2. t \in Nat
    BY <1>4, <2>1, FrameFacts
  <2>3. /\ had <= t /\ t - had < n + 1
        /\ \A i \in 1..Len(p) :
                   /\ p[i].type = "DONE" => i = n + 1
                   /\ p[i].type = "ENTRY" <=> (n + 1) - (t - had) <= i /\ i < n + 1
    BY <1>4, <2>1 DEF ListsOne
  <2> HIDE DEF t
  <2>4. (n + 1) - (t - had) <= 1
    BY <1>1, <2>3
  <2>5. had + 1 <= t /\ t - (had + 1) < n
    BY <2>2, <2>3, <2>4
  <2>6. ASSUME NEW i \in 1..Len(q)
        PROVE  /\ q[i].type = "DONE" => i = n
               /\ q[i].type = "ENTRY" <=> n - (t - (had + 1)) <= i /\ i < n
    <3>1. i + 1 \in 1..Len(p) /\ q[i] = p[i + 1]
      BY <1>3
    <3>2. /\ q[i].type = "DONE" => i + 1 = n + 1
          /\ q[i].type = "ENTRY" <=> (n + 1) - (t - had) <= i + 1 /\ i + 1 < n + 1
      BY <2>3, <3>1
    <3>3. (n + 1) - (t - had) = 1
      BY <2>2, <2>3, <2>4
    <3>4. n - (t - (had + 1)) = 1 /\ 1 <= i + 1 /\ 1 <= i
      BY <2>2, <3>3
    <3> QED
      BY <3>2, <3>3, <3>4
  <2> QED
    BY <2>5, <2>6 DEF t
<1> QED
  BY <1>2, <1>4 DEF ListsOne

LEMMA ListsTakeDone ==
    ASSUME NEW p \in Seq(Frames), NEW q \in Seq(Frames), From(q, p, 1), Len(q) = Len(p) - 1,
           Len(p) >= 1,
           NEW td, NEW had \in Nat, ListsOne(p, td, had), p[1].type = "DONE"
    PROVE  had = p[1].total /\ ~ListIn(q) /\ ~AskedIn(td)
<1>1. ListIn(p) /\ 1 \in 1..Len(p) /\ p[1] \in Frames
  BY DEF ListIn, IsList
<1>2. ~AskedIn(td)
  BY <1>1 DEF ListsOne, AskedIn
<1>3. p[1].total \in Nat
  BY <1>1, FrameFacts
<1>4. /\ had <= p[1].total /\ p[1].total - had < 1
      /\ \A i \in 1..Len(p) :
            /\ p[i].type = "DONE" => i = 1
            /\ p[i].type = "ENTRY" <=> 1 - (p[1].total - had) <= i /\ i < 1
  BY <1>1 DEF ListsOne
<1>5. had = p[1].total
  BY <1>3, <1>4
<1>6. ASSUME NEW i \in 1..Len(q), IsList(q[i]) PROVE FALSE
  <2>1. i + 1 \in 1..Len(p) /\ q[i] = p[i + 1] /\ i + 1 # 1 /\ ~(i + 1 < 1)
    BY DEF From
  <2>2. q[i].type # "DONE" /\ q[i].type # "ENTRY"
    BY <1>4, <2>1
  <2> QED
    BY <1>6, <2>2 DEF IsList
<1> QED
  BY <1>2, <1>5, <1>6 DEF ListIn

LEMMA ListsTail ==
    ASSUME NEW td \in Seq(Requests), td # <<>>, NEW p, NEW had, ListsOne(p, td, had)
    PROVE  /\ ListsOne(p, Tail(td), had)
           /\ Head(td).cmd.kind = "list" => ~AskedIn(Tail(td)) /\ ~ListIn(p) /\ had = 0
<1>1. /\ Head(td) = td[1] /\ Len(td) \in Nat /\ Len(td) >= 1 /\ Len(Tail(td)) = Len(td) - 1
      /\ \A i \in 1..Len(Tail(td)) : Tail(td)[i] = td[i + 1]
  BY TailIs
<1>2. \A i \in 1..Len(Tail(td)) : i + 1 \in 1..Len(td) /\ i + 1 # 1
  BY <1>1
<1>3. 1 \in 1..Len(td)
  BY <1>1
<1>4. ASSUME Head(td).cmd.kind = "list" PROVE ~AskedIn(Tail(td)) /\ ~ListIn(p) /\ had = 0
  BY <1>1, <1>2, <1>3, <1>4 DEF ListsOne, AskedIn
<1>5. ASSUME NEW i \in 1..Len(Tail(td)), Tail(td)[i].cmd.kind = "list"
      PROVE  /\ had = 0 /\ ~ListIn(p)
             /\ \A j \in 1..Len(Tail(td)) : Tail(td)[j].cmd.kind = "list" => i = j
  <2>1. i + 1 \in 1..Len(td) /\ Tail(td)[i] = td[i + 1]
    BY <1>1, <1>2
  <2>2. had = 0 /\ ~ListIn(p)
    BY <1>5, <2>1 DEF ListsOne
  <2>3. ASSUME NEW j \in 1..Len(Tail(td)), Tail(td)[j].cmd.kind = "list" PROVE i = j
    <3>1. j + 1 \in 1..Len(td) /\ Tail(td)[j] = td[j + 1]
      BY <1>1, <1>2
    <3>2. i + 1 = j + 1
      BY <1>5, <2>1, <2>3, <3>1 DEF ListsOne
    <3> QED
      BY <3>2
  <2> QED
    BY <2>2, <2>3
<1> QED
  BY <1>4, <1>5 DEF ListsOne

LEMMA ListOther ==
    ASSUME NEW p \in Seq(Frames), NEW q \in Seq(Frames), NEW a \in Seq(Frames), Behind(q, p, a),
           \A i \in 1..Len(a) : ~IsList(a[i])
    PROVE  /\ ListIn(q) => ListIn(p)
           /\ \A td, had : ListsOne(p, td, had) => ListsOne(q, td, had)
<1>1. Len(q) = Len(p) + Len(a) /\ Len(p) \in Nat /\ Len(a) \in Nat
  BY DEF Behind
<1>2. ASSUME NEW i \in 1..Len(q), i \notin 1..Len(p)
      PROVE  ~IsList(q[i]) /\ i > Len(p)
  <2>1. i - Len(p) \in 1..Len(a) /\ Len(p) + (i - Len(p)) = i
    BY <1>1, <1>2
  <2>2. q[i] = a[i - Len(p)]
    BY <2>1 DEF Behind
  <2> QED
    BY <1>1, <1>2, <2>1, <2>2
<1>3. \A i \in 1..Len(p) : i \in 1..Len(q) /\ q[i] = p[i]
  BY <1>1 DEF Behind
<1>4. ListIn(q) => ListIn(p)
  BY <1>2, <1>3 DEF ListIn
<1>5. ASSUME NEW td, NEW had, ListsOne(p, td, had),
             NEW n \in 1..Len(q), q[n].type = "DONE"
      PROVE  /\ had <= q[n].total /\ q[n].total - had < n
             /\ \A i \in 1..Len(q) :
                   /\ q[i].type = "DONE" => i = n
                   /\ q[i].type = "ENTRY" <=> n - (q[n].total - had) <= i /\ i < n
  <2>1. n \in 1..Len(p) /\ q[n] = p[n]
    BY <1>2, <1>3, <1>5 DEF IsList
  <2>2. /\ had <= q[n].total /\ q[n].total - had < n
        /\ \A i \in 1..Len(p) :
                   /\ p[i].type = "DONE" => i = n
                   /\ p[i].type = "ENTRY" <=> n - (q[n].total - had) <= i /\ i < n
    BY <1>5, <2>1 DEF ListsOne
  <2>3. ASSUME NEW i \in 1..Len(q)
        PROVE  /\ q[i].type = "DONE" => i = n
               /\ q[i].type = "ENTRY" <=> n - (q[n].total - had) <= i /\ i < n
    <3>1. CASE i \in 1..Len(p)
      BY <1>3, <2>2, <3>1
    <3>2. CASE i \notin 1..Len(p)
      <4>1. ~IsList(q[i]) /\ ~(i < n)
        BY <1>1, <1>2, <2>1, <3>2
      <4> QED
        BY <4>1 DEF IsList
    <3> QED
      BY <3>1, <3>2
  <2> QED
    BY <2>2, <2>3
<1>6. ASSUME NEW td, NEW had, ListsOne(p, td, had) PROVE ListsOne(q, td, had)
  BY <1>4, <1>5, <1>6 DEF ListsOne
<1> QED
  BY <1>4, <1>6

\* The whole answer to a listing is written at once.
LEMMA ListBehind ==
    ASSUME NEW p \in Seq(Frames), NEW q \in Seq(Frames), NEW a \in Seq(Frames), Behind(q, p, a),
           NEW k \in Nat, Len(a) = k + 1, \A i \in 1..k : a[i].type = "ENTRY",
           a[k + 1].type = "DONE", a[k + 1].total = k,
           ~ListIn(p), NEW td, ~AskedIn(td)
    PROVE  ListsOne(q, td, 0)
<1> DEFINE m == Len(p) + (k + 1)
<1>1. Len(q) = m /\ Len(p) \in Nat
  BY DEF Behind
<1>2. ASSUME NEW i \in 1..Len(q)
      PROVE  \/ i \in 1..Len(p) /\ ~IsList(q[i])
             \/ i > Len(p) /\ i < m /\ q[i].type = "ENTRY"
             \/ i = m /\ q[i].type = "DONE" /\ q[i].total = k
  <2>1. CASE i \in 1..Len(p)
    <3>1. q[i] = p[i]
      BY <2>1 DEF Behind
    <3> QED
      BY <2>1, <3>1 DEF ListIn
  <2>2. CASE i \notin 1..Len(p)
    <3>1. i - Len(p) \in 1..Len(a) /\ Len(p) + (i - Len(p)) = i /\ i > Len(p)
      BY <1>1, <2>2
    <3>2. q[i] = a[i - Len(p)]
      BY <3>1 DEF Behind
    <3>3. CASE i - Len(p) = k + 1
      BY <1>1, <3>1, <3>2, <3>3
    <3>4. CASE i - Len(p) \in 1..k
      BY <1>1, <3>1, <3>2, <3>4
    <3> QED
      BY <3>1, <3>3, <3>4
  <2> QED
    BY <2>1, <2>2
<1>3. ASSUME NEW n \in 1..Len(q), q[n].type = "DONE"
      PROVE  /\ 0 <= q[n].total /\ q[n].total - 0 < n
             /\ \A i \in 1..Len(q) :
                   /\ q[i].type = "DONE" => i = n
                   /\ q[i].type = "ENTRY" <=> n - (q[n].total - 0) <= i /\ i < n
  <2>1. n = m /\ q[n].total = k
    BY <1>2, <1>3 DEF IsList
  <2>2. n - (q[n].total - 0) = Len(p) + 1 /\ q[n].total - 0 < n
    BY <1>1, <2>1
  <2>3. ASSUME NEW i \in 1..Len(q)
        PROVE  /\ q[i].type = "DONE" => i = n
               /\ q[i].type = "ENTRY" <=> Len(p) + 1 <= i /\ i < n
    <3>1. CASE i \in 1..Len(p) /\ ~IsList(q[i])
      BY <1>1, <3>1 DEF IsList
    <3>2. CASE i > Len(p) /\ i < m /\ q[i].type = "ENTRY"
      BY <1>1, <2>1, <3>2
    <3>3. CASE i = m /\ q[i].type = "DONE"
      BY <1>1, <2>1, <3>3
    <3> QED
      BY <1>2, <3>1, <3>2, <3>3
  <2> QED
    BY <2>1, <2>2, <2>3
<1> QED
  BY <1>3 DEF ListsOne, AskedIn

LEMMA ListSent ==
    ASSUME NEW td \in Seq(Requests), NEW r \in Requests, ~AskedIn(td), NEW p, ~ListIn(p)
    PROVE  ListsOne(p, Append(td, r), 0)
<1>1. /\ Len(Append(td, r)) = Len(td) + 1 /\ Len(td) \in Nat
      /\ \A i \in 1..Len(td) : Append(td, r)[i] = td[i]
      /\ Append(td, r)[Len(td) + 1] = r
  BY AppendIs
<1>2. \A i \in 1..Len(Append(td, r)) : i \in 1..Len(td) \/ i = Len(td) + 1
  BY <1>1
<1>3. \A i \in 1..Len(Append(td, r)) : Append(td, r)[i].cmd.kind = "list" => i = Len(td) + 1
  BY <1>1, <1>2 DEF AskedIn
<1> QED
  BY <1>1, <1>3 DEF ListsOne, ListIn, IsList

-----------------------------------------------------------------------------
(***************************************************************************)
(* Commands, answers and the host.                                         *)
(***************************************************************************)
LEMMA CommandFacts ==
    ASSUME NEW c \in Commands
    PROVE  /\ c.kind \in {"add", "del", "list", "status", "advert"}
           /\ IsEdit(c) => c.item \in Items
           /\ c.kind = "advert" => c.clock \in Nat
  BY HostLinkAssumption DEF Commands, IsEdit

LEMMA DoubtfulFacts ==
    ASSUME NEW c \in Commands
    PROVE  /\ Doubtful(c) \subseteq {"edit", "list"}
           /\ "edit" \in Doubtful(c) <=> IsEdit(c)
           /\ "list" \in Doubtful(c) <=> c.kind = "list"
  BY CommandFacts DEF Doubtful, IsEdit

LEMMA IdleFacts == Idle.phase = "idle" /\ Idle \notin Hosts
<1>1. Idle.phase = "idle"
  BY DEF Idle
<1>2. \A h \in Hosts : h.phase # "idle"
  BY DEF Hosts
<1> QED
  BY <1>1, <1>2

LEMMA HostFacts ==
    ASSUME NEW h, h = Idle \/ h \in Hosts, h.phase # "idle"
    PROVE  /\ h \in Hosts /\ h # Idle /\ h.phase \in {"wait", "again", "second", "stream"}
           /\ h.cmd \in Commands /\ h.got \in Nat
           /\ h.sends \in 1..MaxSends /\ h.stray \in 0..MaxStray
<1>1. h \in Hosts /\ h # Idle
  BY IdleFacts
<1> QED
  BY <1>1 DEF Hosts

LEMMA BusyFacts ==
    ASSUME NEW c \in Commands
    PROVE  /\ Busy(c) \in Hosts /\ Busy(c).phase = "wait" /\ Busy(c).cmd = c /\ Busy(c).got = 0
  BY HostLinkAssumption DEF Busy, Hosts

LEMMA PipeType ==
    ASSUME WireInv
    PROVE  Pipe \in Seq(Frames) /\ inbox \in Seq(Frames) /\ toHost \in Seq(Frames)
  BY Joined DEF WireInv, Pipe

LEMMA CardAnswer ==
    ASSUME NEW clock \in Nat, NEW last \in Nat
    PROVE  NextAdvertTimestamp(clock, last) \in Nat /\ last < NextAdvertTimestamp(clock, last)
  BY DEF NextAdvertTimestamp

LEMMA FrameIs ==
    /\ \A t \in {"OK", "ERROR", "ENTRY", "STATUS", "IDENTITY"} : Frame(t) \in Frames /\ Frame(t).type = t
    /\ \A n \in Nat : /\ [type |-> "DONE", total |-> n] \in Frames
                      /\ [type |-> "ADVERT", ts |-> n] \in Frames
  BY DEF Frame, Frames

LEMMA OneFrame ==
    ASSUME NEW f \in Frames
    PROVE  <<f>> \in Seq(Frames) /\ Len(<<f>>) = 1 /\ \A i \in 1..Len(<<f>>) : <<f>>[i] = f
  OBVIOUS

\* What the device writes back, by the kind of the command.
LEMMA AnswerRefused ==
    ASSUME NEW c, ~Accepts(c), NEW a, a = Answer(c)
    PROVE  a \in Seq(Frames) /\ \A i \in 1..Len(a) : a[i].type = "ERROR"
<1> DEFINE f == Frame("ERROR")
<1>1. a = <<f>>
  <2>1. c.kind \in {"add", "del"}
    BY DEF Accepts
  <2> QED
    BY <2>1 DEF Answer
<1>2. f \in Frames /\ f.type = "ERROR"
  BY FrameIs
<1> HIDE DEF f
<1> QED
  BY <1>1, <1>2, OneFrame

LEMMA AnswerEdit ==
    ASSUME NEW c, Accepts(c), IsEdit(c), NEW a, a = Answer(c)
    PROVE  a = <<Frame("OK")>> /\ a \in Seq(Frames) /\ \A i \in 1..Len(a) : a[i].type = "OK"
<1> DEFINE f == Frame("OK")
<1>1. a = <<f>>
  <2>1. c.kind \in {"add", "del"}
    BY DEF IsEdit
  <2> QED
    BY <2>1 DEF Answer
<1>2. f \in Frames /\ f.type = "OK"
  BY FrameIs
<1> HIDE DEF f
<1>3. a \in Seq(Frames) /\ \A i \in 1..Len(a) : a[i].type = "OK"
  BY <1>1, <1>2, OneFrame
<1> QED
  BY <1>1, <1>3 DEF f

LEMMA AnswerStatus ==
    ASSUME NEW c, c.kind = "status", NEW a, a = Answer(c)
    PROVE  a \in Seq(Frames) /\ \A i \in 1..Len(a) : a[i].type \in {"STATUS", "IDENTITY"}
<1> DEFINE f == Frame("STATUS")
           g == Frame("IDENTITY")
<1>1. Accepts(c) /\ ~IsEdit(c)
  BY DEF Accepts, IsEdit
<1>2. a = <<f, g>>
  BY <1>1 DEF Answer
<1>3. f \in Frames /\ f.type = "STATUS" /\ g \in Frames /\ g.type = "IDENTITY"
  BY FrameIs
<1> HIDE DEF f, g
<1>4. a \in Seq(Frames) /\ Len(a) = 2 /\ a[1] = f /\ a[2] = g
  BY <1>2, <1>3
<1>5. \A i \in 1..Len(a) : i = 1 \/ i = 2
  BY <1>4
<1> QED
  BY <1>3, <1>4, <1>5

LEMMA AnswerCard ==
    ASSUME NEW c, c.kind = "advert", NEW a, a = Answer(c), NEW t, t = NextAdvertTimestamp(c.clock, lastTs)
    PROVE  a = <<[type |-> "ADVERT", ts |-> t]>>
<1>1. Accepts(c) /\ ~IsEdit(c)
  BY DEF Accepts, IsEdit
<1> QED
  BY <1>1 DEF Answer

LEMMA AnswerList ==
    ASSUME NEW c, c.kind = "list", items \in Seq(Items), NEW a, a = Answer(c)
    PROVE  /\ a \in Seq(Frames) /\ Len(items) \in Nat /\ Len(a) = Len(items) + 1
           /\ \A i \in 1..Len(items) : a[i].type = "ENTRY"
           /\ a[Len(items) + 1].type = "DONE" /\ a[Len(items) + 1].total = Len(items)
<1> DEFINE n == Len(items)
           e == Frame("ENTRY")
           d == [type |-> "DONE", total |-> n]
<1>1. Accepts(c) /\ ~IsEdit(c) /\ n \in Nat
  BY DEF Accepts, IsEdit
<1>2. a = [i \in 1..(n + 1) |-> IF i <= n THEN e ELSE d]
  BY <1>1 DEF Answer
<1>3. e \in Frames /\ e.type = "ENTRY" /\ d \in Frames /\ d.type = "DONE" /\ d.total = n
  BY <1>1, FrameIs
<1> HIDE DEF n, e, d
<1>4. a \in Seq(Frames) /\ Len(a) = n + 1
  BY <1>1, <1>2, <1>3
<1>5. \A i \in 1..n : a[i] = e
  BY <1>1, <1>2
<1>6. a[n + 1] = d
  BY <1>1, <1>2
<1> QED
  BY <1>1, <1>3, <1>4, <1>5, <1>6 DEF n

LEMMA AnswerFacts ==
    ASSUME WireInv, NEW c \in Commands, NEW a, a = Answer(c)
    PROVE  /\ a \in Seq(Frames)
           /\ c.kind # "advert" => \A i \in 1..Len(a) : a[i].type # "ADVERT"
           /\ ~(IsEdit(c) /\ Accepts(c)) => \A i \in 1..Len(a) : a[i].type # "OK"
           /\ c.kind # "list" => \A i \in 1..Len(a) : ~IsList(a[i])
<1>1. CASE ~Accepts(c)
  <2>1. a \in Seq(Frames) /\ \A i \in 1..Len(a) : a[i].type = "ERROR"
    BY <1>1, AnswerRefused
  <2> QED
    BY <2>1 DEF IsList
<1>2. CASE Accepts(c) /\ IsEdit(c)
  <2>1. a \in Seq(Frames) /\ \A i \in 1..Len(a) : a[i].type = "OK"
    BY <1>2, AnswerEdit
  <2> QED
    BY <1>2, <2>1 DEF IsList
<1>3. CASE c.kind = "status"
  <2>1. a \in Seq(Frames) /\ \A i \in 1..Len(a) : a[i].type \in {"STATUS", "IDENTITY"}
    BY <1>3, AnswerStatus
  <2> QED
    BY <2>1 DEF IsList
<1>4. CASE c.kind = "advert"
  <2> DEFINE t == NextAdvertTimestamp(c.clock, lastTs)
             f == [type |-> "ADVERT", ts |-> t]
  <2>1. t \in Nat
    BY <1>4, CommandFacts, CardAnswer DEF WireInv
  <2>2. a = <<f>>
    BY <1>4, AnswerCard
  <2> HIDE DEF t
  <2>3. f \in Frames /\ f.type = "ADVERT"
    BY <2>1, FrameIs
  <2> HIDE DEF f
  <2>4. a \in Seq(Frames) /\ \A i \in 1..Len(a) : a[i].type = "ADVERT"
    BY <2>2, <2>3, OneFrame
  <2> QED
    BY <1>4, <2>4 DEF IsList
<1>5. CASE c.kind = "list"
  <2>1. /\ a \in Seq(Frames) /\ Len(items) \in Nat /\ Len(a) = Len(items) + 1
        /\ \A i \in 1..Len(items) : a[i].type = "ENTRY"
        /\ a[Len(items) + 1].type = "DONE"
    BY <1>5, AnswerList DEF WireInv
  <2>2. \A i \in 1..Len(a) : a[i].type \in {"ENTRY", "DONE"}
    BY <2>1
  <2> QED
    BY <1>5, <2>1, <2>2
<1> QED
  BY <1>1, <1>2, <1>3, <1>4, <1>5, CommandFacts DEF IsEdit

\* The device's list.
LEMMA RemovedSeq ==
    ASSUME NEW S, NEW s \in Seq(S), NEW i \in 1..Len(s)
    PROVE  RemoveAt(s, i) \in Seq(S) /\ Len(RemoveAt(s, i)) = Len(s) - 1
<1> DEFINE a == SubSeq(s, 1, i - 1)
           b == SubSeq(s, i + 1, Len(s))
           q == a \o b
<1>1. a \in Seq(S) /\ Len(a) = i - 1 /\ b \in Seq(S) /\ Len(b) = Len(s) - i /\ Len(s) \in Nat
  OBVIOUS
<1>2. RemoveAt(s, i) = q
  BY DEF RemoveAt
<1>3. q = a \o b
  OBVIOUS
<1> HIDE DEF a, b, q
<1>4. q \in Seq(S) /\ Len(q) = Len(a) + Len(b)
  <2>1. a \in Seq(S) /\ b \in Seq(S)
    BY <1>1
  <2> QED
    BY <1>3, <2>1, Joined
<1> QED
  BY <1>1, <1>2, <1>4

LEMMA FirstAt ==
    ASSUME items \in Seq(Items), NEW x, Known(x)
    PROVE  \E i \in 1..Len(items) : items[i] = x /\ \A j \in 1..(i - 1) : items[j] # x
<1> DEFINE A == {i \in 1..Len(items) : items[i] = x}
<1>1. A \in SUBSET Nat /\ A # {}
  BY DEF Known
<1>2. PICK i \in A : \A j \in A : <<j, i>> \notin OpToRel(<, Nat)
  BY <1>1, NatLessThanWellFounded, WFMin
<1>3. \A j \in A : ~(j < i)
  BY <1>1, <1>2 DEF OpToRel
<1> QED
  BY <1>3

LEMMA WithoutFacts ==
    ASSUME items \in Seq(Items), NEW x, Known(x)
    PROVE  Without(x) \in Seq(Items) /\ Len(Without(x)) = Len(items) - 1
<1> DEFINE k == CHOOSE i \in 1..Len(items) : items[i] = x /\ \A j \in 1..(i - 1) : items[j] # x
<1>1. k \in 1..Len(items)
  BY FirstAt
<1>2. Without(x) = RemoveAt(items, k)
  BY DEF Without
<1> HIDE DEF k
<1> QED
  BY <1>1, <1>2, RemovedSeq

-----------------------------------------------------------------------------
(***************************************************************************)
(* The steps of the host.                                                  *)
(***************************************************************************)
LEMMA EditQuiet ==
    ASSUME LinkIInv, "edit" \notin resent, ~Editing
    PROVE  ~EditIn(toDev) /\ ~OkIn(Pipe) /\ ~unearned
  BY Zenon DEF LinkIInv, EditInv

LEMMA ListQuiet ==
    ASSUME LinkIInv, "list" \notin resent, ~Listing
    PROVE  ~AskedIn(toDev) /\ ~ListIn(Pipe) /\ whole
  BY Zenon DEF LinkIInv, ListInv

LEMMA EditQuietNext ==
    ASSUME ~EditIn(toDev'), ~OkIn(Pipe'), ~unearned'
    PROVE  EditInv'
<1>1. EditsOne(Pipe', toDev', issued')
  BY EditsNone
<1> QED
  BY <1>1, Zenon DEF EditInv

LEMMA ListQuietNext ==
    ASSUME ~AskedIn(toDev'), ~ListIn(Pipe'), whole'
    PROVE  ListInv'
<1>1. ListsOne(Pipe', toDev', host'.got)
  BY ListsNone
<1> QED
  BY <1>1, Zenon DEF ListInv

\* The command in hand is given up, or sent again: what is left of it is in doubt.
LEMMA GivenUp ==
    ASSUME LinkIInv, Pipe' \in Seq(Frames), NEW off \in Nat, From(Pipe', Pipe, off), toDev' = toDev,
           host.phase # "idle", resent' = resent \cup Doubtful(host.cmd),
           unearned' = unearned, whole' = whole
    PROVE  EditInv' /\ ListInv'
<1>1. Pipe \in Seq(Frames)
  BY PipeType DEF LinkIInv
<1>2. host.cmd \in Commands
  BY HostFacts DEF LinkIInv, HostInv
<1>3. /\ "edit" \in Doubtful(host.cmd) <=> IsEdit(host.cmd)
      /\ "list" \in Doubtful(host.cmd) <=> host.cmd.kind = "list"
  BY <1>2, DoubtfulFacts
<1>4. EditInv'
  <2>1. CASE "edit" \in resent'
    BY <2>1, Zenon DEF EditInv
  <2>2. CASE "edit" \notin resent'
    <3>1. "edit" \notin resent /\ ~Editing
      BY <1>3, <2>2 DEF Editing
    <3>2. ~EditIn(toDev) /\ ~OkIn(Pipe) /\ ~unearned
      BY <3>1, EditQuiet
    <3>3. ~OkIn(Pipe')
      BY <1>1, <3>2, OkFrom
    <3> QED
      BY <3>2, <3>3, EditQuietNext, Zenon
  <2> QED
    BY <2>1, <2>2
<1>5. ListInv'
  <2>1. CASE "list" \in resent'
    BY <2>1, Zenon DEF ListInv
  <2>2. CASE "list" \notin resent'
    <3>1. "list" \notin resent /\ ~Listing
      BY <1>3, <2>2 DEF Listing
    <3>2. ~AskedIn(toDev) /\ ~ListIn(Pipe) /\ whole
      BY <3>1, ListQuiet
    <3>3. ~ListIn(Pipe')
      BY <1>1, <3>2, ListFrom
    <3> QED
      BY <3>2, <3>3, ListQuietNext, Zenon
  <2> QED
    BY <2>1, <2>2
<1> QED
  BY <1>4, <1>5

LEMMA SameCards ==
    ASSUME LinkIInv, Pipe' \in Seq(Frames), NEW off \in Nat, From(Pipe', Pipe, off),
           cards' = cards, lastTs' = lastTs
    PROVE  CardInv'
<1>1. Pipe \in Seq(Frames) /\ cards \in Seq(Nat) /\ lastTs \in Nat /\ Stamped(Pipe, cards, lastTs)
  BY PipeType DEF LinkIInv, WireInv, CardInv
<1>2. Stamped(Pipe', cards, lastTs)
  BY <1>1, StampedFrom
<1> QED
  BY <1>2 DEF CardInv

LEMMA SamePipe ==
    ASSUME WireInv, inbox' = inbox, toHost' = toHost
    PROVE  Pipe' \in Seq(Frames) /\ From(Pipe', Pipe, 0)
<1>1. Pipe' = Pipe /\ Pipe \in Seq(Frames)
  BY PipeType DEF Pipe
<1>2. From(Pipe, Pipe, 0)
  <2> DEFINE p == Pipe
  <2>1. p \in Seq(Frames)
    BY <1>1
  <2> HIDE DEF p
  <2>2. From(p, p, 0)
    BY <2>1 DEF From
  <2> QED
    BY <2>2 DEF p
<1> QED
  BY <1>1, <1>2

LEMMA TakenPipe ==
    ASSUME WireInv, inbox # <<>>, inbox' = Tail(inbox), toHost' = toHost
    PROVE  /\ Pipe \in Seq(Frames) /\ Pipe' \in Seq(Frames) /\ From(Pipe', Pipe, 1)
           /\ Len(Pipe') = Len(Pipe) - 1 /\ Len(Pipe) >= 1 /\ Pipe[1] = Head(inbox)
           /\ inbox' \in Seq(Frames)
<1>1. inbox \in Seq(Frames) /\ toHost \in Seq(Frames) /\ Pipe \in Seq(Frames)
  BY PipeType
<1>2. Tail(inbox) \in Seq(Frames)
  BY <1>1
<1>3. Pipe' = Tail(inbox) \o toHost /\ Pipe = inbox \o toHost
  BY DEF Pipe
<1>4. Pipe' \in Seq(Frames)
  BY <1>1, <1>2, <1>3, Joined
<1>5. /\ From(Tail(inbox) \o toHost, inbox \o toHost, 1)
      /\ Len(Tail(inbox) \o toHost) = Len(inbox \o toHost) - 1
      /\ Len(inbox \o toHost) >= 1 /\ (inbox \o toHost)[1] = Head(inbox)
  BY <1>1, TakeSeq
<1> QED
  BY <1>1, <1>2, <1>3, <1>4, <1>5, Zenon

LEMMA FlushedPipe ==
    ASSUME WireInv, inbox' = <<>>, toHost' = toHost
    PROVE  /\ Pipe' \in Seq(Frames) /\ inbox' \in Seq(Frames)
           /\ \E off \in Nat : From(Pipe', Pipe, off)
<1>1. inbox \in Seq(Frames) /\ toHost \in Seq(Frames)
  BY PipeType
<1>2. Pipe' = <<>> \o toHost /\ Pipe = inbox \o toHost /\ <<>> \o toHost = toHost
  BY <1>1, ConcatEmptySeq DEF Pipe
<1>3. Len(inbox) \in Nat /\ From(<<>> \o toHost, inbox \o toHost, Len(inbox))
  BY <1>1, FlushSeq
<1>4. inbox' \in Seq(Frames) /\ Pipe' \in Seq(Frames)
  BY <1>1, <1>2
<1> QED
  BY <1>2, <1>3, <1>4, Zenon

\* A request is sent, or lost on its way, while nothing of its kind is under way.
LEMMA Sent ==
    ASSUME WireInv, NEW c \in Commands, NEW id \in Nat, SendFrame(c, id)
    PROVE  /\ toDev' \in Seq(Requests)
           /\ EditIn(toDev') => EditIn(toDev) \/ IsEdit(c)
           /\ AskedIn(toDev') => AskedIn(toDev) \/ c.kind = "list"
           /\ \A p : ~EditIn(toDev) /\ ~OkIn(p) => EditsOne(p, toDev', id)
           /\ \A p : ~AskedIn(toDev) /\ ~ListIn(p) => ListsOne(p, toDev', 0)
<1> DEFINE r == [cmd |-> c, id |-> id]
<1>1. toDev \in Seq(Requests)
  BY DEF WireInv
<1>2. r \in Requests /\ r.cmd = c /\ r.id = id
  BY DEF Requests
<1>3. toDev' = Append(toDev, r) \/ toDev' = toDev
  BY DEF SendFrame
<1> HIDE DEF r
<1>4. CASE toDev' = toDev
  BY <1>1, <1>4, EditsNone, ListsNone
<1>5. CASE toDev' = Append(toDev, r)
  <2>1. Append(toDev, r) \in Seq(Requests)
    BY <1>1, <1>2, AppendIs
  <2>2. /\ EditIn(Append(toDev, r)) => EditIn(toDev) \/ IsEdit(c)
        /\ AskedIn(Append(toDev, r)) => AskedIn(toDev) \/ c.kind = "list"
    BY <1>1, <1>2, SentIn
  <2>3. \A p : ~EditIn(toDev) /\ ~OkIn(p) => EditsOne(p, Append(toDev, r), id)
    BY <1>1, <1>2, EditSent
  <2>4. \A p : ~AskedIn(toDev) /\ ~ListIn(p) => ListsOne(p, Append(toDev, r), 0)
    BY <1>1, <1>2, ListSent
  <2> QED
    BY <1>5, <2>1, <2>2, <2>3, <2>4, Zenon
<1> QED
  BY <1>3, <1>4, <1>5

LEMMA IssueKeeps ==
    ASSUME LinkIInv, NEW c \in Commands, Issue(c)
    PROVE  LinkIInv'
<1>1. WireInv /\ HostInv
  BY DEF LinkIInv
<1>2. /\ host = Idle /\ issued' = issued + 1 /\ host' = Busy(c) /\ applied' = FALSE
      /\ inbox' = <<>> \/ inbox' = inbox
      /\ SendFrame(c, issued + 1)
      /\ toHost' = toHost /\ items' = items /\ lastTs' = lastTs /\ unearned' = unearned
      /\ resent' = resent /\ whole' = whole /\ cards' = cards
  BY DEF Issue
<1>3. issued + 1 \in Nat
  BY <1>1 DEF WireInv
<1>4. /\ toDev' \in Seq(Requests)
      /\ EditIn(toDev') => EditIn(toDev) \/ IsEdit(c)
      /\ AskedIn(toDev') => AskedIn(toDev) \/ c.kind = "list"
      /\ \A p : ~EditIn(toDev) /\ ~OkIn(p) => EditsOne(p, toDev', issued + 1)
      /\ \A p : ~AskedIn(toDev) /\ ~ListIn(p) => ListsOne(p, toDev', 0)
  BY <1>1, <1>2, <1>3, Sent
<1>5. Pipe' \in Seq(Frames) /\ inbox' \in Seq(Frames) /\ \E off \in Nat : From(Pipe', Pipe, off)
  <2>1. CASE inbox' = <<>>
    BY <1>1, <1>2, <2>1, FlushedPipe
  <2>2. CASE inbox' = inbox
    BY <1>1, <1>2, <2>2, SamePipe, PipeType
  <2> QED
    BY <1>2, <2>1, <2>2
<1>6. PICK off \in Nat : From(Pipe', Pipe, off)
  BY <1>5
<1>7. Pipe \in Seq(Frames)
  BY <1>1, PipeType
<1>8. WireInv'
  BY <1>1, <1>2, <1>3, <1>4, <1>5 DEF WireInv
<1>9. /\ host' \in Hosts /\ host'.phase = "wait" /\ host'.cmd = c /\ host'.got = 0
  BY <1>2, BusyFacts
<1>10. HostInv'
  BY <1>9 DEF HostInv
<1>11. CardInv'
  BY <1>2, <1>5, <1>6, SameCards
<1>12. ~Editing /\ ~Listing
  BY <1>2, IdleFacts DEF Editing, Listing
<1>13. EditInv'
  <2>1. CASE "edit" \in resent
    BY <1>2, <2>1, Zenon DEF EditInv
  <2>2. CASE "edit" \notin resent
    <3>1. ~EditIn(toDev) /\ ~OkIn(Pipe) /\ ~unearned
      BY <1>12, <2>2, EditQuiet
    <3>2. ~OkIn(Pipe')
      BY <1>5, <1>6, <1>7, <3>1, OkFrom
    <3>3. EditsOne(Pipe', toDev', issued')
      BY <1>2, <1>4, <3>1, <3>2, Zenon
    <3>4. EditIn(toDev') => Editing'
      BY <1>4, <1>9, <3>1, Zenon DEF Editing
    <3> QED
      BY <1>2, <3>1, <3>2, <3>3, <3>4, Zenon DEF EditInv
  <2> QED
    BY <2>1, <2>2
<1>14. ListInv'
  <2>1. CASE "list" \in resent
    BY <1>2, <2>1, Zenon DEF ListInv
  <2>2. CASE "list" \notin resent
    <3>1. ~AskedIn(toDev) /\ ~ListIn(Pipe) /\ whole
      BY <1>12, <2>2, ListQuiet
    <3>2. ~ListIn(Pipe')
      BY <1>5, <1>6, <1>7, <3>1, ListFrom
    <3>3. ListsOne(Pipe', toDev', host'.got)
      BY <1>4, <1>9, <3>1, <3>2, Zenon
    <3>4. AskedIn(toDev') => Listing'
      BY <1>4, <1>9, <3>1 DEF Listing
    <3> QED
      BY <1>2, <3>1, <3>2, <3>3, <3>4, Zenon DEF ListInv
  <2> QED
    BY <2>1, <2>2
<1> QED
  BY <1>8, <1>10, <1>11, <1>13, <1>14, Zenon DEF LinkIInv

LEMMA ResendKeeps ==
    ASSUME LinkIInv, Resend
    PROVE  LinkIInv'
<1>1. WireInv /\ HostInv
  BY DEF LinkIInv
<1>2. /\ host.phase = "again"
      /\ inbox' = <<>> \/ inbox' = inbox
      /\ SendFrame(host.cmd, issued)
      /\ host' = [host EXCEPT !.phase = "wait", !.sends = @ + 1, !.stray = 0]
      /\ toHost' = toHost /\ items' = items /\ lastTs' = lastTs /\ unearned' = unearned
      /\ resent' = resent /\ whole' = whole /\ cards' = cards /\ issued' = issued
      /\ applied' = applied
  BY DEF Resend, devVars
<1>3. /\ host \in Hosts /\ host.cmd \in Commands /\ host.got \in Nat /\ host # Idle
      /\ host.sends < MaxSends
  BY <1>1, <1>2, HostFacts DEF HostInv
<1>4. /\ toDev' \in Seq(Requests)
      /\ EditIn(toDev') => EditIn(toDev) \/ IsEdit(host.cmd)
      /\ AskedIn(toDev') => AskedIn(toDev) \/ host.cmd.kind = "list"
  BY <1>1, <1>2, <1>3, Sent DEF WireInv
<1>5. Pipe' \in Seq(Frames) /\ inbox' \in Seq(Frames) /\ \E off \in Nat : From(Pipe', Pipe, off)
  <2>1. CASE inbox' = <<>>
    BY <1>1, <1>2, <2>1, FlushedPipe
  <2>2. CASE inbox' = inbox
    BY <1>1, <1>2, <2>2, SamePipe, PipeType
  <2> QED
    BY <1>2, <2>1, <2>2
<1>6. PICK off \in Nat : From(Pipe', Pipe, off)
  BY <1>5
<1>7. Pipe \in Seq(Frames)
  BY <1>1, PipeType
<1>8. WireInv'
  BY <1>1, <1>2, <1>4, <1>5 DEF WireInv
<1>9. host' \in Hosts /\ host'.phase = "wait"
  <2>1. host.sends + 1 \in 1..MaxSends /\ 0 \in 0..MaxStray
    BY <1>3, HostLinkAssumption DEF Hosts
  <2> QED
    BY <1>2, <1>3, <2>1 DEF Hosts
<1>10. HostInv'
  BY <1>9 DEF HostInv
<1>11. CardInv'
  BY <1>2, <1>5, <1>6, SameCards
<1>12. /\ ~Editing /\ ~Listing
       /\ IsEdit(host.cmd) => "edit" \in resent
       /\ host.cmd.kind = "list" => "list" \in resent
  BY <1>1, <1>2, <1>3, DoubtfulFacts DEF Editing, Listing, HostInv
<1>13. EditInv'
  <2>1. CASE "edit" \in resent
    BY <1>2, <2>1, Zenon DEF EditInv
  <2>2. CASE "edit" \notin resent
    <3>1. ~EditIn(toDev) /\ ~OkIn(Pipe) /\ ~unearned
      BY <1>12, <2>2, EditQuiet
    <3>2. ~OkIn(Pipe')
      BY <1>5, <1>6, <1>7, <3>1, OkFrom
    <3> QED
      BY <1>2, <1>4, <1>12, <2>2, <3>1, <3>2, EditQuietNext, Zenon
  <2> QED
    BY <2>1, <2>2
<1>14. ListInv'
  <2>1. CASE "list" \in resent
    BY <1>2, <2>1, Zenon DEF ListInv
  <2>2. CASE "list" \notin resent
    <3>1. ~AskedIn(toDev) /\ ~ListIn(Pipe) /\ whole
      BY <1>12, <2>2, ListQuiet
    <3>2. ~ListIn(Pipe')
      BY <1>5, <1>6, <1>7, <3>1, ListFrom
    <3> QED
      BY <1>2, <1>4, <1>12, <2>2, <3>1, <3>2, ListQuietNext, Zenon
  <2> QED
    BY <2>1, <2>2
<1> QED
  BY <1>8, <1>10, <1>11, <1>13, <1>14, Zenon DEF LinkIInv

LEMMA TimesOutKeeps ==
    ASSUME LinkIInv, TimesOut \/ LaterTimesOut
    PROVE  LinkIInv'
<1>1. WireInv /\ HostInv
  BY DEF LinkIInv
<1>2. /\ host.phase \in {"wait", "second", "stream"}
      /\ resent' = resent \cup Doubtful(host.cmd)
      /\ \/ host' = Idle
         \/ host.sends < MaxSends /\ host' = [host EXCEPT !.phase = "again"]
      /\ inbox' = inbox /\ toHost' = toHost /\ toDev' = toDev
      /\ items' = items /\ lastTs' = lastTs /\ unearned' = unearned
      /\ whole' = whole /\ cards' = cards /\ issued' = issued /\ applied' = applied
  BY DEF TimesOut, LaterTimesOut, devVars, wireVars
<1>3. host.phase # "idle"
  BY <1>2
<1>4. host \in Hosts /\ host.cmd \in Commands
  BY <1>1, <1>3, HostFacts DEF HostInv
<1>5. Doubtful(host.cmd) \subseteq {"edit", "list"}
  BY <1>4, DoubtfulFacts
<1>6. WireInv'
  BY <1>1, <1>2, <1>5 DEF WireInv
<1>7. Pipe' \in Seq(Frames) /\ From(Pipe', Pipe, 0)
  BY <1>1, <1>2, SamePipe
<1>8. EditInv' /\ ListInv'
  BY <1>2, <1>3, <1>7, GivenUp
<1>9. CardInv'
  BY <1>2, <1>7, SameCards
<1>10. HostInv'
  <2>1. CASE host' = Idle
    BY <2>1, IdleFacts DEF HostInv
  <2>2. CASE host.sends < MaxSends /\ host' = [host EXCEPT !.phase = "again"]
    <3>1. /\ host' \in Hosts /\ host'.phase = "again" /\ host'.cmd = host.cmd
          /\ host'.sends = host.sends
      BY <1>4, <2>2 DEF Hosts
    <3> QED
      BY <1>2, <2>2, <3>1 DEF HostInv
  <2> QED
    BY <1>2, <2>1, <2>2
<1> QED
  BY <1>6, <1>8, <1>9, <1>10, Zenon DEF LinkIInv

\* What every frame the host takes leaves alone.
TakeFrame ==
    /\ inbox # <<>> /\ inbox' = Tail(inbox) /\ toHost' = toHost /\ toDev' = toDev
    /\ items' = items /\ lastTs' = lastTs /\ applied' = applied /\ issued' = issued

LEMMA TakeWire ==
    ASSUME LinkIInv, TakeFrame, resent' \in SUBSET {"edit", "list"}, cards' \in Seq(Nat),
           unearned' \in BOOLEAN, whole' \in BOOLEAN
    PROVE  WireInv'
<1>1. WireInv
  BY DEF LinkIInv
<1>2. inbox' \in Seq(Frames)
  BY <1>1, TakenPipe DEF TakeFrame
<1> QED
  BY <1>1, <1>2 DEF WireInv, TakeFrame

LEMMA TakePipe ==
    ASSUME LinkIInv, TakeFrame
    PROVE  /\ Pipe \in Seq(Frames) /\ Pipe' \in Seq(Frames) /\ From(Pipe', Pipe, 1)
           /\ Len(Pipe') = Len(Pipe) - 1 /\ Len(Pipe) >= 1 /\ Pipe[1] = Head(inbox)
  BY TakenPipe DEF LinkIInv, TakeFrame

\* The command fails.
LEMMA FailKeeps ==
    ASSUME LinkIInv, TakeFrame, host.phase # "idle", Fail
    PROVE  LinkIInv'
<1>1. WireInv /\ HostInv
  BY DEF LinkIInv
<1>2. /\ host' = Idle /\ resent' = resent \cup Doubtful(host.cmd)
      /\ unearned' = unearned /\ whole' = whole /\ cards' = cards
  BY DEF Fail
<1>3. host.cmd \in Commands
  BY <1>1, HostFacts DEF HostInv
<1>4. Doubtful(host.cmd) \subseteq {"edit", "list"}
  BY <1>3, DoubtfulFacts
<1>5. WireInv'
  BY <1>1, <1>2, <1>4, TakeWire DEF WireInv
<1>6. Pipe' \in Seq(Frames) /\ From(Pipe', Pipe, 1)
  BY TakePipe
<1>7. EditInv' /\ ListInv'
  BY <1>2, <1>6, GivenUp DEF TakeFrame
<1>8. CardInv'
  BY <1>2, <1>6, SameCards DEF TakeFrame
<1>9. HostInv'
  BY <1>2, IdleFacts DEF HostInv
<1> QED
  BY <1>5, <1>7, <1>8, <1>9, Zenon DEF LinkIInv

\* A frame that is not the acknowledgement of an edit is taken for what it is, and the
\* host goes on with an edit only if it had one.
LEMMA EditPasses ==
    ASSUME LinkIInv, TakeFrame, resent' = resent, unearned' = unearned,
           Editing => Editing'
    PROVE  EditInv'
<1>1. /\ Pipe \in Seq(Frames) /\ Pipe' \in Seq(Frames) /\ From(Pipe', Pipe, 1)
  BY TakePipe
<1>2. CASE "edit" \in resent
  BY <1>2, Zenon DEF EditInv
<1>3. CASE "edit" \notin resent /\ ~Editing
  <2>1. ~EditIn(toDev) /\ ~OkIn(Pipe) /\ ~unearned
    BY <1>3, EditQuiet
  <2>2. ~OkIn(Pipe')
    BY <1>1, <2>1, OkFrom
  <2> QED
    BY <2>1, <2>2, EditQuietNext, Zenon DEF TakeFrame
<1>4. CASE "edit" \notin resent /\ Editing /\ Editing'
  <2>1. EditsOne(Pipe, toDev, issued) /\ (OkIn(Pipe) => applied) /\ ~unearned
    BY <1>4, Zenon DEF LinkIInv, EditInv
  <2>2. EditsOne(Pipe', toDev, issued)
    BY <1>1, <2>1, EditsFrom
  <2>3. OkIn(Pipe') => OkIn(Pipe)
    BY <1>1, OkFrom
  <2> QED
    BY <1>4, <2>1, <2>2, <2>3, Zenon DEF EditInv, TakeFrame
<1> QED
  BY <1>2, <1>3, <1>4, Zenon

LEMMA ListPasses ==
    ASSUME LinkIInv, TakeFrame, resent' = resent, whole' = whole, ~Listing
    PROVE  ListInv'
<1>1. /\ Pipe \in Seq(Frames) /\ Pipe' \in Seq(Frames) /\ From(Pipe', Pipe, 1)
  BY TakePipe
<1>2. CASE "list" \in resent
  BY <1>2, Zenon DEF ListInv
<1>3. CASE "list" \notin resent
  <2>1. ~AskedIn(toDev) /\ ~ListIn(Pipe) /\ whole
    BY <1>3, ListQuiet
  <2>2. ~ListIn(Pipe')
    BY <1>1, <2>1, ListFrom
  <2> QED
    BY <2>1, <2>2, ListQuietNext, Zenon DEF TakeFrame
<1> QED
  BY <1>2, <1>3

\* The browser passes over a frame.
LEMMA SkipKeeps ==
    ASSUME LinkIInv, TakeFrame, host.phase = "wait", Head(inbox).type \notin Expected(host.cmd), Skip
    PROVE  LinkIInv'
<1>1. WireInv /\ HostInv
  BY DEF LinkIInv
<1>2. host \in Hosts /\ host.cmd \in Commands /\ host.got \in Nat /\ host # Idle
      /\ host.phase # "idle"
  BY <1>1, HostFacts DEF HostInv
<1>3. CASE ~(host.stray < MaxStray)
  <2>1. Fail
    BY <1>3 DEF Skip, Fail
  <2> QED
    BY <1>2, <2>1, FailKeeps
<1>4. CASE host.stray < MaxStray
  <2>1. /\ host' = [host EXCEPT !.stray = @ + 1] /\ resent' = resent
        /\ unearned' = unearned /\ whole' = whole /\ cards' = cards
    BY <1>4 DEF Skip
  <2>2. /\ host' \in Hosts /\ host'.phase = "wait" /\ host'.cmd = host.cmd
        /\ host'.got = host.got /\ host' # Idle
    <3>1. host.stray + 1 \in 0..MaxStray
      BY <1>2, <1>4, HostLinkAssumption DEF Hosts
    <3>2. host' \in Hosts /\ host'.phase = host.phase /\ host'.cmd = host.cmd
          /\ host'.got = host.got
      BY <1>2, <2>1, <3>1 DEF Hosts
    <3> QED
      BY <3>2, IdleFacts
  <2>3. WireInv'
    BY <1>1, <2>1, TakeWire DEF WireInv
  <2>4. HostInv'
    BY <2>2 DEF HostInv
  <2>5. /\ Pipe \in Seq(Frames) /\ Pipe' \in Seq(Frames) /\ From(Pipe', Pipe, 1)
        /\ Len(Pipe') = Len(Pipe) - 1 /\ Len(Pipe) >= 1 /\ Pipe[1] = Head(inbox)
    BY TakePipe
  <2>6. CardInv'
    BY <2>1, <2>5, SameCards DEF TakeFrame
  <2>7. EditInv'
    <3>1. Editing => Editing'
      BY <2>2 DEF Editing
    <3> QED
      BY <2>1, <3>1, EditPasses, Zenon
  <2>8. ListInv'
    <3>1. CASE ~Listing
      BY <2>1, <3>1, ListPasses
    <3>2. CASE Listing /\ "list" \in resent
      BY <2>1, <3>2, Zenon DEF ListInv
    <3>3. CASE Listing /\ "list" \notin resent
      <4>1. ListsOne(Pipe, toDev, host.got) /\ whole
        BY <1>2, <3>3, Zenon DEF LinkIInv, ListInv
      <4>2. ~IsList(Pipe[1])
        <5>1. host.cmd.kind = "list"
          BY <3>3 DEF Listing
        <5>2. Expected(host.cmd) = {"ENTRY", "DONE"}
          BY <5>1 DEF Expected, IsEdit
        <5> QED
          BY <2>5, <5>2 DEF IsList
      <4>3. ListsOne(Pipe', toDev, host.got)
        BY <1>2, <2>5, <4>1, <4>2, ListsTakeOther
      <4>4. Listing'
        BY <2>2, <3>3 DEF Listing
      <4> QED
        BY <2>1, <2>2, <4>1, <4>3, <4>4, Zenon DEF ListInv, TakeFrame
    <3> QED
      BY <3>1, <3>2, <3>3
  <2> QED
    BY <2>3, <2>4, <2>6, <2>7, <2>8, Zenon DEF LinkIInv
<1> QED
  BY <1>3, <1>4

\* A frame of the listing.
LEMMA ListedKeeps ==
    ASSUME LinkIInv, TakeFrame, host.phase \in {"wait", "stream"}, host.cmd.kind = "list",
           NEW f, f = Head(inbox), f.type \in {"ENTRY", "DONE"}, Listed(f),
           resent' = resent, unearned' = unearned, cards' = cards
    PROVE  LinkIInv'
<1>1. WireInv /\ HostInv
  BY DEF LinkIInv
<1>2. host \in Hosts /\ host.cmd \in Commands /\ host.got \in Nat /\ host # Idle
  <2>1. host.phase # "idle"
    OBVIOUS
  <2> QED
    BY <1>1, <2>1, HostFacts DEF HostInv
<1>3. /\ Pipe \in Seq(Frames) /\ Pipe' \in Seq(Frames) /\ From(Pipe', Pipe, 1)
      /\ Len(Pipe') = Len(Pipe) - 1 /\ Len(Pipe) >= 1 /\ Pipe[1] = f
  BY TakePipe
<1>4. CardInv'
  BY <1>3, SameCards DEF TakeFrame
<1>5. ~Editing
  BY DEF Editing, IsEdit
<1>6. EditInv'
  BY <1>5, EditPasses, Zenon
<1>7. Listing
  BY DEF Listing
<1>8. CASE f.type = "ENTRY"
  <2>1. host' = [host EXCEPT !.phase = "stream", !.got = @ + 1] /\ whole' = whole
    BY <1>8 DEF Listed
  <2>2. /\ host' \in Hosts /\ host'.phase = "stream" /\ host'.cmd = host.cmd
        /\ host'.got = host.got + 1 /\ host' # Idle
    <3>1. host.got + 1 \in Nat
      BY <1>2
    <3>2. /\ host' \in Hosts /\ host'.phase = "stream" /\ host'.cmd = host.cmd
          /\ host'.got = host.got + 1
      BY <1>2, <2>1, <3>1 DEF Hosts
    <3> QED
      BY <3>2, IdleFacts
  <2>3. WireInv'
    BY <1>1, <2>1, TakeWire DEF WireInv
  <2>4. HostInv'
    BY <2>2 DEF HostInv
  <2>5. ListInv'
    <3>1. CASE "list" \in resent
      BY <3>1, Zenon DEF ListInv
    <3>2. CASE "list" \notin resent
      <4>1. ListsOne(Pipe, toDev, host.got) /\ whole
        BY <1>2, <3>2, Zenon DEF LinkIInv, ListInv
      <4>2. ListsOne(Pipe', toDev, host.got + 1)
        BY <1>2, <1>3, <1>8, <4>1, ListsTakeEntry
      <4>3. Listing'
        BY <2>2 DEF Listing
      <4> QED
        BY <2>1, <2>2, <4>1, <4>2, <4>3, Zenon DEF ListInv, TakeFrame
    <3> QED
      BY <3>1, <3>2
  <2> QED
    BY <1>4, <1>6, <2>3, <2>4, <2>5, Zenon DEF LinkIInv
<1>9. CASE f.type = "DONE"
  <2>1. host' = Idle /\ whole' = (whole /\ host.got = f.total)
    BY <1>9 DEF Listed
  <2>2. whole' \in BOOLEAN
    BY <2>1, Zenon
  <2>3. WireInv'
    BY <1>1, <2>2, TakeWire DEF WireInv
  <2>4. HostInv'
    BY <2>1, IdleFacts DEF HostInv
  <2>5. ListInv'
    <3>1. CASE "list" \in resent
      BY <3>1, Zenon DEF ListInv
    <3>2. CASE "list" \notin resent
      <4>1. ListsOne(Pipe, toDev, host.got) /\ whole
        BY <1>2, <3>2, Zenon DEF LinkIInv, ListInv
      <4>2. host.got = f.total /\ ~ListIn(Pipe') /\ ~AskedIn(toDev)
        BY <1>2, <1>3, <1>9, <4>1, ListsTakeDone
      <4> QED
        BY <2>1, <4>1, <4>2, ListQuietNext, Zenon DEF TakeFrame
    <3> QED
      BY <3>1, <3>2
  <2> QED
    BY <1>4, <1>6, <2>3, <2>4, <2>5, Zenon DEF LinkIInv
<1> QED
  BY <1>8, <1>9

LEMMA ReplyKeeps ==
    ASSUME LinkIInv, TakeFrame, host.phase = "wait", NEW f, f = Head(inbox),
           f.type \in Expected(host.cmd), TakeReply(f)
    PROVE  LinkIInv'
<1>1. WireInv /\ HostInv
  BY DEF LinkIInv
<1>2. host \in Hosts /\ host.cmd \in Commands /\ host.got \in Nat /\ host # Idle
  BY <1>1, HostFacts DEF HostInv
<1>3. /\ Pipe \in Seq(Frames) /\ Pipe' \in Seq(Frames) /\ From(Pipe', Pipe, 1)
      /\ Len(Pipe') = Len(Pipe) - 1 /\ Len(Pipe) >= 1 /\ Pipe[1] = f
  BY TakePipe
<1>4. resent' = resent
  BY DEF TakeReply
<1>5. host.cmd.kind \in {"add", "del", "list", "status", "advert"}
  BY <1>2, CommandFacts
<1>6. CASE IsEdit(host.cmd)
  <2>1. /\ host' = Idle /\ unearned' = (unearned \/ ~applied) /\ whole' = whole /\ cards' = cards
        /\ f.type = "OK" /\ host.cmd.kind # "list"
    BY <1>6 DEF TakeReply, Expected, IsEdit
  <2>2. unearned' \in BOOLEAN
    BY <2>1, Zenon
  <2>3. WireInv'
    BY <1>1, <1>4, <2>1, <2>2, TakeWire DEF WireInv
  <2>4. HostInv'
    BY <2>1, IdleFacts DEF HostInv
  <2>5. CardInv'
    BY <1>3, <2>1, SameCards DEF TakeFrame
  <2>6. ListInv'
    BY <1>4, <2>1, ListPasses DEF Listing
  <2>7. EditInv'
    <3>1. CASE "edit" \in resent
      BY <1>4, <3>1, Zenon DEF EditInv
    <3>2. CASE "edit" \notin resent
      <4>1. EditsOne(Pipe, toDev, issued) /\ (OkIn(Pipe) => applied) /\ ~unearned
        BY <3>2, Zenon DEF LinkIInv, EditInv
      <4>2. OkIn(Pipe)
        <5>1. 1 \in 1..Len(Pipe)
          BY <1>3
        <5> QED
          BY <1>3, <2>1, <5>1 DEF OkIn
      <4>3. ~OkIn(Pipe') /\ ~EditIn(toDev)
        BY <1>3, <2>1, <4>1, EditsTaken
      <4> QED
        BY <2>1, <4>1, <4>2, <4>3, EditQuietNext, Zenon DEF TakeFrame
    <3> QED
      BY <3>1, <3>2
  <2> QED
    BY <2>3, <2>4, <2>5, <2>6, <2>7, Zenon DEF LinkIInv
<1>7. CASE host.cmd.kind = "status"
  <2>1. /\ host' = [host EXCEPT !.phase = "second"] /\ unearned' = unearned
        /\ whole' = whole /\ cards' = cards
    BY <1>7 DEF TakeReply, IsEdit
  <2>2. host' \in Hosts /\ host'.phase = "second" /\ host'.cmd = host.cmd
    BY <1>2, <2>1 DEF Hosts
  <2>3. WireInv'
    BY <1>1, <1>4, <2>1, TakeWire DEF WireInv
  <2>4. HostInv'
    BY <1>7, <2>2 DEF HostInv
  <2>5. CardInv'
    BY <1>3, <2>1, SameCards DEF TakeFrame
  <2>6. ListInv'
    BY <1>4, <1>7, <2>1, ListPasses DEF Listing
  <2>7. EditInv'
    BY <1>4, <1>7, <2>1, EditPasses DEF Editing, IsEdit
  <2> QED
    BY <2>3, <2>4, <2>5, <2>6, <2>7, Zenon DEF LinkIInv
<1>8. CASE host.cmd.kind = "advert"
  <2>1. /\ host' = Idle /\ cards' = Append(cards, f.ts) /\ unearned' = unearned /\ whole' = whole
        /\ f.type = "ADVERT"
    BY <1>8 DEF TakeReply, Expected, IsEdit
  <2>2. cards \in Seq(Nat) /\ lastTs \in Nat /\ Stamped(Pipe, cards, lastTs)
    BY DEF LinkIInv, WireInv, CardInv
  <2>3. f \in Frames /\ f.ts \in Nat
    <3>1. f \in Frames
      BY <1>3
    <3> QED
      BY <2>1, <3>1, FrameFacts
  <2>4. cards' \in Seq(Nat)
    BY <2>1, <2>2, <2>3
  <2>5. WireInv'
    BY <1>1, <1>4, <2>1, <2>4, TakeWire DEF WireInv
  <2>6. HostInv'
    BY <2>1, IdleFacts DEF HostInv
  <2>7. CardInv'
    <3>1. Stamped(Pipe', Append(cards, Pipe[1].ts), lastTs)
      BY <1>3, <2>1, <2>2, StampedTake
    <3> QED
      BY <1>3, <2>1, <3>1, Zenon DEF CardInv, TakeFrame
  <2>8. ListInv'
    BY <1>4, <1>8, <2>1, ListPasses DEF Listing
  <2>9. EditInv'
    BY <1>4, <1>8, <2>1, EditPasses DEF Editing, IsEdit
  <2> QED
    BY <2>5, <2>6, <2>7, <2>8, <2>9, Zenon DEF LinkIInv
<1>9. CASE host.cmd.kind = "list"
  <2>1. Listed(f) /\ unearned' = unearned /\ cards' = cards /\ f.type \in {"ENTRY", "DONE"}
    BY <1>9 DEF TakeReply, Expected, IsEdit
  <2> QED
    BY <1>4, <1>9, <2>1, ListedKeeps
<1> QED
  BY <1>5, <1>6, <1>7, <1>8, <1>9 DEF IsEdit

LEMMA TakeKeeps ==
    ASSUME LinkIInv, Take
    PROVE  LinkIInv'
<1> DEFINE f == Head(inbox)
<1>1. TakeFrame
  BY DEF Take, TakeFrame, devVars
<1>2. HostInv
  BY DEF LinkIInv
<1>3. host.phase = "wait" \/ host.phase = "second" \/ host.phase = "stream"
  BY DEF Take
<1>4. host.phase # "idle"
  BY <1>3
<1>5. CASE host.phase = "wait"
  <2>1. TakeFirst(f)
    BY <1>5 DEF Take
  <2>2. CASE f.type = "ERROR"
    <3>1. "ERROR" \notin Expected(host.cmd)
      <4>1. host.cmd \in Commands
        BY <1>2, <1>4, HostFacts DEF HostInv
      <4>2. host.cmd.kind \in {"add", "del", "list", "status", "advert"}
        BY <4>1, CommandFacts
      <4> QED
        BY <4>2 DEF Expected, IsEdit
    <3>2. Fail
      BY <2>1, <2>2, <3>1 DEF TakeFirst
    <3> QED
      BY <1>1, <1>4, <3>2, FailKeeps
  <2>3. CASE f.type # "ERROR" /\ f.type \in Expected(host.cmd)
    <3>1. TakeReply(f)
      BY <2>1, <2>3 DEF TakeFirst
    <3> QED
      BY <1>1, <1>5, <2>3, <3>1, ReplyKeeps
  <2>4. CASE f.type # "ERROR" /\ f.type \notin Expected(host.cmd)
    <3>1. Skip \/ Fail
      BY <2>1, <2>4 DEF TakeFirst
    <3> QED
      BY <1>1, <1>4, <1>5, <2>4, <3>1, FailKeeps, SkipKeeps
  <2> QED
    BY <2>2, <2>3, <2>4
<1>6. CASE host.phase = "second"
  <2>1. IF f.type = "IDENTITY"
        THEN host' = Idle /\ UNCHANGED <<resent, unearned, whole, cards>>
        ELSE Fail
    BY <1>6 DEF Take
  <2>2. CASE f.type # "IDENTITY"
    BY <1>1, <1>4, <2>1, <2>2, FailKeeps
  <2>3. CASE f.type = "IDENTITY"
    <3>1. host' = Idle /\ resent' = resent /\ unearned' = unearned /\ whole' = whole /\ cards' = cards
      BY <2>1, <2>3
    <3>2. host.cmd.kind = "status"
      BY <1>2, <1>6 DEF HostInv
    <3>3. WireInv'
      BY <1>1, <3>1, TakeWire DEF LinkIInv, WireInv
    <3>4. HostInv'
      BY <3>1, IdleFacts DEF HostInv
    <3>5. CardInv'
      BY <1>1, <3>1, TakePipe, SameCards DEF TakeFrame
    <3>6. ListInv'
      BY <1>1, <3>1, <3>2, ListPasses DEF Listing
    <3>7. EditInv'
      BY <1>1, <1>6, <3>1, EditPasses DEF Editing
    <3> QED
      BY <3>3, <3>4, <3>5, <3>6, <3>7, Zenon DEF LinkIInv
  <2> QED
    BY <2>2, <2>3
<1>7. CASE host.phase = "stream"
  <2>1. IF f.type \in Expected(host.cmd)
        THEN Listed(f) /\ UNCHANGED <<resent, unearned, cards>>
        ELSE Fail
    BY <1>7 DEF Take
  <2>2. CASE f.type \notin Expected(host.cmd)
    BY <1>1, <1>4, <2>1, <2>2, FailKeeps
  <2>3. CASE f.type \in Expected(host.cmd)
    <3>1. host.cmd.kind = "list"
      BY <1>2, <1>7 DEF HostInv
    <3>2. f.type \in {"ENTRY", "DONE"}
      BY <2>3, <3>1 DEF Expected, IsEdit
    <3>3. Listed(f) /\ resent' = resent /\ unearned' = unearned /\ cards' = cards
      BY <2>1, <2>3
    <3> QED
      BY <1>1, <1>7, <3>1, <3>2, <3>3, ListedKeeps
  <2> QED
    BY <2>2, <2>3
<1> QED
  BY <1>3, <1>5, <1>6, <1>7


-----------------------------------------------------------------------------
(***************************************************************************)
(* The steps of the device and the wire.                                   *)
(***************************************************************************)
\* The device's list after a command.
LEMMA ServedItems ==
    ASSUME WireInv, NEW c \in Commands,
           NEW q, q = CASE c.kind = "add" /\ Accepts(c) -> Added(c.item)
                        [] c.kind = "del" /\ Accepts(c) -> Without(c.item)
                        [] OTHER -> items
    PROVE  q \in Seq(Items) /\ Len(q) <= MaxItems
<1>1. items \in Seq(Items) /\ Len(items) \in Nat /\ Len(items) <= MaxItems /\ MaxItems \in Nat
  BY HostLinkAssumption DEF WireInv
<1>2. CASE c.kind = "add" /\ Accepts(c)
  <2>1. q = Added(c.item) /\ c.item \in Items
    BY <1>2, CommandFacts DEF IsEdit
  <2>2. CASE server = "admin" /\ Known(c.item)
    BY <1>1, <2>1, <2>2 DEF Added
  <2>3. CASE ~(server = "admin" /\ Known(c.item))
    <3>1. Len(items) < MaxItems
      BY <1>2, <2>3 DEF Accepts
    <3>2. q = Append(items, c.item)
      BY <2>1, <2>3 DEF Added
    <3>3. q \in Seq(Items) /\ Len(q) = Len(items) + 1
      BY <1>1, <2>1, <3>2, AppendIs
    <3> QED
      BY <1>1, <3>1, <3>3
  <2> QED
    BY <2>2, <2>3
<1>3. CASE c.kind = "del" /\ Accepts(c)
  <2>1. q = Without(c.item) /\ Known(c.item)
    BY <1>3 DEF Accepts
  <2>2. q \in Seq(Items) /\ Len(q) = Len(items) - 1
    BY <1>1, <2>1, WithoutFacts
  <2> QED
    BY <1>1, <2>2
<1>4. CASE ~(c.kind = "add" /\ Accepts(c)) /\ ~(c.kind = "del" /\ Accepts(c))
  BY <1>1, <1>4
<1> QED
  BY <1>2, <1>3, <1>4

LEMMA ServeKeeps ==
    ASSUME LinkIInv, Serve
    PROVE  LinkIInv'
<1> DEFINE c == Head(toDev).cmd
           id == Head(toDev).id
           a == Answer(c)
<1>1. WireInv /\ HostInv
  BY DEF LinkIInv
<1>2. /\ toDev # <<>> /\ toDev' = Tail(toDev) /\ toHost' = toHost \o a
      /\ host' = host /\ inbox' = inbox /\ issued' = issued /\ unearned' = unearned
      /\ resent' = resent /\ whole' = whole /\ cards' = cards
      /\ lastTs' = IF c.kind = "advert" THEN NextAdvertTimestamp(c.clock, lastTs) ELSE lastTs
      /\ items' = CASE c.kind = "add" /\ Accepts(c) -> Added(c.item)
                    [] c.kind = "del" /\ Accepts(c) -> Without(c.item)
                    [] OTHER -> items
  BY DEF Serve
<1>3. applied' = (applied \/ (id = issued /\ Accepts(c)))
  BY DEF Serve
<1>4. toDev \in Seq(Requests) /\ Head(toDev) \in Requests /\ Tail(toDev) \in Seq(Requests)
  BY <1>1, <1>2, TailIs DEF WireInv
<1>5. c \in Commands
  BY <1>4 DEF Requests
<1>6. /\ a \in Seq(Frames)
      /\ c.kind # "advert" => \A i \in 1..Len(a) : a[i].type # "ADVERT"
      /\ ~(IsEdit(c) /\ Accepts(c)) => \A i \in 1..Len(a) : a[i].type # "OK"
      /\ c.kind # "list" => \A i \in 1..Len(a) : ~IsList(a[i])
  BY <1>1, <1>5, AnswerFacts
<1>7. a = Answer(c)
  OBVIOUS
<1> HIDE DEF a
<1>8. /\ inbox \in Seq(Frames) /\ toHost \in Seq(Frames) /\ Pipe \in Seq(Frames)
      /\ toHost' \in Seq(Frames) /\ Pipe' \in Seq(Frames) /\ Behind(Pipe', Pipe, a)
  <2>1. inbox \in Seq(Frames) /\ toHost \in Seq(Frames) /\ Pipe \in Seq(Frames)
    BY <1>1, PipeType
  <2>2. toHost' \in Seq(Frames)
    BY <1>2, <1>6, <2>1, Joined
  <2>3. Pipe' = inbox \o toHost' /\ Pipe' = inbox \o (toHost \o a) /\ Pipe = inbox \o toHost
    BY <1>2 DEF Pipe
  <2>4. Pipe' \in Seq(Frames)
    BY <2>1, <2>2, <2>3, Joined
  <2>5. Behind(inbox \o (toHost \o a), inbox \o toHost, a)
    BY <1>6, <2>1, ServeSeq
  <2> QED
    BY <2>1, <2>2, <2>3, <2>4, <2>5, Zenon
<1>9. items' \in Seq(Items) /\ Len(items') <= MaxItems
  BY <1>1, <1>2, <1>5, ServedItems
<1>10. lastTs \in Nat /\ lastTs' \in Nat /\ cards \in Seq(Nat)
  BY <1>1, <1>2, <1>5, CommandFacts, CardAnswer DEF WireInv
<1>11. applied' \in BOOLEAN
  BY <1>3, Zenon
<1>12. WireInv'
  BY <1>1, <1>2, <1>4, <1>8, <1>9, <1>10, <1>11 DEF WireInv
<1>13. HostInv'
  BY <1>1, <1>2 DEF HostInv
<1>14. CardInv'
  <2>1. Stamped(Pipe, cards, lastTs)
    BY DEF LinkIInv, CardInv
  <2>2. CASE c.kind # "advert"
    <3>1. Stamped(Pipe', cards, lastTs)
      BY <1>6, <1>8, <1>10, <2>1, <2>2, StampedOther
    <3> QED
      BY <1>2, <2>2, <3>1 DEF CardInv
  <2>3. CASE c.kind = "advert"
    <3> DEFINE t == NextAdvertTimestamp(c.clock, lastTs)
               f == [type |-> "ADVERT", ts |-> t]
    <3>1. t \in Nat /\ lastTs < t
      BY <1>5, <1>10, <2>3, CommandFacts, CardAnswer
    <3>2. a = <<f>>
      BY <1>7, <2>3, AnswerCard
    <3>3. lastTs' = t
      BY <1>2, <2>3
    <3> HIDE DEF t
    <3>4. f \in Frames /\ f.type = "ADVERT" /\ f.ts = t
      BY <3>1, FrameIs
    <3> HIDE DEF f
    <3>5. Behind(Pipe', Pipe, <<f>>)
      BY <1>8, <3>2
    <3>6. Stamped(Pipe', cards, f.ts)
      BY <1>8, <1>10, <2>1, <3>1, <3>4, <3>5, StampedCard
    <3> QED
      BY <1>2, <3>3, <3>4, <3>6 DEF CardInv
  <2> QED
    BY <2>2, <2>3
<1>15. EditInv'
  <2>1. CASE "edit" \in resent
    BY <1>2, <2>1, Zenon DEF EditInv
  <2>2. CASE "edit" \notin resent
    <3>1. /\ EditsOne(Pipe, toDev, issued) /\ (EditIn(toDev) \/ OkIn(Pipe) => Editing)
          /\ (OkIn(Pipe) => applied) /\ ~unearned
      BY <2>2, Zenon DEF LinkIInv, EditInv
    <3>2. /\ EditsOne(Pipe, Tail(toDev), issued)
          /\ IsEdit(c) => ~EditIn(Tail(toDev)) /\ ~OkIn(Pipe) /\ id = issued
      BY <1>2, <1>4, <3>1, EditsTail
    <3>3. /\ EditIn(Tail(toDev)) => EditIn(toDev)
          /\ IsEdit(c) => EditIn(toDev)
      BY <1>2, <1>4, EditTail
    <3>4. Editing' <=> Editing
      BY <1>2 DEF Editing
    <3>5. CASE ~(IsEdit(c) /\ Accepts(c))
      <4>1. EditsOne(Pipe', Tail(toDev), issued) /\ (OkIn(Pipe') => OkIn(Pipe))
        BY <1>6, <1>8, <3>2, <3>5, OkOther
      <4>2. applied => applied'
        BY <1>3, Zenon
      <4> QED
        BY <1>2, <3>1, <3>3, <3>4, <4>1, <4>2, Zenon DEF EditInv
    <3>6. CASE IsEdit(c) /\ Accepts(c)
      <4> DEFINE f == Frame("OK")
      <4>1. a = <<f>> /\ f \in Frames
        BY <1>7, <3>6, AnswerEdit, FrameIs
      <4> HIDE DEF f
      <4>2. Behind(Pipe', Pipe, <<f>>)
        BY <1>8, <4>1
      <4>3. EditsOne(Pipe', Tail(toDev), issued)
        BY <1>8, <3>2, <3>6, <4>1, <4>2, OkBehind
      <4>4. applied'
        BY <1>3, <3>2, <3>6, Zenon
      <4>5. Editing'
        BY <3>1, <3>3, <3>4, <3>6, Zenon
      <4> QED
        BY <1>2, <3>1, <4>3, <4>4, <4>5, Zenon DEF EditInv
    <3> QED
      BY <3>5, <3>6
  <2> QED
    BY <2>1, <2>2
<1>16. ListInv'
  <2>1. CASE "list" \in resent
    BY <1>2, <2>1, Zenon DEF ListInv
  <2>2. CASE "list" \notin resent /\ ~Listing
    <3>1. ~AskedIn(toDev) /\ ~ListIn(Pipe) /\ whole
      BY <2>2, ListQuiet
    <3>2. ~AskedIn(Tail(toDev)) /\ c.kind # "list"
      BY <1>2, <1>4, <3>1, EditTail
    <3>3. ~ListIn(Pipe')
      BY <1>6, <1>8, <3>1, <3>2, ListOther
    <3> QED
      BY <1>2, <3>1, <3>2, <3>3, ListQuietNext, Zenon
  <2>3. CASE "list" \notin resent /\ Listing
    <3>1. host # Idle
      BY <2>3, IdleFacts DEF Listing
    <3>2. ListsOne(Pipe, toDev, host.got) /\ whole
      BY <2>3, <3>1, Zenon DEF LinkIInv, ListInv
    <3>3. /\ ListsOne(Pipe, Tail(toDev), host.got)
          /\ c.kind = "list" => ~AskedIn(Tail(toDev)) /\ ~ListIn(Pipe) /\ host.got = 0
      BY <1>2, <1>4, <3>2, ListsTail
    <3>4. Listing'
      BY <1>2, <2>3 DEF Listing
    <3>5. ListsOne(Pipe', Tail(toDev), host.got)
      <4>1. CASE c.kind # "list"
        BY <1>6, <1>8, <3>3, <4>1, ListOther
      <4>2. CASE c.kind = "list"
        <5>1. /\ Len(items) \in Nat /\ Len(a) = Len(items) + 1
              /\ \A i \in 1..Len(items) : a[i].type = "ENTRY"
              /\ a[Len(items) + 1].type = "DONE" /\ a[Len(items) + 1].total = Len(items)
          BY <1>1, <1>7, <4>2, AnswerList DEF WireInv
        <5>2. ListsOne(Pipe', Tail(toDev), 0)
          BY <1>6, <1>8, <3>3, <4>2, <5>1, ListBehind
        <5> QED
          BY <3>3, <4>2, <5>2
      <4> QED
        BY <4>1, <4>2
    <3> QED
      BY <1>2, <3>2, <3>4, <3>5, Zenon DEF ListInv
  <2> QED
    BY <2>1, <2>2, <2>3
<1> QED
  BY <1>12, <1>13, <1>14, <1>15, <1>16, Zenon DEF LinkIInv

\* Nothing the host waits for is added: a prefix of the pipe is still there, and of
\* the requests all or none.
LEMMA QuieterKeeps ==
    ASSUME LinkIInv, Pipe' \in Seq(Frames), From(Pipe', Pipe, 0), toDev' = toDev \/ toDev' = <<>>,
           host' = host, issued' = issued, applied' = applied, resent' = resent,
           unearned' = unearned, whole' = whole
    PROVE  EditInv' /\ ListInv'
<1>1. Pipe \in Seq(Frames)
  BY PipeType DEF LinkIInv
<1>2. (Editing' <=> Editing) /\ (Listing' <=> Listing)
  BY DEF Editing, Listing
<1>3. /\ EditIn(toDev') => EditIn(toDev)
      /\ AskedIn(toDev') => AskedIn(toDev)
      /\ \A i \in 1..Len(toDev') : i \in 1..Len(toDev) /\ toDev'[i] = toDev[i]
  BY DEF EditIn, AskedIn
<1>4. EditInv'
  <2>1. CASE "edit" \in resent
    BY <2>1, Zenon DEF EditInv
  <2>2. CASE "edit" \notin resent
    <3>1. /\ EditsOne(Pipe, toDev, issued) /\ (EditIn(toDev) \/ OkIn(Pipe) => Editing)
          /\ (OkIn(Pipe) => applied) /\ ~unearned
      BY <2>2, Zenon DEF LinkIInv, EditInv
    <3>2. EditsOne(Pipe', toDev, issued)
      BY <1>1, <3>1, EditsFrom
    <3>3. EditsOne(Pipe', toDev', issued)
      BY <1>3, <3>2 DEF EditsOne
    <3>4. OkIn(Pipe') => OkIn(Pipe)
      BY <1>1, OkFrom
    <3> QED
      BY <1>2, <1>3, <3>1, <3>3, <3>4, Zenon DEF EditInv
  <2> QED
    BY <2>1, <2>2
<1>5. ListInv'
  <2>1. CASE "list" \in resent
    BY <2>1, Zenon DEF ListInv
  <2>2. CASE "list" \notin resent
    <3>1. /\ (host # Idle => ListsOne(Pipe, toDev, host.got))
          /\ (AskedIn(toDev) \/ ListIn(Pipe) => Listing) /\ whole
      BY <2>2, Zenon DEF LinkIInv, ListInv
    <3>2. ListsOne(Pipe, toDev, host.got) => ListsOne(Pipe', toDev, host.got)
      BY <1>1, ListsFrom
    <3>3. ListsOne(Pipe', toDev, host.got) => ListsOne(Pipe', toDev', host.got)
      BY <1>3 DEF ListsOne
    <3>4. ListIn(Pipe') => ListIn(Pipe)
      BY <1>1, ListFrom
    <3> QED
      BY <1>2, <1>3, <3>1, <3>2, <3>3, <3>4, Zenon DEF ListInv
  <2> QED
    BY <2>1, <2>2
<1> QED
  BY <1>4, <1>5

LEMMA ArriveKeeps ==
    ASSUME LinkIInv, Arrive
    PROVE  LinkIInv'
<1>1. WireInv /\ HostInv
  BY DEF LinkIInv
<1>2. /\ toHost # <<>> /\ inbox' = Append(inbox, Head(toHost)) /\ toHost' = Tail(toHost)
      /\ host' = host /\ toDev' = toDev /\ items' = items /\ lastTs' = lastTs
      /\ applied' = applied /\ issued' = issued /\ unearned' = unearned
      /\ resent' = resent /\ whole' = whole /\ cards' = cards
  BY DEF Arrive, devVars
<1>3. inbox \in Seq(Frames) /\ toHost \in Seq(Frames)
  BY <1>1, PipeType
<1>4. Head(toHost) \in Frames /\ Tail(toHost) \in Seq(Frames)
  BY <1>2, <1>3, TailIs
<1>5. inbox' \in Seq(Frames) /\ toHost' \in Seq(Frames)
  BY <1>2, <1>3, <1>4
<1>6. Pipe' = inbox' \o toHost' /\ Pipe = inbox \o toHost
      /\ Pipe' = Append(inbox, Head(toHost)) \o Tail(toHost)
  BY <1>2 DEF Pipe
<1>7. Pipe' \in Seq(Frames)
  BY <1>5, <1>6, Joined
<1>8. From(Append(inbox, Head(toHost)) \o Tail(toHost), inbox \o toHost, 0)
  BY <1>2, <1>3, ArriveSeq
<1>9. From(Pipe', Pipe, 0)
  BY <1>6, <1>8, Zenon
<1>10. WireInv'
  BY <1>1, <1>2, <1>5 DEF WireInv
<1>11. HostInv'
  BY <1>1, <1>2 DEF HostInv
<1>12. CardInv'
  BY <1>2, <1>7, <1>9, SameCards
<1>13. EditInv' /\ ListInv'
  BY <1>2, <1>7, <1>9, QuieterKeeps
<1> QED
  BY <1>10, <1>11, <1>12, <1>13, Zenon DEF LinkIInv

LEMMA DeviceResetKeeps ==
    ASSUME LinkIInv, DeviceReset
    PROVE  LinkIInv'
<1>1. WireInv /\ HostInv
  BY DEF LinkIInv
<1>2. /\ toDev' = <<>> /\ toHost' = <<>> /\ inbox' = inbox
      /\ items' = IF server = "prov" THEN <<>> ELSE items
      /\ host' = host /\ lastTs' = lastTs
      /\ applied' = applied /\ issued' = issued /\ unearned' = unearned
      /\ resent' = resent /\ whole' = whole /\ cards' = cards
  BY DEF DeviceReset
<1>3. inbox \in Seq(Frames) /\ toHost \in Seq(Frames)
  BY <1>1, PipeType
<1>4. Pipe' = inbox \o <<>> /\ Pipe = inbox \o toHost /\ inbox \o <<>> = inbox
  BY <1>2, <1>3, ConcatEmptySeq DEF Pipe
<1>5. From(inbox \o <<>>, inbox \o toHost, 0)
  BY <1>3, FlushSeq
<1>6. From(Pipe', Pipe, 0) /\ Pipe' \in Seq(Frames)
  BY <1>3, <1>4, <1>5, Zenon
<1>7. items' \in Seq(Items) /\ Len(items') <= MaxItems
  BY <1>1, <1>2, HostLinkAssumption DEF WireInv
<1>8. WireInv'
  <2>1. toDev' \in Seq(Requests) /\ toHost' \in Seq(Frames)
    BY <1>2
  <2> QED
    BY <1>1, <1>2, <1>7, <2>1 DEF WireInv
<1>9. HostInv'
  BY <1>1, <1>2 DEF HostInv
<1>10. CardInv'
  BY <1>2, <1>6, SameCards
<1>11. EditInv' /\ ListInv'
  BY <1>2, <1>6, QuieterKeeps
<1> QED
  BY <1>8, <1>9, <1>10, <1>11, Zenon DEF LinkIInv

-----------------------------------------------------------------------------
LEMMA LinkInitIInv == LinkInit => LinkIInv
<1> SUFFICES ASSUME LinkInit PROVE LinkIInv
  OBVIOUS
<1>1. /\ host = Idle /\ toDev = <<>> /\ toHost = <<>> /\ inbox = <<>> /\ items = <<>>
      /\ lastTs = 0 /\ issued = 0 /\ resent = {} /\ cards = <<>>
  BY DEF LinkInit
<1>2. applied = FALSE /\ unearned = FALSE /\ whole = TRUE
  BY DEF LinkInit
<1>3. WireInv
  <2>1. applied \in BOOLEAN /\ unearned \in BOOLEAN /\ whole \in BOOLEAN
    BY <1>2, Zenon
  <2> QED
    BY <1>1, <2>1, HostLinkAssumption DEF WireInv
<1>4. HostInv
  BY <1>1, IdleFacts DEF HostInv
<1>5. Pipe = <<>>
  BY <1>1 DEF Pipe
<1>6. CardInv
  BY <1>1, <1>5 DEF CardInv, Stamped
<1>7. ~EditIn(toDev) /\ ~AskedIn(toDev) /\ ~OkIn(Pipe) /\ ~ListIn(Pipe)
  BY <1>1, <1>5 DEF EditIn, AskedIn, OkIn, ListIn
<1>8. EditsOne(Pipe, toDev, issued) /\ ListsOne(Pipe, toDev, host.got)
  BY <1>7, EditsNone, ListsNone
<1>9. EditInv /\ ListInv
  BY <1>2, <1>7, <1>8, Zenon DEF EditInv, ListInv
<1> QED
  BY <1>3, <1>4, <1>6, <1>9, Zenon DEF LinkIInv

LEMMA LinkIInvStep == LinkIInv /\ [LinkNext]_linkVars => LinkIInv'
<1> SUFFICES ASSUME LinkIInv, [LinkNext]_linkVars PROVE LinkIInv'
  OBVIOUS
<1>1. ASSUME NEW c \in Commands, Issue(c) PROVE LinkIInv'
  BY <1>1, IssueKeeps
<1>2. CASE TimesOut \/ LaterTimesOut
  BY <1>2, TimesOutKeeps
<1>3. CASE Resend
  BY <1>3, ResendKeeps
<1>4. CASE Take
  BY <1>4, TakeKeeps
<1>5. CASE Serve
  BY <1>5, ServeKeeps
<1>6. CASE Arrive
  BY <1>6, ArriveKeeps
<1>7. CASE DeviceReset
  BY <1>7, DeviceResetKeeps
<1>8. CASE UNCHANGED linkVars
  <2>1. /\ inbox' = inbox /\ toHost' = toHost /\ toDev' = toDev /\ items' = items
        /\ lastTs' = lastTs /\ issued' = issued /\ cards' = cards /\ resent' = resent
        /\ applied' = applied /\ unearned' = unearned /\ whole' = whole /\ host' = host
    BY <1>8 DEF linkVars, wireVars, devVars
  <2> QED
    BY <2>1, Zenon DEF LinkIInv, WireInv, HostInv, CardInv, EditInv, ListInv, Pipe, Editing, Listing
<1> QED
  BY <1>1, <1>2, <1>3, <1>4, <1>5, <1>6, <1>7, <1>8 DEF LinkNext, HostStep

LEMMA LinkIInvHolds == LinkSpec => []LinkIInv
  BY LinkInitIInv, LinkIInvStep, PTL DEF LinkSpec

-----------------------------------------------------------------------------
(***************************************************************************)
(* Results.                                                                *)
(***************************************************************************)
\* The session takes no reply for one to another command, through lost requests,
\* resends, late replies, skipped frames and resets: for every number of items, of
\* attempts and of stray frames passed over.
THEOREM ReplyHolds == LinkSpec => []ReplyInv
<1>1. LinkIInv => ReplyInv
  <2> SUFFICES ASSUME LinkIInv PROVE ReplyInv
    OBVIOUS
  <2>1. WireInv /\ HostInv /\ EditInv /\ ListInv
    BY Zenon DEF LinkIInv
  <2>2. LinkTypeOK
    <3>1. host.phase \in {"idle", "wait", "again", "second", "stream"}
      BY <2>1, IdleFacts, HostFacts DEF HostInv
    <3>2. host.phase # "idle" => /\ host.cmd \in Commands
                                 /\ host.sends \in 1..MaxSends /\ host.stray \in 0..MaxStray
                                 /\ host.got \in Nat
      BY <2>1, HostFacts DEF HostInv
    <3>3. Len(items) <= MaxItems /\ resent \subseteq {"edit", "list"}
      BY <2>1 DEF WireInv
    <3>4. applied \in BOOLEAN
      BY <2>1, Zenon DEF WireInv
    <3> QED
      BY <3>1, <3>2, <3>3, <3>4, Zenon DEF LinkTypeOK
  <2>3. OkIsOwn /\ ListWhole
    BY <2>1, Zenon DEF OkIsOwn, ListWhole, EditInv, ListInv
  <2> QED
    BY <2>2, <2>3, Zenon DEF ReplyInv
<1> QED
  BY <1>1, LinkIInvHolds, PTL

\* Cards given to the host carry ever larger timestamps, through late replies, resets
\* and a host clock that goes back: for every range of the clock.
THEOREM CardsHold == LinkSpec => []CardsIncrease
<1>1. LinkIInv => CardsIncrease
  BY DEF LinkIInv, CardInv, Stamped, CardsIncrease
<1> QED
  BY <1>1, LinkIInvHolds, PTL

=============================================================================
