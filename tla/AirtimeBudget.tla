---------------------------- MODULE AirtimeBudget ----------------------------
(***************************************************************************)
(* AirtimeBudget (firmware-core/src/dispatcher.rs): the sliding-window     *)
(* duty-cycle limit the CAD + TX block asks before every transmission.  It *)
(* remembers the last BUDGET_SLOTS transmissions in a ring.  Every use of  *)
(* the clock is a difference, so a record keeps the age of its start,      *)
(* capped just above the window.                                           *)
(***************************************************************************)
EXTENDS Naturals, FiniteSets

CONSTANTS WindowMs,   \* BUDGET_WINDOW_MS, in ticks
          MaxMs,      \* BUDGET_MAX_MS, in ticks
          Slots,      \* BUDGET_SLOTS
          Airtimes    \* lora_airtime_ms() of the frames there are, in ticks

ASSUME AirtimeBudgetAssumption ==
    /\ WindowMs \in Nat \ {0}
    /\ MaxMs \in Nat
    /\ Slots \in Nat \ {0}
    /\ Airtimes \subseteq Nat \ {0}

TxRecord == [age : 0..(WindowMs + 1), duration : Airtimes \cup {0}]
Budgets == [records : [0..(Slots - 1) -> TxRecord], head : 0..(Slots - 1), count : 0..Slots]

Older(r, d) == [r EXCEPT !.age = IF @ + d > WindowMs THEN WindowMs + 1 ELSE @ + d]

\* d ticks pass.
Aged(b, d) == [b EXCEPT !.records = [i \in DOMAIN @ |-> Older(@[i], d)]]

NewBudget ==
    [records |-> [i \in 0..(Slots - 1) |-> [age |-> WindowMs + 1, duration |-> 0]],
     head |-> 0, count |-> 0]

\* The valid records that start in the window.
InWindow(b) == {i \in 0..(b.count - 1) : b.records[i].age <= WindowMs}

\* used_in_window: their durations, added up tick by tick.
UsedInWindow(b) ==
    Cardinality(UNION {{i} \X (1..b.records[i].duration) : i \in InWindow(b)})

CanTransmit(b, required) == UsedInWindow(b) + required <= MaxMs

\* Variant: the newest slot is written over and over.
RecordTxInPlace(b, duration) ==
    [records |-> [b.records EXCEPT ![b.head] = [age |-> 0, duration |-> duration]],
     head |-> b.head,
     count |-> IF b.count < Slots THEN b.count + 1 ELSE b.count]

RecordTx(b, duration) ==
    [records |-> [b.records EXCEPT ![b.head] = [age |-> 0, duration |-> duration]],
     head |-> (b.head + 1) % Slots,
     count |-> IF b.count < Slots THEN b.count + 1 ELSE b.count]
=============================================================================
