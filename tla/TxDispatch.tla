----------------------------- MODULE TxDispatch -----------------------------
(***************************************************************************)
(* The transmit half of the dispatcher loop: the bounded TX queue          *)
(* (firmware-core/src/dispatcher.rs, TxQueue), the table of ACKed sends    *)
(* that wait for their ACK or their deadline (OutstandingSends), and the   *)
(* phases of firmware/src/main.rs's loop that touch them: the deadline     *)
(* sweep with its auto-retry, the room scheduler's untracked frames, the   *)
(* CAD + TX block, the RX poll and the UI command drain, in that order.    *)
(*                                                                         *)
(* A frame is the send it carries, so a retry is byte-identical by         *)
(* construction; an untracked frame (an ACK reply, a login, a keep-alive,  *)
(* a channel message) is NoTag.  The ACK hash of a send is the send.       *)
(* Time is measured in ticks; a deadline or a backoff is the number of     *)
(* ticks left, and the age of a send is the ticks since it was queued.     *)
(***************************************************************************)
EXTENDS Naturals, Sequences

CONSTANTS Sends,           \* the ACKed sends the user composes
          RoomPosts,       \* those that are room posts; the others are DMs
          NoTag,           \* a queued frame that no send is tracked for
          NoSend,          \* an empty slot of the outstanding-sends table
          TxQueueSlots,    \* TX_QUEUE_SLOTS
          MaxOutstanding,  \* MAX_OUTSTANDING_SENDS
          MaxSendRetries,  \* MAX_SEND_RETRIES
          AckDeadline,     \* DELIVERY_ACK_DEADLINE_MS, in ticks
          RetryBackoffStep,\* RETRY_BACKOFF_STEP_MS plus jitter, in ticks
          CadBackoff,      \* 1000 + pub_hash % 2000 ms, in ticks
          CadFailLimit     \* CAD_FAIL_LIMIT

ASSUME TxDispatchAssumption ==
    /\ RoomPosts \subseteq Sends
    /\ NoTag \notin Sends
    /\ TxQueueSlots \in Nat \ {0}
    /\ MaxOutstanding \in Nat \ {0}
    /\ MaxSendRetries \in Nat
    /\ AckDeadline \in Nat \ {0}
    /\ RetryBackoffStep \in Nat
    /\ CadBackoff \in Nat \ {0}
    /\ CadFailLimit \in Nat \ {0}

Slots == 1..MaxOutstanding

Entry == [send : Sends, age : Nat, deadline : Nat, attempts : 0..MaxSendRetries]

ASSUME NoSendAssumption == NoSend \notin Entry

VARIABLES
    phase,       \* where the loop iteration is
    slot,        \* the table slot the sweep visits next
    evictions,   \* retry_evictions: tags the sweep's own enqueues dropped
    txq,         \* the TX queue, oldest frame first
    outstanding, \* the outstanding-sends table
    cadBackoff,  \* ticks left until cad_backoff_until_ms
    cadErrStreak,
    canPost,     \* the room session's permission().can_post()
    regionOk,    \* region_emission() yields a scope (fixed at boot)
    verdict,     \* what the UI was last told of each send
    enqueued,    \* copies of each send's frame put in the queue
    onAir        \* copies of each send's frame transmitted

vars == <<phase, slot, evictions, txq, outstanding, cadBackoff, cadErrStreak,
          canPost, regionOk, verdict, enqueued, onAir>>

Phases == {"sweep", "resolve", "sched", "tx", "rx", "cmd"}

(***************************************************************************)
(* "unsent": never composed; "pending": grey check; "acked": DmAcked;      *)
(* "undelivered": the deadline or a refusal; "evicted": DmUndelivered      *)
(* raised because the TX queue dropped a copy of its frame; "refused": a   *)
(* room post that never got a bubble.                                      *)
(***************************************************************************)
Verdicts == {"unsent", "pending", "acked", "undelivered", "evicted", "refused"}

Final == {"acked", "undelivered", "evicted", "refused"}

-----------------------------------------------------------------------------
(***************************************************************************)
(* TxQueue                                                                 *)
(***************************************************************************)

Full(q) == Len(q) = TxQueueSlots

\* enqueue: a full queue drops its oldest frame to make room.
Enqueue(q, tag) == Append(IF Full(q) THEN Tail(q) ELSE q, tag)

\* What enqueue returns: the tag of the frame it dropped, in a set.
Dropped(q) == IF Full(q) THEN {Head(q)} ELSE {}

(***************************************************************************)
(* OutstandingSends                                                        *)
(***************************************************************************)

Tracks(table, i, s) == table[i] # NoSend /\ table[i].send = s

Tracked(table, s) == \E i \in Slots : Tracks(table, i, s)

\* Variant: the matching entry is read but never taken out of its slot.
ResolveKeeps(table, tags) == table

\* resolve / resolve_evicted: drop the entry of each send in tags.
Resolve(table, tags) ==
    [i \in Slots |-> IF \E s \in tags : Tracks(table, i, s)
                     THEN NoSend ELSE table[i]]

\* Variant: an event is raised whether or not the table still has the send.
RaiseUnchecked(vd, table, tags, v) ==
    [s \in Sends |-> IF s \in tags THEN v ELSE vd[s]]

\* The events raised when the sends in tags are resolved: nothing for an
\* untracked frame or a send that is already out of the table.
Raise(vd, table, tags, v) ==
    [s \in Sends |-> IF s \in tags /\ Tracked(table, s) THEN v ELSE vd[s]]

\* insert: the first free slot, else the slot of the oldest entry (the first
\* one in table order among the oldest).
InsertsAt(table, i) ==
    \/ /\ table[i] = NoSend
       /\ \A j \in Slots : table[j] = NoSend => i <= j
    \/ /\ \A j \in Slots : table[j] # NoSend
       /\ \A j \in Slots : \/ table[j].age < table[i].age
                           \/ table[j].age = table[i].age /\ i <= j

NewEntry(s) == [send |-> s, age |-> 0, deadline |-> AckDeadline, attempts |-> 0]

\* retry_backoff_ms
RetryBackoff(attempt) == AckDeadline + RetryBackoffStep * attempt

-----------------------------------------------------------------------------
Init ==
    /\ phase = "sweep"
    /\ slot = 1
    /\ evictions = <<>>
    /\ txq = <<>>
    /\ outstanding = [i \in Slots |-> NoSend]
    /\ cadBackoff = 0
    /\ cadErrStreak = 0
    /\ canPost \in BOOLEAN
    /\ regionOk \in BOOLEAN
    /\ verdict = [s \in Sends |-> "unsent"]
    /\ enqueued = [s \in Sends |-> 0]
    /\ onAir = [s \in Sends |-> 0]

(***************************************************************************)
(* The deadline sweep visits the slots in order.                           *)
(***************************************************************************)
NextSlot ==
    IF slot < MaxOutstanding
    THEN slot' = slot + 1 /\ phase' = "sweep"
    ELSE slot' = 1 /\ phase' = "resolve"

Matured(i) == outstanding[i] # NoSend /\ outstanding[i].deadline = 0

\* Variant: the attempts check is off by one.
MayRetryOnceMore(e) ==
    /\ e.attempts <= MaxSendRetries
    /\ e.send \in RoomPosts => canPost

\* retry_if: a room post is only replayed into a session that can post.
MayRetry(e) ==
    /\ e.attempts < MaxSendRetries
    /\ e.send \in RoomPosts => canPost

SweepSkip ==
    /\ phase = "sweep"
    /\ ~Matured(slot)
    /\ NextSlot
    /\ UNCHANGED <<evictions, txq, outstanding, cadBackoff, cadErrStreak,
                   canPost, regionOk, verdict, enqueued, onAir>>

SweepRetry ==
    /\ phase = "sweep"
    /\ Matured(slot)
    /\ LET e == outstanding[slot]
       IN  /\ MayRetry(e)
           /\ txq' = Enqueue(txq, e.send)
           /\ evictions' = IF Full(txq) THEN Append(evictions, Head(txq))
                           ELSE evictions
           /\ outstanding' = [outstanding EXCEPT
                  ![slot] = [e EXCEPT !.attempts = @ + 1,
                                      !.deadline = RetryBackoff(e.attempts + 1)]]
           /\ enqueued' = [enqueued EXCEPT ![e.send] = @ + 1]
    /\ NextSlot
    /\ UNCHANGED <<cadBackoff, cadErrStreak, canPost, regionOk, verdict, onAir>>

\* Variant: the entry is dropped and the UI is not told.
SweepGiveUpSilently ==
    /\ phase = "sweep"
    /\ Matured(slot)
    /\ ~MayRetry(outstanding[slot])
    /\ outstanding' = [outstanding EXCEPT ![slot] = NoSend]
    /\ NextSlot
    /\ UNCHANGED <<evictions, txq, cadBackoff, cadErrStreak, canPost, regionOk,
                   verdict, enqueued, onAir>>

SweepGiveUp ==
    /\ phase = "sweep"
    /\ Matured(slot)
    /\ ~MayRetry(outstanding[slot])
    /\ verdict' = [verdict EXCEPT ![outstanding[slot].send] = "undelivered"]
    /\ outstanding' = [outstanding EXCEPT ![slot] = NoSend]
    /\ NextSlot
    /\ UNCHANGED <<evictions, txq, cadBackoff, cadErrStreak, canPost, regionOk,
                   enqueued, onAir>>

\* log_tx_queue_eviction for one collected eviction.
ResolveEviction ==
    /\ phase = "resolve"
    /\ evictions # <<>>
    /\ verdict' = Raise(verdict, outstanding, {Head(evictions)}, "evicted")
    /\ outstanding' = Resolve(outstanding, {Head(evictions)})
    /\ evictions' = Tail(evictions)
    /\ UNCHANGED <<phase, slot, txq, cadBackoff, cadErrStreak, canPost,
                   regionOk, enqueued, onAir>>

ResolveDone ==
    /\ phase = "resolve"
    /\ evictions = <<>>
    /\ phase' = "sched"
    /\ UNCHANGED <<slot, evictions, txq, outstanding, cadBackoff, cadErrStreak,
                   canPost, regionOk, verdict, enqueued, onAir>>

(***************************************************************************)
(* An untracked frame is queued; what it drops is resolved at once.        *)
(***************************************************************************)
\* Variant: the tag of the dropped frame is ignored.
EnqueueUntrackedSilently ==
    /\ txq' = Enqueue(txq, NoTag)
    /\ UNCHANGED <<verdict, outstanding>>

EnqueueUntracked ==
    /\ txq' = Enqueue(txq, NoTag)
    /\ verdict' = Raise(verdict, outstanding, Dropped(txq), "evicted")
    /\ outstanding' = Resolve(outstanding, Dropped(txq))

\* The room scheduler: a login or a keep-alive, or nothing.
Sched ==
    /\ phase = "sched"
    /\ phase' = "tx"
    /\ \/ EnqueueUntracked
       \/ UNCHANGED <<txq, verdict, outstanding>>
    /\ UNCHANGED <<slot, evictions, cadBackoff, cadErrStreak, canPost, regionOk,
                   enqueued, onAir>>

(***************************************************************************)
(* The CAD + TX block.                                                     *)
(***************************************************************************)
TxGate == phase = "tx" /\ txq # <<>> /\ cadBackoff = 0

TxSkip ==
    /\ phase = "tx"
    /\ ~TxGate
    /\ phase' = "rx"
    /\ UNCHANGED <<slot, evictions, txq, outstanding, cadBackoff, cadErrStreak,
                   canPost, regionOk, verdict, enqueued, onAir>>

\* The channel is busy, or it is clear and the budget denies the frame or the
\* radio fails: the frame stays queued and the next attempt is deferred.
TxDefer ==
    /\ TxGate
    /\ phase' = "rx"
    /\ cadErrStreak' = 0
    /\ cadBackoff' = CadBackoff
    /\ UNCHANGED <<slot, evictions, txq, outstanding, canPost, regionOk,
                   verdict, enqueued, onAir>>

\* CAD itself fails, fewer than CAD_FAIL_LIMIT times in a row.
CadError ==
    /\ TxGate
    /\ cadErrStreak + 1 < CadFailLimit
    /\ phase' = "rx"
    /\ cadErrStreak' = cadErrStreak + 1
    /\ UNCHANGED <<slot, evictions, txq, outstanding, cadBackoff, canPost,
                   regionOk, verdict, enqueued, onAir>>

\* The channel is clear, or CAD failed CAD_FAIL_LIMIT times: transmit.
Transmit ==
    /\ TxGate
    /\ phase' = "rx"
    /\ cadErrStreak' = 0
    /\ txq' = Tail(txq)
    /\ onAir' = [s \in Sends |-> onAir[s] + (IF s = Head(txq) THEN 1 ELSE 0)]
    /\ UNCHANGED <<slot, evictions, outstanding, cadBackoff, canPost, regionOk,
                   verdict, enqueued>>

(***************************************************************************)
(* The RX poll: one frame at most.                                         *)
(***************************************************************************)
\* match_outstanding_ack, from a bare ACK and from a PATH return alike.  The
\* mesh may lose, delay, repeat or reorder ACKs, but only a transmitted frame
\* earns one.
RxAck(s) ==
    /\ phase = "rx"
    /\ onAir[s] > 0
    /\ phase' = "cmd"
    /\ verdict' = Raise(verdict, outstanding, {s}, "acked")
    /\ outstanding' = Resolve(outstanding, {s})
    /\ UNCHANGED <<slot, evictions, txq, cadBackoff, cadErrStreak, canPost,
                   regionOk, enqueued, onAir>>

\* A frame this device answers (a DM, a telemetry request, a room post): the
\* reply is queued unless the region cannot be keyed.
RxReply ==
    /\ phase = "rx"
    /\ regionOk
    /\ phase' = "cmd"
    /\ EnqueueUntracked
    /\ UNCHANGED <<slot, evictions, cadBackoff, cadErrStreak, canPost, regionOk,
                   enqueued, onAir>>

\* A login reply changes the room session's permission.
RxPermission ==
    /\ phase = "rx"
    /\ phase' = "cmd"
    /\ canPost' = ~canPost
    /\ UNCHANGED <<slot, evictions, txq, outstanding, cadBackoff, cadErrStreak,
                   regionOk, verdict, enqueued, onAir>>

RxNothing ==
    /\ phase = "rx"
    /\ phase' = "cmd"
    /\ UNCHANGED <<slot, evictions, txq, outstanding, cadBackoff, cadErrStreak,
                   canPost, regionOk, verdict, enqueued, onAir>>

(***************************************************************************)
(* The UI command drain: any number of commands per iteration.             *)
(***************************************************************************)
Sendable(s) == regionOk /\ (s \in RoomPosts => canPost)

\* SendDm / SendRoomPost: queue the frame, resolve what the queue dropped,
\* then track the send, resolving what the full table dropped.
CmdSend(s) ==
    /\ phase = "cmd"
    /\ verdict[s] = "unsent"
    /\ Sendable(s)
    /\ txq' = Enqueue(txq, s)
    /\ enqueued' = [enqueued EXCEPT ![s] = @ + 1]
    /\ LET table == Resolve(outstanding, Dropped(txq))
           vd    == Raise(verdict, outstanding, Dropped(txq), "evicted")
       IN  \E i \in Slots :
              /\ InsertsAt(table, i)
              /\ outstanding' = [table EXCEPT ![i] = NewEntry(s)]
              /\ verdict' = [t \in Sends |->
                     IF t = s THEN "pending"
                     ELSE IF Tracks(table, i, t) THEN "undelivered"
                     ELSE vd[t]]
    /\ UNCHANGED <<phase, slot, evictions, cadBackoff, cadErrStreak, canPost,
                   regionOk, onAir>>

\* Fail closed: a DM goes red at once, a room post is refused (or, for a
\* read-only session, dropped); nothing is queued.
CmdRefuse(s) ==
    /\ phase = "cmd"
    /\ verdict[s] = "unsent"
    /\ ~Sendable(s)
    /\ verdict' = [verdict EXCEPT
                      ![s] = IF s \in RoomPosts THEN "refused" ELSE "undelivered"]
    /\ UNCHANGED <<phase, slot, evictions, txq, outstanding, cadBackoff,
                   cadErrStreak, canPost, regionOk, enqueued, onAir>>

\* SendGroupMsg: an untracked frame.
CmdChannel ==
    /\ phase = "cmd"
    /\ regionOk
    /\ EnqueueUntracked
    /\ UNCHANGED <<phase, slot, evictions, cadBackoff, cadErrStreak, canPost,
                   regionOk, enqueued, onAir>>

Sooner(n) == IF n = 0 THEN 0 ELSE n - 1

\* uptime_ms() at the top of the next iteration: a tick has passed.
Tick ==
    /\ phase = "cmd"
    /\ phase' = "sweep"
    /\ outstanding' = [i \in Slots |->
           IF outstanding[i] = NoSend THEN NoSend
           ELSE [outstanding[i] EXCEPT !.age = @ + 1, !.deadline = Sooner(@)]]
    /\ cadBackoff' = Sooner(cadBackoff)
    /\ UNCHANGED <<slot, evictions, txq, cadErrStreak, canPost, regionOk,
                   verdict, enqueued, onAir>>

\* The next iteration starts within the same tick.
LoopAgain ==
    /\ phase = "cmd"
    /\ phase' = "sweep"
    /\ UNCHANGED <<slot, evictions, txq, outstanding, cadBackoff, cadErrStreak,
                   canPost, regionOk, verdict, enqueued, onAir>>

Sweep == SweepSkip \/ SweepRetry \/ SweepGiveUp \/ ResolveEviction \/ ResolveDone

CadTx == TxSkip \/ TxDefer \/ CadError \/ Transmit

RxPoll == (\E s \in Sends : RxAck(s)) \/ RxReply \/ RxPermission \/ RxNothing

UiCommand == (\E s \in Sends : CmdSend(s) \/ CmdRefuse(s)) \/ CmdChannel

Next == Sweep \/ Sched \/ CadTx \/ RxPoll \/ UiCommand \/ Tick \/ LoopAgain

Spec == Init /\ [][Next]_vars

(***************************************************************************)
(* The loop never stops (the task watchdog resets a loop that does), time  *)
(* passes, and the sweep runs once per iteration.  Nothing is assumed of   *)
(* the radio, the mesh or the user.                                        *)
(***************************************************************************)
Fairness ==
    /\ WF_vars(Sweep) /\ WF_vars(Sched) /\ WF_vars(CadTx) /\ WF_vars(RxPoll)
    /\ SF_vars(Tick)

FairSpec == Spec /\ Fairness

-----------------------------------------------------------------------------
(***************************************************************************)
(* Properties                                                              *)
(***************************************************************************)

TypeOK ==
    /\ phase \in Phases
    /\ slot \in Slots
    /\ evictions \in Seq(Sends \cup {NoTag})
    /\ txq \in Seq(Sends \cup {NoTag})
    /\ Len(txq) <= TxQueueSlots
    /\ outstanding \in [Slots -> Entry \cup {NoSend}]
    /\ cadBackoff \in 0..CadBackoff
    /\ cadErrStreak \in 0..(CadFailLimit - 1)
    /\ canPost \in BOOLEAN
    /\ regionOk \in BOOLEAN
    /\ verdict \in [Sends -> Verdicts]
    /\ enqueued \in [Sends -> Nat]
    /\ onAir \in [Sends -> Nat]

(***************************************************************************)
(* A send shows the grey check exactly while one table entry tracks it: no *)
(* bubble stays pending with nothing left to resolve it, and no resolved   *)
(* send keeps a slot (insert, resolve, sweep_expired and every eviction).  *)
(***************************************************************************)
InStep(vd, table) ==
    \A s \in Sends :
        /\ vd[s] = "pending" <=> Tracked(table, s)
        /\ \A i, j \in Slots : Tracks(table, i, s) /\ Tracks(table, j, s) => i = j

PendingIffTracked == InStep(verdict, outstanding)

(***************************************************************************)
(* A send is queued once per attempt and never more than MAX_SEND_RETRIES  *)
(* times after the original, and what was refused is never queued: the     *)
(* cap survives every interleaving of sweeps, evictions and late ACKs.     *)
(***************************************************************************)
RetriesCounted ==
    /\ \A i \in Slots : outstanding[i] # NoSend =>
           enqueued[outstanding[i].send] = outstanding[i].attempts + 1
    /\ \A s \in Sends :
           /\ enqueued[s] <= MaxSendRetries + 1
           /\ verdict[s] \in {"unsent", "refused"} => enqueued[s] = 0

(***************************************************************************)
(* A pending send has a copy of its frame queued, or had one transmitted,  *)
(* or the sweep is about to report its eviction: no send waits for the ACK *)
(* of a frame that vanished (TxQueue::enqueue's must_use contract).        *)
(***************************************************************************)
PendingHasFrame ==
    \A s \in Sends : verdict[s] = "pending" =>
        \/ onAir[s] > 0
        \/ \E k \in 1..Len(txq) : txq[k] = s
        \/ \E k \in 1..Len(evictions) : evictions[k] = s

(***************************************************************************)
(* The UI hears one final verdict per send: a late or repeated ACK, a late *)
(* eviction or a late sweep never changes a check that is already blue or  *)
(* red (resolve returns None once the entry is gone).                      *)
(***************************************************************************)
VerdictFinal ==
    [][\A s \in Sends : verdict[s] \in Final => verdict'[s] = verdict[s]]_vars

(***************************************************************************)
(* Every pending send is resolved: by its ACK, an eviction or the sweep,   *)
(* whatever the radio and the mesh do.                                     *)
(***************************************************************************)
EveryPendingResolves ==
    \A s \in Sends : verdict[s] = "pending" ~> verdict[s] \in Final
=============================================================================
