---------------------------- MODULE DeliveryMarks ----------------------------
(***************************************************************************)
(* Which bubble gets which check mark: one DM conversation, from the UI    *)
(* task that renders it, over the bounded command and event queues, to the *)
(* dispatcher that sends the messages, learns their fate and keeps them in *)
(* flash; and back to a fresh UI after a reboot.                           *)
(*                                                                         *)
(* A message is its own ACK hash.  What becomes of a send (TxDispatch) is  *)
(* abstracted to "acknowledged" or "given up", once, at any later time.    *)
(* Received messages and notices are left out: no mark searches them.      *)
(***************************************************************************)
EXTENDS Naturals, Sequences, FiniteSetsExt

CONSTANTS Messages,         \* the DMs the user composes, each once
          NoTag,            \* MessageRecord::ack_hash is None
          CommandQueueCap,  \* COMMAND_QUEUE_CAP
          EventQueueCap,    \* EVENT_QUEUE_CAP
          MaxReboots        \* bound: reboots

ASSUME DeliveryMarksAssumption ==
    /\ NoTag \notin Messages
    /\ CommandQueueCap \in Nat \ {0}
    /\ EventQueueCap \in Nat \ {0}
    /\ MaxReboots \in Nat

VARIABLES
    bubbles,      \* UI: the conversation's own records, oldest first
    commands,     \* UI -> dispatcher: SendDm commands
    events,       \* dispatcher -> UI: events
    composed,     \* messages composed so far
    outstanding,  \* dispatcher: sends without a verdict
    fate,         \* history: what became of each message
    region,       \* the conversation's region: own entries and their ack bits
    regionOk,     \* region_emission() yields a scope (fixed at provisioning)
    reboots,
    smooth        \* history: no full queue dropped anything and no reboot

marksVars == <<bubbles, commands, events, composed, outstanding, fate, region,
               regionOk, reboots, smooth>>

Marks == {"Pending", "Acked", "Undelivered"}

Bubble == [msg : Messages, mark : Marks, tag : Messages \cup {NoTag}]

Event == [kind : {"DmQueued", "DmAcked", "DmUndelivered"}, msg : Messages]

-----------------------------------------------------------------------------
(***************************************************************************)
(* The searches over the records of a conversation.                        *)
(***************************************************************************)
Tagged(b, m) == {i \in 1..Len(b) : b[i].tag = m}

Pending(b) == {i \in 1..Len(b) : b[i].mark = "Pending"}

\* Variant: the newest untagged record is tagged.
TagNewestUntagged(b, m) ==
    LET untagged == Pending(b) \cap Tagged(b, NoTag)
    IN  IF untagged = {} THEN b ELSE [b EXCEPT ![Max(untagged)].tag = m]

\* tag_oldest_untagged_outbound
TagOldestUntagged(b, m) ==
    LET untagged == Pending(b) \cap Tagged(b, NoTag)
    IN  IF untagged = {} THEN b ELSE [b EXCEPT ![Min(untagged)].tag = m]

\* mark_last_unacked_outbound, and its counterpart in DmUndelivered's arm
MarkNewestPending(b, mark) ==
    IF Pending(b) = {} THEN b ELSE [b EXCEPT ![Max(Pending(b))].mark = mark]

\* mark_delivery_by_ack_hash, else the fallback
Mark(b, m, mark) ==
    IF Tagged(b, m) # {}
    THEN [b EXCEPT ![Min(Tagged(b, m))].mark = mark]
    ELSE MarkNewestPending(b, mark)

\* UiRuntime's event handler
Handle(b, ev) ==
    CASE ev.kind = "DmQueued"      -> TagOldestUntagged(b, ev.msg)
      [] ev.kind = "DmAcked"       -> Mark(b, ev.msg, "Acked")
      [] ev.kind = "DmUndelivered" -> Mark(b, ev.msg, "Undelivered")

\* try_send on a bounded queue: what does not fit is dropped.
Offer(q, cap, x) == IF Len(q) < cap THEN Append(q, x) ELSE q

\* send_or_count
Raise(kind, m) ==
    /\ events' = Offer(events, EventQueueCap, [kind |-> kind, msg |-> m])
    /\ smooth' = (smooth /\ Len(events) < EventQueueCap)

Unacked(f) == {i \in 1..Len(f) : ~f[i].acked}

\* Variant: the newest entry is rewritten whether or not it is acked already.
FlashMarkNewest(f) == IF f = <<>> THEN f ELSE [f EXCEPT ![Len(f)].acked = TRUE]

\* HistoryStore::mark_last_ours_acked, find_newest_ours_unacked
FlashMark(f) ==
    IF Unacked(f) = {} THEN f ELSE [f EXCEPT ![Max(Unacked(f))].acked = TRUE]

\* hydrate: the records a fresh UI starts from.
Restore(f) ==
    [i \in 1..Len(f) |-> [msg  |-> f[i].msg,
                          mark |-> IF f[i].acked THEN "Acked" ELSE "Pending",
                          tag  |-> NoTag]]

-----------------------------------------------------------------------------
MarksInit ==
    /\ bubbles = <<>>
    /\ commands = <<>>
    /\ events = <<>>
    /\ composed = {}
    /\ outstanding = {}
    /\ fate = [m \in Messages |-> "Pending"]
    /\ region = <<>>
    /\ regionOk \in BOOLEAN
    /\ reboots = 0
    /\ smooth = TRUE

\* on_send_message: the bubble first, then the command; try_send_command
\* refuses it when the queue is full, and the bubble stays.
Compose(m) ==
    /\ m \notin composed
    /\ composed' = composed \cup {m}
    /\ bubbles' = Append(bubbles, [msg |-> m, mark |-> "Pending", tag |-> NoTag])
    /\ commands' = Offer(commands, CommandQueueCap, m)
    /\ smooth' = (smooth /\ Len(commands) < CommandQueueCap)
    /\ UNCHANGED <<events, outstanding, fate, region, regionOk, reboots>>

\* The dispatcher's SendDm arm: track the send, raise DmQueued, keep it in
\* flash.
SendDm ==
    /\ commands # <<>>
    /\ regionOk
    /\ commands' = Tail(commands)
    /\ outstanding' = outstanding \cup {Head(commands)}
    /\ Raise("DmQueued", Head(commands))
    /\ region' = Append(region, [msg |-> Head(commands), acked |-> FALSE])
    /\ UNCHANGED <<bubbles, composed, fate, regionOk, reboots>>

\* Its fail-closed branch: nothing is sent.
SendDmRefused ==
    /\ commands # <<>>
    /\ ~regionOk
    /\ commands' = Tail(commands)
    /\ fate' = [fate EXCEPT ![Head(commands)] = "Undelivered"]
    /\ Raise("DmUndelivered", Head(commands))
    /\ UNCHANGED <<bubbles, composed, outstanding, region, regionOk, reboots>>

\* handle_ack / handle_path_return: flash first, then the event.
RxAck(m) ==
    /\ m \in outstanding
    /\ outstanding' = outstanding \ {m}
    /\ fate' = [fate EXCEPT ![m] = "Acked"]
    /\ region' = FlashMark(region)
    /\ Raise("DmAcked", m)
    /\ UNCHANGED <<bubbles, commands, composed, regionOk, reboots>>

\* The deadline sweep or an eviction.
GiveUp(m) ==
    /\ m \in outstanding
    /\ outstanding' = outstanding \ {m}
    /\ fate' = [fate EXCEPT ![m] = "Undelivered"]
    /\ Raise("DmUndelivered", m)
    /\ UNCHANGED <<bubbles, commands, composed, region, regionOk, reboots>>

\* The UI task takes one event.
UiTake ==
    /\ events # <<>>
    /\ events' = Tail(events)
    /\ bubbles' = Handle(bubbles, Head(events))
    /\ UNCHANGED <<commands, composed, outstanding, fate, region, regionOk,
                   reboots, smooth>>

\* Power loss and boot: only flash survives; BootSeed fills the UI.
MarksReboot ==
    /\ reboots < MaxReboots
    /\ reboots' = reboots + 1
    /\ smooth' = FALSE
    /\ bubbles' = Restore(region)
    /\ commands' = <<>>
    /\ events' = <<>>
    /\ outstanding' = {}
    /\ UNCHANGED <<composed, fate, region, regionOk>>

MarksNext ==
    \/ \E m \in Messages : Compose(m) \/ RxAck(m) \/ GiveUp(m)
    \/ SendDm
    \/ SendDmRefused
    \/ UiTake
    \/ MarksReboot

MarksSpec == MarksInit /\ [][MarksNext]_marksVars

-----------------------------------------------------------------------------
(***************************************************************************)
(* Properties                                                              *)
(***************************************************************************)

MarksTypeOK ==
    /\ bubbles \in Seq(Bubble)
    /\ commands \in Seq(Messages) /\ Len(commands) <= CommandQueueCap
    /\ events \in Seq(Event) /\ Len(events) <= EventQueueCap
    /\ composed \subseteq Messages
    /\ outstanding \subseteq composed
    /\ fate \in [Messages -> Marks]
    /\ region \in Seq([msg : Messages, acked : BOOLEAN])
    /\ regionOk \in BOOLEAN
    /\ reboots \in 0..MaxReboots
    /\ smooth \in BOOLEAN

(***************************************************************************)
(* Once the queues are drained every bubble shows what became of its own   *)
(* message, however the sends, the ACKs of several outstanding DMs and the *)
(* two queues interleave: oldest-first tagging pairs each DmQueued with    *)
(* its bubble (tag_oldest_untagged_outbound).  It holds as long as neither *)
(* queue has dropped anything and the device has not rebooted.             *)
(***************************************************************************)
QuietAgrees ==
    smooth /\ commands = <<>> /\ events = <<>> =>
        \A i \in 1..Len(bubbles) : bubbles[i].mark = fate[bubbles[i].msg]

AckedMessages == {m \in Messages : fate[m] = "Acked"}

(***************************************************************************)
(* The conversation never shows more blue checks than ACKs were received,  *)
(* whatever events a full queue drops and over any reboot: every DmAcked   *)
(* turns at most one bubble blue.                                          *)
(***************************************************************************)
NoExtraAcks ==
    Cardinality({i \in 1..Len(bubbles) : bubbles[i].mark = "Acked"})
        <= Cardinality(AckedMessages)

(***************************************************************************)
(* Flash holds exactly one ack bit per ACK received: mark_last_ours_acked  *)
(* always finds an entry to flip, after any reboot and in any order of     *)
(* ACKs.                                                                   *)
(***************************************************************************)
FlashCountsAcks ==
    Cardinality((1..Len(region)) \ Unacked(region)) = Cardinality(AckedMessages)

(***************************************************************************)
(* The marks stay within the ACKs received, on the screen and in flash,    *)
(* over full queues and reboots.                                           *)
(***************************************************************************)
MarksInv == MarksTypeOK /\ NoExtraAcks /\ FlashCountsAcks
=============================================================================
