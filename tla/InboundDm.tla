------------------------------ MODULE InboundDm ------------------------------
(***************************************************************************)
(* The inbound half of a direct message: the RAM ring of packet hashes     *)
(* (DuplicateFilter) in front of every received frame, and handle_dm with  *)
(* its persisted per-contact guard (inbound_replay.rs): a high-water mark  *)
(* of accepted timestamps and a ring of accepted fingerprints, both in     *)
(* NVS.  The device may crash at any point; the RAM ring is lost then, the *)
(* guard and the history are not.                                          *)
(*                                                                         *)
(* A message is its frame: the packet hash, the fingerprint and the ACK    *)
(* hash are functions of its bytes and are taken to be injective.  The     *)
(* mesh may deliver any message at any time, in any order, any number of   *)
(* times.                                                                  *)
(***************************************************************************)
EXTENDS Integers, Sequences

CONSTANTS Messages,     \* the DMs the mesh can deliver
          NoMsg,        \* an unused ring slot; a frame that is not one of them
          Contacts,     \* the allowlist
          From,         \* who sent each message: a contact or somebody else
          Ts,           \* the timestamp each message carries
          Chat,         \* the messages whose subtype classify_inbound_dm accepts
          DedupSlots,   \* DEDUP_SLOTS
          RingLen,      \* REPLAY_RING_LEN
          RegionOk,     \* region_emission() yields a scope
          MaxHeard,     \* bound: frames heard per uptime
          MaxAccepted,  \* bound: messages accepted from one contact
          MaxCrashes,   \* bound: crashes
          MaxFaults     \* bound: flash reads and writes that fail

ASSUME InboundDmAssumption ==
    /\ NoMsg \notin Messages
    /\ Ts \in [Messages -> Nat]
    /\ Chat \subseteq Messages
    /\ DedupSlots \in Nat \ {0}
    /\ RingLen \in Nat \ {0}
    /\ RegionOk \in BOOLEAN
    /\ MaxHeard \in Nat
    /\ MaxAccepted \in Nat
    /\ MaxCrashes \in Nat
    /\ MaxFaults \in Nat

VARIABLES
    dedup,    \* DuplicateFilter, RAM
    heard,    \* history: the frames dedup recorded since boot
    nvs,      \* InboundReplayState of each contact, flash
    accepted, \* history: the messages the guard accepted from each contact
    pc,       \* where handle_dm is
    cur,      \* the message it handles
    stored,   \* the conversation history of each contact, flash
    acked,    \* the messages an ACK was queued for
    crashes,
    faults    \* flash reads and writes that failed

vars == <<dedup, heard, nvs, accepted, pc, cur, stored, acked, crashes, faults>>

-----------------------------------------------------------------------------
(***************************************************************************)
(* The ring buffer both filters use: slots 0 to n-1, the next write        *)
(* position and the number of valid slots.                                 *)
(***************************************************************************)
Rings(n) == [slot : [0..(n-1) -> Messages \cup {NoMsg}],
             head : 0..(n-1), count : 0..n]

EmptyRing(n) == [slot |-> [k \in 0..(n-1) |-> NoMsg], head |-> 0, count |-> 0]

\* is_duplicate / ring_contains: only the first count slots are valid.
RingContains(r, m) == \E k \in 0..(r.count - 1) : r.slot[k] = m

\* Variant: the write position wraps one slot early.
RingInsertWrapsEarly(r, m, n) ==
    [slot  |-> [r.slot EXCEPT ![r.head] = m],
     head  |-> IF r.head + 2 >= n THEN 0 ELSE r.head + 1,
     count |-> IF r.count < n THEN r.count + 1 ELSE r.count]

\* insert / ring_insert: overwrite the oldest entry.
RingInsert(r, m, n) ==
    [slot  |-> [r.slot EXCEPT ![r.head] = m],
     head  |-> IF r.head + 1 = n THEN 0 ELSE r.head + 1,
     count |-> IF r.count < n THEN r.count + 1 ELSE r.count]

(***************************************************************************)
(* check_and_record_inbound                                                *)
(***************************************************************************)
EmptyState == [lastTs |-> 0, ring |-> EmptyRing(RingLen)]

\* Variant: a timestamp equal to the mark takes the fast path.
AcceptsEqual(st, m) == Ts[m] >= st.lastTs \/ ~RingContains(st.ring, m)

Accepts(st, m) == Ts[m] > st.lastTs \/ ~RingContains(st.ring, m)

Record(st, m) ==
    [lastTs |-> IF Ts[m] > st.lastTs THEN Ts[m] ELSE st.lastTs,
     ring   |-> RingInsert(st.ring, m, RingLen)]

\* load_inbound_replay_state: whatever goes wrong, the empty state.
Load(c, fails) == IF fails THEN EmptyState ELSE nvs[c]

Failed(fails) == IF fails THEN 1 ELSE 0

-----------------------------------------------------------------------------
Init ==
    /\ dedup = EmptyRing(DedupSlots)
    /\ heard = <<>>
    /\ nvs = [c \in Contacts |-> EmptyState]
    /\ accepted = [c \in Contacts |-> <<>>]
    /\ pc = "idle"
    /\ cur = NoMsg
    /\ stored = [c \in Contacts |-> <<>>]
    /\ acked = {}
    /\ crashes = 0
    /\ faults = 0

\* The RX poll records a frame that is not a duplicate; a duplicate is
\* dropped without a trace.
Hear(m) ==
    /\ pc = "idle"
    /\ Len(heard) < MaxHeard
    /\ dedup' = RingInsert(dedup, m, DedupSlots)
    /\ heard' = Append(heard, m)

\* A frame of any other kind, or one of our own that was transmitted.
RxOther ==
    /\ Hear(NoMsg)
    /\ UNCHANGED <<nvs, accepted, pc, cur, stored, acked, crashes, faults>>

\* handle_dm returns before the replay gate: the sender is not on the
\* allowlist, or the subtype is not a chat message.
RxIgnore(m) ==
    /\ ~RingContains(dedup, m)
    /\ Hear(m)
    /\ From[m] \notin Contacts \/ m \notin Chat
    /\ UNCHANGED <<nvs, accepted, pc, cur, stored, acked, crashes, faults>>

Gated(m) == From[m] \in Contacts /\ m \in Chat

\* The replay gate rejects the message; nothing is written.  (A state that
\* cannot be read is empty and rejects nothing.)
RxReject(m) ==
    /\ ~RingContains(dedup, m)
    /\ Hear(m)
    /\ Gated(m)
    /\ ~Accepts(nvs[From[m]], m)
    /\ UNCHANGED <<nvs, accepted, pc, cur, stored, acked, crashes, faults>>

\* Variant: the ACK is queued as soon as the gate accepts.
RxAcceptAcksAtOnce(m) ==
    /\ ~RingContains(dedup, m)
    /\ Hear(m)
    /\ Gated(m)
    /\ Len(accepted[From[m]]) < MaxAccepted
    /\ Accepts(nvs[From[m]], m)
    /\ nvs' = [nvs EXCEPT ![From[m]] = Record(nvs[From[m]], m)]
    /\ accepted' = [accepted EXCEPT ![From[m]] = Append(@, m)]
    /\ pc' = "append"
    /\ cur' = m
    /\ acked' = acked \cup {m}
    /\ UNCHANGED <<stored, crashes, faults>>

\* The gate accepts the message and saves its new state, or fails to.
RxAccept(m) ==
    /\ ~RingContains(dedup, m)
    /\ Hear(m)
    /\ Gated(m)
    /\ Len(accepted[From[m]]) < MaxAccepted
    /\ \E readFails, saveFails \in BOOLEAN :
          LET st == Load(From[m], readFails)
          IN  /\ Accepts(st, m)
              /\ nvs' = IF saveFails THEN nvs
                        ELSE [nvs EXCEPT ![From[m]] = Record(st, m)]
              /\ faults' = faults + Failed(readFails) + Failed(saveFails)
    /\ faults' <= MaxFaults
    /\ accepted' = [accepted EXCEPT ![From[m]] = Append(@, m)]
    /\ pc' = "append"
    /\ cur' = m
    /\ UNCHANGED <<stored, acked, crashes>>

Holds(s, m) == \E k \in 1..Len(s) : s[k] = m

\* Variant: a message that is in the history already is not appended again.
AppendHistoryOnce ==
    /\ pc = "append"
    /\ stored' = IF Holds(stored[From[cur]], cur) THEN stored
                 ELSE [stored EXCEPT ![From[cur]] = Append(@, cur)]
    /\ pc' = "reply"
    /\ UNCHANGED <<dedup, heard, nvs, accepted, cur, acked, crashes, faults>>

\* append_history; a failed write is logged and the handler goes on.
AppendHistory ==
    /\ pc = "append"
    /\ \E fails \in BOOLEAN :
          /\ stored' = IF fails THEN stored
                       ELSE [stored EXCEPT ![From[cur]] = Append(@, cur)]
          /\ faults' = faults + Failed(fails)
    /\ faults' <= MaxFaults
    /\ pc' = "reply"
    /\ UNCHANGED <<dedup, heard, nvs, accepted, cur, acked, crashes>>

\* The ACK is queued, unless the region cannot be keyed.
Reply ==
    /\ pc = "reply"
    /\ acked' = IF RegionOk THEN acked \cup {cur} ELSE acked
    /\ pc' = "idle"
    /\ cur' = NoMsg
    /\ UNCHANGED <<dedup, heard, nvs, accepted, stored, crashes, faults>>

\* Power loss or a reset, in the middle of a message or between two.
Crash ==
    /\ crashes < MaxCrashes
    /\ crashes' = crashes + 1
    /\ dedup' = EmptyRing(DedupSlots)
    /\ heard' = <<>>
    /\ pc' = "idle"
    /\ cur' = NoMsg
    /\ UNCHANGED <<nvs, accepted, stored, acked, faults>>

Next ==
    \/ RxOther
    \/ \E m \in Messages : RxIgnore(m) \/ RxReject(m) \/ RxAccept(m)
    \/ AppendHistory
    \/ Reply
    \/ Crash

Spec == Init /\ [][Next]_vars

-----------------------------------------------------------------------------
(***************************************************************************)
(* Properties                                                              *)
(***************************************************************************)

States == [lastTs : Nat, ring : Rings(RingLen)]

TypeOK ==
    /\ dedup \in Rings(DedupSlots)
    /\ heard \in Seq(Messages \cup {NoMsg})
    /\ nvs \in [Contacts -> States]
    /\ accepted \in [Contacts -> Seq(Messages)]
    /\ pc \in {"idle", "append", "reply"}
    /\ cur \in Messages \cup {NoMsg}
    /\ pc # "idle" => cur \in Messages /\ From[cur] \in Contacts
    /\ stored \in [Contacts -> Seq(Messages)]
    /\ acked \subseteq Messages
    /\ crashes \in Nat
    /\ faults \in Nat

(***************************************************************************)
(* No message m repeats in s with fewer than n others in between.          *)
(***************************************************************************)
Apart(s, n) ==
    \A i, j \in 1..Len(s) : i < j /\ s[i] = s[j] /\ s[i] \in Messages => j - i > n

(***************************************************************************)
(* The residual window of inbound_replay.rs is exactly as wide as its      *)
(* documentation says: a message is accepted again only after at least     *)
(* REPLAY_RING_LEN others from the same contact, however its timestamps    *)
(* jump, whatever arrives in between and however often the device resets,  *)
(* as long as flash works.                                                 *)
(***************************************************************************)
NoEarlyReaccept == faults = 0 => \A c \in Contacts : Apart(accepted[c], RingLen)

(***************************************************************************)
(* Between two passes of one frame through DuplicateFilter in one uptime   *)
(* at least DEDUP_SLOTS other frames were recorded, even when flash fails. *)
(***************************************************************************)
DedupWindow == Apart(heard, DedupSlots)

(***************************************************************************)
(* A message is acknowledged to its sender only once it is in the history: *)
(* no crash makes an acknowledged message vanish (handle_dm's order).      *)
(***************************************************************************)
AckedIsStored ==
    faults = 0 => \A m \in acked : Holds(stored[From[m]], m)

InFlight(c) == IF pc = "append" /\ From[cur] = c THEN 1 ELSE 0

(***************************************************************************)
(* A crash or a failed write loses at most one accepted message of a       *)
(* contact, the one that handle_dm was storing: what the guard will reject *)
(* from now on is in the history but for those.                            *)
(***************************************************************************)
LossBounded ==
    \A c \in Contacts :
        Len(accepted[c]) <= Len(stored[c]) + crashes + faults + InFlight(c)
=============================================================================
