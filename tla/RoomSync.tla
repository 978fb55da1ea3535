------------------------------ MODULE RoomSync ------------------------------
(***************************************************************************)
(* One room: the client's session (watermarks, route, dedup tail, NVS      *)
(* copy, conversation in flash) against the room server, over a mesh that  *)
(* loses, duplicates and reorders frames, with reboots of the client.      *)
(*                                                                         *)
(* Timestamps are what both sides check replays with: the client stamps    *)
(* every login, keep-alive and post from one counter that must outrun      *)
(* everything the server has seen, the server stamps posts from its own.   *)
(* When the client sends is left open (RoomDrain has the cadences); that   *)
(* it sends is not.  A post is known by its server stamp.                  *)
(***************************************************************************)
EXTENDS Naturals, FiniteSetsExt, SequencesExt

CONSTANTS RingCap,      \* MAX_UNSYNCED_POSTS
          RecentCap,    \* ROOM_RECENT_CAP
          HistoryKeep,  \* MAX_HISTORY_ENTRIES
          Slack,        \* SYNC_SINCE_SERVER_CLOCK_SLACK_SECS
          Kinds,        \* kinds of text: subset of {"plain", "colon", "long"}
          Seeds,        \* sync_since values a room may be provisioned with
          NetCap,       \* bound: frames in flight
          MaxTs,        \* bound: frames the client stamps
          MaxPosts,     \* bound: posts of other members
          MaxOwn,       \* bound: posts of the client
          MaxReboots    \* bound: reboots of the client

ASSUME RoomSyncAssumption ==
    /\ {RingCap, RecentCap, HistoryKeep} \subseteq Nat \ {0}
    /\ {Slack, NetCap, MaxTs, MaxPosts, MaxOwn, MaxReboots} \subseteq Nat
    /\ Kinds \subseteq {"plain", "colon", "long"}
    /\ Seeds \subseteq Nat /\ Seeds # {}
    /\ RecentCap <= HistoryKeep
    \* A behaviour is shorter than the slack, a day: before the resync is out, the
    \* server's clock does not reach a watermark that the client has given up.
    /\ MaxTs + MaxPosts <= Slack

VARIABLES
    session,   \* RAM: PersistedRoomSession
    nvs,       \* its saved copy
    ram,       \* RAM: login_sent, pending keep-alive, resync_pending, clock
    recent,    \* RAM: RoomRuntime::recent, the dedup tail
    out,       \* RAM: stamps of own posts still retried
    history,   \* flash: the room's conversation, other members' posts only
    acked,     \* history: own posts reported delivered
    server,    \* the server's record of this client
    ring,      \* the server's cyclic post queue, oldest first
    clock,     \* the server's last unique timestamp
    stored,    \* history: own posts the server stored, in order
    posted,    \* history: how many posts other members made
    base,      \* history: the watermark the client was told to start from
    net,       \* frames in flight
    reboots

client == <<session, nvs, ram, recent, out, history, acked, base, reboots>>
serverVars == <<server, ring, clock, stored, posted>>
vars == <<client, serverVars, net>>

Own == "own"                       \* the author of the client's posts
Floor == 1                         \* SYNC_SINCE_REWIND_FLOOR
Routes == {"none", "zero", "hops"} \* has_route: not "none"

\* SeqTail(s, n): the last n elements of s, what a bounded ring keeps
SeqTail(s, n) == IF Len(s) <= n THEN s ELSE SubSeq(s, Len(s) - n + 1, Len(s))

-----------------------------------------------------------------------------
(***************************************************************************)
(* The mesh.  A frame sent may be lost; frames in flight arrive in any     *)
(* order.  Copies of one frame are dropped by the duplicate filter (see    *)
(* InboundDm); what arrives twice is what its sender sends again.          *)
(***************************************************************************)
Sent(n, f) == {n} \cup (IF Cardinality(n) < NetCap THEN {n \cup {f}} ELSE {})

Rest(f) == net \ {f}

Login(ts, since)   == [to |-> "server", kind |-> "login", ts |-> ts, arg |-> since]
KeepAlive(ts, frc) == [to |-> "server", kind |-> "ka", ts |-> ts, arg |-> frc]
Post(ts)           == [to |-> "server", kind |-> "post", ts |-> ts, arg |-> 0]
PushAck(ts)        == [to |-> "server", kind |-> "ack", ts |-> ts, arg |-> 0]
Reply(ts, path)    == [to |-> "client", kind |-> "reply", ts |-> ts, arg |-> path]
Push(post)         == [to |-> "client", kind |-> "push", ts |-> post.ts, arg |-> post.kind]
KaAck(ts)          == [to |-> "client", kind |-> "kaAck", ts |-> ts, arg |-> 0]
PostAck(ts)        == [to |-> "client", kind |-> "postAck", ts |-> ts, arg |-> 0]

-----------------------------------------------------------------------------
(***************************************************************************)
(* The client's pure decisions.                                            *)
(***************************************************************************)
MaxOf(a, b) == IF a > b THEN a ELSE b

\* room_tx_timestamp; no trusted clock reads 0
TxTimestamp(wall, last) == MaxOf(wall, last + 1)

\* reconcile_sync_since
Reconcile(since, serverTs) ==
    IF serverTs # 0 /\ since > serverTs + Slack /\ since # Floor
    THEN Floor ELSE since

\* is_duplicate_post: the stored text is cut at MAX_HISTORY_TEXT_LEN, and a
\* leading "<name>: " is stripped from it whether the client put it there
\* (an entry read back from flash) or the author did (a live one).
Matches(e, ts, kind) ==
    /\ e.ts = ts
    /\ kind = "plain" \/ (kind = "colon" /\ ~e.live)

Duplicate(ts, kind) == \E i \in 1..Len(recent) : Matches(recent[i], ts, kind)

\* Variant: the tail keeps the last post only.
RememberOne(ts) == <<[ts |-> ts, live |-> TRUE]>>

\* The dedup tail after one more post.
Remember(ts) ==
    Append(IF Len(recent) >= RecentCap THEN Tail(recent) ELSE recent,
           [ts |-> ts, live |-> TRUE])

\* hydrate: the tail a reboot starts from
Rehydrated(h) ==
    LET kept == SeqTail(h, HistoryKeep)
    IN  [i \in 1..Len(kept) |-> [ts |-> kept[i].ts, live |-> FALSE]]

\* The session a boot resumes: a zero-hop route is not in the blob.
Resumed(s) == [s EXCEPT !.route = IF @ = "hops" THEN "hops" ELSE "none"]

FreshRam == [loggedIn |-> FALSE, ka |-> 0, resync |-> TRUE, wall |-> 0]

\* Variant: a send is not written through to NVS.
StampedRamOnly(ts) ==
    /\ session' = [session EXCEPT !.last = MaxOf(@, ts)]
    /\ UNCHANGED nvs

\* record_sent_timestamp and save_room_session, at every send
Stamped(ts) ==
    /\ session' = [session EXCEPT !.last = MaxOf(@, ts)]
    /\ nvs' = session'

-----------------------------------------------------------------------------
Init ==
    /\ \E since \in Seeds :
          /\ session = [post |-> FALSE, since |-> since, last |-> 0, route |-> "none"]
          /\ base = since
    /\ nvs = session
    /\ ram = FreshRam
    /\ recent = <<>>
    /\ out = {}
    /\ history = <<>>
    /\ acked = {}
    /\ \E grant \in BOOLEAN :
          server = [known |-> FALSE, grant |-> grant, since |-> 0, last |-> 0,
                    pending |-> 0]
    /\ ring = <<>>
    /\ clock = Floor
    /\ stored = <<>>
    /\ posted = 0
    /\ net = {}
    /\ reboots = 0

(***************************************************************************)
(* The client sends.                                                       *)
(***************************************************************************)
\* The next stamp: of a login, a keep-alive or a post.
NextTs == TxTimestamp(ram.wall, session.last)

\* The flood login of a boot, and the re-flood while there is no route.
SendLogin ==
    /\ ram.loggedIn => session.route = "none"
    /\ NextTs <= MaxTs
    /\ net' \in Sent(net, Login(NextTs, session.since))
    /\ Stamped(NextTs)
    /\ ram' = [ram EXCEPT !.loggedIn = TRUE]
    /\ UNCHANGED <<recent, out, history, acked, base, reboots, serverVars>>

SendKeepAlive ==
    /\ ram.loggedIn /\ session.route # "none" /\ ram.ka = 0
    /\ NextTs <= MaxTs
    /\ net' \in Sent(net, KeepAlive(NextTs, IF ram.resync THEN session.since ELSE 0))
    /\ Stamped(NextTs)
    /\ ram' = [ram EXCEPT !.ka = NextTs, !.resync = FALSE]
    /\ UNCHANGED <<recent, out, history, acked, base, reboots, serverVars>>

\* The stall detector gives the route up.
LoseRoute ==
    /\ ram.ka # 0 /\ session.route # "none"
    /\ session' = [session EXCEPT !.route = "none"]
    /\ nvs' = session'
    /\ ram' = [ram EXCEPT !.ka = 0]
    /\ UNCHANGED <<recent, out, history, acked, base, reboots, serverVars, net>>

\* UiCommand::SendRoomPost
SendPost ==
    /\ session.post
    /\ Cardinality(out) + Cardinality(acked) < MaxOwn
    /\ NextTs <= MaxTs
    /\ net' \in Sent(net, Post(NextTs))
    /\ Stamped(NextTs)
    /\ out' = out \cup {NextTs}
    /\ UNCHANGED <<ram, recent, history, acked, base, reboots, serverVars>>

\* The auto-retry sends the same frame again, with the stamp it had.
RetryPost(ts) ==
    /\ Post(ts) \notin net
    /\ Cardinality(net) < NetCap
    /\ net' = net \cup {Post(ts)}
    /\ UNCHANGED <<client, serverVars>>

(***************************************************************************)
(* The client receives.                                                    *)
(***************************************************************************)
\* apply_room_login_outcome; adopt_server_clock never goes back
RxReply(f) ==
    /\ session' = [session EXCEPT
                      !.post  = server.grant,
                      !.route = IF f.arg = "none" THEN @ ELSE f.arg,
                      !.since = Reconcile(@, f.ts)]
    /\ nvs' = session'
    /\ base' = IF session'.since # session.since THEN Floor ELSE base
    /\ ram' = [ram EXCEPT !.resync = TRUE, !.wall = MaxOf(@, f.ts)]
    /\ net' = Rest(f)
    /\ UNCHANGED <<recent, out, history, acked, reboots, serverVars>>

\* handle_room_push_frame
RxPush(f) ==
    /\ net' \in Sent(Rest(f), PushAck(f.ts))
    /\ IF Duplicate(f.ts, f.arg) THEN UNCHANGED <<history, recent>>
       ELSE /\ history' = Append(history, [ts |-> f.ts, kind |-> f.arg])
            /\ recent' = Remember(f.ts)
    /\ session' = [session EXCEPT !.since = MaxOf(@, f.ts)]
    /\ nvs' = session'
    /\ ram' = [ram EXCEPT !.wall = MaxOf(@, f.ts)]
    /\ UNCHANGED <<out, acked, base, reboots, serverVars>>

\* handle_ack: a keep-alive's, a post's
RxKaAck(f) ==
    /\ ram' = IF ram.ka = f.ts THEN [ram EXCEPT !.ka = 0] ELSE ram
    /\ net' = Rest(f)
    /\ UNCHANGED <<session, nvs, recent, out, history, acked, base, reboots,
                   serverVars>>

RxPostAck(f) ==
    /\ out' = out \ {f.ts}
    /\ acked' = IF f.ts \in out THEN acked \cup {f.ts} ELSE acked
    /\ net' = Rest(f)
    /\ UNCHANGED <<session, nvs, ram, recent, history, base, reboots, serverVars>>

\* A reboot, after the flash holds h.
BootWith(h) ==
    /\ reboots < MaxReboots
    /\ reboots' = reboots + 1
    /\ session' = Resumed(nvs)
    /\ ram' = FreshRam
    /\ recent' = Rehydrated(h)
    /\ out' = {}
    /\ history' = h
    /\ UNCHANGED <<nvs, acked, base, serverVars>>

Reboot == BootWith(history) /\ UNCHANGED net

\* Variant: the watermark is saved before the post is.
RxPushCutShortEarly(f) ==
    /\ reboots < MaxReboots
    /\ reboots' = reboots + 1
    /\ nvs' = [session EXCEPT !.since = MaxOf(@, f.ts)]
    /\ session' = Resumed(nvs')
    /\ ram' = FreshRam
    /\ recent' = Rehydrated(history)
    /\ out' = {}
    /\ net' = Rest(f)
    /\ UNCHANGED <<history, acked, base, serverVars>>

\* Power is lost inside handle_room_push_frame, after append_history: the ACK
\* is still in the TX queue and the watermark not saved.
RxPushCutShort(f) ==
    /\ BootWith(IF Duplicate(f.ts, f.arg) THEN history
                ELSE Append(history, [ts |-> f.ts, kind |-> f.arg]))
    /\ net' = Rest(f)

(***************************************************************************)
(* The room server (RoomServerDouble).                                     *)
(***************************************************************************)
\* getCurrentTimeUnique, while the clock stands still
Unique == clock + 1

\* handle_login
SrvLogin(f) ==
    /\ IF server.known /\ f.ts <= server.last
       THEN net' = Rest(f) /\ UNCHANGED <<server, clock>>
       ELSE /\ server' = [server EXCEPT !.known = TRUE, !.since = f.arg,
                                        !.last = f.ts, !.pending = 0]
            /\ clock' = Unique
            /\ \E path \in Routes : net' \in Sent(Rest(f), Reply(Unique, path))
    /\ UNCHANGED <<client, ring, stored, posted>>

\* Variant: an equal stamp is not taken for a retry.
SrvPostAgain(f) ==
    /\ IF ~server.known \/ f.ts < server.last
       THEN net' = Rest(f) /\ UNCHANGED <<server, clock, ring, stored>>
       ELSE /\ server' = [server EXCEPT !.last = f.ts]
            /\ clock' = Unique
            /\ ring' = SeqTail(Append(ring, [ts |-> Unique, kind |-> Own]), RingCap)
            /\ stored' = Append(stored, f.ts)
            /\ net' \in Sent(Rest(f), PostAck(f.ts))
    /\ UNCHANGED <<client, posted>>

\* handle_post: an equal stamp is a retry, acknowledged and not stored
SrvPost(f) ==
    /\ IF ~server.known \/ f.ts < server.last
       THEN net' = Rest(f) /\ UNCHANGED <<server, clock, ring, stored>>
       ELSE /\ server' = [server EXCEPT !.last = f.ts]
            /\ IF ~server.grant \/ f.ts = server.last
               THEN UNCHANGED <<clock, ring, stored>>
               ELSE /\ clock' = Unique
                    /\ ring' = SeqTail(Append(ring, [ts |-> Unique, kind |-> Own]), RingCap)
                    /\ stored' = Append(stored, f.ts)
            /\ net' \in (IF server.grant THEN Sent(Rest(f), PostAck(f.ts)) ELSE {Rest(f)})
    /\ UNCHANGED <<client, posted>>

\* handle_keep_alive
SrvKeepAlive(f) ==
    /\ IF ~server.known \/ f.ts < server.last
       THEN net' = Rest(f) /\ UNCHANGED server
       ELSE /\ server' = [server EXCEPT !.last = f.ts, !.pending = 0,
                                        !.since = IF f.arg > 0 THEN f.arg ELSE @]
            /\ net' \in Sent(Rest(f), KaAck(f.ts))
    /\ UNCHANGED <<client, ring, clock, stored, posted>>

\* handle_ack
SrvAck(f) ==
    /\ server' = IF server.pending = f.ts
                 THEN [server EXCEPT !.pending = 0, !.since = f.ts] ELSE server
    /\ net' = Rest(f)
    /\ UNCHANGED <<client, ring, clock, stored, posted>>

Unsynced == {i \in 1..Len(ring) : ring[i].ts > server.since /\ ring[i].kind # Own}

\* push_next: one post at a time, the oldest first
SrvPush ==
    /\ server.known /\ server.pending = 0
    /\ Unsynced # {}
    /\ LET post == ring[Min(Unsynced)]
       IN  /\ server' = [server EXCEPT !.pending = post.ts]
           /\ net' \in Sent(net, Push(post))
    /\ UNCHANGED <<client, ring, clock, stored, posted>>

\* Another member posts.
OtherPosts(kind) ==
    /\ posted < MaxPosts
    /\ clock' = Unique
    /\ ring' = SeqTail(Append(ring, [ts |-> Unique, kind |-> kind]), RingCap)
    /\ posted' = posted + 1
    /\ UNCHANGED <<client, server, stored, net>>

Rx(f) ==
    CASE f.kind = "reply"   -> RxReply(f)
      [] f.kind = "push"    -> RxPush(f) \/ RxPushCutShort(f)
      [] f.kind = "kaAck"   -> RxKaAck(f)
      [] f.kind = "postAck" -> RxPostAck(f)
      [] f.kind = "login"   -> SrvLogin(f)
      [] f.kind = "post"    -> SrvPost(f)
      [] f.kind = "ka"      -> SrvKeepAlive(f)
      [] f.kind = "ack"     -> SrvAck(f)

Next ==
    \/ SendLogin \/ SendKeepAlive \/ LoseRoute \/ SendPost \/ Reboot
    \/ \E ts \in out : RetryPost(ts)
    \/ SrvPush
    \/ \E kind \in Kinds : OtherPosts(kind)
    \/ \E f \in net : Rx(f)

Spec == Init /\ [][Next]_vars

-----------------------------------------------------------------------------
TypeOK ==
    /\ {session, nvs} \subseteq [post : BOOLEAN, since : Nat, last : 0..MaxTs,
                                 route : Routes]
    /\ ram \in [loggedIn : BOOLEAN, ka : 0..MaxTs, resync : BOOLEAN, wall : Nat]
    /\ recent \in Seq([ts : Nat, live : BOOLEAN])
    /\ out \subseteq 1..MaxTs /\ acked \subseteq 1..MaxTs
    /\ history \in Seq([ts : Nat, kind : Kinds])
    /\ server \in [known : BOOLEAN, grant : BOOLEAN, since : Nat,
                   last : 0..MaxTs, pending : Nat]
    /\ ring \in Seq([ts : Nat, kind : Kinds \cup {Own}]) /\ Len(ring) <= RingCap
    /\ Cardinality(net) <= NetCap
    /\ reboots \in 0..MaxReboots

\* What a reboot resumes from outruns every stamp the server has seen or may
\* still see, so the login that follows is never dropped as a replay: the
\* watermark is written through before the frame can leave the TX queue.
ResumeOutrunsServer ==
    /\ server.last <= nvs.last
    /\ \A f \in net : f.kind \in {"login", "ka", "post"} => f.ts <= nvs.last

\* The stamps in RAM, in flash, at the server and in flight keep their order.
StampInv == TypeOK /\ ResumeOutrunsServer

\* Retries, duplicates and reordering store a post of ours at most once, and
\* posts in the order they were written: a retry overtaken by a later frame
\* is dropped rather than stored late.
StoredInOrder ==
    \A i, j \in 1..Len(stored) : i < j => stored[i] < stored[j]

\* A post reported delivered is one the server stored.
DeliveredIsStored == \A ts \in acked : \E i \in 1..Len(stored) : stored[i] = ts

\* A post of ours, retried and reordered, is stored once, in order, and reported
\* delivered only if it was.
OwnPostsOnce == StoredInOrder /\ DeliveredIsStored

\* The watermark never passes over a post that the server still had: what
\* the client says it has, up to the saved watermark, is in its history.
NoSilentGap ==
    \A i \in 1..Len(ring) :
        (ring[i].kind # Own /\ ring[i].ts > base /\ ring[i].ts <= nvs.since)
            => \E j \in 1..Len(history) : history[j].ts = ring[i].ts

\* A plain post enters the history twice only when more than the dedup
\* tail's length of posts came in between.
PlainPostsApart ==
    \A i, j \in 1..Len(history) :
        (i < j /\ history[i] = history[j] /\ history[i].kind = "plain")
            => j - i > RecentCap
=============================================================================
