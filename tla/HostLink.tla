------------------------------ MODULE HostLink ------------------------------
(***************************************************************************)
(* The provisioning link: a host session (the CLI, or the browser's)       *)
(* talking over USB serial to the device's frame server.  Frames carry no  *)
(* sequence number; the only pairing of a reply with its command is the    *)
(* order of arrival and the frame's type.  The host sends a command again  *)
(* when an attempt times out; the device answers every copy it gets.       *)
(* A command frame may be lost; the device may reset.                      *)
(*                                                                         *)
(* Log text between frames and the byte-level resynchronisation are left   *)
(* out: a frame arrives whole, or is cut by a flush and so not at all.     *)
(***************************************************************************)
EXTENDS Naturals, FiniteSets, SequencesExt

CONSTANTS Items,       \* what the commands add and delete: contacts, channels
          MaxItems,    \* MAX_CONTACTS, MAX_CHANNELS
          MaxStray,    \* MAX_STRAY_FRAMES
          MaxSends,    \* bound: attempts within retry_total_ms
          MaxCommands, \* bound: commands of one behaviour
          MaxResets,   \* bound: device resets
          MaxClock     \* bound: the host's clock

ASSUME HostLinkAssumption ==
    /\ {MaxItems, MaxSends, MaxCommands} \subseteq Nat \ {0}
    /\ {MaxStray, MaxResets, MaxClock} \subseteq Nat

VARIABLES
    client,   \* "cli" (host/src/session.rs) or "web" (session.js)
    server,   \* "prov" (appends contacts) or "admin" (upserts)
    host,     \* the command in hand, where it is, and what it has
    toDev,    \* frames on their way to the device
    toHost,   \* frames on their way to the host
    inbox,    \* the host's kernel and accumulation buffers
    items,    \* the device's list
    lastTs,   \* mc_adv: the timestamp of the last card
    issued,   \* history: number of commands issued
    applied,  \* history: the device has carried out the command in hand
    unearned, \* history: an edit was reported done that was not
    resent,   \* history: of edits and listings, what was sent twice or given up
    whole,    \* history: every listing returned was all of an answer
    cards,    \* history: the timestamps of the cards the host was given
    resets

devVars == <<items, lastTs, applied, resets>>
wireVars == <<toDev, toHost, inbox>>
linkVars == <<client, server, host, wireVars, devVars, issued, unearned, resent, whole, cards>>

-----------------------------------------------------------------------------
Commands ==
    [kind : {"add", "del"}, item : Items]
    \cup [kind : {"list", "status"}]
    \cup [kind : {"advert"}, clock : 0..MaxClock]

Frame(type) == [type |-> type]

IsEdit(c) == c.kind \in {"add", "del"}

Doubtful(c) == IF IsEdit(c) THEN {"edit"} ELSE {c.kind} \cap {"list"}

\* The type of the frame(s) a command's first reply may have.
Expected(c) ==
    CASE IsEdit(c)          -> {"OK"}
      [] c.kind = "list"    -> {"ENTRY", "DONE"}
      [] c.kind = "status"  -> {"STATUS"}
      [] c.kind = "advert"  -> {"ADVERT"}

Idle == [phase |-> "idle"]

\* phase: "wait" for a reply, "again" between a timeout and the next send,
\* "stream" in a listing, "second" for RSP_IDENTITY
Busy(c) == [phase |-> "wait", cmd |-> c, sends |-> 1, stray |-> 0, got |-> 0]

LinkInit ==
    /\ client \in {"cli", "web"} /\ server \in {"prov", "admin"}
    /\ host = Idle
    /\ toDev = <<>> /\ toHost = <<>> /\ inbox = <<>>
    /\ items = <<>> /\ lastTs = 0
    /\ issued = 0 /\ applied = FALSE /\ unearned = FALSE /\ resent = {}
    /\ whole = TRUE /\ cards = <<>> /\ resets = 0

-----------------------------------------------------------------------------
(***************************************************************************)
(* The device: one frame at a time, every reply in order.                  *)
(***************************************************************************)
\* Variant: the host's clock alone stamps the card.
NextAdvertTimestampHost(clock, last) == clock

NextAdvertTimestamp(clock, last) == IF clock > last + 1 THEN clock ELSE last + 1

Known(x) == \E i \in 1..Len(items) : items[i] = x

\* ADD_CONTACT of the provisioning server does not look for the key
Added(x) == IF server = "admin" /\ Known(x) THEN items ELSE Append(items, x)

Without(x) == RemoveAt(items, CHOOSE i \in 1..Len(items) :
                                 items[i] = x /\ \A j \in 1..(i - 1) : items[j] # x)

Accepts(c) ==
    CASE c.kind = "add" -> Len(items) < MaxItems \/ (server = "admin" /\ Known(c.item))
      [] c.kind = "del" -> Known(c.item)
      [] OTHER -> TRUE

\* What the server writes back.
Answer(c) ==
    CASE ~Accepts(c)              -> <<Frame("ERROR")>>
      [] IsEdit(c) /\ Accepts(c)  -> <<Frame("OK")>>
      [] c.kind = "list"          -> [i \in 1..(Len(items) + 1) |->
                                         IF i <= Len(items) THEN Frame("ENTRY")
                                         ELSE [type |-> "DONE", total |-> Len(items)]]
      [] c.kind = "status"        -> <<Frame("STATUS"), Frame("IDENTITY")>>
      [] c.kind = "advert"        -> <<[type |-> "ADVERT",
                                        ts |-> NextAdvertTimestamp(c.clock, lastTs)]>>

\* handle_frame: the store is written before the reply is
Serve ==
    /\ toDev # <<>>
    /\ LET c == Head(toDev).cmd
           id == Head(toDev).id
       IN  /\ items' = CASE c.kind = "add" /\ Accepts(c) -> Added(c.item)
                         [] c.kind = "del" /\ Accepts(c) -> Without(c.item)
                         [] OTHER -> items
           /\ lastTs' = IF c.kind = "advert" THEN NextAdvertTimestamp(c.clock, lastTs) ELSE lastTs
           /\ applied' = (applied \/ (id = issued /\ Accepts(c)))
           /\ toHost' = toHost \o Answer(c)
    /\ toDev' = Tail(toDev)
    /\ UNCHANGED <<client, server, host, inbox, issued, unearned, resent, whole, cards, resets>>

\* A reset loses what is in the device's USB buffers, and staged edits.
DeviceReset ==
    /\ resets < MaxResets /\ resets' = resets + 1
    /\ toDev' = <<>> /\ toHost' = <<>>
    /\ items' = IF server = "prov" THEN <<>> ELSE items
    /\ UNCHANGED <<client, server, host, inbox, lastTs, issued, applied, unearned, resent,
                   whole, cards>>

Arrive ==
    /\ toHost # <<>>
    /\ inbox' = Append(inbox, Head(toHost))
    /\ toHost' = Tail(toHost)
    /\ UNCHANGED <<client, server, host, toDev, devVars, issued, unearned, resent, whole, cards>>

-----------------------------------------------------------------------------
(***************************************************************************)
(* The host session.                                                       *)
(***************************************************************************)
\* send_frame: the frame reaches the device, or is dropped
SendFrame(c, id) ==
    \/ toDev' = Append(toDev, [cmd |-> c, id |-> id])
    \/ UNCHANGED toDev

\* The browser empties its buffer when a command starts; the CLI does when
\* the process opens the port, not between the commands of one process.
Issue(c) ==
    /\ host = Idle
    /\ issued < MaxCommands /\ issued' = issued + 1
    /\ inbox' = <<>> \/ (client = "cli" /\ UNCHANGED inbox)
    /\ SendFrame(c, issued + 1)
    /\ host' = Busy(c)
    /\ applied' = FALSE
    /\ UNCHANGED <<client, server, toHost, items, lastTs, resets, unearned, resent, whole, cards>>

\* An attempt ends without a frame.
TimesOut ==
    /\ host.phase = "wait" /\ inbox = <<>>
    /\ resent' = resent \cup Doubtful(host.cmd)
    /\ host' = IF host.sends < MaxSends THEN [host EXCEPT !.phase = "again"] ELSE Idle
    /\ UNCHANGED <<client, server, wireVars, devVars, issued, unearned, whole, cards>>

\* Variant: the overall deadline is not looked at.
ResendForever ==
    /\ host.phase = "again"
    /\ inbox' = IF client = "cli" THEN <<>> ELSE inbox
    /\ SendFrame(host.cmd, issued)
    /\ host' = [host EXCEPT !.phase = "wait", !.stray = 0]
    /\ UNCHANGED <<client, server, toHost, devVars, issued, unearned, resent, whole, cards>>

\* The CLI flushes what has come in since; the browser keeps it.
Resend ==
    /\ host.phase = "again"
    /\ inbox' = IF client = "cli" THEN <<>> ELSE inbox
    /\ SendFrame(host.cmd, issued)
    /\ host' = [host EXCEPT !.phase = "wait", !.sends = @ + 1, !.stray = 0]
    /\ UNCHANGED <<client, server, toHost, devVars, issued, unearned, resent, whole, cards>>

\* A wait for the second or a later frame has no retry.
LaterTimesOut ==
    /\ host.phase \in {"second", "stream"} /\ inbox = <<>>
    /\ host' = Idle
    /\ resent' = resent \cup Doubtful(host.cmd)
    /\ UNCHANGED <<client, server, wireVars, devVars, issued, unearned, whole, cards>>

\* A frame of the listing: the end of it closes the command.
Listed(f) ==
    IF f.type = "ENTRY"
    THEN /\ host' = [host EXCEPT !.phase = "stream", !.got = @ + 1]
         /\ UNCHANGED whole
    ELSE /\ host' = Idle
         /\ whole' = (whole /\ host.got = f.total)

\* The reply the command was waiting for.
TakeReply(f) ==
    /\ CASE IsEdit(host.cmd) ->
                 /\ host' = Idle
                 /\ unearned' = (unearned \/ ~applied)
                 /\ UNCHANGED <<whole, cards>>
         [] host.cmd.kind = "status" ->
                 /\ host' = [host EXCEPT !.phase = "second"]
                 /\ UNCHANGED <<unearned, whole, cards>>
         [] host.cmd.kind = "advert" ->
                 /\ host' = Idle
                 /\ cards' = Append(cards, f.ts)
                 /\ UNCHANGED <<unearned, whole>>
         [] host.cmd.kind = "list" ->
                 Listed(f) /\ UNCHANGED <<unearned, cards>>
    /\ UNCHANGED resent

\* The command fails; what is left of its answer is in nobody's hands.
Fail ==
    /\ host' = Idle
    /\ resent' = resent \cup Doubtful(host.cmd)
    /\ UNCHANGED <<unearned, whole, cards>>

\* #recvUntilExpected: the browser passes over the reply to another command
Skip ==
    /\ IF host.stray < MaxStray
       THEN host' = [host EXCEPT !.stray = @ + 1] /\ UNCHANGED resent
       ELSE host' = Idle /\ resent' = resent \cup Doubtful(host.cmd)
    /\ UNCHANGED <<unearned, whole, cards>>

\* Variant: any frame answers the command.
TakeAnyFirst(f) == IF f.type = "ERROR" THEN Fail ELSE
    IF IsEdit(host.cmd) \/ f.type \in Expected(host.cmd) THEN TakeReply(f) ELSE Fail

\* The first frame of a reply.
TakeFirst(f) ==
    CASE f.type = "ERROR"               -> Fail
      [] f.type \in Expected(host.cmd)  -> TakeReply(f)
      [] OTHER -> IF client = "web" THEN Skip ELSE Fail

Take ==
    /\ inbox # <<>> /\ host.phase \in {"wait", "second", "stream"}
    /\ inbox' = Tail(inbox)
    /\ LET f == Head(inbox)
       IN  CASE host.phase = "wait" -> TakeFirst(f)
             [] host.phase = "second" ->
                   IF f.type = "IDENTITY"
                   THEN host' = Idle /\ UNCHANGED <<resent, unearned, whole, cards>>
                   ELSE Fail
             [] host.phase = "stream" ->
                   IF f.type \in Expected(host.cmd)
                   THEN Listed(f) /\ UNCHANGED <<resent, unearned, cards>>
                   ELSE Fail
    /\ UNCHANGED <<client, server, toDev, toHost, devVars, issued>>

HostStep == TimesOut \/ Resend \/ LaterTimesOut \/ Take

LinkNext ==
    \/ \E c \in Commands : Issue(c)
    \/ HostStep \/ Serve \/ Arrive \/ DeviceReset

LinkSpec == LinkInit /\ [][LinkNext]_linkVars

\* The session's own loop runs on; nothing is asked of the device or the wire.
FairSpec == LinkSpec /\ WF_linkVars(HostStep)

-----------------------------------------------------------------------------
LinkTypeOK ==
    /\ host.phase \in {"idle", "wait", "again", "second", "stream"}
    /\ host.phase # "idle" =>
          /\ host.cmd \in Commands
          /\ host.sends \in 1..MaxSends /\ host.stray \in 0..MaxStray
          /\ host.got \in Nat
    /\ Len(items) <= MaxItems
    /\ applied \in BOOLEAN /\ resent \subseteq {"edit", "list"}

\* An edit reported as done has been done by the device, as long as no edit
\* was sent twice or given up: replies to status, list and advert commands,
\* however late, are never mistaken for an edit's.
OkIsOwn == "edit" \notin resent => ~unearned

\* A listing is all of one answer, as long as no listing was sent twice or
\* given up: residue of other commands never ends or shortens it.
ListWhole == "list" \notin resent => whole

\* The session takes no reply for one to another command, through retries, late
\* replies and skipped frames.
ReplyInv == LinkTypeOK /\ OkIsOwn /\ ListWhole

\* Cards given to the host carry ever larger timestamps, through retries,
\* late replies, resets and a host clock that goes back.
CardsIncrease == \A i, j \in 1..Len(cards) : i < j => cards[i] < cards[j]

\* A command ends, answered or not: whatever the device does.
EveryCommandEnds == (host # Idle) ~> (host = Idle)
=============================================================================
