--------------------------- MODULE HistoryRegion ---------------------------
(***************************************************************************)
(* The message history in raw flash: one double-buffered region of two     *)
(* sectors per conversation, claimed on its first message, rewritten into  *)
(* the spare sector when the active one is full or an entry's ack bit      *)
(* flips, cleared by the admin, and filled once from the legacy store.     *)
(*                                                                         *)
(* An operation is compiled, when it starts, into the flash commands it    *)
(* will issue; each command is a step, and power may fail, or the flash    *)
(* report an error, at any of them, leaving it half done.  The HISTORY     *)
(* mutex keeps operations apart.                                           *)
(***************************************************************************)
EXTENDS Naturals, Sequences, FiniteSetsExt, SequencesExt

CONSTANTS Convs,        \* conversations: (kind, conv_hash)
          NoConv,       \* a header that does not decode
          NumRegions,   \* MAX_CONVERSATION_REGIONS
          Slots,        \* SLOTS_PER_SECTOR
          Keep,         \* MAX_HISTORY_ENTRIES
          GenMod,       \* 256: a generation is a u8
          NumLegacy,    \* entries in the legacy store
          MaxAppends,   \* bound: messages appended
          MaxClears,    \* bound: clear-history commands
          MaxFaults     \* bound: power losses and flash errors

ASSUME HistoryRegionAssumption ==
    /\ NoConv \notin Convs
    /\ NumRegions \in Nat \ {0}
    /\ Keep \in Nat \ {0}
    /\ Slots \in Nat /\ Slots > Keep
    /\ GenMod \in Nat /\ GenMod > 2 /\ GenMod % 2 = 0
    /\ {NumLegacy, MaxAppends, MaxClears, MaxFaults} \subseteq Nat

VARIABLES
    flash,      \* the sectors of each region
    todo,       \* flash commands the running operation still has to issue
    op,         \* the running operation
    migrating,  \* the next legacy entry to migrate
    marker,     \* LEGACY_KEY_MIGRATED
    appended,   \* history: the conversation of every message so far
    clears,
    faults

vars == <<flash, todo, op, migrating, marker, appended, clears, faults>>

Regions == 1..NumRegions
Sectors == {0, 1}
Gens == 0..(GenMod - 1)
Msgs == 1..(NumLegacy + MaxAppends)
Ops == {"idle", "append", "mark", "clear"}

Entries == [msg : Msgs, conv : Convs, ours : BOOLEAN, acked : BOOLEAN]

\* A half-written slot that does not decode, and one that does: the bytes
\* not yet programmed, the flags among them, read as 0xFF.
Torn    == [msg |-> 0, conv |-> NoConv, ours |-> FALSE, acked |-> FALSE]
Garbage == [msg |-> 0, conv |-> NoConv, ours |-> TRUE, acked |-> TRUE]

Sector == [conv : Convs \cup {NoConv}, gen : Gens,
           slots : Seq(Entries \cup {Torn, Garbage})]

Erased == [conv |-> NoConv, gen |-> 0, slots |-> <<>>]
Junk   == [conv |-> NoConv, gen |-> 0, slots |-> [i \in 1..Slots |-> Torn]]

-----------------------------------------------------------------------------
(***************************************************************************)
(* Reading a region.  The write head of a sector is Len(slots).            *)
(***************************************************************************)
Claimed(fl, r, s) == fl[r][s].conv # NoConv

\* generation_is_newer: wrapping_sub, then the sign of the i8
IsNewer(candidate, current) ==
    ((candidate + GenMod - current) % GenMod) \in 1..((GenMod \div 2) - 1)

\* active_sector: {} or the one sector that counts
Active(fl, r) ==
    {s \in Sectors :
        /\ Claimed(fl, r, s)
        /\ Claimed(fl, r, 1 - s) =>
              (s = 1 <=> IsNewer(fl[r][1].gen, fl[r][0].gen))}

\* Variant: only the first sector's header is looked at.
ClaimedByFirstSector(fl, c) == {r \in Regions : fl[r][0].conv = c}

\* find_claimed_region
ClaimedBy(fl, c) == {r \in Regions : \E s \in Active(fl, r) : fl[r][s].conv = c}

Unclaimed(fl) == {r \in Regions : Active(fl, r) = {}}

ActiveOf(fl, r) == CHOOSE s \in Active(fl, r) : TRUE

\* The newest Keep slots of a sector.
Window(slots) ==
    IF Len(slots) <= Keep THEN slots
    ELSE SubSeq(slots, Len(slots) - Keep + 1, Len(slots))

\* gather_live: what decodes among them
Live(slots) ==
    LET w == Window(slots)
        kept[n \in 0..Len(w)] ==
            IF n = 0 THEN <<>>
            ELSE IF w[n] = Torn THEN kept[n - 1]
            ELSE Append(kept[n - 1], w[n])
    IN  kept[Len(w)]

\* load_all_conversations, export_entries: the places a reader of c goes over
Places(c) ==
    LET own == ClaimedBy(flash, c)
    IN  IF own = {} THEN <<>>
        ELSE LET r == Min(own) IN Window(flash[r][ActiveOf(flash, r)].slots)

Spoiled(c) == {i \in 1..Len(Places(c)) : Places(c)[i].msg = 0}

-----------------------------------------------------------------------------
(***************************************************************************)
(* Flash commands, and the operations compiled into them.                  *)
(***************************************************************************)
Erase(r, s) == [cmd |-> "erase", r |-> r, s |-> s]
Write(r, s, e) == [cmd |-> "write", r |-> r, s |-> s, entry |-> e]
Header(r, s, c, g) == [cmd |-> "header", r |-> r, s |-> s, conv |-> c, gen |-> g]

\* Variant: the spare sector is taken as it is.
RewriteNoErase(r, live) ==
    LET s == ActiveOf(flash, r)
        h == flash[r][s]
    IN  [i \in 1..Len(live) |-> Write(r, 1 - s, live[i])]
          \o <<Header(r, 1 - s, h.conv, (h.gen + 1) % GenMod), Erase(r, s)>>

\* Variant: the header is written before the entries.
RewriteHeaderFirst(r, live) ==
    LET s == ActiveOf(flash, r)
        h == flash[r][s]
    IN  <<Erase(r, 1 - s), Header(r, 1 - s, h.conv, (h.gen + 1) % GenMod)>>
          \o [i \in 1..Len(live) |-> Write(r, 1 - s, live[i])]
          \o <<Erase(r, s)>>

\* rewrite_region
Rewrite(r, live) ==
    LET s == ActiveOf(flash, r)
        h == flash[r][s]
    IN  <<Erase(r, 1 - s)>>
          \o [i \in 1..Len(live) |-> Write(r, 1 - s, live[i])]
          \o <<Header(r, 1 - s, h.conv, (h.gen + 1) % GenMod), Erase(r, s)>>

\* claim_region
Claim(r, c) == <<Erase(r, 0), Erase(r, 1), Header(r, 0, c, 0)>>

\* Claim the first unclaimed region and write there; nothing if there is
\* none (DirectoryFull).
ClaimAndWrite(e) ==
    IF Unclaimed(flash) = {} THEN <<>>
    ELSE LET r == Min(Unclaimed(flash))
         IN  Claim(r, e.conv) \o <<Write(r, 0, e)>>

\* append_conversation
AppendCommands(e) ==
    LET own == ClaimedBy(flash, e.conv)
    IN  IF own = {} THEN ClaimAndWrite(e)
        ELSE LET r == Min(own)
                 s == ActiveOf(flash, r)
             IN  IF Len(flash[r][s].slots) < Slots THEN <<Write(r, s, e)>>
                 ELSE Rewrite(r, Live(flash[r][s].slots)) \o <<Write(r, 1 - s, e)>>

\* find_newest_ours_unacked
Markable(live) == {i \in 1..Len(live) : live[i].ours /\ ~live[i].acked}

\* mark_last_ours_acked: nothing to do without a region or a pending entry
MarkCommands(c) ==
    LET own == ClaimedBy(flash, c)
        live == Live(flash[Min(own)][ActiveOf(flash, Min(own))].slots)
    IN  IF own = {} THEN <<>>
        ELSE IF Markable(live) = {} THEN <<>>
        ELSE Rewrite(Min(own), [live EXCEPT ![Max(Markable(live))].acked = TRUE])

\* clear_all
ClearCommands ==
    [i \in 1..(2 * NumRegions) |-> Erase((i + 1) \div 2, (i + 1) % 2)]

\* What a command leaves behind when it completes.
Done(sector, cmd) ==
    CASE cmd.cmd = "erase"  -> Erased
      [] cmd.cmd = "write"  -> [sector EXCEPT !.slots = Append(@, cmd.entry)]
      [] cmd.cmd = "header" -> [sector EXCEPT !.conv = cmd.conv, !.gen = cmd.gen]

\* What it may leave behind when it is cut short.
Partial(sector, cmd) ==
    CASE cmd.cmd = "erase"  -> {sector, Junk, Erased}
      [] cmd.cmd = "write"  -> {sector, Done(sector, cmd)} \cup
                               {[sector EXCEPT !.slots = Append(@, x)] :
                                   x \in {Torn, Garbage}}
      [] cmd.cmd = "header" -> {sector, Done(sector, cmd)}

-----------------------------------------------------------------------------
\* A flash that was never erased but holds no region headers (a claim makes
\* an erased one of it), and a legacy store.
Init ==
    /\ flash = [r \in Regions |-> [s \in Sectors |-> Junk]]
    /\ todo = <<>>
    /\ op = "idle"
    /\ migrating = 1
    /\ marker = FALSE
    /\ appended \in [1..NumLegacy -> Convs]
    /\ clears = 0
    /\ faults = 0

Start(o, cmds) ==
    /\ todo' = cmds
    /\ op' = IF cmds = <<>> THEN "idle" ELSE o
    /\ UNCHANGED <<flash, marker, faults>>

\* migrate_legacy_nvs_once: the next entry; an append that fails is logged
Migrate ==
    /\ todo = <<>> /\ ~marker
    /\ migrating <= NumLegacy
    /\ Start("append", AppendCommands([msg |-> migrating, ours |-> FALSE,
                                       conv |-> appended[migrating],
                                       acked |-> TRUE]))
    /\ migrating' = migrating + 1
    /\ UNCHANGED <<appended, clears>>

\* ... and the marker, when every entry was tried
MigrationDone ==
    /\ todo = <<>> /\ ~marker
    /\ migrating > NumLegacy
    /\ marker' = TRUE
    /\ UNCHANGED <<flash, todo, op, migrating, appended, clears, faults>>

\* append_conversation of a received message, or of a sent one
AppendConversation(c, ours) ==
    /\ todo = <<>> /\ marker
    /\ Len(appended) < NumLegacy + MaxAppends
    /\ Start("append", AppendCommands([msg |-> Len(appended) + 1, conv |-> c,
                                       ours |-> ours, acked |-> ~ours]))
    /\ appended' = Append(appended, c)
    /\ UNCHANGED <<migrating, clears>>

MarkLastOursAcked(c) ==
    /\ todo = <<>> /\ marker
    /\ MarkCommands(c) # <<>>
    /\ Start("mark", MarkCommands(c))
    /\ UNCHANGED <<migrating, appended, clears>>

ClearAll ==
    /\ todo = <<>> /\ marker
    /\ clears < MaxClears
    /\ clears' = clears + 1
    /\ Start("clear", ClearCommands)
    /\ UNCHANGED <<migrating, appended>>

\* The next command of the running operation.
Do ==
    /\ todo # <<>>
    /\ LET cmd == Head(todo)
       IN  flash' = [flash EXCEPT ![cmd.r][cmd.s] = Done(@, cmd)]
    /\ todo' = Tail(todo)
    /\ op' = IF Len(todo) = 1 THEN "idle" ELSE op
    /\ UNCHANGED <<migrating, marker, appended, clears, faults>>

\* The next command is cut short and the operation given up: the flash
\* reports an error, or the device loses power and boots again.
Fail(reboot) ==
    /\ todo # <<>>
    /\ faults < MaxFaults
    /\ faults' = faults + 1
    /\ LET cmd == Head(todo)
       IN  \E sector \in Partial(flash[cmd.r][cmd.s], cmd) :
              flash' = [flash EXCEPT ![cmd.r][cmd.s] = sector]
    /\ todo' = <<>>
    /\ op' = "idle"
    /\ migrating' = IF reboot /\ ~marker THEN 1 ELSE migrating
    /\ UNCHANGED <<marker, appended, clears>>

Next ==
    \/ Migrate
    \/ MigrationDone
    \/ \E c \in Convs : \/ \E ours \in BOOLEAN : AppendConversation(c, ours)
                        \/ MarkLastOursAcked(c)
    \/ ClearAll
    \/ Do
    \/ \E reboot \in BOOLEAN : Fail(reboot)

Spec == Init /\ [][Next]_vars

-----------------------------------------------------------------------------
TypeOK ==
    /\ flash \in [Regions -> [Sectors -> Sector]]
    /\ \A r \in Regions, s \in Sectors : Len(flash[r][s].slots) <= Slots
    /\ op \in Ops /\ (op = "idle" <=> todo = <<>>)
    /\ \A i \in 1..Len(todo) : todo[i].r \in Regions /\ todo[i].s \in Sectors
    /\ migrating \in 1..(NumLegacy + 1)
    /\ marker \in BOOLEAN
    /\ appended \in Seq(Convs) /\ Len(appended) <= NumLegacy + MaxAppends
    /\ clears \in 0..MaxClears
    /\ faults \in 0..MaxFaults

\* No conversation ever has two regions, whatever was interrupted: a second
\* region would split its history and hide one half (find_claimed_region
\* takes the first).
OneRegionPerConversation ==
    \A c \in Convs, q, r \in Regions :
        (/\ \E s \in Active(flash, q) : flash[q][s].conv = c
         /\ \E s \in Active(flash, r) : flash[r][s].conv = c) => q = r

\* When both sectors of a region are claimed, they are the two ends of one
\* hand-off: the same conversation and neighbouring generations, so that the
\* wrapping comparison of generation_is_newer is never asked about more.
HandOffPair ==
    \A r \in Regions :
        (Claimed(flash, r, 0) /\ Claimed(flash, r, 1)) =>
            /\ flash[r][0].conv = flash[r][1].conv
            /\ \E s \in Sectors :
                  flash[r][s].gen = (flash[r][1 - s].gen + 1) % GenMod

\* The directory of regions stays sound through every interruption of a claim
\* or a hand-off.
RegionInv == TypeOK /\ OneRegionPerConversation /\ HandOffPair

\* No hand-off, interrupted where it may be, shows a message twice; only a
\* migration that is run again does, for the legacy messages.
NoDuplicates ==
    \A c \in Convs :
        LET l == Places(c)
        IN  \A i, j \in 1..Len(l) :
                (l[i].msg = l[j].msg /\ l[i].msg > NumLegacy) => i = j

\* Every interruption costs at most one place, over all conversations
\* together ("at most one slot half-written").
SpoiledBounded ==
    Cardinality({p \in Convs \X (1..Keep) : p[2] \in Spoiled(p[1])}) <= faults

\* What restore reads after an interruption: no message twice, and at most the
\* one place that was being written spoiled.
PlacesSound == NoDuplicates /\ SpoiledBounded

\* The regions implement the log: an append and a mark take effect at one
\* flash command each, and a rewrite changes nothing a reader sees.
Log == INSTANCE HistoryLog WITH
           Unreadable <- Torn,
           Garbled    <- Garbage,
           log        <- [c \in Convs |-> Places(c)],
           clearing   <- op = "clear"

ImplementsLog == Log!LogSpec
=============================================================================
