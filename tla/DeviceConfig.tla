---------------------------- MODULE DeviceConfig ----------------------------
(***************************************************************************)
(* The provisioned configuration and who writes it: the first-boot         *)
(* provisioning server, which stages edits in RAM until a commit, and the  *)
(* admin server of a provisioned device, which saves after every edit;     *)
(* the dispatcher, which was booted with a copy of the rooms and keeps     *)
(* saving their sessions in a store the admin server erases from another   *)
(* thread; NVS writes that fail, and loss of power at any step.            *)
(*                                                                         *)
(* A key stands for a public key or a channel secret; names, passwords     *)
(* and the other fields an edit replaces as a whole are left out.          *)
(***************************************************************************)
EXTENDS Naturals, FiniteSets, SequencesExt

CONSTANTS Keys,         \* public keys of contacts and rooms
          Hash,         \* their routing hash: what the room store is keyed by
          Chans,        \* channel secrets
          None,         \* no blob, no key
          MaxContacts,  \* MAX_CONTACTS
          MaxChannels,  \* MAX_CHANNELS
          EpochMod,     \* the erase epoch is an u8: 256
          MaxEdits,     \* bound: frames that edit
          MaxFaults,    \* bound: NVS writes that fail
          MaxBoots      \* bound: reboots

\* A configuration, the blob it is stored as, and a room session.
Lists == [contacts : Seq([key : Keys, room : BOOLEAN]), rooms : Seq([key : Keys]),
          channels : Seq([key : Chans, primary : BOOLEAN]), setting : 0..1]

Blobs == [version : {2, 3}, config : Lists]

Session == [key : Keys, birth : Nat]

ASSUME DeviceConfigAssumption ==
    /\ {MaxContacts, MaxChannels} \subseteq Nat \ {0}
    /\ {EpochMod, MaxEdits, MaxFaults, MaxBoots} \subseteq Nat
    /\ EpochMod > MaxEdits      \* the epoch does not come round
    /\ Keys \subseteq DOMAIN Hash
    /\ None \notin Keys /\ None \notin Blobs /\ None \notin Session

VARIABLES
    mode,     \* "prov": provisioning_server runs; "admin": admin_server does
    cfg,      \* RAM: the server's ProvisionedConfig
    flash,    \* mc_cfg: the prov flag and the blob
    erase,    \* the admin thread inside delete_room_session
    store,    \* mc_room: per hash, the session blob and the erase epoch
    runtime,  \* the dispatcher's rooms: [epoch, session] per key booted
    saving,   \* the dispatcher inside save_room_session: the key, or None
    birth,    \* history: how often a room was added or deleted, durably
    excused,  \* history: a save overlapped an erase, or an erase was cut
    strayed,  \* history: a contact frame was aimed at a room
    edits, faults, boots

configVars == <<mode, cfg, flash>>
roomVars == <<erase, store, runtime, saving, birth, excused>>
vars == <<configVars, roomVars, strayed, edits, faults, boots>>

Hashes == {Hash[k] : k \in Keys}
Idle == [step |-> "idle", key |-> None]

Empty == [contacts |-> <<>>, rooms |-> <<>>, channels |-> <<>>, setting |-> 0]

-----------------------------------------------------------------------------
(***************************************************************************)
(* ProvisionedConfig: lists keyed by their entries' keys.                  *)
(***************************************************************************)
\* iter().position: the first entry of list s with key k; 0 if none
Position(s, k) ==
    IF \E i \in 1..Len(s) : s[i].key = k
    THEN CHOOSE i \in 1..Len(s) : s[i].key = k /\ \A j \in 1..(i - 1) : s[j].key # k
    ELSE 0

Has(s, k) == Position(s, k) # 0

Upsert(s, e) == IF Has(s, e.key) THEN [s EXCEPT ![Position(s, e.key)] = e] ELSE Append(s, e)

\* the shift-down of a delete
Without(s, k) == IF Has(s, k) THEN RemoveAt(s, Position(s, k)) ELSE s

\* upsert_contact and upsert_channel refuse only a key they do not have
Full(s, k, cap) == ~Has(s, k) /\ Len(s) >= cap

Contact(k, room) == [key |-> k, room |-> room]

UpsertContact(c, k, room) == [c EXCEPT !.contacts = Upsert(@, Contact(k, room))]

UpsertChannel(c, k, primary) ==
    LET demoted == [i \in 1..Len(c.channels) |->
                       IF primary THEN [c.channels[i] EXCEPT !.primary = FALSE]
                       ELSE c.channels[i]]
    IN  [c EXCEPT !.channels = Upsert(demoted, [key |-> k, primary |-> primary])]

UpsertRoom(c, k) == [UpsertContact(c, k, TRUE) EXCEPT !.rooms = Upsert(@, [key |-> k])]

\* Variant: the room's extras are left behind.
RemoveRoomContact(c, k) == [c EXCEPT !.contacts = Without(@, k)]

RemoveRoom(c, k) == [c EXCEPT !.rooms = Without(@, k), !.contacts = Without(@, k)]

\* A room extra past the end of its array: an index panic, which reboots.
Overflows(c) == Len(c.rooms) > MaxContacts

-----------------------------------------------------------------------------
(***************************************************************************)
(* The blob.  Version 2 has neither roles nor rooms; version 3 is refused  *)
(* when it has more rooms than contacts.                                   *)
(***************************************************************************)
Blob(v, c) == [version |-> v, config |-> c]

Refused(b) == b.version = 3 /\ Len(b.config.rooms) > Len(b.config.contacts)

Decoded(b) ==
    IF b.version = 3 THEN b.config
    ELSE [b.config EXCEPT
             !.rooms = <<>>,
             !.contacts = [i \in 1..Len(@) |-> [@[i] EXCEPT !.room = FALSE]]]

\* load_provisioned_config; main.rs keeps the empty config when it gets none
Loaded(f) == IF f.flag = 0 \/ f.blob = None \/ Refused(f.blob)
             THEN Empty ELSE Decoded(f.blob)

\* Variant: the flag is set before the blob is written.
SaveFlagFirst(c) ==
    \/ flash' = [flag |-> 1, blob |-> Blob(3, c)] /\ UNCHANGED faults
    \/ /\ faults < MaxFaults /\ faults' = faults + 1
       /\ \/ UNCHANGED flash
          \/ flash' = [flash EXCEPT !.flag = 1]

\* save_provisioned_config: the blob, then the flag; either write may fail,
\* and power may be lost between them
Save(c) ==
    \/ flash' = [flag |-> 1, blob |-> Blob(3, c)] /\ UNCHANGED faults
    \/ /\ faults < MaxFaults /\ faults' = faults + 1
       /\ \/ UNCHANGED flash
          \/ flash' = [flash EXCEPT !.blob = Blob(3, c)]

Saved == faults' = faults

DropLast(s) == IF s = <<>> THEN s ELSE Front(s)

\* The count an edit of this kind gives back when the save failed.
RolledBack(c, kind) ==
    CASE kind = "contact" -> [c EXCEPT !.contacts = DropLast(@)]
      [] kind = "channel" -> [c EXCEPT !.channels = DropLast(@)]
      [] kind = "room"    -> [c EXCEPT !.contacts = DropLast(@), !.rooms = DropLast(@)]
      [] kind = "setting" -> c

\* persist_or_rollback, persist_setting
PersistOrRollback(c, kind) ==
    /\ Save(c)
    /\ cfg' = IF Saved THEN c ELSE RolledBack(c, kind)

-----------------------------------------------------------------------------
(***************************************************************************)
(* Boot.                                                                   *)
(***************************************************************************)
\* The rooms the dispatcher is started with: a room contact with its extras
\* resumes the stored session of its hash, or starts from the seed.
BootRooms(c, st, b) ==
    [k \in {c.contacts[i].key : i \in {j \in 1..Len(c.contacts) :
              c.contacts[j].room /\ Has(c.rooms, c.contacts[j].key)}} |->
        [epoch   |-> st[Hash[k]].epoch,
         session |-> IF st[Hash[k]].blob # None THEN st[Hash[k]].blob
                     ELSE [key |-> k, birth |-> b[k]]]]

\* Power on, from what is in flash; what the admin thread had left is lost.
Boot(f) ==
    /\ boots < MaxBoots /\ boots' = boots + 1
    /\ mode' = IF f.flag = 1 THEN "admin" ELSE "prov"
    /\ cfg' = Loaded(f)
    /\ runtime' = IF f.flag = 1 THEN BootRooms(Loaded(f), store, birth) ELSE << >>
    /\ erase' = Idle /\ saving' = None
    /\ excused' = (excused \/ erase.step # "idle")
    /\ UNCHANGED <<store, birth, strayed>>

Init ==
    /\ flash \in {[flag |-> 0, blob |-> None]} \cup
                 {[flag |-> 1, blob |-> Blob(2, [Empty EXCEPT !.contacts = <<Contact(k, FALSE)>>])] :
                    k \in Keys}
    /\ mode = IF flash.flag = 1 THEN "admin" ELSE "prov"
    /\ cfg = Loaded(flash)
    /\ store = [h \in Hashes |-> [blob |-> None, epoch |-> 0]]
    /\ birth = [k \in Keys |-> 0]
    /\ runtime = << >>
    /\ erase = Idle /\ saving = None
    /\ excused = FALSE /\ strayed = FALSE
    /\ edits = 0 /\ faults = 0 /\ boots = 0

Reboot == Boot(flash) /\ UNCHANGED <<flash, edits, faults>>

-----------------------------------------------------------------------------
(***************************************************************************)
(* The frames that edit.  One is handled at a time, and in admin mode only *)
(* once the erase of the one before it has ended.                          *)
(***************************************************************************)
Editing ==
    /\ erase = Idle
    /\ edits < MaxEdits /\ edits' = edits + 1

\* An edit of the provisioning server: staged, saved by the commit only.
Staged(c) == mode = "prov" /\ cfg' = c /\ UNCHANGED <<flash, faults>>

\* An edit of the admin server: saved at once.
Applied(c, kind) == mode = "admin" /\ PersistOrRollback(c, kind)

\* provisioning_server appends, admin_server upserts
AddContact(k) ==
    /\ Editing
    /\ \/ /\ Len(cfg.contacts) < MaxContacts
          /\ Staged([cfg EXCEPT !.contacts = Append(@, Contact(k, FALSE))])
       \/ /\ ~Full(cfg.contacts, k, MaxContacts)
          /\ Applied(UpsertContact(cfg, k, FALSE), "contact")
    /\ strayed' = (strayed \/ Has(cfg.rooms, k))
    /\ UNCHANGED <<mode, roomVars, boots>>

\* DEL_CONTACT shifts the contacts only
DelContact(k) ==
    /\ Editing
    /\ Has(cfg.contacts, k)
    /\ LET c == [cfg EXCEPT !.contacts = Without(@, k)]
       IN  Staged(c) \/ Applied(c, "contact")
    /\ strayed' = (strayed \/ Has(cfg.rooms, k))
    /\ UNCHANGED <<mode, roomVars, boots>>

AddChannel(k, primary) ==
    /\ Editing
    /\ ~Full(cfg.channels, k, MaxChannels)
    /\ LET c == UpsertChannel(cfg, k, primary)
       IN  Staged(c) \/ Applied(c, "channel")
    /\ UNCHANGED <<mode, roomVars, strayed, boots>>

DelChannel(k) ==
    /\ Editing
    /\ Has(cfg.channels, k)
    /\ LET c == [cfg EXCEPT !.channels = Without(@, k)]
       IN  Staged(c) \/ Applied(c, "channel")
    /\ UNCHANGED <<mode, roomVars, strayed, boots>>

\* SET_PIN, SET_NOTIF_DEFAULTS
SetSetting(v) ==
    /\ Editing
    /\ LET c == [cfg EXCEPT !.setting = v]
       IN  Staged(c) \/ Applied(c, "setting")
    /\ UNCHANGED <<mode, roomVars, strayed, boots>>

\* A room edit that was saved goes on to erase the room's session.
RoomEdit(c, k) ==
    /\ \/ Staged(c) /\ UNCHANGED <<erase, birth>>
       \/ /\ Applied(c, "room")
          /\ erase' = IF Saved THEN [step |-> "remove", key |-> k] ELSE Idle
          /\ birth' = IF Saved THEN [birth EXCEPT ![k] = @ + 1] ELSE birth
    /\ UNCHANGED <<mode, store, runtime, saving, excused, strayed, boots>>

AddRoom(k) ==
    /\ Editing
    /\ ~Full(cfg.contacts, k, MaxContacts)
    /\ ~Overflows(UpsertRoom(cfg, k))
    /\ RoomEdit(UpsertRoom(cfg, k), k)

\* upsert_room writes past room_extras, panics, and the device reboots
AddRoomPanics(k) ==
    /\ Editing
    /\ ~Full(cfg.contacts, k, MaxContacts)
    /\ Overflows(UpsertRoom(cfg, k))
    /\ Boot(flash)
    /\ UNCHANGED <<flash, faults>>

DelRoom(k) ==
    /\ Editing
    /\ Has(cfg.contacts, k)
    /\ RoomEdit(RemoveRoom(cfg, k), k)

\* remove_room takes the extras out although it then reports "not found"
DelRoomOrphan(k) ==
    /\ Editing
    /\ ~Has(cfg.contacts, k) /\ Has(cfg.rooms, k)
    /\ cfg' = RemoveRoom(cfg, k)
    /\ UNCHANGED <<mode, flash, roomVars, strayed, faults, boots>>

\* COMMIT_PROVISIONING: the provisioning server saves and reboots; the admin
\* server saves again what it has.
Commit ==
    /\ erase = Idle
    /\ \/ /\ mode = "prov"
          /\ Save(cfg)
          /\ IF Saved THEN Boot(flash') ELSE UNCHANGED <<mode, cfg, roomVars, strayed, boots>>
       \/ /\ Applied(cfg, "setting")
          /\ UNCHANGED <<mode, roomVars, strayed, boots>>
    /\ UNCHANGED edits

-----------------------------------------------------------------------------
(***************************************************************************)
(* The room store: delete_room_session on the admin thread, step by step,  *)
(* against save_room_session on the dispatcher's.                          *)
(***************************************************************************)
EraseHash == Hash[erase.key]

RemoveBlob ==
    /\ erase.step = "remove"
    /\ erase' = [erase EXCEPT !.step = "bump"]
    /\ \/ /\ store' = [store EXCEPT ![EraseHash].blob = None]
          /\ excused' = (excused \/ (saving # None /\ Hash[saving] = EraseHash))
          /\ UNCHANGED faults
       \/ /\ faults < MaxFaults /\ faults' = faults + 1
          /\ excused' = TRUE
          /\ UNCHANGED store
    /\ UNCHANGED <<configVars, runtime, saving, birth, strayed, edits, boots>>

BumpEpoch ==
    /\ erase.step = "bump"
    /\ erase' = Idle
    /\ \/ /\ store' = [store EXCEPT ![EraseHash].epoch = (@ + 1) % EpochMod]
          /\ UNCHANGED <<excused, faults>>
       \/ /\ faults < MaxFaults /\ faults' = faults + 1
          /\ excused' = TRUE
          /\ UNCHANGED store
    /\ UNCHANGED <<configVars, runtime, saving, birth, strayed, edits, boots>>

\* Variant: the epoch is not compared.
SaveCheckNone(k) ==
    /\ saving = None /\ k \in DOMAIN runtime
    /\ saving' = k
    /\ excused' = (excused \/ (erase.step = "bump" /\ EraseHash = Hash[k]))
    /\ UNCHANGED <<configVars, erase, store, runtime, birth, strayed, edits, faults, boots>>

\* save_room_session: the epoch is read and compared ...
SaveCheck(k) ==
    /\ saving = None /\ k \in DOMAIN runtime
    /\ store[Hash[k]].epoch = runtime[k].epoch
    /\ saving' = k
    /\ excused' = (excused \/ (erase.step = "bump" /\ EraseHash = Hash[k]))
    /\ UNCHANGED <<configVars, erase, store, runtime, birth, strayed, edits, faults, boots>>

\* ... and the blob written.
SaveWrite ==
    /\ saving # None
    /\ store' = [store EXCEPT ![Hash[saving]].blob = runtime[saving].session]
    /\ saving' = None
    /\ UNCHANGED <<configVars, erase, runtime, birth, excused, strayed, edits, faults, boots>>

Next ==
    \/ \E k \in Keys : \/ AddContact(k) \/ DelContact(k)
                       \/ AddRoom(k) \/ AddRoomPanics(k)
                       \/ DelRoom(k) \/ DelRoomOrphan(k)
                       \/ SaveCheck(k)
    \/ \E k \in Chans : DelChannel(k) \/ \E p \in BOOLEAN : AddChannel(k, p)
    \/ \E v \in 0..1 : SetSetting(v)
    \/ Commit \/ RemoveBlob \/ BumpEpoch \/ SaveWrite \/ Reboot

Spec == Init /\ [][Next]_vars

-----------------------------------------------------------------------------
\* No list ever outgrows its array.
TypeOK ==
    /\ mode \in {"prov", "admin"}
    /\ cfg \in Lists
    /\ Len(cfg.contacts) <= MaxContacts /\ Len(cfg.channels) <= MaxChannels
    /\ Len(cfg.rooms) <= MaxContacts
    /\ flash.flag \in 0..1
    /\ flash.blob \in Blobs \cup {None}
    /\ erase \in [step : {"idle", "remove", "bump"}, key : Keys \cup {None}]
    /\ DOMAIN store = Hashes
    /\ \A h \in Hashes : /\ store[h].blob \in Session \cup {None}
                         /\ store[h].epoch \in 0..(EpochMod - 1)
    /\ DOMAIN runtime \subseteq Keys
    /\ saving \in DOMAIN runtime \cup {None}
    /\ faults \in 0..MaxFaults /\ boots \in 0..MaxBoots

OnePrimaryIn(c) ==
    Cardinality({i \in 1..Len(c.channels) : c.channels[i].primary}) <= 1

\* Upserts, deletes and rollbacks leave one primary channel at most and no
\* two entries for one channel or one room, in RAM and in flash.
ListsSound ==
    \A c \in {cfg} \cup (IF flash.blob = None THEN {} ELSE {flash.blob.config}) :
        /\ OnePrimaryIn(c)
        /\ \A s \in {c.channels, c.rooms} :
              \A i, j \in 1..Len(s) : s[i].key = s[j].key => i = j

\* A commit that is cut off or fails leaves the device unprovisioned: the
\* flag never stands without a configuration.
CommitAllOrNothing == flash.flag = 1 => flash.blob # None

\* While no save has failed and no contact frame has been aimed at a room,
\* the rooms are exactly the contacts with the room role.
RoomsPaired ==
    (faults = 0 /\ ~strayed) =>
        {cfg.rooms[i].key : i \in 1..Len(cfg.rooms)} =
        {cfg.contacts[i].key : i \in {j \in 1..Len(cfg.contacts) : cfg.contacts[j].room}}

\* The lists of the configuration stay sound through every edit, rollback,
\* migration and reboot.
ConfigInv == TypeOK /\ ListsSound /\ RoomsPaired

Stale(h) == store[h].blob # None /\ store[h].blob.birth # birth[store[h].blob.key]

\* The epoch does its work: a session of an erased room is back in the store
\* only if a save overlapped the erase, or the erase was cut short.
ErasedStaysErased == (~excused /\ erase = Idle) => \A h \in Hashes : ~Stale(h)

\* "Always in-bounds: room_count <= contact_count <= MAX_CONTACTS"
RoomsWithinContacts == Len(cfg.rooms) <= Len(cfg.contacts)
=============================================================================
