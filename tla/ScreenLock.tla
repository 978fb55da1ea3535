----------------------------- MODULE ScreenLock -----------------------------
(***************************************************************************)
(* The screen of the device: sleep and wake, the screen lock with its      *)
(* PIN and its escalating backoff, the blink that announces a message      *)
(* while the screen sleeps, and the two settings that other tasks write.   *)
(*                                                                         *)
(* Three tasks take part.  The UI task calls UiRuntime::step once for each *)
(* queued event or tick; step is a pipeline of blocks and each block is an *)
(* operator on the UI's state here, composed in the order of the code.     *)
(* The dispatcher sends the boot seed and the messages and writes the      *)
(* settings to flash when the UI asks.  The USB admin task writes the PIN  *)
(* to flash itself and forwards it, and forwards the lock settings.        *)
(*                                                                         *)
(* Every use of the clock is a difference, so the model keeps ages, each   *)
(* capped where nothing can tell it from a larger one.                     *)
(***************************************************************************)
EXTENDS Integers, Sequences

CONSTANTS
    Pins,           \* the PINs that can be stored
    Wrong,          \* an entry that is none of them
    NoPin,          \* stored_lock_pin_len = 0
    SleepAfter,     \* screen_sleep_timeout_s, in ticks
    DimLead,        \* DIM_LEAD_MS, in ticks
    LockAfter,      \* lock_timeout_s, in ticks
    FreeAttempts,   \* FREE_ATTEMPTS
    Backoff,        \* BACKOFF_STEPS_S, in ticks
    EventCap,       \* EVENT_QUEUE_CAP
    CommandCap,     \* COMMAND_QUEUE_CAP
    MaxFails        \* bound on the wrong PINs entered in a row

ASSUME ScreenLockAssumption ==
    /\ NoPin \notin Pins \cup {Wrong} /\ Wrong \notin Pins
    /\ {SleepAfter, DimLead, LockAfter, EventCap, CommandCap} \subseteq Nat \ {0}
    /\ FreeAttempts \in Nat
    /\ Backoff \in Seq(Nat \ {0}) /\ Backoff # <<>>
    /\ MaxFails \in Nat

VARIABLES
    ui,         \* the fields of UiRuntime
    evtq,       \* the UiEvent queue
    cmdq,       \* the PersistRuntimeSettings commands in the UiCommand queue
    flash,      \* mc_lock (the PIN) and mc_rts (the lock setting)
    seed,       \* what main read from flash at boot; sent is TRUE once it is queued
    env,        \* the finger on the panel, and whether its gesture woke the screen
    lost        \* RAM and flash may differ in this boot: a queue was full, a save
                \* failed, or an edit reached the UI before the boot seed

vars == <<ui, evtq, cmdq, flash, seed, env, lost>>

Entries == Pins \cup {Wrong}

Least(a, b) == IF a <= b THEN a ELSE b

IdleCap == IF SleepAfter > LockAfter THEN SleepAfter ELSE LockAfter

BackoffCap == CHOOSE m \in {Backoff[i] : i \in 1..Len(Backoff)} :
                  \A i \in 1..Len(Backoff) : Backoff[i] <= m

\* The fields of UiRuntime after a boot, before its seed arrives; wrongAge,
\* hasty and leak are history: the ticks since the last scored wrong PIN, whether
\* one was scored within the lockout of another, and whether a gesture that woke
\* the screen was dispatched.
Booted ==
    [locked |-> FALSE, overlay |-> FALSE, shown |-> "splash", active |-> "splash",
     asleep |-> FALSE, swallow |-> FALSE, idle |-> 0, nav |-> FALSE, down |-> "none",
     fails |-> 0, lockout |-> 0, lockAge |-> BackoffCap, confirm |-> NoPin,
     enabled |-> FALSE, pin |-> NoPin, seeded |-> FALSE, blink |-> FALSE, heard |-> FALSE,
     lit |-> "full", applied |-> "full", dim |-> FALSE,
     wrongAge |-> BackoffCap, hasty |-> FALSE, leak |-> FALSE]

-----------------------------------------------------------------------------
(***************************************************************************)
(* Waking, sleeping, locking and unlocking.                                *)
(***************************************************************************)
\* wake_screen: the panel, the configured brightness whatever is cached, the blink
WakeScreen(s) ==
    [s EXCEPT !.lit = "full", !.applied = "full", !.dim = FALSE, !.blink = FALSE,
              !.heard = FALSE, !.asleep = FALSE, !.idle = 0]

SleepScreen(s) == [s EXCEPT !.lit = "off", !.asleep = TRUE, !.dim = FALSE]

\* construct_lock_screen: LockScreen::new may fail, and shows itself when it does not
Construct(s, built) ==
    IF s.overlay \/ ~built THEN s ELSE [s EXCEPT !.overlay = TRUE, !.shown = "overlay"]

\* trip_lock: hide the screen and close the input gate before the overlay is built
TripLock(s, built) ==
    IF s.locked THEN s
    ELSE Construct([s EXCEPT !.locked = TRUE, !.shown = "none"], built)

Unlock(s) ==
    IF ~s.locked THEN s
    ELSE [s EXCEPT !.locked = FALSE, !.overlay = FALSE, !.lockout = 0,
                   !.shown = s.active, !.idle = 0]

-----------------------------------------------------------------------------
(***************************************************************************)
(* The blocks of step, in its order.                                       *)
(***************************************************************************)
\* the d ticks since the last step
Advance(s, d) ==
    [s EXCEPT !.idle = Least(@ + d, IdleCap), !.lockAge = Least(@ + d, BackoffCap),
              !.wrongAge = Least(@ + d, BackoffCap)]

\* the splash gate, then the navigation a callback asked for: the new screen's
\* constructor takes the one window, locked or not
Navigate(s, dismiss) ==
    IF s.nav \/ (dismiss /\ s.active = "splash")
    THEN [s EXCEPT !.active = "app", !.shown = "app", !.nav = FALSE]
    ELSE s

LockoutAfter(fails) ==
    IF fails <= FreeAttempts THEN 0 ELSE Backoff[Least(fails - FreeAttempts, Len(Backoff))]

\* Variant: a confirm that raced the start of a lockout is scored.
AllowedAlways(s) == TRUE

\* unlock_attempt_allowed
Allowed(s) == s.lockout = 0 \/ s.lockAge >= s.lockout

\* verify_pin: no stored PIN matches nothing
Correct(s) == s.pin # NoPin /\ s.confirm = s.pin

\* the PIN the overlay handed over, scored by attempt_unlock
Confirm(s) ==
    LET t == [s EXCEPT !.confirm = NoPin]
    IN  IF s.confirm = NoPin \/ ~Allowed(s) THEN t
        ELSE IF Correct(s) THEN Unlock([t EXCEPT !.fails = 0])
        ELSE [t EXCEPT !.fails = @ + 1, !.lockout = LockoutAfter(s.fails + 1),
                       !.lockAge = 0, !.wrongAge = 0,
                       !.hasty = @ \/ s.wrongAge < LockoutAfter(s.fails)]

Countdown(s) ==
    IF s.locked /\ s.lockAge >= s.lockout THEN [s EXCEPT !.lockout = 0] ELSE s

\* the settings an event has the UI persist
SettingsOf(e) == IF e.kind = "config" THEN <<e.enabled>> ELSE <<>>

\* Variant: a new PIN waits for the next boot.
HandleEventNoPin(s, e, built) ==
    CASE e.kind = "seed" ->
            LET t == [s EXCEPT !.seeded = TRUE, !.pin = e.pin, !.enabled = e.enabled]
            IN  IF t.enabled THEN TripLock(t, built) ELSE t
      [] e.kind = "pin" -> s
      [] e.kind = "config" -> [s EXCEPT !.enabled = e.enabled]
      [] e.kind = "message" -> [s EXCEPT !.blink = @ \/ s.asleep, !.heard = @ \/ s.asleep]

\* handle_event; a message starts the blink only while the screen sleeps
HandleEvent(s, e, built) ==
    CASE e.kind = "seed" ->
            LET t == [s EXCEPT !.seeded = TRUE, !.pin = e.pin, !.enabled = e.enabled]
            IN  IF t.enabled THEN TripLock(t, built) ELSE t
      [] e.kind = "pin" -> [s EXCEPT !.pin = e.pin]
      [] e.kind = "config" -> [s EXCEPT !.enabled = e.enabled]
      [] e.kind = "message" -> [s EXCEPT !.blink = @ \/ s.asleep, !.heard = @ \/ s.asleep]

\* what a completed tap does, c being what the user aimed at: the overlay's
\* confirm key with a PIN entered, a button that navigates, the lock toggle of
\* the admin menu (whose own PIN comes with the seed)
Click(s, c) ==
    CASE s.shown = "overlay" /\ c \in Entries -> [s EXCEPT !.confirm = c]
      [] s.shown = "app" /\ c = "nav" -> [s EXCEPT !.nav = TRUE]
      [] s.shown = "app" /\ s.seeded /\ c = "toggle" -> [s EXCEPT !.enabled = ~@]
      [] OTHER -> s

\* dispatch_touch hands the event to whatever component the window shows
DispatchTouch(s, k, c) ==
    CASE k = "press" -> [s EXCEPT !.down = s.shown]
      [] k = "release" ->
            [(IF s.down = s.shown THEN Click(s, c) ELSE s) EXCEPT !.down = "none"]
      [] OTHER -> s

\* Variant: only the touch that wakes is swallowed, not the rest of its gesture.
SwallowsWakeOnly(s) == s.asleep

\* touch_wake_transition: the touch that wakes, and its gesture's tail
Swallows(s) == s.asleep \/ s.swallow

\* one event of the touch drain loop; own is TRUE for the gesture that woke
\* the screen
Touch(s, k, c, own) ==
    LET awake == IF s.asleep THEN WakeScreen(s) ELSE [s EXCEPT !.idle = 0]
        t == [awake EXCEPT !.swallow = Swallows(s) /\ k # "release"]
    IN  IF Swallows(s) THEN t
        ELSE DispatchTouch([t EXCEPT !.leak = @ \/ own], k, c)

\* a gesture within one step: the press and, when it is short, the release
Touches(s, ks, c) ==
    LET first == Touch(s, ks[1], c, env.woke \/ s.asleep)
    IN  CASE ks = <<>> -> s
          [] Len(ks) = 1 -> first
          [] OTHER -> Touch(first, ks[2], c, env.woke \/ s.asleep)

\* one key or one turn of the trackball: it wakes and is dropped, or counts as
\* activity and, unless locked, acts on the screen
Key(s, k) ==
    CASE k = "none" -> s
      [] k # "none" /\ s.asleep -> WakeScreen(s)
      [] OTHER -> [s EXCEPT !.idle = 0, !.nav = @ \/ (k = "nav" /\ ~s.locked /\ s.active = "app")]

\* screen_idle_action
IdleAction(s) ==
    CASE s.asleep -> s
      [] ~s.asleep /\ s.idle >= SleepAfter -> SleepScreen(s)
      [] OTHER -> [s EXCEPT !.dim = s.idle >= SleepAfter - Least(DimLead, SleepAfter)]

IdleLock(s, built) == IF s.enabled /\ s.idle >= LockAfter THEN TripLock(s, built) ELSE s

\* sync_backlight_brightness: written when the cached value differs
SyncBrightness(s) ==
    LET desired == IF s.dim THEN "dim" ELSE "full"
    IN  IF s.asleep \/ s.applied = desired THEN s
        ELSE [s EXCEPT !.lit = desired, !.applied = desired]

\* Variant: nothing puts the overlay back.
ReassertNot(s, built) == s

\* every tick while locked: retry the overlay, and take the window back for it
Reassert(s, built) ==
    IF ~s.locked THEN s
    ELSE LET t == Construct(s, built)
         IN  IF t.overlay THEN [t EXCEPT !.shown = "overlay"] ELSE t

-----------------------------------------------------------------------------
(***************************************************************************)
(* The UI task.                                                            *)
(***************************************************************************)
Gestures == IF env.finger THEN {<<"move">>, <<"release">>}
            ELSE {<<>>, <<"press">>, <<"press", "release">>}

Clicks == Entries \cup {"nav", "toggle", "other"}

\* persist_runtime_settings: try_send, which a full queue refuses
Persist(values) ==
    LET room == CommandCap - Len(cmdq)
    IN  /\ cmdq' = cmdq \o SubSeq(values, 1, Least(room, Len(values)))
        /\ lost' = (lost \/ Len(values) > room)

Lifts(ks) == ks # <<>> /\ ks[Len(ks)] = "release"

\* One round of the task: an event of the queue or a timeout, and step.
Step(d, dismiss, ks, c, k, built) ==
    LET settled == Countdown(Confirm(Navigate(Advance(ui, d), dismiss)))
        told    == IF evtq = <<>> THEN settled ELSE HandleEvent(settled, Head(evtq), built)
        touched == Touches(told, ks, c)
        keyed   == Key(touched, k)
        asked   == (IF evtq = <<>> THEN <<>> ELSE SettingsOf(Head(evtq)))
                      \o (IF touched.enabled # told.enabled THEN <<touched.enabled>> ELSE <<>>)
    IN  /\ ui' = Reassert(SyncBrightness(IdleLock(IdleAction(keyed), built)), built)
        /\ ui'.fails <= MaxFails
        /\ evtq' = IF evtq = <<>> THEN evtq ELSE Tail(evtq)
        /\ Persist(asked)
        /\ env' = [finger |-> (env.finger \/ ks # <<>>) /\ ~Lifts(ks),
                   woke |-> (env.woke \/ (ks # <<>> /\ told.asleep)) /\ ~Lifts(ks)]
        /\ UNCHANGED <<flash, seed>>

UiStep ==
    \E d \in 0..1, ks \in Gestures, built \in {TRUE, ui.overlay} :
       \E dismiss \in {FALSE, ui.active = "splash"}, c \in (IF Lifts(ks) THEN Clicks ELSE {"other"}),
          k \in (IF ks = <<>> THEN {"none", "nav"} ELSE {"none"}) :
          Step(d, dismiss, ks, c, k, built)

-----------------------------------------------------------------------------
(***************************************************************************)
(* The dispatcher and the USB admin task.                                  *)
(***************************************************************************)
\* send_or_count: try_send on the event queue, which drops on a full one
Forward(e) ==
    /\ evtq' = IF Len(evtq) < EventCap THEN Append(evtq, e) ELSE evtq
    /\ lost' = \/ lost
               \/ Len(evtq) >= EventCap /\ e.kind # "message"
               \/ ~seed.sent /\ e.kind # "seed"

\* the seed follows the room logins; the admin task is already running
SendSeed ==
    /\ ~seed.sent
    /\ Forward([kind |-> "seed", pin |-> seed.pin, enabled |-> seed.enabled])
    /\ seed' = [sent |-> TRUE, pin |-> NoPin, enabled |-> FALSE]
    /\ UNCHANGED <<ui, cmdq, flash, env>>

IncomingMessage ==
    /\ seed.sent
    /\ Forward([kind |-> "message"])
    /\ UNCHANGED <<ui, cmdq, flash, seed, env>>

\* PersistRuntimeSettings; a failed save is only logged
SaveSettings ==
    /\ cmdq # <<>>
    /\ cmdq' = Tail(cmdq)
    /\ \/ flash' = [flash EXCEPT !.enabled = Head(cmdq)] /\ UNCHANGED lost
       \/ lost' = TRUE /\ UNCHANGED flash
    /\ UNCHANGED <<ui, evtq, seed, env>>

\* SET_LOCK_PIN: the store, then the forward; a failed save changes nothing
SetLockPin(p) ==
    /\ flash' = [flash EXCEPT !.pin = p]
    /\ Forward([kind |-> "pin", pin |-> p])
    /\ UNCHANGED <<ui, cmdq, seed, env>>

\* SET_LOCK_CONFIG: the forward alone; a full queue is an error to the host
SetLockConfig(e) ==
    /\ Len(evtq) < EventCap
    /\ Forward([kind |-> "config", enabled |-> e])
    /\ UNCHANGED <<ui, cmdq, flash, seed, env>>

Reboot ==
    /\ ui' = Booted
    /\ evtq' = <<>> /\ cmdq' = <<>> /\ lost' = FALSE
    /\ seed' = [sent |-> FALSE, pin |-> flash.pin, enabled |-> flash.enabled]
    /\ env' = [finger |-> FALSE, woke |-> FALSE]
    /\ UNCHANGED flash

-----------------------------------------------------------------------------
Init ==
    /\ flash \in [pin : {NoPin} \cup Pins, enabled : BOOLEAN]
    /\ seed = [sent |-> FALSE, pin |-> flash.pin, enabled |-> flash.enabled]
    /\ ui = Booted
    /\ evtq = <<>> /\ cmdq = <<>> /\ lost = FALSE
    /\ env = [finger |-> FALSE, woke |-> FALSE]

Next ==
    \/ UiStep
    \/ SendSeed
    \/ IncomingMessage
    \/ SaveSettings
    \/ \E p \in Pins : SetLockPin(p)
    \/ \E e \in BOOLEAN : SetLockConfig(e)
    \/ Reboot

Spec == Init /\ [][Next]_vars

-----------------------------------------------------------------------------
(***************************************************************************)
(* What must hold.                                                         *)
(***************************************************************************)
\* The variables have their types; the counters keep to their bounds.
TypeOK ==
    /\ ui \in [locked : BOOLEAN, overlay : BOOLEAN,
               shown : {"splash", "app", "overlay", "none"}, active : {"splash", "app"},
               asleep : BOOLEAN, swallow : BOOLEAN, idle : 0..IdleCap, nav : BOOLEAN,
               down : {"splash", "app", "overlay", "none"},
               fails : 0..MaxFails, lockout : 0..BackoffCap, lockAge : 0..BackoffCap,
               confirm : {NoPin} \cup Entries, enabled : BOOLEAN, pin : {NoPin} \cup Pins,
               seeded : BOOLEAN, blink : BOOLEAN, heard : BOOLEAN, lit : {"off", "dim", "full"},
               applied : {"dim", "full"}, dim : BOOLEAN,
               wrongAge : 0..BackoffCap, hasty : BOOLEAN, leak : BOOLEAN]
    /\ Len(evtq) <= EventCap
    /\ cmdq \in Seq(BOOLEAN) /\ Len(cmdq) <= CommandCap
    /\ flash \in [pin : {NoPin} \cup Pins, enabled : BOOLEAN]
    /\ seed \in [sent : BOOLEAN, pin : {NoPin} \cup Pins, enabled : BOOLEAN]
    /\ lost \in BOOLEAN

\* The frame drawn at the end of a step of a locked device is the overlay once
\* the overlay exists, whatever navigation took the window during that step.
LockedFrameIsOverlay == ui.locked /\ ui.overlay => ui.shown = "overlay"

\* No event of the gesture that woke the screen reaches a component, however
\* many steps the finger stays down.
WakeGestureInert == ~ui.leak

\* Once the free attempts are used up, two wrong PINs are scored only as far
\* apart as the lockout of the first one says.
AttemptsPaced == ~ui.hasty

\* At the end of a step the lock has tripped if it is on and the device has been
\* idle for its timeout, asleep or not; ui.locked is never lost to a failed overlay.
IdleDeviceLocks == ui.enabled /\ ui.idle >= LockAfter => ui.locked

\* An awake screen is lit; a message that arrived while it slept keeps the
\* keyboard blinking until the wake, and the blink never outlives the sleep.
ScreenTellsUser ==
    /\ ui.asleep <=> ui.lit = "off"
    /\ ui.heard => ui.blink
    /\ ui.blink => ui.asleep

\* At the end of every step lock, overlay, sleep and blink agree, whatever
\* navigation, events, input and timers the step handled.
ScreenInv ==
    /\ TypeOK
    /\ LockedFrameIsOverlay
    /\ IdleDeviceLocks
    /\ ScreenTellsUser

\* When nothing is under way, no queue overflowed, no save failed and no edit
\* overtook the boot seed, what the UI compares against is what flash holds.
LiveIsStored ==
    seed.sent /\ evtq = <<>> /\ cmdq = <<>> /\ ~lost
       => ui.pin = flash.pin /\ ui.enabled = flash.enabled

=============================================================================
