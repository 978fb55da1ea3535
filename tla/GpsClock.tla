------------------------------ MODULE GpsClock ------------------------------
(***************************************************************************)
(* The GPS driver (firmware/src/gps.rs) and the clock the rest of the      *)
(* device takes from it and from the room servers.                         *)
(*                                                                         *)
(* Baud rate: a cached rate is used unverified; if no sentence is seen for *)
(* a while, all candidates are probed once, a slice per poll.  Duty cycle: *)
(* after the first fix the UART is read in windows, each under the APB     *)
(* power-management lock.  Clock: RMC sentences set it, from a fix or from *)
(* the module's backup RTC, and room servers' timestamps stand in for it.  *)
(*                                                                         *)
(* A clock is its offset from the uptime, so that it advances by itself:   *)
(* a reading goes back exactly when the offset gets smaller.  A rate is    *)
(* its index in GPS_BAUD_CANDIDATES.                                       *)
(***************************************************************************)
EXTENDS Naturals

CONSTANTS
    Rates,          \* GPS_BAUD_CANDIDATES.len()
    Silence,        \* CACHED_BAUD_SILENCE_TIMEOUT_MS, in ticks
    ProbeWindow,    \* BAUD_PROBE_WINDOW_MS, in ticks
    ActiveWindow,   \* GPS_ACTIVE_WINDOW_MS, in ticks
    QuietInterval,  \* GPS_QUIET_INTERVAL_MS, in ticks
    Ceiling,        \* ROOM_CLOCK_PLAUSIBILITY_CEILING_SECS, as an offset
    MaxBoots        \* bound on restarts

ASSUME GpsClockAssumption ==
    /\ {Rates, Silence, ProbeWindow, ActiveWindow, QuietInterval, Ceiling} \subseteq Nat \ {0}
    /\ MaxBoots \in Nat

VARIABLES
    uart,     \* the rate the UART runs at
    flash,    \* the cached rate, or 0
    drv,      \* the fields of GpsDriver; ages in ticks
    lock,     \* how often the APB lock is held
    adopted,  \* adopted_server_clock: an offset, or Unset
    module,   \* the GNSS module: its rate, and whether it has begun to talk
    heard,    \* history: the rates a module was heard at
    misled,   \* history: in this boot no candidate matched, or noise passed for a sentence
    boots

gpsVars == <<uart, flash, drv, lock, adopted, module, heard, misled, boots>>

Unset == Ceiling + 1
Readings == 0..Ceiling          \* what a server's timestamp amounts to on arrival
Offsets == 0..(Ceiling - 1)     \* the plausible clocks

Later(n, limit) == IF n < limit THEN n + 1 ELSE n

-----------------------------------------------------------------------------
\* The driver after GpsDriver::new: it starts active.
Fresh(rate, confirmed) ==
    [detected |-> rate, confirmed |-> confirmed, age |-> 0, probe |-> 0, probed |-> 0,
     seen |-> FALSE, fix |-> FALSE, sync |-> "none", offset |-> Unset,
     active |-> TRUE, period |-> 0]

\* full_probe_and_persist on module m, when the UART refuses the rates in bad.
\* The rate found is cached unless the write fails; if none is found the UART
\* goes back to the first candidate, unless it refuses that too.
FullProbe(m, bad) ==
    LET found == m.awake /\ m.rate \notin bad
        rate == IF found THEN m.rate ELSE 1
    IN  /\ drv' = Fresh(rate, TRUE)
        /\ uart' \in IF found \/ 1 \notin bad THEN {rate} ELSE 1..Rates
        /\ flash' \in IF found THEN {flash, rate} ELSE {flash}
        /\ heard' = IF found THEN heard \cup {rate} ELSE heard
        /\ misled' = ~found

\* The cached rate, taken without a probe; the UART is opened at the first.
UseCached ==
    /\ drv' = Fresh(flash, FALSE)
    /\ uart' = flash
    /\ misled' = FALSE
    /\ UNCHANGED <<flash, heard>>

\* The first boot: nothing cached, a full probe of a module that may be silent.
GpsInit ==
    /\ module \in [rate : 1..Rates, awake : BOOLEAN]
    /\ uart = IF module.awake THEN module.rate ELSE 1
    /\ flash = IF module.awake THEN module.rate ELSE 0
    /\ heard = IF module.awake THEN {module.rate} ELSE {}
    /\ misled = ~module.awake
    /\ drv = Fresh(uart, TRUE)
    /\ lock = 1
    /\ adopted = Unset
    /\ boots = 0

\* A restart: GpsDriver::new.  The module may have been swapped.
Reboot ==
    /\ boots < MaxBoots
    /\ boots' = boots + 1
    /\ \E m \in [rate : 1..Rates, awake : BOOLEAN], bad \in SUBSET (1..Rates) :
           /\ module' = m
           /\ IF flash = 0 \/ (flash # 1 /\ flash \in bad) THEN FullProbe(m, bad) ELSE UseCached
    /\ lock' = 1
    /\ adopted' = Unset

-----------------------------------------------------------------------------
\* Variant: the outcome is not latched, so that the re-probe is not one-shot.
ConcludeUnlatched ==
    /\ uart' \in {1, uart}
    /\ drv' = [drv EXCEPT !.detected = 1, !.probe = 0]
    /\ misled' = TRUE
    /\ UNCHANGED flash

\* conclude_reprobe_no_match: back to the first candidate, nothing is cached.
ConcludeNoMatch ==
    /\ uart' \in {1, uart}
    /\ drv' = [drv EXCEPT !.detected = 1, !.confirmed = TRUE, !.probe = 0]
    /\ misled' = TRUE
    /\ UNCHANGED flash

\* begin_reprobe_window(i): the first candidate from i on that the UART takes.
BeginWindow(i) ==
    \/ \E j \in i..Rates :
           /\ uart' = j
           /\ drv' = [drv EXCEPT !.probe = j, !.probed = 0]
           /\ UNCHANGED <<flash, misled>>
    \/ ConcludeNoMatch

\* maybe_reprobe_stale_cached_baud: the cached rate brought no sentence in time.
Stale == ~drv.confirmed /\ ~drv.seen /\ drv.age >= Silence

StartReprobe ==
    /\ drv.probe = 0 /\ Stale
    /\ BeginWindow(1)
    /\ UNCHANGED <<lock, adopted, module, heard, boots>>

\* Variant: the rate found is not taken over.
LockForgetting == drv' = [drv EXCEPT !.confirmed = TRUE, !.probe = 0]

\* The window's candidate yields a valid sentence.
LockRate == drv' = [drv EXCEPT !.detected = drv.probe, !.confirmed = TRUE, !.probe = 0]

\* service_reprobe at the end of a window.
ServiceReprobe ==
    /\ drv.probe # 0 /\ drv.probed >= ProbeWindow
    /\ IF module.awake /\ uart = module.rate
       THEN /\ LockRate
            /\ flash' \in {flash, drv.probe}
            /\ heard' = heard \cup {uart}
            /\ UNCHANGED <<uart, misled>>
       ELSE BeginWindow(drv.probe + 1) /\ UNCHANGED heard
    /\ UNCHANGED <<lock, adopted, module, boots>>

-----------------------------------------------------------------------------
\* should_close_active_window: never before the first fix.
ShouldClose(d) == d.fix /\ d.period >= ActiveWindow

\* The end of a poll in the active window.
EndPoll(d) ==
    IF ShouldClose(d)
    THEN drv' = [d EXCEPT !.active = FALSE, !.period = 0] /\ lock' = lock - 1
    ELSE drv' = d /\ UNCHANGED lock

\* A poll that reads the UART; earlier traffic confirms the rate first.
Reading == drv.probe = 0 /\ ~Stale /\ drv.active
Latched == [drv EXCEPT !.confirmed = @ \/ drv.seen]
Talking == Reading /\ module.awake /\ uart = module.rate

ReadNothing ==
    /\ Reading
    /\ EndPoll(Latched)
    /\ UNCHANGED <<uart, flash, adopted, module, heard, misled, boots>>

\* At a wrong rate, framing errors may still yield a line that starts with '$'.
ReadNoise ==
    /\ Reading /\ module.awake /\ uart # module.rate
    /\ EndPoll([Latched EXCEPT !.seen = TRUE])
    /\ misled' = TRUE
    /\ UNCHANGED <<uart, flash, adopted, module, heard, boots>>

\* A GGA sentence, with a fix or without.
ReadGga ==
    /\ Talking
    /\ \E fix \in BOOLEAN : EndPoll([Latched EXCEPT !.seen = TRUE, !.fix = @ \/ fix])
    /\ heard' = heard \cup {uart}
    /\ UNCHANGED <<uart, flash, adopted, module, misled, boots>>

\* should_accept_clock_sync
AcceptsSync(verified, d) == verified \/ d.sync = "none"

Synced(d, verified, o) ==
    IF AcceptsSync(verified, d)
    THEN [d EXCEPT !.sync = IF verified THEN "fix" ELSE "rtc", !.offset = o]
    ELSE d

\* An RMC sentence with a plausible date, from a fix or from the backup RTC.
\* settimeofday may fail.
ReadRmc ==
    /\ Talking
    /\ \E verified \in BOOLEAN, o \in Offsets, set \in BOOLEAN :
           LET d == [Latched EXCEPT !.seen = TRUE]
           IN  EndPoll(IF set THEN Synced(d, verified, o) ELSE d)
    /\ heard' = heard \cup {uart}
    /\ UNCHANGED <<uart, flash, adopted, module, misled, boots>>

\* The quiet interval ends.
Reopen ==
    /\ drv.probe = 0 /\ ~Stale /\ ~drv.active /\ drv.period >= QuietInterval
    /\ drv' = [Latched EXCEPT !.active = TRUE, !.period = 0]
    /\ lock' = lock + 1
    /\ UNCHANGED <<uart, flash, adopted, module, heard, misled, boots>>

-----------------------------------------------------------------------------
Verified == drv.sync = "fix"

\* Variant: any plausible reading is adopted.
AdoptedAny(ts) == IF Verified \/ ts >= Ceiling THEN adopted ELSE ts

\* adopt_server_clock: not over a fix, not an implausible one, never backwards.
Adopted(ts) ==
    IF Verified \/ ts >= Ceiling \/ (adopted # Unset /\ ts < adopted) THEN adopted ELSE ts

\* A login reply or a push brings a server's timestamp, late or reordered.
ServerTime ==
    /\ \E ts \in Readings : adopted' = Adopted(ts)
    /\ UNCHANGED <<uart, flash, drv, lock, module, heard, misled, boots>>

\* trusted_wall_clock_secs: its source and its reading.
Source ==
    IF Verified THEN "Gps"
    ELSE IF adopted # Unset THEN "RoomServer"
    ELSE IF drv.sync = "rtc" THEN "GpsUnverified" ELSE "None"

TrustedClock ==
    IF Source = "RoomServer" THEN adopted ELSE drv.offset

GpsTick ==
    /\ drv' = [drv EXCEPT !.age = Later(@, Silence), !.probed = Later(@, ProbeWindow),
                 !.period = Later(@, IF drv.active THEN ActiveWindow ELSE QuietInterval)]
    /\ UNCHANGED <<uart, flash, lock, adopted, module, heard, misled, boots>>

\* The module begins to talk.
Wakes ==
    /\ ~module.awake
    /\ module' = [module EXCEPT !.awake = TRUE]
    /\ UNCHANGED <<uart, flash, drv, lock, adopted, heard, misled, boots>>

Poll ==
    \/ StartReprobe \/ ServiceReprobe
    \/ ReadNothing \/ ReadNoise \/ ReadGga \/ ReadRmc \/ Reopen

GpsNext == Poll \/ ServerTime \/ GpsTick \/ Wakes \/ Reboot

\* The dispatcher polls the driver in every iteration, and time passes.
GpsSpec == GpsInit /\ [][GpsNext]_gpsVars /\ WF_gpsVars(Poll) /\ WF_gpsVars(GpsTick)

-----------------------------------------------------------------------------
GpsTypeOK ==
    /\ uart \in 1..Rates /\ flash \in 0..Rates
    /\ drv \in [detected : 1..Rates, confirmed : BOOLEAN, age : 0..Silence,
                probe : 0..Rates, probed : 0..ProbeWindow, seen : BOOLEAN, fix : BOOLEAN,
                sync : {"none", "rtc", "fix"}, offset : Offsets \cup {Unset},
                active : BOOLEAN, period : 0..(ActiveWindow + QuietInterval)]
    /\ lock \in Nat
    /\ adopted \in Offsets \cup {Unset}
    /\ module \in [rate : 1..Rates, awake : BOOLEAN]
    /\ heard \subseteq 1..Rates
    /\ misled \in BOOLEAN
    /\ boots \in 0..MaxBoots

(***************************************************************************)
(* poll's doc argues that "no separate bracket is needed around the        *)
(* reprobe path": the APB lock is held exactly once while the driver is    *)
(* active and not at all while it is quiet, and a re-probe, which reads    *)
(* the UART whether or not the driver is active, runs only while it is.    *)
(***************************************************************************)
LockCoversReading ==
    /\ lock = IF drv.active THEN 1 ELSE 0
    /\ drv.probe # 0 => drv.active

(***************************************************************************)
(* A rate that counts as confirmed, by a probe, by traffic at the cached   *)
(* rate or by the self-healing re-probe, across restarts and swapped       *)
(* modules, is the rate the module talks at and the one the UART runs at,  *)
(* unless no candidate matched or noise passed for a sentence.             *)
(***************************************************************************)
ConfirmedIsRight ==
    drv.confirmed /\ ~misled => uart = module.rate /\ drv.detected = uart

(***************************************************************************)
(* "a genuinely dead/disconnected module shouldn't overwrite a             *)
(* previously-good NVS cache entry" (gps.rs, conclude_reprobe_no_match):   *)
(* the cache only ever holds a rate at which some module was heard.        *)
(***************************************************************************)
CacheWasHeard == flash # 0 => flash \in heard

\* The driver's rate, its cache and its power-management lock stay true through
\* re-probes, duty cycles, restarts and swapped modules.
DriverInv == GpsTypeOK /\ LockCoversReading /\ ConfirmedIsRight /\ CacheWasHeard

(***************************************************************************)
(* Within a boot a clock sync is never downgraded, and the anchor of an    *)
(* unverified sync is set once (gps.rs, should_accept_clock_sync, the      *)
(* zero-age defect): only a fix replaces it.                               *)
(***************************************************************************)
SyncOnlyImproves ==
    [][boots' = boots =>
           /\ drv.sync = "fix" => drv'.sync = "fix"
           /\ drv.sync = "rtc" => drv'.sync = "fix" \/ (drv'.sync = "rtc" /\ drv'.offset = drv.offset)
      ]_gpsVars

(***************************************************************************)
(* "Never move a trusted clock backwards" (room_session.rs,                *)
(* adopt_server_clock): while the trusted clock is a room server's, no     *)
(* late or reordered timestamp of any room makes it go back, and within a  *)
(* boot its source never gets worse.                                       *)
(***************************************************************************)
TrustedNeverBack ==
    [][boots' = boots =>
           /\ Source = "RoomServer" => Source' \in {"RoomServer", "Gps"}
           /\ Source = "RoomServer" /\ Source' = "RoomServer" => TrustedClock' >= TrustedClock
           /\ Source = "Gps" => Source' = "Gps"
      ]_gpsVars

\* Whatever order fixes, backup-RTC readings and servers' timestamps come in, the
\* clock only gets better.
ClockOnlyImproves == SyncOnlyImproves /\ TrustedNeverBack

(***************************************************************************)
(* A cached rate does not stay in doubt: traffic confirms it or the        *)
(* re-probe, spread over many polls, comes to an end.                      *)
(***************************************************************************)
EventuallyConfirmed == ~drv.confirmed ~> drv.confirmed
=============================================================================
