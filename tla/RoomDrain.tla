----------------------------- MODULE RoomDrain ------------------------------
(***************************************************************************)
(* The client's half of one room session during one boot: the drain window *)
(* that folds a post-login backlog into one notification (RoomSyncPhase of *)
(* firmware-core/src/room_session.rs), the keep-alive stall detector, the  *)
(* re-flood backoff, and the handlers of firmware/src/main.rs that drive   *)
(* them: the room scheduler's pass, a login reply, a pushed post and the   *)
(* ACK of a keep-alive.                                                    *)
(*                                                                         *)
(* The server and the mesh are the environment: a reply, a push or an ACK  *)
(* arrives late, out of order or never.  Timestamps are kept as ages in    *)
(* ticks, each capped where no comparison can tell larger ages apart.  The *)
(* ACK hash of a keep-alive covers a timestamp no other keep-alive uses,   *)
(* so the slot that expects one is a Boolean.  The session's timestamps    *)
(* and watermarks, and what NVS keeps of them, are not part of this module.*)
(***************************************************************************)
EXTENDS Integers, Sequences

CONSTANTS Posts,             \* the posts the server pushes
          RecentCap,         \* ROOM_RECENT_CAP
          FirstDelay,        \* ROOM_FIRST_KEEP_ALIVE_DELAY_MS, in ticks
          DrainingInterval,  \* ROOM_DRAINING_KEEP_ALIVE_INTERVAL_MS
          RoutineInterval,   \* ROOM_KEEP_ALIVE_INTERVAL_MS
          StallThreshold,    \* KEEP_ALIVE_STALL_THRESHOLD
          RefloodInitial,    \* ROOM_REFLOOD_INITIAL_BACKOFF_MS
          RefloodCeiling,    \* ROOM_REFLOOD_BACKOFF_CEILING_MS
          StallTimeout,      \* DRAIN_WINDOW_STALL_TIMEOUT_MS
          SuppressionCeiling,\* DRAIN_SUPPRESSION_CEILING_MS
          RegionKeyed,       \* the values region_emission() may have this boot
          MaxArrivals,       \* bound on the new posts of a behaviour
          MaxLogins,         \* bound on the login replies in flight
          MaxDoublings       \* attempts past which the backoff is at its ceiling

ASSUME RoomDrainAssumption ==
    /\ RecentCap \in Nat \ {0}
    /\ FirstDelay \in Nat /\ DrainingInterval \in Nat /\ RoutineInterval \in Nat
    /\ StallThreshold \in Nat \ {0}
    /\ RefloodInitial \in Nat /\ RefloodCeiling \in Nat
    /\ StallTimeout \in Nat /\ SuppressionCeiling \in Nat \ {0}
    /\ MaxArrivals \in Nat /\ MaxLogins \in Nat \ {0} /\ MaxDoublings \in Nat
    /\ RegionKeyed \subseteq BOOLEAN
    /\ DrainingInterval <= RoutineInterval /\ FirstDelay <= RoutineInterval
    /\ RefloodInitial <= RefloodCeiling

\* The compile-time assertions of main.rs that tie the cadences together.
ASSUME CadenceAssumption ==
    /\ FirstDelay + StallThreshold * DrainingInterval > RefloodInitial
    /\ SuppressionCeiling >= 3 * DrainingInterval
    /\ SuppressionCeiling < StallTimeout

\* What a prompt relearn really rests on (30 s and 2 * 15 s in the code).
ASSUME RelearnAssumption == StallThreshold * DrainingInterval >= RefloodInitial

\* The cap on the attempts counter hides nothing: the backoff is at its ceiling.
ASSUME DoublingAssumption == RefloodInitial * 2^MaxDoublings >= RefloodCeiling

NotSet == -1

Min2(a, b) == IF a <= b THEN a ELSE b

VARIABLES
    win,            \* sync_phase, the drain window
    routeKnown,     \* session.has_route()
    refloodAge,     \* ticks since last_reflood_ms
    refloodAttempts,
    everKeptAlive,  \* last_keep_alive_ms # 0
    keepAliveAge,   \* ticks since last_keep_alive_ms
    pendingAck,     \* pending_keep_alive_ack.is_some()
    missed,         \* keep_alive_stall.missed
    loginSent,      \* login_sent; FALSE for the whole boot if no region key
    logins,         \* logins whose reply may still arrive
    recent,         \* the posts the dedup tail remembers, oldest first
    swept,          \* the scheduler has nothing left to do at this instant
    arrived,        \* new posts received
    announced,      \* posts the UI was told to notify about
    lost            \* posts a login reply dropped from the window

drainVars == <<win, announced>>
routeVars == <<routeKnown, refloodAge, refloodAttempts>>
aliveVars == <<everKeptAlive, keepAliveAge, pendingAck, missed>>
vars == <<drainVars, routeVars, aliveVars, loginSent, logins, recent, swept, arrived, lost>>

Window == [draining : BOOLEAN, drained : Nat, progress : Nat, failed : BOOLEAN,
           first : Nat \cup {NotSet}]

TypeOK ==
    /\ win \in Window
    /\ routeKnown \in BOOLEAN /\ refloodAge \in 0..RefloodCeiling
    /\ refloodAttempts \in 0..MaxDoublings
    /\ everKeptAlive \in BOOLEAN /\ keepAliveAge \in 0..RoutineInterval
    /\ pendingAck \in BOOLEAN /\ missed \in 0..(StallThreshold - 1)
    /\ loginSent \in BOOLEAN /\ logins \in 0..MaxLogins
    /\ recent \in Seq(Posts) /\ Len(recent) <= RecentCap
    /\ swept \in BOOLEAN
    /\ arrived \in 0..MaxArrivals /\ announced \in Nat /\ lost \in Nat

-----------------------------------------------------------------------------
(* RoomSyncPhase *)

\* new_after_login; the ages start at 0.
NewAfterLogin ==
    [draining |-> TRUE, drained |-> 0, progress |-> 0, failed |-> FALSE, first |-> NotSet]

IsStalled(w) == w.failed \/ w.progress >= StallTimeout

SuppressedTooLong(w) == w.first # NotSet /\ w.first >= SuppressionCeiling

\* A variant of MustClose: the ceiling is forgotten.
MustCloseOnStall(w) == IsStalled(w)

MustClose(w) == IsStalled(w) \/ SuppressedTooLong(w)

\* take_aggregate: the window shuts; the caller announces what it held.
TakeAggregate(w) ==
    [w EXCEPT !.draining = FALSE, !.failed = FALSE, !.first = NotSet, !.drained = 0]

\* on_scheduler_tick
TickCloses == win.draining /\ MustClose(win)
OnSchedulerTick == IF TickCloses THEN TakeAggregate(win) ELSE win
TickAnnounces == IF TickCloses THEN win.drained ELSE 0

\* A variant of PostAnnounces: a force-close forgets the post that forced it.
PostAnnouncesBacklog ==
    IF ~win.draining THEN 1 ELSE IF MustClose(win) THEN win.drained ELSE 0

\* on_post_received: live, force-closed with this post folded in, or absorbed.
PostAnnounces ==
    IF ~win.draining THEN 1 ELSE IF MustClose(win) THEN win.drained + 1 ELSE 0
OnPostReceived ==
    IF ~win.draining THEN win
    ELSE IF MustClose(win) THEN TakeAggregate(win)
    ELSE [win EXCEPT !.drained = @ + 1, !.first = IF @ = NotSet THEN 0 ELSE @]

\* on_keep_alive_ack
OnKeepAliveAck(unsynced) ==
    IF ~win.draining THEN win
    ELSE LET alive == [win EXCEPT !.progress = 0, !.failed = FALSE]
         IN  IF unsynced = 0 THEN TakeAggregate(alive) ELSE alive

\* note_closer_failed, on the window the same pass has already re-evaluated.
NoteCloserFailed(w) ==
    IF ~w.draining THEN w
    ELSE IF w.drained = 0 THEN [w EXCEPT !.failed = TRUE] ELSE TakeAggregate(w)

KeepAliveInterval(draining) ==
    IF ~everKeptAlive THEN FirstDelay
    ELSE IF draining THEN DrainingInterval ELSE RoutineInterval

RefloodInterval(attempts) == Min2(RefloodInitial * 2^attempts, RefloodCeiling)

-----------------------------------------------------------------------------
(***************************************************************************)
(* The runtime as it is built at boot, right after the boot login: the     *)
(* route and the dedup tail come from flash.  Without a region key the     *)
(* login is suppressed, and with it everything the scheduler does for the  *)
(* room; region_emission() cannot change its answer before the next boot.  *)
(***************************************************************************)
Init ==
    /\ win = NewAfterLogin
    /\ routeKnown \in BOOLEAN
    /\ refloodAge = 0 /\ refloodAttempts = 0
    /\ everKeptAlive = FALSE /\ keepAliveAge = 0
    /\ pendingAck = FALSE /\ missed = 0
    /\ loginSent \in RegionKeyed
    /\ logins = IF loginSent THEN 1 ELSE 0
    /\ recent \in {<<>>} \cup {<<p>> : p \in Posts}
    /\ swept = FALSE
    /\ arrived = 0 /\ announced = 0 /\ lost = 0

-----------------------------------------------------------------------------
(* One pass of the room scheduler; it starts by re-evaluating the window. *)

SchedulerPass ==
    /\ ~swept /\ loginSent
    /\ UNCHANGED <<loginSent, recent, arrived, lost>>

Reevaluate ==
    /\ win' = OnSchedulerTick
    /\ announced' = announced + TickAnnounces

\* The room whose boot login was suppressed is skipped.
SkipRoom ==
    /\ ~swept /\ ~loginSent
    /\ swept' = TRUE
    /\ UNCHANGED <<drainVars, routeVars, aliveVars, loginSent, logins, recent, arrived, lost>>

\* No route, and the backoff has not run out.
RefloodWait ==
    /\ SchedulerPass
    /\ ~routeKnown
    /\ refloodAge < RefloodInterval(refloodAttempts)
    /\ Reevaluate
    /\ swept' = TRUE
    /\ UNCHANGED <<routeVars, aliveVars, logins>>

\* No route: the login is flooded again.
Reflood ==
    /\ SchedulerPass
    /\ ~routeKnown
    /\ refloodAge >= RefloodInterval(refloodAttempts)
    /\ Reevaluate
    /\ refloodAge' = 0
    /\ refloodAttempts' = Min2(refloodAttempts + 1, MaxDoublings)
    /\ logins' = Min2(logins + 1, MaxLogins)
    /\ swept' = TRUE
    /\ UNCHANGED <<routeKnown, aliveVars>>

KeepAliveDue == keepAliveAge >= KeepAliveInterval(OnSchedulerTick.draining)

KeepAliveWait ==
    /\ SchedulerPass
    /\ routeKnown /\ ~KeepAliveDue
    /\ Reevaluate
    /\ swept' = TRUE
    /\ UNCHANGED <<routeVars, aliveVars, logins>>

KeepAliveTick ==
    /\ SchedulerPass
    /\ routeKnown /\ KeepAliveDue
    /\ everKeptAlive' = TRUE
    /\ keepAliveAge' = 0
    /\ UNCHANGED logins

\* A variant of StallReached: one miss more is tolerated.
StallReachedLate == missed + 1 > StallThreshold

\* RoomKeepAliveStall::on_tick
StallReached == missed + 1 >= StallThreshold

SendKeepAlive ==
    /\ KeepAliveTick
    /\ ~pendingAck
    /\ pendingAck' = TRUE
    /\ Reevaluate
    /\ swept' = TRUE
    /\ UNCHANGED <<routeVars, missed>>

\* The previous keep-alive is unanswered, and that is still tolerated: it is
\* not overwritten by another one.
MissKeepAlive ==
    /\ KeepAliveTick
    /\ pendingAck
    /\ ~StallReached
    /\ missed' = missed + 1
    /\ Reevaluate
    /\ swept' = TRUE
    /\ UNCHANGED <<routeVars, pendingAck>>

\* A variant of InvalidateRoute: the hop bytes are cleared and the flag is not.
InvalidateRouteKeepsFlag ==
    /\ KeepAliveTick
    /\ pendingAck
    /\ StallReached
    /\ missed' = 0
    /\ pendingAck' = FALSE
    /\ win' = NoteCloserFailed(OnSchedulerTick)
    /\ announced' = announced + (win.drained - win'.drained)
    /\ swept' = FALSE
    /\ UNCHANGED routeVars

\* One miss too many: the route is forgotten and a held backlog is flushed;
\* the next pass, at the same instant, takes the re-flood branch.
InvalidateRoute ==
    /\ KeepAliveTick
    /\ pendingAck
    /\ StallReached
    /\ missed' = 0
    /\ pendingAck' = FALSE
    /\ routeKnown' = FALSE
    /\ win' = NoteCloserFailed(OnSchedulerTick)
    /\ announced' = announced + (win.drained - win'.drained)
    /\ swept' = FALSE
    /\ UNCHANGED <<refloodAge, refloodAttempts>>

-----------------------------------------------------------------------------
(* Frames from the room server, at any moment. *)

\* A variant of LoginReply: a relearned route does not reset the backoff.
LoginReplyKeepsBackoff(taught) ==
    /\ logins > 0
    /\ logins' = logins - 1
    /\ routeKnown' = (routeKnown \/ taught)
    /\ missed' = 0
    /\ win' = NewAfterLogin
    /\ lost' = lost + win.drained
    /\ swept' = FALSE
    /\ UNCHANGED <<refloodAge, refloodAttempts, everKeptAlive, keepAliveAge, pendingAck,
                   loginSent, recent, arrived, announced>>

\* apply_room_login_outcome: the bundled reply of a flood teaches a route, the
\* direct reply does not; either reopens the window, whatever it held.
LoginReply(taught) ==
    /\ logins > 0
    /\ logins' = logins - 1
    /\ routeKnown' = (routeKnown \/ taught)
    /\ missed' = 0
    /\ win' = NewAfterLogin
    /\ lost' = lost + win.drained
    /\ refloodAttempts' = IF routeKnown' THEN 0 ELSE refloodAttempts
    /\ swept' = FALSE
    /\ UNCHANGED <<refloodAge, everKeptAlive, keepAliveAge, pendingAck, loginSent, recent,
                   arrived, announced>>

InRecent(p) == \E i \in 1..Len(recent) : recent[i] = p

\* handle_room_push_frame, of a post the dedup tail does not hold.
PushNew(p) ==
    /\ ~InRecent(p)
    /\ arrived < MaxArrivals
    /\ arrived' = arrived + 1
    /\ missed' = 0
    /\ refloodAttempts' = 0
    /\ win' = OnPostReceived
    /\ announced' = announced + PostAnnounces
    /\ recent' = Append(IF Len(recent) >= RecentCap THEN Tail(recent) ELSE recent, p)
    /\ swept' = FALSE
    /\ UNCHANGED <<routeKnown, refloodAge, everKeptAlive, keepAliveAge, pendingAck,
                   loginSent, logins, lost>>

\* The same, of one it holds: proof of life, and nothing to notify about.
PushAgain(p) ==
    /\ InRecent(p)
    /\ missed' = 0
    /\ refloodAttempts' = 0
    /\ swept' = FALSE
    /\ UNCHANGED <<drainVars, routeKnown, refloodAge, everKeptAlive, keepAliveAge,
                   pendingAck, loginSent, logins, recent, arrived, lost>>

\* handle_ack, of the keep-alive that is waited for.
KeepAliveAck(unsynced) ==
    /\ pendingAck
    /\ pendingAck' = FALSE
    /\ missed' = 0
    /\ win' = OnKeepAliveAck(unsynced)
    /\ announced' = announced + (win.drained - win'.drained)
    /\ swept' = FALSE
    /\ UNCHANGED <<routeVars, everKeptAlive, keepAliveAge, loginSent, logins, recent,
                   arrived, lost>>

\* The same, of an ACK cut short before its unsynced-count byte.
KeepAliveAckCutShort ==
    /\ pendingAck
    /\ pendingAck' = FALSE
    /\ missed' = 0
    /\ swept' = FALSE
    /\ UNCHANGED <<drainVars, routeVars, everKeptAlive, keepAliveAge, loginSent, logins,
                   recent, arrived, lost>>

\* A tick of the clock: thousands of loop passes fit in one, so it comes only
\* when the scheduler has nothing left to do.
Tick ==
    /\ swept
    /\ swept' = FALSE
    /\ win' = [win EXCEPT !.progress = Min2(@ + 1, StallTimeout),
                          !.first = IF @ = NotSet THEN @
                                    ELSE Min2(@ + 1, SuppressionCeiling + 1)]
    /\ refloodAge' = Min2(refloodAge + 1, RefloodCeiling)
    /\ keepAliveAge' = Min2(keepAliveAge + 1, RoutineInterval)
    /\ UNCHANGED <<announced, routeKnown, refloodAttempts, everKeptAlive, pendingAck, missed,
                   loginSent, logins, recent, arrived, lost>>

Scheduler ==
    \/ SkipRoom \/ RefloodWait \/ Reflood \/ KeepAliveWait
    \/ SendKeepAlive \/ MissKeepAlive \/ InvalidateRoute

ServerFrame ==
    \/ \E taught \in BOOLEAN : LoginReply(taught)
    \/ \E p \in Posts : PushNew(p)
    \/ \E p \in Posts : PushAgain(p)
    \/ \E unsynced \in {0, 1} : KeepAliveAck(unsynced)
    \/ KeepAliveAckCutShort

Next == Scheduler \/ ServerFrame \/ Tick

Spec == Init /\ [][Next]_vars

\* The loop always comes around again, and time passes however many frames
\* arrive; the server and the mesh promise nothing.
FairSpec == Spec /\ WF_vars(Scheduler) /\ SF_vars(Tick)

-----------------------------------------------------------------------------
(* Properties *)

\* Every new post is announced by exactly one notification, or waits in the
\* window for one, or was in the window a login reply replaced: no closer
\* counts a post twice or drops one.
PostsAccounted == arrived = announced + win.drained + lost

\* A room the scheduler serves never holds a post back for longer than the
\* suppression ceiling, whatever the server answers and however often the
\* keep-alive's ACK proves the closer alive.
SuppressionBounded == loginSent => win.first <= SuppressionCeiling

\* When the stall detector gives a route up, the backoff has already run out,
\* so the very next pass floods the login: the claim of main.rs's compile-time
\* assertion on the cadences.
PromptRelearn ==
    [][routeKnown /\ ~routeKnown' => refloodAttempts' = 0 /\ refloodAge' >= RefloodInitial]_vars

\* A post held back leaves the window sooner or later, with no help from the
\* server (on_scheduler_tick's reason to exist).
WindowFlushes == (loginSent /\ win.drained > 0) ~> (win.drained = 0)

\* However the session started, and whatever route it believes in, a server
\* that falls silent is asked again and again: the stall detector gives the
\* route up and the backoff never stops the login from being flooded.
KeepsRelearning ==
    []<><<ServerFrame>>_vars \/ []<>(~loginSent \/ refloodAge = 0)
=============================================================================
