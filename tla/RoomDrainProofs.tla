-------------------------- MODULE RoomDrainProofs ---------------------------
(***************************************************************************)
(* Proofs about RoomDrain: the accounting of posts, the suppression bound  *)
(* and the prompt relearn hold for every choice of cadences that satisfies *)
(* the module's assumptions.                                               *)
(***************************************************************************)
EXTENDS RoomDrain, TLAPS

\* The facts about the constants that the arithmetic below needs.
LEMMA ConstantFacts ==
    /\ RecentCap \in Nat /\ RecentCap >= 1
    /\ DrainingInterval \in Nat
    /\ RoutineInterval \in Nat /\ DrainingInterval <= RoutineInterval
    /\ StallThreshold \in Nat /\ StallThreshold >= 1
    /\ RefloodInitial \in Nat
    /\ RefloodCeiling \in Nat /\ RefloodInitial <= RefloodCeiling
    /\ SuppressionCeiling \in Nat /\ SuppressionCeiling >= 1
    /\ StallTimeout \in Nat /\ MaxArrivals \in Nat /\ MaxDoublings \in Nat
    /\ MaxLogins \in Nat /\ MaxLogins >= 1
    /\ RegionKeyed \subseteq BOOLEAN
BY RoomDrainAssumption

\* Every counter may be reset.
LEMMA ZeroFacts ==
    /\ 0 \in 0..(StallThreshold - 1) /\ 0 \in 0..MaxDoublings
    /\ 0 \in 0..RoutineInterval /\ 0 \in 0..RefloodCeiling
BY ConstantFacts

LEMMA Min2Fact ==
    ASSUME NEW a \in Nat, NEW b \in Nat
    PROVE  Min2(a, b) \in Nat /\ Min2(a, b) <= a /\ Min2(a, b) <= b /\ Min2(a, b) \in {a, b}
BY DEF Min2

-----------------------------------------------------------------------------
(* What the window's operations return *)

\* A shut window holds nothing back.
ShutIsEmpty(w) == ~w.draining => w.first = NotSet

LEMMA TakeAggregateFact ==
    ASSUME NEW w \in Window
    PROVE  /\ TakeAggregate(w) \in Window
           /\ TakeAggregate(w).draining = FALSE
           /\ TakeAggregate(w).drained = 0
           /\ TakeAggregate(w).first = NotSet
BY DEF TakeAggregate, Window, NotSet

LEMMA NewAfterLoginFact ==
    /\ NewAfterLogin \in Window
    /\ NewAfterLogin.draining = TRUE
    /\ NewAfterLogin.drained = 0
    /\ NewAfterLogin.first = NotSet
BY DEF NewAfterLogin, Window, NotSet

LEMMA WindowFields ==
    ASSUME NEW w \in Window
    PROVE  /\ w.draining \in BOOLEAN /\ w.drained \in Nat
           /\ w.first \in Int /\ w.first >= -1
BY DEF Window, NotSet

\* The scheduler's re-evaluation keeps the post count, and leaves no window
\* open whose oldest post has reached the ceiling.
LEMMA SchedulerTickFact ==
    ASSUME win \in Window, ShutIsEmpty(win)
    PROVE  /\ OnSchedulerTick \in Window
           /\ ShutIsEmpty(OnSchedulerTick)
           /\ TickAnnounces \in Nat
           /\ TickAnnounces + OnSchedulerTick.drained = win.drained
           /\ OnSchedulerTick.first < SuppressionCeiling
<1>0. win.drained \in Nat /\ win.first \in Int
  BY WindowFields
<1>1. CASE TickCloses
  <2>1. OnSchedulerTick = TakeAggregate(win) /\ TickAnnounces = win.drained
    BY <1>1 DEF OnSchedulerTick, TickAnnounces
  <2>2. TakeAggregate(win).first < SuppressionCeiling
    <3>1. TakeAggregate(win).first = NotSet
      BY TakeAggregateFact
    <3>2. NotSet < SuppressionCeiling
      BY ConstantFacts DEF NotSet
    <3> QED  BY <3>1, <3>2
  <2>3. win.drained + 0 = win.drained
    BY <1>0
  <2> QED  BY <1>0, <2>1, <2>2, <2>3, TakeAggregateFact DEF ShutIsEmpty
<1>2. CASE ~TickCloses
  <2>1. OnSchedulerTick = win /\ TickAnnounces = 0
    BY <1>2 DEF OnSchedulerTick, TickAnnounces
  <2>2. win.first < SuppressionCeiling
    BY <1>0, <1>2, ConstantFacts DEF TickCloses, MustClose, SuppressedTooLong, ShutIsEmpty, NotSet
  <2> QED  BY <1>0, <2>1, <2>2
<1> QED  BY <1>1, <1>2

LEMMA PostReceivedFact ==
    ASSUME win \in Window, ShutIsEmpty(win), loginSent => win.first <= SuppressionCeiling
    PROVE  /\ OnPostReceived \in Window
           /\ ShutIsEmpty(OnPostReceived)
           /\ PostAnnounces \in Nat
           /\ PostAnnounces + OnPostReceived.drained = win.drained + 1
           /\ loginSent => OnPostReceived.first <= SuppressionCeiling
<1>0. win.drained \in Nat /\ win.first \in Int
  BY WindowFields
<1>1. CASE ~win.draining
  <2>1. OnPostReceived = win /\ PostAnnounces = 1
    BY <1>1 DEF OnPostReceived, PostAnnounces
  <2> QED  BY <1>0, <2>1
<1>2. CASE win.draining /\ MustClose(win)
  <2>1. OnPostReceived = TakeAggregate(win) /\ PostAnnounces = win.drained + 1
    BY <1>2 DEF OnPostReceived, PostAnnounces
  <2>2. TakeAggregate(win).first <= SuppressionCeiling
    <3>1. TakeAggregate(win).first = NotSet
      BY TakeAggregateFact
    <3>2. NotSet <= SuppressionCeiling
      BY ConstantFacts DEF NotSet
    <3> QED  BY <3>1, <3>2
  <2>3. win.drained + 1 \in Nat /\ win.drained + 1 + 0 = win.drained + 1
    BY <1>0
  <2> QED  BY <2>1, <2>2, <2>3, TakeAggregateFact DEF ShutIsEmpty
<1>3. CASE win.draining /\ ~MustClose(win)
  <2> DEFINE w == [win EXCEPT !.drained = @ + 1, !.first = IF @ = NotSet THEN 0 ELSE @]
  <2>1. OnPostReceived = w /\ PostAnnounces = 0
    BY <1>3 DEF OnPostReceived, PostAnnounces
  <2>2. w \in Window
    <3>1. win.drained + 1 \in Nat
      BY <1>0
    <3>2. win.first \in Nat \cup {NotSet}
      BY DEF Window
    <3>3. (IF win.first = NotSet THEN 0 ELSE win.first) \in Nat \cup {NotSet}
      BY <3>2
    <3> QED  BY <3>1, <3>3 DEF Window
  <2>3. w.drained = win.drained + 1 /\ w.draining = win.draining
        /\ w.first \in {0, win.first}
    BY DEF Window
  <2> HIDE DEF w
  <2>4. loginSent => w.first <= SuppressionCeiling
    BY <1>0, <2>3, ConstantFacts
  <2>5. 0 + (win.drained + 1) = win.drained + 1
    BY <1>0
  <2> QED  BY <1>3, <2>1, <2>2, <2>3, <2>4, <2>5 DEF ShutIsEmpty
<1> QED  BY <1>1, <1>2, <1>3

LEMMA KeepAliveAckFact ==
    ASSUME NEW unsynced, win \in Window, ShutIsEmpty(win)
    PROVE  /\ OnKeepAliveAck(unsynced) \in Window
           /\ ShutIsEmpty(OnKeepAliveAck(unsynced))
           /\ OnKeepAliveAck(unsynced).drained <= win.drained
           /\ OnKeepAliveAck(unsynced).first \in {win.first, NotSet}
<1> DEFINE alive == [win EXCEPT !.progress = 0, !.failed = FALSE]
<1>0. win.drained \in Nat
  BY WindowFields
<1>1. alive \in Window /\ alive.draining = win.draining /\ alive.drained = win.drained
      /\ alive.first = win.first
  BY DEF Window
<1> HIDE DEF alive
<1>2. CASE ~win.draining
  <2>1. OnKeepAliveAck(unsynced) = win
    BY <1>2 DEF OnKeepAliveAck
  <2> QED  BY <1>0, <2>1
<1>3. CASE win.draining /\ unsynced = 0
  <2>1. OnKeepAliveAck(unsynced) = TakeAggregate(alive)
    BY <1>3 DEF OnKeepAliveAck, alive
  <2>2. 0 <= win.drained
    BY <1>0
  <2> QED  BY <2>1, <2>2, <1>1, TakeAggregateFact DEF ShutIsEmpty
<1>4. CASE win.draining /\ unsynced # 0
  <2>1. OnKeepAliveAck(unsynced) = alive
    BY <1>4 DEF OnKeepAliveAck, alive
  <2> QED  BY <1>0, <2>1, <1>1 DEF ShutIsEmpty
<1> QED  BY <1>2, <1>3, <1>4

LEMMA CloserFailedFact ==
    ASSUME NEW w \in Window, ShutIsEmpty(w)
    PROVE  /\ NoteCloserFailed(w) \in Window
           /\ ShutIsEmpty(NoteCloserFailed(w))
           /\ NoteCloserFailed(w).drained <= w.drained
           /\ NoteCloserFailed(w).first \in {w.first, NotSet}
<1>0. w.drained \in Nat
  BY WindowFields
<1>1. CASE ~w.draining
  <2>1. NoteCloserFailed(w) = w
    BY <1>1 DEF NoteCloserFailed
  <2> QED  BY <1>0, <2>1
<1>2. CASE w.draining /\ w.drained = 0
  <2> DEFINE v == [w EXCEPT !.failed = TRUE]
  <2>1. NoteCloserFailed(w) = v
    BY <1>2 DEF NoteCloserFailed
  <2>2. v \in Window /\ v.draining = w.draining /\ v.drained = w.drained /\ v.first = w.first
    BY DEF Window
  <2> HIDE DEF v
  <2> QED  BY <1>0, <2>1, <2>2 DEF ShutIsEmpty
<1>3. CASE w.draining /\ w.drained # 0
  <2>1. NoteCloserFailed(w) = TakeAggregate(w)
    BY <1>3 DEF NoteCloserFailed
  <2>2. 0 <= w.drained
    BY <1>0
  <2> QED  BY <2>1, <2>2, TakeAggregateFact DEF ShutIsEmpty
<1> QED  BY <1>1, <1>2, <1>3

-----------------------------------------------------------------------------
(***************************************************************************)
(* The window.  The scheduler is the only closer that needs no event, so   *)
(* the bound rests on the clock waiting for its pass: once the pass of a   *)
(* tick is over, the oldest post held back is younger than the ceiling.    *)
(***************************************************************************)
SweptBelowCeiling == loginSent /\ swept => win.first < SuppressionCeiling

WindowInv ==
    /\ TypeOK
    /\ ShutIsEmpty(win)
    /\ SweptBelowCeiling
    /\ SuppressionBounded
    /\ PostsAccounted

LEMMA WindowInit == Init => WindowInv
<1> SUFFICES ASSUME Init PROVE WindowInv
  OBVIOUS
<1>1. win \in Window /\ win.draining = TRUE /\ win.drained = 0 /\ win.first = NotSet
  BY NewAfterLoginFact DEF Init
<1>2. recent \in Seq(Posts) /\ Len(recent) <= RecentCap
  <2>1. CASE recent = <<>>
    BY <2>1, ConstantFacts
  <2>2. CASE \E p \in Posts : recent = <<p>>
    <3>1. PICK p \in Posts : recent = <<p>>
      BY <2>2
    <3>2. <<p>> \in Seq(Posts) /\ Len(<<p>>) = 1
      OBVIOUS
    <3> QED  BY <3>1, <3>2, ConstantFacts
  <2> QED  BY <2>1, <2>2 DEF Init
<1>3. TypeOK
  <2>1. loginSent \in BOOLEAN /\ logins \in 0..MaxLogins
    BY ConstantFacts DEF Init
  <2>2. /\ refloodAge \in 0..RefloodCeiling /\ refloodAttempts \in 0..MaxDoublings
        /\ keepAliveAge \in 0..RoutineInterval /\ missed \in 0..(StallThreshold - 1)
        /\ arrived \in 0..MaxArrivals /\ announced \in Nat /\ lost \in Nat
    BY ConstantFacts DEF Init
  <2>3. /\ routeKnown \in BOOLEAN /\ everKeptAlive \in BOOLEAN /\ pendingAck \in BOOLEAN
        /\ swept \in BOOLEAN
    BY DEF Init
  <2> QED  BY <1>1, <1>2, <2>1, <2>2, <2>3 DEF TypeOK
<1>4. NotSet <= SuppressionCeiling
  BY ConstantFacts DEF NotSet
<1>5. ShutIsEmpty(win) /\ SweptBelowCeiling /\ SuppressionBounded
  BY <1>1, <1>4 DEF Init, ShutIsEmpty, SweptBelowCeiling, SuppressionBounded
<1>6. PostsAccounted
  BY <1>1 DEF Init, PostsAccounted
<1> QED  BY <1>3, <1>5, <1>6 DEF WindowInv

\* The facts every case below starts from.
LEMMA WindowInvFacts ==
    ASSUME WindowInv
    PROVE  /\ win \in Window /\ win.drained \in Nat /\ win.first \in Int
           /\ arrived \in Nat /\ announced \in Nat /\ lost \in Nat
           /\ arrived = announced + win.drained + lost
<1>1. win \in Window /\ arrived \in Nat /\ announced \in Nat /\ lost \in Nat
  BY ConstantFacts DEF WindowInv, TypeOK
<1>2. win.drained \in Nat /\ win.first \in Int
  BY <1>1, WindowFields
<1> QED  BY <1>1, <1>2 DEF WindowInv, PostsAccounted

\* A pass that only re-evaluates the window keeps its part of the invariant.
LEMMA ReevaluateKeeps ==
    ASSUME WindowInv, Reevaluate, UNCHANGED <<loginSent, arrived, lost>>
    PROVE  /\ win' \in Window /\ announced' \in Nat
           /\ ShutIsEmpty(win)' /\ SweptBelowCeiling' /\ SuppressionBounded'
           /\ PostsAccounted'
<1>1. win \in Window /\ ShutIsEmpty(win)
  BY WindowInvFacts DEF WindowInv
<1>2. /\ win' \in Window /\ ShutIsEmpty(win)'
      /\ TickAnnounces \in Nat /\ TickAnnounces + win'.drained = win.drained
      /\ win'.first < SuppressionCeiling
  BY <1>1, SchedulerTickFact DEF Reevaluate, ShutIsEmpty
<1>3. announced' = announced + TickAnnounces
  BY DEF Reevaluate
<1>4. win'.drained \in Nat /\ win'.first \in Int
  BY <1>2, WindowFields
<1> DEFINE d == win.drained  e == win'.drained  t == TickAnnounces  f == win'.first
<1>5. t \in Nat /\ e \in Nat /\ d \in Nat /\ t + e = d /\ f \in Int /\ f < SuppressionCeiling
      /\ arrived = announced + d + lost
  BY <1>2, <1>4, WindowInvFacts
<1> HIDE DEF d, e, t, f
<1>6. announced + t \in Nat /\ arrived = announced + t + e + lost
  BY <1>5, WindowInvFacts
<1>7. f <= SuppressionCeiling
  BY <1>5, ConstantFacts
<1>8. announced' \in Nat /\ PostsAccounted'
  BY <1>3, <1>6 DEF PostsAccounted, t, e
<1> QED  BY <1>2, <1>7, <1>8 DEF SweptBelowCeiling, SuppressionBounded, f

\* So does a step that lets the window give up posts it announces.
LEMMA FlushKeeps ==
    ASSUME WindowInv, UNCHANGED <<loginSent, arrived, lost>>, swept' = FALSE,
           win' \in Window, ShutIsEmpty(win'), win'.drained <= win.drained,
           win'.first \in {win.first, NotSet} \/ win'.first < SuppressionCeiling,
           announced' = announced + (win.drained - win'.drained)
    PROVE  /\ announced' \in Nat
           /\ ShutIsEmpty(win)' /\ SweptBelowCeiling' /\ SuppressionBounded'
           /\ PostsAccounted'
<1>1. win'.drained \in Nat /\ win'.first \in Int
  BY WindowFields
<1> DEFINE d == win.drained  e == win'.drained  f == win'.first  g == win.first
<1>2. /\ e \in Nat /\ d \in Nat /\ e <= d /\ arrived = announced + d + lost
      /\ announced' = announced + (d - e)
      /\ f \in Int /\ g \in Int /\ (f = g \/ f = NotSet \/ f < SuppressionCeiling)
      /\ loginSent => g <= SuppressionCeiling
  BY <1>1, WindowInvFacts DEF WindowInv, SuppressionBounded
<1> HIDE DEF d, e, f, g
<1>3. announced' \in Nat /\ arrived = announced' + e + lost
  BY <1>2, WindowInvFacts
<1>4. loginSent => f <= SuppressionCeiling
  BY <1>2, ConstantFacts DEF NotSet
<1>5. ShutIsEmpty(win)' /\ SweptBelowCeiling'
  BY DEF ShutIsEmpty, SweptBelowCeiling
<1>6. SuppressionBounded' /\ PostsAccounted'
  BY <1>3, <1>4 DEF SuppressionBounded, PostsAccounted, e, f
<1> QED  BY <1>3, <1>5, <1>6

\* The scheduler's branches.
LEMMA SchedulerKeepsWindow == WindowInv /\ Scheduler => WindowInv'
<1> SUFFICES ASSUME WindowInv, Scheduler PROVE WindowInv'
  OBVIOUS
<1> USE DEF routeVars, aliveVars, drainVars
<1>0. TypeOK
  BY DEF WindowInv
<1>1. CASE SkipRoom
  <2>1. TypeOK'
    BY <1>0, <1>1 DEF SkipRoom, TypeOK
  <2>2. ShutIsEmpty(win)' /\ SweptBelowCeiling' /\ SuppressionBounded' /\ PostsAccounted'
    BY <1>1 DEF SkipRoom, WindowInv, ShutIsEmpty, SweptBelowCeiling, SuppressionBounded,
                PostsAccounted
  <2> QED  BY <2>1, <2>2 DEF WindowInv
<1>2. CASE RefloodWait
  <2>1. /\ win' \in Window /\ announced' \in Nat /\ ShutIsEmpty(win)'
        /\ SweptBelowCeiling' /\ SuppressionBounded' /\ PostsAccounted'
    BY <1>2, ReevaluateKeeps DEF RefloodWait, SchedulerPass
  <2>2. TypeOK'
    BY <1>0, <1>2, <2>1 DEF RefloodWait, SchedulerPass, TypeOK
  <2> QED  BY <2>1, <2>2 DEF WindowInv
<1>3. CASE Reflood
  <2>1. /\ win' \in Window /\ announced' \in Nat /\ ShutIsEmpty(win)'
        /\ SweptBelowCeiling' /\ SuppressionBounded' /\ PostsAccounted'
    BY <1>3, ReevaluateKeeps DEF Reflood, SchedulerPass
  <2>2. refloodAttempts' \in 0..MaxDoublings /\ logins' \in 0..MaxLogins
    BY <1>0, <1>3, ConstantFacts DEF Reflood, TypeOK, Min2
  <2>3. TypeOK'
    BY <1>0, <1>3, <2>1, <2>2, ConstantFacts DEF Reflood, SchedulerPass, TypeOK
  <2> QED  BY <2>1, <2>3 DEF WindowInv
<1>4. CASE KeepAliveWait
  <2>1. /\ win' \in Window /\ announced' \in Nat /\ ShutIsEmpty(win)'
        /\ SweptBelowCeiling' /\ SuppressionBounded' /\ PostsAccounted'
    BY <1>4, ReevaluateKeeps DEF KeepAliveWait, SchedulerPass
  <2>2. TypeOK'
    BY <1>0, <1>4, <2>1 DEF KeepAliveWait, SchedulerPass, TypeOK
  <2> QED  BY <2>1, <2>2 DEF WindowInv
<1>5. CASE SendKeepAlive
  <2>1. /\ win' \in Window /\ announced' \in Nat /\ ShutIsEmpty(win)'
        /\ SweptBelowCeiling' /\ SuppressionBounded' /\ PostsAccounted'
    BY <1>5, ReevaluateKeeps DEF SendKeepAlive, KeepAliveTick, SchedulerPass
  <2>2. TypeOK'
    BY <1>0, <1>5, <2>1, ConstantFacts DEF SendKeepAlive, KeepAliveTick, SchedulerPass, TypeOK
  <2> QED  BY <2>1, <2>2 DEF WindowInv
<1>6. CASE MissKeepAlive
  <2>1. /\ win' \in Window /\ announced' \in Nat /\ ShutIsEmpty(win)'
        /\ SweptBelowCeiling' /\ SuppressionBounded' /\ PostsAccounted'
    BY <1>6, ReevaluateKeeps DEF MissKeepAlive, KeepAliveTick, SchedulerPass
  <2>2. missed' \in 0..(StallThreshold - 1)
    BY <1>0, <1>6, ConstantFacts DEF MissKeepAlive, StallReached, TypeOK
  <2>3. TypeOK'
    BY <1>0, <1>6, <2>1, <2>2, ConstantFacts
       DEF MissKeepAlive, KeepAliveTick, SchedulerPass, TypeOK
  <2> QED  BY <2>1, <2>3 DEF WindowInv
<1>7. CASE InvalidateRoute
  <2>1. /\ OnSchedulerTick \in Window /\ ShutIsEmpty(OnSchedulerTick)
        /\ TickAnnounces \in Nat /\ TickAnnounces + OnSchedulerTick.drained = win.drained
        /\ OnSchedulerTick.first < SuppressionCeiling
    BY SchedulerTickFact, WindowInvFacts DEF WindowInv
  <2>2. /\ win' \in Window /\ ShutIsEmpty(win') /\ win'.drained <= OnSchedulerTick.drained
        /\ win'.first \in {OnSchedulerTick.first, NotSet}
    BY <1>7, <2>1, CloserFailedFact DEF InvalidateRoute
  <2>3. win'.drained <= win.drained
    <3> DEFINE e == win'.drained  c == OnSchedulerTick.drained  d == win.drained
    <3>1. e \in Nat /\ c \in Nat /\ d \in Nat /\ e <= c
      BY <2>1, <2>2, WindowFields, WindowInvFacts
    <3>2. TickAnnounces \in Nat /\ TickAnnounces + c = d
      BY <2>1
    <3> HIDE DEF e, c, d
    <3>3. e <= d
      BY <3>1, <3>2
    <3> QED  BY <3>3 DEF e, d
  <2>4. /\ announced' \in Nat /\ ShutIsEmpty(win)'
        /\ SweptBelowCeiling' /\ SuppressionBounded' /\ PostsAccounted'
    <3>1. win'.first \in {win.first, NotSet} \/ win'.first < SuppressionCeiling
      BY <2>1, <2>2
    <3>2. announced' = announced + (win.drained - win'.drained) /\ swept' = FALSE
      BY <1>7 DEF InvalidateRoute
    <3>3. UNCHANGED <<loginSent, arrived, lost>>
      BY <1>7 DEF InvalidateRoute, KeepAliveTick, SchedulerPass
    <3> QED  BY <2>2, <2>3, <3>1, <3>2, <3>3, FlushKeeps
  <2>5. TypeOK'
    <3>1. keepAliveAge' \in 0..RoutineInterval /\ missed' \in 0..(StallThreshold - 1)
      BY <1>7, ConstantFacts DEF InvalidateRoute, KeepAliveTick
    <3>2. /\ everKeptAlive' \in BOOLEAN /\ pendingAck' \in BOOLEAN /\ routeKnown' \in BOOLEAN
          /\ swept' \in BOOLEAN
      BY <1>7 DEF InvalidateRoute, KeepAliveTick
    <3>3. UNCHANGED <<refloodAge, refloodAttempts, loginSent, logins, recent, arrived, lost>>
      BY <1>7 DEF InvalidateRoute, KeepAliveTick, SchedulerPass
    <3> QED  BY <1>0, <2>2, <2>4, <3>1, <3>2, <3>3 DEF TypeOK
  <2> QED  BY <2>4, <2>5 DEF WindowInv
<1> QED  BY <1>1, <1>2, <1>3, <1>4, <1>5, <1>6, <1>7 DEF Scheduler
\* Frames from the server.
LEMMA ServerKeepsWindow == WindowInv /\ ServerFrame => WindowInv'
<1> SUFFICES ASSUME WindowInv, ServerFrame PROVE WindowInv'
  OBVIOUS
<1> USE DEF routeVars, drainVars
<1>0. TypeOK
  BY DEF WindowInv
<1>1. ASSUME NEW taught \in BOOLEAN, LoginReply(taught) PROVE WindowInv'
  <2>1. win' \in Window /\ win'.draining = TRUE /\ win'.drained = 0 /\ win'.first = NotSet
    BY <1>1, NewAfterLoginFact DEF LoginReply
  <2>2. lost' \in Nat /\ PostsAccounted'
    <3> DEFINE d == win.drained
    <3>1. d \in Nat /\ arrived = announced + d + lost /\ lost' = lost + d
      BY <1>1, WindowInvFacts DEF LoginReply
    <3> HIDE DEF d
    <3>2. lost' \in Nat /\ arrived = announced + 0 + lost'
      BY <3>1, WindowInvFacts
    <3> QED  BY <1>1, <2>1, <3>2 DEF LoginReply, PostsAccounted
  <2>3. NotSet <= SuppressionCeiling
    BY ConstantFacts DEF NotSet
  <2>4. ShutIsEmpty(win)' /\ SweptBelowCeiling' /\ SuppressionBounded'
    BY <1>1, <2>1, <2>3 DEF LoginReply, ShutIsEmpty, SweptBelowCeiling, SuppressionBounded
  <2>5. TypeOK'
    <3>1. logins' \in 0..MaxLogins /\ missed' \in 0..(StallThreshold - 1)
      BY <1>0, <1>1, ConstantFacts DEF LoginReply, TypeOK
    <3>2. refloodAttempts' \in 0..MaxDoublings
      BY <1>0, <1>1, ConstantFacts DEF LoginReply, TypeOK
    <3>3. routeKnown' \in BOOLEAN /\ swept' \in BOOLEAN
      BY <1>1 DEF LoginReply
    <3>4. UNCHANGED <<refloodAge, everKeptAlive, keepAliveAge, pendingAck, loginSent, recent,
                      arrived, announced>>
      BY <1>1 DEF LoginReply
    <3> QED  BY <1>0, <2>1, <2>2, <3>1, <3>2, <3>3, <3>4 DEF TypeOK
  <2> QED  BY <2>2, <2>4, <2>5 DEF WindowInv
<1>2. ASSUME NEW p \in Posts, PushNew(p) PROVE WindowInv'
  <2>1. /\ win' \in Window /\ ShutIsEmpty(win)' /\ PostAnnounces \in Nat
        /\ PostAnnounces + win'.drained = win.drained + 1
        /\ loginSent => win'.first <= SuppressionCeiling
    BY <1>2, PostReceivedFact, WindowInvFacts
       DEF PushNew, WindowInv, SuppressionBounded, ShutIsEmpty
  <2>2. announced' \in Nat /\ PostsAccounted'
    <3> DEFINE d == win.drained  e == win'.drained  n == PostAnnounces
    <3>1. /\ d \in Nat /\ e \in Nat /\ n \in Nat /\ n + e = d + 1
          /\ arrived = announced + d + lost
      BY <2>1, WindowFields, WindowInvFacts
    <3> HIDE DEF d, e, n
    <3>2. announced + n \in Nat /\ arrived + 1 = announced + n + e + lost
      BY <3>1, WindowInvFacts
    <3> QED  BY <1>2, <3>2 DEF PushNew, PostsAccounted, e, n
  <2>3. SweptBelowCeiling' /\ SuppressionBounded'
    BY <1>2, <2>1 DEF PushNew, SweptBelowCeiling, SuppressionBounded
  <2>4. recent' \in Seq(Posts) /\ Len(recent') <= RecentCap
    <3>1. recent \in Seq(Posts) /\ Len(recent) \in Nat /\ Len(recent) <= RecentCap
      BY <1>0 DEF TypeOK
    <3>2. CASE Len(recent) >= RecentCap
      <4>1. recent # <<>>
        BY <3>1, <3>2, ConstantFacts
      <4>2. Tail(recent) \in Seq(Posts) /\ Len(Tail(recent)) = Len(recent) - 1
        BY <3>1, <4>1
      <4>3. recent' = Append(Tail(recent), p)
        BY <1>2, <3>2 DEF PushNew
      <4> QED  BY <3>1, <4>2, <4>3, ConstantFacts
    <3>3. CASE ~(Len(recent) >= RecentCap)
      <4>1. recent' = Append(recent, p)
        BY <1>2, <3>3 DEF PushNew
      <4> QED  BY <3>1, <3>3, <4>1, ConstantFacts
    <3> QED  BY <3>2, <3>3
  <2>5. TypeOK'
    <3>1. /\ missed' \in 0..(StallThreshold - 1) /\ refloodAttempts' \in 0..MaxDoublings
          /\ swept' \in BOOLEAN
      BY <1>2, ZeroFacts DEF PushNew
    <3>3. arrived' \in 0..MaxArrivals
      BY <1>0, <1>2, ConstantFacts DEF PushNew, TypeOK
    <3>2. UNCHANGED <<routeKnown, refloodAge, everKeptAlive, keepAliveAge, pendingAck,
                      loginSent, logins, lost>>
      BY <1>2 DEF PushNew
    <3> QED  BY <1>0, <2>1, <2>2, <2>4, <3>1, <3>2, <3>3 DEF TypeOK
  <2> QED  BY <2>1, <2>2, <2>3, <2>5 DEF WindowInv
<1>3. ASSUME NEW p \in Posts, PushAgain(p) PROVE WindowInv'
  <2>1. TypeOK'
    BY <1>0, <1>3, ZeroFacts DEF PushAgain, TypeOK
  <2>2. ShutIsEmpty(win)' /\ SweptBelowCeiling' /\ SuppressionBounded' /\ PostsAccounted'
    BY <1>3 DEF PushAgain, WindowInv, ShutIsEmpty, SweptBelowCeiling, SuppressionBounded,
                PostsAccounted
  <2> QED  BY <2>1, <2>2 DEF WindowInv
<1>4. ASSUME NEW unsynced \in {0, 1}, KeepAliveAck(unsynced) PROVE WindowInv'
  <2>1. /\ win' \in Window /\ ShutIsEmpty(win') /\ win'.drained <= win.drained
        /\ win'.first \in {win.first, NotSet}
    BY <1>4, KeepAliveAckFact, WindowInvFacts DEF KeepAliveAck, WindowInv
  <2>2. /\ announced' \in Nat /\ ShutIsEmpty(win)'
        /\ SweptBelowCeiling' /\ SuppressionBounded' /\ PostsAccounted'
    BY <1>4, <2>1, FlushKeeps DEF KeepAliveAck
  <2>3. TypeOK'
    <3>1. missed' \in 0..(StallThreshold - 1) /\ pendingAck' \in BOOLEAN /\ swept' \in BOOLEAN
      BY <1>4, ZeroFacts DEF KeepAliveAck
    <3>2. UNCHANGED <<routeVars, everKeptAlive, keepAliveAge, loginSent, logins, recent,
                      arrived, lost>>
      BY <1>4 DEF KeepAliveAck
    <3> QED  BY <1>0, <2>1, <2>2, <3>1, <3>2 DEF TypeOK
  <2> QED  BY <2>2, <2>3 DEF WindowInv
<1>5. CASE KeepAliveAckCutShort
  <2>1. TypeOK'
    BY <1>0, <1>5, ZeroFacts DEF KeepAliveAckCutShort, TypeOK
  <2>2. ShutIsEmpty(win)' /\ SweptBelowCeiling' /\ SuppressionBounded' /\ PostsAccounted'
    BY <1>5 DEF KeepAliveAckCutShort, WindowInv, ShutIsEmpty, SweptBelowCeiling,
                SuppressionBounded, PostsAccounted
  <2> QED  BY <2>1, <2>2 DEF WindowInv
<1> QED  BY <1>1, <1>2, <1>3, <1>4, <1>5 DEF ServerFrame

\* The clock: the post that was younger than the ceiling may now have reached it.
LEMMA TickKeepsWindow == WindowInv /\ Tick => WindowInv'
<1> SUFFICES ASSUME WindowInv, Tick PROVE WindowInv'
  OBVIOUS
<1>0. TypeOK
  BY DEF WindowInv
<1> DEFINE f == win.first
           g == IF f = NotSet THEN f ELSE Min2(f + 1, SuppressionCeiling + 1)
           q == Min2(win.progress + 1, StallTimeout)
<1>1. f \in Nat \cup {NotSet} /\ win.progress \in Nat
  BY <1>0 DEF TypeOK, Window
<1>2. win' = [win EXCEPT !.progress = q, !.first = g]
  BY DEF Tick
<1>3. q \in Nat
  BY <1>1, ConstantFacts DEF Min2
<1> HIDE DEF f, q
<1>4. g \in Nat \cup {NotSet} /\ (f = NotSet => g = NotSet)
      /\ (f < SuppressionCeiling => g <= SuppressionCeiling)
  BY <1>1, ConstantFacts DEF Min2, NotSet
<1> HIDE DEF g
<1>5. win' \in Window
  BY <1>0, <1>2, <1>3, <1>4 DEF TypeOK, Window
<1>6. win'.draining = win.draining /\ win'.drained = win.drained /\ win'.first = g
  BY <1>0, <1>2 DEF TypeOK, Window
<1>7. ShutIsEmpty(win)'
  BY <1>4, <1>6 DEF WindowInv, ShutIsEmpty, f
<1>8. SweptBelowCeiling' /\ SuppressionBounded'
  BY <1>4, <1>6 DEF WindowInv, Tick, SweptBelowCeiling, SuppressionBounded, f
<1>9. PostsAccounted'
  BY <1>6 DEF WindowInv, Tick, PostsAccounted
<1>10. TypeOK'
  <2>1. refloodAge' \in 0..RefloodCeiling /\ keepAliveAge' \in 0..RoutineInterval
    <3>1. /\ refloodAge \in Nat /\ keepAliveAge \in Nat
          /\ refloodAge' = Min2(refloodAge + 1, RefloodCeiling)
          /\ keepAliveAge' = Min2(keepAliveAge + 1, RoutineInterval)
      BY <1>0 DEF Tick, TypeOK
    <3>2. refloodAge + 1 \in Nat /\ keepAliveAge + 1 \in Nat
      BY <3>1
    <3> QED  BY <3>1, <3>2, Min2Fact, ConstantFacts
  <2> QED  BY <1>0, <1>5, <2>1 DEF Tick, TypeOK
<1> QED  BY <1>7, <1>8, <1>9, <1>10 DEF WindowInv

LEMMA WindowInvHolds == Spec => []WindowInv
<1>1. Init => WindowInv
  BY WindowInit
<1>2. WindowInv /\ [Next]_vars => WindowInv'
  <2> SUFFICES ASSUME WindowInv, [Next]_vars PROVE WindowInv'
    OBVIOUS
  <2>1. CASE Next
    BY <2>1, SchedulerKeepsWindow, ServerKeepsWindow, TickKeepsWindow DEF Next
  <2>2. CASE UNCHANGED vars
    <3>1. TypeOK'
      BY <2>2 DEF WindowInv, TypeOK, vars, drainVars, routeVars, aliveVars
    <3>2. ShutIsEmpty(win)' /\ SweptBelowCeiling' /\ SuppressionBounded' /\ PostsAccounted'
      BY <2>2 DEF WindowInv, ShutIsEmpty, SweptBelowCeiling, SuppressionBounded,
                  PostsAccounted, vars, drainVars
    <3> QED  BY <3>1, <3>2 DEF WindowInv
  <2> QED  BY <2>1, <2>2
<1> QED  BY <1>1, <1>2, PTL DEF Spec

\* The variables of a room session always have their types; in particular the
\* stall detector's count stays below its threshold and the dedup tail within
\* its capacity.
THEOREM TypeCorrect == Spec => []TypeOK
<1>1. WindowInv => TypeOK
  BY DEF WindowInv
<1> QED  BY <1>1, WindowInvHolds, PTL

\* No closer of the drain window counts a post twice or drops one: what is
\* neither announced nor waiting was in the window a login reply replaced.
THEOREM Accounting == Spec => []PostsAccounted
<1>1. WindowInv => PostsAccounted
  BY DEF WindowInv
<1> QED  BY <1>1, WindowInvHolds, PTL

\* A room whose boot login went out never holds a post back past the ceiling.
THEOREM CeilingHolds == Spec => []SuppressionBounded
<1>1. WindowInv => SuppressionBounded
  BY DEF WindowInv
<1> QED  BY <1>1, WindowInvHolds, PTL
-----------------------------------------------------------------------------
(***************************************************************************)
(* The relearn.  An expected ACK means a route and a keep-alive sent after *)
(* the last re-flood; every miss counted since then took one more draining *)
(* interval at least, so the misses that exhaust the threshold have taken  *)
(* the whole initial backoff.                                              *)
(***************************************************************************)
WaitedSinceReflood ==
    pendingAck => \/ refloodAge >= RefloodInitial
                  \/ refloodAge >= missed * DrainingInterval + keepAliveAge

RelearnInv ==
    /\ routeKnown => refloodAttempts = 0
    /\ pendingAck => routeKnown /\ everKeptAlive
    /\ ~pendingAck => missed = 0
    /\ WaitedSinceReflood

LEMMA RelearnInit == Init => RelearnInv
BY DEF Init, RelearnInv, WaitedSinceReflood

\* A due keep-alive, once one was sent, is at least one draining interval old.
LEMMA DueMeansInterval ==
    ASSUME TypeOK, everKeptAlive, KeepAliveDue
    PROVE  keepAliveAge >= DrainingInterval
BY ConstantFacts DEF KeepAliveDue, KeepAliveInterval, TypeOK

LEMMA Types ==
    ASSUME TypeOK
    PROVE  /\ missed \in Nat /\ missed <= StallThreshold - 1
           /\ refloodAge \in Nat /\ keepAliveAge \in Nat
           /\ pendingAck \in BOOLEAN /\ routeKnown \in BOOLEAN /\ everKeptAlive \in BOOLEAN
BY ConstantFacts DEF TypeOK

\* The miss being counted took a draining interval of its own.
LEMMA MissTakesInterval ==
    ASSUME TypeOK, RelearnInv, pendingAck, KeepAliveDue
    PROVE  \/ refloodAge >= RefloodInitial
           \/ refloodAge >= (missed + 1) * DrainingInterval
<1>1. keepAliveAge >= DrainingInterval
  BY DueMeansInterval DEF RelearnInv
<1>2. missed \in Nat /\ refloodAge \in Nat /\ keepAliveAge \in Nat /\ DrainingInterval \in Nat
  BY Types, ConstantFacts
<1>3. (missed + 1) * DrainingInterval = missed * DrainingInterval + DrainingInterval
  BY <1>2
<1>4. missed * DrainingInterval \in Nat
  BY <1>2
<1>5. refloodAge >= RefloodInitial \/ refloodAge >= missed * DrainingInterval + keepAliveAge
  BY DEF RelearnInv, WaitedSinceReflood
<1> DEFINE m == missed * DrainingInterval
<1> HIDE DEF m
<1>6. CASE refloodAge >= m + keepAliveAge
  <2>1. m \in Nat
    BY <1>4 DEF m
  <2>2. refloodAge >= m + DrainingInterval
    BY <1>1, <1>2, <1>6, <2>1
  <2> QED  BY <1>3, <2>2 DEF m
<1> QED  BY <1>5, <1>6 DEF m

\* The route is given up only when the backoff has run out.
LEMMA InvalidateIsPrompt ==
    ASSUME TypeOK, RelearnInv, InvalidateRoute
    PROVE  refloodAttempts' = 0 /\ refloodAge' >= RefloodInitial
<1>1. /\ pendingAck /\ KeepAliveDue /\ missed + 1 >= StallThreshold
      /\ refloodAge' = refloodAge /\ refloodAttempts' = refloodAttempts
  BY DEF InvalidateRoute, KeepAliveTick, StallReached
<1>2. missed + 1 = StallThreshold
  BY <1>1, Types, ConstantFacts
<1>3. \/ refloodAge >= RefloodInitial
      \/ refloodAge >= StallThreshold * DrainingInterval
  BY <1>1, <1>2, MissTakesInterval
<1> DEFINE s == StallThreshold * DrainingInterval
<1>4. s \in Nat /\ s >= RefloodInitial
  BY RelearnAssumption, ConstantFacts
<1> HIDE DEF s
<1>5. refloodAge >= s => refloodAge >= RefloodInitial
  BY <1>4, Types, ConstantFacts
<1>6. refloodAge >= RefloodInitial
  BY <1>3, <1>5 DEF s
<1>7. refloodAttempts = 0
  BY <1>1 DEF RelearnInv
<1> QED  BY <1>1, <1>6, <1>7

LEMMA RelearnStep == TypeOK /\ RelearnInv /\ [Next]_vars => RelearnInv'
<1> SUFFICES ASSUME TypeOK, RelearnInv, [Next]_vars PROVE RelearnInv'
  OBVIOUS
<1> USE DEF routeVars, aliveVars, drainVars
<1>0. 0 * DrainingInterval = 0
  BY ConstantFacts
<1>a. ASSUME UNCHANGED <<routeKnown, refloodAge, refloodAttempts, everKeptAlive, keepAliveAge,
                         pendingAck, missed>>
      PROVE  RelearnInv'
  BY <1>a DEF RelearnInv, WaitedSinceReflood
\* Proof of life: the misses are forgotten, the ACK may still be awaited.
<1>b. ASSUME UNCHANGED <<refloodAge, everKeptAlive, keepAliveAge, pendingAck>>, missed' = 0,
             routeKnown => routeKnown', routeKnown' => refloodAttempts' = 0
      PROVE  RelearnInv'
  <2> DEFINE m == missed * DrainingInterval
  <2>1. m \in Nat
    BY Types, ConstantFacts
  <2>2. pendingAck => refloodAge >= RefloodInitial \/ refloodAge >= m + keepAliveAge
    BY DEF RelearnInv, WaitedSinceReflood
  <2> HIDE DEF m
  <2>3. pendingAck => refloodAge >= RefloodInitial \/ refloodAge >= 0 + keepAliveAge
    BY <2>1, <2>2, Types
  <2>4. WaitedSinceReflood'
    BY <1>0, <1>b, <2>3 DEF WaitedSinceReflood
  <2> QED  BY <1>b, <2>4 DEF RelearnInv
<1>1. CASE SkipRoom \/ RefloodWait \/ KeepAliveWait
  BY <1>1, <1>a DEF SkipRoom, RefloodWait, KeepAliveWait
<1>2. CASE Reflood
  <2>1. ~routeKnown /\ ~routeKnown' /\ pendingAck' = pendingAck /\ missed' = missed
    BY <1>2 DEF Reflood
  <2> QED  BY <2>1 DEF RelearnInv, WaitedSinceReflood
<1>3. CASE SendKeepAlive
  <2>1. /\ pendingAck' /\ routeKnown' /\ everKeptAlive' /\ refloodAttempts' = 0
        /\ missed' = 0 /\ keepAliveAge' = 0 /\ refloodAge' = refloodAge
    BY <1>3 DEF SendKeepAlive, KeepAliveTick, RelearnInv
  <2>2. refloodAge >= 0 + 0
    BY Types
  <2>3. WaitedSinceReflood'
    BY <1>0, <2>1, <2>2 DEF WaitedSinceReflood
  <2> QED  BY <2>1, <2>3 DEF RelearnInv
<1>4. CASE MissKeepAlive
  <2>1. /\ pendingAck /\ pendingAck' /\ routeKnown' /\ everKeptAlive' /\ refloodAttempts' = 0
        /\ missed' = missed + 1 /\ keepAliveAge' = 0 /\ refloodAge' = refloodAge /\ KeepAliveDue
    BY <1>4 DEF MissKeepAlive, KeepAliveTick, RelearnInv
  <2>2. \/ refloodAge >= RefloodInitial
        \/ refloodAge >= (missed + 1) * DrainingInterval
    BY <2>1, MissTakesInterval
  <2>3. (missed + 1) * DrainingInterval + 0 = (missed + 1) * DrainingInterval
    BY Types, ConstantFacts
  <2>4. WaitedSinceReflood'
    BY <2>1, <2>2, <2>3 DEF WaitedSinceReflood
  <2> QED  BY <2>1, <2>4 DEF RelearnInv
<1>5. CASE InvalidateRoute
  BY <1>5 DEF InvalidateRoute, RelearnInv, WaitedSinceReflood
<1>6. ASSUME NEW taught \in BOOLEAN, LoginReply(taught) PROVE RelearnInv'
  BY <1>6, <1>b DEF LoginReply
<1>7. ASSUME NEW p \in Posts, PushNew(p) \/ PushAgain(p) PROVE RelearnInv'
  BY <1>7, <1>b DEF PushNew, PushAgain
<1>8. ASSUME NEW unsynced \in {0, 1}, KeepAliveAck(unsynced) PROVE RelearnInv'
  BY <1>8 DEF KeepAliveAck, RelearnInv, WaitedSinceReflood
<1>9. CASE KeepAliveAckCutShort
  BY <1>9 DEF KeepAliveAckCutShort, RelearnInv, WaitedSinceReflood
<1>10. CASE Tick
  <2> DEFINE m == missed * DrainingInterval
  <2>1. m \in Nat
    BY Types, ConstantFacts
  <2>2. pendingAck => refloodAge >= RefloodInitial \/ refloodAge >= m + keepAliveAge
    BY DEF RelearnInv, WaitedSinceReflood
  <2>3. /\ refloodAge' = Min2(refloodAge + 1, RefloodCeiling)
        /\ keepAliveAge' = Min2(keepAliveAge + 1, RoutineInterval)
        /\ UNCHANGED <<routeKnown, refloodAttempts, everKeptAlive, pendingAck, missed>>
    BY <1>10 DEF Tick
  <2> HIDE DEF m
  <2>4. pendingAck => refloodAge' >= RefloodInitial \/ refloodAge' >= m + keepAliveAge'
    BY <2>1, <2>2, <2>3, Types, ConstantFacts DEF Min2
  <2>5. WaitedSinceReflood'
    BY <2>3, <2>4 DEF WaitedSinceReflood, m
  <2> QED  BY <2>3, <2>5 DEF RelearnInv
<1>11. CASE UNCHANGED vars
  BY <1>11, <1>a DEF vars
<1> QED
  BY <1>1, <1>2, <1>3, <1>4, <1>5, <1>6, <1>7, <1>8, <1>9, <1>10, <1>11
     DEF Next, Scheduler, ServerFrame

\* For every choice of cadences in which the misses a route is given take at
\* least the initial backoff (30 s and two draining intervals of 15 s in the
\* code), the pass after the one that gives a route up floods the login.
THEOREM RelearnIsPrompt == Spec => PromptRelearn
<1> DEFINE Prompt == routeKnown /\ ~routeKnown' =>
                         refloodAttempts' = 0 /\ refloodAge' >= RefloodInitial
<1>1. Init => RelearnInv
  BY RelearnInit
<1>2. TypeOK /\ RelearnInv /\ [Next]_vars => RelearnInv'
  BY RelearnStep
<1>3. TypeOK /\ RelearnInv /\ [Next]_vars => [Prompt]_vars
  <2> SUFFICES ASSUME TypeOK, RelearnInv, Next, routeKnown, ~routeKnown'
               PROVE  refloodAttempts' = 0 /\ refloodAge' >= RefloodInitial
    OBVIOUS
  <2>1. InvalidateRoute
    BY DEF Next, Scheduler, ServerFrame, SkipRoom, RefloodWait, Reflood, KeepAliveWait,
           SendKeepAlive, MissKeepAlive, LoginReply, PushNew, PushAgain, KeepAliveAck,
           KeepAliveAckCutShort, Tick, routeVars
  <2> QED  BY <2>1, InvalidateIsPrompt
<1> QED  BY <1>1, <1>2, <1>3, TypeCorrect, PTL DEF Spec, PromptRelearn
=============================================================================
